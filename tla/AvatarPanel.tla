----------------------------- MODULE AvatarPanel -----------------------------
(***************************************************************************)
(* The dialog in which a player changes their photo (apps/web:             *)
(* stage-avatar.tsx, avatar-dialog.tsx, avatar-panel.tsx,                  *)
(* avatar-cropper.tsx, crop-geometry.ts; apps/api: routes/avatars.ts).     *)
(* One staged draft drives the dialog, and Save is its only commit.  A     *)
(* file is cropped, which takes a while, then sent; Cancel waits for the   *)
(* answer, while Escape, the backdrop and the cross do not: the call goes  *)
(* on, and what it does when it settles it does to whatever dialog is open *)
(* by then.                                                                *)
(***************************************************************************)
EXTENDS Integers, Sequences, FiniteSets

CONSTANTS
  Images,       \* the files one may pick, by width and height
  Frame,        \* the crop frame
  MaxZoom,      \* MAX_ZOOM
  Drags,        \* bound: moves of the pointer, <<x, y>>
  MaxDrafts,    \* bound: dialogs opened and drafts staged
  MaxSaves,     \* bound: presses of Save
  MaxMishaps    \* bound: what goes wrong

\* Frames are even and the longer side of an image is a multiple of the shorter:
\* every length below is whole.
ASSUME AvatarPanelAssumption ==
  /\ {MaxDrafts, MaxSaves, MaxMishaps} \subseteq Nat
  /\ {MaxZoom, Frame} \subseteq Nat \ {0} /\ Frame % 2 = 0
  /\ \A i \in Images : {i.width, i.height} \subseteq Nat \ {0}
  /\ Drags \subseteq Int \X Int

VARIABLES
  stored,      \* the avatars row: whose picture it holds, or "none"
  cached,      \* the query ["avatar"]: its value, and whether it is being asked for
  panel,       \* the draft the open dialog began with; 0 when it is closed
  draft,       \* what is staged
  shown,       \* the message under the preview
  announced,   \* the live region
  saves,       \* the presses of Save, each with what became of it
  drafts, mishaps,
  spoken,      \* history: saves whose end changed the live region
  slipped,     \* history: saves left behind: by Escape, while their file was cropped, or
               \* when the panel made another call of their kind
  behind,      \* history: the row changed where this browser could not know
  shownOf,     \* history: the save the message is about
  closedBy     \* history: of the save that closed a dialog last, whose draft it was

shownVars == <<cached, panel, draft, shown, announced>>
panelVars == <<stored, shownVars, saves, drafts, mishaps, spoken, slipped, behind,
               shownOf, closedBy>>

Photos == {"old", "file", "provider"}
Codes == {"too_large", "not_an_image", "provider_image_stale", "fetch_failed", "wrong"}
NoImage == [width |-> 1, height |-> 1]
NoView == [zoom |-> 1, x |-> 0, y |-> 0]
Staged(kind, image) ==
  [kind |-> kind, state |-> "loading", image |-> image, view |-> NoView]

AvatarPanelTypeOK ==
  /\ stored \in Photos \cup {"none"}
  /\ cached \in [hash : Photos \cup {"none", "unknown"}, asking : BOOLEAN]
  /\ draft.kind \in {"current", "file", "provider", "removed"}
  /\ draft.state \in {"loading", "ready", "broken"} /\ draft.view.zoom \in 1 .. MaxZoom
  /\ shown \in Codes \cup {""} /\ announced \in Codes \cup {"", "updated", "removed"}
  /\ \A i \in DOMAIN saves : saves[i].stage \in {"cropping", "dropped", "sent", "landed", "settled"}
  /\ panel \in 0 .. drafts /\ drafts \in 0 .. MaxDrafts /\ mishaps \in 0 .. MaxMishaps
  /\ spoken \cup slipped \subseteq DOMAIN saves /\ shownOf \in 0 .. Len(saves)

AvatarPanelInit ==
  /\ stored = "old"
  /\ cached = [hash |-> "unknown", asking |-> TRUE]
  /\ panel = 0 /\ draft = Staged("current", NoImage) /\ shown = "" /\ announced = ""
  /\ saves = <<>> /\ drafts = 0 /\ mishaps = 0
  /\ spoken = {} /\ slipped = {} /\ behind = FALSE /\ shownOf = 0
  /\ closedBy = [save |-> 0, draft |-> 0]

-----------------------------------------------------------------------------
\* crop-geometry.ts, for the side d of an image: zoomed out fully, the shorter side
\* fills the frame.
Displayed(i, d, zoom) ==
  (Frame * zoom * i[d]) \div (IF i.width < i.height THEN i.width ELSE i.height)

InitialView(i) ==
  [zoom |-> 1, x |-> (Frame - Displayed(i, "width", 1)) \div 2,
               y |-> (Frame - Displayed(i, "height", 1)) \div 2]

Clamp(v, low, high) == IF v < low THEN low ELSE IF v > high THEN high ELSE v

\* clampView: the offsets are bounded by the new scale.
ClampView(v, i) ==
  LET zoom == Clamp(v.zoom, 1, MaxZoom)
  IN  [zoom |-> zoom, x |-> Clamp(v.x, Frame - Displayed(i, "width", zoom), 0),
                      y |-> Clamp(v.y, Frame - Displayed(i, "height", zoom), 0)]

\* The square sourceRect takes lies within the picture.
Covers(v, i) ==
  /\ v.x <= 0 /\ v.x + Displayed(i, "width", v.zoom) >= Frame
  /\ v.y <= 0 /\ v.y + Displayed(i, "height", v.zoom) >= Frame

-----------------------------------------------------------------------------
Cropping == {i \in DOMAIN saves : saves[i].stage = "cropping"}
InFlight == {i \in DOMAIN saves : saves[i].stage \in {"sent", "landed"}}

\* A mutation of the open panel follows its last call only.
Followed(i) == saves[i].panel = panel /\ saves[i].followed
Saving == \E i \in InFlight : Followed(i)

Mishap == mishaps < MaxMishaps /\ mishaps' = mishaps + 1

-----------------------------------------------------------------------------
\* The dialog and its draft.

\* The pencil: the query is mounted and asks again.
OpensPanel ==
  /\ panel = 0 /\ drafts < MaxDrafts
  /\ drafts' = drafts + 1 /\ panel' = drafts + 1
  /\ draft' = Staged("current", NoImage) /\ shown' = ""
  /\ cached' = [cached EXCEPT !.asking = TRUE]
  /\ UNCHANGED <<stored, announced, saves, mishaps, spoken, slipped, behind, shownOf, closedBy>>

\* The draft goes with its panel.
Unmounts == panel' = 0 /\ draft' = Staged("current", NoImage) /\ shown' = ""

Cancels ==
  /\ panel # 0 /\ ~Saving /\ Unmounts
  /\ slipped' = slipped \cup Cropping
  /\ UNCHANGED <<stored, cached, announced, saves, drafts, mishaps, spoken, behind, shownOf, closedBy>>

\* Escape, the backdrop and the cross.
Dismisses ==
  /\ panel # 0 /\ Unmounts
  /\ slipped' = slipped \cup Cropping \cup InFlight
  /\ UNCHANGED <<stored, cached, announced, saves, drafts, mishaps, spoken, behind, shownOf, closedBy>>

\* A new draft takes the message of the old one away.
Cleared(message) == ""
Stages(kind, image) ==
  /\ panel # 0 /\ ~Saving /\ drafts < MaxDrafts
  /\ drafts' = drafts + 1 /\ draft' = Staged(kind, image) /\ shown' = Cleared(shown)
  /\ slipped' = slipped \cup Cropping
  /\ UNCHANGED <<stored, cached, panel, announced, saves, mishaps, spoken, behind, shownOf, closedBy>>

PicksFile == \E i \in Images : Stages("file", i)
\* For who has one: the provider's picture is the session's, which knows.
PicksProvider == Stages("provider", NoImage)
\* "Not known yet" is not "nothing to remove".
PicksRemoval == cached.hash # "none" /\ Stages("removed", NoImage)

ImageLoads ==
  /\ draft.kind = "file" /\ draft.state = "loading"
  /\ draft' = [draft EXCEPT !.state = "ready", !.view = InitialView(draft.image)]
  /\ UNCHANGED <<stored, cached, panel, shown, announced, saves, drafts, mishaps, spoken,
                 slipped, behind, shownOf, closedBy>>

\* A file that is no image, and a provider's link gone stale.
PreviewBreaks ==
  /\ draft.state = "loading"
  /\ Mishap
  /\ \/ draft.kind = "file" /\ announced' = "not_an_image"
     \/ draft.kind = "provider" /\ UNCHANGED announced
  /\ draft' = [draft EXCEPT !.state = "broken"]
  /\ UNCHANGED <<stored, cached, panel, shown, saves, drafts, spoken, slipped, behind,
                 shownOf, closedBy>>

\* The pointer and the slider: both go through clampView.
Reframes(view) ==
  /\ draft.kind = "file" /\ draft.state = "ready"
  /\ draft' = [draft EXCEPT !.view = ClampView(view, draft.image)]
  /\ UNCHANGED <<stored, cached, panel, shown, announced, saves, drafts, mishaps, spoken,
                 slipped, behind, shownOf, closedBy>>
DragsImage ==
  \E d \in Drags : Reframes([draft.view EXCEPT !.x = @ + d[1], !.y = @ + d[2]])
ZoomsImage == \E z \in 1 .. MaxZoom : Reframes([draft.view EXCEPT !.zoom = z])

-----------------------------------------------------------------------------
\* Save.

CanSave ==
  /\ panel # 0 /\ ~Saving
  /\ \/ draft.kind = "provider"
     \/ draft.kind = "removed" /\ cached.hash # "none"
     \/ draft.kind = "file" /\ draft.state = "ready"

\* A call begins with a blank: the same words said twice are then heard twice.
Blank(said) == ""
OnStart(said) == Blank(said)

PressesSave ==
  /\ CanSave /\ Len(saves) < MaxSaves
  /\ LET crop == draft.kind = "file"
     IN  /\ saves' = Append(saves,
              [kind |-> draft.kind, panel |-> panel, draft |-> drafts, answer |-> "",
               stage |-> IF crop THEN "cropping" ELSE "sent", followed |-> ~crop])
         /\ announced' = IF crop THEN announced ELSE OnStart(announced)
         /\ shown' = IF crop THEN shown ELSE ""
  /\ slipped' = slipped \cup Cropping
  /\ UNCHANGED <<stored, cached, panel, draft, drafts, mishaps, spoken, behind, shownOf, closedBy>>

Stage(i, stage) == [saves EXCEPT ![i].stage = stage]

\* The uploads of a panel in flight when it makes another one.
Overtaken(i) ==
  {j \in InFlight : saves[j].panel = saves[i].panel /\ saves[j].kind = saves[i].kind}

Uploads(i) ==
  [j \in DOMAIN saves |->
     IF j = i THEN [saves[j] EXCEPT !.stage = "sent", !.followed = TRUE]
     ELSE IF j \in Overtaken(i) THEN [saves[j] EXCEPT !.followed = FALSE] ELSE saves[j]]

\* A crop comes back, in any order, to a panel that may be gone.
CropEnds(i) ==
  /\ i \in Cropping
  /\ \/ /\ saves' = Uploads(i) /\ announced' = OnStart(announced)
        /\ shown' = IF saves[i].panel = panel THEN "" ELSE shown
        /\ slipped' = slipped \cup Overtaken(i)
        /\ UNCHANGED <<mishaps, shownOf>>
     \/ /\ Mishap /\ saves' = Stage(i, "dropped") /\ announced' = "wrong"
        /\ IF saves[i].panel = panel THEN shown' = "wrong" /\ shownOf' = i
           ELSE UNCHANGED <<shown, shownOf>>
        /\ UNCHANGED slipped
  /\ UNCHANGED <<stored, cached, panel, draft, drafts, spoken, behind, closedBy>>

\* What the three routes may answer instead of writing the row.
Refusals(kind) ==
  CASE kind = "file" -> {"too_large", "not_an_image"}
    [] kind = "provider" -> {"provider_image_stale", "fetch_failed"}
    [] kind = "removed" -> {}
Row(kind) == IF kind = "removed" THEN "none" ELSE kind

Lands(i) ==
  /\ saves[i].stage = "sent"
  /\ \/ stored' = Row(saves[i].kind) /\ saves' = Stage(i, "landed") /\ UNCHANGED mishaps
     \/ /\ Mishap /\ UNCHANGED stored
        /\ \E code \in Refusals(saves[i].kind) :
             saves' = [saves EXCEPT ![i].stage = "landed", ![i].answer = code]
  /\ UNCHANGED <<shownVars, drafts, spoken, slipped, behind, shownOf, closedBy>>

\* A call that does not arrive, or whose answer does not.
SaveFails(i) ==
  /\ i \in InFlight /\ saves[i].answer # "wrong" /\ Mishap
  /\ saves' = [saves EXCEPT ![i].stage = "landed", ![i].answer = "wrong"]
  /\ behind' = (behind \/ saves[i].stage = "landed")
  /\ UNCHANGED <<stored, shownVars, drafts, spoken, slipped, shownOf, closedBy>>

Said(i) ==
  IF saves[i].answer # "" THEN saves[i].answer
  ELSE IF saves[i].kind = "removed" THEN "removed" ELSE "updated"

\* settled and onMutationError: the callbacks outlive their panel.
SaveSettles(i) ==
  /\ saves[i].stage = "landed" /\ saves' = Stage(i, "settled")
  /\ announced' = Said(i)
  /\ spoken' = IF announced # Said(i) THEN spoken \cup {i} ELSE spoken
  /\ IF saves[i].answer = ""
     THEN /\ cached' = [cached EXCEPT !.asking = TRUE] /\ Unmounts
          /\ closedBy' = IF panel # 0 THEN [save |-> i, draft |-> drafts] ELSE closedBy
          /\ UNCHANGED shownOf
     ELSE /\ IF saves[i].panel = panel THEN shown' = Said(i) /\ shownOf' = i
             ELSE UNCHANGED <<shown, shownOf>>
          /\ UNCHANGED <<cached, panel, draft, closedBy>>
  /\ UNCHANGED <<stored, drafts, mishaps, slipped, behind>>

-----------------------------------------------------------------------------
HashArrives ==
  /\ cached.asking /\ cached' = [hash |-> stored, asking |-> FALSE] /\ behind' = FALSE
  /\ UNCHANGED <<stored, panel, draft, shown, announced, saves, drafts, mishaps, spoken,
                 slipped, shownOf, closedBy>>

\* Another device, or a moderator.
ChangedElsewhere ==
  /\ Mishap /\ stored' \in {"none", "old"} \ {stored} /\ behind' = TRUE
  /\ UNCHANGED <<shownVars, saves, drafts, spoken, slipped, shownOf, closedBy>>

AvatarPanelNext ==
  \/ OpensPanel \/ Cancels \/ Dismisses
  \/ PicksFile \/ PicksProvider \/ PicksRemoval
  \/ ImageLoads \/ PreviewBreaks \/ DragsImage \/ ZoomsImage
  \/ PressesSave \/ HashArrives \/ ChangedElsewhere
  \/ \E i \in DOMAIN saves : CropEnds(i) \/ Lands(i) \/ SaveFails(i) \/ SaveSettles(i)

-----------------------------------------------------------------------------
\* Properties.

\* No picture can be saved with a bite out of it, however it is dragged and zoomed.
NoBite == draft.state = "ready" => Covers(draft.view, draft.image)

\* Every end of a call is heard, unless a save was left behind.
EveryEndIsHeard ==
  slipped = {} => \A i \in DOMAIN saves : saves[i].stage = "settled" => i \in spoken

\* The message under the preview is about the draft that is staged.
MessageIsOfTheDraft == shown # "" => saves[shownOf].draft = drafts \/ shownOf \in slipped

\* A draft is thrown away by its own save, or by one that was left behind.
DraftsAreKept ==
  closedBy.save # 0 =>
    saves[closedBy.save].draft = closedBy.draft \/ \E i \in slipped : i <= closedBy.save

\* With nothing under way, the picture shown is the row's, and the row holds what was
\* saved last; not so once a save was left behind, an answer lost, or another wrote.
LastSaveStands ==
  Cropping \cup InFlight = {} =>
    /\ ~cached.asking /\ ~behind => cached.hash = stored
    /\ \A i \in DOMAIN saves :
         /\ saves[i].answer = "" /\ saves[i].stage = "settled"
         /\ \A j \in DOMAIN saves : j > i => saves[j].answer # "" \/ saves[j].stage = "dropped"
         /\ slipped = {} /\ mishaps = 0
         => stored = Row(saves[i].kind)

\* The dialog does what its player was told.
PhotoIsAsSaved ==
  AvatarPanelTypeOK /\ NoBite /\ EveryEndIsHeard /\ MessageIsOfTheDraft /\ DraftsAreKept /\ LastSaveStands

=============================================================================
