-------------------------------- MODULE Dialogs ------------------------------
(***************************************************************************)
(* What a signed-in stranger can do on a player's page (apps/web:          *)
(* report-block-menu.tsx, report-dialog.tsx, block-dialog.tsx,             *)
(* claim-modal.tsx, nav-menu.tsx over use-modal-behavior.ts; apps/api:     *)
(* routes/reports.ts, routes/blocks.ts).  Every dialog is mounted once and *)
(* shown again and again; its call goes on when it is closed.  The page    *)
(* was loaded some time ago: its player and the bytes of the image may     *)
(* have gone since.  A request reads, then commits (the interleavings      *)
(* inside that transaction are in module AvatarModeration).                *)
(***************************************************************************)
EXTENDS Naturals, FiniteSets

CONSTANTS
  MaxOpenings,   \* bound: overlays opened
  MaxTroubles,   \* bound: calls that fail or whose answer is lost
  MaxTurns       \* bound: things that others do

ASSUME DialogsAssumption == {MaxOpenings, MaxTroubles, MaxTurns} \subseteq Nat

VARIABLES
  linked,      \* the viewer's status: "verified", "pending" or "unlinked"
  subject,     \* at the server: everything the two requests read and write
  overlays,    \* what is open
  scroll,      \* body.style.overflow, and the lock's count and saved value
  forms,       \* of each dialog: busy, and what it shows
  calls,       \* of each dialog: its call under way
  openings, troubles, turns,
  atAnswer,    \* history: the server when the call that is shown ended
  submitted,   \* history: dialogs submitted since they were opened
  escaped      \* history: dialogs closed while their call was under way

dialogVars == <<linked, subject, overlays, scroll, forms, calls, openings, troubles, turns,
                atAnswer, submitted, escaped>>

Kinds == {"report", "block"}
Overlay == Kinds \cup {"menu", "nav", "claim"}
FullScreen == Kinds \cup {"claim"}
Messages == {"done", "unknown", "self", "already_reported", "already_reviewed",
             "rate_limited", "fallback"}
Subject == [holders : SUBSET {"subject", "viewer"}, verdict : {"none", "auto", "confirmed", "allowed"},
            reported : BOOLEAN, capped : BOOLEAN, owner : {"subject", "nobody"},
            blocked : BOOLEAN, shares : BOOLEAN, session : BOOLEAN]

DialogsTypeOK ==
  /\ linked \in {"verified", "pending", "unlinked"} /\ subject \in Subject
  /\ overlays \subseteq Overlay /\ Cardinality(overlays \cap Kinds) <= 1
  /\ scroll.count \in 0 .. Cardinality(Overlay)
  /\ {scroll.overflow, scroll.saved} \subseteq {"auto", "hidden"}
  /\ forms \in [Kinds -> [busy : BOOLEAN, shows : Messages \cup {"form"}]]
  /\ calls \in [Kinds -> {"none", "sent", "admitted"} \cup Messages]
  /\ openings \in 0 .. MaxOpenings /\ troubles \in 0 .. MaxTroubles /\ turns \in 0 .. MaxTurns
  /\ submitted \cup escaped \subseteq Kinds

DialogsInit ==
  /\ linked \in {"verified", "unlinked"}
  /\ subject = [holders |-> {"subject"}, verdict |-> "none", reported |-> FALSE,
                capped |-> FALSE, owner |-> "subject", blocked |-> FALSE,
                shares |-> linked = "verified", session |-> TRUE]
  /\ overlays = {} /\ scroll = [count |-> 0, overflow |-> "auto", saved |-> "auto"]
  /\ forms = [k \in Kinds |-> [busy |-> FALSE, shows |-> "form"]]
  /\ calls = [k \in Kinds |-> "none"]
  /\ openings = 0 /\ troubles = 0 /\ turns = 0
  /\ atAnswer = [k \in Kinds |-> [server |-> subject, changed |-> FALSE, lost |-> FALSE]]
  /\ submitted = {} /\ escaped = {}

-----------------------------------------------------------------------------
\* lockScroll: only the first lock saves.
Locks(s) == [count |-> s.count + 1, overflow |-> "hidden",
             saved |-> IF s.count = 0 THEN s.overflow ELSE s.saved]
\* Faulty variant of Locked: every consumer saves what it finds.
LockedEach(s) == [Locks(s) EXCEPT !.saved = s.overflow]
Locked(s) == Locks(s)

\* unlockScroll, by n consumers at once: only the last one restores.
Unlocked(s, n) ==
  LET count == IF n > s.count THEN 0 ELSE s.count - n
  IN  [s EXCEPT !.count = count, !.overflow = IF n > 0 /\ count = 0 THEN s.saved ELSE @]

\* The effects of a render: cleanups come first.
Shows(new) ==
  /\ overlays' = new
  /\ LET freed == Unlocked(scroll, Cardinality(overlays \ new))
     IN  scroll' = IF new \subseteq overlays THEN freed ELSE Locked(freed)
  /\ escaped' = escaped \cup {k \in (overlays \ new) \cap Kinds : forms[k].busy}

MayOpen == openings < MaxOpenings /\ openings' = openings + 1
Covered == overlays \cap FullScreen # {}

\* The menu's button is a toggle, and a press elsewhere closes the navigation.
TogglesMenu ==
  /\ ~Covered
  /\ IF "menu" \in overlays
     THEN Shows(overlays \ {"menu", "nav"}) /\ UNCHANGED openings
     ELSE MayOpen /\ Shows((overlays \ {"nav"}) \cup {"menu"})
  /\ UNCHANGED <<linked, subject, forms, calls, troubles, turns, atAnswer, submitted>>

OpensNav ==
  /\ ~Covered /\ "nav" \notin overlays /\ MayOpen /\ Shows(overlays \cup {"nav"})
  /\ UNCHANGED <<linked, subject, forms, calls, troubles, turns, atAnswer, submitted>>

\* The address becomes .../#claim, by an item of the navigation or by going back.
OpensClaim ==
  /\ linked = "unlinked" /\ "claim" \notin overlays /\ MayOpen
  /\ \E kept \in {overlays, overlays \ {"nav"}} : Shows(kept \cup {"claim"})
  /\ UNCHANGED <<linked, subject, forms, calls, troubles, turns, atAnswer, submitted>>

\* A dialog opens on an empty form, whatever its last use left; busy stays.
Emptied(f) == [f EXCEPT !.shows = "form"]
OnOpen(f) == Emptied(f)

MayPick(k) == k = "report" => linked = "verified"
Picks(k) ==
  /\ "menu" \in overlays /\ ~Covered /\ MayPick(k) /\ MayOpen
  /\ Shows((overlays \ {"menu", "nav"}) \cup {k})
  /\ forms' = [forms EXCEPT ![k] = OnOpen(@)]
  /\ submitted' = submitted \ {k}
  /\ UNCHANGED <<linked, subject, calls, troubles, turns, atAnswer>>

\* Cancel waits for the call, Escape does not; it closes all that is open.
Escape ==
  /\ overlays # {} /\ Shows({})
  /\ UNCHANGED <<linked, subject, forms, calls, openings, troubles, turns, atAnswer, submitted>>

Closes(o) ==
  /\ o \in overlays \ {"menu"} /\ (o \in Kinds => ~forms[o].busy) /\ Shows(overlays \ {o})
  /\ UNCHANGED <<linked, subject, forms, calls, openings, troubles, turns, atAnswer, submitted>>

\* A claim that went through: the viewer is no longer unlinked, which closes the modal.
ClaimSucceeds ==
  /\ "claim" \in overlays /\ Shows(overlays \ {"claim"})
  /\ linked' = "pending"
  /\ UNCHANGED <<subject, forms, calls, openings, troubles, turns, atAnswer, submitted>>

-----------------------------------------------------------------------------
\* The two requests.

Submits(k) ==
  /\ k \in overlays /\ ~forms[k].busy /\ forms[k].shows # "done"
  /\ forms' = [forms EXCEPT ![k] = [busy |-> TRUE, shows |-> "form"]]
  /\ calls' = [calls EXCEPT ![k] = "sent"]
  /\ submitted' = submitted \cup {k}
  /\ escaped' = escaped \ {k}
  /\ UNCHANGED <<linked, subject, overlays, scroll, openings, troubles, turns, atAnswer>>

Answered(k, answer, new) ==
  /\ calls' = [calls EXCEPT ![k] = answer]
  /\ subject' = new
  /\ atAnswer' = [atAnswer EXCEPT ![k] = [server |-> new, changed |-> new # subject,
                                          lost |-> FALSE]]

\* What is asked before the transaction (nobody is offered to block themselves).
Refusal(k) ==
  IF ~subject.session THEN "fallback"
  ELSE IF k = "block" THEN IF subject.owner = "nobody" THEN "unknown" ELSE "admitted"
  ELSE IF subject.holders = {} THEN "unknown"
  ELSE IF "viewer" \in subject.holders THEN "self"
  ELSE IF subject.capped THEN "rate_limited" ELSE "admitted"

Considers(k) ==
  /\ calls[k] = "sent"
  /\ IF Refusal(k) = "admitted"
     THEN calls' = [calls EXCEPT ![k] = "admitted"] /\ UNCHANGED <<subject, atAnswer>>
     ELSE Answered(k, Refusal(k), subject)
  /\ UNCHANGED <<linked, overlays, scroll, forms, openings, troubles, turns, submitted, escaped>>

\* The report is put on record; the verdict on the bytes is asked first, for what
\* was restored is visible whoever reported it.
Filed == [subject EXCEPT !.reported = TRUE]
ReportAnswer ==
  IF subject.verdict = "allowed" THEN "already_reviewed"
  ELSE IF subject.reported THEN "already_reported" ELSE "done"
Verdict == ReportAnswer

Commits(k) ==
  /\ calls[k] = "admitted"
  /\ IF k = "block"
     THEN Answered(k, "done", [subject EXCEPT !.blocked = TRUE, !.shares = FALSE])
     ELSE Answered(k, Verdict,
            IF Verdict = "done" /\ subject.verdict = "none" THEN [Filed EXCEPT !.verdict = "auto"]
            ELSE Filed)
  /\ UNCHANGED <<linked, overlays, scroll, forms, openings, troubles, turns, submitted, escaped>>

\* The answer is shown, in whichever opening of the dialog there is now.
Settled(k, answer) ==
  /\ calls' = [calls EXCEPT ![k] = "none"]
  /\ forms' = [forms EXCEPT ![k] = [busy |-> FALSE, shows |-> answer]]

AnswerComes(k) ==
  /\ calls[k] \in Messages /\ Settled(k, calls[k])
  /\ UNCHANGED <<linked, subject, overlays, scroll, openings, troubles, turns, atAnswer, submitted, escaped>>

CallBreaks(k) ==
  /\ calls[k] # "none" /\ troubles < MaxTroubles /\ troubles' = troubles + 1
  /\ Settled(k, "fallback")
  /\ atAnswer' = [atAnswer EXCEPT ![k] =
       IF calls[k] \in Messages THEN [@ EXCEPT !.lost = TRUE]
       ELSE [server |-> subject, changed |-> FALSE, lost |-> FALSE]]
  /\ UNCHANGED <<linked, subject, overlays, scroll, openings, turns, submitted, escaped>>

-----------------------------------------------------------------------------
\* Meanwhile: what the others do.

Becomes(new) ==
  /\ turns < MaxTurns /\ turns' = turns + 1 /\ new # subject /\ subject' = new
  /\ UNCHANGED <<linked, overlays, scroll, forms, calls, openings, troubles, atAnswer, submitted, escaped>>

\* The subject's image, and the viewer's own.
PictureChanges(u) ==
  /\ u = "subject" => subject.owner # "nobody"
  /\ Becomes([subject EXCEPT !.holders = IF u \in @ THEN @ \ {u} ELSE @ \cup {u}])
AnotherReports ==
  /\ subject.holders # {} /\ subject.verdict = "none"
  /\ Becomes([subject EXCEPT !.verdict = "auto"])
\* A moderator; a confirmation destroys the bytes.
Restores ==
  subject.verdict # "none" /\ Becomes([subject EXCEPT !.verdict = "allowed"])
Destroys ==
  /\ subject.verdict = "auto"
  /\ Becomes([subject EXCEPT !.verdict = "confirmed", !.holders = {}])
\* Ten reports in a day, and the day after.
CapMoves == Becomes([subject EXCEPT !.capped = ~@])
\* The subject's account is deleted.
AccountGoes ==
  /\ subject.owner # "nobody"
  /\ Becomes([subject EXCEPT !.owner = "nobody", !.holders = @ \ {"subject"},
                             !.blocked = FALSE, !.shares = FALSE])
SessionRunsOut == Becomes([subject EXCEPT !.session = FALSE])

OthersDo ==
  \/ \E u \in {"subject", "viewer"} : PictureChanges(u)
  \/ AnotherReports \/ Restores \/ Destroys \/ CapMoves \/ AccountGoes \/ SessionRunsOut

DialogsNext ==
  \/ TogglesMenu \/ OpensNav \/ OpensClaim \/ Escape \/ ClaimSucceeds
  \/ \E o \in Overlay : Closes(o)
  \/ \E k \in Kinds : Picks(k) \/ Submits(k) \/ Considers(k) \/ Commits(k) \/ AnswerComes(k) \/ CallBreaks(k)
  \/ OthersDo

DialogsSpec == DialogsInit /\ [][DialogsNext]_dialogVars

-----------------------------------------------------------------------------
\* Properties.

\* What a message says of the server.
Says(k, answer, at) ==
  LET hidden == at.server.verdict \in {"auto", "confirmed"}
  IN  CASE answer = "done" -> IF k = "report" THEN hidden
                              ELSE at.server.blocked /\ ~at.server.shares
        [] answer = "unknown" -> IF k = "report" THEN at.server.holders = {}
                                 ELSE at.server.owner = "nobody"
        [] answer = "self" -> "viewer" \in at.server.holders
        [] answer = "already_reported" -> at.server.reported /\ hidden
        [] answer = "already_reviewed" -> at.server.verdict = "allowed"
        [] answer = "rate_limited" -> at.server.capped
        [] answer = "fallback" -> ~at.changed \/ at.lost
        [] OTHER -> TRUE

\* Every message was true when the server gave the answer; "nothing was changed" may
\* be false when an answer was lost.
EveryMessageTrue ==
  \A k \in Kinds : forms[k].shows # "form" => Says(k, forms[k].shows, atAnswer[k])

\* A dialog confirms what was submitted since it was opened, unless it was closed
\* while it was busy.
ConfirmsThisTime ==
  \A k \in Kinds \cap overlays : forms[k].shows # "form" => k \in submitted \cup escaped

\* The page scrolls whenever nothing is open, and only then.
PageIsFree == (scroll.overflow = "hidden") <=> (overlays # {})

\* A dialog tells the truth, of this time, and lets go of the page (and the
\* variables are of their types).
DialogsAreHonest == DialogsTypeOK /\ EveryMessageTrue /\ ConfirmsThisTime /\ PageIsFree

=============================================================================
