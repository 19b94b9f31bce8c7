---------------------------- MODULE MCSocialLayer ---------------------------
(***************************************************************************)
(* Instances for TLC, in one run, of what people do to each other and of   *)
(* the pages where they do it: the server's side (SocialLayer), or one of  *)
(* two machines that run in a browser.  They share no state: each is       *)
(* explored with the others at rest.                                       *)
(***************************************************************************)
EXTENDS SocialLayer, AvatarPanel, TagField, TLC

CONSTANTS u1, u2, u3, t1, t2, h1

\* One user is verified; the others may contend for the second name.
OneVerified == <<[user |-> u1, tag |-> t1]>>

\* Both others hold the same picture.
TwoPictures == u1 :> "none" @@ u2 :> h1 @@ u3 :> h1

Symmetry == Permutations({u2, u3})

\* A picture wider than the frame, which may be dragged out at either corner.
OneImage == {[width |-> 2, height |-> 1]}
TwoDrags == {<<-3, -2>>, <<2, 1>>}

\* Two texts with an answer of their own, one of them the viewer's tag, and one that
\* finds both.
FourTexts == {"", "ab", "abc", "abd"}
FoundTags == "ab" :> <<"abc", "abd", "ab">> @@ "abc" :> <<"abc">> @@ "abd" :> <<"abd">>

\* A bound of the instance: what happens in the game, emotes and sessions together.
MaxInGame == 3

VARIABLE part   \* which of them moves

peopleVars == <<vars, panelVars, tagVars, part>>

PeopleInit ==
  /\ part \in {"server", "photo", "field"}
  /\ Init /\ AvatarPanelInit /\ TagFieldInit
  \* At rest a machine starts in one way only.
  /\ part # "field" => text = ""

PeopleNext ==
  /\ UNCHANGED part
  /\ \/ part = "server" /\ Next /\ Len(emotes') + connects' <= MaxInGame
        /\ UNCHANGED <<panelVars, tagVars>>
     \/ part = "photo" /\ AvatarPanelNext /\ UNCHANGED <<vars, tagVars>>
     \/ part = "field" /\ TagFieldNext /\ UNCHANGED <<vars, panelVars>>

PeopleSpec == PeopleInit /\ [][PeopleNext]_peopleVars

-----------------------------------------------------------------------------
\* People see of each other and of themselves what is so: positions are seen as agreed
\* (LocationSharing), and the photo dialog and the tag field show what is so.
PeopleAreAsShown == SeenAsAgreed /\ PhotoIsAsSaved /\ FieldIsInOrder

=============================================================================
