----------------------------- MODULE MCPlayerSite ---------------------------
(***************************************************************************)
(* Instances for TLC, in one run, of the site: what its pages say of the   *)
(* players (PlayerPages), or one of the machines that run in a browser.    *)
(* They share no state: each is explored with the others at rest.          *)
(***************************************************************************)
EXTENDS PlayerPages, PushControl, MapCanvas, MapPage, Dialogs, ModerationDesk, TLC

VARIABLE page   \* which of them moves

siteVars == <<vars, pushControlVars, mapCanvasVars, mapPageVars, dialogVars, deskVars, page>>

SiteInit ==
  /\ page \in {"players", "push", "canvas", "map", "dialogs", "desk"}
  /\ Init /\ PushControlInit /\ MapCanvasInit /\ MapPageInit /\ DialogsInit /\ DeskInit
  \* At rest a machine starts in one way only.
  /\ page # "players" => on = [a \in Accounts |-> None]
  /\ page # "push" => capable = "push"
  /\ page # "dialogs" => linked = "verified"
  /\ page # "desk" => desk = "blocks" /\ standing = [i \in Items |-> "no"]

SiteNext ==
  /\ UNCHANGED page
  /\ \/ /\ page = "players" /\ Next
        /\ UNCHANGED <<pushControlVars, mapCanvasVars, mapPageVars, dialogVars, deskVars>>
     \/ /\ page = "push" /\ PushControlNext
        /\ UNCHANGED <<vars, mapCanvasVars, mapPageVars, dialogVars, deskVars>>
     \/ /\ page = "canvas" /\ MapCanvasNext
        /\ UNCHANGED <<vars, pushControlVars, mapPageVars, dialogVars, deskVars>>
     \/ /\ page = "map" /\ MapPageNext
        /\ UNCHANGED <<vars, pushControlVars, mapCanvasVars, dialogVars, deskVars>>
     \/ /\ page = "dialogs" /\ DialogsNext
        /\ UNCHANGED <<vars, pushControlVars, mapCanvasVars, mapPageVars, deskVars>>
     \/ /\ page = "desk" /\ DeskNext
        /\ UNCHANGED <<vars, pushControlVars, mapCanvasVars, mapPageVars, dialogVars>>

SiteSpec == SiteInit /\ [][SiteNext]_siteVars

\* Servers, accounts, tags and people are only compared for equality, and no
\* property names one.
SiteSymmetry == Permutations(Servers) \cup Permutations(Accounts) \cup Permutations(Tags)
  \cup Permutations(People)

-----------------------------------------------------------------------------
\* What happened stays what it was: a life that counts goes on counting, and the lives
\* before one are told alike whenever they are told (both of module ReadModels and
\* PlayerPages).
HistoryStands == QualifiedForGood /\ PriorsStand

\* The map's controls agree with the server and the viewer, and its canvas with the data.
MapTellsTheTruth == []MapIsAsAgreed /\ MapShowsWhatThereIs

\* A dialog tells the truth about its request, and the desk about its rows.
ActsAreAsShown == DialogsAreHonest /\ DeskIsInOrder

=============================================================================
