--------------------------- MODULE MCPlayerFacing ---------------------------
(***************************************************************************)
(* Instances for TLC, in one run, of what faces the player of a life that  *)
(* ended: the ban (BanEnforcement), or the notifications about it and      *)
(* about everything else (Announcements).  The two share no state here:    *)
(* each is explored with the other at rest.                                *)
(***************************************************************************)
EXTENDS BanEnforcement, Announcements, TLC

\* A bound of the instance: accounts deleted and servers retired, together.
MaxPartings == 1

VARIABLE facing   \* "ban" or "news"

FacingInit ==
  /\ Init /\ AnnouncementsInit
  /\ facing \in {"ban", "news"}
  /\ facing # "ban" => enforcer = Idle(FALSE)

FacingNext ==
  \/ facing = "ban" /\ Next /\ UNCHANGED <<announcementVars, facing>>
  \/ /\ facing = "news" /\ AnnouncementsNext /\ UNCHANGED <<vars, facing>>
     /\ Cardinality(Readers \ accounts') + (IF retired' THEN 1 ELSE 0) <= MaxPartings

FacingSpec == FacingInit /\ [][FacingNext]_<<vars, announcementVars, facing>>

\* Accounts, tags and readers are only compared for equality.
FacingSymmetry == Permutations(Accounts) \cup Permutations(Tags) \cup Permutations(Readers)

=============================================================================
