------------------------------- MODULE MCLives ------------------------------
(***************************************************************************)
(* Instances of LifeFold and of LifeStory for TLC, in one run: what the    *)
(* fold makes of the comings and goings on two servers, or what the record *)
(* makes of one of those lives.  The two share no state.                   *)
(***************************************************************************)
EXTENDS LifeFold, LifeStory, TLC

CONSTANT u1   \* a gamertag

VARIABLE about   \* "fold" or "story"

LivesInit ==
  /\ Init /\ StoryInit
  /\ about \in {"fold", "story"}
  /\ about = "story" => \A a \in Accounts : on[a] = None

LivesNext ==
  \/ about = "fold" /\ Next /\ UNCHANGED <<storyVars, about>>
  \/ about = "story" /\ StoryNext /\ UNCHANGED <<vars, about>>

LivesSpec == LivesInit /\ [][LivesNext]_<<vars, storyVars, about>>

\* Servers, accounts and tags are only compared for equality, and no property names one.
LivesSymmetry == Permutations(Servers) \cup Permutations(Accounts) \cup Permutations(Tags)

DeathSaying(mechanism, bleeding) ==
  [mechanism |-> mechanism, starving |-> FALSE, dry |-> FALSE, bleeding |-> bleeding]
MCEndings == {DeathSaying("pvp", FALSE), DeathSaying("died", FALSE), DeathSaying("died", TRUE)}
MCWounds ==
  {HitLine(u1, 0), HitLine("infected", 50), HitLine("infected", 1), HitLine("fall", 0)}

\* Of the story only where it is told: what the record says of the death rests on
\* what it shows.
DeathToldRight == about = "story" => VerdictStands

\* The same of the life page, which tells each thing once, where and when it was.
LifeToldWhole == about = "story" => StoryIsWhole

=============================================================================
