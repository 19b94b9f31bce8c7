------------------------------ MODULE Delivery ------------------------------
(***************************************************************************)
(* What leaves the system: obituaries on the channels, and pushes.  The    *)
(* newsroom (newsdesk and crier) and the notifier are deployed and enabled *)
(* apart from each other and share no row that either writes, so that each *)
(* is explored without the other.                                          *)
(***************************************************************************)
EXTENDS Obituaries, Notices

VARIABLE enabled   \* which of the two is

vars == <<obituaryVars, noticeVars, enabled>>

TypeOK ==
  /\ enabled \in {"newsroom", "notifier"}
  /\ ObituariesTypeOK /\ NoticesTypeOK

Init == enabled \in {"newsroom", "notifier"} /\ ObituariesInit /\ NoticesInit

Next ==
  \/ enabled = "newsroom" /\ ObituariesNext /\ UNCHANGED <<noticeVars, enabled>>
  \/ enabled = "notifier" /\ NoticesNext /\ UNCHANGED <<obituaryVars, enabled>>

Spec == Init /\ [][Next]_vars

\* Of the one that is not enabled, nothing could be done.
FairSpec == Spec /\ ObituariesFairness /\ NoticesFairness

\* Every death is told and every notification sent, or given up for cause.
EverythingIsTold == EveryDeathIsTold /\ PushDrains

=============================================================================
