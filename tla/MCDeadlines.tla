----------------------------- MODULE MCDeadlines ----------------------------
(***************************************************************************)
(* Instances for TLC, in one run, of what must come about although calls   *)
(* fail: a ban is served and lifted (BanEnforcement), or a notification is *)
(* read and counted (Inbox).  The two share no state: each is explored     *)
(* with the other at rest.                                                 *)
(***************************************************************************)
EXTENDS BanEnforcement, Inbox

VARIABLE due   \* "ban" or "inbox"

DeadlinesInit ==
  /\ Init /\ InboxInit /\ due \in {"ban", "inbox"}
  \* At rest a machine starts in one way only.
  /\ due = "inbox" => label = CHOOSE f \in [Accounts -> Tags] : TRUE

DeadlinesNext ==
  \/ due = "ban" /\ Unredeemed /\ UNCHANGED <<inboxVars, due>>
  \/ due = "inbox" /\ InboxNext /\ UNCHANGED <<vars, due>>

\* The fairness of FairSpec and of InboxSpec, each for the one that is not at rest.
DeadlinesSpec ==
  /\ DeadlinesInit /\ [][DeadlinesNext]_<<vars, inboxVars, due>>
  /\ WF_vars(due = "ban" /\ Enforce) /\ WF_vars(due = "ban" /\ Pass)
  /\ WF_inboxVars(due = "inbox" /\ Refetches)
  /\ WF_inboxVars(due = "inbox" /\ Fetching)
  /\ WF_inboxVars(due = "inbox" /\ Reporting)

=============================================================================
