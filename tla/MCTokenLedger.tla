--------------------------- MODULE MCTokenLedger ---------------------------
(***************************************************************************)
(* Instances for TLC, in one run, of what is done with tokens: the ledger  *)
(* (TokenLedger), or the home page of one player (AccountHome).  The two   *)
(* share no state: each is explored with the other at rest.                *)
(***************************************************************************)
EXTENDS TokenLedger, AccountHome, TLC

CONSTANTS u1, u2, t1, t2, b1

\* One user is verified, the other may become so.
OneVerified == <<[user |-> u1, tag |-> t1]>>

\* A ban of the first one's gamertag.
OneBan == b1 :> t1

VARIABLE where   \* "ledger" or "home"

TokensInit ==
  /\ where \in {"ledger", "home"} /\ Init /\ AccountHomeInit
  \* At rest the home starts in one way only.
  /\ where = "ledger" => truth.link = "pending"

TokensNext ==
  \/ where = "ledger" /\ Next /\ UNCHANGED <<homeVars, where>>
  \/ where = "home" /\ AccountHomeNext /\ UNCHANGED <<vars, where>>

\* The fairness of FairSpec, while the ledger moves.
TokensSpec ==
  /\ TokensInit /\ [][TokensNext]_<<vars, homeVars, where>>
  /\ \A s \in Sessions :
       /\ WF_vars(where = "ledger" /\ Deliver(s))
       /\ WF_vars(/\ where = "ledger"
                  /\ \E i \in 1 .. Quantity :
                       GrantPurchased([session |-> s, by |-> "webhook", next |-> i]))

-----------------------------------------------------------------------------
\* A balance is overdrawn by overlapping spends only (TokenLedger), and what the home
\* page says of it, of the ban it lifts and of the checkout it paid for is so
\* (AccountHome).
BalancesAreHonest == OverdraftIsAnOverlap /\ HomeIsHonest

=============================================================================
