----------------------------- MODULE TokenLedger ----------------------------
(***************************************************************************)
(* Unban tokens (packages/tokens): a ledger of rows of +1 and -1, written  *)
(* by the granter's sweeps (apps/granter), by Stripe's webhook and the     *)
(* buyer's own confirmation (apps/api/src/routes/store.ts), by transfers   *)
(* and by redemptions.  A row has a key that the table holds once: what    *)
(* may be repeated names its occasion, a transfer draws a fresh number.    *)
(*                                                                         *)
(* A transaction of the API reads the balance and writes later, and two of *)
(* one user do not see each other (READ COMMITTED).                        *)
(***************************************************************************)
EXTENDS GamertagLinks

CONSTANTS
  Bans,        \* bans that may be redeemed: a function to the gamertag banned
  Sessions,    \* Stripe checkout sessions
  Quantity,    \* tokens a session buys
  MaxMonths,   \* bound: months that begin
  MaxFaults    \* bound: deliveries and calls that fail

Checkout == [buyer: Users, paid: BOOLEAN, acked: BOOLEAN]

ASSUME LedgerAssumption ==
  /\ Bans \in [DOMAIN Bans -> Tags]
  /\ None \notin DOMAIN Bans \cup Sessions /\ None \notin Checkout
  /\ Quantity \in Nat \ {0} /\ MaxMonths \in Nat \ {0} /\ MaxFaults \in Nat

VARIABLES
  ledger,     \* token_transactions
  referrals,  \* the referrer of a user, or None
  month,      \* the calendar month
  sweep,      \* what the granter has read: the grants it is about to write
  lifted,     \* bans lifted for a token
  spends,     \* transfers and redemptions that have read and not yet written
  checkouts,  \* Stripe's sessions: the buyer, paid, the webhook acknowledged
  fulfilling, \* calls of fulfillPurchase under way
  faults,
  overlapped  \* history: users who had two spends under way at once

tokenVars == <<ledger, referrals, month, sweep, lifted, spends, checkouts,
               fulfilling, faults, overlapped>>
vars == <<linkVars, served, tokenVars>>

Sweeps == {"verify", "monthly", "referral"}
\* The key of a row tells its kind; party is counterparty_user_id.
Keys ==
  [kind: {"verify"}, of: Nat] \cup [kind: {"monthly"}, of: Users \X Nat]
    \cup [kind: {"referral"}, of: Users \X Users]
    \cup [kind: {"stripe"}, of: Sessions \X Nat]
    \cup [kind: {"redeem"}, of: DOMAIN Bans] \cup [kind: {"out", "in"}, of: Nat]
Row == [user: Users, key: Keys, delta: {-1, 1}, party: Users \cup {None}]
Spend == [user: Users, to: Users \cup {None}, ban: DOMAIN Bans \cup {None}, ref: Nat]
Fulfilment == [session: Sessions, by: {"webhook", "confirm"}, next: 1 .. Quantity]

TypeOK ==
  /\ LinksTypeOK
  /\ ledger \subseteq Row
  /\ \A r, q \in ledger : r.key = q.key => r = q
  /\ referrals \in [Users -> Users \cup {None}]
  /\ month \in 1 .. MaxMonths
  /\ sweep \subseteq Users \X Keys
  /\ lifted \subseteq DOMAIN Bans
  /\ spends \subseteq Spend
  /\ checkouts \in [Sessions -> {None} \cup Checkout]
  /\ fulfilling \subseteq Fulfilment
  /\ faults \in 0 .. MaxFaults
  /\ overlapped \subseteq Users

Init ==
  /\ LinksInit
  /\ ledger = {} /\ month = 1
  /\ referrals = [u \in Users |-> None]
  /\ sweep = {}
  /\ lifted = {} /\ spends = {} /\ fulfilling = {}
  /\ checkouts = [s \in Sessions |-> None]
  /\ faults = 0 /\ overlapped = {}

-----------------------------------------------------------------------------
\* The ledger.

Balance(u) == MapThenSumSet(LAMBDA r : r.delta, {r \in ledger : r.user = u})

Key(kind, of) == [kind |-> kind, of |-> of]
RowOfKey(u, key) == [user |-> u, key |-> key, delta |-> 1, party |-> None]
Held(key) == \E r \in ledger : r.key = key

\* grant: INSERT ... ON CONFLICT DO NOTHING on the key.
Granted(u, key) == IF Held(key) THEN ledger ELSE ledger \cup {RowOfKey(u, key)}

-----------------------------------------------------------------------------
\* The granter: one sweep after the other, each reads whom to pay and then pays
\* one by one, a statement each.

\* Faulty variant of ReferralKey: a referral pays every month.
MonthlyReferralKey(referrer, referee) ==
  Key("referral", <<referrer, referee, month>>)

ReferralKey(referrer, referee) == Key("referral", <<referrer, referee>>)

Due(kind) ==
  CASE kind = "verify" -> {<<links[l].user, Key("verify", l)>> : l \in Verified}
    [] kind = "monthly" -> {<<links[l].user, Key("monthly", <<links[l].user, month>>)>> :
                              l \in Verified}
    [] kind = "referral" ->
         {<<referrals[u], ReferralKey(referrals[u], u)>> :
            u \in {v \in Users : referrals[v] # None /\ IsVerified(v)}}

\* A tick runs the sweeps in turn; as one that finds every key held changes
\* nothing, which of them writes next is left open.
ReadSweep(kind) ==
  /\ sweep = {}
  /\ sweep' = {d \in Due(kind) : ~Held(d[2])}
  /\ sweep' # {}
  /\ UNCHANGED <<linkVars, served, ledger, referrals, month, lifted, spends,
                 checkouts, fulfilling, faults, overlapped>>

\* A grant to an account that is gone breaks the tick.
PayGrant(d) ==
  /\ IF d[1] \in users
     THEN /\ ledger' = Granted(d[1], d[2])
          /\ sweep' = sweep \ {d}
     ELSE /\ sweep' = {}
          /\ UNCHANGED ledger
  /\ UNCHANGED <<linkVars, served, referrals, month, lifted, spends, checkouts,
                 fulfilling, faults, overlapped>>

NewMonth ==
  /\ month < MaxMonths
  /\ month' = month + 1
  /\ UNCHANGED <<linkVars, served, ledger, referrals, sweep, lifted, spends,
                 checkouts, fulfilling, faults, overlapped>>

-----------------------------------------------------------------------------
\* Referrals.  An invite link counts at sign-in, before its user is verified;
\* whoever is verified may name the referrer later.  The first one stays.

Refer(u, r) ==
  /\ u \in users /\ r \in users /\ u # r
  /\ Serve
  /\ IsVerified(r) /\ referrals[u] = None
  /\ referrals' = [referrals EXCEPT ![u] = r]
  /\ UNCHANGED <<linkVars, ledger, month, sweep, lifted, spends, checkouts,
                 fulfilling, faults, overlapped>>

-----------------------------------------------------------------------------
\* Spending.

Spending(u) == {s \in spends : s.user = u}

MaySpend(u) == u \in users /\ IsVerified(u) /\ Balance(u) >= 1

SpendReads(spend) ==
  /\ Serve
  /\ spends' = spends \cup {spend}
  /\ overlapped' = IF Spending(spend.user) = {} THEN overlapped
                   ELSE overlapped \cup {spend.user}
  /\ UNCHANGED <<linkVars, ledger, referrals, month, sweep, lifted, checkouts,
                 fulfilling, faults>>

TransferReads(u, v) ==
  /\ MaySpend(u) /\ u # v /\ IsVerified(v)
  /\ SpendReads([user |-> u, to |-> v, ban |-> None, ref |-> served])

\* A ban belongs to who holds the banned name.
RedeemReads(u, b) ==
  /\ MaySpend(u) /\ b \notin lifted
  /\ \E l \in Verified : links[l].user = u /\ links[l].tag = Bans[b]
  /\ SpendReads([user |-> u, to |-> None, ban |-> b, ref |-> served])

TransferRows(s) ==
  {[user |-> s.user, key |-> Key("out", s.ref), delta |-> -1, party |-> s.to],
   [user |-> s.to, key |-> Key("in", s.ref), delta |-> 1, party |-> s.user]}
RedeemRow(s) ==
  [user |-> s.user, key |-> Key("redeem", s.ban), delta |-> -1, party |-> None]

\* An account that is gone, or a ban redeemed meanwhile, rolls it back.
SpendWrites(s) ==
  /\ s \in spends
  /\ spends' = spends \ {s}
  /\ IF s.user \notin users \/ (s.to # None /\ s.to \notin users)
        \/ (s.ban # None /\ Held(Key("redeem", s.ban)))
     THEN UNCHANGED <<ledger, lifted>>
     ELSE /\ ledger' = ledger \cup (IF s.ban = None THEN TransferRows(s) ELSE {RedeemRow(s)})
          /\ lifted' = lifted \cup ({s.ban} \ {None})
  /\ UNCHANGED <<linkVars, served, referrals, month, sweep, checkouts, fulfilling,
                 faults, overlapped>>

-----------------------------------------------------------------------------
\* The store.  Only the checkout asks for a verified link; who has paid is
\* served, by the webhook and by the page the buyer comes back to.

CheckOut(u, s) ==
  /\ u \in users /\ IsVerified(u)
  /\ checkouts[s] = None
  /\ Serve
  /\ checkouts' = [checkouts EXCEPT ![s] = [buyer |-> u, paid |-> FALSE, acked |-> FALSE]]
  /\ UNCHANGED <<linkVars, ledger, referrals, month, sweep, lifted, spends,
                 fulfilling, faults, overlapped>>

Pay(s) ==
  /\ checkouts[s] # None /\ ~checkouts[s].paid
  /\ checkouts' = [checkouts EXCEPT ![s].paid = TRUE]
  /\ UNCHANGED <<linkVars, served, ledger, referrals, month, sweep, lifted, spends,
                 fulfilling, faults, overlapped>>

Paid(s) == checkouts[s] # None /\ checkouts[s].paid

Fulfil(s, by) ==
  /\ Paid(s)
  /\ \A f \in fulfilling : f.session # s \/ f.by # by
  /\ fulfilling' = fulfilling \cup {[session |-> s, by |-> by, next |-> 1]}
  /\ UNCHANGED <<linkVars, ledger, referrals, month, sweep, lifted, spends, checkouts,
                 faults, overlapped>>

\* Stripe delivers the event until it is acknowledged.
Deliver(s) == Paid(s) /\ ~checkouts[s].acked /\ Fulfil(s, "webhook") /\ UNCHANGED served
Confirm(s) == Paid(s) /\ checkouts[s].buyer \in users /\ Fulfil(s, "confirm") /\ Serve

Acked(f) ==
  IF f.by = "webhook" THEN [checkouts EXCEPT ![f.session].acked = TRUE] ELSE checkouts

\* Faulty variant of GrantPurchased: acknowledged at the first token.
AckFirst(f) ==
  /\ f \in fulfilling
  /\ LET buyer == checkouts[f.session].buyer
     IN  /\ ledger' = Granted(buyer, Key("stripe", <<f.session, f.next>>))
         /\ fulfilling' = (fulfilling \ {f}) \cup
              (IF f.next = Quantity THEN {} ELSE {[f EXCEPT !.next = @ + 1]})
         /\ checkouts' = Acked(f)
  /\ UNCHANGED <<linkVars, served, referrals, month, sweep, lifted, spends, faults,
                 overlapped>>

\* Faulty variant of GrantPurchased: the last token is the one past the last.
GrantOneTooMany(f) ==
  /\ f \in fulfilling
  /\ ledger' = Granted(checkouts[f.session].buyer, Key("stripe", <<f.session, f.next>>))
  /\ fulfilling' = (fulfilling \ {f}) \cup
       (IF f.next > Quantity THEN {} ELSE {[f EXCEPT !.next = @ + 1]})
  /\ checkouts' = IF f.next > Quantity THEN Acked(f) ELSE checkouts
  /\ UNCHANGED <<linkVars, served, referrals, month, sweep, lifted, spends, faults,
                 overlapped>>

\* One token, a statement of its own.  When the buyer's account is gone the
\* webhook is acknowledged, as nothing can be done.
GrantPurchased(f) ==
  /\ f \in fulfilling
  /\ LET buyer == checkouts[f.session].buyer
         last == f.next = Quantity \/ buyer \notin users
     IN  /\ ledger' = IF buyer \notin users THEN ledger
                      ELSE Granted(buyer, Key("stripe", <<f.session, f.next>>))
         /\ fulfilling' = (fulfilling \ {f}) \cup
              (IF last THEN {} ELSE {[f EXCEPT !.next = @ + 1]})
         /\ checkouts' = IF last THEN Acked(f) ELSE checkouts
  /\ UNCHANGED <<linkVars, served, referrals, month, sweep, lifted, spends, faults,
                 overlapped>>

\* The process or the database fails in the middle; Stripe sees no answer.
FulfilFails(f) ==
  /\ f \in fulfilling /\ faults < MaxFaults
  /\ fulfilling' = fulfilling \ {f}
  /\ faults' = faults + 1
  /\ UNCHANGED <<linkVars, served, ledger, referrals, month, sweep, lifted, spends,
                 checkouts, overlapped>>

-----------------------------------------------------------------------------
\* deleteAccount: its rows go, its referees are free, and the others' rows only
\* forget whom they dealt with.

LedgerWithout(u) ==
  {IF r.party = u THEN [r EXCEPT !.party = None] ELSE r :
     r \in {q \in ledger : q.user # u}}

DeleteAccount(u) ==
  /\ AccountGone(u)
  /\ ledger' = LedgerWithout(u)
  /\ referrals' = [v \in Users |-> IF v = u \/ referrals[v] = u THEN None
                                   ELSE referrals[v]]
  /\ UNCHANGED <<month, sweep, lifted, spends, checkouts, fulfilling, faults, overlapped>>

-----------------------------------------------------------------------------
Links == (LinkRequest \/ Passing \/ FoldEmote) /\ UNCHANGED tokenVars

Next ==
  \/ Links
  \/ \E kind \in Sweeps : ReadSweep(kind)
  \/ \E d \in sweep : PayGrant(d)
  \/ NewMonth
  \/ \E u, v \in Users : Refer(u, v) \/ TransferReads(u, v)
  \/ \E u \in Users, b \in DOMAIN Bans : RedeemReads(u, b)
  \/ \E s \in spends : SpendWrites(s)
  \/ \E u \in Users, s \in Sessions : CheckOut(u, s)
  \/ \E s \in Sessions : Pay(s) \/ Deliver(s) \/ Confirm(s)
  \/ \E f \in fulfilling : GrantPurchased(f) \/ FulfilFails(f)
  \/ \E u \in Users : DeleteAccount(u)

Spec == Init /\ [][Next]_vars

\* Stripe delivers again what was not acknowledged, and a call goes on.
FairSpec ==
  /\ Spec
  /\ \A s \in Sessions :
       /\ WF_vars(Deliver(s))
       /\ WF_vars(\E i \in 1 .. Quantity :
                    GrantPurchased([session |-> s, by |-> "webhook", next |-> i]))

-----------------------------------------------------------------------------
\* Properties.

\* A balance goes below zero only when two spends of one user were under way at
\* once, each having seen the last token; nothing else overdraws it.
OverdraftIsAnOverlap == \A u \in Users : Balance(u) < 0 => u \in overlapped

\* A referee pays one referrer one token, ever, whatever months pass and sweeps
\* are repeated: a referrer who leaves takes the payment along.
ReferralsPayOnce ==
  \A u \in Users :
    Cardinality({r \in ledger : r.key.kind = "referral" /\ r.key.of[2] = u}) <= 1

\* Whoever has paid gets every token bought, though deliveries fail in the
\* middle and the webhook races the confirmation, unless the account is gone.
Owed(s) ==
  /\ Paid(s) /\ checkouts[s].buyer \in users
  /\ \E i \in 1 .. Quantity : ~Held(Key("stripe", <<s, i>>))
PaidIsFulfilled == \A s \in Sessions : Owed(s) ~> ~Owed(s)

=============================================================================
