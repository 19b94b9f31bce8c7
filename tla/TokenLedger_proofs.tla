-------------------------- MODULE TokenLedger_proofs -------------------------
(***************************************************************************)
(* Theorems about TokenLedger, for every set of users, gamertags, bans and *)
(* checkout sessions and every bound, and about AccountHome, which shows   *)
(* the ledger to its player (both in MCTokenLedger).                       *)
(***************************************************************************)
EXTENDS MCTokenLedger, GamertagLinks_proofs, WellFoundedInduction

\* A transfer has a number of its own, which no row has yet: its two rows find
\* their keys free.
SpendsNumbered ==
  /\ \A s \in spends : s.ref < served /\ (s.ban = None => s.to \in Users)
  /\ \A s, q \in spends : s.ref = q.ref => s = q
  /\ \A r \in ledger : r.key.kind \in {"out", "in"} =>
       r.key.of < served /\ \A s \in spends : s.ref # r.key.of

FulfilmentsPaid == \A f \in fulfilling : Paid(f.session)

\* Rows and referrals are of accounts that exist, and a referral is paid to the
\* referrer its key names.
RowsOwned ==
  /\ \A r \in ledger : r.user \in users
  /\ \A r \in ledger : r.key.kind = "referral" => r.user = r.key.of[1]
  /\ \A d \in sweep : d[2].kind \in Sweeps /\ (d[2].kind = "referral" => d[1] = d[2].of[1])
  /\ \A u \in Users : referrals[u] # None => {u, referrals[u]} \subseteq users

\* Who is, or is about to be, paid for referring u.
Payees(u) ==
  {a \in users : \/ Held(Key("referral", <<a, u>>))
                 \/ <<a, Key("referral", <<a, u>>)>> \in sweep}

\* That is one at most, and while u has an account it is the referrer of u.
OnePayee ==
  \A u \in Users :
    /\ \A a, b \in Payees(u) : a = b
    /\ u \in users => Payees(u) \subseteq {referrals[u]}

TokenInv ==
  /\ LinksInv /\ TypeOK
  /\ SpendsNumbered /\ FulfilmentsPaid /\ RowsOwned /\ OnePayee

LEMMA TokenInitInv == Init => TokenInv
<1> SUFFICES ASSUME Init PROVE TokenInv
  OBVIOUS
<1>1. LinksInv /\ LinksTypeOK
  BY LinksInitInv DEF Init, LinksInv
<1>2. TypeOK
  BY <1>1, LedgerAssumption DEF Init, TypeOK
<1>3. SpendsNumbered /\ FulfilmentsPaid /\ RowsOwned /\ OnePayee
  BY DEF Init, SpendsNumbered, FulfilmentsPaid, RowsOwned, OnePayee, Payees, Held
<1> QED
  BY <1>1, <1>2, <1>3 DEF TokenInv

-----------------------------------------------------------------------------
\* The ledger: what a row written leaves true.

LEMMA KeysOfKinds ==
  /\ \A l \in Nat : Key("verify", l) \in Keys
  /\ \A u \in Users, m \in Nat : Key("monthly", <<u, m>>) \in Keys
  /\ \A u, v \in Users : Key("referral", <<u, v>>) \in Keys
  /\ \A s \in Sessions, i \in Nat : Key("stripe", <<s, i>>) \in Keys
  /\ \A b \in DOMAIN Bans : Key("redeem", b) \in Keys
  /\ \A i \in Nat : Key("out", i) \in Keys /\ Key("in", i) \in Keys
  BY DEF Keys, Key

\* A grant: the ledger stays typed, and one key at most is new.
LEMMA GrantWritten ==
  ASSUME TypeOK, NEW u \in Users, NEW key \in Keys, ledger' = Granted(u, key)
  PROVE  /\ ledger' \subseteq Row
         /\ \A r, q \in ledger' : r.key = q.key => r = q
         /\ ledger \subseteq ledger'
         /\ \A r \in ledger' \ ledger : r = RowOfKey(u, key)
<1>1. RowOfKey(u, key) \in Row /\ RowOfKey(u, key).key = key
  BY DEF RowOfKey, Row
<1>2. CASE Held(key)
  BY <1>2 DEF Granted, TypeOK
<1>3. CASE ~Held(key)
  <2>1. ledger' = ledger \cup {RowOfKey(u, key)}
    BY <1>3 DEF Granted
  <2>2. \A r \in ledger : r.key # RowOfKey(u, key).key
    BY <1>1, <1>3 DEF Held
  <2> QED
    BY <1>1, <2>1, <2>2 DEF TypeOK
<1> QED
  BY <1>2, <1>3

\* Rows of other kinds, and numbers drawn, do not touch who is paid for whom.
LEMMA PayeesKept ==
  ASSUME RowsOwned, OnePayee, UNCHANGED <<users, referrals>>, sweep' \subseteq sweep,
         ledger \subseteq ledger',
         \A r \in ledger' \ ledger : r.user \in users /\ r.key.kind # "referral"
  PROVE  RowsOwned' /\ OnePayee'
<1>1. RowsOwned'
  BY DEF RowsOwned
<1>2. \A a, u : Held(Key("referral", <<a, u>>))' => Held(Key("referral", <<a, u>>))
  BY DEF Held, Key
<1>3. \A u \in Users : Payees(u)' \subseteq Payees(u)
  BY <1>2 DEF Payees, Key
<1>4. OnePayee'
  BY <1>3 DEF OnePayee
<1> QED
  BY <1>1, <1>4

LEMMA NumbersKept ==
  ASSUME TypeOK, SpendsNumbered, served' \in Nat, served \in Nat, served <= served',
         spends' \subseteq spends, ledger \subseteq ledger',
         \A r \in ledger' \ ledger : r.key.kind \notin {"out", "in"}
  PROVE  SpendsNumbered'
<1>1. \A s \in spends : s.ref \in Nat
  BY DEF TypeOK, Spend
<1>2. \A r \in ledger : r.key.kind \in {"out", "in"} => r.key.of \in Nat
  BY DEF TypeOK, Row, Keys
<1>3. \A s \in spends' : s.ref < served' /\ (s.ban = None => s.to \in Users)
  BY <1>1 DEF SpendsNumbered
<1>4. \A s, q \in spends' : s.ref = q.ref => s = q
  BY DEF SpendsNumbered
<1>5. \A r \in ledger' : r.key.kind \in {"out", "in"} =>
        r.key.of < served' /\ \A s \in spends' : s.ref # r.key.of
  BY <1>2 DEF SpendsNumbered
<1> QED
  BY <1>3, <1>4, <1>5 DEF SpendsNumbered

-----------------------------------------------------------------------------
\* The granter.

LEMMA DueKeys ==
  ASSUME LinksInv, TypeOK, NEW kind \in Sweeps
  PROVE  Due(kind) \subseteq Users \X Keys
<1>1. \A l \in Verified : l \in Nat /\ links[l].user \in Users
  BY LinkTables DEF LinksInv, LinkRow, Verified, WithStatus
<1>2. month \in Nat
  BY DEF TypeOK
<1>3. \A u \in Users : referrals[u] # None => referrals[u] \in Users
  BY DEF TypeOK
<1>4. CASE kind = "verify"
  <2>1. \A l \in Verified : <<links[l].user, Key("verify", l)>> \in Users \X Keys
    BY <1>1, KeysOfKinds
  <2> QED
    BY <1>4, <2>1 DEF Due
<1>5. CASE kind = "monthly"
  <2>1. \A l \in Verified :
          <<links[l].user, Key("monthly", <<links[l].user, month>>)>> \in Users \X Keys
    BY <1>1, <1>2, KeysOfKinds
  <2> QED
    BY <1>5, <2>1 DEF Due
<1>6. CASE kind = "referral"
  <2>1. \A u \in Users : referrals[u] # None =>
          <<referrals[u], ReferralKey(referrals[u], u)>> \in Users \X Keys
    BY <1>3, KeysOfKinds DEF ReferralKey
  <2> QED
    BY <1>6, <2>1 DEF Due
<1> QED
  BY <1>4, <1>5, <1>6 DEF Sweeps

LEMMA ReadSweepStep ==
  ASSUME TokenInv, NEW kind \in Sweeps, ReadSweep(kind)
  PROVE  TokenInv'
<1>1. /\ UNCHANGED <<users, links, challenges, emotes, verifier, requests, served, ledger,
                     referrals, month, lifted, spends, checkouts, fulfilling, faults,
                     overlapped>>
      /\ sweep = {} /\ sweep' = {d \in Due(kind) : ~Held(d[2])}
  BY DEF ReadSweep, linkVars
<1>2. sweep' \subseteq Users \X Keys
  BY <1>1, DueKeys DEF TokenInv
<1>3. LinksInv'
  BY <1>1, LinksStep DEF TokenInv, linkVars
<1>4. TypeOK'
  BY <1>1, <1>2, <1>3 DEF TokenInv, TypeOK, LinksInv
<1>5. SpendsNumbered' /\ FulfilmentsPaid'
  BY <1>1 DEF TokenInv, SpendsNumbered, FulfilmentsPaid, Paid
<1>6. \A d \in sweep' : d[2].kind = "referral" =>
        \E u \in Users : referrals[u] # None /\ d[1] = referrals[u]
                         /\ d[2].of = <<referrals[u], u>>
  BY <1>1 DEF Due, ReferralKey, Key, Sweeps
<1>7. RowsOwned'
  <2>1. \A d \in sweep' : d[2].kind \in Sweeps
    BY <1>1 DEF Due, ReferralKey, Key, Sweeps
  <2> QED
    BY <1>1, <1>6, <2>1 DEF TokenInv, RowsOwned
<1>8. OnePayee'
  <2>1. ASSUME NEW u \in Users, NEW a \in Payees(u)', a \notin Payees(u)
        PROVE  a = referrals[u] /\ u \in users
    <3>1. <<a, Key("referral", <<a, u>>)>> \in sweep'
      BY <1>1, <2>1 DEF Payees, Held
    <3>2. PICK v \in Users : referrals[v] # None /\ a = referrals[v]
                             /\ <<a, u>> = <<referrals[v], v>>
      BY <1>6, <3>1 DEF Key
    <3> QED
      BY <3>2 DEF TokenInv, RowsOwned
  <2> QED
    BY <1>1, <2>1 DEF TokenInv, OnePayee
<1> QED
  BY <1>3, <1>4, <1>5, <1>7, <1>8 DEF TokenInv

LEMMA PayGrantStep ==
  ASSUME TokenInv, NEW d \in sweep, PayGrant(d)
  PROVE  TokenInv'
<1>1. UNCHANGED <<users, links, challenges, emotes, verifier, requests, served, referrals,
                  month, lifted, spends, checkouts, fulfilling, faults, overlapped>>
  BY DEF PayGrant, linkVars
<1>2. LinksInv'
  BY <1>1, LinksStep DEF TokenInv, linkVars
<1>3. FulfilmentsPaid' /\ served \in Nat
  BY <1>1 DEF TokenInv, FulfilmentsPaid, Paid, LinksInv, LinksTypeOK
<1>4. CASE d[1] \notin users
  <2>1. ledger' = ledger /\ sweep' = {}
    BY <1>4 DEF PayGrant
  <2>2. TypeOK'
    BY <1>1, <1>2, <2>1 DEF TokenInv, TypeOK, LinksInv
  <2>3. SpendsNumbered' /\ RowsOwned' /\ OnePayee'
    BY <1>1, <1>3, <2>1, NumbersKept, PayeesKept DEF TokenInv
  <2> QED
    BY <1>2, <1>3, <2>2, <2>3 DEF TokenInv
<1>5. CASE d[1] \in users
  <2>1. ledger' = Granted(d[1], d[2]) /\ sweep' = sweep \ {d}
    BY <1>5 DEF PayGrant
  <2>2. d[1] \in Users /\ d[2] \in Keys /\ d = <<d[1], d[2]>>
    BY DEF TokenInv, TypeOK
  <2>3. /\ ledger' \subseteq Row
        /\ \A r, q \in ledger' : r.key = q.key => r = q
        /\ ledger \subseteq ledger'
        /\ \A r \in ledger' \ ledger : r = RowOfKey(d[1], d[2])
    BY <2>1, <2>2, GrantWritten DEF TokenInv
  <2>4. \A r \in ledger' \ ledger : r.user = d[1] /\ r.key = d[2]
    BY <2>3 DEF RowOfKey
  <2>5. TypeOK'
    BY <1>1, <1>2, <2>1, <2>3 DEF TokenInv, TypeOK, LinksInv
  <2>6. d[2].kind \notin {"out", "in"}
    BY DEF TokenInv, RowsOwned, Sweeps
  <2>7. SpendsNumbered'
    BY <1>1, <1>3, <2>3, <2>4, <2>6, NumbersKept DEF TokenInv
  <2>8. RowsOwned'
    BY <1>1, <1>5, <2>1, <2>4 DEF TokenInv, RowsOwned
  <2>9. \A u \in Users : Payees(u)' \subseteq Payees(u)
    <3> SUFFICES ASSUME NEW u \in Users, NEW a \in Payees(u)' PROVE a \in Payees(u)
      OBVIOUS
    <3>1. CASE <<a, Key("referral", <<a, u>>)>> \in sweep'
      BY <1>1, <2>1, <3>1 DEF Payees
    <3>2. CASE \E r \in ledger : r.key = Key("referral", <<a, u>>)
      BY <1>1, <3>2 DEF Payees, Held
    <3>3. CASE \E r \in ledger' \ ledger : r.key = Key("referral", <<a, u>>)
      <4>1. d[2] = Key("referral", <<a, u>>) /\ d[1] = a
        BY <2>4, <3>3 DEF TokenInv, RowsOwned, Key
      <4> QED
        BY <1>1, <2>2, <4>1 DEF Payees
    <3> QED
      BY <3>1, <3>2, <3>3 DEF Payees, Held
  <2>10. OnePayee'
    BY <1>1, <2>9 DEF TokenInv, OnePayee
  <2> QED
    BY <1>2, <1>3, <2>5, <2>7, <2>8, <2>10 DEF TokenInv
<1> QED
  BY <1>4, <1>5

-----------------------------------------------------------------------------
\* Steps that write no row.

\* What belongs to the ledger's rows, and to who is paid, when no row is written.
LEMMA RowsKept ==
  ASSUME TokenInv, UNCHANGED <<users, ledger, referrals, sweep>>
  PROVE  RowsOwned' /\ OnePayee'
<1>1. RowsOwned /\ OnePayee
  BY DEF TokenInv
<1> QED
  BY <1>1, PayeesKept

LEMMA ServedNumbers ==
  ASSUME TypeOK, Serve \/ UNCHANGED served
  PROVE  served \in Nat /\ served' \in Nat /\ served <= served'
  BY LinksAssumption DEF TypeOK, LinksTypeOK, Serve

LEMMA NewMonthStep ==
  ASSUME TokenInv, NewMonth
  PROVE  TokenInv'
<1>1. /\ UNCHANGED <<linkVars, served, ledger, referrals, sweep, lifted, spends, checkouts,
                     fulfilling, faults, overlapped>>
      /\ month' \in 1 .. MaxMonths
  BY LedgerAssumption DEF NewMonth, TokenInv, TypeOK
<1>2. UNCHANGED users
  BY <1>1 DEF linkVars
<1>3. LinksInv'
  BY <1>1, LinksStep DEF TokenInv
<1>4. TypeOK'
  BY <1>1, <1>2, <1>3 DEF TokenInv, TypeOK, LinksInv
<1>5. SpendsNumbered' /\ FulfilmentsPaid'
  BY <1>1 DEF TokenInv, SpendsNumbered, FulfilmentsPaid, Paid
<1> QED
  BY <1>1, <1>2, <1>3, <1>4, <1>5, RowsKept DEF TokenInv

LEMMA ReferStep ==
  ASSUME TokenInv, NEW u \in Users, NEW r \in Users, Refer(u, r)
  PROVE  TokenInv'
<1>1. /\ UNCHANGED <<linkVars, ledger, month, sweep, lifted, spends, checkouts, fulfilling,
                     faults, overlapped>>
      /\ u \in users /\ r \in users /\ referrals[u] = None /\ Serve
      /\ referrals' = [referrals EXCEPT ![u] = r]
  BY DEF Refer
<1>2. UNCHANGED users
  BY <1>1 DEF linkVars
<1>3. LinksInv'
  BY <1>1, LinksStep DEF TokenInv
<1>4. referrals \in [Users -> Users \cup {None}]
  BY DEF TokenInv, TypeOK
<1>5. TypeOK'
  BY <1>1, <1>2, <1>3, <1>4 DEF TokenInv, TypeOK, LinksInv
<1>6. served \in Nat /\ served' \in Nat /\ served <= served'
  BY <1>1, ServedNumbers DEF TokenInv
<1>7. SpendsNumbered'
  BY <1>1, <1>6, NumbersKept DEF TokenInv
<1>8. FulfilmentsPaid'
  BY <1>1 DEF TokenInv, FulfilmentsPaid, Paid
<1>9. RowsOwned'
  BY <1>1, <1>2, <1>4 DEF TokenInv, RowsOwned
<1>10. OnePayee'
  <2>1. None \notin users
    BY LinksAssumption DEF TokenInv, TypeOK, LinksTypeOK
  <2>2. Payees(u) = {}
    BY <1>1, <2>1 DEF TokenInv, OnePayee, Payees
  <2>3. \A v \in Users : Payees(v)' = Payees(v)
    BY <1>1, <1>2 DEF Payees, Held
  <2> QED
    BY <1>1, <1>2, <1>4, <2>2, <2>3 DEF TokenInv, OnePayee
<1> QED
  BY <1>3, <1>5, <1>7, <1>8, <1>9, <1>10 DEF TokenInv

\* The steps of the links, which leave the tokens alone.
LEMMA LinksTokenStep ==
  ASSUME TokenInv, Links
  PROVE  TokenInv'
<1>1. UNCHANGED tokenVars
  BY DEF Links
<1>2. UNCHANGED users /\ (UNCHANGED served \/ Serve)
  BY DEF Links, LinkRequest, Passing, ClaimReads, CancelReads, ClaimWrites, CancelWrites,
         Perform, Expire, ReadEmote, FoldFails, FoldEmote
<1>3. LinksInv'
  BY LinksStep DEF TokenInv, Links
<1>4. TypeOK'
  BY <1>1, <1>2, <1>3 DEF TokenInv, TypeOK, LinksInv, tokenVars
<1>5. served \in Nat /\ served' \in Nat /\ served <= served'
  BY <1>2, ServedNumbers DEF TokenInv
<1>6. SpendsNumbered'
  BY <1>1, <1>5, NumbersKept DEF TokenInv, tokenVars
<1>7. FulfilmentsPaid'
  BY <1>1 DEF TokenInv, FulfilmentsPaid, Paid, tokenVars
<1> QED
  BY <1>1, <1>2, <1>3, <1>4, <1>6, <1>7, RowsKept DEF TokenInv, tokenVars

-----------------------------------------------------------------------------
\* Spending.

LEMMA SpendReadsStep ==
  ASSUME TokenInv, NEW s \in Spend, SpendReads(s), s.ref = served,
         s.ban = None => s.to \in Users
  PROVE  TokenInv'
<1>1. /\ UNCHANGED <<linkVars, ledger, referrals, month, sweep, lifted, checkouts,
                     fulfilling, faults>>
      /\ Serve /\ spends' = spends \cup {s}
      /\ overlapped' \subseteq overlapped \cup {s.user}
  BY DEF SpendReads
<1>2. UNCHANGED users /\ s.user \in Users
  BY <1>1 DEF linkVars, Spend
<1>3. LinksInv'
  BY <1>1, LinksStep DEF TokenInv
<1>4. TypeOK'
  BY <1>1, <1>2, <1>3 DEF TokenInv, TypeOK, LinksInv
<1>5. served \in Nat /\ served' = served + 1
  BY <1>1, ServedNumbers DEF TokenInv, Serve
<1>6. SpendsNumbered'
  <2>1. \A q \in spends : q.ref \in Nat /\ q.ref < served
    BY DEF TokenInv, TypeOK, Spend, SpendsNumbered
  <2>2. \A r \in ledger : r.key.kind \in {"out", "in"} =>
          r.key.of \in Nat /\ r.key.of < served
    BY DEF TokenInv, TypeOK, Row, Keys, SpendsNumbered
  <2>3. \A q \in spends' : q.ref < served' /\ (q.ban = None => q.to \in Users)
    BY <1>1, <1>5, <2>1 DEF TokenInv, SpendsNumbered
  <2>4. \A p, q \in spends' : p.ref = q.ref => p = q
    BY <1>1, <1>5, <2>1 DEF TokenInv, SpendsNumbered
  <2>5. \A r \in ledger' : r.key.kind \in {"out", "in"} =>
          r.key.of < served' /\ \A q \in spends' : q.ref # r.key.of
    BY <1>1, <1>5, <2>2 DEF TokenInv, SpendsNumbered
  <2> QED
    BY <2>3, <2>4, <2>5 DEF SpendsNumbered
<1>7. FulfilmentsPaid'
  BY <1>1 DEF TokenInv, FulfilmentsPaid, Paid
<1> QED
  BY <1>1, <1>2, <1>3, <1>4, <1>6, <1>7, RowsKept DEF TokenInv

LEMMA TransferReadsStep ==
  ASSUME TokenInv, NEW u \in Users, NEW v \in Users, TransferReads(u, v)
  PROVE  TokenInv'
<1> DEFINE s == [user |-> u, to |-> v, ban |-> None, ref |-> served]
<1>1. s \in Spend
  BY DEF TokenInv, TypeOK, LinksTypeOK, Spend
<1> QED
  BY <1>1, SpendReadsStep DEF TransferReads

LEMMA RedeemReadsStep ==
  ASSUME TokenInv, NEW u \in Users, NEW b \in DOMAIN Bans, RedeemReads(u, b)
  PROVE  TokenInv'
<1> DEFINE s == [user |-> u, to |-> None, ban |-> b, ref |-> served]
<1>1. s \in Spend
  BY DEF TokenInv, TypeOK, LinksTypeOK, Spend
<1>2. s.ban # None
  BY LedgerAssumption
<1> QED
  BY <1>1, <1>2, SpendReadsStep DEF RedeemReads

LEMMA SpendWritesStep ==
  ASSUME TokenInv, NEW s \in spends, SpendWrites(s)
  PROVE  TokenInv'
<1>1. /\ UNCHANGED <<linkVars, served, referrals, month, sweep, checkouts, fulfilling,
                     faults, overlapped>>
      /\ spends' = spends \ {s}
  BY DEF SpendWrites
<1>2. UNCHANGED users
  BY <1>1 DEF linkVars
<1>3. LinksInv'
  BY <1>1, LinksStep DEF TokenInv
<1>4. FulfilmentsPaid' /\ served \in Nat
  BY <1>1 DEF TokenInv, FulfilmentsPaid, Paid, TypeOK, LinksTypeOK
<1>5. s \in Spend
  BY DEF TokenInv, TypeOK
<1>6. CASE UNCHANGED <<ledger, lifted>>
  <2>1. TypeOK'
    BY <1>1, <1>2, <1>3, <1>6 DEF TokenInv, TypeOK, LinksInv
  <2>2. SpendsNumbered'
    BY <1>1, <1>4, <1>6, NumbersKept DEF TokenInv
  <2> QED
    BY <1>1, <1>2, <1>3, <1>4, <1>6, <2>1, <2>2, RowsKept DEF TokenInv
<1>7. CASE /\ s.user \in users /\ (s.to # None => s.to \in users)
           /\ s.ban # None => ~Held(Key("redeem", s.ban))
           /\ ledger' = ledger \cup (IF s.ban = None THEN TransferRows(s) ELSE {RedeemRow(s)})
           /\ lifted' = lifted \cup ({s.ban} \ {None})
  <2> DEFINE new == IF s.ban = None THEN TransferRows(s) ELSE {RedeemRow(s)}
  <2>1. /\ new \subseteq Row
        /\ \A r, q \in new : r.key = q.key => r = q
        /\ \A r \in new : /\ r.user \in users /\ r.key.kind # "referral"
                          /\ \A q \in ledger : q.key # r.key
                          /\ r.key.kind \in {"out", "in"} => r.key.of = s.ref
    <3>1. CASE s.ban = None
      <4>1. s.to \in users /\ s.ref \in Nat
        BY <1>5, <1>7, <3>1, LinksAssumption
           DEF TokenInv, SpendsNumbered, Spend
      <4>2. \A q \in ledger : q.key # Key("out", s.ref) /\ q.key # Key("in", s.ref)
        BY DEF TokenInv, SpendsNumbered, Key
      <4>3. new = TransferRows(s) /\ users \subseteq Users
        BY <3>1 DEF TokenInv, TypeOK, LinksTypeOK
      <4>4. Key("out", s.ref) # Key("in", s.ref)
        BY DEF Key
      <4>5. Key("out", s.ref) \in Keys /\ Key("in", s.ref) \in Keys
        BY <4>1, KeysOfKinds
      <4>6. /\ Key("out", s.ref).kind = "out" /\ Key("out", s.ref).of = s.ref
            /\ Key("in", s.ref).kind = "in" /\ Key("in", s.ref).of = s.ref
        BY DEF Key
      <4> QED
        BY <1>5, <1>7, <4>1, <4>2, <4>3, <4>4, <4>5, <4>6 DEF TransferRows, Row, Spend
    <3>2. CASE s.ban # None
      <4>1. new = {RedeemRow(s)} /\ s.ban \in DOMAIN Bans /\ s.user \in Users
        BY <1>5, <3>2 DEF Spend
      <4>2. Key("redeem", s.ban) \in Keys /\ Key("redeem", s.ban).kind = "redeem"
        BY <4>1, KeysOfKinds DEF Key
      <4>3. RedeemRow(s).key = Key("redeem", s.ban) /\ RedeemRow(s).user = s.user
            /\ RedeemRow(s) \in Row
        BY <4>1, <4>2 DEF RedeemRow, Row
      <4>4. \A q \in ledger : q.key # Key("redeem", s.ban)
        BY <1>7, <3>2 DEF Held
      <4> QED
        BY <1>7, <4>1, <4>2, <4>3, <4>4
    <3> QED
      BY <3>1, <3>2
  <2>2. ledger' = ledger \cup new /\ lifted' \subseteq DOMAIN Bans
    BY <1>5, <1>7 DEF Spend, TokenInv, TypeOK
  <2> HIDE DEF new
  <2>3. TypeOK'
    <3>1. ledger' \subseteq Row /\ \A r, q \in ledger' : r.key = q.key => r = q
      BY <2>1, <2>2 DEF TokenInv, TypeOK
    <3> QED
      BY <1>1, <1>2, <1>3, <2>2, <3>1 DEF TokenInv, TypeOK, LinksInv
  <2>4. SpendsNumbered'
    <3>1. \A q \in spends' : q.ref # s.ref
      BY <1>1 DEF TokenInv, SpendsNumbered
    <3>2. s.ref < served
      BY DEF TokenInv, SpendsNumbered
    <3> QED
      BY <1>1, <2>1, <2>2, <3>1, <3>2 DEF TokenInv, SpendsNumbered
  <2>5. RowsOwned' /\ OnePayee'
    BY <1>1, <1>2, <2>1, <2>2, PayeesKept DEF TokenInv
  <2> QED
    BY <1>3, <1>4, <2>3, <2>4, <2>5 DEF TokenInv
<1> QED
  BY <1>6, <1>7 DEF SpendWrites


-----------------------------------------------------------------------------
\* The store.

LEMMA CheckOutStep ==
  ASSUME TokenInv, NEW u \in Users, NEW s \in Sessions, CheckOut(u, s)
  PROVE  TokenInv'
<1> DEFINE c == [buyer |-> u, paid |-> FALSE, acked |-> FALSE]
<1>1. /\ UNCHANGED <<linkVars, ledger, referrals, month, sweep, lifted, spends, fulfilling,
                     faults, overlapped>>
      /\ Serve /\ checkouts[s] = None /\ checkouts' = [checkouts EXCEPT ![s] = c]
  BY DEF CheckOut
<1>2. UNCHANGED users
  BY <1>1 DEF linkVars
<1>3. LinksInv'
  BY <1>1, LinksStep DEF TokenInv
<1>4. checkouts' \in [Sessions -> {None} \cup Checkout]
  BY <1>1 DEF TokenInv, TypeOK, Checkout
<1>5. TypeOK'
  BY <1>1, <1>2, <1>3, <1>4 DEF TokenInv, TypeOK, LinksInv
<1>6. served \in Nat /\ served' \in Nat /\ served <= served'
  BY <1>1, ServedNumbers DEF TokenInv
<1>7. SpendsNumbered'
  BY <1>1, <1>6, NumbersKept DEF TokenInv
<1>8. FulfilmentsPaid'
  BY <1>1 DEF TokenInv, TypeOK, Fulfilment, FulfilmentsPaid, Paid
<1> QED
  BY <1>1, <1>2, <1>3, <1>5, <1>7, <1>8, RowsKept DEF TokenInv

\* A session that has been paid stays so.
LEMMA PaidKept ==
  ASSUME TypeOK, NEW s \in Sessions, NEW c \in Checkout, Paid(s) => c.paid,
         checkouts' = [checkouts EXCEPT ![s] = c]
  PROVE  /\ checkouts' \in [Sessions -> {None} \cup Checkout]
         /\ \A q \in Sessions : Paid(q) => Paid(q)'
<1>1. checkouts \in [Sessions -> {None} \cup Checkout]
  BY DEF TypeOK
<1>2. checkouts' \in [Sessions -> {None} \cup Checkout]
  BY <1>1
<1>3. ASSUME NEW q \in Sessions, Paid(q) PROVE Paid(q)'
  <2>1. CASE q # s
    <3>1. checkouts'[q] = checkouts[q]
      BY <1>1, <2>1
    <3> QED
      BY <3>1, <1>3 DEF Paid
  <2>2. CASE q = s
    <3>1. checkouts'[q] = c
      BY <1>1, <2>2
    <3>2. c # None
      BY LedgerAssumption
    <3> QED
      BY <3>1, <3>2, <2>2, <1>3 DEF Paid
  <2> QED
    BY <2>1, <2>2
<1> QED
  BY <1>2, <1>3

LEMMA PayStep ==
  ASSUME TokenInv, NEW s \in Sessions, Pay(s)
  PROVE  TokenInv'
<1> DEFINE c == [checkouts[s] EXCEPT !.paid = TRUE]
<1>1. /\ UNCHANGED <<linkVars, served, ledger, referrals, month, sweep, lifted, spends,
                     fulfilling, faults, overlapped>>
      /\ checkouts' = [checkouts EXCEPT ![s] = c]
  BY DEF Pay
<1>2. checkouts[s] \in Checkout
  BY DEF Pay, TokenInv, TypeOK
<1>3. c \in Checkout /\ c.paid
  BY <1>2 DEF Checkout
<1>4. UNCHANGED users
  BY <1>1 DEF linkVars
<1>5. LinksInv'
  BY <1>1, LinksStep DEF TokenInv
<1> HIDE DEF c
<1>6. /\ checkouts' \in [Sessions -> {None} \cup Checkout]
      /\ \A q \in Sessions : Paid(q) => Paid(q)'
  BY <1>1, <1>3, PaidKept DEF TokenInv
<1>7. TypeOK'
  BY <1>1, <1>4, <1>5, <1>6 DEF TokenInv, TypeOK, LinksInv
<1>8. SpendsNumbered'
  BY <1>1, ServedNumbers, NumbersKept DEF TokenInv
<1>9. FulfilmentsPaid'
  BY <1>1, <1>6 DEF TokenInv, TypeOK, Fulfilment, FulfilmentsPaid
<1> QED
  BY <1>1, <1>4, <1>5, <1>7, <1>8, <1>9, RowsKept DEF TokenInv

\* A call begins, by either way.
LEMMA FulfilStep ==
  ASSUME TokenInv, NEW s \in Sessions, NEW by \in {"webhook", "confirm"}, Fulfil(s, by),
         Serve \/ UNCHANGED served
  PROVE  TokenInv'
<1> DEFINE f == [session |-> s, by |-> by, next |-> 1]
<1>1. /\ UNCHANGED <<linkVars, ledger, referrals, month, sweep, lifted, spends, checkouts,
                     faults, overlapped>>
      /\ Paid(s) /\ fulfilling' = fulfilling \cup {f}
  BY DEF Fulfil
<1>2. f \in Fulfilment /\ f.session = s
  BY LedgerAssumption DEF Fulfilment
<1>3. UNCHANGED users
  BY <1>1 DEF linkVars
<1>4. LinksInv'
  BY <1>1, LinksStep DEF TokenInv
<1> HIDE DEF f
<1>5. TypeOK'
  BY <1>1, <1>2, <1>3, <1>4 DEF TokenInv, TypeOK, LinksInv
<1>6. SpendsNumbered'
  BY <1>1, ServedNumbers, NumbersKept DEF TokenInv
<1>7. FulfilmentsPaid'
  BY <1>1, <1>2 DEF TokenInv, FulfilmentsPaid, Paid
<1> QED
  BY <1>1, <1>3, <1>4, <1>5, <1>6, <1>7, RowsKept DEF TokenInv

LEMMA FulfilFailsStep ==
  ASSUME TokenInv, NEW f \in fulfilling, FulfilFails(f)
  PROVE  TokenInv'
<1>1. /\ UNCHANGED <<linkVars, served, ledger, referrals, month, sweep, lifted, spends,
                     checkouts, overlapped>>
      /\ fulfilling' \subseteq fulfilling /\ faults' \in 0 .. MaxFaults
  BY LedgerAssumption DEF FulfilFails, TokenInv, TypeOK
<1>2. UNCHANGED users
  BY <1>1 DEF linkVars
<1>3. LinksInv'
  BY <1>1, LinksStep DEF TokenInv
<1>4. TypeOK'
  BY <1>1, <1>2, <1>3 DEF TokenInv, TypeOK, LinksInv
<1>5. SpendsNumbered'
  BY <1>1, ServedNumbers, NumbersKept DEF TokenInv
<1>6. FulfilmentsPaid'
  BY <1>1 DEF TokenInv, FulfilmentsPaid, Paid
<1> QED
  BY <1>1, <1>2, <1>3, <1>4, <1>5, <1>6, RowsKept DEF TokenInv

LEMMA GrantPurchasedStep ==
  ASSUME TokenInv, NEW f \in fulfilling, GrantPurchased(f)
  PROVE  TokenInv'
<1> DEFINE s == f.session
           buyer == checkouts[s].buyer
           key == Key("stripe", <<s, f.next>>)
           c == [checkouts[s] EXCEPT !.acked = TRUE]
           on == [f EXCEPT !.next = @ + 1]
<1>1. /\ UNCHANGED <<linkVars, served, referrals, month, sweep, lifted, spends, faults,
                     overlapped>>
      /\ ledger' = IF buyer \notin users THEN ledger ELSE Granted(buyer, key)
      /\ \/ fulfilling' = fulfilling \ {f}
         \/ f.next # Quantity /\ fulfilling' = (fulfilling \ {f}) \cup {on}
      /\ UNCHANGED checkouts \/ checkouts' = [checkouts EXCEPT ![s] = c]
  BY DEF GrantPurchased, Acked
<1>2. f \in Fulfilment /\ s \in Sessions /\ f.next \in 1 .. Quantity /\ Paid(s)
  BY DEF TokenInv, TypeOK, Fulfilment, FulfilmentsPaid
<1>3. checkouts[s] \in Checkout
  BY <1>2 DEF TokenInv, TypeOK, Paid
<1>4. c \in Checkout /\ c.paid
  BY <1>2, <1>3 DEF Checkout, Paid
<1>5. f.next # Quantity => on \in Fulfilment /\ on.session = s
  BY <1>2, LedgerAssumption DEF Fulfilment
<1>6. UNCHANGED users
  BY <1>1 DEF linkVars
<1>7. LinksInv'
  BY <1>1, LinksStep DEF TokenInv
<1>8. buyer \in Users /\ key \in Keys /\ key.kind = "stripe"
  BY <1>2, <1>3, KeysOfKinds DEF Checkout, Key
<1> HIDE DEF s, buyer, key, c, on
<1>9. /\ checkouts' \in [Sessions -> {None} \cup Checkout]
      /\ \A q \in Sessions : Paid(q) => Paid(q)'
  <2>1. CASE UNCHANGED checkouts
    BY <2>1 DEF TokenInv, TypeOK, Paid
  <2>2. CASE checkouts' = [checkouts EXCEPT ![s] = c]
    BY <1>2, <1>4, <2>2, PaidKept DEF TokenInv
  <2> QED
    BY <1>1, <2>1, <2>2
<1>10. fulfilling' \subseteq Fulfilment /\ \A g \in fulfilling' : Paid(g.session)
  BY <1>1, <1>2, <1>5 DEF TokenInv, TypeOK, FulfilmentsPaid
<1>11. /\ ledger' \subseteq Row
       /\ \A r, q \in ledger' : r.key = q.key => r = q
       /\ ledger \subseteq ledger'
       /\ \A r \in ledger' \ ledger : r.user \in users /\ r.key.kind = "stripe"
  <2>1. CASE buyer \notin users
    BY <1>1, <2>1 DEF TokenInv, TypeOK
  <2>2. CASE buyer \in users
    <3>1. ledger' = Granted(buyer, key)
      BY <1>1, <2>2
    <3> QED
      BY <1>8, <2>2, <3>1, GrantWritten DEF TokenInv, RowOfKey
  <2> QED
    BY <2>1, <2>2
<1>12. TypeOK'
  BY <1>1, <1>6, <1>7, <1>9, <1>10, <1>11 DEF TokenInv, TypeOK, LinksInv
<1>13. SpendsNumbered'
  BY <1>1, <1>11, ServedNumbers, NumbersKept DEF TokenInv
<1>14. FulfilmentsPaid'
  BY <1>9, <1>10, <1>12 DEF TypeOK, Fulfilment, FulfilmentsPaid
<1>15. RowsOwned' /\ OnePayee'
  BY <1>1, <1>6, <1>11, PayeesKept DEF TokenInv
<1> QED
  BY <1>7, <1>12, <1>13, <1>14, <1>15 DEF TokenInv

-----------------------------------------------------------------------------
\* An account goes.

\* Every row left is an older row of somebody else, with its key.
LEMMA RowsLeft ==
  ASSUME TypeOK, NEW u \in Users
  PROVE  /\ LedgerWithout(u) \subseteq Row
         /\ \A r \in LedgerWithout(u) :
              \E q \in ledger : q.user # u /\ r.user = q.user /\ r.key = q.key
         /\ \A r, q \in LedgerWithout(u) : r.key = q.key => r = q
<1> DEFINE left(q) == IF q.party = u THEN [q EXCEPT !.party = None] ELSE q
<1>1. LedgerWithout(u) = {left(q) : q \in {p \in ledger : p.user # u}}
  BY DEF LedgerWithout
<1>2. \A q \in ledger : left(q) \in Row /\ left(q).user = q.user /\ left(q).key = q.key
  BY DEF TypeOK, Row
<1> HIDE DEF left
<1>3. LedgerWithout(u) \subseteq Row
  BY <1>1, <1>2
<1>4. \A r \in LedgerWithout(u) :
        \E q \in ledger : q.user # u /\ r.user = q.user /\ r.key = q.key
  BY <1>1, <1>2
<1>5. \A r, q \in LedgerWithout(u) : r.key = q.key => r = q
  BY <1>1, <1>2 DEF TypeOK
<1> QED
  BY <1>3, <1>4, <1>5

LEMMA DeleteTokensStep ==
  ASSUME TokenInv, NEW u \in Users, DeleteAccount(u)
  PROVE  TokenInv'
<1>1. /\ UNCHANGED <<month, sweep, lifted, spends, checkouts, fulfilling, faults, overlapped>>
      /\ ledger' = LedgerWithout(u)
      /\ referrals' = [v \in Users |-> IF v = u \/ referrals[v] = u THEN None
                                       ELSE referrals[v]]
      /\ AccountGone(u) /\ Serve /\ users' = users \ {u}
  BY DEF DeleteAccount, AccountGone
<1>2. LinksInv'
  BY <1>1, AccountGoneStep DEF TokenInv
<1>3. /\ ledger' \subseteq Row
      /\ \A r \in ledger' : \E q \in ledger : q.user # u /\ r.user = q.user /\ r.key = q.key
      /\ \A r, q \in ledger' : r.key = q.key => r = q
  BY <1>1, RowsLeft DEF TokenInv
<1>4. TypeOK'
  BY <1>1, <1>2, <1>3 DEF TokenInv, TypeOK, LinksInv
<1>5. served \in Nat /\ served' \in Nat /\ served <= served'
  BY <1>1, ServedNumbers DEF TokenInv
<1>6. SpendsNumbered'
  <2>1. \A s \in spends' : s \in spends /\ s.ref \in Nat
    BY <1>1 DEF TokenInv, TypeOK, Spend
  <2>2. \A r \in ledger : r.key.kind \in {"out", "in"} => r.key.of \in Nat
    BY DEF TokenInv, TypeOK, Row, Keys
  <2>3. \A r \in ledger' : r.key.kind \in {"out", "in"} =>
          r.key.of < served' /\ \A s \in spends' : s.ref # r.key.of
    BY <1>3, <1>5, <2>1, <2>2 DEF TokenInv, SpendsNumbered
  <2> QED
    BY <1>5, <2>1, <2>3 DEF TokenInv, SpendsNumbered
<1>7. FulfilmentsPaid'
  BY <1>1 DEF TokenInv, FulfilmentsPaid, Paid
<1>8. RowsOwned'
  <2>1. \A r \in ledger' : r.user \in users'
    BY <1>1, <1>3 DEF TokenInv, RowsOwned
  <2>2. \A r \in ledger' : r.key.kind = "referral" => r.user = r.key.of[1]
    BY <1>3 DEF TokenInv, RowsOwned
  <2>3. \A v \in Users : referrals'[v] # None => {v, referrals'[v]} \subseteq users'
    BY <1>1 DEF TokenInv, RowsOwned
  <2> QED
    BY <1>1, <2>1, <2>2, <2>3 DEF TokenInv, RowsOwned
<1>9. OnePayee'
  <2>1. \A v \in Users : Payees(v)' \subseteq Payees(v)
    BY <1>1, <1>3 DEF Payees, Held
  <2>2. ASSUME NEW v \in Users, v \in users', NEW a \in Payees(v)'
        PROVE  a = referrals'[v]
    <3>1. a = referrals[v] /\ a \in users' /\ v # u
      BY <1>1, <2>1, <2>2 DEF TokenInv, OnePayee, Payees
    <3> QED
      BY <1>1, <3>1
  <2> QED
    BY <2>1, <2>2 DEF TokenInv, OnePayee
<1> QED
  BY <1>2, <1>4, <1>6, <1>7, <1>8, <1>9 DEF TokenInv

-----------------------------------------------------------------------------
LEMMA TokenStutter ==
  ASSUME TokenInv, UNCHANGED vars
  PROVE  TokenInv'
<1>1. UNCHANGED <<users, links, challenges, emotes, verifier, requests, served, tokenVars>>
  BY DEF vars, linkVars
<1>2. LinksInv'
  BY LinksStep DEF TokenInv, vars
<1>3. TypeOK'
  BY <1>1, <1>2 DEF TokenInv, TypeOK, LinksInv, tokenVars
<1>4. SpendsNumbered' /\ FulfilmentsPaid'
  BY <1>1 DEF TokenInv, SpendsNumbered, FulfilmentsPaid, Paid, tokenVars
<1>5. RowsOwned' /\ OnePayee'
  BY <1>1, RowsKept DEF tokenVars
<1> QED
  BY <1>2, <1>3, <1>4, <1>5 DEF TokenInv

LEMMA TokenStep == TokenInv /\ [Next]_vars => TokenInv'
<1> SUFFICES ASSUME TokenInv, [Next]_vars PROVE TokenInv'
  OBVIOUS
<1>1. CASE Links
  BY <1>1, LinksTokenStep
<1>2. CASE \E kind \in Sweeps : ReadSweep(kind)
  BY <1>2, ReadSweepStep
<1>3. CASE \E d \in sweep : PayGrant(d)
  BY <1>3, PayGrantStep
<1>4. CASE NewMonth
  BY <1>4, NewMonthStep
<1>5. CASE \E u, v \in Users : Refer(u, v) \/ TransferReads(u, v)
  BY <1>5, ReferStep, TransferReadsStep
<1>6. CASE \E u \in Users, b \in DOMAIN Bans : RedeemReads(u, b)
  BY <1>6, RedeemReadsStep
<1>7. CASE \E s \in spends : SpendWrites(s)
  BY <1>7, SpendWritesStep
<1>8. CASE \E u \in Users, s \in Sessions : CheckOut(u, s)
  BY <1>8, CheckOutStep
<1>9. CASE \E s \in Sessions : Pay(s) \/ Deliver(s) \/ Confirm(s)
  <2> PICK s \in Sessions : Pay(s) \/ Deliver(s) \/ Confirm(s)
    BY <1>9
  <2> QED
    BY PayStep, FulfilStep DEF Deliver, Confirm
<1>10. CASE \E f \in fulfilling : GrantPurchased(f) \/ FulfilFails(f)
  BY <1>10, GrantPurchasedStep, FulfilFailsStep
<1>11. CASE \E u \in Users : DeleteAccount(u)
  BY <1>11, DeleteTokensStep
<1>12. CASE UNCHANGED vars
  BY <1>12, TokenStutter
<1> QED
  BY <1>1, <1>2, <1>3, <1>4, <1>5, <1>6, <1>7, <1>8, <1>9, <1>10, <1>11, <1>12 DEF Next

\* TokenInv holds in every state.
THEOREM TokenInvariant == Spec => []TokenInv
BY TokenInitInv, TokenStep, PTL DEF Spec

\* Every table of the store of tokens keeps its shape, and a key of the ledger
\* (token_transactions' unique index) is held by one row.
THEOREM TokenTypeCorrect == Spec => []TypeOK
<1>1. TokenInv => TypeOK
  BY DEF TokenInv
<1> QED
  BY <1>1, TokenInvariant, PTL

\* A referee pays one referrer one token, ever (apps/granter's referral sweep),
\* although the referrer may leave and the referee name another.
THEOREM ReferralsPaidOnce == Spec => []ReferralsPayOnce
<1>1. TokenInv => ReferralsPayOnce
  <2> SUFFICES ASSUME TokenInv, NEW u \in Users
               PROVE  Cardinality({r \in ledger : r.key.kind = "referral" /\ r.key.of[2] = u}) <= 1
    BY DEF ReferralsPayOnce
  <2> DEFINE S == {r \in ledger : r.key.kind = "referral" /\ r.key.of[2] = u}
  <2>1. ASSUME NEW r \in S
        PROVE  r.user \in Payees(u) /\ r.key = Key("referral", <<r.user, u>>)
    <3>1. r.key \in [kind: {"referral"}, of: Users \X Users]
      BY DEF TokenInv, TypeOK, Row, Keys
    <3>2. r.key = Key("referral", <<r.user, u>>)
      BY <3>1 DEF TokenInv, RowsOwned, Key
    <3> QED
      BY <3>2 DEF TokenInv, RowsOwned, Payees, Held
  <2>2. ASSUME NEW r \in S, NEW q \in S PROVE r = q
    <3>1. r.user = q.user
      BY <2>1 DEF TokenInv, OnePayee
    <3>2. r.key = q.key
      BY <2>1, <3>1
    <3> QED
      BY <3>2 DEF TokenInv, TypeOK
  <2>3. Cardinality(S) <= 1
    <3>1. CASE S = {}
      BY <3>1, FS_EmptySet
    <3>2. CASE S # {}
      <4> PICK r \in S : TRUE
        BY <3>2
      <4>1. S = {r}
        BY <2>2
      <4> HIDE DEF S
      <4> QED
        BY <4>1, FS_Singleton
    <3> QED
      BY <3>1, <3>2
  <2> QED
    BY <2>3
<1> QED
  BY <1>1, TokenInvariant, PTL

-----------------------------------------------------------------------------
\* Balances.  The sum of a set of rows is what MapThenSumSet recurses to, row by
\* row; as a row counts 1 or -1 it is also a difference of two cardinalities, and
\* of that the steps can be followed.

Ups(S) == {r \in S : r.delta = 1}
Downs(S) == {r \in S : r.delta = -1}
Units(S) == Cardinality(Ups(S)) - Cardinality(Downs(S))
RowsOf(u) == {r \in ledger : r.user = u}

AnyRow(S) == CHOOSE r \in S : TRUE
\* h is the sum of every set of rows of S.
Adds(h, S) ==
  h = [s \in SUBSET S |-> IF s = {} THEN 0 ELSE AnyRow(s).delta + h[s \ {AnyRow(s)}]]

LEMMA UnitsOfRows ==
  ASSUME NEW S, IsFiniteSet(S), \A r \in S : r.delta \in {-1, 1}
  PROVE  /\ Units(S) \in Int
         /\ IsFiniteSet(Ups(S)) /\ Cardinality(Ups(S)) \in Nat
         /\ IsFiniteSet(Downs(S)) /\ Cardinality(Downs(S)) \in Nat
<1>1. IsFiniteSet(Ups(S)) /\ IsFiniteSet(Downs(S))
  BY FS_Subset DEF Ups, Downs
<1> QED
  BY <1>1, FS_CardinalityType DEF Units

LEMMA UnitsWithout ==
  ASSUME NEW S, IsFiniteSet(S), \A r \in S : r.delta \in {-1, 1}, NEW q \in S
  PROVE  Units(S) = q.delta + Units(S \ {q})
<1>1. /\ IsFiniteSet(Ups(S)) /\ Cardinality(Ups(S)) \in Nat
      /\ IsFiniteSet(Downs(S)) /\ Cardinality(Downs(S)) \in Nat
  BY UnitsOfRows
<1>2. CASE q.delta = 1
  <2>1. Ups(S \ {q}) = Ups(S) \ {q} /\ Downs(S \ {q}) = Downs(S) /\ q \in Ups(S)
    BY <1>2 DEF Ups, Downs
  <2>2. Cardinality(Ups(S) \ {q}) = Cardinality(Ups(S)) - 1
    BY <1>1, <2>1, FS_RemoveElement
  <2>3. Units(S \ {q}) = (Cardinality(Ups(S)) - 1) - Cardinality(Downs(S))
    BY <2>1, <2>2 DEF Units
  <2>4. Units(S) = Cardinality(Ups(S)) - Cardinality(Downs(S))
    BY DEF Units
  <2> QED
    BY <1>1, <1>2, <2>3, <2>4
<1>3. CASE q.delta = -1
  <2>1. Downs(S \ {q}) = Downs(S) \ {q} /\ Ups(S \ {q}) = Ups(S) /\ q \in Downs(S)
    BY <1>3 DEF Ups, Downs
  <2>2. Cardinality(Downs(S) \ {q}) = Cardinality(Downs(S)) - 1
    BY <1>1, <2>1, FS_RemoveElement
  <2>3. Units(S \ {q}) = Cardinality(Ups(S)) - (Cardinality(Downs(S)) - 1)
    BY <2>1, <2>2 DEF Units
  <2>4. Units(S) = Cardinality(Ups(S)) - Cardinality(Downs(S))
    BY DEF Units
  <2> QED
    BY <1>1, <1>3, <2>3, <2>4
<1> QED
  BY <1>2, <1>3

LEMMA UnitsAdd ==
  ASSUME NEW S, IsFiniteSet(S), \A r \in S : r.delta \in {-1, 1}
  PROVE  Adds([s \in SUBSET S |-> Units(s)], S)
<1> DEFINE g == [s \in SUBSET S |-> Units(s)]
<1>1. Units({}) = 0
  <2>1. Ups({}) = {} /\ Downs({}) = {}
    BY DEF Ups, Downs
  <2> QED
    BY <2>1, FS_EmptySet DEF Units
<1>2. ASSUME NEW s \in SUBSET S, s # {}
      PROVE  Units(s) = AnyRow(s).delta + g[s \ {AnyRow(s)}]
  <2>1. AnyRow(s) \in s
    BY <1>2 DEF AnyRow
  <2>2. IsFiniteSet(s)
    BY FS_Subset
  <2>3. Units(s) = AnyRow(s).delta + Units(s \ {AnyRow(s)})
    BY <2>1, <2>2, UnitsWithout
  <2> QED
    BY <2>3
<1>3. g = [s \in SUBSET S |-> IF s = {} THEN 0 ELSE AnyRow(s).delta + g[s \ {AnyRow(s)}]]
  BY <1>1, <1>2
<1> QED
  BY <1>3 DEF Adds

\* There is no second sum: of a smallest set the two would differ at, they agree
\* on what is left without the row taken first.
LEMMA OneSum ==
  ASSUME NEW S, IsFiniteSet(S), NEW g, NEW h, Adds(g, S), Adds(h, S)
  PROVE  g[S] = h[S]
<1> SUFFICES ASSUME g[S] # h[S] PROVE FALSE
  OBVIOUS
<1> DEFINE D == {s \in SUBSET S : g[s] # h[s]}
           R == StrictSubsetOrdering(S)
<1>1. D \subseteq SUBSET S /\ D # {}
  OBVIOUS
<1>2. IsWellFoundedOn(R, SUBSET S)
  BY FS_StrictSubsetOrderingWellFounded, FS_FiniteSubsetsOfFinite
<1> HIDE DEF R
<1>3. PICK s \in D : \A t \in D : ~ (<<t, s>> \in R)
  BY <1>1, <1>2, WFMin
<1>4. s # {}
  BY DEF Adds
<1>5. AnyRow(s) \in s
  BY <1>4 DEF AnyRow
<1>6. /\ g[s] = AnyRow(s).delta + g[s \ {AnyRow(s)}]
      /\ h[s] = AnyRow(s).delta + h[s \ {AnyRow(s)}]
  BY <1>4 DEF Adds
<1>7. s \ {AnyRow(s)} \in D
  BY <1>6
<1>8. <<s \ {AnyRow(s)}, s>> \in R
  BY <1>5 DEF R, StrictSubsetOrdering
<1> QED
  BY <1>3, <1>7, <1>8

LEMMA SumOfRows ==
  ASSUME NEW S, IsFiniteSet(S), \A r \in S : r.delta \in {-1, 1}
  PROVE  (CHOOSE h : Adds(h, S))[S] = Units(S)
<1> DEFINE g == [s \in SUBSET S |-> Units(s)]
<1>1. Adds(g, S) /\ g[S] = Units(S)
  BY UnitsAdd
<1> HIDE DEF g
<1>2. Adds(CHOOSE h : Adds(h, S), S)
  BY <1>1
<1> QED
  BY <1>1, <1>2, OneSum

LedgerFinite == IsFiniteSet(ledger) /\ ledger \subseteq Row
BalancesAdd == \A u \in Users : Balance(u) = Units(RowsOf(u))

LEMMA BalanceIsUnits == LedgerFinite => BalancesAdd
<1> SUFFICES ASSUME LedgerFinite, NEW u \in Users PROVE Balance(u) = Units(RowsOf(u))
  BY DEF BalancesAdd
<1>1. IsFiniteSet(RowsOf(u)) /\ \A r \in RowsOf(u) : r.delta \in {-1, 1}
  BY FS_Subset DEF LedgerFinite, RowsOf, Row
<1>2. Balance(u) = (CHOOSE h : Adds(h, RowsOf(u)))[RowsOf(u)]
  BY DEF Balance, RowsOf, MapThenSumSet, MapThenFoldSet, Adds, AnyRow
<1> QED
  BY <1>1, <1>2, SumOfRows


-----------------------------------------------------------------------------
\* An overdraft needs two spends of one user under way at once.

\* Rows added raise the units, but for what the minus rows among them take.
LEMMA UnitsGrow ==
  ASSUME NEW S, NEW T, IsFiniteSet(T), S \subseteq T, \A r \in T : r.delta \in {-1, 1}
  PROVE  /\ (\A r \in T \ S : r.delta = 1) => Units(T) >= Units(S)
         /\ \A q : (\A r \in T \ S : r.delta = 1 \/ r = q) => Units(T) >= Units(S) - 1
<1>1. IsFiniteSet(S)
  BY FS_Subset
<1>2. /\ IsFiniteSet(Ups(S)) /\ Cardinality(Ups(S)) \in Nat
      /\ IsFiniteSet(Downs(S)) /\ Cardinality(Downs(S)) \in Nat
  BY <1>1, UnitsOfRows
<1>3. /\ IsFiniteSet(Ups(T)) /\ Cardinality(Ups(T)) \in Nat
      /\ IsFiniteSet(Downs(T)) /\ Cardinality(Downs(T)) \in Nat
  BY UnitsOfRows
<1>4. Cardinality(Ups(S)) <= Cardinality(Ups(T))
  <2>1. Ups(S) \in SUBSET Ups(T)
    BY DEF Ups
  <2> QED
    BY <1>3, <2>1, FS_Subset
<1>5. /\ Units(S) = Cardinality(Ups(S)) - Cardinality(Downs(S))
      /\ Units(T) = Cardinality(Ups(T)) - Cardinality(Downs(T))
  BY DEF Units
<1>6. ASSUME \A r \in T \ S : r.delta = 1 PROVE Units(T) >= Units(S)
  <2>1. Downs(T) = Downs(S)
    BY <1>6 DEF Downs
  <2> QED
    BY <1>2, <1>3, <1>4, <1>5, <2>1
<1>7. ASSUME NEW q, \A r \in T \ S : r.delta = 1 \/ r = q PROVE Units(T) >= Units(S) - 1
  <2>1. Downs(T) \in SUBSET (Downs(S) \cup {q})
    BY <1>7 DEF Downs
  <2>2. /\ IsFiniteSet(Downs(S) \cup {q})
        /\ Cardinality(Downs(S) \cup {q}) =
             IF q \in Downs(S) THEN Cardinality(Downs(S)) ELSE Cardinality(Downs(S)) + 1
    BY <1>2, FS_AddElement
  <2>3. Cardinality(Downs(T)) <= Cardinality(Downs(S) \cup {q})
    BY <2>1, <2>2, FS_Subset
  <2>4. Cardinality(Downs(S) \cup {q}) \in Nat
    BY <2>2, FS_CardinalityType
  <2> QED
    BY <1>2, <1>3, <1>4, <1>5, <2>2, <2>3, <2>4
<1> QED
  BY <1>6, <1>7

\* While no two of their spends have overlapped, a user's one spend under way is
\* covered by a token.
Covered(u) ==
  /\ Units(RowsOf(u)) >= 0
  /\ \A s \in Spending(u) : Spending(u) = {s} /\ (u \in users => Units(RowsOf(u)) >= 1)
SpendsCovered == IsFiniteSet(ledger) /\ \A u \in Users \ overlapped : Covered(u)

\* What the proof needs of a step that writes no minus row.
LEMMA CoveredMore ==
  ASSUME TokenInv, TypeOK', SpendsCovered, UNCHANGED <<users, spends, overlapped>>,
         ledger \subseteq ledger', IsFiniteSet(ledger'), \A r \in ledger' \ ledger : r.delta = 1
  PROVE  SpendsCovered'
<1> SUFFICES ASSUME NEW u \in Users \ overlapped PROVE Covered(u)'
  BY DEF SpendsCovered
<1> DEFINE S == RowsOf(u)
           T == RowsOf(u)'
<1>1. S \subseteq T /\ \A r \in T \ S : r.delta = 1
  BY DEF RowsOf
<1>2. IsFiniteSet(T) /\ \A r \in T : r.delta \in {-1, 1}
  BY FS_Subset DEF RowsOf, TypeOK, Row
<1>3. IsFiniteSet(S) /\ \A r \in S : r.delta \in {-1, 1}
  BY <1>1, <1>2, FS_Subset
<1>4. Units(S) \in Int /\ Units(T) \in Int
  BY <1>2, <1>3, UnitsOfRows
<1> HIDE DEF S, T
<1>5. Units(T) >= Units(S)
  BY <1>1, <1>2, UnitsGrow
<1>6. Spending(u)' = Spending(u)
  BY DEF Spending
<1>7. Covered(u)
  BY DEF SpendsCovered
<1>8. /\ Units(T) >= 0
      /\ \A s \in Spending(u) : Spending(u) = {s} /\ (u \in users => Units(T) >= 1)
  BY <1>4, <1>5, <1>7 DEF Covered, S
<1> QED
  BY <1>6, <1>8 DEF Covered, T

LEMMA GrantFinite ==
  ASSUME SpendsCovered, NEW u, NEW key
  PROVE  IsFiniteSet(Granted(u, key)) /\ \A r \in Granted(u, key) \ ledger : r.delta = 1
<1>1. IsFiniteSet(ledger \cup {RowOfKey(u, key)})
  BY FS_AddElement DEF SpendsCovered
<1> QED
  BY <1>1 DEF SpendsCovered, Granted, RowOfKey

LEMMA CoveredGrants ==
  ASSUME TokenInv, TypeOK', SpendsCovered,
         \/ \E d \in sweep : PayGrant(d)
         \/ \E f \in fulfilling : GrantPurchased(f)
  PROVE  SpendsCovered'
<1>1. UNCHANGED <<users, spends, overlapped>>
  BY DEF PayGrant, GrantPurchased, linkVars
<1>2. ledger' = ledger \/ \E u, key : ledger' = Granted(u, key)
  BY DEF PayGrant, GrantPurchased
<1>3. \A u, key : ledger \subseteq Granted(u, key)
  BY DEF Granted
<1>4. /\ ledger \subseteq ledger' /\ IsFiniteSet(ledger')
      /\ \A r \in ledger' \ ledger : r.delta = 1
  BY <1>2, <1>3, GrantFinite DEF SpendsCovered
<1> QED
  BY <1>1, <1>4, CoveredMore

\* The spend that reads finds a token, or another one under way.
LEMMA CoveredReads ==
  ASSUME TokenInv, SpendsCovered, BalancesAdd, NEW s \in Spend, SpendReads(s), MaySpend(s.user)
  PROVE  SpendsCovered'
<1>1. /\ UNCHANGED <<ledger, users>> /\ spends' = spends \cup {s}
      /\ overlapped' = IF Spending(s.user) = {} THEN overlapped
                       ELSE overlapped \cup {s.user}
  BY DEF SpendReads, linkVars
<1>2. s.user \in Users /\ Units(RowsOf(s.user)) >= 1
  BY DEF MaySpend, BalancesAdd, Spend
<1>3. \A u : RowsOf(u)' = RowsOf(u)
  BY <1>1 DEF RowsOf
<1>4. ASSUME NEW u \in Users \ overlapped' PROVE Covered(u)'
  <2>1. Covered(u)
    BY <1>1, <1>4 DEF SpendsCovered
  <2>2. CASE u # s.user
    <3>1. Spending(u)' = Spending(u)
      BY <1>1, <2>2 DEF Spending
    <3> QED
      BY <1>1, <1>3, <2>1, <3>1 DEF Covered
  <2>3. CASE u = s.user
    <3>1. Spending(u)' = {s}
      BY <1>1, <1>4, <2>3 DEF Spending
    <3> QED
      BY <1>1, <1>2, <1>3, <2>1, <2>3, <3>1 DEF Covered
  <2> QED
    BY <2>2, <2>3
<1> QED
  BY <1>1, <1>4 DEF SpendsCovered

\* The spend that writes takes its user's one token.
LEMMA CoveredWrites ==
  ASSUME TokenInv, TypeOK', SpendsCovered, NEW s \in spends, SpendWrites(s)
  PROVE  SpendsCovered'
<1> DEFINE new == IF s.ban = None THEN TransferRows(s) ELSE {RedeemRow(s)}
<1>1. UNCHANGED <<users, overlapped>> /\ spends' = spends \ {s}
  BY DEF SpendWrites, linkVars
<1>2. \/ ledger' = ledger
      \/ s.user \in users /\ ledger' = ledger \cup new
  <2>1. \/ UNCHANGED <<ledger, lifted>>
        \/ s.user \in users /\ ledger' = ledger \cup new
    BY DEF SpendWrites
  <2> HIDE DEF new
  <2> QED
    BY <2>1
<1>3. IsFiniteSet(new)
  <2>1. IsFiniteSet({RedeemRow(s)})
    BY FS_Singleton
  <2>2. IsFiniteSet(TransferRows(s))
    <3>1. PICK p, q : TransferRows(s) = {p} \cup {q}
      BY DEF TransferRows
    <3>2. IsFiniteSet({p})
      BY FS_Singleton
    <3> QED
      BY <3>1, <3>2, FS_AddElement
  <2> QED
    BY <2>1, <2>2
<1>4. PICK q : q.user = s.user /\ \A r \in new : r.delta = 1 \/ r = q
  <2>1. CASE s.ban = None
    <3> DEFINE out == [user |-> s.user, key |-> Key("out", s.ref), delta |-> -1,
                       party |-> s.to]
    <3>1. out.user = s.user /\ \A r \in new : r.delta = 1 \/ r = out
      BY <2>1 DEF TransferRows
    <3> QED
      BY <3>1
  <2>2. CASE s.ban # None
    BY <2>2 DEF RedeemRow
  <2> QED
    BY <2>1, <2>2
<1> HIDE DEF new
<1>5. IsFiniteSet(ledger') /\ ledger \subseteq ledger'
  BY <1>2, <1>3, FS_Union DEF SpendsCovered
<1>6. ASSUME NEW u \in Users \ overlapped PROVE Covered(u)'
  <2> DEFINE S == RowsOf(u)
             T == RowsOf(u)'
  <2>1. S \subseteq T /\ \A r \in T \ S : r \in new /\ r.user = u
    BY <1>2, <1>5 DEF RowsOf
  <2>2. IsFiniteSet(T) /\ \A r \in T : r.delta \in {-1, 1}
    BY <1>5, FS_Subset DEF RowsOf, TypeOK, Row
  <2>3. IsFiniteSet(S) /\ \A r \in S : r.delta \in {-1, 1}
    BY <2>1, <2>2, FS_Subset
  <2>4. Units(S) \in Int /\ Units(T) \in Int
    BY <2>2, <2>3, UnitsOfRows
  <2>5. Covered(u)
    BY <1>6 DEF SpendsCovered
  <2>6. Units(S) >= 0 /\ \A p \in Spending(u) : u \in users => Units(S) >= 1
    BY <2>5 DEF Covered
  <2>7. Spending(u)' = Spending(u) \ {s}
    BY <1>1 DEF Spending
  <2>8. CASE u # s.user \/ ledger' = ledger
    <3>1. \A r \in T \ S : r.delta = 1
      BY <1>4, <2>1, <2>8 DEF RowsOf
    <3> HIDE DEF S, T
    <3>2. Units(T) >= Units(S)
      BY <2>1, <2>2, <3>1, UnitsGrow
    <3>3. Units(T) >= 0 /\ \A p \in Spending(u) : u \in users => Units(T) >= 1
      BY <2>4, <2>6, <3>2
    <3>4. \A p \in Spending(u)' : p \in Spending(u) /\ Spending(u)' = {p}
      BY <2>5, <2>7 DEF Covered
    <3> QED
      BY <1>1, <3>3, <3>4 DEF Covered, T
  <2>9. CASE u = s.user /\ ledger' # ledger
    <3>1. s \in Spending(u) /\ u \in users
      BY <1>2, <2>9 DEF Spending
    <3>2. \A r \in T \ S : r.delta = 1 \/ r = q
      BY <1>4, <2>1
    <3>3. Spending(u)' = {}
      BY <2>5, <2>7, <3>1 DEF Covered
    <3> HIDE DEF S, T
    <3>4. Units(T) >= Units(S) - 1 /\ Units(S) >= 1
      BY <2>1, <2>2, <2>6, <3>1, <3>2, UnitsGrow
    <3>5. Units(T) >= 0
      BY <2>4, <3>4
    <3> QED
      BY <3>3, <3>5 DEF Covered, T
  <2> QED
    BY <2>8, <2>9
<1> QED
  BY <1>1, <1>5, <1>6 DEF SpendsCovered

\* The rows that others keep of a deleted account only forget it.
LEMMA CoveredDeletion ==
  ASSUME TokenInv, TypeOK', SpendsCovered, NEW v \in Users, DeleteAccount(v)
  PROVE  SpendsCovered'
<1> DEFINE left(r) == IF r.party = v THEN [r EXCEPT !.party = None] ELSE r
<1>1. UNCHANGED <<spends, overlapped>> /\ users' = users \ {v}
  BY DEF DeleteAccount, AccountGone
<1>2. ledger' = {left(r) : r \in {p \in ledger : p.user # v}}
  BY DEF DeleteAccount, LedgerWithout
<1>3. \A r \in ledger : /\ left(r).user = r.user /\ left(r).key = r.key
                        /\ left(r).delta = r.delta
  BY DEF TokenInv, TypeOK, Row
<1> HIDE DEF left
<1>4. \A r, q \in ledger : left(r) = left(q) => r = q
  <2>1. \A r, q \in ledger : r.key = q.key => r = q
    BY DEF TokenInv, TypeOK
  <2> QED
    BY <1>3, <2>1
<1>5. ASSUME NEW A, A \subseteq {p \in ledger : p.user # v}
      PROVE  LET B == {left(r) : r \in A}
             IN  IsFiniteSet(B) /\ Cardinality(B) = Cardinality(A)
  <2> DEFINE B == {left(r) : r \in A}
             f == [r \in A |-> left(r)]
  <2>1. f \in Bijection(A, B)
    <3>1. f \in [A -> B] /\ \A b \in B : \E a \in A : f[a] = b
      OBVIOUS
    <3>2. \A a, b \in A : f[a] = f[b] => a = b
      BY <1>4, <1>5
    <3> QED
      BY <3>1, <3>2 DEF Bijection, Injection, Surjection, IsInjective
  <2>2. IsFiniteSet(A)
    BY <1>5, FS_Subset DEF SpendsCovered
  <2> QED
    BY <2>1, <2>2, FS_Bijection DEF ExistsBijection
<1>6. IsFiniteSet(ledger')
  BY <1>2, <1>5
<1>7. \A u \in Users \ {v} : Units(RowsOf(u)') = Units(RowsOf(u))
  <2> SUFFICES ASSUME NEW u \in Users \ {v} PROVE Units(RowsOf(u)') = Units(RowsOf(u))
    OBVIOUS
  <2>1. /\ Ups(RowsOf(u)') = {left(r) : r \in Ups(RowsOf(u))}
        /\ Downs(RowsOf(u)') = {left(r) : r \in Downs(RowsOf(u))}
    BY <1>2, <1>3 DEF Ups, Downs, RowsOf
  <2>2. /\ Ups(RowsOf(u)) \subseteq {p \in ledger : p.user # v}
        /\ Downs(RowsOf(u)) \subseteq {p \in ledger : p.user # v}
    BY DEF Ups, Downs, RowsOf
  <2>3. /\ Cardinality(Ups(RowsOf(u)')) = Cardinality(Ups(RowsOf(u)))
        /\ Cardinality(Downs(RowsOf(u)')) = Cardinality(Downs(RowsOf(u)))
    BY <1>5, <2>1, <2>2
  <2> QED
    BY <2>3 DEF Units
<1>8. Units(RowsOf(v)') = 0
  <2>1. Ups(RowsOf(v)') = {} /\ Downs(RowsOf(v)') = {}
    BY <1>2, <1>3 DEF RowsOf, Ups, Downs
  <2> QED
    BY <2>1, FS_EmptySet DEF Units
<1>9. \A u : Spending(u)' = Spending(u)
  BY <1>1 DEF Spending
<1>10. ASSUME NEW u \in Users \ overlapped' PROVE Covered(u)'
  <2>1. Covered(u)
    BY <1>1, <1>10 DEF SpendsCovered
  <2>2. CASE u # v
    BY <1>1, <1>7, <1>9, <2>1, <2>2 DEF Covered
  <2>3. CASE u = v
    BY <1>1, <1>8, <1>9, <2>1, <2>3 DEF Covered
  <2> QED
    BY <2>2, <2>3
<1> QED
  BY <1>6, <1>10 DEF SpendsCovered

LEMMA CoveredStep ==
  TokenInv /\ TypeOK' /\ SpendsCovered /\ BalancesAdd /\ [Next]_vars => SpendsCovered'
<1> SUFFICES ASSUME TokenInv, TypeOK', SpendsCovered, BalancesAdd, [Next]_vars
             PROVE  SpendsCovered'
  OBVIOUS
<1>1. CASE UNCHANGED <<users, ledger, spends, overlapped>>
  <2>1. IsFiniteSet(ledger')
    BY <1>1 DEF SpendsCovered
  <2> QED
    BY <1>1, <2>1, CoveredMore
<1>2. CASE Links \/ UNCHANGED vars
  <2>1. UNCHANGED users
    BY <1>2 DEF Links, LinkRequest, Passing, ClaimReads, CancelReads, ClaimWrites, CancelWrites,
         Perform, Expire, ReadEmote, FoldFails, FoldEmote, vars, linkVars
  <2>2. UNCHANGED tokenVars
    BY <1>2 DEF Links, vars
  <2> QED
    BY <1>1, <2>1, <2>2 DEF tokenVars
<1>3. CASE \E kind \in Sweeps : ReadSweep(kind)
  BY <1>1, <1>3 DEF ReadSweep, linkVars
<1>4. CASE (\E d \in sweep : PayGrant(d)) \/ \E f \in fulfilling : GrantPurchased(f)
  BY <1>4, CoveredGrants
<1>5. CASE NewMonth \/ \E u, v \in Users : Refer(u, v)
  BY <1>1, <1>5 DEF NewMonth, Refer, linkVars
<1>6. CASE \E u, v \in Users : TransferReads(u, v)
  <2> PICK u \in Users, v \in Users : TransferReads(u, v)
    BY <1>6
  <2> DEFINE s == [user |-> u, to |-> v, ban |-> None, ref |-> served]
  <2>1. s \in Spend /\ s.user = u
    BY DEF TokenInv, TypeOK, LinksTypeOK, Spend
  <2>2. SpendReads(s) /\ MaySpend(u)
    BY DEF TransferReads
  <2> HIDE DEF s
  <2> QED
    BY <2>1, <2>2, CoveredReads
<1>7. CASE \E u \in Users, b \in DOMAIN Bans : RedeemReads(u, b)
  <2> PICK u \in Users, b \in DOMAIN Bans : RedeemReads(u, b)
    BY <1>7
  <2> DEFINE s == [user |-> u, to |-> None, ban |-> b, ref |-> served]
  <2>1. s \in Spend /\ s.user = u
    BY DEF TokenInv, TypeOK, LinksTypeOK, Spend
  <2>2. SpendReads(s) /\ MaySpend(u)
    BY DEF RedeemReads
  <2> HIDE DEF s
  <2> QED
    BY <2>1, <2>2, CoveredReads
<1>8. CASE \E s \in spends : SpendWrites(s)
  BY <1>8, CoveredWrites
<1>9. CASE \E u \in Users, s \in Sessions : CheckOut(u, s)
  BY <1>1, <1>9 DEF CheckOut, linkVars
<1>10. CASE \E s \in Sessions : Pay(s) \/ Deliver(s) \/ Confirm(s)
  BY <1>1, <1>10 DEF Pay, Deliver, Confirm, Fulfil, linkVars
<1>11. CASE \E f \in fulfilling : FulfilFails(f)
  BY <1>1, <1>11 DEF FulfilFails, linkVars
<1>12. CASE \E u \in Users : DeleteAccount(u)
  BY <1>12, CoveredDeletion
<1> QED
  BY <1>2, <1>3, <1>4, <1>5, <1>6, <1>7, <1>8, <1>9, <1>10, <1>11, <1>12 DEF Next

\* No balance is overdrawn (packages/tokens: redeem and transfer read it and write
\* later) but of a user who had two spends under way at once.
THEOREM OverdraftsAreOverlaps == Spec => []OverdraftIsAnOverlap
<1>1. Init => SpendsCovered
  <2> SUFFICES ASSUME Init PROVE SpendsCovered
    OBVIOUS
  <2>1. ledger = {} /\ spends = {}
    BY DEF Init
  <2>2. \A u : Units(RowsOf(u)) = 0
    <3>1. \A u : Ups(RowsOf(u)) = {} /\ Downs(RowsOf(u)) = {}
      BY <2>1 DEF RowsOf, Ups, Downs
    <3> QED
      BY <3>1, FS_EmptySet DEF Units
  <2> QED
    BY <2>1, <2>2, FS_EmptySet DEF SpendsCovered, Covered, Spending
<1>2. TokenInv => TypeOK
  BY DEF TokenInv
<1>3. TokenInv /\ SpendsCovered => BalancesAdd
  BY BalanceIsUnits DEF TokenInv, TypeOK, SpendsCovered, LedgerFinite
<1>4. TokenInv /\ SpendsCovered /\ BalancesAdd => OverdraftIsAnOverlap
  <2> SUFFICES ASSUME TokenInv, SpendsCovered, BalancesAdd,
                      NEW u \in Users, Balance(u) < 0, u \notin overlapped
               PROVE  FALSE
    BY DEF OverdraftIsAnOverlap
  <2>1. IsFiniteSet(RowsOf(u)) /\ \A r \in RowsOf(u) : r.delta \in {-1, 1}
    BY FS_Subset DEF SpendsCovered, TokenInv, TypeOK, RowsOf, Row
  <2>2. Units(RowsOf(u)) \in Int /\ Units(RowsOf(u)) >= 0
    BY <2>1, UnitsOfRows DEF SpendsCovered, Covered
  <2> QED
    BY <2>2 DEF BalancesAdd
<1> QED
  BY <1>1, <1>2, <1>3, <1>4, TokenInvariant, CoveredStep, PTL DEF Spec

-----------------------------------------------------------------------------
\* The home page (AccountHome): what it was told was true when the server read it, and
\* what has changed since is on its way or excused.

LinkStates == {"none", "pending", "verified"}
Pages == [ban : Nat, lifting : BOOLEAN]
Calls == {"none", "sent", "ok", "refused"}

\* The variables are of their types.
TruthRows ==
  [link : LinkStates, balance : Nat, bans : Nat, ban : Nat, lifting : BOOLEAN,
   purchase : {"none", "open", "paid"}, credited : 0 .. Bundle]
TruthTyped == truth \in TruthRows
DataTyped ==
  data \in [links : LinkStates \cup {Unknown, "failed"}, page : Pages, tokens : Nat,
            known : SUBSET Queries]
AskingTyped ==
  asking \in [Queries -> [stage : {"idle", "asked", "read"},
                          answer : SUBSET (LinkStates \cup Pages \cup Nat)]]
TicketTyped ==
  ticket \in [mounted : BOOLEAN, pending : BOOLEAN, call : Calls, ban : Nat, own : BOOLEAN]
ReturnTyped ==
  return \in [param : BOOLEAN, call : {"none", "sent", "unpaid", "paid"}, mine : 0 .. Bundle,
              says : {"", "added", "replay", "processing"}, granted : 0 .. Bundle]
AnnouncerTyped ==
  announcer \in [last : LinkStates \cup {Unknown, "loading", "unlinked"}, announced : BOOLEAN,
                 sawPending : BOOLEAN]
StagesTyped == sending \in Calls /\ leaving \in {"ready", "busy", "away"}
BoundsKept ==
  /\ turns \in Nat /\ presses \in Nat /\ turns + 2 * presses <= MaxSteps
  /\ outages \in 0 .. MaxOutages
HistoryTyped ==
  /\ unseen \in BOOLEAN /\ swapped \in BOOLEAN
  /\ spent \subseteq [shown : Nat, lifted : Nat, left : Nat]
HomeTypes ==
  /\ TruthTyped /\ DataTyped /\ AskingTyped /\ TicketTyped /\ ReturnTyped /\ AnnouncerTyped
  /\ StagesTyped /\ BoundsKept /\ HistoryTyped

PaidFor(ban) == \E s \in spent : s.lifted = ban

\* A ban is paid for once, while it is lifting.
BansInv ==
  /\ truth.ban <= truth.bans
  /\ \A s \in spent : s.shown = s.lifted /\ s.lifted <= truth.bans
  /\ \A s, t \in spent : s.lifted = t.lifted => s = t
  /\ truth.lifting => truth.ban # 0 /\ PaidFor(truth.ban)
  /\ ~truth.lifting /\ truth.ban # 0 => ~PaidFor(truth.ban)

\* What the page was told is lifting is paid for; a ticket pressed is of the ban it shows.
TicketInv ==
  /\ data.page.lifting => PaidFor(data.page.ban)
  /\ asking["page"].stage = "read" =>
       \E page \in Pages : asking["page"].answer = {page} /\ (page.lifting => PaidFor(page.ban))
  /\ ticket.call = "ok" => PaidFor(ticket.ban)
  /\ ticket.pending /\ ticket.own =>
       /\ swapped \/ ticket.ban = data.page.ban
       /\ ticket.call = "none" => PaidFor(ticket.ban)
  /\ ticket.pending /\ ~ticket.own => swapped \/ PaidFor(data.page.ban)

\* A balance read is the player's, or something has changed it that this page will hear of or
\* is excused for.
Current(balance) ==
  balance = truth.balance \/ unseen \/ sending = "ok" \/ return.mine # return.granted
BalanceInv ==
  /\ return.granted <= return.mine
  /\ asking["tokens"].stage = "read" =>
       \E balance \in Nat : asking["tokens"].answer = {balance} /\ Current(balance)
  /\ "tokens" \in data.known /\ asking["tokens"].stage = "idle" => Current(data.tokens)

CheckoutInv ==
  /\ leaving = "busy" => truth.purchase = "none"
  /\ return.mine <= truth.credited
  /\ return.call = "paid" => truth.purchase = "paid" /\ truth.credited = Bundle
  /\ CheckoutIsTold

\* A verified link stays so, and the announcer has seen what the page shows.
LinkInv ==
  /\ data.links = "verified" => truth.link = "verified"
  /\ asking["links"].stage = "read" =>
       \E link \in LinkStates :
         /\ asking["links"].answer = {link}
         /\ link = "verified" => truth.link = "verified"
         /\ data.links = "verified" => link = "verified"
  /\ announcer.last = "pending" => announcer.sawPending
  /\ announcer.sawPending =>
       announcer.last \in {"pending", "verified"} /\ announcer.last = data.links
  /\ VerificationIsTold

HomeInv ==
  HomeTypes /\ BansInv /\ TicketInv /\ BalanceInv /\ CheckoutInv /\ LinkInv

LEMMA HomeIsThen == HomeInv => HomeIsHonest
<1> SUFFICES ASSUME HomeInv PROVE HomeIsHonest
  OBVIOUS
<1> USE DEF HomeInv
<1>1. AccountHomeTypeOK
  BY DEF AccountHomeTypeOK, HomeTypes, TruthTyped, TruthRows, DataTyped, AskingTyped, TicketTyped, ReturnTyped, AnnouncerTyped, StagesTyped, BoundsKept, HistoryTyped, LinkStates, Calls
<1>2. TokensGoWhereShown
  BY DEF TokensGoWhereShown, BansInv
<1>3. LiftingIsPaid
  <2>1. CASE ticket.own
    BY <2>1 DEF LiftingIsPaid, TicketInv, PaidFor
  <2>2. CASE ~ticket.own
    BY <2>2 DEF LiftingIsPaid, TicketInv, PaidFor
  <2> QED
    BY <2>1, <2>2
<1>4. BalanceIsCurrent
  BY DEF BalanceIsCurrent, BalanceInv, Current
<1> QED
  BY <1>1, <1>2, <1>3, <1>4 DEF HomeIsHonest, CheckoutInv, LinkInv

LEMMA HomeInitInv == AccountHomeInit => HomeInv
<1> SUFFICES ASSUME AccountHomeInit PROVE HomeInv
  OBVIOUS
<1>1. /\ asking \in [Queries -> [stage : {"idle", "asked"}, answer : {{}}]]
      /\ asking["page"].stage = "idle" /\ asking["tokens"].stage = "idle"
      /\ asking["links"].stage = "asked"
  BY DEF AccountHomeInit, Idle, Asked, Fetch, Queries
<1>2. /\ data = Afresh /\ ticket = NoTicket /\ sending = "none" /\ leaving = "ready"
      /\ return = NoReturn /\ announcer = NoOneYet /\ turns = 0 /\ presses = 0 /\ outages = 0
      /\ unseen = FALSE /\ spent = {} /\ swapped = FALSE
  BY DEF AccountHomeInit
<1>3. /\ truth \in [link : LinkStates, balance : Nat, bans : Nat, ban : Nat, lifting : BOOLEAN,
                    purchase : {"none", "open", "paid"}, credited : 0 .. Bundle]
      /\ truth.bans = 0 /\ truth.ban = 0 /\ truth.lifting = FALSE /\ truth.credited = 0
      /\ truth.purchase = "none"
  <2>1. PICK link \in {"pending", "verified"} :
          truth = [link |-> link, balance |-> 2, bans |-> 0, ban |-> 0, lifting |-> FALSE,
                   purchase |-> "none", credited |-> 0]
    BY DEF AccountHomeInit
  <2> QED
    BY <2>1, AccountHomeAssumption DEF LinkStates
<1>4. /\ return.granted = 0 /\ return.mine = 0 /\ return.says = "" /\ return.call = "none"
      /\ data.known = {} /\ data.links = Unknown /\ data.page.lifting = FALSE
      /\ ticket.call = "none" /\ ticket.pending = FALSE
      /\ announcer.last = Unknown /\ announcer.announced = FALSE /\ announcer.sawPending = FALSE
  BY <1>2 DEF Afresh, NoTicket, NoReturn, NoOneYet, NoBan
<1>5. HomeTypes
  <2>1. /\ data \in [links : LinkStates \cup {Unknown, "failed"}, page : Pages, tokens : Nat,
                     known : SUBSET Queries]
        /\ ticket \in [mounted : BOOLEAN, pending : BOOLEAN, call : Calls, ban : Nat, own : BOOLEAN]
    BY <1>2 DEF Afresh, NoTicket, NoBan, Pages, Calls
  <2>2. /\ return \in [param : BOOLEAN, call : {"none", "sent", "unpaid", "paid"}, mine : 0 .. Bundle,
                 says : {"", "added", "replay", "processing"}, granted : 0 .. Bundle]
        /\ announcer \in [last : LinkStates \cup {Unknown, "loading", "unlinked"}, announced : BOOLEAN,
                    sawPending : BOOLEAN]
    <3>1. 0 \in 0 .. Bundle
      BY AccountHomeAssumption
    <3> QED
      BY <1>2, <3>1 DEF NoReturn, NoOneYet
  <2>3. asking \in [Queries -> [stage : {"idle", "asked", "read"},
                             answer : SUBSET (LinkStates \cup Pages \cup Nat)]]
    BY <1>1
  <2>4. turns \in Nat /\ presses \in Nat /\ turns + 2 * presses <= MaxSteps /\ outages \in 0 .. MaxOutages
    BY <1>2, AccountHomeAssumption
  <2> QED
    BY <1>2, <1>3, <2>1, <2>2, <2>3, <2>4 DEF HomeTypes, TruthTyped, TruthRows, DataTyped, AskingTyped, TicketTyped, ReturnTyped, AnnouncerTyped, StagesTyped, BoundsKept, HistoryTyped, Calls
<1>6. /\ leaving = "ready" /\ spent = {} /\ 0 <= 0
  BY <1>2
<1>7. BansInv /\ TicketInv
  BY <1>1, <1>3, <1>4, <1>6 DEF BansInv, TicketInv, PaidFor
<1>8. BalanceInv /\ CheckoutInv
  BY <1>1, <1>3, <1>4, <1>6 DEF BalanceInv, CheckoutInv, CheckoutIsTold
<1>9. LinkInv
  BY <1>1, <1>4 DEF LinkInv, VerificationIsTold, Status, Unknown
<1> QED
  BY <1>5, <1>7, <1>8, <1>9 DEF HomeInv

LEMMA Answered == \A x : (CHOOSE answer \in {x} : TRUE) = x
  OBVIOUS

\* What a step leaves alone keeps its type.
LEMMA TypesKept ==
  /\ TruthTyped /\ UNCHANGED truth => TruthTyped'
  /\ DataTyped /\ UNCHANGED data => DataTyped'
  /\ AskingTyped /\ UNCHANGED asking => AskingTyped'
  /\ TicketTyped /\ UNCHANGED ticket => TicketTyped'
  /\ ReturnTyped /\ UNCHANGED return => ReturnTyped'
  /\ AnnouncerTyped /\ UNCHANGED announcer => AnnouncerTyped'
  /\ StagesTyped /\ UNCHANGED <<sending, leaving>> => StagesTyped'
  /\ BoundsKept /\ UNCHANGED <<turns, presses, outages>> => BoundsKept'
  /\ HistoryTyped /\ UNCHANGED <<unseen, spent, swapped>> => HistoryTyped'
<1>1. /\ TruthTyped /\ UNCHANGED truth => TruthTyped'
      /\ DataTyped /\ UNCHANGED data => DataTyped'
      /\ AskingTyped /\ UNCHANGED asking => AskingTyped'
  BY DEF TruthTyped, DataTyped, AskingTyped
<1>2. /\ TicketTyped /\ UNCHANGED ticket => TicketTyped'
      /\ ReturnTyped /\ UNCHANGED return => ReturnTyped'
      /\ AnnouncerTyped /\ UNCHANGED announcer => AnnouncerTyped'
  BY DEF TicketTyped, ReturnTyped, AnnouncerTyped
<1>3. StagesTyped /\ UNCHANGED <<sending, leaving>> => StagesTyped'
  BY DEF StagesTyped
<1>4. BoundsKept /\ UNCHANGED <<turns, presses, outages>> => BoundsKept'
  BY DEF BoundsKept
<1>5. HistoryTyped /\ UNCHANGED <<unseen, spent, swapped>> => HistoryTyped'
  BY DEF HistoryTyped
<1> QED
  BY <1>1, <1>2, <1>3, <1>4, <1>5

\* A purchased token on the books.
LEMMA CreditedRow ==
  TruthTyped /\ truth.credited < Bundle =>
    /\ Credited \in TruthRows
    /\ Credited.credited = truth.credited + 1 /\ Credited.balance = truth.balance + 1
    /\ Credited.link = truth.link /\ Credited.purchase = truth.purchase
    /\ Credited.ban = truth.ban /\ Credited.bans = truth.bans
    /\ Credited.lifting = truth.lifting
<1> SUFFICES ASSUME TruthTyped, truth.credited < Bundle
             PROVE  /\ Credited \in TruthRows
                    /\ Credited.credited = truth.credited + 1
                    /\ Credited.balance = truth.balance + 1
                    /\ Credited.link = truth.link /\ Credited.purchase = truth.purchase
                    /\ Credited.ban = truth.ban /\ Credited.bans = truth.bans
                    /\ Credited.lifting = truth.lifting
  OBVIOUS
<1>1. truth.credited + 1 \in 0 .. Bundle /\ truth.balance + 1 \in Nat
  BY AccountHomeAssumption DEF TruthTyped, TruthRows
<1>2. Credited = [[truth EXCEPT !.credited = truth.credited + 1]
                          EXCEPT !.balance = truth.balance + 1]
  BY DEF Credited, TruthTyped, TruthRows
<1> HIDE DEF Credited
<1> QED
  BY <1>1, <1>2 DEF TruthTyped, TruthRows

LEMMA Numbers ==
  ReturnTyped /\ TruthTyped =>
    /\ return.mine \in Nat /\ return.granted \in Nat /\ Bundle \in Nat
    /\ truth.credited \in Nat /\ truth.balance \in Nat /\ truth.credited <= Bundle
<1> SUFFICES ASSUME ReturnTyped, TruthTyped
             PROVE  /\ return.mine \in Nat /\ return.granted \in Nat /\ Bundle \in Nat
                    /\ truth.credited \in Nat /\ truth.balance \in Nat
                    /\ truth.credited <= Bundle
  OBVIOUS
<1>1. {return.mine, return.granted, truth.credited} \subseteq 0 .. Bundle
  BY DEF ReturnTyped, TruthTyped, TruthRows
<1>2. truth.balance \in Nat
  BY DEF TruthTyped, TruthRows
<1> QED
  BY <1>1, <1>2, AccountHomeAssumption

LEMMA PollsStep ==
  ASSUME NEW q \in Queries, HomeInv, Polls(q) PROVE HomeInv'
<1> USE DEF HomeInv, HomeTypes
<1>1. HomeTypes'
  <2>1. UNCHANGED <<truth, data, ticket, sending, leaving, return, announcer, turns, presses, outages, unseen, spent, swapped>>
      
    BY DEF Polls
  <2>2. /\ TruthTyped' /\ DataTyped' /\ TicketTyped' /\ ReturnTyped'
        /\ AnnouncerTyped' /\ StagesTyped' /\ BoundsKept' /\ HistoryTyped'
    BY <2>1, TypesKept
  <2>3. AskingTyped'
    BY DEF AskingTyped, LinkStates, Pages, DataTyped, TruthTyped, Queries, Polls, Asked, Fetch,
        HomeIsUp, Status, Unknown
  <2> QED
    BY <2>1, <2>2, <2>3
<1>2. BansInv' /\ CheckoutInv'
  BY DEF BansInv, CheckoutInv, PaidFor, CheckoutIsTold, Polls
<1>3. TicketInv'
  BY DEF TicketInv, PaidFor, BansInv, Pages, Calls, TruthTyped, TruthRows, DataTyped,
      AskingTyped, TicketTyped, HistoryTyped, Polls, Asked, Fetch, HomeIsUp, Status, Unknown,
      Queries
<1>4. BalanceInv'
  BY DEF BalanceInv, Current, CheckoutInv, TruthTyped, TruthRows, DataTyped, AskingTyped,
      ReturnTyped, HistoryTyped, StagesTyped, Polls, Asked, Fetch, HomeIsUp, Status, Unknown,
      Queries
<1>5. LinkInv'
  BY DEF LinkInv, VerificationIsTold, LinkStates, TruthTyped, TruthRows, DataTyped, AskingTyped,
      AnnouncerTyped, Polls, Asked, Fetch, HomeIsUp, Status, Unknown, Queries
<1> QED
  BY <1>1, <1>2, <1>3, <1>4, <1>5

LEMMA ServerReadsStep ==
  ASSUME NEW q \in Queries, HomeInv, ServerReads(q) PROVE HomeInv'
<1> USE DEF HomeInv, HomeTypes
<1>1. HomeTypes'
  <2>1. UNCHANGED <<truth, data, ticket, sending, leaving, return, announcer, turns, presses, outages>>
      
    BY DEF ServerReads
  <2>2. /\ TruthTyped' /\ DataTyped' /\ TicketTyped' /\ ReturnTyped'
        /\ AnnouncerTyped' /\ StagesTyped' /\ BoundsKept'
    BY <2>1, TypesKept
  <2>3. AskingTyped'
    <3>1. Shown(q) \in LinkStates \cup Pages \cup Nat
      BY DEF Shown, Queries, Pages, TruthTyped, TruthRows
    <3> QED
      BY <3>1 DEF AskingTyped, ServerReads, Fetch
  <2>4. HistoryTyped'
    BY DEF HistoryTyped, TruthTyped, TruthRows, TicketTyped, BansInv, DataTyped, ReturnTyped,
        ServerReads, Fetch, Shown
  <2> QED
    BY <2>1, <2>2, <2>3, <2>4
<1>2. BansInv' /\ CheckoutInv'
  BY DEF BansInv, CheckoutInv, PaidFor, CheckoutIsTold, ServerReads
<1>3. TicketInv'
  <2>1. \/ asking'["page"] = asking["page"]
        \/ asking'["page"].answer = {[ban |-> truth.ban, lifting |-> truth.lifting]}
    BY DEF ServerReads, Fetch, Shown, AskingTyped, Queries
  <2>2. /\ [ban |-> truth.ban, lifting |-> truth.lifting] \in Pages
        /\ truth.lifting => PaidFor(truth.ban)
    BY DEF Pages, TruthTyped, TruthRows, BansInv
  <2>3. UNCHANGED <<data, ticket, swapped, spent>>
    BY DEF ServerReads
  <2>4. asking'["page"].stage = "read" =>
          \E page \in Pages : asking'["page"].answer = {page} /\ (page.lifting => PaidFor(page.ban))
    BY <2>1, <2>2 DEF TicketInv
  <2> QED
    BY <2>3, <2>4 DEF TicketInv, PaidFor
<1>4. BalanceInv'
  BY DEF BalanceInv, Current, CheckoutInv, TruthTyped, TruthRows, DataTyped, AskingTyped,
      ReturnTyped, HistoryTyped, StagesTyped, ServerReads, Fetch, Shown, Queries
<1>5. LinkInv'
  BY DEF LinkInv, VerificationIsTold, LinkStates, TruthTyped, TruthRows, DataTyped, AskingTyped,
      AnnouncerTyped, ServerReads, Fetch, Shown, Status, Unknown, Queries
<1> QED
  BY <1>1, <1>2, <1>3, <1>4, <1>5

LEMMA FetchBreaksStep ==
  ASSUME NEW q \in Queries, HomeInv, FetchBreaks(q) PROVE HomeInv'
<1> USE DEF HomeInv, HomeTypes
<1>1. HomeTypes'
  <2>1. UNCHANGED <<truth, ticket, sending, leaving, return, announcer, unseen, spent, swapped>>
      
    BY DEF FetchBreaks, Outage
  <2>2. /\ TruthTyped' /\ TicketTyped' /\ ReturnTyped' /\ AnnouncerTyped'
        /\ StagesTyped' /\ HistoryTyped'
    BY <2>1, TypesKept
  <2>3. DataTyped'
    BY DEF DataTyped, LinkStates, Pages, AskingTyped, TicketInv, BalanceInv, LinkInv, FetchBreaks,
        Outage, Idle, Fetch
  <2>4. AskingTyped'
    BY DEF AskingTyped, LinkStates, Pages, DataTyped, TruthTyped, Queries, FetchBreaks, Outage,
        Idle, Fetch
  <2>5. BoundsKept'
    BY AccountHomeAssumption DEF BoundsKept, FetchBreaks, Outage, Idle, Fetch
  <2> QED
    BY <2>1, <2>2, <2>3, <2>4, <2>5
<1>2. BansInv' /\ CheckoutInv'
  BY DEF BansInv, CheckoutInv, PaidFor, CheckoutIsTold, FetchBreaks
<1>3. TicketInv'
  BY DEF TicketInv, PaidFor, BansInv, Pages, Calls, TruthTyped, TruthRows, DataTyped,
      AskingTyped, TicketTyped, HistoryTyped, FetchBreaks, Outage, Idle, Fetch, Queries
<1>4. BalanceInv'
  BY DEF BalanceInv, Current, CheckoutInv, TruthTyped, TruthRows, DataTyped, AskingTyped,
      ReturnTyped, HistoryTyped, StagesTyped, FetchBreaks, Outage, Idle, Fetch, Queries
<1>5. LinkInv'
  BY DEF LinkInv, VerificationIsTold, LinkStates, TruthTyped, TruthRows, DataTyped, AskingTyped,
      AnnouncerTyped, FetchBreaks, Outage, Idle, Fetch, Status, Unknown, Queries
<1> QED
  BY <1>1, <1>2, <1>3, <1>4, <1>5

LEMMA FocusesStep ==
  ASSUME HomeInv, Focuses PROVE HomeInv'
<1> USE DEF HomeInv, HomeTypes
<1>1. HomeTypes'
  <2>1. UNCHANGED <<truth, data, ticket, sending, leaving, return, announcer, unseen, spent, swapped>>
      
    BY DEF Focuses, Press
  <2>2. /\ TruthTyped' /\ DataTyped' /\ TicketTyped' /\ ReturnTyped'
        /\ AnnouncerTyped' /\ StagesTyped' /\ HistoryTyped'
    BY <2>1, TypesKept
  <2>3. AskingTyped'
    BY DEF AskingTyped, LinkStates, Pages, DataTyped, TruthTyped, Queries, Focuses, Press, Asked,
        Fetch, HomeIsUp, Status, Unknown
  <2>4. BoundsKept'
    BY AccountHomeAssumption DEF BoundsKept, Focuses, Press, Asked, Fetch, HomeIsUp, Status,
        Unknown
  <2> QED
    BY <2>1, <2>2, <2>3, <2>4
<1>2. BansInv' /\ CheckoutInv'
  BY DEF BansInv, CheckoutInv, PaidFor, CheckoutIsTold, Focuses
<1>3. TicketInv'
  BY DEF TicketInv, PaidFor, BansInv, Pages, Calls, TruthTyped, TruthRows, DataTyped,
      AskingTyped, TicketTyped, HistoryTyped, Focuses, Press, Asked, Fetch, HomeIsUp, Status,
      Unknown, Queries
<1>4. BalanceInv'
  BY DEF BalanceInv, Current, CheckoutInv, TruthTyped, TruthRows, DataTyped, AskingTyped,
      ReturnTyped, HistoryTyped, StagesTyped, Focuses, Press, Asked, Fetch, HomeIsUp, Status,
      Unknown, Queries
<1>5. LinkInv'
  BY DEF LinkInv, VerificationIsTold, LinkStates, TruthTyped, TruthRows, DataTyped, AskingTyped,
      AnnouncerTyped, Focuses, Press, Asked, Fetch, HomeIsUp, Status, Unknown, Queries
<1> QED
  BY <1>1, <1>2, <1>3, <1>4, <1>5

LEMMA LinksArriveStep ==
  ASSUME HomeInv, LinksArrive PROVE HomeInv'
<1> USE DEF HomeInv, HomeTypes
<1>1. HomeTypes'
  <2>1. UNCHANGED <<truth, ticket, sending, leaving, turns, presses, outages, unseen, spent, swapped>>
      
    BY DEF LinksArrive
  <2>2. /\ TruthTyped' /\ TicketTyped' /\ StagesTyped' /\ BoundsKept'
        /\ HistoryTyped'
    BY <2>1, TypesKept
  <2>3. DataTyped'
    <3>1. PICK x \in LinkStates : asking["links"].answer = {x}
      BY DEF LinkInv, LinksArrive, Arrives
    <3>2. data' = [links |-> x, page |-> data.page, tokens |-> data.tokens,
                   known |-> data.known \cup {"links"}]
      BY <3>1, Answered DEF DataTyped, LinksArrive, Arrives, Answer
    <3> QED
      BY <3>2 DEF DataTyped, Queries, LinkStates
  <2>4. AskingTyped'
    BY Answered DEF AskingTyped, LinkStates, Pages, DataTyped, TruthTyped, Queries, LinksArrive,
        Invalidated, Asked, Fetch, Idle, Answer, Arrives, Announces, Status, Unknown
  <2>5. ReturnTyped'
    BY Answered, AccountHomeAssumption DEF ReturnTyped, TruthTyped, TruthRows, CheckoutInv,
        LinksArrive, Invalidated, Asked, Fetch, Idle, Answer, Arrives, Announces, Status,
        Unknown
  <2>6. AnnouncerTyped'
    BY Answered DEF AnnouncerTyped, LinkInv, LinkStates, LinksArrive, Invalidated, Asked, Fetch,
        Idle, Answer, Arrives, Announces, Status, Unknown
  <2> QED
    BY <2>1, <2>2, <2>3, <2>4, <2>5, <2>6
<1>2. BansInv'
  BY DEF BansInv, PaidFor, LinksArrive
<1>3. TicketInv'
  BY Answered DEF TicketInv, PaidFor, BansInv, Pages, Calls, TruthTyped, TruthRows, DataTyped,
      AskingTyped, TicketTyped, HistoryTyped, LinksArrive, Invalidated, Asked, Fetch, Idle,
      Answer, Arrives, Announces, Status, Unknown, Queries
<1>4. BalanceInv'
  BY Answered DEF BalanceInv, Current, CheckoutInv, TruthTyped, TruthRows, DataTyped,
      AskingTyped, ReturnTyped, HistoryTyped, StagesTyped, LinksArrive, Invalidated, Asked,
      Fetch, Idle, Answer, Arrives, Announces, Status, Unknown, Queries
<1>5. CheckoutInv'
  BY Answered DEF CheckoutInv, CheckoutIsTold, TruthTyped, TruthRows, ReturnTyped, StagesTyped,
      LinksArrive, Invalidated, Asked, Fetch, Idle, Answer, Arrives, Announces, Status, Unknown,
      Queries
<1>6. LinkInv'
  BY Answered DEF LinkInv, VerificationIsTold, LinkStates, TruthTyped, TruthRows, DataTyped,
      AskingTyped, AnnouncerTyped, LinksArrive, Invalidated, Asked, Fetch, Idle, Answer,
      Arrives, Announces, Status, Unknown, Queries
<1> QED
  BY <1>1, <1>2, <1>3, <1>4, <1>5, <1>6

LEMMA PageArrivesStep ==
  ASSUME HomeInv, PageArrives PROVE HomeInv'
<1> USE DEF HomeInv, HomeTypes
<1>1. HomeTypes'
  <2>1. UNCHANGED <<truth, sending, leaving, return, announcer, turns, presses, outages>> 
    BY DEF PageArrives
  <2>2. /\ TruthTyped' /\ ReturnTyped' /\ AnnouncerTyped' /\ StagesTyped'
        /\ BoundsKept'
    BY <2>1, TypesKept
  <2>3. DataTyped'
    <3>1. PICK x \in Pages : asking["page"].answer = {x}
      BY DEF TicketInv, PageArrives, Arrives
    <3>2. data' = [links |-> data.links, page |-> x, tokens |-> data.tokens,
                   known |-> data.known \cup {"page"}]
      BY <3>1, Answered DEF DataTyped, PageArrives, Arrives, Answer
    <3> QED
      BY <3>2 DEF DataTyped, Queries, LinkStates
  <2>4. AskingTyped'
    BY Answered DEF AskingTyped, LinkStates, Pages, DataTyped, TruthTyped, Queries, PageArrives,
        Idle, Fetch, Answer, Arrives, TicketOf
  <2>5. TicketTyped'
    BY Answered DEF TicketTyped, Calls, Pages, DataTyped, TicketInv, PageArrives, Idle, Fetch,
        Answer, Arrives, TicketOf
  <2>6. HistoryTyped'
    BY Answered DEF HistoryTyped, TruthTyped, TruthRows, TicketTyped, BansInv, DataTyped,
        ReturnTyped, PageArrives, Idle, Fetch, Answer, Arrives, TicketOf
  <2> QED
    BY <2>1, <2>2, <2>3, <2>4, <2>5, <2>6
<1>2. BansInv' /\ CheckoutInv'
  BY DEF BansInv, CheckoutInv, PaidFor, CheckoutIsTold, PageArrives
<1>3. TicketInv'
  <2>1. PICK page \in Pages : /\ asking["page"].answer = {page}
                              /\ page.lifting => PaidFor(page.ban)
    BY DEF TicketInv, PageArrives, Arrives
  <2>2. /\ Answer("page") = page /\ data'.page = page
        /\ asking'["page"].stage = "idle" /\ spent' = spent
    BY <2>1, Answered DEF PageArrives, Arrives, Answer, DataTyped, AskingTyped, Idle, Fetch, Queries
  <2>3. /\ ticket' = TicketOf(page)
        /\ swapped' = (\/ swapped /\ page.ban # 0
                       \/ ticket.pending /\ page.ban \notin {0, data.page.ban})
    BY <2>2 DEF PageArrives
  <2>4. CASE page.ban = 0
    <3>1. ticket'.pending = FALSE /\ ticket'.call = ticket.call /\ ticket'.ban = ticket.ban
      BY <2>3, <2>4 DEF TicketOf, TicketTyped
    <3> QED
      BY <2>1, <2>2, <3>1 DEF TicketInv, PaidFor
  <2>5. CASE page.ban # 0 /\ ticket.mounted
    <3>1. ticket' = ticket
      BY <2>3, <2>5 DEF TicketOf
    <3>2. /\ ticket.pending /\ page.ban # data.page.ban => swapped'
          /\ swapped => swapped'
      BY <2>3, <2>5
    <3> QED
      BY <2>1, <2>2, <3>1, <3>2 DEF TicketInv, PaidFor
  <2>6. CASE page.ban # 0 /\ ~ticket.mounted
    <3>1. /\ ticket'.pending = page.lifting /\ ticket'.own = FALSE /\ ticket'.call = ticket.call
          /\ ticket'.ban = ticket.ban
      BY <2>3, <2>6 DEF TicketOf, TicketTyped
    <3> QED
      BY <2>1, <2>2, <3>1 DEF TicketInv, PaidFor
  <2> QED
    BY <2>4, <2>5, <2>6
<1>4. BalanceInv'
  BY Answered DEF BalanceInv, Current, CheckoutInv, TruthTyped, TruthRows, DataTyped,
      AskingTyped, ReturnTyped, HistoryTyped, StagesTyped, PageArrives, Idle, Fetch, Answer,
      Arrives, TicketOf, Queries
<1>5. LinkInv'
  BY Answered DEF LinkInv, VerificationIsTold, LinkStates, TruthTyped, TruthRows, DataTyped,
      AskingTyped, AnnouncerTyped, PageArrives, Idle, Fetch, Answer, Arrives, TicketOf, Status,
      Unknown, Queries
<1> QED
  BY <1>1, <1>2, <1>3, <1>4, <1>5

LEMMA TokensArriveStep ==
  ASSUME HomeInv, TokensArrive PROVE HomeInv'
<1> USE DEF HomeInv, HomeTypes
<1>1. HomeTypes'
  <2>1. UNCHANGED <<truth, ticket, sending, leaving, return, announcer, turns, presses, outages, unseen, spent, swapped>>
      
    BY DEF TokensArrive
  <2>2. /\ TruthTyped' /\ TicketTyped' /\ ReturnTyped' /\ AnnouncerTyped'
        /\ StagesTyped' /\ BoundsKept' /\ HistoryTyped'
    BY <2>1, TypesKept
  <2>3. DataTyped'
    <3>1. PICK x \in Nat : asking["tokens"].answer = {x}
      BY DEF BalanceInv, TokensArrive, Arrives
    <3>2. data' = [links |-> data.links, page |-> data.page, tokens |-> x,
                   known |-> data.known \cup {"tokens"}]
      BY <3>1, Answered DEF DataTyped, TokensArrive, Arrives, Answer
    <3> QED
      BY <3>2 DEF DataTyped, Queries, LinkStates
  <2>4. AskingTyped'
    BY Answered DEF AskingTyped, LinkStates, Pages, DataTyped, TruthTyped, Queries, TokensArrive,
        Idle, Fetch, Arrives, Answer
  <2> QED
    BY <2>1, <2>2, <2>3, <2>4
<1>2. BansInv' /\ CheckoutInv'
  BY DEF BansInv, CheckoutInv, PaidFor, CheckoutIsTold, TokensArrive
<1>3. TicketInv'
  BY Answered DEF TicketInv, PaidFor, BansInv, Pages, Calls, TruthTyped, TruthRows, DataTyped,
      AskingTyped, TicketTyped, HistoryTyped, TokensArrive, Idle, Fetch, Arrives, Answer,
      Queries
<1>4. BalanceInv'
  BY Answered DEF BalanceInv, Current, CheckoutInv, TruthTyped, TruthRows, DataTyped,
      AskingTyped, ReturnTyped, HistoryTyped, StagesTyped, TokensArrive, Idle, Fetch, Arrives,
      Answer, Queries
<1>5. LinkInv'
  BY Answered DEF LinkInv, VerificationIsTold, LinkStates, TruthTyped, TruthRows, DataTyped,
      AskingTyped, AnnouncerTyped, TokensArrive, Idle, Fetch, Arrives, Answer, Status, Unknown,
      Queries
<1> QED
  BY <1>1, <1>2, <1>3, <1>4, <1>5

LEMMA CancelsClaimStep ==
  ASSUME HomeInv, CancelsClaim PROVE HomeInv'
<1> USE DEF HomeInv, HomeTypes
<1>1. HomeTypes'
  <2>1. UNCHANGED <<data, ticket, sending, leaving, return, announcer, unseen, spent, swapped>> 
    BY DEF CancelsClaim, Press
  <2>2. /\ DataTyped' /\ TicketTyped' /\ ReturnTyped' /\ AnnouncerTyped'
        /\ StagesTyped' /\ HistoryTyped'
    BY <2>1, TypesKept
  <2>3. TruthTyped'
    BY AccountHomeAssumption DEF TruthTyped, TruthRows, LinkStates, CancelsClaim, Press,
        Invalidated, Asked, Fetch, Status, Unknown
  <2>4. AskingTyped'
    BY DEF AskingTyped, LinkStates, Pages, DataTyped, TruthTyped, Queries, CancelsClaim, Press,
        Invalidated, Asked, Fetch, Status, Unknown
  <2>5. BoundsKept'
    BY AccountHomeAssumption DEF BoundsKept, CancelsClaim, Press, Invalidated, Asked, Fetch,
        Status, Unknown
  <2> QED
    BY <2>1, <2>2, <2>3, <2>4, <2>5
<1>2. BansInv'
  BY DEF BansInv, PaidFor, TruthTyped, TruthRows, HistoryTyped, TicketTyped, CancelsClaim,
      Press, Invalidated, Asked, Fetch, Status, Unknown, Queries
<1>3. TicketInv'
  BY DEF TicketInv, PaidFor, BansInv, Pages, Calls, TruthTyped, TruthRows, DataTyped,
      AskingTyped, TicketTyped, HistoryTyped, CancelsClaim, Press, Invalidated, Asked, Fetch,
      Status, Unknown, Queries
<1>4. BalanceInv'
  BY DEF BalanceInv, Current, CheckoutInv, TruthTyped, TruthRows, DataTyped, AskingTyped,
      ReturnTyped, HistoryTyped, StagesTyped, CancelsClaim, Press, Invalidated, Asked, Fetch,
      Status, Unknown, Queries
<1>5. CheckoutInv'
  BY DEF CheckoutInv, CheckoutIsTold, TruthTyped, TruthRows, ReturnTyped, StagesTyped,
      CancelsClaim, Press, Invalidated, Asked, Fetch, Status, Unknown, Queries
<1>6. LinkInv'
  BY DEF LinkInv, VerificationIsTold, LinkStates, TruthTyped, TruthRows, DataTyped, AskingTyped,
      AnnouncerTyped, CancelsClaim, Press, Invalidated, Asked, Fetch, Status, Unknown, Queries
<1> QED
  BY <1>1, <1>2, <1>3, <1>4, <1>5, <1>6

LEMMA ClaimsStep ==
  ASSUME HomeInv, Claims PROVE HomeInv'
<1> USE DEF HomeInv, HomeTypes
<1>1. HomeTypes'
  <2>1. UNCHANGED <<data, ticket, sending, leaving, return, announcer, unseen, spent, swapped>> 
    BY DEF Claims, Press
  <2>2. /\ DataTyped' /\ TicketTyped' /\ ReturnTyped' /\ AnnouncerTyped'
        /\ StagesTyped' /\ HistoryTyped'
    BY <2>1, TypesKept
  <2>3. TruthTyped'
    BY AccountHomeAssumption DEF TruthTyped, TruthRows, LinkStates, Claims, Press, Invalidated,
        Asked, Fetch, Status, Unknown
  <2>4. AskingTyped'
    BY DEF AskingTyped, LinkStates, Pages, DataTyped, TruthTyped, Queries, Claims, Press,
        Invalidated, Asked, Fetch, Status, Unknown
  <2>5. BoundsKept'
    BY AccountHomeAssumption DEF BoundsKept, Claims, Press, Invalidated, Asked, Fetch, Status,
        Unknown
  <2> QED
    BY <2>1, <2>2, <2>3, <2>4, <2>5
<1>2. BansInv'
  BY DEF BansInv, PaidFor, TruthTyped, TruthRows, HistoryTyped, TicketTyped, Claims, Press,
      Invalidated, Asked, Fetch, Status, Unknown, Queries
<1>3. TicketInv'
  BY DEF TicketInv, PaidFor, BansInv, Pages, Calls, TruthTyped, TruthRows, DataTyped,
      AskingTyped, TicketTyped, HistoryTyped, Claims, Press, Invalidated, Asked, Fetch, Status,
      Unknown, Queries
<1>4. BalanceInv'
  BY DEF BalanceInv, Current, CheckoutInv, TruthTyped, TruthRows, DataTyped, AskingTyped,
      ReturnTyped, HistoryTyped, StagesTyped, Claims, Press, Invalidated, Asked, Fetch, Status,
      Unknown, Queries
<1>5. CheckoutInv'
  BY DEF CheckoutInv, CheckoutIsTold, TruthTyped, TruthRows, ReturnTyped, StagesTyped, Claims,
      Press, Invalidated, Asked, Fetch, Status, Unknown, Queries
<1>6. LinkInv'
  BY DEF LinkInv, VerificationIsTold, LinkStates, TruthTyped, TruthRows, DataTyped, AskingTyped,
      AnnouncerTyped, Claims, Press, Invalidated, Asked, Fetch, Status, Unknown, Queries
<1> QED
  BY <1>1, <1>2, <1>3, <1>4, <1>5, <1>6

LEMMA SpendsTokenStep ==
  ASSUME HomeInv, SpendsToken PROVE HomeInv'
<1> USE DEF HomeInv, HomeTypes
<1>1. HomeTypes'
  <2>1. UNCHANGED <<truth, data, asking, sending, leaving, return, announcer, unseen, spent, swapped>>
      
    BY DEF SpendsToken, Press
  <2>2. /\ TruthTyped' /\ DataTyped' /\ AskingTyped' /\ ReturnTyped'
        /\ AnnouncerTyped' /\ StagesTyped' /\ HistoryTyped'
    BY <2>1, TypesKept
  <2>3. TicketTyped'
    BY DEF TicketTyped, Calls, Pages, DataTyped, TicketInv, SpendsToken, Press, HomeIsUp,
        Status, Unknown
  <2>4. BoundsKept'
    BY AccountHomeAssumption DEF BoundsKept, SpendsToken, Press, HomeIsUp, Status, Unknown
  <2> QED
    BY <2>1, <2>2, <2>3, <2>4
<1>2. BansInv' /\ BalanceInv' /\ CheckoutInv' /\ LinkInv'
  BY DEF BansInv, BalanceInv, CheckoutInv, LinkInv, PaidFor, Current, CheckoutIsTold,
      VerificationIsTold, Status, SpendsToken
<1>3. TicketInv'
  BY DEF TicketInv, PaidFor, BansInv, Pages, Calls, TruthTyped, TruthRows, DataTyped,
      AskingTyped, TicketTyped, HistoryTyped, SpendsToken, Press, HomeIsUp, Status, Unknown
<1> QED
  BY <1>1, <1>2, <1>3

LEMMA RedeemLandsStep ==
  ASSUME HomeInv, RedeemLands PROVE HomeInv'
<1> USE DEF HomeInv, HomeTypes
<1>0. \/ UNCHANGED <<truth, unseen, spent>> /\ ticket' = [ticket EXCEPT !.call = "refused"]
      \/ /\ truth.ban = ticket.ban /\ ~truth.lifting /\ truth.ban # 0 /\ truth.balance > 0
         /\ truth' = [truth EXCEPT !.balance = @ - 1, !.lifting = TRUE]
         /\ ticket' = [ticket EXCEPT !.call = "ok"] /\ unseen' = TRUE
         /\ spent' = spent \cup {[shown |-> ticket.ban, lifted |-> truth.ban,
                                  left |-> truth.balance - 1]}
  BY DEF RedeemLands, Redeemable, Named, TruthTyped, TruthRows
<1>1. HomeTypes'
  <2>1. UNCHANGED <<data, asking, sending, leaving, return, announcer, turns, presses, outages>>
      
    BY DEF RedeemLands
  <2>2. /\ DataTyped' /\ AskingTyped' /\ ReturnTyped' /\ AnnouncerTyped'
        /\ StagesTyped' /\ BoundsKept'
    BY <2>1, TypesKept
  <2>3. TruthTyped'
    <3>1. CASE UNCHANGED truth
      BY <3>1, TypesKept
    <3>2. CASE truth.balance > 0 /\ truth' = [truth EXCEPT !.balance = @ - 1, !.lifting = TRUE]
      <4>1. truth.balance - 1 \in Nat
        BY <3>2, Numbers
      <4>2. truth' = [[truth EXCEPT !.balance = truth.balance - 1] EXCEPT !.lifting = TRUE]
        BY <3>2 DEF TruthTyped, TruthRows
      <4> QED
        BY <4>1, <4>2 DEF TruthTyped, TruthRows
    <3> QED
      BY <1>0, <3>1, <3>2
  <2>4. TicketTyped'
    BY DEF TicketTyped, Calls, Pages, DataTyped, TicketInv, RedeemLands, Redeemable, Named
  <2>5. HistoryTyped'
    <3>1. swapped' = swapped
      BY DEF RedeemLands
    <3>2. CASE UNCHANGED <<unseen, spent>>
      BY <3>1, <3>2, TypesKept
    <3>3. CASE /\ truth.balance > 0 /\ unseen' = TRUE
               /\ spent' = spent \cup {[shown |-> ticket.ban, lifted |-> truth.ban,
                                        left |-> truth.balance - 1]}
      <4>1. truth.balance - 1 \in Nat
        BY <3>3, Numbers
      <4>2. truth.ban \in Nat /\ ticket.ban \in Nat
        BY DEF TruthTyped, TruthRows, TicketTyped
      <4>3. [shown |-> ticket.ban, lifted |-> truth.ban, left |-> truth.balance - 1]
              \in [shown : Nat, lifted : Nat, left : Nat]
        BY <4>1, <4>2
      <4> QED
        BY <3>1, <3>3, <4>3 DEF HistoryTyped
    <3> QED
      BY <1>0, <3>2, <3>3
  <2> QED
    BY <2>1, <2>2, <2>3, <2>4, <2>5
<1>2. BansInv'
  <2>1. CASE UNCHANGED <<truth, spent>>
    BY <2>1 DEF BansInv, PaidFor
  <2>2. CASE /\ truth.ban = ticket.ban /\ ~truth.lifting /\ truth.ban # 0
             /\ truth' = [truth EXCEPT !.balance = @ - 1, !.lifting = TRUE]
             /\ spent' = spent \cup {[shown |-> ticket.ban, lifted |-> truth.ban,
                                      left |-> truth.balance - 1]}
    <3>1. truth'.ban = truth.ban /\ truth'.bans = truth.bans /\ truth'.lifting = TRUE
      BY <2>2 DEF TruthTyped, TruthRows
    <3> DEFINE row == [shown |-> ticket.ban, lifted |-> truth.ban, left |-> truth.balance - 1]
    <3>2. row.shown = truth.ban /\ row.lifted = truth.ban /\ spent' = spent \cup {row}
      BY <2>2
    <3> HIDE DEF row
    <3>3. PICK s : /\ spent' = spent \cup {s} /\ s.shown = truth.ban /\ s.lifted = truth.ban
      BY <3>2
    <3>4. \A t \in spent : t.lifted # truth.ban
      BY <2>2 DEF BansInv, PaidFor
    <3> QED
      BY <2>2, <3>1, <3>3, <3>4 DEF BansInv, PaidFor
  <2> QED
    BY <1>0, <2>1, <2>2
<1>3. TicketInv'
  <2>1. UNCHANGED <<data, asking, swapped>> /\ ticket.call = "sent"
    BY DEF RedeemLands
  <2>2. /\ ticket'.pending = ticket.pending /\ ticket'.own = ticket.own /\ ticket'.ban = ticket.ban
        /\ ticket'.call \in {"ok", "refused"}
    BY <1>0 DEF TicketTyped
  <2>3. \A ban : PaidFor(ban) => PaidFor(ban)'
    BY <1>0 DEF PaidFor
  <2>4. ticket'.call = "ok" => PaidFor(ticket.ban)'
    <3>1. CASE ticket' = [ticket EXCEPT !.call = "refused"]
      BY <3>1 DEF TicketTyped
    <3>2. CASE /\ truth.ban = ticket.ban
               /\ spent' = spent \cup {[shown |-> ticket.ban, lifted |-> truth.ban,
                                        left |-> truth.balance - 1]}
      <4> DEFINE row == [shown |-> ticket.ban, lifted |-> truth.ban, left |-> truth.balance - 1]
      <4>1. row \in spent' /\ row.lifted = ticket.ban
        BY <3>2
      <4> HIDE DEF row
      <4> QED
        BY <2>2, <4>1 DEF PaidFor
    <3> QED
      BY <1>0, <3>1, <3>2
  <2>5. \A ban : PaidFor(ban)' <=> \E s \in spent' : s.lifted = ban
    BY DEF PaidFor
  <2> QED
    BY <2>1, <2>2, <2>3, <2>4, <2>5 DEF TicketInv
<1>4. BalanceInv'
  BY DEF BalanceInv, Current, CheckoutInv, TruthTyped, TruthRows, DataTyped, AskingTyped,
      ReturnTyped, HistoryTyped, StagesTyped, RedeemLands, Redeemable, Named
<1>5. CheckoutInv'
  BY DEF CheckoutInv, CheckoutIsTold, TruthTyped, TruthRows, ReturnTyped, StagesTyped,
      RedeemLands, Redeemable, Named
<1>6. LinkInv'
  BY DEF LinkInv, VerificationIsTold, LinkStates, TruthTyped, TruthRows, DataTyped, AskingTyped,
      AnnouncerTyped, RedeemLands, Redeemable, Named, Status, Unknown
<1> QED
  BY <1>1, <1>2, <1>3, <1>4, <1>5, <1>6

LEMMA RedeemAnsweredStep ==
  ASSUME HomeInv, RedeemAnswered PROVE HomeInv'
<1> USE DEF HomeInv, HomeTypes
<1>1. HomeTypes'
  <2>1. UNCHANGED <<truth, data, asking, sending, leaving, return, announcer, turns, presses, outages, unseen, spent, swapped>>
      
    BY DEF RedeemAnswered
  <2>2. /\ TruthTyped' /\ DataTyped' /\ AskingTyped' /\ ReturnTyped'
        /\ AnnouncerTyped' /\ StagesTyped' /\ BoundsKept' /\ HistoryTyped'
    BY <2>1, TypesKept
  <2>3. TicketTyped'
    BY Answered DEF TicketTyped, Calls, Pages, DataTyped, TicketInv, RedeemAnswered
  <2> QED
    BY <2>1, <2>2, <2>3
<1>2. BansInv' /\ BalanceInv' /\ CheckoutInv' /\ LinkInv'
  BY DEF BansInv, BalanceInv, CheckoutInv, LinkInv, PaidFor, Current, CheckoutIsTold,
      VerificationIsTold, Status, RedeemAnswered
<1>3. TicketInv'
  BY Answered DEF TicketInv, PaidFor, BansInv, Pages, Calls, TruthTyped, TruthRows, DataTyped,
      AskingTyped, TicketTyped, HistoryTyped, RedeemAnswered
<1> QED
  BY <1>1, <1>2, <1>3

LEMMA RedeemBreaksStep ==
  ASSUME HomeInv, RedeemBreaks PROVE HomeInv'
<1> USE DEF HomeInv, HomeTypes
<1>1. HomeTypes'
  <2>1. UNCHANGED <<truth, data, asking, sending, leaving, return, announcer, unseen, spent, swapped>>
      
    BY DEF RedeemBreaks, Outage
  <2>2. /\ TruthTyped' /\ DataTyped' /\ AskingTyped' /\ ReturnTyped'
        /\ AnnouncerTyped' /\ StagesTyped' /\ HistoryTyped'
    BY <2>1, TypesKept
  <2>3. TicketTyped'
    BY DEF TicketTyped, Calls, Pages, DataTyped, TicketInv, RedeemBreaks, Outage
  <2>4. BoundsKept'
    BY AccountHomeAssumption DEF BoundsKept, RedeemBreaks, Outage
  <2> QED
    BY <2>1, <2>2, <2>3, <2>4
<1>2. BansInv' /\ BalanceInv' /\ CheckoutInv' /\ LinkInv'
  BY DEF BansInv, BalanceInv, CheckoutInv, LinkInv, PaidFor, Current, CheckoutIsTold,
      VerificationIsTold, Status, RedeemBreaks
<1>3. TicketInv'
  BY DEF TicketInv, PaidFor, BansInv, Pages, Calls, TruthTyped, TruthRows, DataTyped,
      AskingTyped, TicketTyped, HistoryTyped, RedeemBreaks, Outage
<1> QED
  BY <1>1, <1>2, <1>3

LEMMA SendsStep ==
  ASSUME HomeInv, Sends PROVE HomeInv'
<1> USE DEF HomeInv, HomeTypes
<1>1. HomeTypes'
  <2>1. UNCHANGED <<truth, data, asking, ticket, return, announcer, unseen, spent, swapped>> 
    BY DEF Sends, Press
  <2>2. /\ TruthTyped' /\ DataTyped' /\ AskingTyped' /\ TicketTyped'
        /\ ReturnTyped' /\ AnnouncerTyped' /\ HistoryTyped'
    BY <2>1, TypesKept
  <2>3. StagesTyped'
    BY DEF StagesTyped, Calls, Sends, Press, HomeIsUp, Status, Unknown
  <2>4. BoundsKept'
    BY AccountHomeAssumption DEF BoundsKept, Sends, Press, HomeIsUp, Status, Unknown
  <2> QED
    BY <2>1, <2>2, <2>3, <2>4
<1>2. BansInv' /\ TicketInv' /\ CheckoutInv' /\ LinkInv'
  BY DEF BansInv, TicketInv, CheckoutInv, LinkInv, PaidFor, CheckoutIsTold, VerificationIsTold,
      Status, Sends
<1>3. BalanceInv'
  BY DEF BalanceInv, Current, CheckoutInv, TruthTyped, TruthRows, DataTyped, AskingTyped,
      ReturnTyped, HistoryTyped, StagesTyped, Sends, Press, HomeIsUp, Status, Unknown
<1> QED
  BY <1>1, <1>2, <1>3

LEMMA SendLandsStep ==
  ASSUME HomeInv, SendLands PROVE HomeInv'
<1> USE DEF HomeInv, HomeTypes
<1>1. HomeTypes'
  <2>1. UNCHANGED <<data, asking, ticket, return, announcer, turns, presses, outages, unseen, spent, swapped>>
      
    BY DEF SendLands
  <2>2. /\ DataTyped' /\ AskingTyped' /\ TicketTyped' /\ ReturnTyped'
        /\ AnnouncerTyped' /\ BoundsKept' /\ HistoryTyped'
    BY <2>1, TypesKept
  <2>3. TruthTyped'
    BY AccountHomeAssumption DEF TruthTyped, TruthRows, LinkStates, SendLands
  <2>4. StagesTyped'
    BY DEF StagesTyped, Calls, SendLands
  <2> QED
    BY <2>1, <2>2, <2>3, <2>4
<1>2. TicketInv'
  BY DEF TicketInv, PaidFor, SendLands
<1>3. BansInv'
  BY DEF BansInv, PaidFor, TruthTyped, TruthRows, HistoryTyped, TicketTyped, SendLands
<1>4. BalanceInv'
  BY DEF BalanceInv, Current, CheckoutInv, TruthTyped, TruthRows, DataTyped, AskingTyped,
      ReturnTyped, HistoryTyped, StagesTyped, SendLands
<1>5. CheckoutInv'
  BY DEF CheckoutInv, CheckoutIsTold, TruthTyped, TruthRows, ReturnTyped, StagesTyped, SendLands
<1>6. LinkInv'
  BY DEF LinkInv, VerificationIsTold, LinkStates, TruthTyped, TruthRows, DataTyped, AskingTyped,
      AnnouncerTyped, SendLands, Status, Unknown
<1> QED
  BY <1>1, <1>2, <1>3, <1>4, <1>5, <1>6

LEMMA SendAnsweredStep ==
  ASSUME HomeInv, SendAnswered PROVE HomeInv'
<1> USE DEF HomeInv, HomeTypes
<1>1. HomeTypes'
  <2>1. UNCHANGED <<truth, data, ticket, return, announcer, turns, presses, outages, unseen, spent, swapped>>
      
    BY DEF SendAnswered
  <2>2. /\ TruthTyped' /\ DataTyped' /\ TicketTyped' /\ ReturnTyped'
        /\ AnnouncerTyped' /\ BoundsKept' /\ HistoryTyped'
    BY <2>1, TypesKept
  <2>3. AskingTyped'
    BY Answered DEF AskingTyped, LinkStates, Pages, DataTyped, TruthTyped, Queries, SendAnswered,
        Refetched, Invalidated, Asked, Fetch
  <2>4. StagesTyped'
    BY Answered DEF StagesTyped, Calls, SendAnswered, Refetched, Invalidated, Asked, Fetch
  <2> QED
    BY <2>1, <2>2, <2>3, <2>4
<1>2. BansInv' /\ CheckoutInv'
  BY DEF BansInv, CheckoutInv, PaidFor, CheckoutIsTold, SendAnswered
<1>3. TicketInv'
  BY Answered DEF TicketInv, PaidFor, BansInv, Pages, Calls, TruthTyped, TruthRows, DataTyped,
      AskingTyped, TicketTyped, HistoryTyped, SendAnswered, Refetched, Invalidated, Asked,
      Fetch, Queries
<1>4. BalanceInv'
  BY Answered DEF BalanceInv, Current, CheckoutInv, TruthTyped, TruthRows, DataTyped,
      AskingTyped, ReturnTyped, HistoryTyped, StagesTyped, SendAnswered, Refetched, Invalidated,
      Asked, Fetch, Queries
<1>5. LinkInv'
  BY Answered DEF LinkInv, VerificationIsTold, LinkStates, TruthTyped, TruthRows, DataTyped,
      AskingTyped, AnnouncerTyped, SendAnswered, Refetched, Invalidated, Asked, Fetch, Status,
      Unknown, Queries
<1> QED
  BY <1>1, <1>2, <1>3, <1>4, <1>5

LEMMA SendBreaksStep ==
  ASSUME HomeInv, SendBreaks PROVE HomeInv'
<1> USE DEF HomeInv, HomeTypes
<1>1. HomeTypes'
  <2>1. UNCHANGED <<truth, data, asking, ticket, return, announcer>> 
    BY DEF SendBreaks, Outage
  <2>2. /\ TruthTyped' /\ DataTyped' /\ AskingTyped' /\ TicketTyped'
        /\ ReturnTyped' /\ AnnouncerTyped'
    BY <2>1, TypesKept
  <2>3. StagesTyped'
    BY DEF StagesTyped, Calls, SendBreaks, Outage
  <2>4. BoundsKept'
    BY AccountHomeAssumption DEF BoundsKept, SendBreaks, Outage
  <2>5. HistoryTyped'
    BY DEF HistoryTyped, TruthTyped, TruthRows, TicketTyped, BansInv, DataTyped, ReturnTyped,
        SendBreaks, Outage
  <2> QED
    BY <2>1, <2>2, <2>3, <2>4, <2>5
<1>2. BansInv' /\ TicketInv' /\ CheckoutInv' /\ LinkInv'
  BY DEF BansInv, TicketInv, CheckoutInv, LinkInv, PaidFor, CheckoutIsTold, VerificationIsTold,
      Status, SendBreaks
<1>3. BalanceInv'
  BY DEF BalanceInv, Current, CheckoutInv, TruthTyped, TruthRows, DataTyped, AskingTyped,
      ReturnTyped, HistoryTyped, StagesTyped, SendBreaks, Outage
<1> QED
  BY <1>1, <1>2, <1>3

LEMMA BuysStep ==
  ASSUME HomeInv, Buys PROVE HomeInv'
<1> USE DEF HomeInv, HomeTypes
<1>1. HomeTypes'
  <2>1. UNCHANGED <<truth, data, asking, ticket, return, announcer, unseen, spent, swapped>> 
    BY DEF Buys, Press
  <2>2. /\ TruthTyped' /\ DataTyped' /\ AskingTyped' /\ TicketTyped'
        /\ ReturnTyped' /\ AnnouncerTyped' /\ HistoryTyped'
    BY <2>1, TypesKept
  <2>3. StagesTyped'
    BY DEF StagesTyped, Calls, Buys, Press, HomeIsUp, Status, Unknown
  <2>4. BoundsKept'
    BY AccountHomeAssumption DEF BoundsKept, Buys, Press, HomeIsUp, Status, Unknown
  <2> QED
    BY <2>1, <2>2, <2>3, <2>4
<1>2. BansInv' /\ TicketInv' /\ BalanceInv' /\ LinkInv'
  BY DEF BansInv, TicketInv, BalanceInv, LinkInv, PaidFor, Current, CheckoutInv,
      VerificationIsTold, Status, Buys
<1>3. CheckoutInv'
  BY DEF CheckoutInv, CheckoutIsTold, TruthTyped, TruthRows, ReturnTyped, StagesTyped, Buys,
      Press, HomeIsUp, Status, Unknown
<1> QED
  BY <1>1, <1>2, <1>3

LEMMA CheckoutOpensStep ==
  ASSUME HomeInv, CheckoutOpens PROVE HomeInv'
<1> USE DEF HomeInv, HomeTypes
<1>1. HomeTypes'
  <2>1. UNCHANGED <<data, asking, ticket, return, announcer, turns, presses, outages, unseen, spent, swapped>>
      
    BY DEF CheckoutOpens
  <2>2. /\ DataTyped' /\ AskingTyped' /\ TicketTyped' /\ ReturnTyped'
        /\ AnnouncerTyped' /\ BoundsKept' /\ HistoryTyped'
    BY <2>1, TypesKept
  <2>3. TruthTyped'
    BY AccountHomeAssumption DEF TruthTyped, TruthRows, LinkStates, CheckoutOpens
  <2>4. StagesTyped'
    BY DEF StagesTyped, Calls, CheckoutOpens
  <2> QED
    BY <2>1, <2>2, <2>3, <2>4
<1>2. TicketInv'
  BY DEF TicketInv, PaidFor, CheckoutOpens
<1>3. BansInv'
  BY DEF BansInv, PaidFor, TruthTyped, TruthRows, HistoryTyped, TicketTyped, CheckoutOpens
<1>4. BalanceInv'
  BY DEF BalanceInv, Current, CheckoutInv, TruthTyped, TruthRows, DataTyped, AskingTyped,
      ReturnTyped, HistoryTyped, StagesTyped, CheckoutOpens
<1>5. CheckoutInv'
  BY DEF CheckoutInv, CheckoutIsTold, TruthTyped, TruthRows, ReturnTyped, StagesTyped,
      CheckoutOpens
<1>6. LinkInv'
  BY DEF LinkInv, VerificationIsTold, LinkStates, TruthTyped, TruthRows, DataTyped, AskingTyped,
      AnnouncerTyped, CheckoutOpens, Status, Unknown
<1> QED
  BY <1>1, <1>2, <1>3, <1>4, <1>5, <1>6

LEMMA CheckoutRefusedStep ==
  ASSUME HomeInv, CheckoutRefused PROVE HomeInv'
<1> USE DEF HomeInv, HomeTypes
<1>1. HomeTypes'
  <2>1. UNCHANGED <<truth, data, asking, ticket, return, announcer, unseen, spent, swapped>> 
    BY DEF CheckoutRefused, Outage
  <2>2. /\ TruthTyped' /\ DataTyped' /\ AskingTyped' /\ TicketTyped'
        /\ ReturnTyped' /\ AnnouncerTyped' /\ HistoryTyped'
    BY <2>1, TypesKept
  <2>3. StagesTyped'
    BY DEF StagesTyped, Calls, CheckoutRefused, Outage
  <2>4. BoundsKept'
    BY AccountHomeAssumption DEF BoundsKept, CheckoutRefused, Outage
  <2> QED
    BY <2>1, <2>2, <2>3, <2>4
<1>2. BansInv' /\ TicketInv' /\ BalanceInv' /\ LinkInv'
  BY DEF BansInv, TicketInv, BalanceInv, LinkInv, PaidFor, Current, CheckoutInv,
      VerificationIsTold, Status, CheckoutRefused
<1>3. CheckoutInv'
  BY DEF CheckoutInv, CheckoutIsTold, TruthTyped, TruthRows, ReturnTyped, StagesTyped,
      CheckoutRefused, Outage
<1> QED
  BY <1>1, <1>2, <1>3

LEMMA ComesBackStep ==
  ASSUME HomeInv, ComesBack PROVE HomeInv'
<1> USE DEF HomeInv, HomeTypes
<1>1. HomeTypes'
  <2>1. UNCHANGED <<truth, turns, presses, outages>> 
    BY DEF ComesBack, Loads
  <2>2. /\ TruthTyped' /\ BoundsKept'
    BY <2>1, TypesKept
  <2>3. DataTyped'
    BY DEF DataTyped, LinkStates, Pages, AskingTyped, TicketInv, BalanceInv, LinkInv, ComesBack,
        Loads, Afresh, Idle, Asked, Fetch, NoTicket, NoReturn, NoOneYet, NoBan
  <2>4. AskingTyped'
    BY DEF AskingTyped, LinkStates, Pages, DataTyped, TruthTyped, Queries, ComesBack, Loads, Afresh,
        Idle, Asked, Fetch, NoTicket, NoReturn, NoOneYet, NoBan
  <2>5. TicketTyped'
    BY DEF TicketTyped, Calls, Pages, DataTyped, TicketInv, ComesBack, Loads, Afresh, Idle,
        Asked, Fetch, NoTicket, NoReturn, NoOneYet, NoBan
  <2>6. ReturnTyped'
    <3>1. 0 \in 0 .. Bundle
      BY AccountHomeAssumption
    <3>2. \E param \in BOOLEAN : return' = [NoReturn EXCEPT !.param = param]
      BY DEF ComesBack, Loads, ReturnTyped
    <3> QED
      BY <3>1, <3>2 DEF ReturnTyped, NoReturn
  <2>7. AnnouncerTyped'
    BY DEF AnnouncerTyped, LinkInv, LinkStates, ComesBack, Loads, Afresh, Idle, Asked, Fetch,
        NoTicket, NoReturn, NoOneYet, NoBan
  <2>8. StagesTyped'
    BY DEF StagesTyped, Calls, ComesBack, Loads, Afresh, Idle, Asked, Fetch, NoTicket, NoReturn,
        NoOneYet, NoBan
  <2>9. HistoryTyped'
    BY DEF HistoryTyped, TruthTyped, TruthRows, TicketTyped, BansInv, DataTyped, ReturnTyped,
        ComesBack, Loads, Afresh, Idle, Asked, Fetch, NoTicket, NoReturn, NoOneYet, NoBan
  <2> QED
    BY <2>1, <2>2, <2>3, <2>4, <2>5, <2>6, <2>7, <2>8, <2>9
<1>2. BansInv'
  BY DEF BansInv, PaidFor, ComesBack, Loads
<1>3. TicketInv'
  BY DEF TicketInv, PaidFor, BansInv, Pages, Calls, TruthTyped, TruthRows, DataTyped,
      AskingTyped, TicketTyped, HistoryTyped, ComesBack, Loads, Afresh, Idle, Asked, Fetch,
      NoTicket, NoReturn, NoOneYet, NoBan, Queries
<1>4. BalanceInv'
  <2>1. return'.granted = 0 /\ return'.mine = 0 /\ data'.known = {}
    BY DEF ComesBack, Loads, NoReturn, Afresh
  <2>2. asking'["tokens"].stage = "idle" /\ 0 <= 0
    BY DEF ComesBack, Loads, Idle, Asked, Fetch, Queries
  <2> QED
    BY <2>1, <2>2 DEF BalanceInv
<1>5. CheckoutInv'
  <2>1. return'.mine = 0 /\ return'.says = "" /\ return'.call = "none" /\ leaving' = "ready"
    BY DEF ComesBack, Loads, NoReturn, Afresh
  <2>2. truth' = truth /\ 0 <= truth.credited
    BY DEF ComesBack, Loads, TruthTyped, TruthRows
  <2> QED
    BY <2>1, <2>2 DEF CheckoutInv, CheckoutIsTold
<1>6. LinkInv'
  BY DEF LinkInv, VerificationIsTold, LinkStates, TruthTyped, TruthRows, DataTyped, AskingTyped,
      AnnouncerTyped, ComesBack, Loads, Afresh, Idle, Asked, Fetch, NoTicket, NoReturn,
      NoOneYet, NoBan, Status, Unknown, Queries
<1> QED
  BY <1>1, <1>2, <1>3, <1>4, <1>5, <1>6

LEMMA GivesUpStep ==
  ASSUME HomeInv, GivesUp PROVE HomeInv'
<1> USE DEF HomeInv, HomeTypes
<1>1. HomeTypes'
  <2>1. UNCHANGED <<truth, turns, presses, outages>> 
    BY DEF GivesUp, Loads
  <2>2. /\ TruthTyped' /\ BoundsKept'
    BY <2>1, TypesKept
  <2>3. DataTyped'
    BY DEF DataTyped, LinkStates, Pages, AskingTyped, TicketInv, BalanceInv, LinkInv, GivesUp,
        Loads, Afresh, Idle, Asked, Fetch, NoTicket, NoReturn, NoOneYet, NoBan
  <2>4. AskingTyped'
    BY DEF AskingTyped, LinkStates, Pages, DataTyped, TruthTyped, Queries, GivesUp, Loads, Afresh,
        Idle, Asked, Fetch, NoTicket, NoReturn, NoOneYet, NoBan
  <2>5. TicketTyped'
    BY DEF TicketTyped, Calls, Pages, DataTyped, TicketInv, GivesUp, Loads, Afresh, Idle, Asked,
        Fetch, NoTicket, NoReturn, NoOneYet, NoBan
  <2>6. ReturnTyped'
    <3>1. 0 \in 0 .. Bundle
      BY AccountHomeAssumption
    <3>2. \E param \in BOOLEAN : return' = [NoReturn EXCEPT !.param = param]
      BY DEF GivesUp, Loads, ReturnTyped
    <3> QED
      BY <3>1, <3>2 DEF ReturnTyped, NoReturn
  <2>7. AnnouncerTyped'
    BY DEF AnnouncerTyped, LinkInv, LinkStates, GivesUp, Loads, Afresh, Idle, Asked, Fetch,
        NoTicket, NoReturn, NoOneYet, NoBan
  <2>8. StagesTyped'
    BY DEF StagesTyped, Calls, GivesUp, Loads, Afresh, Idle, Asked, Fetch, NoTicket, NoReturn,
        NoOneYet, NoBan
  <2>9. HistoryTyped'
    BY DEF HistoryTyped, TruthTyped, TruthRows, TicketTyped, BansInv, DataTyped, ReturnTyped,
        GivesUp, Loads, Afresh, Idle, Asked, Fetch, NoTicket, NoReturn, NoOneYet, NoBan
  <2> QED
    BY <2>1, <2>2, <2>3, <2>4, <2>5, <2>6, <2>7, <2>8, <2>9
<1>2. BansInv'
  BY DEF BansInv, PaidFor, GivesUp, Loads
<1>3. TicketInv'
  BY DEF TicketInv, PaidFor, BansInv, Pages, Calls, TruthTyped, TruthRows, DataTyped,
      AskingTyped, TicketTyped, HistoryTyped, GivesUp, Loads, Afresh, Idle, Asked, Fetch,
      NoTicket, NoReturn, NoOneYet, NoBan, Queries
<1>4. BalanceInv'
  <2>1. return'.granted = 0 /\ return'.mine = 0 /\ data'.known = {}
    BY DEF GivesUp, Loads, NoReturn, Afresh
  <2>2. asking'["tokens"].stage = "idle" /\ 0 <= 0
    BY DEF GivesUp, Loads, Idle, Asked, Fetch, Queries
  <2> QED
    BY <2>1, <2>2 DEF BalanceInv
<1>5. CheckoutInv'
  <2>1. return'.mine = 0 /\ return'.says = "" /\ return'.call = "none" /\ leaving' = "ready"
    BY DEF GivesUp, Loads, NoReturn, Afresh
  <2>2. truth' = truth /\ 0 <= truth.credited
    BY DEF GivesUp, Loads, TruthTyped, TruthRows
  <2> QED
    BY <2>1, <2>2 DEF CheckoutInv, CheckoutIsTold
<1>6. LinkInv'
  BY DEF LinkInv, VerificationIsTold, LinkStates, TruthTyped, TruthRows, DataTyped, AskingTyped,
      AnnouncerTyped, GivesUp, Loads, Afresh, Idle, Asked, Fetch, NoTicket, NoReturn, NoOneYet,
      NoBan, Status, Unknown, Queries
<1> QED
  BY <1>1, <1>2, <1>3, <1>4, <1>5, <1>6

LEMMA ReloadsStep ==
  ASSUME HomeInv, Reloads PROVE HomeInv'
<1> USE DEF HomeInv, HomeTypes
<1>1. HomeTypes'
  <2>1. UNCHANGED <<truth>> 
    BY DEF Reloads, Loads, Press
  <2>2. /\ TruthTyped'
    BY <2>1, TypesKept
  <2>3. DataTyped'
    BY DEF DataTyped, LinkStates, Pages, AskingTyped, TicketInv, BalanceInv, LinkInv, Reloads,
        Press, Loads, Afresh, Idle, Asked, Fetch, NoTicket, NoReturn, NoOneYet, NoBan
  <2>4. AskingTyped'
    BY DEF AskingTyped, LinkStates, Pages, DataTyped, TruthTyped, Queries, Reloads, Press, Loads,
        Afresh, Idle, Asked, Fetch, NoTicket, NoReturn, NoOneYet, NoBan
  <2>5. TicketTyped'
    BY DEF TicketTyped, Calls, Pages, DataTyped, TicketInv, Reloads, Press, Loads, Afresh, Idle,
        Asked, Fetch, NoTicket, NoReturn, NoOneYet, NoBan
  <2>6. ReturnTyped'
    <3>1. 0 \in 0 .. Bundle
      BY AccountHomeAssumption
    <3>2. \E param \in BOOLEAN : return' = [NoReturn EXCEPT !.param = param]
      BY DEF Reloads, Loads, ReturnTyped
    <3> QED
      BY <3>1, <3>2 DEF ReturnTyped, NoReturn
  <2>7. AnnouncerTyped'
    BY DEF AnnouncerTyped, LinkInv, LinkStates, Reloads, Press, Loads, Afresh, Idle, Asked, Fetch,
        NoTicket, NoReturn, NoOneYet, NoBan
  <2>8. StagesTyped'
    BY DEF StagesTyped, Calls, Reloads, Press, Loads, Afresh, Idle, Asked, Fetch, NoTicket,
        NoReturn, NoOneYet, NoBan
  <2>9. BoundsKept'
    <3>1. Press /\ UNCHANGED <<turns, outages>>
      BY DEF Reloads, Loads
    <3> QED
      BY <3>1 DEF BoundsKept, Press
  <2>10. HistoryTyped'
    BY DEF HistoryTyped, TruthTyped, TruthRows, TicketTyped, BansInv, DataTyped, ReturnTyped,
        Reloads, Press, Loads, Afresh, Idle, Asked, Fetch, NoTicket, NoReturn, NoOneYet, NoBan
  <2> QED
    BY <2>1, <2>2, <2>3, <2>4, <2>5, <2>6, <2>7, <2>8, <2>9, <2>10
<1>2. BansInv'
  BY DEF BansInv, PaidFor, Reloads, Loads
<1>3. TicketInv'
  BY DEF TicketInv, PaidFor, BansInv, Pages, Calls, TruthTyped, TruthRows, DataTyped,
      AskingTyped, TicketTyped, HistoryTyped, Reloads, Press, Loads, Afresh, Idle, Asked, Fetch,
      NoTicket, NoReturn, NoOneYet, NoBan, Queries
<1>4. BalanceInv'
  <2>1. return'.granted = 0 /\ return'.mine = 0 /\ data'.known = {}
    BY DEF Reloads, Loads, NoReturn, Afresh
  <2>2. asking'["tokens"].stage = "idle" /\ 0 <= 0
    BY DEF Reloads, Loads, Idle, Asked, Fetch, Queries
  <2> QED
    BY <2>1, <2>2 DEF BalanceInv
<1>5. CheckoutInv'
  <2>1. return'.mine = 0 /\ return'.says = "" /\ return'.call = "none" /\ leaving' = "ready"
    BY DEF Reloads, Loads, NoReturn, Afresh
  <2>2. truth' = truth /\ 0 <= truth.credited
    BY DEF Reloads, Loads, TruthTyped, TruthRows
  <2> QED
    BY <2>1, <2>2 DEF CheckoutInv, CheckoutIsTold
<1>6. LinkInv'
  BY DEF LinkInv, VerificationIsTold, LinkStates, TruthTyped, TruthRows, DataTyped, AskingTyped,
      AnnouncerTyped, Reloads, Press, Loads, Afresh, Idle, Asked, Fetch, NoTicket, NoReturn,
      NoOneYet, NoBan, Status, Unknown, Queries
<1> QED
  BY <1>1, <1>2, <1>3, <1>4, <1>5, <1>6

LEMMA CardChargedStep ==
  ASSUME HomeInv, CardCharged PROVE HomeInv'
<1> USE DEF HomeInv, HomeTypes
<1>1. HomeTypes'
  <2>1. UNCHANGED <<data, asking, ticket, sending, leaving, return, announcer, turns, presses, outages, unseen, spent, swapped>>
      
    BY DEF CardCharged, client
  <2>2. /\ DataTyped' /\ AskingTyped' /\ TicketTyped' /\ ReturnTyped'
        /\ AnnouncerTyped' /\ StagesTyped' /\ BoundsKept' /\ HistoryTyped'
    BY <2>1, TypesKept
  <2>3. TruthTyped'
    BY AccountHomeAssumption DEF TruthTyped, TruthRows, LinkStates, CardCharged, client
  <2> QED
    BY <2>1, <2>2, <2>3
<1>2. TicketInv'
  BY DEF TicketInv, PaidFor, CardCharged, client
<1>3. BansInv'
  BY DEF BansInv, PaidFor, TruthTyped, TruthRows, HistoryTyped, TicketTyped, CardCharged, client
<1>4. BalanceInv'
  BY DEF BalanceInv, Current, CheckoutInv, TruthTyped, TruthRows, DataTyped, AskingTyped,
      ReturnTyped, HistoryTyped, StagesTyped, CardCharged, client
<1>5. CheckoutInv'
  BY DEF CheckoutInv, CheckoutIsTold, TruthTyped, TruthRows, ReturnTyped, StagesTyped,
      CardCharged, client
<1>6. LinkInv'
  BY DEF LinkInv, VerificationIsTold, LinkStates, TruthTyped, TruthRows, DataTyped, AskingTyped,
      AnnouncerTyped, CardCharged, client, Status, Unknown
<1> QED
  BY <1>1, <1>2, <1>3, <1>4, <1>5, <1>6

LEMMA WebhookGrantsStep ==
  ASSUME HomeInv, WebhookGrants PROVE HomeInv'
<1> USE DEF HomeInv, HomeTypes
<1>1. HomeTypes'
  <2>1. UNCHANGED <<data, asking, ticket, sending, leaving, return, announcer, turns, presses, outages>>
      
    BY DEF WebhookGrants, client
  <2>2. /\ DataTyped' /\ AskingTyped' /\ TicketTyped' /\ ReturnTyped'
        /\ AnnouncerTyped' /\ StagesTyped' /\ BoundsKept'
    BY <2>1, TypesKept
  <2>3. TruthTyped'
    BY CreditedRow DEF TruthTyped, WebhookGrants
  <2>4. HistoryTyped'
    BY DEF HistoryTyped, TruthTyped, TruthRows, TicketTyped, BansInv, DataTyped, ReturnTyped,
        WebhookGrants, Credited, client
  <2> QED
    BY <2>1, <2>2, <2>3, <2>4
<1>2. TicketInv'
  BY DEF TicketInv, PaidFor, WebhookGrants, client
<1>3. BansInv'
  BY DEF BansInv, PaidFor, TruthTyped, TruthRows, HistoryTyped, TicketTyped, WebhookGrants,
      Credited, client
<1>4. BalanceInv'
  BY DEF BalanceInv, Current, CheckoutInv, TruthTyped, TruthRows, DataTyped, AskingTyped,
      ReturnTyped, HistoryTyped, StagesTyped, WebhookGrants, Credited, client
<1>5. CheckoutInv'
  <2>1. /\ truth'.credited = truth.credited + 1 /\ truth'.purchase = truth.purchase
        /\ truth.credited < Bundle /\ return' = return /\ leaving' = leaving
    BY CreditedRow DEF WebhookGrants, client
  <2>2. truth.credited \in Nat /\ return.mine \in Nat /\ Bundle \in Nat
    BY Numbers
  <2> QED
    BY <2>1, <2>2 DEF CheckoutInv, CheckoutIsTold
<1>6. LinkInv'
  BY DEF LinkInv, VerificationIsTold, LinkStates, TruthTyped, TruthRows, DataTyped, AskingTyped,
      AnnouncerTyped, WebhookGrants, Credited, client, Status, Unknown
<1> QED
  BY <1>1, <1>2, <1>3, <1>4, <1>5, <1>6

LEMMA ConfirmGrantsStep ==
  ASSUME HomeInv, ConfirmGrants PROVE HomeInv'
<1> USE DEF HomeInv, HomeTypes
<1>1. HomeTypes'
  <2>1. UNCHANGED <<data, asking, ticket, sending, leaving, announcer, turns, presses, outages, unseen, spent, swapped>>
      
    BY DEF ConfirmGrants
  <2>2. /\ DataTyped' /\ AskingTyped' /\ TicketTyped' /\ AnnouncerTyped'
        /\ StagesTyped' /\ BoundsKept' /\ HistoryTyped'
    BY <2>1, TypesKept
  <2>3. TruthTyped'
    BY CreditedRow DEF TruthTyped, ConfirmGrants
  <2>4. ReturnTyped'
    <3>1. return.mine <= truth.credited /\ truth.credited < Bundle
      BY DEF ConfirmGrants, CheckoutInv
    <3>2. return.mine + 1 \in 0 .. Bundle
      BY <3>1, Numbers
    <3> QED
      BY <3>2 DEF ReturnTyped, ConfirmGrants
  <2> QED
    BY <2>1, <2>2, <2>3, <2>4
<1>2. TicketInv'
  BY DEF TicketInv, PaidFor, ConfirmGrants
<1>3. BansInv'
  BY DEF BansInv, PaidFor, TruthTyped, TruthRows, HistoryTyped, TicketTyped, ConfirmGrants,
      Credited
<1>4. BalanceInv'
  <2>1. return'.mine = return.mine + 1 /\ return'.granted = return.granted
    BY DEF ConfirmGrants, ReturnTyped
  <2>2. return.mine \in Nat /\ return.granted \in Nat
    BY Numbers
  <2>3. return'.granted <= return'.mine /\ return'.mine # return'.granted
    BY <2>1, <2>2 DEF BalanceInv
  <2> QED
    BY <2>3 DEF BalanceInv, Current, ConfirmGrants
<1>5. CheckoutInv'
  <2>1. /\ truth'.credited = truth.credited + 1 /\ truth'.purchase = truth.purchase
        /\ truth.credited < Bundle /\ leaving' = leaving /\ return.call = "sent"
    BY CreditedRow DEF ConfirmGrants
  <2>2. /\ return'.mine = return.mine + 1 /\ return'.granted = return.granted
        /\ return'.call = return.call /\ return'.says = return.says
    BY DEF ConfirmGrants, ReturnTyped
  <2>3. truth.credited \in Nat /\ return.mine \in Nat /\ Bundle \in Nat
    BY Numbers
  <2> QED
    BY <2>1, <2>2, <2>3 DEF CheckoutInv, CheckoutIsTold
<1>6. LinkInv'
  BY DEF LinkInv, VerificationIsTold, LinkStates, TruthTyped, TruthRows, DataTyped, AskingTyped,
      AnnouncerTyped, ConfirmGrants, Credited, Status, Unknown
<1> QED
  BY <1>1, <1>2, <1>3, <1>4, <1>5, <1>6

LEMMA ConfirmEndsStep ==
  ASSUME HomeInv, ConfirmEnds PROVE HomeInv'
<1> USE DEF HomeInv, HomeTypes
<1>1. HomeTypes'
  <2>1. UNCHANGED <<truth, data, asking, ticket, sending, leaving, announcer, turns, presses, outages, unseen, spent, swapped>>
      
    BY DEF ConfirmEnds
  <2>2. /\ TruthTyped' /\ DataTyped' /\ AskingTyped' /\ TicketTyped'
        /\ AnnouncerTyped' /\ StagesTyped' /\ BoundsKept' /\ HistoryTyped'
    BY <2>1, TypesKept
  <2>3. ReturnTyped'
    BY AccountHomeAssumption DEF ReturnTyped, TruthTyped, TruthRows, CheckoutInv, ConfirmEnds
  <2> QED
    BY <2>1, <2>2, <2>3
<1>2. BansInv' /\ TicketInv' /\ LinkInv'
  BY DEF BansInv, TicketInv, LinkInv, PaidFor, VerificationIsTold, Status, ConfirmEnds
<1>3. BalanceInv'
  BY DEF BalanceInv, Current, CheckoutInv, TruthTyped, TruthRows, DataTyped, AskingTyped,
      ReturnTyped, HistoryTyped, StagesTyped, ConfirmEnds
<1>4. CheckoutInv'
  BY DEF CheckoutInv, CheckoutIsTold, TruthTyped, TruthRows, ReturnTyped, StagesTyped,
      ConfirmEnds
<1> QED
  BY <1>1, <1>2, <1>3, <1>4

LEMMA ConfirmAnsweredStep ==
  ASSUME HomeInv, ConfirmAnswered PROVE HomeInv'
<1> USE DEF HomeInv, HomeTypes
<1>1. HomeTypes'
  <2>1. UNCHANGED <<truth, data, ticket, sending, leaving, announcer, turns, presses, outages, unseen, spent, swapped>>
      
    BY DEF ConfirmAnswered
  <2>2. /\ TruthTyped' /\ DataTyped' /\ TicketTyped' /\ AnnouncerTyped'
        /\ StagesTyped' /\ BoundsKept' /\ HistoryTyped'
    BY <2>1, TypesKept
  <2>3. AskingTyped'
    BY Answered DEF AskingTyped, LinkStates, Pages, DataTyped, TruthTyped, Queries, ConfirmAnswered,
        Invalidated, Asked, Fetch, Outcome, Settled
  <2>4. ReturnTyped'
    BY Answered, AccountHomeAssumption DEF ReturnTyped, TruthTyped, TruthRows, CheckoutInv,
        ConfirmAnswered, Invalidated, Asked, Fetch, Outcome, Settled
  <2> QED
    BY <2>1, <2>2, <2>3, <2>4
<1>2. BansInv'
  BY DEF BansInv, PaidFor, ConfirmAnswered
<1>3. TicketInv'
  BY Answered DEF TicketInv, PaidFor, BansInv, Pages, Calls, TruthTyped, TruthRows, DataTyped,
      AskingTyped, TicketTyped, HistoryTyped, ConfirmAnswered, Invalidated, Asked, Fetch,
      Outcome, Settled, Queries
<1>4. BalanceInv'
  <2>1. return'.granted = return'.mine
    BY DEF ConfirmAnswered, Settled, ReturnTyped
  <2>2. return'.mine \in Nat
    BY <1>1, Numbers DEF ConfirmAnswered, Settled, ReturnTyped
  <2>3. asking'["tokens"].stage = "asked"
    BY DEF ConfirmAnswered, Invalidated, Asked, Fetch, Queries
  <2> QED
    BY <2>1, <2>2, <2>3 DEF BalanceInv
<1>5. CheckoutInv'
  <2>1. /\ return'.mine = return.mine /\ return'.granted = return.mine /\ return'.call = "none"
        /\ return'.says = Outcome(return.call, return.mine)
    BY DEF ConfirmAnswered, Settled, ReturnTyped
  <2>2. UNCHANGED <<truth, leaving>>
    BY DEF ConfirmAnswered
  <2>3. /\ return'.says = "added" => return.call = "paid" /\ return.mine > 0
        /\ return'.says = "replay" => return.call = "paid" /\ ~(return.mine > 0)
    BY <2>1 DEF Outcome
  <2>4. return.mine <= truth.credited
    BY DEF CheckoutInv
  <2>5. return.mine > 0 => return.mine \in 1 .. Bundle
    BY <2>4, Numbers
  <2>6. ~(return.mine > 0) => return.mine = 0
    BY Numbers
  <2> QED
    BY <2>1, <2>2, <2>3, <2>4, <2>5, <2>6 DEF CheckoutInv, CheckoutIsTold
<1>6. LinkInv'
  BY Answered DEF LinkInv, VerificationIsTold, LinkStates, TruthTyped, TruthRows, DataTyped,
      AskingTyped, AnnouncerTyped, ConfirmAnswered, Invalidated, Asked, Fetch, Outcome, Settled,
      Status, Unknown, Queries
<1> QED
  BY <1>1, <1>2, <1>3, <1>4, <1>5, <1>6

LEMMA ConfirmBreaksStep ==
  ASSUME HomeInv, ConfirmBreaks PROVE HomeInv'
<1> USE DEF HomeInv, HomeTypes
<1>1. HomeTypes'
  <2>1. UNCHANGED <<truth, data, asking, ticket, sending, leaving, announcer>> 
    BY DEF ConfirmBreaks, Outage
  <2>2. /\ TruthTyped' /\ DataTyped' /\ AskingTyped' /\ TicketTyped'
        /\ AnnouncerTyped' /\ StagesTyped'
    BY <2>1, TypesKept
  <2>3. ReturnTyped'
    BY AccountHomeAssumption DEF ReturnTyped, TruthTyped, TruthRows, CheckoutInv, ConfirmBreaks,
        Outage, Settled
  <2>4. BoundsKept'
    BY AccountHomeAssumption DEF BoundsKept, ConfirmBreaks, Outage, Settled
  <2>5. HistoryTyped'
    BY DEF HistoryTyped, TruthTyped, TruthRows, TicketTyped, BansInv, DataTyped, ReturnTyped,
        ConfirmBreaks, Outage, Settled
  <2> QED
    BY <2>1, <2>2, <2>3, <2>4, <2>5
<1>2. BansInv' /\ TicketInv' /\ LinkInv'
  BY DEF BansInv, TicketInv, LinkInv, PaidFor, VerificationIsTold, Status, ConfirmBreaks
<1>3. BalanceInv'
  <2>1. return'.granted = return'.mine /\ return'.mine = return.mine
    BY DEF ConfirmBreaks, Settled, ReturnTyped
  <2>2. return'.granted <= return'.mine
    BY <2>1, Numbers
  <2>3. unseen' = TRUE /\ UNCHANGED <<asking, data>>
    BY DEF ConfirmBreaks
  <2> QED
    BY <2>2, <2>3 DEF BalanceInv, Current
<1>4. CheckoutInv'
  BY DEF CheckoutInv, CheckoutIsTold, TruthTyped, TruthRows, ReturnTyped, StagesTyped,
      ConfirmBreaks, Outage, Settled
<1> QED
  BY <1>1, <1>2, <1>3, <1>4

LEMMA VerifiesStep ==
  ASSUME HomeInv, Verifies PROVE HomeInv'
<1> USE DEF HomeInv, HomeTypes
<1>1. HomeTypes'
  <2>1. UNCHANGED <<data, asking, ticket, sending, leaving, return, announcer, unseen, spent, swapped>>
      
    BY DEF Verifies, client, Turn
  <2>2. /\ DataTyped' /\ AskingTyped' /\ TicketTyped' /\ ReturnTyped'
        /\ AnnouncerTyped' /\ StagesTyped' /\ HistoryTyped'
    BY <2>1, TypesKept
  <2>3. TruthTyped'
    BY AccountHomeAssumption DEF TruthTyped, TruthRows, LinkStates, Verifies, Turn, client
  <2>4. BoundsKept'
    BY AccountHomeAssumption DEF BoundsKept, Verifies, Turn, client
  <2> QED
    BY <2>1, <2>2, <2>3, <2>4
<1>2. TicketInv'
  BY DEF TicketInv, PaidFor, Verifies, client
<1>3. BansInv'
  BY DEF BansInv, PaidFor, TruthTyped, TruthRows, HistoryTyped, TicketTyped, Verifies, Turn,
      client
<1>4. BalanceInv'
  BY DEF BalanceInv, Current, CheckoutInv, TruthTyped, TruthRows, DataTyped, AskingTyped,
      ReturnTyped, HistoryTyped, StagesTyped, Verifies, Turn, client
<1>5. CheckoutInv'
  BY DEF CheckoutInv, CheckoutIsTold, TruthTyped, TruthRows, ReturnTyped, StagesTyped, Verifies,
      Turn, client
<1>6. LinkInv'
  BY DEF LinkInv, VerificationIsTold, LinkStates, TruthTyped, TruthRows, DataTyped, AskingTyped,
      AnnouncerTyped, Verifies, Turn, client, Status, Unknown
<1> QED
  BY <1>1, <1>2, <1>3, <1>4, <1>5, <1>6

LEMMA GetsBannedStep ==
  ASSUME HomeInv, GetsBanned PROVE HomeInv'
<1> USE DEF HomeInv, HomeTypes
<1>1. HomeTypes'
  <2>1. UNCHANGED <<data, asking, ticket, sending, leaving, return, announcer, unseen, spent, swapped>>
      
    BY DEF GetsBanned, client, Turn
  <2>2. /\ DataTyped' /\ AskingTyped' /\ TicketTyped' /\ ReturnTyped'
        /\ AnnouncerTyped' /\ StagesTyped' /\ HistoryTyped'
    BY <2>1, TypesKept
  <2>3. TruthTyped'
    <3>1. truth.bans + 1 \in Nat
      BY DEF TruthTyped, TruthRows
    <3>2. truth' = [[truth EXCEPT !.bans = truth.bans + 1] EXCEPT !.ban = truth.bans + 1]
      BY DEF GetsBanned, TruthTyped, TruthRows
    <3> QED
      BY <3>1, <3>2 DEF TruthTyped, TruthRows
  <2>4. BoundsKept'
    BY AccountHomeAssumption DEF BoundsKept, GetsBanned, Turn, client
  <2> QED
    BY <2>1, <2>2, <2>3, <2>4
<1>2. TicketInv'
  BY DEF TicketInv, PaidFor, GetsBanned, client
<1>3. BansInv'
  <2>1. /\ truth'.bans = truth.bans + 1 /\ truth'.ban = truth.bans + 1 /\ spent' = spent
        /\ truth'.lifting = truth.lifting /\ truth.ban = 0
    BY DEF GetsBanned, TruthTyped, TruthRows
  <2>2. truth.bans \in Nat /\ \A s \in spent : s.lifted \in Nat
    BY DEF TruthTyped, TruthRows, HistoryTyped
  <2>3. ~truth.lifting
    BY <2>1 DEF BansInv
  <2>4. \A s \in spent : s.lifted <= truth.bans + 1 /\ s.lifted # truth.bans + 1
    BY <2>2 DEF BansInv
  <2>5. truth'.ban <= truth'.bans
    BY <2>1, <2>2
  <2> QED
    BY <2>1, <2>3, <2>4, <2>5 DEF BansInv, PaidFor
<1>4. BalanceInv'
  BY DEF BalanceInv, Current, CheckoutInv, TruthTyped, TruthRows, DataTyped, AskingTyped,
      ReturnTyped, HistoryTyped, StagesTyped, GetsBanned, Turn, client
<1>5. CheckoutInv'
  BY DEF CheckoutInv, CheckoutIsTold, TruthTyped, TruthRows, ReturnTyped, StagesTyped,
      GetsBanned, Turn, client
<1>6. LinkInv'
  BY DEF LinkInv, VerificationIsTold, LinkStates, TruthTyped, TruthRows, DataTyped, AskingTyped,
      AnnouncerTyped, GetsBanned, Turn, client, Status, Unknown
<1> QED
  BY <1>1, <1>2, <1>3, <1>4, <1>5, <1>6

LEMMA GetsFreeStep ==
  ASSUME HomeInv, GetsFree PROVE HomeInv'
<1> USE DEF HomeInv, HomeTypes
<1>1. HomeTypes'
  <2>1. UNCHANGED <<data, asking, ticket, sending, leaving, return, announcer, unseen, spent, swapped>>
      
    BY DEF GetsFree, client, Turn
  <2>2. /\ DataTyped' /\ AskingTyped' /\ TicketTyped' /\ ReturnTyped'
        /\ AnnouncerTyped' /\ StagesTyped' /\ HistoryTyped'
    BY <2>1, TypesKept
  <2>3. TruthTyped'
    BY AccountHomeAssumption DEF TruthTyped, TruthRows, LinkStates, GetsFree, Turn, client
  <2>4. BoundsKept'
    BY AccountHomeAssumption DEF BoundsKept, GetsFree, Turn, client
  <2> QED
    BY <2>1, <2>2, <2>3, <2>4
<1>2. TicketInv'
  BY DEF TicketInv, PaidFor, GetsFree, client
<1>3. BansInv'
  BY DEF BansInv, PaidFor, TruthTyped, TruthRows, HistoryTyped, TicketTyped, GetsFree, Turn,
      client
<1>4. BalanceInv'
  BY DEF BalanceInv, Current, CheckoutInv, TruthTyped, TruthRows, DataTyped, AskingTyped,
      ReturnTyped, HistoryTyped, StagesTyped, GetsFree, Turn, client
<1>5. CheckoutInv'
  BY DEF CheckoutInv, CheckoutIsTold, TruthTyped, TruthRows, ReturnTyped, StagesTyped, GetsFree,
      Turn, client
<1>6. LinkInv'
  BY DEF LinkInv, VerificationIsTold, LinkStates, TruthTyped, TruthRows, DataTyped, AskingTyped,
      AnnouncerTyped, GetsFree, Turn, client, Status, Unknown
<1> QED
  BY <1>1, <1>2, <1>3, <1>4, <1>5, <1>6

LEMMA HomeStep == HomeInv /\ [AccountHomeNext]_homeVars => HomeInv'
<1> SUFFICES ASSUME HomeInv, [AccountHomeNext]_homeVars PROVE HomeInv'
  OBVIOUS
<1>1. CASE \E q \in Queries : Polls(q)
  BY <1>1, PollsStep
<1>2. CASE \E q \in Queries : ServerReads(q)
  BY <1>2, ServerReadsStep
<1>3. CASE \E q \in Queries : FetchBreaks(q)
  BY <1>3, FetchBreaksStep
<1>4. CASE \/ Focuses \/ LinksArrive \/ PageArrives \/ TokensArrive \/ CancelsClaim
           \/ Claims \/ SpendsToken \/ RedeemLands
  BY <1>4, FocusesStep, LinksArriveStep, PageArrivesStep, TokensArriveStep, CancelsClaimStep,
      ClaimsStep, SpendsTokenStep, RedeemLandsStep
<1>5. CASE \/ RedeemAnswered \/ RedeemBreaks \/ Sends \/ SendLands \/ SendAnswered
           \/ SendBreaks \/ Buys \/ CheckoutOpens
  BY <1>5, RedeemAnsweredStep, RedeemBreaksStep, SendsStep, SendLandsStep, SendAnsweredStep,
      SendBreaksStep, BuysStep, CheckoutOpensStep
<1>6. CASE \/ CheckoutRefused \/ ComesBack \/ GivesUp \/ Reloads \/ CardCharged
           \/ WebhookGrants \/ ConfirmGrants \/ ConfirmEnds
  BY <1>6, CheckoutRefusedStep, ComesBackStep, GivesUpStep, ReloadsStep, CardChargedStep,
      WebhookGrantsStep, ConfirmGrantsStep, ConfirmEndsStep
<1>7. CASE \/ ConfirmAnswered \/ ConfirmBreaks \/ Verifies \/ GetsBanned \/ GetsFree
  BY <1>7, ConfirmAnsweredStep, ConfirmBreaksStep, VerifiesStep, GetsBannedStep, GetsFreeStep
<1>8. CASE UNCHANGED homeVars
  <2>1. UNCHANGED <<truth, data, asking, ticket, sending, leaving, return, announcer, turns,
                    presses, outages, unseen, spent, swapped>>
    BY <1>8 DEF homeVars, client
  <2>2. HomeTypes'
    BY <2>1, TypesKept DEF HomeInv, HomeTypes
  <2>3. BansInv' /\ TicketInv'
    BY <2>1 DEF HomeInv, BansInv, TicketInv, PaidFor
  <2>4. BalanceInv' /\ CheckoutInv'
    BY <2>1 DEF HomeInv, BalanceInv, Current, CheckoutInv, CheckoutIsTold
  <2>5. LinkInv'
    BY <2>1 DEF HomeInv, LinkInv, VerificationIsTold, Status
  <2> QED
    BY <2>2, <2>3, <2>4, <2>5 DEF HomeInv
<1> QED
  BY <1>1, <1>2, <1>3, <1>4, <1>5, <1>6, <1>7, <1>8 DEF AccountHomeNext

LEMMA HomeKept == TokensSpec => []HomeInv
<1>1. TokensInit => HomeInv
  BY HomeInitInv DEF TokensInit
<1>2. HomeInv /\ [TokensNext]_<<vars, homeVars, where>> => HomeInv'
  BY HomeStep DEF TokensNext
<1> QED
  BY <1>1, <1>2, PTL DEF TokensSpec

\* BalancesAreHonest: overlapping spends apart no balance is overdrawn, and what a player's
\* home says of balance, ban, checkout and link is so, however polls, invalidations, calls,
\* failures and the game interleave.
THEOREM HomeTold == TokensSpec => []BalancesAreHonest
<1>1. TokensSpec => Spec
  <2>1. TokensInit => Init
    BY DEF TokensInit
  <2>2. [TokensNext]_<<vars, homeVars, where>> => [Next]_vars
    BY DEF TokensNext
  <2> QED
    BY <2>1, <2>2, PTL DEF TokensSpec, Spec
<1>2. OverdraftIsAnOverlap /\ HomeInv => BalancesAreHonest
  BY HomeIsThen DEF BalancesAreHonest
<1> QED
  BY <1>1, <1>2, OverdraftsAreOverlaps, HomeKept, PTL

=============================================================================
