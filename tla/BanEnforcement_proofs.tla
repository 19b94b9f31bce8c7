------------------------ MODULE BanEnforcement_proofs ------------------------
(***************************************************************************)
(* Theorems about what faces the player of a life that ended: the ban      *)
(* (BanEnforcement), for every set of accounts and gamertags, every ban    *)
(* duration and every number of faults; and the news (Announcements), for  *)
(* every set of readers and gamertags, every length of the window and      *)
(* every number of failures: the windows do what a cursor would.           *)
(***************************************************************************)
EXTENDS MCPlayerFacing, FiniteSetTheorems, SequenceTheorems, TLAPS

\* What the enforcer and the open redemptions hold on to exists.
Refs ==
  /\ enforcer.queue \subseteq DOMAIN bans
  /\ \A p \in enforcer.plans : p.death \in DOMAIN deaths
  /\ \A a \in Accounts : request[a] # None => request[a].ban \in DOMAIN bans

\* What the enforcer read stays true while the phase lasts, redemptions or not.
Phased ==
  /\ enforcer.phase \in {"idle", "detect"} => enforcer.queue = {}
  /\ enforcer.plans # {} => enforcer.phase = "detect"
  /\ enforcer.now <= clock
  /\ enforcer.phase = "expire" => \A i \in enforcer.queue : Due(i, enforcer.now)
  /\ enforcer.phase = "lift" =>
       \A i \in enforcer.queue : bans[i].status = "lift_pending"
  /\ enforcer.answered => ~enforcer.dry
  /\ enforcer.answered /\ enforcer.phase = "apply" =>
       \A i \in enforcer.queue : InHand(i) => bans[i].victim \in banlist

\* An open redemption is still covered by the balance it read.
Requested ==
  \A a \in Accounts :
    request[a] # None => balance[a] >= 1 /\ ~bans[request[a].ban].dry

IInv == TypeOK /\ Refs /\ Phased /\ Requested /\ LiftsArePaid /\ BannedIsListed

LEMMA IdleTyped ==
  ASSUME NEW dry \in Modes
  PROVE  /\ Idle(dry) \in [dry: Modes, phase: Phases, now: Times, plans: SUBSET Plan,
                          queue: SUBSET Nat, answered: BOOLEAN]
         /\ ~Idle(dry).answered
  BY BanBoundsAssumption DEF Idle, Phases, Times

LEMMA InitIInv == Init => IInv
<1> SUFFICES ASSUME Init PROVE IInv
  OBVIOUS
<1>1. TypeOK
  <2>1. \A dry \in Modes :
          /\ Idle(dry) \in [dry: Modes, phase: Phases, now: Times, plans: SUBSET Plan,
                            queue: SUBSET Nat, answered: BOOLEAN]
          /\ ~Idle(dry).answered
    BY IdleTyped
  <2>2. deaths \in Seq(DeathRow) /\ bans \in Seq(BanRow)
    BY EmptySeq DEF Init
  <2>3. clock \in Times /\ faults \in 0 .. MaxFaults /\ renames \in 0 .. MaxRenames
    BY BanBoundsAssumption DEF Init, Times
  <2>4. balance \in [Accounts -> 0 .. MaxTokens]
    BY BanBoundsAssumption DEF Init
  <2> QED
    BY <2>1, <2>2, <2>3, <2>4 DEF Init, TypeOK
<1>2. Refs /\ Phased /\ Requested
  BY DEF Init, Refs, Phased, Requested, Idle
<1>3. LiftsArePaid /\ BannedIsListed
  BY DEF Init, LiftsArePaid, BannedIsListed
<1> QED
  BY <1>1, <1>2, <1>3 DEF IInv

-----------------------------------------------------------------------------
\* The tables.

LEMMA Rows ==
  ASSUME TypeOK
  PROVE  /\ Len(bans) \in Nat /\ DOMAIN bans = 1 .. Len(bans)
         /\ \A i \in DOMAIN bans : bans[i] \in BanRow
         /\ Len(deaths) \in Nat /\ DOMAIN deaths = 1 .. Len(deaths)
         /\ \A d \in DOMAIN deaths : deaths[d] \in DeathRow
  BY ElementOfSeq, LenProperties DEF TypeOK

Statuses == {"pending", "applied", "expired", "lift_pending", "lifted"}

LEMMA StatusWritten ==
  ASSUME TypeOK, NEW i \in DOMAIN bans, NEW s \in Statuses,
         bans' = [bans EXCEPT ![i].status = s]
  PROVE  /\ bans' \in Seq(BanRow) /\ DOMAIN bans' = DOMAIN bans
         /\ bans'[i].status = s
         /\ \A j \in DOMAIN bans :
              /\ bans'[j].victim = bans[j].victim /\ bans'[j].tag = bans[j].tag
              /\ bans'[j].due = bans[j].due /\ bans'[j].dry = bans[j].dry
              /\ j # i => bans'[j] = bans[j]
<1>1. \A j \in DOMAIN bans : bans[j] \in BanRow
  BY Rows
<1>2. DOMAIN bans' = DOMAIN bans
  OBVIOUS
<1>3. \A j \in DOMAIN bans :
        bans'[j] = IF j = i THEN [bans[i] EXCEPT !.status = s] ELSE bans[j]
  BY <1>1
<1>4. [bans[i] EXCEPT !.status = s] \in BanRow
  BY <1>1 DEF BanRow, Statuses
<1>5. bans' \in [1 .. Len(bans) -> BanRow]
  <2>1. bans' = [j \in DOMAIN bans |->
                   IF j = i THEN [bans[i] EXCEPT !.status = s] ELSE bans[j]]
    BY <1>1
  <2> QED
    BY <1>1, <1>4, <2>1, Rows
<1>6. bans' \in Seq(BanRow)
  BY <1>5, Rows, SeqDef
<1> QED
  BY <1>1, <1>2, <1>3, <1>6 DEF BanRow

LEMMA BanAppended ==
  ASSUME TypeOK, NEW row \in BanRow, bans' = Append(bans, row)
  PROVE  /\ bans' \in Seq(BanRow) /\ DOMAIN bans \subseteq DOMAIN bans'
         /\ \A i \in DOMAIN bans : bans'[i] = bans[i]
         /\ \A i \in DOMAIN bans' \ DOMAIN bans : bans'[i] = row
<1>1. bans \in Seq(BanRow)
  BY DEF TypeOK
<1> QED
  BY <1>1, Rows, AppendProperties, LenProperties

-----------------------------------------------------------------------------
\* What an action that leaves a part alone preserves of it.

LEMMA ListKept ==
  ASSUME LiftsArePaid, BannedIsListed, UNCHANGED <<clock, bans, banlist, redeemed>>
  PROVE  LiftsArePaid' /\ BannedIsListed'
  BY DEF LiftsArePaid, BannedIsListed, BansOf, Due

LEMMA RequestsKept ==
  ASSUME Refs, Requested, UNCHANGED <<request, balance>>,
         \A i \in DOMAIN bans : i \in DOMAIN bans' /\ bans'[i].dry = bans[i].dry
  PROVE  /\ Requested'
         /\ \A a \in Accounts : request'[a] # None => request'[a].ban \in DOMAIN bans'
  BY DEF Refs, Requested

-----------------------------------------------------------------------------
\* The actions of the enforcer.

LEMMA StartTickStep ==
  ASSUME IInv, StartTick
  PROVE  IInv'
<1> USE DEF IInv
<1>1. /\ enforcer.phase = "idle" /\ enforcer.queue = {} /\ ~enforcer.answered
  BY DEF StartTick, Phased, TypeOK
<1>2. Unbanned \subseteq Plan /\ \A p \in Unbanned : p.death \in DOMAIN deaths
  <2>1. \A d \in DOMAIN deaths : d \in Nat /\ label[deaths[d].victim] \in Tags
    BY Rows DEF DeathRow, TypeOK
  <2> QED
    BY <2>1 DEF Unbanned, Plan
<1>3. /\ enforcer'.phase = "detect" /\ enforcer'.now = clock
      /\ enforcer'.plans = Unbanned /\ enforcer'.queue = {} /\ ~enforcer'.answered
  BY <1>1 DEF StartTick, TypeOK
<1>4. TypeOK'
  BY <1>1, <1>2 DEF StartTick, TypeOK, Phases, game, tokens
<1>5. Refs' /\ Requested'
  BY <1>2, <1>3, RequestsKept DEF StartTick, Refs, game, tokens
<1>6. Phased'
  BY <1>3, <1>4 DEF StartTick, Phased, TypeOK, Times, game
<1>7. LiftsArePaid' /\ BannedIsListed'
  BY ListKept DEF StartTick, game, tokens
<1> QED
  BY <1>4, <1>5, <1>6, <1>7

LEMMA InsertBanStep ==
  ASSUME IInv, InsertBan
  PROVE  IInv'
<1> USE DEF IInv
<1>1. PICK plan \in enforcer.plans :
        /\ enforcer' = [enforcer EXCEPT !.plans = @ \ {plan}]
        /\ bans' = bans \/ bans' = Append(bans, NewBan(plan))
        /\ UNCHANGED <<game, banlist, tokens, faults>>
  BY DEF InsertBan
<1>2. NewBan(plan) \in BanRow /\ NewBan(plan).status = "pending"
  <2>1. plan \in Plan /\ plan.death \in DOMAIN deaths
    BY DEF TypeOK, Refs
  <2>2. deaths[plan.death] \in DeathRow /\ enforcer.dry \in BOOLEAN
    BY <2>1, Rows, ModesAssumption DEF TypeOK
  <2> QED
    BY <2>1, <2>2, BanBoundsAssumption DEF NewBan, BanRow, DeathRow, Plan, Times
<1>3. /\ bans' \in Seq(BanRow) /\ DOMAIN bans \subseteq DOMAIN bans'
      /\ \A i \in DOMAIN bans : bans'[i] = bans[i]
      /\ \A i \in DOMAIN bans' \ DOMAIN bans : bans'[i].status = "pending"
  <2>1. CASE bans' = bans
    BY <2>1 DEF TypeOK
  <2>2. CASE bans' = Append(bans, NewBan(plan))
    BY <1>2, <2>2, BanAppended
  <2> QED
    BY <1>1, <2>1, <2>2
<1>4. /\ enforcer'.phase = enforcer.phase /\ enforcer'.now = enforcer.now
      /\ enforcer'.plans \subseteq enforcer.plans /\ enforcer'.queue = enforcer.queue
      /\ enforcer'.answered = enforcer.answered
      /\ enforcer.phase = "detect" /\ enforcer.queue = {} /\ ~enforcer.answered
  BY <1>1 DEF TypeOK, Phased
<1>5. TypeOK'
  BY <1>1, <1>3, <1>4 DEF TypeOK, game, tokens
<1>6. Refs' /\ Requested'
  BY <1>1, <1>3, <1>4, RequestsKept DEF Refs, game, tokens
<1>7. Phased'
  BY <1>1, <1>4 DEF Phased, game
<1>8. \A i \in DOMAIN bans' \ DOMAIN bans : i \notin redeemed
  BY DEF TypeOK
<1>9. LiftsArePaid' /\ BannedIsListed'
  BY <1>1, <1>3, <1>8 DEF LiftsArePaid, BannedIsListed, BansOf, Due, game, tokens
<1> QED
  BY <1>5, <1>6, <1>7, <1>9

LEMMA EndPhaseStep ==
  ASSUME IInv, EndPhase
  PROVE  IInv'
<1> USE DEF IInv
<1>1. /\ enforcer.plans = {} /\ enforcer.queue = {} /\ ~enforcer.answered
      /\ UNCHANGED <<game, bans, banlist, tokens, faults>>
  BY DEF EndPhase, TypeOK
<1>2. \A status \in Statuses : WithStatus(status) \subseteq DOMAIN bans
  BY DEF WithStatus
<1>3. DOMAIN bans \subseteq Nat
  BY Rows
<1>4. /\ enforcer' \in [dry: Modes, phase: Phases, now: Times, plans: SUBSET Plan,
                        queue: SUBSET Nat, answered: BOOLEAN]
      /\ enforcer'.plans = {} /\ ~enforcer'.answered
      /\ \/ /\ enforcer'.phase = "idle" /\ enforcer'.queue = {} /\ enforcer'.now = 0
         \/ /\ enforcer'.now = enforcer.now
            /\ \/ enforcer'.phase = "apply" /\ enforcer'.queue = WithStatus("pending")
               \/ enforcer'.phase = "expire" /\ enforcer'.queue = Expiring
               \/ enforcer'.phase = "lift" /\ enforcer'.queue = WithStatus("lift_pending")
  <2>1. enforcer \in [dry: Modes, phase: Phases, now: Times, plans: SUBSET Plan,
                      queue: SUBSET Nat, answered: BOOLEAN]
    BY DEF TypeOK
  <2>2. /\ WithStatus("pending") \subseteq Nat /\ Expiring \subseteq Nat
        /\ WithStatus("lift_pending") \subseteq Nat
    BY <1>3 DEF WithStatus, Expiring
  <2>3. CASE enforcer.phase = "detect"
    <3>1. enforcer' = [enforcer EXCEPT !.phase = "apply", !.queue = WithStatus("pending")]
      BY <2>3 DEF EndPhase
    <3> QED
      BY <1>1, <2>1, <2>2, <3>1 DEF Phases
  <2>4. CASE enforcer.phase = "apply"
    <3>1. enforcer' = [enforcer EXCEPT !.phase = "expire", !.queue = Expiring]
      BY <2>4 DEF EndPhase
    <3> QED
      BY <1>1, <2>1, <2>2, <3>1 DEF Phases
  <2>5. CASE enforcer.phase = "expire"
    <3>1. enforcer' = [enforcer EXCEPT !.phase = "lift", !.queue = WithStatus("lift_pending")]
      BY <2>5 DEF EndPhase
    <3> QED
      BY <1>1, <2>1, <2>2, <3>1 DEF Phases
  <2>6. CASE enforcer.phase \notin {"detect", "apply", "expire"}
    <3>1. enforcer' = Idle(enforcer.dry) /\ enforcer.dry \in Modes
      BY <2>1, <2>6 DEF EndPhase
    <3> QED
      BY <3>1, IdleTyped DEF Idle
  <2> QED
    BY <2>3, <2>4, <2>5, <2>6
<1>5. TypeOK'
  BY <1>1, <1>4 DEF TypeOK, game, tokens
<1>6. enforcer'.queue \subseteq DOMAIN bans
  BY <1>4 DEF WithStatus, Expiring
<1>7. Refs' /\ Requested'
  BY <1>1, <1>4, <1>6, RequestsKept DEF Refs, game, tokens
<1>8. Phased'
  BY <1>1, <1>4 DEF Phased, TypeOK, Times, WithStatus, Expiring, Due, game
<1>9. LiftsArePaid' /\ BannedIsListed'
  BY <1>1, ListKept DEF game, tokens
<1> QED
  BY <1>5, <1>7, <1>8, <1>9

\* A call takes off the list only what belongs to a ban that is over, and puts
\* on it the account the ban in hand is for.
LEMMA CallIsRight ==
  ASSUME IInv, NEW i \in DOMAIN bans, InHand(i)
  PROVE  /\ AfterCall(i) \subseteq Accounts \cup Tags
         /\ enforcer.phase = "apply" => bans[i].victim \in AfterCall(i)
         /\ \A n \in banlist \ AfterCall(i) :
              n \in BanNames(i) /\ (Due(i, clock) \/ i \in redeemed)
<1> USE DEF IInv
<1>1. bans[i] \in BanRow /\ enforcer.now \in Times /\ clock \in Times
  BY Rows DEF TypeOK
<1>2. i \in enforcer.queue
  BY DEF InHand
<1>3. AfterCall(i) \subseteq Accounts \cup Tags
  BY <1>1 DEF AfterCall, BanNames, BanRow, TypeOK
<1>4. CASE enforcer.phase = "apply"
  BY <1>3, <1>4 DEF AfterCall, BanNames
<1>5. CASE enforcer.phase = "expire"
  <2>1. Due(i, clock)
    BY <1>1, <1>2, <1>5 DEF Phased, Due, BanRow, Times
  <2> QED
    BY <1>3, <1>5, <2>1 DEF AfterCall
<1>6. CASE enforcer.phase = "lift"
  <2>1. i \in redeemed
    BY <1>2, <1>6 DEF Phased, LiftsArePaid
  <2> QED
    BY <1>3, <1>6, <2>1 DEF AfterCall
<1> QED
  BY <1>2, <1>4, <1>5, <1>6 DEF Phased, TypeOK, Phases

LEMMA ListCalled ==
  ASSUME IInv, NEW i \in DOMAIN bans, InHand(i), banlist' = AfterCall(i),
         UNCHANGED <<clock, bans, redeemed>>
  PROVE  LiftsArePaid' /\ BannedIsListed'
<1> USE DEF IInv
<1>1. LiftsArePaid'
  BY DEF LiftsArePaid
<1>2. ASSUME NEW k \in DOMAIN bans, bans[k].status = "applied", ~Due(k, clock)
      PROVE  \/ bans[k].victim \in banlist'
             \/ \E j \in BansOf(bans[k].victim) : j # k /\ (Due(j, clock) \/ j \in redeemed)
  <2>1. CASE \E j \in BansOf(bans[k].victim) : j # k /\ (Due(j, clock) \/ j \in redeemed)
    BY <2>1
  <2>2. CASE bans[k].victim \in banlist \ banlist'
    <3>1. bans[k].victim \in BanNames(i) /\ (Due(i, clock) \/ i \in redeemed)
      BY <2>2, CallIsRight
    <3>2. bans[k].victim = bans[i].victim
      BY <3>1, Rows, NamesAssumption DEF BanNames, BanRow
    <3>3. enforcer.phase # "apply"
      BY <2>2 DEF AfterCall
    <3>4. i # k
      <4>1. /\ i \in enforcer.queue /\ bans[i].due \in Nat
            /\ enforcer.phase \in Phases /\ enforcer.now \in Times /\ clock \in Times
        BY Rows DEF InHand, BanRow, TypeOK
      <4>2. CASE enforcer.phase = "expire"
        BY <1>2, <4>1, <4>2 DEF Phased, Due, Times
      <4>3. CASE enforcer.phase = "lift"
        BY <1>2, <4>1, <4>3 DEF Phased
      <4> QED
        BY <3>3, <4>1, <4>2, <4>3 DEF Phased, Phases
    <3> QED
      BY <3>1, <3>2, <3>4 DEF BansOf
  <2> QED
    BY <1>2, <2>1, <2>2 DEF BannedIsListed
<1>3. BannedIsListed'
  BY <1>2 DEF BannedIsListed, BansOf, Due
<1> QED
  BY <1>1, <1>3

LEMMA AnsweredStep ==
  ASSUME IInv, NEW i \in DOMAIN bans, Answered(i)
  PROVE  IInv'
<1> USE DEF IInv
<1>1. /\ InHand(i) /\ i \in enforcer.queue /\ ~enforcer.dry
      /\ banlist' = AfterCall(i)
      /\ enforcer' = [enforcer EXCEPT !.answered = TRUE]
      /\ UNCHANGED <<game, bans, tokens, faults>>
  BY DEF Answered, InHand
<1>2. /\ enforcer'.phase = enforcer.phase /\ enforcer'.now = enforcer.now
      /\ enforcer'.plans = enforcer.plans /\ enforcer'.queue = enforcer.queue
      /\ enforcer'.dry = enforcer.dry
  BY <1>1 DEF TypeOK
<1>3. TypeOK'
  BY <1>1, <1>2, CallIsRight DEF TypeOK, game, tokens
<1>4. Refs' /\ Requested'
  BY <1>1, <1>2, RequestsKept DEF Refs, game, tokens
<1>5. Phased'
  <2>1. \A j \in enforcer.queue : InHand(j) => j = i
    BY <1>1, Rows DEF InHand, Refs
  <2>2. \A j \in enforcer'.queue : InHand(j)' => j = i
    BY <1>2, <2>1 DEF InHand
  <2>3. enforcer.phase = "apply" => bans[i].victim \in banlist'
    BY <1>1, CallIsRight
  <2> QED
    BY <1>1, <1>2, <2>2, <2>3 DEF Phased, Due, game
<1>6. LiftsArePaid' /\ BannedIsListed'
  BY <1>1, ListCalled DEF game, tokens
<1> QED
  BY <1>3, <1>4, <1>5, <1>6

LEMMA CallFailsStep ==
  ASSUME IInv, NEW i \in DOMAIN bans, CallFails(i)
  PROVE  IInv'
<1> USE DEF IInv
<1>1. /\ InHand(i) /\ i \in enforcer.queue /\ ~enforcer.answered
      /\ faults < MaxFaults /\ faults' = faults + 1
      /\ banlist' \in {banlist, AfterCall(i)}
      /\ enforcer' = [enforcer EXCEPT !.queue = @ \ {i}]
      /\ UNCHANGED <<game, bans, tokens>>
  BY DEF CallFails, InHand
<1>2. /\ enforcer'.phase = enforcer.phase /\ enforcer'.now = enforcer.now
      /\ enforcer'.plans = enforcer.plans /\ enforcer'.queue = enforcer.queue \ {i}
      /\ enforcer'.dry = enforcer.dry /\ ~enforcer'.answered
  BY <1>1 DEF TypeOK
<1>3. TypeOK'
  <2>1. banlist' \subseteq Accounts \cup Tags
    BY <1>1, CallIsRight DEF TypeOK
  <2>2. faults' \in 0 .. MaxFaults
    BY <1>1, BanBoundsAssumption DEF TypeOK
  <2>3. enforcer' \in [dry: Modes, phase: Phases, now: Times, plans: SUBSET Plan,
                       queue: SUBSET Nat, answered: BOOLEAN]
    BY <1>1 DEF TypeOK
  <2> QED
    BY <1>1, <1>2, <2>1, <2>2, <2>3 DEF TypeOK, game, tokens
<1>4. Refs' /\ Requested'
  BY <1>1, <1>2, RequestsKept DEF Refs, game, tokens
<1>5. Phased'
  BY <1>1, <1>2 DEF Phased, Due, game
<1>6. LiftsArePaid' /\ BannedIsListed'
  BY <1>1, ListCalled, ListKept DEF game, tokens
<1> QED
  BY <1>3, <1>4, <1>5, <1>6

LEMMA SkipDryStep ==
  ASSUME IInv, NEW i \in DOMAIN bans, SkipDry(i)
  PROVE  IInv'
<1> USE DEF IInv
<1>1. /\ ~enforcer.answered
      /\ enforcer' = [enforcer EXCEPT !.queue = @ \ {i}]
      /\ UNCHANGED <<game, bans, banlist, tokens, faults>>
  BY DEF SkipDry, Phased
<1>2. /\ enforcer'.phase = enforcer.phase /\ enforcer'.now = enforcer.now
      /\ enforcer'.plans = enforcer.plans /\ enforcer'.queue = enforcer.queue \ {i}
      /\ enforcer'.dry = enforcer.dry /\ ~enforcer'.answered
  BY <1>1 DEF TypeOK
<1>3. TypeOK'
  BY <1>1, <1>2 DEF TypeOK, game, tokens
<1>4. Refs' /\ Requested'
  BY <1>1, <1>2, RequestsKept DEF Refs, game, tokens
<1>5. Phased'
  BY <1>1, <1>2 DEF Phased, Due, game
<1>6. LiftsArePaid' /\ BannedIsListed'
  BY <1>1, ListKept DEF game, tokens
<1> QED
  BY <1>3, <1>4, <1>5, <1>6

LEMMA MarkStep ==
  ASSUME IInv, NEW i \in DOMAIN bans, Mark(i)
  PROVE  IInv'
<1> USE DEF IInv
<1>1. /\ InHand(i) /\ i \in enforcer.queue
      /\ enforcer.answered \/ enforcer.phase # "apply"
      /\ bans' = [bans EXCEPT ![i].status = StatusAfter]
      /\ enforcer' = [enforcer EXCEPT !.queue = @ \ {i}, !.answered = FALSE]
      /\ UNCHANGED <<game, banlist, tokens, faults>>
  BY DEF Mark, InHand
<1>2. /\ enforcer'.phase = enforcer.phase /\ enforcer'.now = enforcer.now
      /\ enforcer'.plans = enforcer.plans /\ enforcer'.queue = enforcer.queue \ {i}
      /\ enforcer'.dry = enforcer.dry /\ ~enforcer'.answered
  BY <1>1 DEF TypeOK
<1>3. StatusAfter \in Statuses
  BY DEF StatusAfter, Statuses
<1>4. /\ bans' \in Seq(BanRow) /\ DOMAIN bans' = DOMAIN bans
      /\ bans'[i].status = StatusAfter
      /\ \A j \in DOMAIN bans :
           /\ bans'[j].victim = bans[j].victim /\ bans'[j].tag = bans[j].tag
           /\ bans'[j].due = bans[j].due /\ bans'[j].dry = bans[j].dry
           /\ j # i => bans'[j] = bans[j]
  BY <1>1, <1>3, StatusWritten
<1>5. TypeOK'
  BY <1>1, <1>2, <1>4 DEF TypeOK, game, tokens
<1>6. Refs' /\ Requested'
  BY <1>1, <1>2, <1>4, RequestsKept DEF Refs, game, tokens
<1>7. Phased'
  <2>1. \A j \in enforcer'.queue : j \in DOMAIN bans /\ j # i
    BY <1>2 DEF Refs
  <2> QED
    BY <1>1, <1>2, <1>4, <2>1 DEF Phased, Due, game
<1>8. LiftsArePaid'
  <2>1. StatusAfter = "lifted" => i \in redeemed
    BY <1>1 DEF StatusAfter, Phased, Phases, TypeOK, LiftsArePaid
  <2>2. StatusAfter # "lift_pending"
    BY DEF StatusAfter
  <2> QED
    BY <1>1, <1>4, <2>1, <2>2 DEF LiftsArePaid, tokens
<1>9. BannedIsListed'
  <2>1. StatusAfter = "applied" => bans[i].victim \in banlist
    BY <1>1 DEF StatusAfter, Phased, Phases, TypeOK
  <2>2. \A k \in DOMAIN bans : bans'[k].due = bans[k].due /\ bans'[k].victim = bans[k].victim
    BY <1>4
  <2>3. ASSUME NEW k \in DOMAIN bans, bans'[k].status = "applied", ~Due(k, clock)
        PROVE  \/ bans[k].victim \in banlist
               \/ \E j \in BansOf(bans[k].victim) : j # k /\ (Due(j, clock) \/ j \in redeemed)
    <3>1. CASE k = i
      BY <1>4, <2>1, <2>3, <3>1
    <3>2. CASE k # i
      BY <1>4, <2>3, <3>2 DEF BannedIsListed
    <3> QED
      BY <3>1, <3>2
  <2>4. UNCHANGED <<clock, banlist, redeemed>> /\ DOMAIN bans' = DOMAIN bans
    BY <1>1, <1>4 DEF game, tokens
  <2> QED
    BY <2>2, <2>3, <2>4 DEF BannedIsListed, BansOf, Due
<1> QED
  BY <1>5, <1>6, <1>7, <1>8, <1>9

LEMMA RestartStep ==
  ASSUME IInv, Restart
  PROVE  IInv'
<1> USE DEF IInv
<1>1. PICK dry \in Modes : enforcer' = Idle(dry)
  BY DEF Restart
<1>2. UNCHANGED <<game, bans, banlist, tokens>>
  BY DEF Restart
<1>3. TypeOK'
  BY <1>1, <1>2, IdleTyped, BanBoundsAssumption DEF Restart, TypeOK, game, tokens
<1>4. Refs' /\ Requested'
  BY <1>1, <1>2, RequestsKept DEF Refs, Idle, game, tokens
<1>5. Phased'
  BY <1>1, <1>2 DEF Phased, Idle, TypeOK, Times, game
<1>6. LiftsArePaid' /\ BannedIsListed'
  BY <1>2, ListKept DEF game, tokens
<1> QED
  BY <1>3, <1>4, <1>5, <1>6

-----------------------------------------------------------------------------
\* Tokens.

LEMMA GrantStep ==
  ASSUME IInv, NEW a \in Accounts, Grant(a)
  PROVE  IInv'
<1> USE DEF IInv
<1>1. /\ balance' = [balance EXCEPT ![a] = @ + 1]
      /\ UNCHANGED <<game, bans, banlist, enforcer, request, redeemed, faults>>
  BY DEF Grant
<1>2. balance[a] + 1 \in 0 .. MaxTokens
  <2> DEFINE S == {i \in redeemed : bans[i].victim = a}
  <2>1. IsFiniteSet(1 .. Len(bans))
    BY Rows, FS_Interval
  <2>2. S \subseteq 1 .. Len(bans)
    BY Rows DEF TypeOK
  <2>3. Cardinality(S) \in Nat
    BY <2>1, <2>2, FS_Subset, FS_CardinalityType
  <2>4. balance[a] \in 0 .. MaxTokens
    BY DEF TypeOK
  <2>5. balance[a] + Cardinality(S) < MaxTokens
    BY DEF Grant
  <2> HIDE DEF S
  <2> QED
    BY <2>3, <2>4, <2>5, BanBoundsAssumption
<1>3. balance' \in [Accounts -> 0 .. MaxTokens]
  BY <1>1, <1>2 DEF TypeOK
<1>4. \A b \in Accounts : balance[b] >= 1 => balance'[b] >= 1
  BY <1>1, BanBoundsAssumption DEF TypeOK
<1>5. TypeOK'
  BY <1>1, <1>3 DEF TypeOK, game
<1>6. Refs' /\ Requested'
  BY <1>1, <1>4 DEF Refs, Requested, game
<1>7. Phased'
  BY <1>1 DEF Phased, Due, InHand, game
<1>8. LiftsArePaid' /\ BannedIsListed'
  BY <1>1, ListKept DEF game
<1> QED
  BY <1>5, <1>6, <1>7, <1>8

LEMMA BeginRedeemStep ==
  ASSUME IInv, NEW a \in Accounts, BeginRedeem(a)
  PROVE  IInv'
<1> USE DEF IInv
<1>1. PICK i \in DOMAIN bans :
        /\ bans[i].status \in {"pending", "applied"} /\ ~bans[i].dry
        /\ balance[a] >= 1
        /\ request' = [request EXCEPT ![a] = [ban |-> i, status |-> bans[i].status]]
  BY DEF BeginRedeem
<1>2. UNCHANGED <<game, bans, banlist, enforcer, balance, redeemed, faults>>
  BY DEF BeginRedeem
<1>3. i \in Nat
  BY Rows
<1>4. TypeOK'
  BY <1>1, <1>2, <1>3 DEF TypeOK, game
<1>5. \A b \in Accounts : request'[b] # None =>
        /\ request'[b].ban \in DOMAIN bans
        /\ balance[b] >= 1 /\ ~bans[request'[b].ban].dry
  BY <1>1 DEF TypeOK, Refs, Requested
<1>6. Refs' /\ Requested'
  BY <1>2, <1>5 DEF Refs, Requested, game
<1>7. Phased'
  BY <1>2 DEF Phased, Due, InHand, game
<1>8. LiftsArePaid' /\ BannedIsListed'
  BY <1>2, ListKept DEF game
<1> QED
  BY <1>4, <1>6, <1>7, <1>8

LEMMA CommitRedeemStep ==
  ASSUME IInv, NEW a \in Accounts, CommitRedeem(a)
  PROVE  IInv'
<1> USE DEF IInv
<1> DEFINE i == request[a].ban
           s == IF request[a].status = "applied" THEN "lift_pending" ELSE "lifted"
<1>1. i \in DOMAIN bans /\ balance[a] >= 1 /\ ~bans[i].dry
  BY DEF CommitRedeem, Refs, Requested
<1>2. /\ request' = [request EXCEPT ![a] = None]
      /\ UNCHANGED <<game, banlist, enforcer, faults>>
  BY DEF CommitRedeem
<1>3. CASE i \in redeemed
  <2>1. UNCHANGED <<redeemed, balance, bans>>
    BY <1>3 DEF CommitRedeem
  <2>2. TypeOK'
    BY <1>2, <2>1 DEF TypeOK, game
  <2>3. \A b \in Accounts : request'[b] # None => request'[b] = request[b]
    BY <1>2 DEF TypeOK
  <2>4. Refs' /\ Requested'
    BY <1>2, <2>1, <2>3 DEF Refs, Requested, game
  <2>5. Phased'
    BY <1>2, <2>1 DEF Phased, Due, InHand, game
  <2>6. LiftsArePaid' /\ BannedIsListed'
    BY <1>2, <2>1, ListKept DEF game
  <2> QED
    BY <2>2, <2>4, <2>5, <2>6
<1>4. CASE i \notin redeemed
  <2>1. /\ redeemed' = redeemed \cup {i}
        /\ balance' = [balance EXCEPT ![a] = @ - 1]
        /\ bans' = [bans EXCEPT ![i].status = s]
    BY <1>4 DEF CommitRedeem
  <2>2. /\ bans' \in Seq(BanRow) /\ DOMAIN bans' = DOMAIN bans
        /\ bans'[i].status = s
        /\ \A j \in DOMAIN bans :
             /\ bans'[j].victim = bans[j].victim /\ bans'[j].tag = bans[j].tag
             /\ bans'[j].due = bans[j].due /\ bans'[j].dry = bans[j].dry
             /\ j # i => bans'[j] = bans[j]
    <3>1. s \in Statuses
      BY DEF Statuses
    <3>2. i \in DOMAIN bans /\ bans' = [bans EXCEPT ![i].status = s]
      BY <1>1, <2>1
    <3> HIDE DEF i, s
    <3> QED
      BY <3>1, <3>2, StatusWritten
  <2>3. TypeOK'
    <3>1. balance' \in [Accounts -> 0 .. MaxTokens]
      BY <1>1, <2>1, BanBoundsAssumption DEF TypeOK
    <3>2. redeemed' \subseteq DOMAIN bans'
      BY <1>1, <2>1, <2>2 DEF TypeOK
    <3> QED
      BY <1>2, <2>2, <3>1, <3>2 DEF TypeOK, game
  <2>4. \A b \in Accounts : request'[b] # None =>
          request'[b] = request[b] /\ balance'[b] = balance[b]
    BY <1>2, <2>1 DEF TypeOK
  <2>5. Refs' /\ Requested'
    BY <1>2, <2>2, <2>4 DEF Refs, Requested, game
  <2>6. Phased'
    <3>1. enforcer.phase = "lift" => i \notin enforcer.queue
      BY <1>4 DEF Phased, LiftsArePaid, Refs
    <3>2. \A j \in enforcer.queue :
            /\ j \in DOMAIN bans
            /\ bans'[j].victim = bans[j].victim /\ bans'[j].due = bans[j].due
            /\ enforcer.phase = "lift" => bans'[j].status = bans[j].status
      BY <2>2, <3>1 DEF Refs
    <3> QED
      BY <1>2, <3>2 DEF Phased, Due, InHand, game
  <2>7. LiftsArePaid'
    BY <1>1, <2>1, <2>2 DEF LiftsArePaid
  <2>8. s # "applied"
    OBVIOUS
  <2>9. UNCHANGED <<clock, banlist>> /\ redeemed \subseteq redeemed'
    BY <1>2, <2>1 DEF game
  <2>10. \A j \in DOMAIN bans :
           /\ bans'[j].victim = bans[j].victim /\ bans'[j].due = bans[j].due
           /\ bans'[j].status = "applied" => bans[j].status = "applied"
    BY <2>2, <2>8
  <2>11. BannedIsListed'
    BY <2>2, <2>9, <2>10 DEF BannedIsListed, BansOf, Due
  <2> QED
    BY <2>3, <2>5, <2>6, <2>7, <2>11
<1> QED
  BY <1>3, <1>4

-----------------------------------------------------------------------------
\* The game.

LEMMA PassStep ==
  ASSUME IInv, Pass
  PROVE  IInv'
<1> USE DEF IInv
<1>1. /\ clock < MaxTime /\ clock' = clock + 1
      /\ UNCHANGED <<label, deaths, renames, bans, banlist, enforcer, tokens, faults>>
  BY DEF Pass
<1>2. TypeOK'
  BY <1>1, BanBoundsAssumption DEF TypeOK, Times, tokens
<1>3. Refs' /\ Requested'
  BY <1>1, RequestsKept DEF Refs, tokens
<1>4. clock \in Nat /\ enforcer.now \in Nat
  BY DEF TypeOK, Times
<1>5. Phased'
  BY <1>1, <1>4 DEF Phased, Due, InHand
<1>6. \A i \in DOMAIN bans : Due(i, clock) => Due(i, clock)'
  <2>1. \A i \in DOMAIN bans : bans[i].due \in Nat
    BY Rows DEF BanRow
  <2> QED
    BY <1>1, <1>4, <2>1 DEF Due
<1>7. LiftsArePaid'
  BY <1>1 DEF LiftsArePaid, tokens
<1>8. BannedIsListed'
  BY <1>1, <1>6 DEF BannedIsListed, BansOf, tokens
<1> QED
  BY <1>2, <1>3, <1>5, <1>7, <1>8

LEMMA DieStep ==
  ASSUME IInv, NEW a \in Accounts, NEW at \in Times, Die(a, at)
  PROVE  IInv'
<1> USE DEF IInv
<1>1. /\ deaths' = Append(deaths, [victim |-> a, at |-> at])
      /\ UNCHANGED <<clock, label, renames, bans, banlist, enforcer, tokens, faults>>
  BY DEF Die
<1>2. deaths' \in Seq(DeathRow) /\ DOMAIN deaths \subseteq DOMAIN deaths'
  <2>1. [victim |-> a, at |-> at] \in DeathRow /\ deaths \in Seq(DeathRow)
    BY DEF DeathRow, TypeOK
  <2> QED
    BY <1>1, <2>1, AppendProperties, LenProperties
<1>3. TypeOK'
  BY <1>1, <1>2 DEF TypeOK, tokens
<1>4. Refs' /\ Requested'
  BY <1>1, <1>2, RequestsKept DEF Refs, tokens
<1>5. Phased'
  BY <1>1 DEF Phased, Due, InHand
<1>6. LiftsArePaid' /\ BannedIsListed'
  BY <1>1, ListKept DEF tokens
<1> QED
  BY <1>3, <1>4, <1>5, <1>6

LEMMA RenameStep ==
  ASSUME IInv, NEW a \in Accounts, NEW t \in Tags, Rename(a, t)
  PROVE  IInv'
<1> USE DEF IInv
<1>1. /\ renames < MaxRenames /\ renames' = renames + 1
      /\ label' = [label EXCEPT ![a] = t]
      /\ UNCHANGED <<clock, deaths, bans, banlist, enforcer, tokens, faults>>
  BY DEF Rename
<1>2. TypeOK'
  BY <1>1, BanBoundsAssumption DEF TypeOK, tokens
<1>3. Refs' /\ Requested'
  BY <1>1, RequestsKept DEF Refs, tokens
<1>4. Phased'
  BY <1>1 DEF Phased, Due, InHand
<1>5. LiftsArePaid' /\ BannedIsListed'
  BY <1>1, ListKept DEF tokens
<1> QED
  BY <1>2, <1>3, <1>4, <1>5

-----------------------------------------------------------------------------
\* The theorems.

LEMMA NextIInv == IInv /\ [Next]_vars => IInv'
<1> SUFFICES ASSUME IInv, [Next]_vars PROVE IInv'
  OBVIOUS
<1>1. CASE UNCHANGED vars
  BY <1>1 DEF vars, game, tokens, IInv, TypeOK, Refs, Phased, Requested, InHand, Due,
              LiftsArePaid, BannedIsListed, BansOf
<1>2. CASE Enforce \/ Restart \/ \E i \in DOMAIN bans : CallFails(i)
  BY <1>2, StartTickStep, InsertBanStep, EndPhaseStep, AnsweredStep, SkipDryStep, MarkStep,
     RestartStep, CallFailsStep DEF Enforce
<1>3. CASE \E a \in Accounts : Grant(a) \/ BeginRedeem(a) \/ CommitRedeem(a)
  BY <1>3, GrantStep, BeginRedeemStep, CommitRedeemStep
<1>4. CASE \/ Pass
           \/ \E a \in Accounts, at \in Times : Die(a, at)
           \/ \E a \in Accounts, t \in Tags : Rename(a, t)
  BY <1>4, PassStep, DieStep, RenameStep
<1> QED
  BY <1>1, <1>2, <1>3, <1>4 DEF Next, Unredeemed

\* What the enforcer and the redemptions rely on holds between any two of their
\* steps, whatever stops, fails or is answered late.
THEOREM BanInvariant == Spec => []IInv
<1>1. Init => IInv
  BY InitIInv
<1>2. IInv /\ [Next]_vars => IInv'
  BY NextIInv
<1> QED
  BY <1>1, <1>2, PTL DEF Spec

\* No step of the enforcer or of a redemption writes a malformed row, and no
\* balance goes below zero.
THEOREM BanTypeCorrect == Spec => []TypeOK
<1>1. IInv => TypeOK
  BY DEF IInv
<1> QED
  BY <1>1, BanInvariant, PTL

\* A ban is lifted only if a token was spent on it, and none on a dry run's ban,
\* whatever the comment at apps/notifier/src/generators/bans.ts:20 says of redeem.
THEOREM LiftsPaidFor == Spec => []LiftsArePaid
<1>1. IInv => LiftsArePaid
  BY DEF IInv
<1> QED
  BY <1>1, BanInvariant, PTL

\* The account hash of who serves a ban is on the list, unless another ban of
\* the same account took the shared entry away.
THEOREM BannedStayListed == Spec => []BannedIsListed
<1>1. IInv => BannedIsListed
  BY DEF IInv
<1> QED
  BY <1>1, BanInvariant, PTL

\* Only a ban that ran out or was bought off takes an entry from the list.
THEOREM ReleasesAreDue == Spec => NoEarlyRelease
<1> DEFINE Released(n) == \E i \in DOMAIN bans :
                             n \in BanNames(i) /\ (Due(i, clock) \/ i \in redeemed)
<1>1. IInv /\ [Next]_vars => [\A n \in banlist \ banlist' : Released(n)]_vars
  <2> SUFFICES ASSUME IInv, Next, NEW n \in banlist \ banlist' PROVE Released(n)
    OBVIOUS
  <2>1. CASE \E i \in DOMAIN bans : Answered(i) \/ CallFails(i)
    <3>1. PICK i \in DOMAIN bans :
            InHand(i) /\ (banlist' = AfterCall(i) \/ banlist' = banlist)
      BY <2>1 DEF Answered, CallFails
    <3> QED
      BY <3>1, CallIsRight
  <2>2. CASE UNCHANGED banlist
    BY <2>2
  <2> QED
    BY <2>1, <2>2 DEF Next, Unredeemed, Enforce, StartTick, InsertBan, EndPhase, SkipDry, Mark, Restart,
      Grant, BeginRedeem, CommitRedeem, Die, Rename, Pass
<1> QED
  BY <1>1, BanInvariant, PTL DEF Spec, NoEarlyRelease

-----------------------------------------------------------------------------
\* Where nobody redeems, in a process that is no dry run.

\* Who has a gamertag, was banned under it, or is about to be.
Bearers(t) ==
  {a \in Accounts : \/ label[a] = t
                    \/ \E i \in DOMAIN bans : bans[i].tag = t /\ bans[i].victim = a
                    \/ \E p \in enforcer.plans : p.tag = t /\ deaths[p.death].victim = a}

OwnNames == \A t \in Tags : \A a, b \in Bearers(t) : a = b

\* A row whose ban is still to be ended.
Unclosed(i) == bans[i].status \in {"pending", "applied"}

\* Whatever is listed is so for a row that is still to be closed, which is closed
\* only once its names are off the list.
Ending ==
  /\ ~enforcer.dry
  /\ \A i \in DOMAIN bans : bans[i].status \in {"pending", "applied", "expired"}
  /\ \A n \in banlist : \E i \in DOMAIN bans : n \in BanNames(i) /\ Unclosed(i)
  /\ enforcer.phase \in {"apply", "expire"} => \A i \in enforcer.queue : Unclosed(i)
  /\ enforcer.answered /\ enforcer.phase = "expire" =>
       \A i \in enforcer.queue : InHand(i) => BanNames(i) \cap banlist = {}

UnredeemedInv == IInv /\ OwnNames /\ Ending

\* Nobody new bears a name.
LEMMA FewerBearers ==
  ASSUME OwnNames, \A t \in Tags : Bearers(t)' \subseteq Bearers(t)
  PROVE  OwnNames'
  BY DEF OwnNames

LEMMA NamesRest ==
  ASSUME OwnNames, UNCHANGED <<label, deaths>>, enforcer'.plans \subseteq enforcer.plans,
         DOMAIN bans' = DOMAIN bans,
         \A i \in DOMAIN bans : bans'[i].tag = bans[i].tag /\ bans'[i].victim = bans[i].victim
  PROVE  OwnNames'
<1>1. \A t \in Tags : Bearers(t)' \subseteq Bearers(t)
  BY DEF Bearers
<1> QED
  BY <1>1, FewerBearers

LEMMA EndingInit ==
  ASSUME Init, Modes = {FALSE}
  PROVE  OwnNames /\ Ending
<1>1. bans = <<>> /\ DOMAIN bans = {} /\ banlist = {} /\ enforcer = Idle(FALSE)
  BY DEF Init
<1>2. Ending
  BY <1>1 DEF Ending, Idle
<1>3. \A t \in Tags : Bearers(t) = {a \in Accounts : label[a] = t}
  BY <1>1 DEF Bearers, Idle
<1>4. \A a, b \in Accounts : label[a] = label[b] => a = b
  BY DEF Init
<1> QED
  BY <1>2, <1>3, <1>4 DEF OwnNames

\* The rows, the list and what the process holds of the rows are left alone.
LEMMA EndingRest ==
  ASSUME Ending, UNCHANGED <<bans, banlist>>, enforcer'.dry = enforcer.dry,
         \/ ~enforcer'.answered /\ enforcer'.queue \subseteq enforcer.queue
         \/ enforcer'.answered = enforcer.answered /\ enforcer'.queue = enforcer.queue,
         enforcer'.phase = enforcer.phase \/ enforcer'.queue = {}
  PROVE  Ending'
<1>1. /\ ~enforcer'.dry
      /\ \A i \in DOMAIN bans' : bans'[i].status \in {"pending", "applied", "expired"}
      /\ \A n \in banlist' : \E i \in DOMAIN bans' : n \in BanNames(i)' /\ Unclosed(i)'
  BY DEF Ending, BanNames, Unclosed
<1>2. enforcer'.phase \in {"apply", "expire"} => \A i \in enforcer'.queue : Unclosed(i)'
  BY DEF Ending, Unclosed
<1>3. enforcer'.answered /\ enforcer'.phase = "expire" =>
        \A i \in enforcer'.queue : InHand(i)' => BanNames(i)' \cap banlist' = {}
  BY DEF Ending, InHand, BanNames
<1> QED
  BY <1>1, <1>2, <1>3 DEF Ending

LEMMA StartTickEnding ==
  ASSUME UnredeemedInv, StartTick
  PROVE  OwnNames' /\ Ending'
<1>1. /\ enforcer.phase = "idle" /\ enforcer.queue = {} /\ ~enforcer.answered
      /\ UNCHANGED <<bans, banlist, label, deaths>>
  BY DEF StartTick, UnredeemedInv, IInv, Phased, TypeOK, game
<1>2. /\ enforcer'.queue = enforcer.queue /\ enforcer'.answered = enforcer.answered
      /\ enforcer'.dry = enforcer.dry /\ enforcer'.plans = Unbanned
  BY DEF StartTick, UnredeemedInv, IInv, TypeOK
<1>3. Ending'
  BY <1>1, <1>2, EndingRest DEF UnredeemedInv
<1>4. ASSUME NEW t \in Tags, NEW a \in Bearers(t)' PROVE a \in Bearers(t)
  <2>1. CASE \E p \in Unbanned : p.tag = t /\ deaths[p.death].victim = a
    <3>1. PICK p \in Unbanned : p.tag = t /\ deaths[p.death].victim = a
      BY <2>1
    <3>2. label[a] = t
      BY <3>1 DEF Unbanned
    <3> QED
      BY <1>4, <3>2 DEF Bearers
  <2>2. CASE ~\E p \in Unbanned : p.tag = t /\ deaths[p.death].victim = a
    BY <1>1, <1>2, <1>4, <2>2 DEF Bearers
  <2> QED
    BY <2>1, <2>2
<1>5. OwnNames'
  BY <1>4, FewerBearers DEF UnredeemedInv
<1> QED
  BY <1>3, <1>5

LEMMA InsertBanEnding ==
  ASSUME UnredeemedInv, InsertBan
  PROVE  OwnNames' /\ Ending'
<1> USE DEF UnredeemedInv, IInv
<1>1. PICK plan \in enforcer.plans :
        /\ enforcer' = [enforcer EXCEPT !.plans = @ \ {plan}]
        /\ bans' = bans \/ bans' = Append(bans, NewBan(plan))
        /\ UNCHANGED <<game, banlist, tokens, faults>>
  BY DEF InsertBan
<1>2. /\ NewBan(plan) \in BanRow /\ NewBan(plan).status = "pending"
      /\ NewBan(plan).tag = plan.tag /\ NewBan(plan).victim = deaths[plan.death].victim
  <2>1. plan \in Plan /\ plan.death \in DOMAIN deaths
    BY DEF TypeOK, Refs
  <2>2. deaths[plan.death] \in DeathRow /\ enforcer.dry \in BOOLEAN
    BY <2>1, Rows, ModesAssumption DEF TypeOK
  <2> QED
    BY <2>1, <2>2, BanBoundsAssumption DEF NewBan, BanRow, DeathRow, Plan, Times
<1>3. /\ DOMAIN bans \subseteq DOMAIN bans'
      /\ \A i \in DOMAIN bans : bans'[i] = bans[i]
      /\ \A i \in DOMAIN bans' \ DOMAIN bans : bans'[i] = NewBan(plan)
  BY <1>1, <1>2, BanAppended
<1>4. /\ enforcer'.phase = enforcer.phase /\ enforcer'.plans \subseteq enforcer.plans
      /\ enforcer'.queue = {} /\ ~enforcer'.answered /\ enforcer'.dry = enforcer.dry
      /\ UNCHANGED <<label, deaths, banlist>>
  BY <1>1 DEF TypeOK, Phased, game
<1>5. \A t \in Tags : Bearers(t)' \subseteq Bearers(t)
  <2> SUFFICES ASSUME NEW t \in Tags, NEW a \in Bearers(t)' PROVE a \in Bearers(t)
    OBVIOUS
  <2>1. CASE \E i \in DOMAIN bans' \ DOMAIN bans : bans'[i].tag = t /\ bans'[i].victim = a
    BY <1>2, <1>3, <2>1 DEF Bearers
  <2>2. CASE ~\E i \in DOMAIN bans' \ DOMAIN bans : bans'[i].tag = t /\ bans'[i].victim = a
    BY <1>3, <1>4, <2>2 DEF Bearers
  <2> QED
    BY <2>1, <2>2
<1>6. OwnNames'
  BY <1>5, FewerBearers
<1>7. \A i \in DOMAIN bans' : bans'[i].status \in {"pending", "applied", "expired"}
  BY <1>2, <1>3 DEF Ending
<1>8. \A n \in banlist' : \E i \in DOMAIN bans' : n \in BanNames(i)' /\ Unclosed(i)'
  <2> SUFFICES ASSUME NEW n \in banlist
               PROVE  \E i \in DOMAIN bans' : n \in BanNames(i)' /\ Unclosed(i)'
    BY <1>4
  <2>1. PICK i \in DOMAIN bans : n \in BanNames(i) /\ Unclosed(i)
    BY DEF Ending
  <2> QED
    BY <1>3, <2>1 DEF BanNames, Unclosed
<1> QED
  BY <1>4, <1>6, <1>7, <1>8 DEF Ending

LEMMA EndPhaseEnding ==
  ASSUME UnredeemedInv, EndPhase
  PROVE  OwnNames' /\ Ending'
<1> USE DEF UnredeemedInv, IInv
<1>1. /\ enforcer.plans = {} /\ enforcer.queue = {} /\ ~enforcer.answered
      /\ UNCHANGED <<label, deaths, bans, banlist>>
  BY DEF EndPhase, TypeOK, game
<1>2. /\ enforcer'.plans = {} /\ ~enforcer'.answered /\ enforcer'.dry = enforcer.dry
      /\ \/ enforcer'.queue = {}
         \/ enforcer'.phase = "apply" /\ enforcer'.queue = WithStatus("pending")
         \/ enforcer'.phase = "expire" /\ enforcer'.queue = Expiring
         \/ enforcer'.phase = "lift"
  BY <1>1 DEF EndPhase, TypeOK, Phases, Idle
<1>3. enforcer'.phase \in {"apply", "expire"} => \A i \in enforcer'.queue : Unclosed(i)
  BY <1>2 DEF WithStatus, Expiring, Unclosed
<1>4. Ending'
  BY <1>1, <1>2, <1>3 DEF Ending, Unclosed, BanNames
<1>5. OwnNames'
  BY <1>1, <1>2, NamesRest
<1> QED
  BY <1>4, <1>5

LEMMA CallEnding ==
  ASSUME UnredeemedInv, NEW i \in DOMAIN bans, Answered(i) \/ CallFails(i)
  PROVE  OwnNames' /\ Ending'
<1> USE DEF UnredeemedInv, IInv
<1>1. /\ InHand(i) /\ i \in enforcer.queue /\ ~enforcer.answered
      /\ banlist' \in {banlist, AfterCall(i)}
      /\ UNCHANGED <<label, deaths, bans>>
  BY DEF Answered, CallFails, InHand, game
<1>2. /\ enforcer'.phase = enforcer.phase /\ enforcer'.dry = enforcer.dry
      /\ enforcer'.plans = enforcer.plans
      /\ \/ /\ enforcer'.queue = enforcer.queue /\ enforcer'.answered
            /\ banlist' = AfterCall(i)
         \/ enforcer'.queue = enforcer.queue \ {i} /\ ~enforcer'.answered
  BY DEF Answered, CallFails, TypeOK
<1>3. OwnNames'
  BY <1>1, <1>2, NamesRest
<1>4. \A n \in banlist' : \E j \in DOMAIN bans : n \in BanNames(j) /\ Unclosed(j)
  <2> SUFFICES ASSUME NEW n \in banlist', n \notin banlist
               PROVE  \E j \in DOMAIN bans : n \in BanNames(j) /\ Unclosed(j)
    BY DEF Ending
  <2>1. enforcer.phase = "apply" /\ n \in BanNames(i)
    BY <1>1 DEF AfterCall
  <2> QED
    BY <1>1, <2>1 DEF Ending
<1>5. enforcer'.answered /\ enforcer'.phase = "expire" =>
        \A j \in enforcer'.queue : InHand(j)' => BanNames(j) \cap banlist' = {}
  <2> SUFFICES ASSUME enforcer'.answered, enforcer'.phase = "expire",
                      NEW j \in enforcer'.queue, InHand(j)'
               PROVE  BanNames(j) \cap banlist' = {}
    OBVIOUS
  <2>1. j = i
    BY <1>1, <1>2, Rows DEF InHand, Refs
  <2>2. banlist' = banlist \ BanNames(i)
    BY <1>2 DEF AfterCall
  <2> QED
    BY <2>1, <2>2
<1>6. Ending'
  BY <1>1, <1>2, <1>4, <1>5 DEF Ending, Unclosed, BanNames
<1> QED
  BY <1>3, <1>6

LEMMA MarkEnding ==
  ASSUME UnredeemedInv, NEW i \in DOMAIN bans, Mark(i)
  PROVE  OwnNames' /\ Ending'
<1> USE DEF UnredeemedInv, IInv
<1>1. /\ InHand(i) /\ i \in enforcer.queue /\ enforcer.answered
      /\ bans' = [bans EXCEPT ![i].status = StatusAfter]
      /\ UNCHANGED <<label, deaths, banlist>>
  BY DEF Mark, InHand, Ending, game
<1>2. /\ enforcer'.phase = enforcer.phase /\ enforcer'.dry = enforcer.dry
      /\ enforcer'.plans = enforcer.plans /\ enforcer'.queue = enforcer.queue \ {i}
      /\ ~enforcer'.answered
  BY DEF Mark, TypeOK
<1>3. StatusAfter \in Statuses
  BY DEF StatusAfter, Statuses
<1>4. /\ DOMAIN bans' = DOMAIN bans /\ bans'[i].status = StatusAfter
      /\ \A j \in DOMAIN bans :
           /\ bans'[j].victim = bans[j].victim /\ bans'[j].tag = bans[j].tag
           /\ j # i => bans'[j] = bans[j]
  BY <1>1, <1>3, StatusWritten
<1>5. OwnNames'
  BY <1>1, <1>2, <1>4, NamesRest
<1>6. \/ enforcer.phase = "apply" /\ StatusAfter = "applied"
      \/ enforcer.phase = "expire" /\ StatusAfter = "expired"
  <2>1. enforcer.phase \in {"apply", "expire", "lift"}
    BY <1>1 DEF Phased, TypeOK, Phases
  <2>2. enforcer.phase # "lift"
    BY <1>1 DEF Phased, Ending, Refs
  <2> QED
    BY <2>1, <2>2 DEF StatusAfter
<1>7. \A n \in banlist : \E j \in DOMAIN bans' : n \in BanNames(j)' /\ Unclosed(j)'
  <2> SUFFICES ASSUME NEW n \in banlist
               PROVE  \E j \in DOMAIN bans' : n \in BanNames(j)' /\ Unclosed(j)'
    OBVIOUS
  <2>1. PICK j \in DOMAIN bans : n \in BanNames(j) /\ Unclosed(j)
    BY DEF Ending
  <2>2. enforcer.phase = "expire" => j # i
    BY <1>1, <2>1 DEF Ending
  <2>3. Unclosed(j)'
    BY <1>4, <1>6, <2>1, <2>2 DEF Unclosed
  <2> QED
    BY <1>4, <2>1, <2>3 DEF BanNames
<1>8. \A j \in DOMAIN bans' : bans'[j].status \in {"pending", "applied", "expired"}
  BY <1>4, <1>6 DEF Ending
<1>9. enforcer'.phase \in {"apply", "expire"} => \A j \in enforcer'.queue : Unclosed(j)'
  <2>1. \A j \in enforcer'.queue : j \in DOMAIN bans /\ j # i /\ j \in enforcer.queue
    BY <1>2 DEF Refs
  <2> QED
    BY <1>2, <1>4, <2>1 DEF Ending, Unclosed
<1>10. Ending'
  BY <1>1, <1>2, <1>7, <1>8, <1>9 DEF Ending
<1> QED
  BY <1>5, <1>10

LEMMA RestartEnding ==
  ASSUME UnredeemedInv, Restart, Modes = {FALSE}
  PROVE  OwnNames' /\ Ending'
<1>1. /\ enforcer' = Idle(FALSE) /\ UNCHANGED <<label, deaths, bans, banlist>>
  BY DEF Restart, game
<1>2. /\ enforcer'.plans = {} /\ enforcer'.queue = {} /\ ~enforcer'.answered
      /\ ~enforcer'.dry
  BY <1>1 DEF Idle
<1>3. OwnNames'
  BY <1>1, <1>2, NamesRest DEF UnredeemedInv
<1>4. Ending'
  BY <1>1, <1>2 DEF UnredeemedInv, Ending, BanNames, Unclosed
<1> QED
  BY <1>3, <1>4

LEMMA GameEnding ==
  ASSUME UnredeemedInv,
         \/ Pass
         \/ \E a \in Accounts, at \in Times : Die(a, at)
         \/ \E a \in Accounts, t \in Tags : Rename(a, t)
  PROVE  OwnNames' /\ Ending'
<1> USE DEF UnredeemedInv, IInv
<1>1. UNCHANGED <<bans, banlist, enforcer>>
  BY DEF Pass, Die, Rename
<1>2. Ending'
  BY <1>1, EndingRest
<1>3. CASE UNCHANGED <<label, deaths>>
  BY <1>1, <1>2, <1>3, NamesRest
<1>4. ASSUME NEW a \in Accounts, NEW at \in Times, Die(a, at)
      PROVE  OwnNames'
  <2>1. \A d \in DOMAIN deaths : deaths'[d] = deaths[d]
    <3>1. deaths \in Seq(DeathRow) /\ [victim |-> a, at |-> at] \in DeathRow
      BY DEF TypeOK, DeathRow
    <3> QED
      BY <1>4, <3>1, Rows, AppendProperties DEF Die
  <2>2. \A p \in enforcer.plans : deaths'[p.death] = deaths[p.death]
    BY <2>1 DEF Refs
  <2>3. \A t \in Tags : Bearers(t)' \subseteq Bearers(t)
    BY <1>1, <1>4, <2>2 DEF Bearers, Die
  <2> QED
    BY <2>3, FewerBearers
<1>5. ASSUME NEW a \in Accounts, NEW t \in Tags, Rename(a, t)
      PROVE  OwnNames'
  <2>1. /\ label' = [label EXCEPT ![a] = t] /\ label \in [Accounts -> Tags]
        /\ UNCHANGED deaths
    BY <1>5 DEF Rename, TypeOK
  <2>2. Bearers(t)' \subseteq {a}
    BY <1>1, <1>5, <2>1 DEF Bearers, Rename
  <2>3. \A u \in Tags \ {t} : Bearers(u)' \subseteq Bearers(u)
    BY <1>1, <2>1 DEF Bearers
  <2> QED
    BY <2>2, <2>3 DEF OwnNames
<1> QED
  BY <1>2, <1>3, <1>4, <1>5 DEF Pass

LEMMA UnredeemedStep ==
  ASSUME UnredeemedInv, [Unredeemed]_vars, Modes = {FALSE}
  PROVE  UnredeemedInv'
<1>1. IInv'
  BY NextIInv DEF UnredeemedInv, Next
<1>2. CASE UNCHANGED vars
  <2>1. UNCHANGED <<label, deaths, bans, banlist, enforcer>>
    BY <1>2 DEF vars, game
  <2> QED
    BY <1>1, <2>1, NamesRest, EndingRest DEF UnredeemedInv
<1>3. CASE Enforce
  <2>1. ASSUME NEW i \in DOMAIN bans, SkipDry(i) PROVE FALSE
    BY <2>1 DEF SkipDry, UnredeemedInv, Ending
  <2> QED
    BY <1>1, <1>3, <2>1, StartTickEnding, InsertBanEnding, EndPhaseEnding, CallEnding,
       MarkEnding DEF Enforce, UnredeemedInv
<1>4. CASE Unredeemed /\ ~Enforce
  BY <1>1, <1>4, RestartEnding, CallEnding, GameEnding DEF Unredeemed, UnredeemedInv
<1> QED
  BY <1>2, <1>3, <1>4

\* Who is closed is off the list: another row would have to be of the same account.
LEMMA ClosedUnlisted ==
  ASSUME UnredeemedInv
  PROVE  NobodyStaysBanned
<1> USE DEF UnredeemedInv, IInv
<1> SUFFICES ASSUME NEW i \in DOMAIN bans, NEW n \in BanNames(i) \cap banlist
             PROVE  \E j \in BansOf(bans[i].victim) : bans[j].status \notin Closed
  BY DEF NobodyStaysBanned
<1>1. PICK j \in DOMAIN bans : n \in BanNames(j) /\ Unclosed(j)
  BY DEF Ending
<1>2. bans[i] \in BanRow /\ bans[j] \in BanRow
  BY Rows
<1>3. CASE n \in Accounts
  <2>1. bans[j].victim = bans[i].victim
    BY <1>1, <1>2, <1>3, NamesAssumption DEF BanNames, BanRow
  <2> QED
    BY <1>1, <2>1 DEF BansOf, Unclosed, Closed
<1>4. CASE n \in Tags
  <2>1. bans[i].tag = n /\ bans[j].tag = n
    BY <1>1, <1>2, <1>4, NamesAssumption DEF BanNames, BanRow
  <2>2. bans[i].victim \in Bearers(n) /\ bans[j].victim \in Bearers(n)
    BY <1>2, <2>1 DEF Bearers, BanRow
  <2>3. bans[j].victim = bans[i].victim
    BY <1>4, <2>2 DEF OwnNames
  <2> QED
    BY <1>1, <2>3 DEF BansOf, Unclosed, Closed
<1> QED
  BY <1>3, <1>4 DEF TypeOK

\* As long as nobody redeems and no process is a dry run, no stop, no lost answer
\* and no rename leaves anybody on the list whose bans are all closed.  (With
\* redemptions the property fails: see the findings.)
THEOREM NobodyLeftBanned == Modes = {FALSE} => (FairSpec => []NobodyStaysBanned)
<1> SUFFICES ASSUME Modes = {FALSE} PROVE FairSpec => []NobodyStaysBanned
  OBVIOUS
<1>1. Init => UnredeemedInv
  BY InitIInv, EndingInit DEF UnredeemedInv
<1>2. UnredeemedInv /\ [Unredeemed]_vars => UnredeemedInv'
  BY UnredeemedStep
<1>3. UnredeemedInv => NobodyStaysBanned
  BY ClosedUnlisted
<1> QED
  BY <1>1, <1>2, <1>3, PTL DEF FairSpec

-----------------------------------------------------------------------------
\* The news: what a tick drafts, and what it has told.

\* A piece of news: its turn among the generators, its natural key, whom it is for,
\* when it happened and since when the tables tell of it.
NewsRow(turn, key, user, at, known) ==
  [turn |-> turn, key |-> key, user |-> user, at |-> at, known |-> known]

OfRun(i, user, x) ==
  \/ /\ RealBan(i)
     /\ x = NewsRow(3, <<"banned", i>>, user, runs[i].banned, runs[i].banned)
  \/ /\ RealBan(i) /\ runs[i].lifted # Never
     /\ x = NewsRow(4, <<"lifted", i>>, user, runs[i].lifted, runs[i].lifted)
  \/ /\ i \in OpenQualifiedLives
     /\ x = NewsRow(5, <<"counts", i>>, user, runs[i].counts, runs[i].known)
  \/ /\ i \in OpenQualifiedLives
     /\ \E m \in Milestones :
          /\ runs[i].known <= runs[i].start + m
          /\ x = NewsRow(6, <<"lasted", i, m>>, user, runs[i].start + m, runs[i].start + m)

\* What somebody with an account is to be told of, as things stand.
IsNews(x) ==
  \/ \E l \in held : x = NewsRow(1, <<"verified", l.user, l.tag>>, l.user, l.at, l.at)
  \/ \E i \in DOMAIN entries :
       /\ entries[i].arrives /\ entries[i].user \in accounts
       /\ x = NewsRow(2, <<"tokens", i>>, entries[i].user, entries[i].at, entries[i].at)
  \/ \E i \in DOMAIN runs, l \in held :
       l.tag = runs[i].tag /\ OfRun(i, l.user, x) /\ l.at <= x.at

\* What a notification says has happened, and to its reader.
TellsTrue(n) ==
  \/ \E l \in held : n.user = l.user /\ n.key = <<"verified", l.user, l.tag>>
  \/ \E i \in DOMAIN entries : n.key = <<"tokens", i>> /\ entries[i].user = n.user
  \/ \E i \in DOMAIN runs : /\ OwnerIs(i, n.user)
       /\ \/ n.key = <<"banned", i>> /\ RealBan(i) /\ Since <= runs[i].banned
          \/ /\ n.key = <<"lifted", i>> /\ RealBan(i)
             /\ runs[i].lifted # Never /\ Since <= runs[i].lifted
          \/ n.key = <<"counts", i>> /\ runs[i].counts # Never /\ Since <= runs[i].counts
          \/ \E m \in Milestones : n.key = <<"lasted", i, m>>

\* A gamertag leads to one account.  A life counts by lines at most LineLag late.
\* A tick lasts no hour.
WorldInv ==
  /\ \A l \in held : l.user \in accounts
  /\ \A l, m \in held : l.tag = m.tag => l = m
  /\ \A i \in DOMAIN runs : runs[i].counts # Never =>
       /\ runs[i].known # Never /\ runs[i].counts <= runs[i].known
       /\ runs[i].known <= runs[i].counts + LineLag
  /\ draft.turn # 0 => draft.at = hour
  /\ covered = Since \/ covered <= hour

\* Inboxes and drafts tell the truth, once; a draft may be for an account that has
\* gone since, and is made by a generator whose turn has been.
ToldTrue ==
  /\ \A n \in inboxes : n.user \in accounts /\ TellsTrue(n)
  /\ \A m, n \in inboxes : m.key = n.key => m = n
  /\ \A n \in draft.drafts :
       /\ n.user \in accounts => TellsTrue(n)
       /\ \E k \in 1 .. Done - 1 : k < draft.turn /\ n.key[1] = GeneratorNames[k]
  /\ \A m, n \in draft.drafts : m.key = n.key => m = n

Drafted(key) == \E n \in draft.drafts : n.key = key

\* A tick that lacks nothing has drafted all news of its window that the tables
\* told of when it began, up to its turn.
TickInv ==
  draft.turn # 0 /\ draft.whole =>
    \A x : /\ IsNews(x) /\ x.turn < draft.turn
           /\ WindowStart(draft.at) <= x.at /\ x.known < draft.at
           => Drafted(x.key)

\* All news up to the last tick that lacked nothing has been told.
Caught ==
  ~outage => \A x : IsNews(x) /\ Since <= x.at /\ x.known < covered => Was(x.key)

NewsInv == AnnouncementsTypeOK /\ WorldInv /\ ToldTrue /\ TickInv /\ Caught

-----------------------------------------------------------------------------
\* Words of the definitions.

LEMMA LargerOfTwo ==
  ASSUME NEW a \in Int, NEW b \in Int
  PROVE  Max({a, b}) = IF b <= a THEN a ELSE b
  BY DEF Max

LEMMA Spans ==
  /\ Since \in Nat /\ Lookback \in Nat /\ LineLag \in Nat /\ LineLag < Lookback
  /\ MaxHour \in Nat /\ Hours = 0 .. MaxHour /\ Hours \subseteq Nat
  /\ Milestones \subseteq Nat /\ Never \notin Nat
  BY AnnouncementsAssumption DEF Hours

LEMMA WindowIs ==
  ASSUME NEW now \in Int
  PROVE  /\ WindowStart(now) \in Int /\ Since <= WindowStart(now)
         /\ now - Lookback <= WindowStart(now)
         /\ \A at \in Int : Since <= at /\ now - Lookback <= at => WindowStart(now) <= at
         /\ \A at \in Int : /\ at >= WindowStart(now) <=> WindowStart(now) <= at
                            /\ WindowStart(now) <= at => Since <= at
<1>1. now - Lookback \in Int /\ Since \in Int
  BY Spans
<1>2. WindowStart(now) = IF Since <= now - Lookback THEN now - Lookback ELSE Since
  BY <1>1, LargerOfTwo DEF WindowStart
<1> QED
  BY <1>1, <1>2

LEMMA KindNames ==
  /\ Done = 7 /\ Len(GeneratorNames) = 6
  /\ GeneratorNames[1] = "verified" /\ GeneratorNames[2] = "tokens"
  /\ GeneratorNames[3] = "banned" /\ GeneratorNames[4] = "lifted"
  /\ GeneratorNames[5] = "counts" /\ GeneratorNames[6] = "lasted"
  /\ Range(GeneratorNames) = {"verified", "tokens", "banned", "lifted", "counts", "lasted"}
<1>1. Len(GeneratorNames) = 6
  BY DEF GeneratorNames
<1>2. DOMAIN GeneratorNames = 1 .. 6
  BY DEF GeneratorNames
<1>3. /\ GeneratorNames[1] = "verified" /\ GeneratorNames[2] = "tokens"
      /\ GeneratorNames[3] = "banned" /\ GeneratorNames[4] = "lifted"
      /\ GeneratorNames[5] = "counts" /\ GeneratorNames[6] = "lasted"
  BY DEF GeneratorNames
<1>4. DOMAIN GeneratorNames = {1, 2, 3, 4, 5, 6}
  BY <1>2
<1>5. Range(GeneratorNames) = {"verified", "tokens", "banned", "lifted", "counts", "lasted"}
  BY <1>3, <1>4 DEF Range
<1> QED
  BY <1>1, <1>3, <1>5 DEF Done

LEMMA NewsRows ==
  ASSUME AnnouncementsTypeOK
  PROVE  /\ \A l \in held : l \in HeldRow /\ l.at \in Nat
         /\ \A i \in DOMAIN entries : entries[i] \in EntryRow /\ entries[i].at \in Nat
         /\ \A i \in DOMAIN runs :
              /\ runs[i] \in RunRow /\ runs[i].start \in Nat
              /\ runs[i].counts # Never => runs[i].counts \in Nat
              /\ runs[i].known # Never => runs[i].known \in Nat
              /\ runs[i].banned # Never => runs[i].banned \in Nat
              /\ runs[i].lifted # Never => runs[i].lifted \in Nat
         /\ Len(runs) \in Nat /\ DOMAIN runs = 1 .. Len(runs)
         /\ Len(entries) \in Nat /\ DOMAIN entries = 1 .. Len(entries)
         /\ hour \in Nat /\ draft.at \in Nat /\ covered \in Nat
<1>1. Hours \subseteq Nat /\ Since \in Nat
  BY Spans
<1>2. entries \in Seq(EntryRow) /\ runs \in Seq(RunRow)
  BY DEF AnnouncementsTypeOK
<1>3. /\ Len(runs) \in Nat /\ DOMAIN runs = 1 .. Len(runs)
      /\ Len(entries) \in Nat /\ DOMAIN entries = 1 .. Len(entries)
  BY <1>2, LenProperties
<1>4. /\ \A i \in DOMAIN entries : entries[i] \in EntryRow
      /\ \A i \in DOMAIN runs : runs[i] \in RunRow
  BY <1>2, <1>3, ElementOfSeq
<1>5. \A r \in RunRow :
        /\ r.start \in Nat
        /\ r.counts # Never => r.counts \in Nat
        /\ r.known # Never => r.known \in Nat
        /\ r.banned # Never => r.banned \in Nat
        /\ r.lifted # Never => r.lifted \in Nat
  BY <1>1 DEF RunRow
<1>6. /\ \A l \in held : l \in HeldRow /\ l.at \in Nat
      /\ \A e \in EntryRow : e.at \in Nat
      /\ hour \in Nat /\ draft.at \in Nat /\ covered \in Nat
  BY <1>1 DEF AnnouncementsTypeOK, HeldRow, EntryRow
<1> QED
  BY <1>3, <1>4, <1>5, <1>6

\* News by the generator it is of.
LEMMA NewsOfTurn ==
  ASSUME NEW x, IsNews(x)
  PROVE  /\ x.turn \in 1 .. 6
         /\ x.turn = 1 => \E l \in held :
              x = NewsRow(1, <<"verified", l.user, l.tag>>, l.user, l.at, l.at)
         /\ x.turn = 2 => \E i \in DOMAIN entries :
              /\ entries[i].arrives /\ entries[i].user \in accounts
              /\ x = NewsRow(2, <<"tokens", i>>, entries[i].user, entries[i].at, entries[i].at)
         /\ x.turn = 3 => \E i \in DOMAIN runs, l \in held :
              /\ l.tag = runs[i].tag /\ RealBan(i)
              /\ x = NewsRow(3, <<"banned", i>>, l.user, runs[i].banned, runs[i].banned)
         /\ x.turn = 4 => \E i \in DOMAIN runs, l \in held :
              /\ l.tag = runs[i].tag /\ RealBan(i) /\ runs[i].lifted # Never
              /\ x = NewsRow(4, <<"lifted", i>>, l.user, runs[i].lifted, runs[i].lifted)
         /\ x.turn = 5 => \E i \in DOMAIN runs, l \in held :
              /\ l.tag = runs[i].tag /\ i \in OpenQualifiedLives
              /\ x = NewsRow(5, <<"counts", i>>, l.user, runs[i].counts, runs[i].known)
         /\ x.turn = 6 => \E i \in DOMAIN runs, l \in held : \E m \in Milestones :
              /\ l.tag = runs[i].tag /\ i \in OpenQualifiedLives
              /\ x = NewsRow(6, <<"lasted", i, m>>, l.user, runs[i].start + m, runs[i].start + m)
<1>1. CASE \E l \in held : x = NewsRow(1, <<"verified", l.user, l.tag>>, l.user, l.at, l.at)
  <2>1. x.turn = 1
    BY <1>1 DEF NewsRow
  <2>2. x.turn \in 1 .. 6 
    BY <2>1
  <2>3. x.turn # 2 /\ x.turn # 3 /\ x.turn # 4 /\ x.turn # 5 /\ x.turn # 6
    BY <2>1
  <2> QED
    BY <1>1, <2>2, <2>3, Zenon
<1>2. CASE \E i \in DOMAIN entries :
             /\ entries[i].arrives /\ entries[i].user \in accounts
             /\ x = NewsRow(2, <<"tokens", i>>, entries[i].user, entries[i].at, entries[i].at)
  <2>1. x.turn = 2
    BY <1>2 DEF NewsRow
  <2> QED
    BY <1>2, <2>1
<1>3. CASE \E i \in DOMAIN runs, l \in held : l.tag = runs[i].tag /\ OfRun(i, l.user, x)
  <2>1. PICK i \in DOMAIN runs, l \in held : l.tag = runs[i].tag /\ OfRun(i, l.user, x)
    BY <1>3
  <2>2. CASE /\ RealBan(i)
             /\ x = NewsRow(3, <<"banned", i>>, l.user, runs[i].banned, runs[i].banned)
    <3>1. x.turn = 3
      BY <2>2 DEF NewsRow
    <3> QED
      BY <2>1, <2>2, <3>1
  <2>3. CASE /\ RealBan(i) /\ runs[i].lifted # Never
             /\ x = NewsRow(4, <<"lifted", i>>, l.user, runs[i].lifted, runs[i].lifted)
    <3>1. x.turn = 4
      BY <2>3 DEF NewsRow
    <3> QED
      BY <2>1, <2>3, <3>1
  <2>4. CASE /\ i \in OpenQualifiedLives
             /\ x = NewsRow(5, <<"counts", i>>, l.user, runs[i].counts, runs[i].known)
    <3>1. x.turn = 5
      BY <2>4 DEF NewsRow
    <3> QED
      BY <2>1, <2>4, <3>1
  <2>5. CASE /\ i \in OpenQualifiedLives
             /\ \E m \in Milestones :
                  x = NewsRow(6, <<"lasted", i, m>>, l.user, runs[i].start + m, runs[i].start + m)
    <3>1. x.turn = 6
      BY <2>5 DEF NewsRow
    <3> QED
      BY <2>1, <2>5, <3>1
  <2> QED
    BY <2>1, <2>2, <2>3, <2>4, <2>5 DEF OfRun
<1> QED
  BY <1>1, <1>2, <1>3 DEF IsNews

\* News has a reader, happened before the tables told of it, and not long before.
Timely ==
  \A x : IsNews(x) => /\ x.turn \in 1 .. 6 /\ x.user \in accounts
                      /\ x.at \in Nat /\ x.known \in Nat
                      /\ x.at <= x.known /\ x.known <= x.at + LineLag

LEMMA NewsTimes == AnnouncementsTypeOK /\ WorldInv => Timely
<1> SUFFICES ASSUME AnnouncementsTypeOK, WorldInv, NEW x, IsNews(x)
             PROVE  /\ x.turn \in 1 .. 6 /\ x.user \in accounts
                    /\ x.at \in Nat /\ x.known \in Nat
                    /\ x.at <= x.known /\ x.known <= x.at + LineLag
  BY DEF Timely
<1>1. x.turn \in 1 .. 6
  BY NewsOfTurn
<1>2. CASE x.turn = 1
  <2>1. PICK l \in held : x = NewsRow(1, <<"verified", l.user, l.tag>>, l.user, l.at, l.at)
    BY <1>2, NewsOfTurn
  <2> QED
    BY <1>1, <2>1, NewsRows, Spans DEF NewsRow, WorldInv
<1>3. CASE x.turn = 2
  <2>1. PICK i \in DOMAIN entries :
          /\ entries[i].user \in accounts
          /\ x = NewsRow(2, <<"tokens", i>>, entries[i].user, entries[i].at, entries[i].at)
    BY <1>3, NewsOfTurn
  <2> QED
    BY <1>1, <2>1, NewsRows, Spans DEF NewsRow
<1>4. CASE x.turn = 3
  <2>1. PICK i \in DOMAIN runs, l \in held :
          RealBan(i) /\ x = NewsRow(3, <<"banned", i>>, l.user, runs[i].banned, runs[i].banned)
    BY <1>4, NewsOfTurn
  <2> QED
    BY <1>1, <2>1, NewsRows, Spans DEF NewsRow, RealBan, WorldInv
<1>5. CASE x.turn = 4
  <2>1. PICK i \in DOMAIN runs, l \in held :
          /\ runs[i].lifted # Never
          /\ x = NewsRow(4, <<"lifted", i>>, l.user, runs[i].lifted, runs[i].lifted)
    BY <1>5, NewsOfTurn
  <2> QED
    BY <1>1, <2>1, NewsRows, Spans DEF NewsRow, WorldInv
<1>6. CASE x.turn = 5
  <2>1. PICK i \in DOMAIN runs, l \in held :
          /\ i \in OpenQualifiedLives
          /\ x = NewsRow(5, <<"counts", i>>, l.user, runs[i].counts, runs[i].known)
    BY <1>6, NewsOfTurn
  <2>2. runs[i].counts # Never
    BY <2>1 DEF OpenQualifiedLives
  <2> QED
    BY <1>1, <2>1, <2>2, NewsRows, Spans DEF NewsRow, WorldInv
<1>7. CASE x.turn = 6
  <2>1. PICK i \in DOMAIN runs, l \in held : \E m \in Milestones :
          x = NewsRow(6, <<"lasted", i, m>>, l.user, runs[i].start + m, runs[i].start + m)
    BY <1>7, NewsOfTurn
  <2>2. PICK m \in Milestones :
          x = NewsRow(6, <<"lasted", i, m>>, l.user, runs[i].start + m, runs[i].start + m)
    BY <2>1
  <2>3. m \in Nat /\ runs[i].start \in Nat
    BY NewsRows, Spans
  <2> QED
    BY <1>1, <2>2, <2>3, Spans DEF NewsRow, WorldInv
<1> QED
  BY <1>1, <1>2, <1>3, <1>4, <1>5, <1>6, <1>7

\* The same of the next state.
LEMMA NewsTimesNext ==
  ASSUME AnnouncementsTypeOK', WorldInv', NEW x, IsNews(x)'
  PROVE  /\ x.user \in accounts' /\ x.at \in Nat /\ x.known \in Nat /\ x.at <= x.known
<1>1. AnnouncementsTypeOK' /\ WorldInv' => Timely'
  BY NewsTimes, PTL
<1> QED
  BY <1>1 DEF Timely

\* What is told of a piece of news is told to the reader it is for.
LEMMA SameReader ==
  ASSUME AnnouncementsTypeOK, WorldInv, NEW x, IsNews(x), NEW n, TellsTrue(n), n.key = x.key
  PROVE  n.user = x.user
<1>1. CASE \E l \in held : x = NewsRow(1, <<"verified", l.user, l.tag>>, l.user, l.at, l.at)
  BY <1>1 DEF NewsRow, TellsTrue
<1>2. CASE \E i \in DOMAIN entries :
             x = NewsRow(2, <<"tokens", i>>, entries[i].user, entries[i].at, entries[i].at)
  BY <1>2 DEF NewsRow, TellsTrue
<1>3. CASE \E i \in DOMAIN runs, l \in held : l.tag = runs[i].tag /\ OfRun(i, l.user, x)
  <2>1. PICK i \in DOMAIN runs, l \in held : l.tag = runs[i].tag /\ OfRun(i, l.user, x)
    BY <1>3
  <2>2. /\ x.user = l.user
        /\ \/ x.key \in {<<"banned", i>>, <<"lifted", i>>, <<"counts", i>>}
           \/ \E m \in Milestones : x.key = <<"lasted", i, m>>
    BY <2>1 DEF OfRun, NewsRow
  <2>3. OwnerIs(i, n.user)
    BY <2>2 DEF TellsTrue
  <2> QED
    BY <2>1, <2>2, <2>3 DEF OwnerIs, WorldInv
<1> QED
  BY <1>1, <1>2, <1>3 DEF IsNews

-----------------------------------------------------------------------------
\* The generators.

\* What a generator drafts is true, for somebody with an account, and once.
Sound(S, turn) ==
  /\ \A n \in S : TellsTrue(n) /\ n.user \in accounts /\ n.key[1] = GeneratorNames[turn]
  /\ \A m, n \in S : m.key = n.key => m = n

\* It drafts all news of its window that the tables told of before.
Full(S, turn, now) ==
  \A x : /\ IsNews(x) /\ x.turn = turn
         /\ WindowStart(now) <= x.at /\ x.known < now
         => \E n \in S : n.key = x.key

LEMMA OfRunsIs ==
  ASSUME NEW kind, NEW S, NEW n
  PROVE  n \in OfRuns(kind, S) <=>
           \E i \in S, l \in held : /\ l.user \in accounts /\ l.tag = runs[i].tag
                                    /\ n = Told(l.user, <<kind, i>>)
  BY DEF OfRuns, ToOwners, OwnerIs, Told

LEMMA VerifiedDrafts ==
  ASSUME AnnouncementsTypeOK, WorldInv, NEW now \in Nat
  PROVE  Sound(GamertagVerified(now), 1) /\ Full(GamertagVerified(now), 1, now)
<1>1. Sound(GamertagVerified(now), 1)
  BY KindNames DEF Sound, GamertagVerified, Told, TellsTrue, WorldInv
<1>2. ASSUME NEW x, IsNews(x), x.turn = 1, WindowStart(now) <= x.at
      PROVE  \E n \in GamertagVerified(now) : n.key = x.key
  <2>1. PICK l \in held : x = NewsRow(1, <<"verified", l.user, l.tag>>, l.user, l.at, l.at)
    BY <1>2, NewsOfTurn
  <2>2. l.at >= WindowStart(now)
    BY <1>2, <2>1, NewsRows, WindowIs DEF NewsRow
  <2>3. Told(l.user, <<"verified", l.user, l.tag>>) \in GamertagVerified(now)
    BY <2>2 DEF GamertagVerified
  <2>4. Told(l.user, <<"verified", l.user, l.tag>>).key = x.key
    BY <2>1 DEF NewsRow, Told
  <2> QED
    BY <2>3, <2>4
<1> QED
  BY <1>1, <1>2 DEF Full

LEMMA TokenDrafts ==
  ASSUME AnnouncementsTypeOK, WorldInv, NEW now \in Nat
  PROVE  Sound(Tokens(now), 2) /\ Full(Tokens(now), 2, now)
<1>1. Sound(Tokens(now), 2)
  BY KindNames DEF Sound, Tokens, Told, TellsTrue
<1>2. ASSUME NEW x, IsNews(x), x.turn = 2, WindowStart(now) <= x.at
      PROVE  \E n \in Tokens(now) : n.key = x.key
  <2>1. PICK i \in DOMAIN entries :
          /\ entries[i].arrives /\ entries[i].user \in accounts
          /\ x = NewsRow(2, <<"tokens", i>>, entries[i].user, entries[i].at, entries[i].at)
    BY <1>2, NewsOfTurn
  <2>2. entries[i].at >= WindowStart(now)
    BY <1>2, <2>1, NewsRows, WindowIs DEF NewsRow
  <2>3. Told(entries[i].user, <<"tokens", i>>) \in Tokens(now)
    BY <2>1, <2>2 DEF Tokens
  <2>4. Told(entries[i].user, <<"tokens", i>>).key = x.key
    BY <2>1 DEF NewsRow, Told
  <2> QED
    BY <2>3, <2>4
<1> QED
  BY <1>1, <1>2 DEF Full

\* A generator that goes by runs.
LEMMA RunDrafts ==
  ASSUME WorldInv, NEW kind, NEW turn, NEW S, S \subseteq DOMAIN runs,
         kind = GeneratorNames[turn],
         \A i \in S, l \in held : l.tag = runs[i].tag => TellsTrue(Told(l.user, <<kind, i>>))
  PROVE  Sound(OfRuns(kind, S), turn)
<1>1. \A p \in OfRuns(kind, S) : \E i \in S, l \in held :
        l.tag = runs[i].tag /\ p = Told(l.user, <<kind, i>>)
  BY ONLY OfRunsIs
<1>2. ASSUME NEW n \in OfRuns(kind, S)
      PROVE  TellsTrue(n) /\ n.user \in accounts /\ n.key[1] = GeneratorNames[turn]
  <2>1. PICK i \in S, l \in held : l.tag = runs[i].tag /\ n = Told(l.user, <<kind, i>>)
    BY <1>1
  <2>2. n.user = l.user /\ n.key = <<kind, i>>
    BY <2>1 DEF Told
  <2>3. TellsTrue(n)
    BY <2>1
  <2>4. l.user \in accounts
    BY DEF WorldInv
  <2> QED
    BY <2>1, <2>2, <2>3, <2>4
<1>3. ASSUME NEW m \in OfRuns(kind, S), NEW n \in OfRuns(kind, S), m.key = n.key
      PROVE  m = n
  <2>1. PICK i \in S, l \in held : l.tag = runs[i].tag /\ m = Told(l.user, <<kind, i>>)
    BY <1>1
  <2>2. PICK j \in S, k \in held : k.tag = runs[j].tag /\ n = Told(k.user, <<kind, j>>)
    BY <1>1
  <2>3. i = j
    BY <1>3, <2>1, <2>2 DEF Told
  <2> QED
    BY <2>1, <2>2, <2>3 DEF WorldInv
<1> QED
  BY <1>2, <1>3 DEF Sound

\* A run whose owner is to be told of it is among those the generator goes by.
LEMMA RunsFull ==
  ASSUME WorldInv, NEW kind, NEW turn, NEW now, NEW S,
         \A x : /\ IsNews(x) /\ x.turn = turn
                /\ WindowStart(now) <= x.at /\ x.known < now
                => \E i \in S, l \in held : l.tag = runs[i].tag /\ x.key = <<kind, i>>
  PROVE  Full(OfRuns(kind, S), turn, now)
<1> SUFFICES ASSUME NEW x, IsNews(x), x.turn = turn, WindowStart(now) <= x.at, x.known < now
             PROVE  \E n \in OfRuns(kind, S) : n.key = x.key
  BY DEF Full
<1>1. PICK i \in S, l \in held : l.tag = runs[i].tag /\ x.key = <<kind, i>>
  OBVIOUS
<1>2. Told(l.user, <<kind, i>>) \in OfRuns(kind, S)
  BY <1>1, OfRunsIs DEF WorldInv
<1> QED
  BY <1>1, <1>2 DEF Told

LEMMA BanDrafts ==
  ASSUME AnnouncementsTypeOK, WorldInv, NEW now \in Nat
  PROVE  /\ Sound(BanApplied(now), 3) /\ Full(BanApplied(now), 3, now)
         /\ Sound(BanLifted(now), 4) /\ Full(BanLifted(now), 4, now)
<1> DEFINE B == {i \in DOMAIN runs : RealBan(i) /\ runs[i].banned >= WindowStart(now)}
           L == {i \in DOMAIN runs : /\ RealBan(i) /\ runs[i].lifted # Never
                                     /\ runs[i].lifted >= WindowStart(now)}
<1>1. /\ \A i \in B : RealBan(i) /\ Since <= runs[i].banned
      /\ \A i \in L : RealBan(i) /\ runs[i].lifted # Never /\ Since <= runs[i].lifted
  <2>1. ASSUME NEW i \in DOMAIN runs, RealBan(i), runs[i].banned >= WindowStart(now)
        PROVE  Since <= runs[i].banned
    <3>1. runs[i].banned \in Nat
      BY <2>1, NewsRows DEF RealBan
    <3> QED
      BY <2>1, <3>1, WindowIs
  <2>2. ASSUME NEW i \in DOMAIN runs, runs[i].lifted # Never,
               runs[i].lifted >= WindowStart(now)
        PROVE  Since <= runs[i].lifted
    <3>1. runs[i].lifted \in Nat
      BY <2>2, NewsRows
    <3> QED
      BY <2>2, <3>1, WindowIs
  <2> QED
    BY <2>1, <2>2
<1>2. Sound(OfRuns("banned", B), 3)
  <2>1. \A i \in B, l \in held : l.tag = runs[i].tag => TellsTrue(Told(l.user, <<"banned", i>>))
    BY <1>1 DEF TellsTrue, Told, OwnerIs
  <2> QED
    BY <2>1, RunDrafts, KindNames
<1>3. Sound(OfRuns("lifted", L), 4)
  <2>1. \A i \in L, l \in held : l.tag = runs[i].tag => TellsTrue(Told(l.user, <<"lifted", i>>))
    BY <1>1 DEF TellsTrue, Told, OwnerIs
  <2> QED
    BY <2>1, RunDrafts, KindNames
<1>4. Full(OfRuns("banned", B), 3, now)
  <2>1. ASSUME NEW x, IsNews(x), x.turn = 3, WindowStart(now) <= x.at
        PROVE  \E i \in B, l \in held : l.tag = runs[i].tag /\ x.key = <<"banned", i>>
    <3>1. PICK i \in DOMAIN runs, l \in held :
            /\ l.tag = runs[i].tag /\ RealBan(i) /\ runs[i].banned # Never
            /\ x = NewsRow(3, <<"banned", i>>, l.user, runs[i].banned, runs[i].banned)
      BY <2>1, NewsOfTurn DEF RealBan
    <3>2. runs[i].banned >= WindowStart(now)
      BY <2>1, <3>1, NewsRows, WindowIs DEF NewsRow
    <3> QED
      BY <3>1, <3>2 DEF NewsRow
  <2> HIDE DEF B
  <2> QED
    BY <2>1, RunsFull
<1>5. Full(OfRuns("lifted", L), 4, now)
  <2>1. ASSUME NEW x, IsNews(x), x.turn = 4, WindowStart(now) <= x.at
        PROVE  \E i \in L, l \in held : l.tag = runs[i].tag /\ x.key = <<"lifted", i>>
    <3>1. PICK i \in DOMAIN runs, l \in held :
            /\ l.tag = runs[i].tag /\ RealBan(i) /\ runs[i].lifted # Never
            /\ x = NewsRow(4, <<"lifted", i>>, l.user, runs[i].lifted, runs[i].lifted)
      BY <2>1, NewsOfTurn DEF RealBan
    <3>2. runs[i].lifted >= WindowStart(now)
      BY <2>1, <3>1, NewsRows, WindowIs DEF NewsRow
    <3> QED
      BY <3>1, <3>2 DEF NewsRow
  <2> HIDE DEF L
  <2> QED
    BY <2>1, RunsFull
<1> QED
  BY <1>2, <1>3, <1>4, <1>5 DEF BanApplied, BanLifted

LEMMA CountsDrafts ==
  ASSUME AnnouncementsTypeOK, WorldInv, NEW now \in Nat
  PROVE  Sound(LifeQualified(now), 5) /\ Full(LifeQualified(now), 5, now)
<1> DEFINE C == {i \in OpenQualifiedLives : runs[i].counts >= WindowStart(now)}
<1>1. \A i \in C : i \in DOMAIN runs /\ runs[i].counts # Never /\ Since <= runs[i].counts
  <2>1. ASSUME NEW i \in DOMAIN runs, runs[i].counts # Never,
               runs[i].counts >= WindowStart(now)
        PROVE  Since <= runs[i].counts
    <3>1. runs[i].counts \in Nat
      BY <2>1, NewsRows
    <3> QED
      BY <2>1, <3>1, WindowIs
  <2> QED
    BY <2>1 DEF OpenQualifiedLives
<1>2. Sound(OfRuns("counts", C), 5)
  <2>1. \A i \in C, l \in held : l.tag = runs[i].tag => TellsTrue(Told(l.user, <<"counts", i>>))
    BY <1>1 DEF TellsTrue, Told, OwnerIs
  <2>2. C \in SUBSET DOMAIN runs
    BY <1>1
  <2> HIDE DEF C
  <2> QED
    BY <2>1, <2>2, RunDrafts, KindNames
<1>3. Full(OfRuns("counts", C), 5, now)
  <2>1. ASSUME NEW x, IsNews(x), x.turn = 5, WindowStart(now) <= x.at
        PROVE  \E i \in C, l \in held : l.tag = runs[i].tag /\ x.key = <<"counts", i>>
    <3>1. PICK i \in DOMAIN runs, l \in held :
            /\ l.tag = runs[i].tag /\ i \in OpenQualifiedLives
            /\ x = NewsRow(5, <<"counts", i>>, l.user, runs[i].counts, runs[i].known)
      BY <2>1, NewsOfTurn
    <3>2. runs[i].counts # Never
      BY <3>1 DEF OpenQualifiedLives
    <3>3. runs[i].counts >= WindowStart(now)
      BY <2>1, <3>1, <3>2, NewsRows, WindowIs DEF NewsRow
    <3> QED
      BY <3>1, <3>3 DEF NewsRow
  <2> HIDE DEF C
  <2> QED
    BY <2>1, RunsFull
<1> QED
  BY <1>2, <1>3 DEF LifeQualified

\* A milestone is news of the run under a key of its own.
LEMMA LastedIs ==
  ASSUME NEW now, NEW n
  PROVE  n \in SurvivalMilestone(now) <=>
           \E m \in Milestones, i \in OpenQualifiedLives, l \in held :
             /\ runs[i].start + m <= now /\ runs[i].start + m >= WindowStart(now)
             /\ l.user \in accounts /\ l.tag = runs[i].tag
             /\ n = Told(l.user, <<"lasted", i, m>>)
<1> DEFINE R(m) == {i \in OpenQualifiedLives : /\ runs[i].start + m <= now
                                               /\ runs[i].start + m >= WindowStart(now)}
<1>1. ASSUME NEW a, NEW b, NEW c PROVE Append(<<a, b>>, c) = <<a, b, c>>
  <2>1. <<a, b>> \in Seq({a, b, c}) /\ c \in {a, b, c} /\ <<a, b, c>> \in Seq({a, b, c})
    OBVIOUS
  <2>2. Len(<<a, b>>) = 2 /\ Len(<<a, b, c>>) = 3
    OBVIOUS
  <2>3. /\ Append(<<a, b>>, c) \in Seq({a, b, c}) /\ Len(Append(<<a, b>>, c)) = 3
        /\ \A i \in 1 .. 2 : Append(<<a, b>>, c)[i] = <<a, b>>[i]
        /\ Append(<<a, b>>, c)[3] = c
    BY <2>1, <2>2, AppendProperties
  <2>4. \A i \in 1 .. 3 : Append(<<a, b>>, c)[i] = <<a, b, c>>[i]
    BY <2>3
  <2> QED
    BY <2>1, <2>2, <2>3, <2>4, SeqEqual
<1>2. ASSUME NEW m \in Milestones, NEW u, NEW i
      PROVE  LET p == Told(u, <<"lasted", i>>)
             IN  Told(p.user, Append(p.key, m)) = Told(u, <<"lasted", i, m>>)
  BY <1>1 DEF Told
<1>3. SurvivalMilestone(now) =
        UNION {{Told(p.user, Append(p.key, m)) : p \in OfRuns("lasted", R(m))} : m \in Milestones}
  BY DEF SurvivalMilestone
<1>4. n \in SurvivalMilestone(now) <=>
        \E m \in Milestones : \E p \in OfRuns("lasted", R(m)) : n = Told(p.user, Append(p.key, m))
  BY <1>3
<1>5. ASSUME NEW m \in Milestones
      PROVE  (\E p \in OfRuns("lasted", R(m)) : n = Told(p.user, Append(p.key, m))) <=>
             \E i \in R(m), l \in held : /\ l.user \in accounts /\ l.tag = runs[i].tag
                                         /\ n = Told(l.user, <<"lasted", i, m>>)
  <2>1. \A p : p \in OfRuns("lasted", R(m)) <=>
          \E i \in R(m), l \in held : /\ l.user \in accounts /\ l.tag = runs[i].tag
                                      /\ p = Told(l.user, <<"lasted", i>>)
    BY OfRunsIs
  <2>2. \A i \in R(m), l \in held : l.user \in accounts /\ l.tag = runs[i].tag =>
          Told(l.user, <<"lasted", i>>) \in OfRuns("lasted", R(m))
    BY <2>1
  <2> HIDE DEF R
  <2>3. ASSUME NEW p \in OfRuns("lasted", R(m)), n = Told(p.user, Append(p.key, m))
        PROVE  \E i \in R(m), l \in held : /\ l.user \in accounts /\ l.tag = runs[i].tag
                                           /\ n = Told(l.user, <<"lasted", i, m>>)
    <3>1. PICK i \in R(m), l \in held : /\ l.user \in accounts /\ l.tag = runs[i].tag
                                        /\ p = Told(l.user, <<"lasted", i>>)
      BY <2>1
    <3>2. n = Told(l.user, <<"lasted", i, m>>)
      BY <1>2, <2>3, <3>1
    <3> QED
      BY <3>1, <3>2
  <2>4. ASSUME NEW i \in R(m), NEW l \in held, l.user \in accounts, l.tag = runs[i].tag,
               n = Told(l.user, <<"lasted", i, m>>)
        PROVE  \E p \in OfRuns("lasted", R(m)) : n = Told(p.user, Append(p.key, m))
    BY <1>2, <2>2, <2>4
  <2> QED
    BY <2>3, <2>4
<1> QED
  BY <1>4, <1>5

LEMMA LastedDrafts ==
  ASSUME AnnouncementsTypeOK, WorldInv, NEW now \in Nat
  PROVE  Sound(SurvivalMilestone(now), 6) /\ Full(SurvivalMilestone(now), 6, now)
<1>1. Sound(SurvivalMilestone(now), 6)
  <2>1. ASSUME NEW n \in SurvivalMilestone(now)
        PROVE  TellsTrue(n) /\ n.user \in accounts /\ n.key[1] = GeneratorNames[6]
    BY <2>1, LastedIs, KindNames DEF TellsTrue, Told, OwnerIs, OpenQualifiedLives
  <2>2. ASSUME NEW p \in SurvivalMilestone(now), NEW n \in SurvivalMilestone(now), p.key = n.key
        PROVE  p = n
    BY <2>2, LastedIs DEF Told, WorldInv
  <2> QED
    BY <2>1, <2>2 DEF Sound
<1>2. ASSUME NEW x, IsNews(x), x.turn = 6, WindowStart(now) <= x.at, x.known < now
      PROVE  \E n \in SurvivalMilestone(now) : n.key = x.key
  <2>1. PICK i \in DOMAIN runs, l \in held : \E m \in Milestones :
          /\ l.tag = runs[i].tag /\ i \in OpenQualifiedLives
          /\ x = NewsRow(6, <<"lasted", i, m>>, l.user, runs[i].start + m, runs[i].start + m)
    BY <1>2, NewsOfTurn
  <2>2. PICK m \in Milestones :
          /\ l.tag = runs[i].tag /\ i \in OpenQualifiedLives
          /\ x = NewsRow(6, <<"lasted", i, m>>, l.user, runs[i].start + m, runs[i].start + m)
    BY <2>1
  <2>3. x.at = runs[i].start + m /\ x.known = runs[i].start + m /\ x.key = <<"lasted", i, m>>
    BY <2>2 DEF NewsRow
  <2>4. runs[i].start + m <= now /\ runs[i].start + m >= WindowStart(now)
    <3>1. m \in Nat /\ runs[i].start \in Nat
      BY NewsRows, Spans
    <3> QED
      BY <1>2, <2>3, <3>1, WindowIs
  <2>5. Told(l.user, <<"lasted", i, m>>) \in SurvivalMilestone(now)
    BY <2>2, <2>4, LastedIs DEF WorldInv
  <2> QED
    BY <2>3, <2>5 DEF Told
<1> QED
  BY <1>1, <1>2 DEF Full

LEMMA EachGenerator ==
  ASSUME AnnouncementsTypeOK, WorldInv, NEW turn \in 1 .. 6, NEW now \in Nat
  PROVE  Sound(Drafts(turn, now), turn) /\ Full(Drafts(turn, now), turn, now)
<1>1. CASE turn = 1
  BY <1>1, VerifiedDrafts DEF Drafts
<1>2. CASE turn = 2
  BY <1>2, TokenDrafts DEF Drafts
<1>3. CASE turn = 3
  BY <1>3, BanDrafts DEF Drafts
<1>4. CASE turn = 4
  BY <1>4, BanDrafts DEF Drafts
<1>5. CASE turn = 5
  BY <1>5, CountsDrafts DEF Drafts
<1>6. CASE turn = 6
  BY <1>6, LastedDrafts DEF Drafts
<1> QED
  BY <1>1, <1>2, <1>3, <1>4, <1>5, <1>6



-----------------------------------------------------------------------------
\* What the other workers write.

\* Whose names the news of a run are for, the run being left alone.
LEMMA RunRests ==
  ASSUME NEW i, runs'[i] = runs[i], i \in DOMAIN runs, i \in DOMAIN runs', UNCHANGED retired
  PROVE  /\ RealBan(i)' <=> RealBan(i)
         /\ i \in OpenQualifiedLives' <=> i \in OpenQualifiedLives
         /\ \A u, x : OfRun(i, u, x)' <=> OfRun(i, u, x)
<1>1. (RealBan(i)' <=> RealBan(i)) /\ (i \in OpenQualifiedLives' <=> i \in OpenQualifiedLives)
  BY DEF RealBan, OpenQualifiedLives
<1> QED
  BY <1>1 DEF OfRun

LEMMA NewsRests ==
  ASSUME UNCHANGED worldVars
  PROVE  /\ \A x : IsNews(x)' <=> IsNews(x)
         /\ \A n : TellsTrue(n)' <=> TellsTrue(n)
<1>1. UNCHANGED <<accounts, held, entries, runs, retired>>
  BY DEF worldVars
<1>2. \A i \in DOMAIN runs : \A u, x : OfRun(i, u, x)' <=> OfRun(i, u, x)
  BY <1>1, RunRests
<1>3. \A x : IsNews(x)' <=> IsNews(x)
  BY <1>1, <1>2 DEF IsNews
<1>4. \A n : TellsTrue(n)' <=> TellsTrue(n)
  BY <1>1 DEF TellsTrue, OwnerIs, RealBan
<1> QED
  BY <1>3, <1>4

\* News that the tables only now tell of is no news of the tick under way, and
\* none from before the last one; and what was told stays true.
LEMMA WorldMoves ==
  ASSUME NewsInv, AnnouncementsTypeOK', WorldInv', UNCHANGED <<draft, covered, outage>>,
         accounts' \subseteq accounts, inboxes' = {n \in inboxes : n.user \in accounts'},
         \A x : IsNews(x)' => IsNews(x) \/ hour <= x.known,
         \A n : TellsTrue(n) /\ n.user \in accounts' => TellsTrue(n)'
  PROVE  NewsInv'
<1> USE DEF NewsInv
<1>1. hour \in Nat /\ draft.at \in Nat /\ covered \in Nat /\ Since \in Nat
  BY NewsRows, Spans
<1>2. ToldTrue'
  BY DEF ToldTrue
<1>3. TickInv'
  <2> SUFFICES ASSUME draft.turn # 0, draft.whole, NEW x, IsNews(x)', x.turn < draft.turn,
                      WindowStart(draft.at) <= x.at, x.known < draft.at
               PROVE  Drafted(x.key)
    BY DEF TickInv, Drafted, WindowStart
  <2>1. draft.at = hour /\ x.known \in Nat
    BY NewsTimesNext DEF WorldInv
  <2>2. IsNews(x)
    BY <1>1, <2>1
  <2> QED
    BY <2>2 DEF TickInv
<1>4. Caught'
  <2> SUFFICES ASSUME ~outage, NEW x, IsNews(x)', Since <= x.at, x.known < covered
               PROVE  \E n \in inboxes' : n.key = x.key
    BY DEF Caught, Was
  <2>1. x.user \in accounts' /\ x.at \in Nat /\ x.known \in Nat /\ x.at <= x.known
    BY NewsTimesNext
  <2>2. covered = Since \/ covered <= hour
    BY DEF WorldInv
  <2>3. ~(hour <= x.known)
    BY <1>1, <2>1, <2>2
  <2>4. IsNews(x)
    BY <2>3
  <2>5. PICK n \in inboxes : n.key = x.key
    BY <2>4 DEF Caught, Was
  <2>6. n.user = x.user
    BY <2>4, <2>5, SameReader DEF ToldTrue
  <2> QED
    BY <2>1, <2>5, <2>6
<1> QED
  BY <1>2, <1>3, <1>4

LEMMA InboxesStay ==
  ASSUME ToldTrue, UNCHANGED <<inboxes, accounts>>
  PROVE  inboxes' = {n \in inboxes : n.user \in accounts'}
  BY DEF ToldTrue

LEMMA TimePasses ==
  ASSUME NewsInv, Passes
  PROVE  NewsInv'
<1> USE DEF NewsInv
<1>1. /\ draft.turn = 0 /\ hour < MaxHour /\ hour' = hour + 1
      /\ UNCHANGED <<accounts, held, entries, runs, retired, inboxes, draft,
                     generatorFaults, covered, outage>>
  BY DEF Passes, notifierVars
<1>2. hour \in Nat /\ covered \in Nat
  BY NewsRows
<1>3. AnnouncementsTypeOK'
  <2>1. hour' \in Hours
    BY <1>1, <1>2, Spans
  <2> QED
    BY <1>1, <2>1 DEF AnnouncementsTypeOK
<1>4. WorldInv'
  BY <1>1, <1>2 DEF WorldInv
<1>5. \A i \in DOMAIN runs : \A u, x : OfRun(i, u, x)' <=> OfRun(i, u, x)
  BY <1>1, RunRests
<1>6. \A x : IsNews(x)' => IsNews(x)
  BY <1>1, <1>5 DEF IsNews
<1>7. \A n : TellsTrue(n) => TellsTrue(n)'
  BY <1>1 DEF TellsTrue, OwnerIs, RealBan
<1>8. inboxes' = {n \in inboxes : n.user \in accounts'}
  BY <1>1, InboxesStay
<1> QED
  BY <1>1, <1>3, <1>4, <1>6, <1>7, <1>8, WorldMoves

LEMMA ServerRetires ==
  ASSUME NewsInv, Retires
  PROVE  NewsInv'
<1> USE DEF NewsInv
<1>1. /\ retired' = TRUE
      /\ UNCHANGED <<hour, accounts, held, entries, runs, inboxes, draft,
                     generatorFaults, covered, outage>>
  BY DEF Retires, notifierVars
<1>2. AnnouncementsTypeOK'
  BY <1>1 DEF AnnouncementsTypeOK
<1>3. WorldInv'
  BY <1>1 DEF WorldInv
<1>4. \A i \in DOMAIN runs : \A u, x : OfRun(i, u, x)' => OfRun(i, u, x)
  <2>1. \A i \in DOMAIN runs : (RealBan(i)' <=> RealBan(i)) /\ i \notin OpenQualifiedLives'
    BY <1>1 DEF RealBan, OpenQualifiedLives
  <2> QED
    BY <1>1, <2>1 DEF OfRun
<1>5. \A x : IsNews(x)' => IsNews(x)
  BY <1>1, <1>4 DEF IsNews
<1>6. \A n : TellsTrue(n) => TellsTrue(n)'
  BY <1>1 DEF TellsTrue, OwnerIs, RealBan
<1>7. inboxes' = {n \in inboxes : n.user \in accounts'}
  BY <1>1, InboxesStay
<1> QED
  BY <1>1, <1>2, <1>3, <1>5, <1>6, <1>7, WorldMoves

LEMMA TagVerified ==
  ASSUME NewsInv, NEW u \in Readers, NEW t \in Callsigns, Verifies(u, t)
  PROVE  NewsInv'
<1> USE DEF NewsInv
<1> DEFINE row == [user |-> u, tag |-> t, at |-> hour]
<1>1. /\ u \in accounts /\ (\A l \in held : l.user # u /\ l.tag # t)
      /\ held' = held \cup {row}
      /\ UNCHANGED <<hour, accounts, entries, runs, retired, inboxes, draft,
                     generatorFaults, covered, outage>>
  BY DEF Verifies, notifierVars
<1>2. AnnouncementsTypeOK'
  <2>1. row \in HeldRow
    BY DEF HeldRow, AnnouncementsTypeOK
  <2> QED
    BY <1>1, <2>1 DEF AnnouncementsTypeOK
<1>3. hour \in Nat
  BY NewsRows
<1>4. WorldInv'
  BY <1>1 DEF WorldInv
<1>5. \A i \in DOMAIN runs : \A v, x : OfRun(i, v, x)' <=> OfRun(i, v, x)
  BY <1>1, RunRests
<1>6. ASSUME NEW x, IsNews(x)'
      PROVE  IsNews(x) \/ hour <= x.known
  <2>1. x.at \in Nat /\ x.known \in Nat /\ x.at <= x.known
    BY <1>2, <1>4, <1>6, NewsTimesNext
  <2>2. CASE x = NewsRow(1, <<"verified", u, t>>, u, hour, hour)
    BY <1>3, <2>2 DEF NewsRow
  <2>3. CASE hour <= x.at
    BY <1>3, <2>1, <2>3
  <2>4. CASE ~(hour <= x.at) /\ x # NewsRow(1, <<"verified", u, t>>, u, hour, hour)
    BY <1>1, <1>5, <1>6, <2>4 DEF IsNews
  <2> QED
    BY <2>2, <2>3, <2>4
<1>7. \A n : TellsTrue(n) => TellsTrue(n)'
  BY <1>1 DEF TellsTrue, OwnerIs, RealBan
<1>8. inboxes' = {n \in inboxes : n.user \in accounts'}
  BY <1>1, InboxesStay
<1> QED
  BY <1>1, <1>2, <1>4, <1>6, <1>7, <1>8, WorldMoves

LEMMA TokensArrive ==
  ASSUME NewsInv, NEW u \in Readers, NEW arrives \in BOOLEAN, Enters(u, arrives)
  PROVE  NewsInv'
<1> USE DEF NewsInv
<1> DEFINE row == [user |-> u, arrives |-> arrives, at |-> hour]
           last == Len(entries) + 1
<1>1. /\ entries' = Append(entries, row)
      /\ UNCHANGED <<hour, accounts, held, runs, retired, inboxes, draft,
                     generatorFaults, covered, outage>>
  BY DEF Enters, notifierVars
<1>2. hour \in Nat /\ hour \in Hours /\ entries \in Seq(EntryRow)
  BY NewsRows DEF AnnouncementsTypeOK
<1>3. row \in EntryRow
  BY <1>2 DEF EntryRow
<1>4. /\ entries' \in Seq(EntryRow) /\ DOMAIN entries' = DOMAIN entries \cup {last}
      /\ entries'[last] = row /\ \A i \in DOMAIN entries : entries'[i] = entries[i]
  BY <1>1, <1>2, <1>3, NewsRows, AppendProperties, LenProperties
<1>5. AnnouncementsTypeOK'
  BY <1>1, <1>4 DEF AnnouncementsTypeOK
<1>6. WorldInv'
  BY <1>1 DEF WorldInv
<1>7. \A i \in DOMAIN runs : \A v, x : OfRun(i, v, x)' <=> OfRun(i, v, x)
  BY <1>1, RunRests
<1>8. ASSUME NEW x, IsNews(x)'
      PROVE  IsNews(x) \/ hour <= x.known
  <2>1. CASE x = NewsRow(2, <<"tokens", last>>, u, hour, hour)
    BY <1>2, <2>1 DEF NewsRow
  <2>2. CASE x # NewsRow(2, <<"tokens", last>>, u, hour, hour)
    <3>1. entries'[last].user = u /\ entries'[last].at = hour
      BY <1>4
    <3> HIDE DEF last, row
    <3> DEFINE ofEntry == \E i \in DOMAIN entries' :
                 /\ entries'[i].arrives /\ entries'[i].user \in accounts
                 /\ x = NewsRow(2, <<"tokens", i>>, entries'[i].user, entries'[i].at, entries'[i].at)
    <3>2. CASE ofEntry
      <4>1. PICK i \in DOMAIN entries' :
              /\ entries'[i].arrives /\ entries'[i].user \in accounts
              /\ x = NewsRow(2, <<"tokens", i>>, entries'[i].user, entries'[i].at, entries'[i].at)
        BY <3>2
      <4>2. i # last
        BY <2>2, <3>1, <4>1
      <4>3. i \in DOMAIN entries /\ entries'[i] = entries[i]
        BY <1>4, <4>2
      <4> QED
        BY <4>1, <4>3 DEF IsNews
    <3>3. CASE ~ofEntry
      BY <1>1, <1>7, <1>8, <3>3 DEF IsNews
    <3> QED
      BY <3>2, <3>3
  <2> QED
    BY <2>1, <2>2
<1>9. \A n : TellsTrue(n) => TellsTrue(n)'
  <2> HIDE DEF last
  <2> QED
    BY <1>1, <1>4 DEF TellsTrue, OwnerIs, RealBan
<1>10. inboxes' = {n \in inboxes : n.user \in accounts'}
  BY <1>1, InboxesStay
<1> QED
  BY <1>1, <1>5, <1>6, <1>8, <1>9, <1>10, WorldMoves

LEMMA AccountDeleted ==
  ASSUME NewsInv, NEW u \in Readers, IsDeleted(u)
  PROVE  NewsInv'
<1> USE DEF NewsInv
<1>1. /\ accounts' = accounts \ {u} /\ held' = {l \in held : l.user # u}
      /\ inboxes' = {n \in inboxes : n.user # u}
      /\ UNCHANGED <<hour, entries, runs, retired, draft, generatorFaults, covered, outage>>
  BY DEF IsDeleted
<1>2. AnnouncementsTypeOK'
  BY <1>1 DEF AnnouncementsTypeOK
<1>3. WorldInv'
  BY <1>1 DEF WorldInv
<1>4. \A i \in DOMAIN runs : \A v, x : OfRun(i, v, x)' <=> OfRun(i, v, x)
  BY <1>1, RunRests
<1>5. \A x : IsNews(x)' => IsNews(x)
  BY <1>1, <1>4 DEF IsNews
<1>6. \A n : TellsTrue(n) /\ n.user \in accounts' => TellsTrue(n)'
  BY <1>1 DEF TellsTrue, OwnerIs, RealBan
<1>7. inboxes' = {n \in inboxes : n.user \in accounts'}
  BY <1>1 DEF ToldTrue
<1> QED
  BY <1>1, <1>2, <1>3, <1>5, <1>6, <1>7, WorldMoves

-----------------------------------------------------------------------------
\* The rows of lives.

Sane(row) ==
  /\ row.lifted # Never => row.banned # Never
  /\ row.banned # Never => row.over /\ row.counts # Never
  /\ row.counts # Never =>
       row.known # Never /\ row.counts <= row.known /\ row.known <= row.counts + LineLag

\* What a row says stays; what it says besides, it says as of now.
Grown(old, row) ==
  /\ row.tag = old.tag /\ row.start = old.start /\ (old.over => row.over)
  /\ old.counts # Never => row.counts = old.counts /\ row.known = old.known
  /\ old.counts = Never /\ row.counts # Never => row.known = hour
  /\ old.banned # Never => row.banned = old.banned /\ row.dry = old.dry
  /\ old.banned = Never => row.banned \in {Never, hour}
  /\ old.lifted # Never => row.lifted = old.lifted
  /\ old.lifted = Never => row.lifted \in {Never, hour}

LEMMA RowsAreSane ==
  ASSUME NewsInv, NEW i \in DOMAIN runs
  PROVE  Sane(runs[i])
  BY DEF NewsInv, AnnouncementsTypeOK, WorldInv, Sane

LEMMA RunNews ==
  ASSUME NewsInv, NEW i \in DOMAIN runs, NEW row, Sane(row), Grown(runs[i], row),
         DOMAIN runs' = DOMAIN runs, runs'[i] = row, UNCHANGED retired,
         NEW u, NEW x, OfRun(i, u, x)', x.known \in Nat, x.at <= x.known
  PROVE  OfRun(i, u, x) \/ hour <= x.known
<1> USE DEF NewsInv
<1>1. hour \in Nat /\ Sane(runs[i])
  BY NewsRows, RowsAreSane
<1>2. CASE /\ RealBan(i)'
           /\ x = NewsRow(3, <<"banned", i>>, u, row.banned, row.banned)
  <2>1. CASE runs[i].banned # Never
    BY <1>2, <2>1 DEF OfRun, RealBan, Grown
  <2>2. CASE runs[i].banned = Never
    BY <1>1, <1>2, <2>2 DEF RealBan, Grown, NewsRow
  <2> QED
    BY <2>1, <2>2
<1>3. CASE /\ RealBan(i)' /\ row.lifted # Never
           /\ x = NewsRow(4, <<"lifted", i>>, u, row.lifted, row.lifted)
  <2>1. CASE runs[i].lifted # Never
    BY <1>1, <1>3, <2>1 DEF OfRun, RealBan, Grown, Sane
  <2>2. CASE runs[i].lifted = Never
    BY <1>1, <1>3, <2>2 DEF Grown, NewsRow
  <2> QED
    BY <2>1, <2>2
<1>4. CASE /\ i \in OpenQualifiedLives'
           /\ x = NewsRow(5, <<"counts", i>>, u, row.counts, row.known)
  <2>1. CASE runs[i].counts # Never
    BY <1>4, <2>1 DEF OfRun, OpenQualifiedLives, Grown
  <2>2. CASE runs[i].counts = Never
    BY <1>1, <1>4, <2>2 DEF OpenQualifiedLives, Grown, NewsRow
  <2> QED
    BY <2>1, <2>2
<1>5. CASE /\ i \in OpenQualifiedLives'
           /\ \E m \in Milestones :
                /\ row.known <= row.start + m
                /\ x = NewsRow(6, <<"lasted", i, m>>, u, row.start + m, row.start + m)
  <2>1. PICK m \in Milestones :
          /\ row.known <= row.start + m
          /\ x = NewsRow(6, <<"lasted", i, m>>, u, row.start + m, row.start + m)
    BY <1>5
  <2>2. row.counts # Never /\ ~row.over
    BY <1>5 DEF OpenQualifiedLives
  <2>3. CASE runs[i].counts # Never
    <3>1. i \in OpenQualifiedLives
      BY <1>5, <2>2, <2>3 DEF OpenQualifiedLives, Grown
    <3>2. row.known = runs[i].known /\ row.start = runs[i].start
      BY <2>3 DEF Grown
    <3> QED
      BY <2>1, <3>1, <3>2 DEF OfRun
  <2>4. CASE runs[i].counts = Never
    <3>1. row.known = hour
      BY <2>2, <2>4 DEF Grown
    <3>2. x.known = row.start + m
      BY <2>1 DEF NewsRow
    <3> QED
      BY <2>1, <3>1, <3>2
  <2> QED
    BY <2>3, <2>4
<1> QED
  BY <1>2, <1>3, <1>4, <1>5 DEF OfRun

LEMMA RunMoves ==
  ASSUME NewsInv, NEW i \in DOMAIN runs, NEW row \in RunRow, Sane(row), Grown(runs[i], row),
         RunChanges(i, row)
  PROVE  NewsInv'
<1> USE DEF NewsInv
<1>1. /\ runs' = [runs EXCEPT ![i] = row]
      /\ UNCHANGED <<hour, accounts, held, entries, retired, inboxes, draft,
                     generatorFaults, covered, outage>>
  BY DEF RunChanges, notifierVars
<1>2. /\ runs' \in Seq(RunRow) /\ DOMAIN runs' = DOMAIN runs /\ runs'[i] = row
      /\ \A j \in DOMAIN runs : j # i => runs'[j] = runs[j]
  BY <1>1, NewsRows, ExceptSeq DEF AnnouncementsTypeOK
<1>3. \A j \in DOMAIN runs : Sane(runs'[j])
  BY <1>2, RowsAreSane
<1>4. AnnouncementsTypeOK'
  BY <1>1, <1>2, <1>3 DEF AnnouncementsTypeOK, Sane
<1>5. WorldInv'
  BY <1>1, <1>2, <1>3 DEF WorldInv, Sane
<1>6. ASSUME NEW x, IsNews(x)'
      PROVE  IsNews(x) \/ hour <= x.known
  <2>1. x.known \in Nat /\ x.at <= x.known
    BY <1>4, <1>5, <1>6, NewsTimesNext
  <2>2. ASSUME NEW u, OfRun(i, u, x)'
        PROVE  OfRun(i, u, x) \/ hour <= x.known
    BY <1>1, <1>2, <2>1, <2>2, RunNews
  <2>3. \A j \in DOMAIN runs : j # i => \A u : OfRun(j, u, x)' <=> OfRun(j, u, x)
    BY <1>1, <1>2, RunRests
  <2>4. \A j \in DOMAIN runs : runs'[j].tag = runs[j].tag
    BY <1>2 DEF Grown
  <2> QED
    BY <1>1, <1>2, <1>6, <2>2, <2>3, <2>4 DEF IsNews
<1>7. ASSUME NEW n, TellsTrue(n) PROVE TellsTrue(n)'
  <2>1. \A j \in DOMAIN runs : /\ runs'[j].tag = runs[j].tag
                               /\ runs[j].counts # Never => runs'[j].counts = runs[j].counts
                               /\ runs[j].lifted # Never => runs'[j].lifted = runs[j].lifted
                               /\ runs[j].banned # Never => /\ runs'[j].banned = runs[j].banned
                                                            /\ runs'[j].dry = runs[j].dry
    BY <1>2 DEF Grown
  <2> QED
    BY <1>1, <1>2, <1>7, <2>1 DEF TellsTrue, OwnerIs, RealBan
<1>8. inboxes' = {n \in inboxes : n.user \in accounts'}
  BY <1>1, InboxesStay
<1> QED
  BY <1>1, <1>4, <1>5, <1>6, <1>7, <1>8, WorldMoves

LEMMA RunStarts ==
  ASSUME NewsInv, NEW t \in Callsigns, Starts(t)
  PROVE  NewsInv'
<1> USE DEF NewsInv
<1> DEFINE row == [tag |-> t, start |-> hour, counts |-> Never, known |-> Never, over |-> FALSE,
                   banned |-> Never, dry |-> FALSE, lifted |-> Never]
<1>1. /\ runs' = Append(runs, row)
      /\ UNCHANGED <<hour, accounts, held, entries, retired, inboxes, draft,
                     generatorFaults, covered, outage>>
  BY DEF Starts, notifierVars
<1>2. hour \in Hours /\ runs \in Seq(RunRow)
  BY DEF AnnouncementsTypeOK
<1>3. row \in RunRow
  BY <1>2 DEF RunRow
<1>4. PICK last : last = Len(runs) + 1
  OBVIOUS
<1>5. /\ runs' \in Seq(RunRow) /\ DOMAIN runs' = DOMAIN runs \cup {last} /\ last \notin DOMAIN runs
      /\ runs'[last] = row /\ \A i \in DOMAIN runs : runs'[i] = runs[i]
  BY <1>1, <1>2, <1>3, <1>4, NewsRows, AppendProperties, LenProperties
<1>6. runs'[last].counts = Never /\ runs'[last].banned = Never /\ runs'[last].lifted = Never
  BY <1>5
<1> HIDE DEF row
<1>7. AnnouncementsTypeOK'
  BY <1>1, <1>5, <1>6 DEF AnnouncementsTypeOK
<1>8. WorldInv'
  BY <1>1, <1>5, <1>6 DEF WorldInv
<1>9. \A i \in DOMAIN runs : \A v, x : OfRun(i, v, x)' <=> OfRun(i, v, x)
  BY <1>1, <1>5, RunRests
<1>10. \A v, x : ~OfRun(last, v, x)'
  <2>1. ~RealBan(last)' /\ last \notin OpenQualifiedLives'
    BY <1>6 DEF RealBan, OpenQualifiedLives
  <2> QED
    BY <2>1 DEF OfRun
<1>11. ASSUME NEW x, IsNews(x)' PROVE IsNews(x)
  <2> DEFINE ofRun == \E i \in DOMAIN runs', l \in held :
               l.tag = runs'[i].tag /\ OfRun(i, l.user, x)' /\ l.at <= x.at
  <2>1. CASE ofRun
    <3>1. PICK i \in DOMAIN runs', l \in held :
            l.tag = runs'[i].tag /\ OfRun(i, l.user, x)' /\ l.at <= x.at
      BY <2>1
    <3>2. i \in DOMAIN runs /\ runs'[i] = runs[i]
      BY <1>5, <1>10, <3>1
    <3>3. OfRun(i, l.user, x)
      BY <1>9, <3>1, <3>2
    <3> QED
      BY <3>1, <3>2, <3>3 DEF IsNews
  <2>2. CASE ~ofRun
    BY <1>1, <1>11, <2>2 DEF IsNews
  <2> QED
    BY <2>1, <2>2
<1>12. \A n : TellsTrue(n) => TellsTrue(n)'
  BY <1>1, <1>5 DEF TellsTrue, OwnerIs, RealBan
<1>13. inboxes' = {n \in inboxes : n.user \in accounts'}
  BY <1>1, InboxesStay
<1> QED
  BY <1>1, <1>7, <1>8, <1>11, <1>12, <1>13, WorldMoves

LEMMA RunGrows ==
  ASSUME NewsInv, NEW i \in DOMAIN runs,
         \/ \E at \in Hours : Counts(i, at)
         \/ Ends(i) \/ Lifted(i)
         \/ \E dry \in BOOLEAN : Banned(i, dry)
  PROVE  NewsInv'
<1> USE DEF NewsInv
<1>1. runs[i] \in RunRow /\ Sane(runs[i]) /\ hour \in Hours /\ hour \in Nat
  BY NewsRows, RowsAreSane DEF AnnouncementsTypeOK
<1>2. ASSUME NEW at \in Hours, Counts(i, at) PROVE NewsInv'
  <2> DEFINE row == [runs[i] EXCEPT !.counts = at, !.known = hour]
  <2>1. runs[i].counts = Never /\ at <= hour /\ hour - at <= LineLag /\ RunChanges(i, row)
    BY <1>2 DEF Counts
  <2>2. at \in Nat /\ at # Never /\ hour # Never /\ LineLag \in Nat
    BY <1>1, Spans
  <2>3. /\ row \in RunRow /\ row.counts = at /\ row.known = hour /\ row.tag = runs[i].tag
        /\ row.start = runs[i].start /\ row.over = runs[i].over /\ row.banned = runs[i].banned
        /\ row.dry = runs[i].dry /\ row.lifted = runs[i].lifted
    BY <1>1 DEF RunRow
  <2> HIDE DEF row
  <2>4. Sane(row)
    BY <1>1, <2>1, <2>2, <2>3 DEF Sane
  <2>5. Grown(runs[i], row)
    BY <1>1, <2>1, <2>3 DEF Grown, Sane
  <2> QED
    BY <2>1, <2>3, <2>4, <2>5, RunMoves
<1>3. ASSUME Ends(i) PROVE NewsInv'
  <2> DEFINE row == [runs[i] EXCEPT !.over = TRUE]
  <2>1. RunChanges(i, row)
    BY <1>3 DEF Ends
  <2>2. /\ row \in RunRow /\ row.counts = runs[i].counts /\ row.known = runs[i].known
        /\ row.tag = runs[i].tag /\ row.start = runs[i].start /\ row.over = TRUE
        /\ row.banned = runs[i].banned /\ row.dry = runs[i].dry /\ row.lifted = runs[i].lifted
    BY <1>1 DEF RunRow
  <2> HIDE DEF row
  <2>3. Sane(row) /\ Grown(runs[i], row)
    BY <1>1, <2>2 DEF Sane, Grown
  <2> QED
    BY <2>1, <2>2, <2>3, RunMoves
<1>4. ASSUME Lifted(i) PROVE NewsInv'
  <2> DEFINE row == [runs[i] EXCEPT !.lifted = hour]
  <2>1. runs[i].banned # Never /\ runs[i].lifted = Never /\ RunChanges(i, row)
    BY <1>4 DEF Lifted
  <2>2. /\ row \in RunRow /\ row.counts = runs[i].counts /\ row.known = runs[i].known
        /\ row.tag = runs[i].tag /\ row.start = runs[i].start /\ row.over = runs[i].over
        /\ row.banned = runs[i].banned /\ row.dry = runs[i].dry /\ row.lifted = hour
    BY <1>1 DEF RunRow
  <2> HIDE DEF row
  <2>3. Sane(row) /\ Grown(runs[i], row)
    BY <1>1, <2>1, <2>2 DEF Sane, Grown
  <2> QED
    BY <2>1, <2>2, <2>3, RunMoves
<1>5. ASSUME NEW dry \in BOOLEAN, Banned(i, dry) PROVE NewsInv'
  <2> DEFINE row == [runs[i] EXCEPT !.banned = hour, !.dry = dry]
  <2>1. /\ runs[i].over /\ runs[i].counts # Never /\ runs[i].banned = Never
        /\ RunChanges(i, row)
    BY <1>5 DEF Banned
  <2>2. /\ row \in RunRow /\ row.counts = runs[i].counts /\ row.known = runs[i].known
        /\ row.tag = runs[i].tag /\ row.start = runs[i].start /\ row.over = runs[i].over
        /\ row.banned = hour /\ row.lifted = runs[i].lifted
    BY <1>1 DEF RunRow
  <2> HIDE DEF row
  <2>3. Sane(row) /\ Grown(runs[i], row)
    BY <1>1, <2>1, <2>2 DEF Sane, Grown
  <2> QED
    BY <2>1, <2>2, <2>3, RunMoves
<1> QED
  BY <1>2, <1>3, <1>4, <1>5

-----------------------------------------------------------------------------
\* The notifier.

\* A step of the notifier that changes neither inboxes nor the record of its ticks.
LEMMA TickMoves ==
  ASSUME NewsInv, UNCHANGED worldVars, UNCHANGED <<inboxes, covered, outage>>,
         AnnouncementsTypeOK', TickInv', draft'.turn # 0 => draft'.at = hour,
         \A n \in draft'.drafts :
           /\ n.user \in accounts => TellsTrue(n)
           /\ \E k \in 1 .. Done - 1 : k < draft'.turn /\ n.key[1] = GeneratorNames[k],
         \A m, n \in draft'.drafts : m.key = n.key => m = n
  PROVE  NewsInv'
<1> USE DEF NewsInv
<1>1. UNCHANGED <<hour, accounts, held, entries, runs, retired>>
  BY DEF worldVars
<1>2. /\ \A x : IsNews(x)' <=> IsNews(x)
      /\ \A n : TellsTrue(n)' <=> TellsTrue(n)
  BY NewsRests
<1>3. WorldInv'
  BY <1>1 DEF WorldInv
<1>4. ToldTrue'
  BY <1>1, <1>2 DEF ToldTrue
<1>5. Caught'
  BY <1>2 DEF Caught, Was
<1> QED
  BY <1>3, <1>4, <1>5

LEMMA TickBegins ==
  ASSUME NewsInv, BeginGenerating
  PROVE  NewsInv'
<1> USE DEF NewsInv
<1>1. /\ UNCHANGED worldVars /\ UNCHANGED <<inboxes, generatorFaults, covered, outage>>
      /\ draft' = [at |-> hour, turn |-> 1, drafts |-> {}, whole |-> TRUE]
  BY DEF BeginGenerating, NoTick
<1>2. draft'.at = hour /\ draft'.turn = 1 /\ draft'.drafts = {} /\ draft'.whole = TRUE
  BY <1>1
<1>3. AnnouncementsTypeOK'
  <2>1. 1 \in 0 .. Done
    BY KindNames
  <2>2. UNCHANGED <<hour, accounts, held, entries, runs, retired>>
    BY <1>1 DEF worldVars
  <2> QED
    BY <1>1, <1>2, <2>1, <2>2 DEF AnnouncementsTypeOK
<1>4. TickInv'
  <2>1. \A x : IsNews(x)' => ~(x.turn < 1)
    BY <1>1, NewsRests, NewsTimes DEF Timely
  <2> QED
    BY <1>2, <2>1 DEF TickInv
<1> QED
  BY <1>1, <1>2, <1>3, <1>4, TickMoves

LEMMA GeneratorSucceeds ==
  ASSUME NewsInv, GeneratorRuns
  PROVE  NewsInv'
<1> USE DEF NewsInv
<1> DEFINE new == Drafts(draft.turn, draft.at)
<1>1. /\ draft.turn \in 1 .. 6 /\ UNCHANGED worldVars
      /\ UNCHANGED <<inboxes, generatorFaults, covered, outage>>
      /\ draft' = [draft EXCEPT !.turn = @ + 1, !.drafts = @ \cup new]
  BY KindNames DEF GeneratorRuns
<1>2. draft.at \in Nat /\ draft.at = hour
  BY <1>1, NewsRows DEF WorldInv
<1>3. Sound(new, draft.turn) /\ Full(new, draft.turn, draft.at)
  BY <1>1, <1>2, EachGenerator
<1> HIDE DEF new
<1>4. UNCHANGED <<hour, accounts, held, entries, runs, retired>>
  BY <1>1 DEF worldVars
<1>5. /\ draft'.turn = draft.turn + 1 /\ draft'.drafts = draft.drafts \cup new
      /\ draft'.at = draft.at /\ draft'.whole = draft.whole
  BY <1>1 DEF AnnouncementsTypeOK, NoTick
<1>6. \A n \in new : /\ TellsTrue(n) /\ n.user \in accounts
                     /\ n.key[1] = GeneratorNames[draft.turn]
  BY <1>3 DEF Sound
<1>7. AnnouncementsTypeOK'
  <2>1. draft'.turn \in 0 .. Done
    BY <1>1, <1>5, KindNames
  <2>2. \A k \in 1 .. 6 : GeneratorNames[k] \in Range(GeneratorNames)
    BY KindNames
  <2>3. \A n \in new : n.user \in Readers /\ n.key[1] \in Range(GeneratorNames)
    BY <1>1, <1>6, <2>2 DEF AnnouncementsTypeOK
  <2> QED
    BY <1>1, <1>4, <1>5, <2>1, <2>3 DEF AnnouncementsTypeOK
<1>8. TickInv'
  <2> SUFFICES ASSUME draft.whole, NEW x, IsNews(x)', x.turn < draft.turn + 1,
                      WindowStart(draft.at) <= x.at, x.known < draft.at
               PROVE  \E n \in draft.drafts \cup new : n.key = x.key
    BY <1>5 DEF TickInv, Drafted, WindowStart
  <2>1. IsNews(x) /\ x.turn \in 1 .. 6
    BY <1>1, NewsRests, NewsTimes DEF Timely
  <2>2. CASE x.turn = draft.turn
    BY <1>3, <2>1, <2>2 DEF Full
  <2>3. CASE x.turn < draft.turn
    BY <1>1, <2>1, <2>3 DEF TickInv, Drafted
  <2> QED
    BY <1>1, <2>1, <2>2, <2>3
<1>9. ASSUME NEW n \in draft'.drafts
      PROVE  /\ n.user \in accounts => TellsTrue(n)
             /\ \E k \in 1 .. Done - 1 : k < draft'.turn /\ n.key[1] = GeneratorNames[k]
  <2>1. CASE n \in draft.drafts
    <3>1. PICK k \in 1 .. Done - 1 : k < draft.turn /\ n.key[1] = GeneratorNames[k]
      BY <2>1 DEF ToldTrue
    <3>2. k < draft'.turn
      BY <1>1, <1>5, <3>1, KindNames
    <3> QED
      BY <2>1, <3>1, <3>2 DEF ToldTrue
  <2>2. CASE n \in new
    <3>1. draft.turn \in 1 .. Done - 1 /\ draft.turn < draft'.turn
      BY <1>1, <1>5, KindNames
    <3> QED
      BY <1>6, <2>2, <3>1
  <2> QED
    BY <1>5, <1>9, <2>1, <2>2
<1>10. ASSUME NEW m \in draft'.drafts, NEW n \in draft'.drafts, m.key = n.key
       PROVE  m = n
  <2>1. CASE m \in draft.drafts /\ n \in draft.drafts
    BY <1>10, <2>1 DEF ToldTrue
  <2>2. CASE m \in new /\ n \in new
    BY <1>3, <1>10, <2>2 DEF Sound
  <2>3. ASSUME NEW old \in draft.drafts, NEW now \in new PROVE old.key # now.key
    <3>1. PICK k \in 1 .. Done - 1 : k < draft.turn /\ old.key[1] = GeneratorNames[k]
      BY DEF ToldTrue
    <3>2. now.key[1] = GeneratorNames[draft.turn]
      BY <1>6
    <3>3. k \in 1 .. 6 /\ draft.turn \in 1 .. 6
      BY <1>1, KindNames
    <3>4. GeneratorNames[k] # GeneratorNames[draft.turn]
      BY <3>1, <3>3, KindNames
    <3> QED
      BY <3>1, <3>2, <3>4
  <2> QED
    BY <1>5, <1>10, <2>1, <2>2, <2>3
<1> QED
  BY <1>1, <1>2, <1>5, <1>7, <1>8, <1>9, <1>10, TickMoves

LEMMA GeneratorBroken ==
  ASSUME NewsInv, GeneratorFails
  PROVE  NewsInv'
<1> USE DEF NewsInv
<1>1. /\ draft.turn \in 1 .. 6 /\ UNCHANGED worldVars
      /\ generatorFaults < MaxGeneratorFaults /\ generatorFaults' = generatorFaults + 1
      /\ UNCHANGED <<inboxes, covered, outage>>
      /\ draft' = [draft EXCEPT !.turn = @ + 1, !.whole = FALSE]
  BY KindNames DEF GeneratorFails
<1>2. UNCHANGED <<hour, accounts, held, entries, runs, retired>>
  BY <1>1 DEF worldVars
<1>3. /\ draft'.turn = draft.turn + 1 /\ draft'.drafts = draft.drafts
      /\ draft'.at = draft.at /\ ~draft'.whole /\ draft'.whole \in BOOLEAN
  BY <1>1 DEF AnnouncementsTypeOK
<1>4. draft'.turn \in 0 .. Done /\ generatorFaults' \in 0 .. MaxGeneratorFaults
  BY <1>1, <1>3, KindNames, AnnouncementsAssumption DEF AnnouncementsTypeOK
<1>5. AnnouncementsTypeOK'
  BY <1>1, <1>2, <1>3, <1>4 DEF AnnouncementsTypeOK
<1>6. TickInv'
  BY <1>3 DEF TickInv
<1>7. draft'.at = hour
  BY <1>1, <1>3 DEF WorldInv
<1>8. \A n \in draft'.drafts :
        /\ n.user \in accounts => TellsTrue(n)
        /\ \E k \in 1 .. Done - 1 : k < draft'.turn /\ n.key[1] = GeneratorNames[k]
  <2>1. \A k \in 1 .. Done - 1 : k < draft.turn => k < draft'.turn
    BY <1>1, <1>3, KindNames
  <2> QED
    BY <1>3, <2>1 DEF ToldTrue
<1>9. \A m, n \in draft'.drafts : m.key = n.key => m = n
  BY <1>3 DEF ToldTrue
<1> QED
  BY <1>1, <1>5, <1>6, <1>7, <1>8, <1>9, TickMoves

LEMMA NoTickUnderWay ==
  ASSUME draft' = NoTick, UNCHANGED worldVars, AnnouncementsTypeOK, AnnouncementsTypeOK'
  PROVE  /\ draft'.turn = 0 /\ draft'.drafts = {} /\ TickInv'
  BY DEF NoTick, TickInv

LEMMA TickIsLost ==
  ASSUME NewsInv, TickLost
  PROVE  NewsInv'
<1> USE DEF NewsInv
<1>1. /\ UNCHANGED worldVars /\ draft' = NoTick
      /\ generatorFaults < MaxGeneratorFaults /\ generatorFaults' = generatorFaults + 1
      /\ UNCHANGED <<inboxes, covered, outage>>
  BY DEF TickLost
<1>2. UNCHANGED <<hour, accounts, held, entries, runs, retired>>
  BY <1>1 DEF worldVars
<1>3. /\ NoTick.at \in Hours /\ NoTick.turn \in 0 .. Done /\ NoTick.whole \in BOOLEAN
      /\ NoTick.drafts = {} /\ NoTick.turn = 0
  BY KindNames, Spans DEF NoTick
<1>4. generatorFaults' \in 0 .. MaxGeneratorFaults
  BY <1>1, AnnouncementsAssumption DEF AnnouncementsTypeOK
<1>5. AnnouncementsTypeOK'
  BY <1>1, <1>2, <1>3, <1>4 DEF AnnouncementsTypeOK
<1>6. draft'.turn = 0 /\ draft'.drafts = {} /\ TickInv'
  BY <1>1, <1>5, NoTickUnderWay
<1> QED
  BY <1>1, <1>5, <1>6, TickMoves

\* What is written is the news of the window; and a window reaches back to the last
\* tick that lacked nothing, less what lines are late, unless there was an outage.
LEMMA DraftsInserted ==
  ASSUME NewsInv, InsertDrafts
  PROVE  NewsInv'
<1> USE DEF NewsInv
<1> DEFINE stands == \A n \in draft.drafts : n.user \in accounts
           complete == stands /\ draft.whole
<1>1. /\ draft.turn = Done /\ draft' = NoTick /\ UNCHANGED worldVars
      /\ UNCHANGED generatorFaults
      /\ inboxes' = IF stands THEN inboxes \cup Unseen(draft.drafts) ELSE inboxes
      /\ covered' = IF complete THEN Max({covered, draft.at}) ELSE covered
      /\ outage' = (outage \/ (complete /\ draft.at - covered > Lookback - LineLag))
  BY DEF InsertDrafts
<1>2. UNCHANGED <<hour, accounts, held, entries, runs, retired>>
  BY <1>1 DEF worldVars
<1>3. /\ hour \in Nat /\ draft.at = hour /\ covered \in Nat /\ draft.turn = 7
  BY <1>1, NewsRows, KindNames DEF WorldInv
<1>4. /\ ~complete => covered' = covered
      /\ complete => covered' = IF hour <= covered THEN covered ELSE hour
  BY <1>1, <1>3, LargerOfTwo
<1>5. \A n \in Unseen(draft.drafts) : n \in draft.drafts /\ \A m \in inboxes : m.key # n.key
  BY DEF Unseen
<1>6. inboxes \subseteq inboxes' /\ \A n \in inboxes' : n \in inboxes \/ (stands /\ n \in Unseen(draft.drafts))
  BY <1>1
<1> HIDE DEF stands, complete
<1>7. AnnouncementsTypeOK'
  <2>1. /\ NoTick.at \in Hours /\ NoTick.turn \in 0 .. Done /\ NoTick.whole \in BOOLEAN
        /\ NoTick.drafts = {}
    BY KindNames, Spans DEF NoTick
  <2>2. covered' \in Hours \cup {Since} /\ outage' \in BOOLEAN
    BY <1>1, <1>4 DEF AnnouncementsTypeOK
  <2>3. \A n \in inboxes' \cup NoTick.drafts : n \in inboxes \cup draft.drafts
    BY <1>5, <1>6, <2>1
  <2> QED
    BY <1>1, <1>2, <2>1, <2>2, <2>3 DEF AnnouncementsTypeOK
<1>8. draft'.turn = 0 /\ draft'.drafts = {} /\ TickInv'
  BY <1>1, <1>7, NoTickUnderWay
<1>9. WorldInv'
  <2>1. covered' = Since \/ covered' <= hour'
    BY <1>2, <1>3, <1>4 DEF WorldInv
  <2> QED
    BY <1>2, <1>8, <2>1 DEF WorldInv
<1>10. /\ \A x : IsNews(x)' <=> IsNews(x)
       /\ \A n : TellsTrue(n)' <=> TellsTrue(n)
  BY <1>1, NewsRests
<1>11. ToldTrue'
  <2>1. ASSUME NEW n \in inboxes' PROVE n.user \in accounts /\ TellsTrue(n)
    BY <1>5, <1>6 DEF ToldTrue, stands
  <2>2. ASSUME NEW m \in inboxes', NEW n \in inboxes', m.key = n.key PROVE m = n
    BY <1>5, <1>6, <2>2 DEF ToldTrue
  <2> QED
    BY <1>2, <1>8, <1>10, <2>1, <2>2 DEF ToldTrue
<1>12. Caught'
  <2> SUFFICES ASSUME ~outage', NEW x, IsNews(x), Since <= x.at, x.known < covered'
               PROVE  \E n \in inboxes' : n.key = x.key
    BY <1>10 DEF Caught, Was
  <2>1. /\ x.turn \in 1 .. 6 /\ x.at \in Nat /\ x.known \in Nat
        /\ x.at <= x.known /\ x.known <= x.at + LineLag
    BY NewsTimes DEF Timely
  <2>2. ~outage /\ (complete => ~(draft.at - covered > Lookback - LineLag))
    BY <1>1
  <2>3. CASE x.known < covered
    <3>1. PICK n \in inboxes : n.key = x.key
      BY <2>2, <2>3 DEF Caught, Was
    <3> QED
      BY <1>6, <3>1
  <2>4. CASE ~(x.known < covered)
    <3>1. complete /\ covered' = hour /\ x.known < hour
      BY <1>3, <1>4, <2>1, <2>4
    <3>2. draft.at - Lookback <= x.at
      BY <1>3, <2>1, <2>2, <2>4, <3>1, Spans
    <3>3. WindowStart(draft.at) <= x.at
      BY <1>3, <2>1, <3>2, WindowIs
    <3>4. draft.whole /\ stands
      BY <3>1 DEF complete
    <3>5. PICK n \in draft.drafts : n.key = x.key
      BY <1>3, <2>1, <3>1, <3>3, <3>4 DEF TickInv, Drafted
    <3>6. CASE n \in Unseen(draft.drafts)
      BY <1>1, <3>4, <3>5, <3>6
    <3>7. CASE n \notin Unseen(draft.drafts)
      <4>1. PICK m \in inboxes : m.key = n.key
        BY <3>7 DEF Unseen
      <4> QED
        BY <1>6, <3>5, <4>1
    <3> QED
      BY <3>6, <3>7
  <2> QED
    BY <2>3, <2>4
<1> QED
  BY <1>7, <1>8, <1>9, <1>11, <1>12

-----------------------------------------------------------------------------
\* The theorems.

LEMMA NewsInit ==
  ASSUME AnnouncementsInit
  PROVE  NewsInv
<1> USE DEF AnnouncementsInit
<1>1. /\ draft.at = 0 /\ draft.turn = 0 /\ draft.drafts = {} /\ draft.whole = TRUE
      /\ DOMAIN runs = {} /\ DOMAIN entries = {} /\ runs = <<>> /\ entries = <<>>
  BY DEF NoTick
<1>2. AnnouncementsTypeOK
  <2>1. 0 \in Hours /\ 0 \in 0 .. Done /\ 0 \in 0 .. MaxGeneratorFaults
    BY Spans, KindNames, AnnouncementsAssumption
  <2>2. runs \in Seq(RunRow) /\ entries \in Seq(EntryRow)
    BY <1>1
  <2> QED
    BY <1>1, <2>1, <2>2 DEF AnnouncementsTypeOK
<1>3. WorldInv /\ ToldTrue /\ TickInv
  BY <1>1 DEF WorldInv, ToldTrue, TickInv
<1>4. \A x : ~IsNews(x)
  BY <1>1 DEF IsNews
<1>5. Caught
  BY <1>4 DEF Caught
<1> QED
  BY <1>2, <1>3, <1>5 DEF NewsInv

LEMMA NewsStep ==
  ASSUME NewsInv, [AnnouncementsNext]_announcementVars
  PROVE  NewsInv'
<1>1. CASE UNCHANGED announcementVars
  <2>1. UNCHANGED worldVars /\ UNCHANGED <<inboxes, draft, generatorFaults, covered, outage>>
    BY <1>1 DEF announcementVars, notifierVars
  <2>2. UNCHANGED <<hour, accounts, held, entries, runs, retired>>
    BY <2>1 DEF worldVars
  <2>3. AnnouncementsTypeOK'
    BY <2>1, <2>2 DEF AnnouncementsTypeOK, NewsInv
  <2>4. TickInv'
    BY <2>1, NewsRests DEF TickInv, Drafted, WindowStart, NewsInv
  <2> QED
    BY <2>1, <2>3, <2>4, TickMoves DEF NewsInv, WorldInv, ToldTrue
<1>2. CASE AnnouncementsNext
  BY <1>2, TimePasses, ServerRetires, TagVerified, TokensArrive, AccountDeleted, RunStarts,
     RunGrows, TickBegins, GeneratorSucceeds, GeneratorBroken, DraftsInserted, TickIsLost
     DEF AnnouncementsNext
<1> QED
  BY <1>1, <1>2

LEMMA CaughtIsNothingMissed ==
  ASSUME NewsInv
  PROVE  NothingMissed
<1> USE DEF NewsInv
<1> SUFFICES ASSUME ~outage PROVE NothingMissed
  BY DEF NothingMissed
<1>1. \A x : IsNews(x) /\ Since <= x.at /\ x.known < covered => Was(x.key)
  BY DEF Caught
<1>2. ASSUME NEW l \in held, InWindow(l.at) PROVE Was(<<"verified", l.user, l.tag>>)
  <2> DEFINE x == NewsRow(1, <<"verified", l.user, l.tag>>, l.user, l.at, l.at)
  <2>1. IsNews(x)
    BY DEF IsNews
  <2>2. x.at = l.at /\ x.known = l.at /\ x.key = <<"verified", l.user, l.tag>>
    BY DEF NewsRow
  <2> HIDE DEF x
  <2> QED
    BY <1>1, <1>2, <2>1, <2>2 DEF InWindow
<1>3. ASSUME NEW i \in DOMAIN entries, InWindow(entries[i].at), entries[i].user \in accounts,
             entries[i].arrives
      PROVE  Was(<<"tokens", i>>)
  <2> DEFINE x == NewsRow(2, <<"tokens", i>>, entries[i].user, entries[i].at, entries[i].at)
  <2>1. IsNews(x)
    BY <1>3 DEF IsNews
  <2>2. x.at = entries[i].at /\ x.known = entries[i].at /\ x.key = <<"tokens", i>>
    BY DEF NewsRow
  <2> HIDE DEF x
  <2> QED
    BY <1>1, <1>3, <2>1, <2>2 DEF InWindow
<1>4. ASSUME NEW i \in DOMAIN runs, NEW l \in held, l.tag = runs[i].tag, NEW x,
             OfRun(i, l.user, x), l.at <= x.at, InWindow(x.at), InWindow(x.known)
      PROVE  Was(x.key)
  <2>1. IsNews(x)
    BY <1>4 DEF IsNews
  <2> QED
    BY <1>1, <1>4, <2>1 DEF InWindow
<1>5. ASSUME NEW i \in DOMAIN runs, NEW l \in held, l.tag = runs[i].tag, RealBan(i),
             InWindow(runs[i].banned), l.at <= runs[i].banned
      PROVE  Was(<<"banned", i>>)
  <2> DEFINE x == NewsRow(3, <<"banned", i>>, l.user, runs[i].banned, runs[i].banned)
  <2>1. OfRun(i, l.user, x)
    BY <1>5 DEF OfRun
  <2>2. x.at = runs[i].banned /\ x.known = runs[i].banned /\ x.key = <<"banned", i>>
    BY DEF NewsRow
  <2> HIDE DEF x
  <2> QED
    BY <1>4, <1>5, <2>1, <2>2
<1>6. ASSUME NEW i \in DOMAIN runs, NEW l \in held, l.tag = runs[i].tag, RealBan(i),
             InWindow(runs[i].lifted), l.at <= runs[i].lifted
      PROVE  Was(<<"lifted", i>>)
  <2> DEFINE x == NewsRow(4, <<"lifted", i>>, l.user, runs[i].lifted, runs[i].lifted)
  <2>1. OfRun(i, l.user, x)
    BY <1>6 DEF OfRun, InWindow
  <2>2. x.at = runs[i].lifted /\ x.known = runs[i].lifted /\ x.key = <<"lifted", i>>
    BY DEF NewsRow
  <2> HIDE DEF x
  <2> QED
    BY <1>4, <1>6, <2>1, <2>2
<1>7. ASSUME NEW i \in DOMAIN runs, NEW l \in held, l.tag = runs[i].tag,
             i \in OpenQualifiedLives, InWindow(runs[i].counts), InWindow(runs[i].known),
             l.at <= runs[i].counts
      PROVE  Was(<<"counts", i>>)
  <2> DEFINE x == NewsRow(5, <<"counts", i>>, l.user, runs[i].counts, runs[i].known)
  <2>1. OfRun(i, l.user, x)
    BY <1>7 DEF OfRun
  <2>2. x.at = runs[i].counts /\ x.known = runs[i].known /\ x.key = <<"counts", i>>
    BY DEF NewsRow
  <2> HIDE DEF x
  <2> QED
    BY <1>4, <1>7, <2>1, <2>2
<1>8. ASSUME NEW i \in DOMAIN runs, NEW l \in held, l.tag = runs[i].tag,
             i \in OpenQualifiedLives, NEW m \in Milestones,
             InWindow(runs[i].start + m), l.at <= runs[i].start + m,
             runs[i].known <= runs[i].start + m
      PROVE  Was(<<"lasted", i, m>>)
  <2> DEFINE x == NewsRow(6, <<"lasted", i, m>>, l.user, runs[i].start + m, runs[i].start + m)
  <2>1. OfRun(i, l.user, x)
    BY <1>8 DEF OfRun
  <2>2. x.at = runs[i].start + m /\ x.known = runs[i].start + m /\ x.key = <<"lasted", i, m>>
    BY DEF NewsRow
  <2> HIDE DEF x
  <2> QED
    BY <1>4, <1>8, <2>1, <2>2
<1> QED
  BY <1>2, <1>3, <1>5, <1>6, <1>7, <1>8 DEF NothingMissed

LEMMA TrueIsToldRightly ==
  ASSUME ToldTrue
  PROVE  ToldRightly
<1>1. \A m, n \in inboxes : m.key = n.key => m = n
  BY DEF ToldTrue
<1>2. ASSUME NEW n \in inboxes
      PROVE  /\ n.key[1] \in {"banned", "lifted", "counts", "lasted"} => OwnerIs(n.key[2], n.user)
             /\ n.key[1] = "banned" => ~runs[n.key[2]].dry /\ runs[n.key[2]].banned >= Since
             /\ n.key[1] = "lifted" => ~runs[n.key[2]].dry /\ runs[n.key[2]].lifted >= Since
             /\ n.key[1] = "counts" => runs[n.key[2]].counts >= Since
             /\ n.key[1] = "tokens" => entries[n.key[2]].user = n.user
  <2>1. TellsTrue(n)
    BY DEF ToldTrue
  <2>2. CASE \E l \in held : n.user = l.user /\ n.key = <<"verified", l.user, l.tag>>
    BY <2>2
  <2>3. CASE \E i \in DOMAIN entries : n.key = <<"tokens", i>> /\ entries[i].user = n.user
    BY <2>3
  <2>4. ASSUME NEW i \in DOMAIN runs, OwnerIs(i, n.user), n.key = <<"banned", i>>, RealBan(i),
               Since <= runs[i].banned
        PROVE  ~runs[i].dry /\ runs[i].banned >= Since
    BY <2>4 DEF RealBan
  <2>5. ASSUME NEW i \in DOMAIN runs, OwnerIs(i, n.user), n.key = <<"lifted", i>>, RealBan(i),
               Since <= runs[i].lifted
        PROVE  ~runs[i].dry /\ runs[i].lifted >= Since
    BY <2>5 DEF RealBan
  <2>6. CASE \E i \in DOMAIN runs : /\ OwnerIs(i, n.user)
          /\ \/ n.key = <<"banned", i>> /\ RealBan(i) /\ Since <= runs[i].banned
             \/ /\ n.key = <<"lifted", i>> /\ RealBan(i)
                /\ runs[i].lifted # Never /\ Since <= runs[i].lifted
             \/ n.key = <<"counts", i>> /\ runs[i].counts # Never /\ Since <= runs[i].counts
             \/ \E m \in Milestones : n.key = <<"lasted", i, m>>
    BY <2>4, <2>5, <2>6
  <2> QED
    BY <2>1, <2>2, <2>3, <2>6 DEF TellsTrue
<1> QED
  BY <1>1, <1>2 DEF ToldRightly

\* However ticks and generators fail, whoever should be told is, once, and nobody
\* else: as long as no two whole ticks are further apart than the window is long,
\* less what lines are late.
THEOREM NewsTold == AnnouncementsSpec => []NewsIsTold
<1>1. AnnouncementsInit => NewsInv
  BY NewsInit
<1>2. NewsInv /\ [AnnouncementsNext]_announcementVars => NewsInv'
  BY NewsStep
<1>3. NewsInv => NewsIsTold
  BY CaughtIsNothingMissed, TrueIsToldRightly DEF NewsInv, NewsIsTold
<1> QED
  BY <1>1, <1>2, <1>3, PTL DEF AnnouncementsSpec

=============================================================================
