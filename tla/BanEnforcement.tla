--------------------------- MODULE BanEnforcement ---------------------------
(***************************************************************************)
(* The death bans of one game server: the enforcer (apps/enforcer) turns   *)
(* qualified deaths into rows of the bans table and reconciles the rows    *)
(* with the server's ban list at Nitrado, while players redeem tokens for  *)
(* their bans (packages/tokens/src/redeem.ts).                             *)
(*                                                                         *)
(* The enforcer is one process that ticks forever.  What it read stays     *)
(* with it for the rest of a phase, a remote call and the row update that  *)
(* records it are separate steps, and it may stop between any two of them. *)
(* A redemption is a transaction of two steps: what it read, and its       *)
(* commit.  Gamertags are renamed here but never recycled, so the name on  *)
(* a ban resolves to the account that was banned.                          *)
(***************************************************************************)
EXTENDS Integers, Sequences, FiniteSets

CONSTANTS
  Accounts,     \* account hashes (players.dayz_id), and their users
  Tags,         \* gamertags
  None,         \* no value
  Modes,        \* the settings of ENFORCER_DRY_RUN a process may start with
  BanHours,     \* BAN_DURATION_HOURS
  MaxTime,      \* bound: the last hour of the clock
  MaxDeaths,    \* bound: qualified deaths
  MaxRenames,   \* bound: renames
  MaxTokens,    \* bound: tokens each user may be granted
  MaxFaults     \* bound: stops of the enforcer and failed calls together

ASSUME BanBoundsAssumption ==
  /\ BanHours \in Nat /\ MaxTime \in Nat /\ MaxDeaths \in Nat
  /\ MaxRenames \in Nat /\ MaxTokens \in Nat /\ MaxFaults \in Nat
ASSUME ModesAssumption == Modes \subseteq BOOLEAN /\ Modes # {}
ASSUME NamesAssumption == Accounts \cap Tags = {} /\ None \notin Accounts \cup Tags

VARIABLES
  clock,     \* hours
  label,     \* players.gamertag of each account
  deaths,    \* the qualified lives that ended; the index is lives.id
  bans,      \* the table; the index is the id
  banlist,   \* the entries on Nitrado's list
  enforcer,  \* the process
  request,   \* each user's open redemption: what it read, or None
  balance,   \* each user's sum over the ledger
  redeemed,  \* the bans a ledger row redeem:<id> exists for
  faults,    \* what went wrong so far
  renames    \* how many names changed so far

game == <<clock, label, deaths, renames>>
tokens == <<request, balance, redeemed>>
vars == <<game, bans, banlist, enforcer, tokens, faults>>

Times == 0 .. MaxTime
DeathRow == [victim: Accounts, at: Times]
BanRow == [death: Nat, victim: Accounts, tag: Tags, due: Nat, dry: BOOLEAN,
           status: {"pending", "applied", "expired", "lift_pending", "lifted"}]
Plan == [death: Nat, tag: Tags]
Phases == {"idle", "detect", "apply", "expire", "lift"}

\* The type of every variable.
TypeOK ==
  /\ clock \in Times
  /\ label \in [Accounts -> Tags]
  /\ deaths \in Seq(DeathRow)
  /\ bans \in Seq(BanRow)
  /\ banlist \subseteq Accounts \cup Tags
  /\ enforcer \in [dry: Modes, phase: Phases, now: Times, plans: SUBSET Plan,
                   queue: SUBSET Nat, answered: BOOLEAN]
  /\ enforcer.answered => enforcer.queue # {}
  /\ request \in [Accounts -> {None} \cup [ban: Nat, status: {"pending", "applied"}]]
  /\ balance \in [Accounts -> 0 .. MaxTokens]
  /\ redeemed \subseteq DOMAIN bans
  /\ faults \in 0 .. MaxFaults
  /\ renames \in 0 .. MaxRenames

Idle(dry) == [dry |-> dry, phase |-> "idle", now |-> 0, plans |-> {},
              queue |-> {}, answered |-> FALSE]

Init ==
  /\ clock = 0
  /\ label \in {f \in [Accounts -> Tags] :
                  \A a, b \in Accounts : f[a] = f[b] => a = b}
  /\ deaths = <<>> /\ bans = <<>> /\ banlist = {}
  /\ enforcer \in {Idle(dry) : dry \in Modes}
  /\ request = [a \in Accounts |-> None]
  /\ balance = [a \in Accounts |-> 0]
  /\ redeemed = {} /\ faults = 0 /\ renames = 0

-----------------------------------------------------------------------------
\* The queries of the enforcer's store.

\* Faulty variant of Unbanned: any ban of the name will do.
UnbannedByNameOnly ==
  {[death |-> d, tag |-> label[deaths[d].victim]] :
     d \in {e \in DOMAIN deaths :
             \A i \in DOMAIN bans : bans[i].tag # label[deaths[e].victim]}}

\* A death is banned if a row carries its life under the name the player has now.
Unbanned ==
  {[death |-> d, tag |-> label[deaths[d].victim]] :
     d \in {e \in DOMAIN deaths :
             \A i \in DOMAIN bans :
               ~ (bans[i].death = e /\ bans[i].tag = label[deaths[e].victim])}}

WithStatus(status) == {i \in DOMAIN bans : bans[i].status = status}

Due(i, now) == bans[i].due <= now

\* Faulty variant of Expiring: every applied ban is due.
AllApplied == WithStatus("applied")

Expiring == {i \in WithStatus("applied") : Due(i, enforcer.now)}

\* Faulty variant of BanNames: the name alone.
NameOnly(i) == {bans[i].tag}

\* The account hash survives a rename, the gamertag does not.
BanNames(i) == {bans[i].victim, bans[i].tag}

NewBan(plan) ==
  [death |-> plan.death, victim |-> deaths[plan.death].victim, tag |-> plan.tag,
   due |-> deaths[plan.death].at + BanHours, dry |-> enforcer.dry,
   status |-> "pending"]

-----------------------------------------------------------------------------
\* A tick of the enforcer: detect, apply, expire, lift.

StartTick ==
  /\ enforcer.phase = "idle"
  /\ enforcer' = [enforcer EXCEPT !.phase = "detect", !.now = clock,
                                  !.plans = Unbanned]
  /\ UNCHANGED <<game, bans, banlist, tokens, faults>>

\* Deaths are banned in the order of their id.
InsertBan ==
  \E plan \in enforcer.plans :
    /\ \A other \in enforcer.plans : plan.death <= other.death
    /\ enforcer' = [enforcer EXCEPT !.plans = @ \ {plan}]
    /\ bans' = IF \E i \in DOMAIN bans :
                    bans[i].death = plan.death /\ bans[i].tag = plan.tag
               THEN bans
               ELSE Append(bans, NewBan(plan))
    /\ UNCHANGED <<game, banlist, tokens, faults>>

\* A phase whose rows are done gives way to the next one and its query.
EndPhase ==
  /\ enforcer.phase # "idle" /\ enforcer.plans = {} /\ enforcer.queue = {}
  /\ enforcer' =
       CASE enforcer.phase = "detect" ->
              [enforcer EXCEPT !.phase = "apply", !.queue = WithStatus("pending")]
         [] enforcer.phase = "apply" ->
              [enforcer EXCEPT !.phase = "expire", !.queue = Expiring]
         [] enforcer.phase = "expire" ->
              [enforcer EXCEPT !.phase = "lift", !.queue = WithStatus("lift_pending")]
         [] OTHER -> Idle(enforcer.dry)
  /\ UNCHANGED <<game, bans, banlist, tokens, faults>>

\* The row in hand: rows are worked off in the order of their id.
InHand(i) == i \in enforcer.queue /\ \A j \in enforcer.queue : i <= j

\* Faulty variant of AfterCall: what to remove is looked up anew.
AfterCallByLabel(i) ==
  IF enforcer.phase = "apply" THEN banlist \cup BanNames(i)
  ELSE banlist \ {bans[i].victim, label[bans[i].victim]}

\* What the call of this phase makes of the list.
AfterCall(i) ==
  IF enforcer.phase = "apply" THEN banlist \cup BanNames(i)
  ELSE banlist \ BanNames(i)

Answered(i) ==
  /\ InHand(i) /\ ~enforcer.answered /\ ~enforcer.dry
  /\ banlist' = AfterCall(i)
  /\ enforcer' = [enforcer EXCEPT !.answered = TRUE]
  /\ UNCHANGED <<game, bans, tokens, faults>>

\* The call fails, or takes effect and its answer is lost: the row keeps its
\* status, and the next tick tries again.
CallFails(i) ==
  /\ InHand(i) /\ ~enforcer.answered /\ ~enforcer.dry
  /\ faults < MaxFaults
  /\ banlist' \in {banlist, AfterCall(i)}
  /\ enforcer' = [enforcer EXCEPT !.queue = @ \ {i}]
  /\ faults' = faults + 1
  /\ UNCHANGED <<game, bans, tokens>>

\* A dry run applies nothing, but closes what is to be closed.
SkipDry(i) ==
  /\ InHand(i) /\ enforcer.dry /\ enforcer.phase = "apply"
  /\ enforcer' = [enforcer EXCEPT !.queue = @ \ {i}]
  /\ UNCHANGED <<game, bans, banlist, tokens, faults>>

StatusAfter ==
  CASE enforcer.phase = "apply" -> "applied"
    [] enforcer.phase = "expire" -> "expired"
    [] OTHER -> "lifted"

\* The row is updated by id, whatever its status has become.
Mark(i) ==
  /\ InHand(i)
  /\ enforcer.answered \/ (enforcer.dry /\ enforcer.phase # "apply")
  /\ bans' = [bans EXCEPT ![i].status = StatusAfter]
  /\ enforcer' = [enforcer EXCEPT !.queue = @ \ {i}, !.answered = FALSE]
  /\ UNCHANGED <<game, banlist, tokens, faults>>

\* The process stops, or the tick throws, and starts over.
Restart ==
  /\ faults < MaxFaults
  /\ \E dry \in Modes : enforcer' = Idle(dry)
  /\ faults' = faults + 1
  /\ UNCHANGED <<game, bans, banlist, tokens>>

-----------------------------------------------------------------------------
\* Tokens.

Grant(a) ==
  /\ balance[a] + Cardinality({i \in redeemed : bans[i].victim = a}) < MaxTokens
  /\ balance' = [balance EXCEPT ![a] = @ + 1]
  /\ UNCHANGED <<game, bans, banlist, enforcer, request, redeemed, faults>>

\* Faulty variant of BeginRedeem: the balance is not checked.
BeginRedeemUnchecked(a) ==
  /\ request[a] = None
  /\ \E i \in DOMAIN bans :
       /\ bans[i].victim = a
       /\ bans[i].status \in {"pending", "applied"} /\ ~bans[i].dry
       /\ request' = [request EXCEPT ![a] = [ban |-> i, status |-> bans[i].status]]
  /\ UNCHANGED <<game, bans, banlist, enforcer, balance, redeemed, faults>>

\* Faulty variant of BeginRedeem: a dry-run ban counts.  It is the redeem that the
\* comment at apps/notifier/src/generators/bans.ts:20 describes.
BeginRedeemDry(a) ==
  /\ request[a] = None
  /\ \E i \in DOMAIN bans :
       /\ bans[i].victim = a
       /\ bans[i].status \in {"pending", "applied"}
       /\ balance[a] >= 1
       /\ request' = [request EXCEPT ![a] = [ban |-> i, status |-> bans[i].status]]
  /\ UNCHANGED <<game, bans, banlist, enforcer, balance, redeemed, faults>>

\* The transaction picks a real ban of the user's own (redeem.ts:47 leaves dry runs
\* out) and remembers its status.
BeginRedeem(a) ==
  /\ request[a] = None
  /\ \E i \in DOMAIN bans :
       /\ bans[i].victim = a
       /\ bans[i].status \in {"pending", "applied"} /\ ~bans[i].dry
       /\ balance[a] >= 1
       /\ request' = [request EXCEPT ![a] = [ban |-> i, status |-> bans[i].status]]
  /\ UNCHANGED <<game, bans, banlist, enforcer, balance, redeemed, faults>>

\* The ledger row is unique by redeem:<ban>: a second one rolls back.
CommitRedeem(a) ==
  /\ request[a] # None
  /\ LET i == request[a].ban
     IN  \/ /\ i \notin redeemed
            /\ redeemed' = redeemed \cup {i}
            /\ balance' = [balance EXCEPT ![a] = @ - 1]
            /\ bans' = [bans EXCEPT ![i].status =
                          IF request[a].status = "applied" THEN "lift_pending"
                          ELSE "lifted"]
         \/ /\ i \in redeemed
            /\ UNCHANGED <<redeemed, balance, bans>>
  /\ request' = [request EXCEPT ![a] = None]
  /\ UNCHANGED <<game, banlist, enforcer, faults>>

-----------------------------------------------------------------------------
\* The game and its projection.

Pass ==
  /\ clock < MaxTime
  /\ clock' = clock + 1
  /\ UNCHANGED <<label, deaths, renames, bans, banlist, enforcer, tokens, faults>>

\* A life is found to have ended and to qualify, maybe some time after it did.
\* Bound: its ban runs out while the clock still runs.
Die(a, at) ==
  /\ Len(deaths) < MaxDeaths /\ at <= clock /\ at + BanHours <= MaxTime
  /\ deaths' = Append(deaths, [victim |-> a, at |-> at])
  /\ UNCHANGED <<clock, label, renames, bans, banlist, enforcer, tokens, faults>>

\* A player connects under a name nobody else has or was banned under.
Rename(a, t) ==
  /\ renames < MaxRenames
  /\ label[a] # t
  /\ \A b \in Accounts : label[b] # t
  /\ \A i \in DOMAIN bans : bans[i].tag = t => bans[i].victim = a
  /\ \A p \in enforcer.plans : p.tag = t => deaths[p.death].victim = a
  /\ label' = [label EXCEPT ![a] = t]
  /\ renames' = renames + 1
  /\ UNCHANGED <<clock, deaths, bans, banlist, enforcer, tokens, faults>>

-----------------------------------------------------------------------------
Enforce ==
  \/ StartTick \/ InsertBan \/ EndPhase
  \/ \E i \in DOMAIN bans : Answered(i) \/ SkipDry(i) \/ Mark(i)

\* What happens where nobody has a token.
Unredeemed ==
  \/ Enforce \/ Restart
  \/ \E i \in DOMAIN bans : CallFails(i)
  \/ \E a \in Accounts, at \in Times : Die(a, at)
  \/ \E a \in Accounts, t \in Tags : Rename(a, t)
  \/ Pass

Next == Unredeemed \/ \E a \in Accounts : Grant(a) \/ BeginRedeem(a) \/ CommitRedeem(a)

Spec == Init /\ [][Next]_vars

\* The enforcer's loop never ends and time passes; faults are bounded, so from
\* some point on Nitrado answers. Nobody redeems: what redemptions do to liveness
\* is a finding of its own.
FairSpec == Init /\ [][Unredeemed]_vars /\ WF_vars(Enforce) /\ WF_vars(Pass)

-----------------------------------------------------------------------------
\* Properties.

Closed == {"expired", "lifted"}
BansOf(a) == {i \in DOMAIN bans : bans[i].victim = a}

\* Who serves a ban is kept out whatever name they take: while a ban is applied
\* and not due the account hash is on the list, unless another ban of the same
\* account ran out or was bought off (the two share the entry).
BannedIsListed ==
  \A i \in DOMAIN bans :
    bans[i].status = "applied" /\ ~Due(i, clock) =>
      \/ bans[i].victim \in banlist
      \/ \E j \in BansOf(bans[i].victim) : j # i /\ (Due(j, clock) \/ j \in redeemed)

\* Nobody is let back in early: an entry leaves the list only for a ban that ran
\* out or that a token was spent on.
NoEarlyRelease ==
  [][\A n \in banlist \ banlist' :
       \E i \in DOMAIN bans : n \in BanNames(i) /\ (Due(i, clock) \/ i \in redeemed)]_vars

\* Nobody stays banned: once every ban of an account is closed and no call is
\* under way, neither its hash nor a name it was banned under is listed.
NobodyStaysBanned ==
  \A i \in DOMAIN bans :
    /\ enforcer.phase = "idle"
    /\ \A j \in BansOf(bans[i].victim) : bans[j].status \in Closed
    => BanNames(i) \cap banlist = {}

\* Lifts and the ledger agree, whatever status the transaction read: no row is
\* lifted without a token spent on it, and no token is spent on a ban that was
\* only a dry run.  The repository contradicts itself on the latter: redeem.ts:31 and
\* :47 leave such rows out, while the comment at generators/bans.ts:20 says that
\* redeem has "no dry_run predicate of its own" and "really does burn a token".  The
\* code sides with the former, and BeginRedeemDry, the redeem of the latter, fails here.
LiftsArePaid ==
  \A i \in DOMAIN bans :
    /\ bans[i].status \in {"lift_pending", "lifted"} => i \in redeemed
    /\ i \in redeemed => ~bans[i].dry

\* One ban per death: a death that was banned is not banned again.
OneBanPerDeath ==
  \A i, j \in DOMAIN bans : bans[i].death = bans[j].death => i = j

\* Every qualified death is punished and every ban ends, whatever fails and
\* whoever is renamed: a row for it gets closed.
EveryDeathIsServed ==
  \A d \in 1 .. MaxDeaths :
    d \in DOMAIN deaths ~>
      \E i \in DOMAIN bans : bans[i].death = d /\ bans[i].status \in Closed

=============================================================================
