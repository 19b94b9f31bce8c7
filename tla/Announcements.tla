---------------------------- MODULE Announcements ---------------------------
(***************************************************************************)
(* What becomes a notification (apps/notifier, generate.ts and generators).*)
(* Six generators look, one after the other, for what happened since a     *)
(* window began: gamertags verified, tokens that arrived, bans, lifts,     *)
(* lives that began to count and lives that lasted.  Their drafts go into  *)
(* the inboxes in one statement, a natural key at most once.  There is no  *)
(* cursor: who is told of what rests on windows that overlap.              *)
(*                                                                         *)
(* Time is in hours.  The other workers write in between: a life counts    *)
(* from an instant that its lines may tell of later, ends, is banned and   *)
(* the ban lifted; accounts verify a gamertag, or are deleted.             *)
(***************************************************************************)
EXTENDS Integers, Sequences, FiniteSets, FiniteSetsExt, Functions

CONSTANTS
  Readers,       \* accounts
  Callsigns,     \* gamertags
  Never,         \* SQL null
  Since,         \* NOTIFIER_SINCE
  Lookback,      \* NOTIFIER_LOOKBACK_HOURS
  Milestones,    \* MILESTONE_DAYS, in hours
  LineLag,       \* bound: how late the lines of a life arrive
  MaxHour,       \* bound
  MaxNews,       \* bound: lives and token transactions
  MaxGeneratorFaults   \* bound: generators or statements that fail

ASSUME AnnouncementsAssumption ==
  /\ {Since, Lookback, LineLag, MaxHour, MaxNews, MaxGeneratorFaults} \subseteq Nat
  /\ Milestones \subseteq Nat \ {0} /\ LineLag < Lookback
  /\ Never \notin Nat /\ Never \notin Readers

VARIABLES
  hour,
  accounts,    \* those not deleted
  held,        \* verified links; the row of a user and a gamertag is used again
  entries,     \* token_transactions
  runs,        \* lives, with the bans row their death led to
  retired,     \* whether their server is
  inboxes,     \* notifications
  draft,       \* the tick: its time, its turn, what it has so far
  generatorFaults,
  covered,     \* history: time of the last tick that lacked nothing
  outage       \* history: whether two of those were too far apart

worldVars == <<hour, accounts, held, entries, runs, retired>>
notifierVars == <<inboxes, draft, generatorFaults, covered, outage>>
announcementVars == <<worldVars, notifierVars>>

Hours == 0 .. MaxHour
HeldRow == [user : Readers, tag : Callsigns, at : Hours]
\* arrives: a grant or a transfer received, of which the owner is told.
EntryRow == [user : Readers, arrives : BOOLEAN, at : Hours]
\* known is history: when the lines told that the life counts.
RunRow == [tag : Callsigns, start : Hours, counts : Hours \cup {Never},
           known : Hours \cup {Never}, over : BOOLEAN,
           banned : Hours \cup {Never}, dry : BOOLEAN, lifted : Hours \cup {Never}]

GeneratorNames == <<"verified", "tokens", "banned", "lifted", "counts", "lasted">>
Done == Len(GeneratorNames) + 1
NoTick == [at |-> 0, turn |-> 0, drafts |-> {}, whole |-> TRUE]
Told(user, key) == [user |-> user, key |-> key]

AnnouncementsTypeOK ==
  /\ hour \in Hours /\ accounts \subseteq Readers
  /\ held \subseteq HeldRow
  /\ entries \in Seq(EntryRow) /\ runs \in Seq(RunRow) /\ retired \in BOOLEAN
  /\ \A n \in inboxes \cup draft.drafts :
       n.user \in Readers /\ n.key[1] \in Range(GeneratorNames)
  /\ draft.at \in Hours /\ draft.turn \in 0 .. Done /\ draft.whole \in BOOLEAN
  /\ generatorFaults \in 0 .. MaxGeneratorFaults
  /\ covered \in Hours \cup {Since} /\ outage \in BOOLEAN
  /\ \A i \in DOMAIN runs :
       /\ runs[i].lifted # Never => runs[i].banned # Never
       /\ runs[i].banned # Never => runs[i].over /\ runs[i].counts # Never

AnnouncementsInit ==
  /\ hour = 0 /\ accounts = Readers /\ held = {} /\ entries = <<>> /\ runs = <<>>
  /\ retired = FALSE /\ inboxes = {} /\ draft = NoTick
  /\ generatorFaults = 0 /\ covered = Since /\ outage = FALSE

-----------------------------------------------------------------------------
\* What the other workers write.

\* A tick takes less than an hour.
Passes ==
  /\ draft.turn = 0
  /\ hour < MaxHour /\ hour' = hour + 1
  /\ UNCHANGED <<accounts, held, entries, runs, retired, notifierVars>>

Verifies(u, t) ==
  /\ u \in accounts /\ \A l \in held : l.user # u /\ l.tag # t
  /\ held' = held \cup {[user |-> u, tag |-> t, at |-> hour]}
  /\ UNCHANGED <<hour, accounts, entries, runs, retired, notifierVars>>

Enters(u, arrives) ==
  /\ u \in accounts /\ Len(entries) + Len(runs) < MaxNews
  /\ entries' = Append(entries, [user |-> u, arrives |-> arrives, at |-> hour])
  /\ UNCHANGED <<hour, accounts, held, runs, retired, notifierVars>>

\* The account's rows go with it, its notifications included.
IsDeleted(u) ==
  /\ u \in accounts /\ accounts' = accounts \ {u}
  /\ held' = {l \in held : l.user # u}
  /\ inboxes' = {n \in inboxes : n.user # u}
  /\ UNCHANGED <<hour, entries, runs, retired, draft, generatorFaults, covered, outage>>

RunChanges(i, row) ==
  /\ runs' = [runs EXCEPT ![i] = row]
  /\ UNCHANGED <<hour, accounts, held, entries, retired, notifierVars>>

Starts(t) ==
  /\ Len(entries) + Len(runs) < MaxNews /\ ~retired
  /\ \A i \in DOMAIN runs : runs[i].tag = t => runs[i].over
  /\ runs' = Append(runs, [tag |-> t, start |-> hour, counts |-> Never, known |-> Never,
                           over |-> FALSE, banned |-> Never, dry |-> FALSE, lifted |-> Never])
  /\ UNCHANGED <<hour, accounts, held, entries, retired, notifierVars>>

\* The lines that make a life count are folded, up to LineLag later.
Counts(i, at) ==
  /\ ~runs[i].over /\ ~retired /\ runs[i].counts = Never
  /\ runs[i].start <= at /\ at <= hour /\ hour - at <= LineLag
  /\ RunChanges(i, [runs[i] EXCEPT !.counts = at, !.known = hour])

Ends(i) ==
  /\ ~runs[i].over /\ ~retired
  /\ RunChanges(i, [runs[i] EXCEPT !.over = TRUE])

Banned(i, dry) ==
  /\ runs[i].over /\ runs[i].counts # Never /\ runs[i].banned = Never
  /\ RunChanges(i, [runs[i] EXCEPT !.banned = hour, !.dry = dry])

Lifted(i) ==
  /\ runs[i].banned # Never /\ runs[i].lifted = Never
  /\ RunChanges(i, [runs[i] EXCEPT !.lifted = hour])

Retires ==
  /\ ~retired /\ retired' = TRUE
  /\ UNCHANGED <<hour, accounts, held, entries, runs, notifierVars>>

-----------------------------------------------------------------------------
\* The generators.

\* Faulty variant of WindowStart: a window no longer than one tick.
NoOverlap(now) == Max({now, Since})

WindowStart(now) == Max({now - Lookback, Since})

\* Bans and lives carry gamertags: only a verified link leads to an inbox.
OwnerIs(i, user) == \E l \in held : l.user = user /\ l.tag = runs[i].tag
ToOwners(kind, i) == {Told(u, <<kind, i>>) : u \in {v \in accounts : OwnerIs(i, v)}}
OfRuns(kind, S) == UNION {ToOwners(kind, i) : i \in S}

GamertagVerified(now) ==
  {Told(l.user, <<"verified", l.user, l.tag>>) : l \in {m \in held : m.at >= WindowStart(now)}}

Tokens(now) ==
  {Told(entries[i].user, <<"tokens", i>>) :
     i \in {j \in DOMAIN entries : /\ entries[j].arrives
                                   /\ entries[j].user \in accounts
                                   /\ entries[j].at >= WindowStart(now)}}

\* A row of a dry run is no punishment.
RealBan(i) == runs[i].banned # Never /\ ~runs[i].dry

BanApplied(now) ==
  OfRuns("banned", {i \in DOMAIN runs : RealBan(i) /\ runs[i].banned >= WindowStart(now)})
BanLifted(now) ==
  OfRuns("lifted", {i \in DOMAIN runs : /\ RealBan(i) /\ runs[i].lifted # Never
                                        /\ runs[i].lifted >= WindowStart(now)})

OpenQualifiedLives ==
  IF retired THEN {} ELSE {i \in DOMAIN runs : ~runs[i].over /\ runs[i].counts # Never}

LifeQualified(now) ==
  OfRuns("counts", {i \in OpenQualifiedLives : runs[i].counts >= WindowStart(now)})

\* Each milestone is news in the window around the instant it was reached.
SurvivalMilestone(now) ==
  UNION {{Told(n.user, Append(n.key, m)) :
                 n \in OfRuns("lasted", {i \in OpenQualifiedLives :
                                           /\ runs[i].start + m <= now
                                           /\ runs[i].start + m >= WindowStart(now)})} :
              m \in Milestones}

Drafts(turn, now) ==
  CASE turn = 1 -> GamertagVerified(now)
    [] turn = 2 -> Tokens(now)
    [] turn = 3 -> BanApplied(now)
    [] turn = 4 -> BanLifted(now)
    [] turn = 5 -> LifeQualified(now)
    [] turn = 6 -> SurvivalMilestone(now)

-----------------------------------------------------------------------------
\* generateTick

BeginGenerating ==
  /\ draft.turn = 0
  /\ draft' = [NoTick EXCEPT !.at = hour, !.turn = 1]
  /\ UNCHANGED <<worldVars, inboxes, generatorFaults, covered, outage>>

GeneratorRuns ==
  /\ draft.turn \in 1 .. Len(GeneratorNames)
  /\ draft' = [draft EXCEPT !.turn = @ + 1,
                            !.drafts = @ \cup Drafts(draft.turn, draft.at)]
  /\ UNCHANGED <<worldVars, inboxes, generatorFaults, covered, outage>>

\* One broken generator does not cost the tick.
GeneratorFails ==
  /\ draft.turn \in 1 .. Len(GeneratorNames)
  /\ generatorFaults < MaxGeneratorFaults /\ generatorFaults' = generatorFaults + 1
  /\ draft' = [draft EXCEPT !.turn = @ + 1, !.whole = FALSE]
  /\ UNCHANGED <<worldVars, inboxes, covered, outage>>

\* The unique index on natural_key: what was told, to whomever, is not told again.
Unseen(drafts) == {n \in drafts : \A m \in inboxes : m.key # n.key}

\* One insert for all; it fails as a whole on a row whose account has gone.
InsertDrafts ==
  /\ draft.turn = Done
  /\ LET stands == \A n \in draft.drafts : n.user \in accounts
         whole == stands /\ draft.whole
     IN  /\ inboxes' = IF stands THEN inboxes \cup Unseen(draft.drafts) ELSE inboxes
         /\ covered' = IF whole THEN Max({covered, draft.at}) ELSE covered
         /\ outage' = (outage \/ (whole /\ draft.at - covered > Lookback - LineLag))
  /\ draft' = NoTick
  /\ UNCHANGED <<worldVars, generatorFaults>>

\* The insert fails, or the notifier is stopped.
TickLost ==
  /\ draft.turn # 0
  /\ generatorFaults < MaxGeneratorFaults /\ generatorFaults' = generatorFaults + 1
  /\ draft' = NoTick
  /\ UNCHANGED <<worldVars, inboxes, covered, outage>>

AnnouncementsNext ==
  \/ Passes \/ Retires
  \/ \E u \in Readers, t \in Callsigns : Verifies(u, t)
  \/ \E u \in Readers, arrives \in BOOLEAN : Enters(u, arrives)
  \/ \E u \in Readers : IsDeleted(u)
  \/ \E t \in Callsigns : Starts(t)
  \/ \E i \in DOMAIN runs :
       \/ \E at \in Hours : Counts(i, at)
       \/ Ends(i) \/ Lifted(i)
       \/ \E dry \in BOOLEAN : Banned(i, dry)
  \/ BeginGenerating \/ GeneratorRuns \/ GeneratorFails \/ InsertDrafts \/ TickLost

AnnouncementsSpec == AnnouncementsInit /\ [][AnnouncementsNext]_announcementVars

-----------------------------------------------------------------------------
\* Properties.

Was(key) == \E n \in inboxes : n.key = key
InWindow(at) == at # Never /\ Since <= at /\ at < covered

\* As long as a whole tick came through at least once in a window (less what
\* lines are late), nothing is missed: who was the verified owner when something
\* happened is told of it, however ticks and generators failed in between; of an
\* open life, provided it is still open.
NothingMissed ==
  ~outage =>
    /\ \A l \in held : InWindow(l.at) => Was(<<"verified", l.user, l.tag>>)
    /\ \A i \in DOMAIN entries :
         /\ InWindow(entries[i].at) /\ entries[i].user \in accounts
         /\ entries[i].arrives
         => Was(<<"tokens", i>>)
    /\ \A i \in DOMAIN runs, l \in held :
         LET Owned(at) == InWindow(at) /\ l.tag = runs[i].tag /\ l.at <= at
             open == i \in OpenQualifiedLives
         IN  /\ RealBan(i) /\ Owned(runs[i].banned) => Was(<<"banned", i>>)
             /\ RealBan(i) /\ Owned(runs[i].lifted) => Was(<<"lifted", i>>)
             /\ open /\ Owned(runs[i].counts) /\ InWindow(runs[i].known)
                => Was(<<"counts", i>>)
             /\ \A m \in Milestones :
                  open /\ Owned(runs[i].start + m) /\ runs[i].known <= runs[i].start + m
                  => Was(<<"lasted", i, m>>)

\* Nobody is told twice, by any name, and nobody of a ban that was never meant,
\* of what was over before the notifier went live, or of a gamertag that is
\* not theirs.
ToldRightly ==
  /\ \A m, n \in inboxes : m.key = n.key => m = n
  /\ \A n \in inboxes :
       LET i == n.key[2]
           ofRun == n.key[1] \in {"banned", "lifted", "counts", "lasted"}
       IN  /\ ofRun => OwnerIs(i, n.user)
           /\ n.key[1] = "banned" => ~runs[i].dry /\ runs[i].banned >= Since
           /\ n.key[1] = "lifted" => ~runs[i].dry /\ runs[i].lifted >= Since
           /\ n.key[1] = "counts" => runs[i].counts >= Since
           /\ n.key[1] = "tokens" => entries[i].user = n.user

\* Who should be told is, once, and nobody else (and the rows are of their types).
NewsIsTold == AnnouncementsTypeOK /\ NothingMissed /\ ToldRightly

=============================================================================
