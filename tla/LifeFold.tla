------------------------------ MODULE LifeFold ------------------------------
(***************************************************************************)
(* The projection fold (packages/projections/src/fold.ts) over the tables  *)
(* it writes (apps/projector/src/pg-store.ts): an ADM log line becomes an  *)
(* event, and folding the event moves players, lives, sessions and kills.  *)
(* One action folds one event; the projector commits a whole batch at once *)
(* but runs the events of a batch one after the other.                     *)
(*                                                                         *)
(* Lines name people by gamertag only, except the connect line, which also *)
(* carries the account hash.  Gamertags are renamed and recycled, so the   *)
(* game side of the model (who stands on which server, under which name)   *)
(* is kept next to the tables: the tables can then be compared with what   *)
(* really happened.                                                        *)
(***************************************************************************)
EXTENDS Integers, Sequences, FiniteSets, FiniteSetsExt

CONSTANTS
  Servers,      \* game servers, each with one ADM log
  Accounts,     \* account hashes (players.dayz_id)
  Tags,         \* gamertags, up to letter case
  Causes,       \* of "pvp", "suicide" (any named mechanism) and "died" (bare)
  Stats,        \* what a death line may say of energy, water and bleeding
  None,         \* SQL null
  MaxTime,      \* bound: the last second of the clock
  MaxSessions,  \* bound: sessions, and so lives, that a run creates
  MaxLag        \* how many seconds late a line may be folded

ASSUME BoundsAssumption == /\ MaxTime \in Nat
                           /\ MaxSessions \in Nat
                           /\ MaxLag \in Nat
ASSUME NoneAssumption ==
  None \notin Nat \cup Servers \cup Accounts \cup Stats
             \cup {"pvp", "suicide", "died", "clean", "superseded", "reboot"}
ASSUME CausesAssumption == Causes \subseteq {"pvp", "suicide", "died"}

VARIABLES
  \* the game
  clock,     \* seconds since the start of the log
  tagOf,     \* the gamertag each account carries now
  on,        \* the server an account's character stands on, or None
  \* the tables; the index of a row is its id
  players,
  lives,
  sessions,
  kills,
  \* history: what the lines folded so far said, by account
  logbook

tables == <<players, lives, sessions, kills>>
vars == <<clock, tagOf, on, players, lives, sessions, kills, logbook>>

Times == 0 .. MaxTime
CloseReasons == {"clean", "superseded", "reboot"}

PlayerRow == [hash: Accounts, tag: Tags, names: SUBSET Tags, seen: Nat]
LifeRow == [server: Servers, player: Nat, number: Nat, start: Nat,
            end: Nat \cup {None}, cause: Causes \cup {None},
            stats: Stats \cup {None}, play: Nat]
\* heard is history: the last time this server's own log mentioned the player
SessionRow == [server: Servers, player: Nat, life: Nat, from: Nat,
               to: Nat \cup {None}, dur: Nat,
               reason: CloseReasons \cup {None}, heard: Nat]
\* by is history: the account that really fired
KillRow == [server: Servers, killer: Nat \cup {None}, name: Tags, victim: Nat,
            life: Nat, by: Accounts]

\* The type of every variable.
TypeOK ==
  /\ clock \in Times
  /\ tagOf \in [Accounts -> Tags]
  /\ on \in [Accounts -> Servers \cup {None}]
  /\ players \in Seq(PlayerRow)
  /\ lives \in Seq(LifeRow)
  /\ sessions \in Seq(SessionRow)
  /\ kills \subseteq KillRow
  /\ logbook \in [session: SUBSET (Servers \X Accounts),
                  alive: SUBSET (Servers \X Accounts)]

Init ==
  /\ clock = 0
  /\ tagOf \in {f \in [Accounts -> Tags] :
                  \A a, b \in Accounts : f[a] = f[b] => a = b}
  /\ on \in [Accounts -> Servers \cup {None}]
  /\ players = <<>> /\ lives = <<>> /\ sessions = <<>> /\ kills = {}
  /\ logbook = [session |-> {}, alive |-> {}]

-----------------------------------------------------------------------------
\* The queries of the store.

\* A query that takes the first of the matching rows: at most one of them.
First(S) == IF S = {} THEN {} ELSE {CHOOSE x \in S : TRUE}

\* Faulty variant of ByHash: connects resolve by name.
ByNameInstead(a) ==
  LET rows == {p \in DOMAIN players : players[p].tag = tagOf[a]}
  IN  {p \in rows : \A q \in rows : p <= q}

ByHash(a) ==
  LET rows == {p \in DOMAIN players : players[p].hash = a}
  IN  {p \in rows : \A q \in rows : p <= q}

\* Faulty variant of Outranks: the oldest row keeps the name.
OlderOutranks(p, q) == p <= q

\* Of the rows that carry a name the most recently seen, lowest id on a tie.
Outranks(p, q) == \/ players[p].seen > players[q].seen
                  \/ players[p].seen = players[q].seen /\ p <= q

ByTag(t) ==
  LET rows == {p \in DOMAIN players : players[p].tag = t}
  IN  {p \in rows : \A q \in rows : Outranks(p, q)}

IsOpenLife(l, s, p) ==
  lives[l].server = s /\ lives[l].player = p /\ lives[l].end = None
IsOpenSession(i, s, p) ==
  sessions[i].server = s /\ sessions[i].player = p /\ sessions[i].to = None

LivesOf(s, p) ==
  {l \in DOMAIN lives : lives[l].server = s /\ lives[l].player = p}
OpenLife(s, p) == First({l \in DOMAIN lives : IsOpenLife(l, s, p)})
OpenSession(s, p) == First({i \in DOMAIN sessions : IsOpenSession(i, s, p)})
OpenOn(s) ==
  {i \in DOMAIN sessions : sessions[i].server = s /\ sessions[i].to = None}

\* Faulty variant of NextNumber: lives are counted over all servers.
NextNumberAnywhere(s, p) ==
  Cardinality({l \in DOMAIN lives : lives[l].player = p}) + 1

\* getMaxLifeNumber + 1: the first number above all those taken.
NextNumber(s, p) ==
  CHOOSE n \in 1 .. Len(lives) + 1 :
    /\ \A l \in LivesOf(s, p) : lives[l].number < n
    /\ n = 1 \/ \E l \in LivesOf(s, p) : lives[l].number = n - 1

\* The newest life of the player that ended in this very second.
JustEnded(s, p, at) ==
  LET ended == {l \in LivesOf(s, p) : lives[l].end = at}
  IN  {l \in ended : \A m \in ended : m <= l}

-----------------------------------------------------------------------------
\* Closing sessions.  A close that no line vouches for ends where the player
\* was last seen, though not before the session began.

\* Faulty variant of DurationSeconds: no floor at zero.
SignedSeconds(from, to) == to - from

DurationSeconds(from, to) == IF to > from THEN to - from ELSE 0

Heartbeat(i) ==
  LET seen == players[sessions[i].player].seen
  IN  IF seen > sessions[i].from THEN seen ELSE sessions[i].from

CloseTime(i, at, reason) ==
  IF reason = "clean" \/ at < Heartbeat(i) THEN at ELSE Heartbeat(i)

Played(i, at, reason) ==
  DurationSeconds(sessions[i].from, CloseTime(i, at, reason))

\* Faulty variant of Closed: a superseded session stays open.
ClosedUnlessSuperseded(S, at, reason) ==
  [i \in DOMAIN sessions |->
     IF i \in S /\ reason # "superseded"
     THEN [sessions[i] EXCEPT !.to = CloseTime(i, at, reason),
                              !.dur = Played(i, at, reason),
                              !.reason = reason]
     ELSE sessions[i]]

\* The sessions table after the sessions in S closed.
Closed(S, at, reason) ==
  [i \in DOMAIN sessions |->
     IF i \in S
     THEN [sessions[i] EXCEPT !.to = CloseTime(i, at, reason),
                              !.dur = Played(i, at, reason),
                              !.reason = reason]
     ELSE sessions[i]]

\* Faulty variant of Credited: a reboot credits nothing.
CreditedUnlessReboot(S, at, reason) ==
  [l \in DOMAIN lives |->
     IF reason # "reboot" /\ \E i \in S : sessions[i].life = l
     THEN LET i == CHOOSE i \in S : sessions[i].life = l
          IN  [lives[l] EXCEPT !.play = @ + Played(i, at, reason)]
     ELSE lives[l]]

\* The lives table after those closes: the time played goes to the life the
\* session was opened for, which no two open sessions share (OpenRowsAgree).
Credited(S, at, reason) ==
  [l \in DOMAIN lives |->
     IF \E i \in S : sessions[i].life = l
     THEN LET i == CHOOSE i \in S : sessions[i].life = l
          IN  [lives[l] EXCEPT !.play = @ + Played(i, at, reason)]
     ELSE lives[l]]

\* The players table after a line that shows player p present.
Touched(p, at) == [players EXCEPT ![p].seen = at]

\* The sessions after this server's log showed account a present.
Heard(s, a, at) ==
  [i \in DOMAIN sessions |->
     IF /\ sessions[i].server = s
        /\ players[sessions[i].player].hash = a
        /\ sessions[i].to = None
        /\ sessions[i].heard < at
     THEN [sessions[i] EXCEPT !.heard = at]
     ELSE sessions[i]]

-----------------------------------------------------------------------------
\* The events.  Each action is the handler of one event type, folded at the
\* stamp its line carries.

NewPlayer(a, at) ==
  [hash |-> a, tag |-> tagOf[a], names |-> {tagOf[a]}, seen |-> at]

NewLife(s, p, at) ==
  [server |-> s, player |-> p, number |-> NextNumber(s, p), start |-> at,
   end |-> None, cause |-> None, stats |-> None, play |-> 0]

NewSession(s, p, l, at) ==
  [server |-> s, player |-> p, life |-> l, from |-> at, to |-> None,
   dur |-> 0, reason |-> None, heard |-> at]

\* The hash decides who connected; the name is only recorded.
IdentityOf(a) ==
  IF ByHash(a) = {} THEN Len(players) + 1 ELSE CHOOSE p \in ByHash(a) : TRUE

ConnectedRow(a, at) ==
  IF ByHash(a) = {}
  THEN Append(players, NewPlayer(a, at))
  ELSE [players EXCEPT ![IdentityOf(a)].tag = tagOf[a],
                       ![IdentityOf(a)].names = @ \cup {tagOf[a]},
                       ![IdentityOf(a)].seen = at]

\* A session still open was missed its disconnect: it is superseded.
Connected(s, a, at) ==
  LET p == IdentityOf(a)
      missed == OpenSession(s, p)
      credited == Credited(missed, at, "superseded")
      born == OpenLife(s, p) = {}
      l == IF born THEN Len(lives) + 1 ELSE CHOOSE x \in OpenLife(s, p) : TRUE
  IN  /\ on[a] = None
      /\ Len(sessions) < MaxSessions
      /\ on' = [on EXCEPT ![a] = s]
      /\ players' = ConnectedRow(a, at)
      /\ lives' = IF born THEN Append(credited, NewLife(s, p, at)) ELSE credited
      /\ sessions' = Append(Closed(missed, at, "superseded"),
                            NewSession(s, p, l, at))
      /\ logbook' = [session |-> logbook.session \cup {<<s, a>>},
                     alive |-> logbook.alive \cup {<<s, a>>}]
      /\ UNCHANGED <<clock, tagOf, kills>>

\* The character may stand a while longer: it leaves with Leave.
Disconnected(s, a, at) ==
  /\ on[a] = s
  /\ \/ /\ ByTag(tagOf[a]) = {}
        /\ UNCHANGED <<players, lives, sessions>>
     \/ \E p \in ByTag(tagOf[a]) :
          /\ players' = Touched(p, at)
          /\ lives' = Credited(OpenSession(s, p), at, "clean")
          /\ sessions' = Closed(OpenSession(s, p), at, "clean")
  /\ logbook' = [logbook EXCEPT !.session = @ \ {<<s, a>>}]
  /\ UNCHANGED <<clock, tagOf, on, kills>>

\* What a death line on server s may say.  Only a pvp line names a killer,
\* and it carries no stats.
DeathLines(s) ==
  {d \in [cause : Causes, killer : Accounts \cup {None}, stats : Stats \cup {None}] :
     /\ d.cause = "pvp" <=> d.killer # None
     /\ d.cause = "pvp" => d.stats = None
     /\ d.killer # None => on[d.killer] = s}

Ended(life, d, at) ==
  [life EXCEPT !.end = at, !.cause = d.cause, !.stats = d.stats]

\* Faulty variant of Enriched: the last line wins.
EnrichedByLast(life, d) == [life EXCEPT !.cause = d.cause, !.stats = d.stats]

\* A later line of the same death: it may name the mechanism of a bare "died"
\* and fill in missing stats.
Enriched(life, d) ==
  [life EXCEPT !.cause = IF @ = "died" /\ d.cause # "died" THEN d.cause ELSE @,
               !.stats = IF @ = None THEN d.stats ELSE @]

PlayerNamed(t) ==
  IF ByTag(t) = {} THEN None ELSE CHOOSE p \in ByTag(t) : TRUE

\* The kill a death line credits, unless the victim's life has one already.
KillOf(s, a, p, l, d) ==
  IF \/ d.killer = None
     \/ tagOf[d.killer] = tagOf[a]
     \/ \E k \in kills : k.server = s /\ k.life = l
  THEN {}
  ELSE {[server |-> s, killer |-> PlayerNamed(tagOf[d.killer]),
         name |-> tagOf[d.killer], victim |-> p, life |-> l, by |-> d.killer]}

DiedAlive(s, a, p, l, d, at) ==
  LET open == OpenSession(s, p)
  IN  /\ sessions' = Closed(open, at, "clean")
      /\ lives' = [Credited(open, at, "clean") EXCEPT ![l] = Ended(@, d, at)]
      /\ kills' = kills \cup KillOf(s, a, p, l, d)

DiedAgain(s, p, d, at) ==
  /\ OpenLife(s, p) = {}
  /\ lives' = [l \in DOMAIN lives |->
                 IF l \in JustEnded(s, p, at) THEN Enriched(lives[l], d)
                 ELSE lives[l]]
  /\ UNCHANGED <<sessions, kills>>

Died(s, a, d, at) ==
  /\ on[a] = s
  /\ \/ /\ ByTag(tagOf[a]) = {}
        /\ UNCHANGED <<lives, sessions, kills>>
     \/ \E p \in ByTag(tagOf[a]) :
          \/ \E l \in OpenLife(s, p) : DiedAlive(s, a, p, l, d, at)
          \/ DiedAgain(s, p, d, at)
  /\ logbook' = [session |-> logbook.session \ {<<s, a>>},
                 alive |-> logbook.alive \ {<<s, a>>}]
  /\ UNCHANGED <<clock, tagOf, on, players>>

\* A position dump is a heartbeat.
Position(s, a, at) ==
  /\ on[a] = s
  /\ \/ /\ ByTag(tagOf[a]) = {}
        /\ UNCHANGED <<players, sessions>>
     \/ \E p \in ByTag(tagOf[a]) :
          /\ players' = Touched(p, at)
          /\ sessions' = Heard(s, a, at)
  /\ UNCHANGED <<clock, tagOf, on, lives, kills, logbook>>

\* A new log header: nobody is on the server any more.
Rebooted(s, at) ==
  /\ on' = [a \in Accounts |-> IF on[a] = s THEN None ELSE on[a]]
  /\ lives' = Credited(OpenOn(s), at, "reboot")
  /\ sessions' = Closed(OpenOn(s), at, "reboot")
  /\ logbook' = [logbook EXCEPT !.session = @ \ ({s} \X Accounts)]
  /\ UNCHANGED <<clock, tagOf, players, kills>>

-----------------------------------------------------------------------------
\* The game, where no line tells of it.

Tick ==
  /\ clock < MaxTime
  /\ clock' = clock + 1
  /\ UNCHANGED <<tagOf, on, tables, logbook>>

\* A character leaves with no line, or after its line.
Leave(a) ==
  /\ on[a] # None
  /\ on' = [on EXCEPT ![a] = None]
  /\ UNCHANGED <<clock, tagOf, tables, logbook>>

\* A name changes hands while nobody plays under it, and not in the second
\* its last holder was seen.
Rename(a, t) ==
  /\ on[a] = None
  /\ \A b \in Accounts : tagOf[b] # t
  /\ \A p \in DOMAIN players : players[p].tag = t => players[p].seen < clock
  /\ tagOf' = [tagOf EXCEPT ![a] = t]
  /\ UNCHANGED <<clock, on, tables, logbook>>

Stamps == {t \in Times : t <= clock /\ clock <= t + MaxLag}

Line(s, at) ==
  \/ \E a \in Accounts : \/ Connected(s, a, at)
                         \/ Disconnected(s, a, at)
                         \/ Position(s, a, at)
                         \/ \E d \in DeathLines(s) : Died(s, a, d, at)
  \/ Rebooted(s, at)

Next ==
  \/ \E s \in Servers, at \in Stamps : Line(s, at)
  \/ \E a \in Accounts : Leave(a)
  \/ \E a \in Accounts, t \in Tags : Rename(a, t)
  \/ Tick

Spec == Init /\ [][Next]_vars

-----------------------------------------------------------------------------
\* Properties.

\* One row per account: a connect resolves by hash and never by name, so a
\* recycled name neither merges two people nor splits one (fold.ts onConnected).
OneIdentityPerHash ==
  \A p, q \in DOMAIN players : players[p].hash = players[q].hash => p = q

\* A player has at most one open life and one open session on a server, and an
\* open session plays the open life of the same player on the same server: no
\* handler leaves a session behind that keeps crediting a life that ended.
OpenRowsAgree ==
  /\ \A l, m \in DOMAIN lives :
       /\ lives[l].end = None /\ lives[m].end = None
       /\ lives[l].server = lives[m].server /\ lives[l].player = lives[m].player
       => l = m
  /\ \A i, j \in DOMAIN sessions :
       /\ sessions[i].to = None /\ sessions[j].to = None
       /\ sessions[i].server = sessions[j].server
       /\ sessions[i].player = sessions[j].player
       => i = j
  /\ \A i \in DOMAIN sessions :
       sessions[i].to = None =>
         IsOpenLife(sessions[i].life, sessions[i].server, sessions[i].player)

\* The lives of a player on a server are numbered 1, 2, 3 ... without a gap:
\* "life n" in an obituary or on a profile names one life.
LivesNumbered ==
  \A s \in Servers, p \in DOMAIN players :
    {lives[l].number : l \in LivesOf(s, p)} = 1 .. Cardinality(LivesOf(s, p))

\* A life's playtime is the time of the sessions it was played in: each
\* session is credited once, to its own life, whichever line closes it.
PlaytimeIsSessionTime ==
  \A l \in DOMAIN lives :
    lives[l].play =
      MapThenSumSet(LAMBDA i : sessions[i].dur,
                    {i \in DOMAIN sessions : sessions[i].life = l})

\* Of lines folded in order: the lives of a player on a server follow each
\* other, and none was played longer than it lasted.
LivesFollow ==
  /\ \A l \in DOMAIN lives :
       LET last == IF lives[l].end = None THEN clock ELSE lives[l].end
       IN  lives[l].start <= last /\ lives[l].play <= last - lives[l].start
  /\ \A l, m \in DOMAIN lives :
       /\ lives[l].server = lives[m].server /\ lives[l].player = lives[m].player
       /\ lives[l].number < lives[m].number
       => lives[l].end # None /\ lives[l].end <= lives[m].start

\* The tables say of each account what its own lines said, although most lines
\* carry only a name and names change hands: a disconnect or death line closes
\* the session or life of the one who wrote it and of nobody else.
TablesFollowTheLog ==
  /\ logbook.session =
       {<<sessions[i].server, players[sessions[i].player].hash>> :
          i \in {j \in DOMAIN sessions : sessions[j].to = None}}
  /\ logbook.alive =
       {<<lives[l].server, players[lives[l].player].hash>> :
          l \in {m \in DOMAIN lives : lives[m].end = None}}

\* A kill is credited to the account that fired, at most one per life, and only
\* for a life that ended in pvp: kill credits feed the ban qualification.
KillsCreditTheKiller ==
  \A k \in kills :
    /\ k.killer # None => players[k.killer].hash = k.by
    /\ lives[k.life].cause = "pvp" /\ lives[k.life].end # None
    /\ lives[k.life].server = k.server /\ lives[k.life].player = k.victim
    /\ \A j \in kills : j.life = k.life => j = k

\* A session that no line closed is not credited past the last time its own
\* server showed the player: "crash freezes, never inflates".
NeverInflates ==
  \A i \in DOMAIN sessions :
    sessions[i].reason \in {"superseded", "reboot"} =>
      sessions[i].to <= sessions[i].heard

\* Nobody's rows move by another's line: neither sessions and lives nor kills.
AccountsKeepTheirOwn == TablesFollowTheLog /\ KillsCreditTheKiller

\* Lives follow each other and no second is played twice, or by nobody: of one
\* server, whose own heartbeat is then the only one.
TimeIsPlayedOnce == LivesFollow /\ NeverInflates

\* On one server: rows stay with the account whose lines made them, though lines
\* carry names that change hands, and its time is counted once.
LivesAreTheAccounts == AccountsKeepTheirOwn /\ TimeIsPlayedOnce

\* Death is final: a life that ended keeps its end, number and playtime for
\* good; only a bare "died" may be replaced by a mechanism, and stats only
\* filled in.
DeathIsFinal ==
  [][\A l \in DOMAIN lives : lives[l].end # None =>
       /\ lives'[l].end = lives[l].end
       /\ lives'[l].number = lives[l].number
       /\ lives'[l].play = lives[l].play
       /\ lives[l].cause # "died" => lives'[l].cause = lives[l].cause
       /\ lives[l].stats # None => lives'[l].stats = lives[l].stats]_vars

=============================================================================
