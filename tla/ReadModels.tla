------------------------------ MODULE ReadModels ----------------------------
(***************************************************************************)
(* What the pages, the enforcer, the newsdesk and the notifier read off    *)
(* the tables of LifeFold (packages/read-models).  Whether a life counts   *)
(* is decided three times over: in memory (isLifeQualified), in SQL        *)
(* (qualifiedLifeCondition) and as an instant (lifeQualifiedAt).           *)
(*                                                                         *)
(* The instants of kills are those of the deaths they caused.              *)
(***************************************************************************)
EXTENDS LifeFold, SequencesExt

CONSTANT QualifySeconds   \* QUALIFY_SECONDS

ASSUME QualifyAssumption == QualifySeconds \in Nat \ {0}

-----------------------------------------------------------------------------
\* livePlaytime, isLifeQualified, applyRetirement: functions of rows.

LivePlaytime(stored, from, upTo) ==
  IF from = None THEN stored ELSE stored + DurationSeconds(from, upTo)

IsLifeQualified(cause, play, start, windowEnd, times) ==
  \/ cause = "pvp"
  \/ \E t \in times : start <= t /\ t <= windowEnd
  \/ play >= QualifySeconds

\* Where a retired server's open session stops counting.
RetirementCap(retired, seen) == IF seen < retired THEN seen ELSE retired

\* An open life on a server that was retired ended then, and not by a death.
ApplyRetirement(life, from, retired, seen) ==
  IF life.end # None \/ retired = None THEN life
  ELSE [life EXCEPT !.end = retired,
                    !.play = LivePlaytime(@, from, RetirementCap(retired, seen))]

-----------------------------------------------------------------------------
\* Queries.

Seen(p) == players[p].seen
KillTimes(s, p) ==
  {lives[k.life].end : k \in {x \in kills : x.server = s /\ x.killer = p}}
FromOf(S) == IF S = {} THEN None ELSE sessions[CHOOSE i \in S : TRUE].from
OpenSessionIn(l) ==
  {i \in DOMAIN sessions : sessions[i].life = l /\ sessions[i].to = None}

\* getAliveSurvivors: an open life, its time by its own open session, qualified
\* by its player's kills up to the heartbeat.
TimeAlive(l) ==
  LivePlaytime(lives[l].play, FromOf(OpenSessionIn(l)), Seen(lives[l].player))
Survivors(s) ==
  {l \in DOMAIN lives :
     /\ lives[l].server = s /\ lives[l].end = None
     /\ LET p == lives[l].player
        IN  IsLifeQualified(lives[l].cause, TimeAlive(l), lives[l].start, Seen(p),
                            {t \in KillTimes(s, p) : t >= lives[l].start})}

\* getPlayerLives: the lives that count, a retired server's open one included.
PlayedSeconds(life, s, p) ==
  IF life.end # None THEN life.play
  ELSE LivePlaytime(life.play, FromOf(OpenSession(s, p)), Seen(p))
LifeRowFor(l, retired) ==
  LET s == lives[l].server
      p == lives[l].player
  IN  ApplyRetirement(lives[l], FromOf(OpenSession(s, p) \cap OpenSessionIn(l)),
                      retired, Seen(p))
PlayerLives(s, p, retired) ==
  LET Counts(life) ==
        IsLifeQualified(life.cause, PlayedSeconds(life, s, p), life.start,
                        IF life.end # None THEN life.end ELSE Seen(p), KillTimes(s, p))
  IN  {l \in LivesOf(s, p) : Counts(LifeRowFor(l, retired))}

\* getPlayerProfile; a player without a life on the server has none.
Profile(s, p) ==
  LET qualified == PlayerLives(s, p, None)
      current == {l \in qualified : lives[l].end = None}
  IN  [lives |-> Cardinality(qualified),
       deaths |-> Cardinality(qualified \ current),
       total |-> MapThenSumSet(LAMBDA l : PlayedSeconds(lives[l], s, p), qualified),
       current |-> MapThenSumSet(LAMBDA l : PlayedSeconds(lives[l], s, p), current),
       alive |-> current # {}]

\* getRoster: who is on the server, and for how long in this life.
Roster(s) ==
  {[player |-> sessions[i].player, life |-> sessions[i].life,
    lifeSeconds |-> LivePlaytime(lives[sessions[i].life].play, sessions[i].from,
                                 Seen(sessions[i].player))] : i \in OpenOn(s)}

\* The condition in SQL: playtime as stored, the open session left out.
QualifiedLifeCondition(l) ==
  \/ lives[l].cause = "pvp"
  \/ lives[l].play >= QualifySeconds
  \/ \E t \in KillTimes(lives[l].server, lives[l].player) :
       lives[l].start <= t /\ (lives[l].end = None \/ t <= lives[l].end)

\* Faulty variant of Contribution: an open session counts to this very second.
GhostContribution(i, upTo) ==
  IF sessions[i].to # None THEN sessions[i].dur
  ELSE DurationSeconds(sessions[i].from, clock)

\* What a session adds to its life so far.
Contribution(i, upTo) ==
  IF sessions[i].to # None THEN sessions[i].dur
  ELSE DurationSeconds(sessions[i].from, upTo)

\* The instants at which a life reached QualifySeconds: at most one.
CrossedAt(l, upTo) ==
  LET of == {i \in DOMAIN sessions : sessions[i].life = l}
      Adds(i) == Contribution(i, upTo)
      Before(i) == MapThenSumSet(Adds, {j \in of : j < i})
  IN  {sessions[i].from + QualifySeconds - Before(i) :
         i \in {j \in of : /\ Before(j) < QualifySeconds
                           /\ Before(j) + Adds(j) >= QualifySeconds}}

\* lifeQualifiedAt: the earliest of three instants, or None.  An open session
\* counts up to the heartbeat, on a retired server no further than its end.
QualifiedInstant(l, life, upTo) ==
  LET death == IF life.cause = "pvp" /\ life.end # None THEN {life.end} ELSE {}
      shots == {t \in KillTimes(life.server, life.player) :
                  life.start <= t /\ (life.end = None \/ t <= life.end)}
      instants == death \cup shots \cup CrossedAt(l, upTo)
  IN  IF instants = {} THEN None ELSE Min(instants)
LifeQualifiedAt(l) == QualifiedInstant(l, lives[l], Seen(lives[l].player))

-----------------------------------------------------------------------------
\* Properties.

\* Of a life that ended, the three decisions are one ("Must agree with
\* isLifeQualified"): the newsdesk, the pages and the instant agree on it.
DecidedAlike ==
  \A l \in DOMAIN lives : lives[l].end # None =>
    LET counts == l \in PlayerLives(lives[l].server, lives[l].player, None)
    IN  /\ QualifiedLifeCondition(l) <=> counts
        /\ (LifeQualifiedAt(l) # None) <=> counts

\* Of an open one they may differ, in one way: by a kill its player fired after
\* the last heartbeat, which the board and the page's counts leave out.
OpenLivesDiffer ==
  \A l \in DOMAIN lives :
    LET p == lives[l].player
        s == lives[l].server
    IN  lives[l].end = None =>
          /\ l \in Survivors(s) => LifeQualifiedAt(l) # None
          /\ LifeQualifiedAt(l) # None /\ l \notin Survivors(s) =>
               \E t \in KillTimes(s, p) : t > Seen(p)

\* The board, a player's profile and the roster show one and the same life and
\* time, although each finds the open session by a way of its own; and retiring
\* the server now takes no life and no second from anyone.
PagesShowOneLife ==
  \A s \in Servers, p \in DOMAIN players :
    LET board == {l \in Survivors(s) : lives[l].player = p}
    IN  /\ Profile(s, p).alive <=> board # {}
        /\ Profile(s, p).current = MapThenSumSet(TimeAlive, board)
        /\ \A r \in Roster(s) : r.life \in board => r.lifeSeconds = TimeAlive(r.life)
        /\ PlayerLives(s, p, None) \subseteq PlayerLives(s, p, clock)
        /\ \A l \in board :
             ApplyRetirement(lives[l], FromOf(OpenSessionIn(l)), clock, Seen(p)).play
               = TimeAlive(l)

\* The queries behind the pages give one picture of a player.
QueriesAgree == DecidedAlike /\ OpenLivesDiffer /\ PagesShowOneLife

\* Once a life counts it counts for good, and from the same instant ("more
\* history never moves it"), unless it counted by a kill: time played before
\* that kill may become known by a later heartbeat.
QualifiedForGood ==
  [][\A l \in DOMAIN lives :
       LET was == LifeQualifiedAt(l)
           is == LifeQualifiedAt(l)'
       IN  was # None =>
             \/ is = was
             \/ /\ was \in KillTimes(lives[l].server, lives[l].player)
                /\ is # None /\ is < was]_vars

=============================================================================
