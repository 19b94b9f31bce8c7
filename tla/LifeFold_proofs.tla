--------------------------- MODULE LifeFold_proofs ---------------------------
(***************************************************************************)
(* Theorems about LifeFold and about the pages the site makes of its       *)
(* tables (ReadModels, PlayerPages), for every set of servers, accounts    *)
(* and gamertags and every bound.                                          *)
(***************************************************************************)
EXTENDS MCPlayerSite, FiniteSetTheorems, SequenceTheorems, WellFoundedInduction, TLAPS

\* Every id a row holds is the id of a row: the tables' foreign keys.
RowsExist ==
  /\ \A l \in DOMAIN lives : lives[l].player \in DOMAIN players
  /\ \A i \in DOMAIN sessions : /\ sessions[i].player \in DOMAIN players
                                /\ sessions[i].life \in DOMAIN lives

IInv == TypeOK /\ RowsExist /\ OneIdentityPerHash /\ OpenRowsAgree /\ LivesNumbered

LEMMA InitIInv == Init => IInv
<1> SUFFICES ASSUME Init PROVE IInv
  OBVIOUS
<1>1. TypeOK
  BY BoundsAssumption, EmptySeq DEF Init, TypeOK, Times
<1>2. RowsExist /\ OneIdentityPerHash /\ OpenRowsAgree
  BY DEF Init, RowsExist, OneIdentityPerHash, OpenRowsAgree
<1>3. LivesNumbered
  BY DEF Init, LivesNumbered
<1> QED
  BY <1>1, <1>2, <1>3 DEF IInv

-----------------------------------------------------------------------------
\* Tables: what a well-typed sequence of rows offers, and how to build one.

LEMMA TableRows ==
  ASSUME TypeOK
  PROVE  /\ Len(players) \in Nat /\ DOMAIN players = 1 .. Len(players)
         /\ \A p \in DOMAIN players : players[p] \in PlayerRow
         /\ Len(lives) \in Nat /\ DOMAIN lives = 1 .. Len(lives)
         /\ \A l \in DOMAIN lives : lives[l] \in LifeRow
         /\ Len(sessions) \in Nat /\ DOMAIN sessions = 1 .. Len(sessions)
         /\ \A i \in DOMAIN sessions : sessions[i] \in SessionRow
  BY ElementOfSeq, LenProperties DEF TypeOK

LEMMA TableIsSeq ==
  ASSUME NEW R, NEW n \in Nat, NEW f \in [1 .. n -> R]
  PROVE  f \in Seq(R) /\ Len(f) = n /\ DOMAIN f = 1 .. n
<1>1. f \in Seq(R)
  BY SeqDef
<1>2. Len(f) \in Nat /\ DOMAIN f = 1 .. Len(f)
  BY <1>1, LenProperties
<1>3. Len(f) = n
  BY <1>2
<1> QED
  BY <1>1, <1>3

LEMMA FirstOfSet ==
  ASSUME NEW S
  PROVE  /\ First(S) \subseteq S
         /\ S # {} => First(S) # {}
         /\ \A x, y \in First(S) : x = y
  BY DEF First

-----------------------------------------------------------------------------
\* Closing sessions: the rows keep their keys, no life opens or ends.

LEMMA ClosingTimes ==
  ASSUME TypeOK, RowsExist, NEW i \in DOMAIN sessions, NEW at \in Nat,
         NEW reason \in CloseReasons
  PROVE  CloseTime(i, at, reason) \in Nat /\ Played(i, at, reason) \in Nat
<1>1. sessions[i].from \in Nat /\ players[sessions[i].player].seen \in Nat
  BY TableRows DEF RowsExist, PlayerRow, SessionRow
<1>2. CloseTime(i, at, reason) \in Nat
  BY <1>1 DEF CloseTime, Heartbeat
<1> QED
  BY <1>1, <1>2 DEF Played, DurationSeconds

LEMMA ClosedRows ==
  ASSUME TypeOK, RowsExist, NEW S \in SUBSET DOMAIN sessions, NEW at \in Nat,
         NEW reason \in CloseReasons
  PROVE  /\ Closed(S, at, reason) \in Seq(SessionRow)
         /\ Len(Closed(S, at, reason)) = Len(sessions)
         /\ DOMAIN Closed(S, at, reason) = DOMAIN sessions
         /\ \A i \in DOMAIN sessions :
              /\ Closed(S, at, reason)[i].server = sessions[i].server
              /\ Closed(S, at, reason)[i].player = sessions[i].player
              /\ Closed(S, at, reason)[i].life = sessions[i].life
              /\ i \in S => Closed(S, at, reason)[i].to \in Nat
              /\ i \notin S => Closed(S, at, reason)[i] = sessions[i]
<1> DEFINE T == Closed(S, at, reason)
<1>1. \A i \in DOMAIN sessions :
        /\ sessions[i] \in SessionRow
        /\ CloseTime(i, at, reason) \in Nat
        /\ Played(i, at, reason) \in Nat
  BY TableRows, ClosingTimes
<1>2. \A i \in DOMAIN sessions :
        T[i] = IF i \in S
               THEN [sessions[i] EXCEPT !.to = CloseTime(i, at, reason),
                                        !.dur = Played(i, at, reason),
                                        !.reason = reason]
               ELSE sessions[i]
  BY DEF Closed
<1>3. ASSUME NEW i \in DOMAIN sessions
      PROVE  T[i] \in SessionRow
  <2> HIDE DEF T
  <2>1. CASE i \notin S
    BY <1>1, <1>2, <2>1
  <2>2. CASE i \in S
    <3>1. T[i] = [sessions[i] EXCEPT !.to = CloseTime(i, at, reason),
                                     !.dur = Played(i, at, reason),
                                     !.reason = reason]
      BY <1>2, <2>2
    <3> QED
      BY <1>1, <3>1 DEF SessionRow
  <2> QED
    BY <2>1, <2>2
<1>4. T \in [1 .. Len(sessions) -> SessionRow]
  BY <1>3, TableRows DEF Closed
<1>5. T \in Seq(SessionRow) /\ Len(T) = Len(sessions)
  BY <1>4, TableRows, TableIsSeq
<1>6. ASSUME NEW i \in DOMAIN sessions
      PROVE  /\ T[i].server = sessions[i].server /\ T[i].player = sessions[i].player
             /\ T[i].life = sessions[i].life
             /\ i \in S => T[i].to \in Nat
             /\ i \notin S => T[i] = sessions[i]
  <2> DEFINE to == CloseTime(i, at, reason)
             dur == Played(i, at, reason)
  <2>1. T[i] = IF i \in S
               THEN [sessions[i] EXCEPT !.to = to, !.dur = dur, !.reason = reason]
               ELSE sessions[i]
    BY <1>2
  <2>2. sessions[i] \in SessionRow /\ to \in Nat
    BY <1>1
  <2> HIDE DEF T, to, dur
  <2> QED
    BY <2>1, <2>2 DEF SessionRow
<1> QED
  BY <1>5, <1>6 DEF Closed

LEMMA CreditedRows ==
  ASSUME TypeOK, RowsExist, NEW S \in SUBSET DOMAIN sessions, NEW at \in Nat,
         NEW reason \in CloseReasons
  PROVE  /\ Credited(S, at, reason) \in Seq(LifeRow)
         /\ Len(Credited(S, at, reason)) = Len(lives)
         /\ DOMAIN Credited(S, at, reason) = DOMAIN lives
         /\ \A l \in DOMAIN lives :
              /\ Credited(S, at, reason)[l].server = lives[l].server
              /\ Credited(S, at, reason)[l].player = lives[l].player
              /\ Credited(S, at, reason)[l].number = lives[l].number
              /\ Credited(S, at, reason)[l].end = lives[l].end
<1> DEFINE T == Credited(S, at, reason)
           C(l) == CHOOSE i \in S : sessions[i].life = l
<1>1. \A i \in S : Played(i, at, reason) \in Nat
  BY ClosingTimes
<1>2. \A l \in DOMAIN lives : lives[l] \in LifeRow
  BY TableRows
<1>3. \A l \in DOMAIN lives :
        T[l] = IF \E i \in S : sessions[i].life = l
               THEN [lives[l] EXCEPT !.play = lives[l].play + Played(C(l), at, reason)]
               ELSE lives[l]
  BY DEF Credited
<1>4. \A l \in DOMAIN lives :
        (\E i \in S : sessions[i].life = l) =>
          lives[l].play + Played(C(l), at, reason) \in Nat
  <2>1. \A l : (\E i \in S : sessions[i].life = l) => C(l) \in S
    OBVIOUS
  <2> QED
    BY <2>1, <1>1, <1>2 DEF LifeRow
<1> HIDE DEF C, T
<1>5. ASSUME NEW l \in DOMAIN lives
      PROVE  T[l] \in LifeRow
  <2>1. CASE \E i \in S : sessions[i].life = l
    <3> DEFINE play == lives[l].play + Played(C(l), at, reason)
    <3>1. T[l] = [lives[l] EXCEPT !.play = play] /\ play \in Nat
      BY <1>3, <1>4, <2>1
    <3> HIDE DEF play
    <3> QED
      BY <1>2, <3>1 DEF LifeRow
  <2>2. CASE ~ \E i \in S : sessions[i].life = l
    BY <1>2, <1>3, <2>2
  <2> QED
    BY <2>1, <2>2
<1>6. T \in [1 .. Len(lives) -> LifeRow]
  BY <1>5, TableRows DEF Credited, T
<1>7. T \in Seq(LifeRow) /\ Len(T) = Len(lives) /\ DOMAIN T = DOMAIN lives
  BY <1>6, TableRows, TableIsSeq
<1>8. ASSUME NEW l \in DOMAIN lives
      PROVE  /\ T[l].server = lives[l].server /\ T[l].player = lives[l].player
             /\ T[l].number = lives[l].number /\ T[l].end = lives[l].end
  <2>1. T[l] = lives[l] \/ \E play : T[l] = [lives[l] EXCEPT !.play = play]
    BY <1>3
  <2>2. lives[l] \in LifeRow
    BY <1>2
  <2> QED
    BY <2>1, <2>2 DEF LifeRow
<1> QED
  BY <1>7, <1>8 DEF T

-----------------------------------------------------------------------------
\* The invariant is kept by the steps that open no life and no session.

\* What a step does to players when it creates none.
SamePlayers == /\ players' \in Seq(PlayerRow)
               /\ DOMAIN players' = DOMAIN players
               /\ \A p \in DOMAIN players : players'[p].hash = players[p].hash

\* What a step does to the lives when none begins or ends.
SameLives == /\ lives' \in Seq(LifeRow)
             /\ DOMAIN lives' = DOMAIN lives
             /\ \A l \in DOMAIN lives :
                  /\ lives'[l].server = lives[l].server
                  /\ lives'[l].player = lives[l].player
                  /\ lives'[l].number = lives[l].number
                  /\ lives'[l].end = lives[l].end

\* What a step does to the sessions when none begins: some may close.
ClosingSessions == /\ sessions' \in Seq(SessionRow)
                   /\ DOMAIN sessions' = DOMAIN sessions
                   /\ \A i \in DOMAIN sessions :
                        /\ sessions'[i].server = sessions[i].server
                        /\ sessions'[i].player = sessions[i].player
                        /\ sessions'[i].life = sessions[i].life
                        /\ sessions'[i].to = None => sessions[i].to = None

Structure == RowsExist /\ OneIdentityPerHash /\ OpenRowsAgree /\ LivesNumbered

LEMMA NumbersKept ==
  ASSUME LivesNumbered, SamePlayers, DOMAIN lives' = DOMAIN lives,
         \A l \in DOMAIN lives : /\ lives'[l].server = lives[l].server
                                 /\ lives'[l].player = lives[l].player
                                 /\ lives'[l].number = lives[l].number
  PROVE  LivesNumbered'
<1> SUFFICES ASSUME NEW s \in Servers, NEW p \in DOMAIN players
             PROVE  {lives'[l].number : l \in LivesOf(s, p)'}
                      = 1 .. Cardinality(LivesOf(s, p)')
  BY DEF LivesNumbered, SamePlayers
<1>1. LivesOf(s, p)' = LivesOf(s, p)
  BY DEF LivesOf
<1>2. {lives'[l].number : l \in LivesOf(s, p)} = {lives[l].number : l \in LivesOf(s, p)}
  BY DEF LivesOf
<1>3. {lives[l].number : l \in LivesOf(s, p)} = 1 .. Cardinality(LivesOf(s, p))
  BY DEF LivesNumbered
<1> QED
  BY <1>1, <1>2, <1>3

LEMMA StructureKept ==
  ASSUME TypeOK, Structure, SamePlayers, SameLives, ClosingSessions
  PROVE  Structure'
<1>1. RowsExist'
  BY DEF Structure, RowsExist, SamePlayers, SameLives, ClosingSessions
<1>2. OneIdentityPerHash'
  BY DEF Structure, OneIdentityPerHash, SamePlayers
<1>3. OpenRowsAgree'
  <2>1. ASSUME NEW l \in DOMAIN lives', NEW m \in DOMAIN lives',
               lives'[l].end = None, lives'[m].end = None,
               lives'[l].server = lives'[m].server,
               lives'[l].player = lives'[m].player
        PROVE  l = m
    BY <2>1 DEF Structure, OpenRowsAgree, SameLives
  <2>2. ASSUME NEW i \in DOMAIN sessions', NEW j \in DOMAIN sessions',
               sessions'[i].to = None, sessions'[j].to = None,
               sessions'[i].server = sessions'[j].server,
               sessions'[i].player = sessions'[j].player
        PROVE  i = j
    BY <2>2 DEF Structure, OpenRowsAgree, ClosingSessions
  <2>3. ASSUME NEW i \in DOMAIN sessions', sessions'[i].to = None
        PROVE  IsOpenLife(sessions[i].life, sessions[i].server, sessions[i].player)'
    <3>1. /\ i \in DOMAIN sessions /\ sessions[i].life \in DOMAIN lives
          /\ IsOpenLife(sessions[i].life, sessions[i].server, sessions[i].player)
      BY <2>3 DEF Structure, RowsExist, OpenRowsAgree, ClosingSessions
    <3> QED
      BY <3>1 DEF IsOpenLife, SameLives, ClosingSessions
  <2> QED
    BY <2>1, <2>2, <2>3 DEF OpenRowsAgree
<1>4. LivesNumbered'
  BY NumbersKept DEF Structure, SameLives
<1> QED
  BY <1>1, <1>2, <1>3, <1>4 DEF Structure

LEMMA ClosingStep ==
  ASSUME TypeOK, RowsExist, NEW S \in SUBSET DOMAIN sessions, NEW at \in Nat,
         NEW reason \in CloseReasons,
         lives' = Credited(S, at, reason), sessions' = Closed(S, at, reason)
  PROVE  SameLives /\ ClosingSessions
<1>1. SameLives
  BY CreditedRows DEF SameLives
<1>2. ClosingSessions
  <2>1. \A i \in DOMAIN sessions : sessions'[i].to = None => sessions[i].to = None
    BY ClosedRows, NoneAssumption
  <2> QED
    BY <2>1, ClosedRows DEF ClosingSessions
<1> QED
  BY <1>1, <1>2

LEMMA TouchStep ==
  ASSUME TypeOK, NEW p \in DOMAIN players, NEW at \in Nat,
         players' = Touched(p, at)
  PROVE  SamePlayers
<1>1. players[p] \in PlayerRow /\ DOMAIN players = 1 .. Len(players)
  BY TableRows
<1>2. [players[p] EXCEPT !.seen = at] \in PlayerRow
  BY <1>1 DEF PlayerRow
<1>3. players' = [players EXCEPT ![p] = [players[p] EXCEPT !.seen = at]]
  BY <1>1 DEF Touched
<1>4. players' \in Seq(PlayerRow)
  BY <1>1, <1>2, <1>3, ExceptSeq DEF TypeOK
<1>5. \A q \in DOMAIN players : players'[q].hash = players[q].hash
  BY <1>1, <1>3 DEF PlayerRow
<1> QED
  BY <1>3, <1>4, <1>5 DEF SamePlayers

LEMMA SameTables ==
  ASSUME TypeOK
  PROVE  /\ UNCHANGED players => SamePlayers
         /\ UNCHANGED lives => SameLives
         /\ UNCHANGED sessions => ClosingSessions
  BY TableRows DEF TypeOK, SamePlayers, SameLives, ClosingSessions

-----------------------------------------------------------------------------
\* One lemma per action.

LEMMA Lookups ==
  /\ \A t : ByTag(t) \subseteq DOMAIN players
  /\ \A a : ByHash(a) \subseteq DOMAIN players
  /\ \A s, p : OpenSession(s, p) \subseteq DOMAIN sessions
  /\ \A s, p : OpenLife(s, p) \subseteq DOMAIN lives
  /\ \A s : OpenOn(s) \subseteq DOMAIN sessions
  /\ Stamps \subseteq Nat
<1>1. \A s, p : OpenSession(s, p) \subseteq DOMAIN sessions
  BY DEF OpenSession, First
<1>2. \A s, p : OpenLife(s, p) \subseteq DOMAIN lives
  BY DEF OpenLife, First
<1>3. Stamps \subseteq Nat
  BY BoundsAssumption DEF Stamps, Times
<1> QED
  BY <1>1, <1>2, <1>3 DEF ByTag, ByHash, OpenOn

LEMMA TypeOfRest ==
  ASSUME TypeOK, clock' \in Times, tagOf' \in [Accounts -> Tags],
         on' \in [Accounts -> Servers \cup {None}],
         SamePlayers, lives' \in Seq(LifeRow), sessions' \in Seq(SessionRow),
         kills' \subseteq KillRow,
         logbook' \in [session: SUBSET (Servers \X Accounts),
                       alive: SUBSET (Servers \X Accounts)]
  PROVE  TypeOK'
  BY DEF TypeOK, SamePlayers

LEMMA DisconnectedStep ==
  ASSUME TypeOK, Structure, NEW s \in Servers, NEW a \in Accounts,
         NEW at \in Stamps, Disconnected(s, a, at)
  PROVE  TypeOK' /\ Structure'
<1>1. at \in Nat /\ RowsExist
  BY Lookups DEF Structure
<1>2. SamePlayers /\ SameLives /\ ClosingSessions
  <2>1. CASE UNCHANGED <<players, lives, sessions>>
    BY <2>1, SameTables
  <2>2. ASSUME NEW p \in ByTag(tagOf[a]), players' = Touched(p, at),
               lives' = Credited(OpenSession(s, p), at, "clean"),
               sessions' = Closed(OpenSession(s, p), at, "clean")
        PROVE  SamePlayers /\ SameLives /\ ClosingSessions
    <3>1. p \in DOMAIN players /\ OpenSession(s, p) \in SUBSET DOMAIN sessions
      BY Lookups
    <3>2. "clean" \in CloseReasons
      BY DEF CloseReasons
    <3> QED
      BY <1>1, <2>2, <3>1, <3>2, TouchStep, ClosingStep
  <2> QED
    BY <2>1, <2>2 DEF Disconnected
<1>3. TypeOK'
  <2>1. logbook' \in [session: SUBSET (Servers \X Accounts),
                      alive: SUBSET (Servers \X Accounts)]
    BY DEF Disconnected, TypeOK
  <2> QED
    BY <1>2, <2>1, TypeOfRest
    DEF Disconnected, TypeOK, SameLives, ClosingSessions
<1> QED
  BY <1>2, <1>3, StructureKept

LEMMA RebootedStep ==
  ASSUME TypeOK, Structure, NEW s \in Servers, NEW at \in Stamps, Rebooted(s, at)
  PROVE  TypeOK' /\ Structure'
<1>1. at \in Nat /\ RowsExist /\ "reboot" \in CloseReasons
  BY Lookups DEF Structure, CloseReasons
<1>2. SamePlayers
  BY SameTables DEF Rebooted
<1>3. SameLives /\ ClosingSessions
  <2>1. OpenOn(s) \in SUBSET DOMAIN sessions
    BY Lookups
  <2> QED
    BY <1>1, <2>1, ClosingStep DEF Rebooted
<1>4. TypeOK'
  <2>1. logbook' \in [session: SUBSET (Servers \X Accounts),
                      alive: SUBSET (Servers \X Accounts)]
    BY DEF Rebooted, TypeOK
  <2>2. on' \in [Accounts -> Servers \cup {None}]
    BY DEF Rebooted, TypeOK
  <2> QED
    BY <1>2, <1>3, <2>1, <2>2, TypeOfRest
    DEF Rebooted, TypeOK, SameLives, ClosingSessions
<1> QED
  BY <1>2, <1>3, <1>4, StructureKept

LEMMA PositionStep ==
  ASSUME TypeOK, Structure, NEW s \in Servers, NEW a \in Accounts,
         NEW at \in Stamps, Position(s, a, at)
  PROVE  TypeOK' /\ Structure'
<1>1. at \in Nat
  BY Lookups
<1>2. SamePlayers /\ ClosingSessions
  <2>1. CASE UNCHANGED <<players, sessions>>
    BY <2>1, SameTables
  <2>2. ASSUME NEW p \in ByTag(tagOf[a]), players' = Touched(p, at),
               sessions' = Heard(s, a, at)
        PROVE  SamePlayers /\ ClosingSessions
    <3>1. SamePlayers
      BY <1>1, <2>2, Lookups, TouchStep
    <3>2. ASSUME NEW i \in DOMAIN sessions
          PROVE  /\ sessions'[i] \in SessionRow
                 /\ sessions'[i].server = sessions[i].server
                 /\ sessions'[i].player = sessions[i].player
                 /\ sessions'[i].life = sessions[i].life
                 /\ sessions'[i].to = sessions[i].to
      <4>1. sessions[i] \in SessionRow
        BY TableRows
      <4>2. sessions'[i] = sessions[i]
              \/ sessions'[i] = [sessions[i] EXCEPT !.heard = at]
        BY <2>2 DEF Heard
      <4> QED
        BY <1>1, <4>1, <4>2 DEF SessionRow
    <3>3. sessions' \in [1 .. Len(sessions) -> SessionRow]
      BY <2>2, <3>2, TableRows DEF Heard
    <3>4. sessions' \in Seq(SessionRow) /\ DOMAIN sessions' = DOMAIN sessions
      BY <3>3, TableRows, TableIsSeq
    <3> QED
      BY <3>1, <3>2, <3>4 DEF ClosingSessions
  <2> QED
    BY <2>1, <2>2 DEF Position
<1>3. SameLives
  BY SameTables DEF Position
<1>4. TypeOK'
  BY <1>2, <1>3, TypeOfRest DEF Position, TypeOK, SameLives, ClosingSessions
<1> QED
  BY <1>2, <1>3, <1>4, StructureKept

LEMMA GameStep ==
  ASSUME TypeOK, Structure,
         \/ Tick
         \/ \E a \in Accounts : Leave(a)
         \/ \E a \in Accounts, t \in Tags : Rename(a, t)
  PROVE  TypeOK' /\ Structure'
<1>1. UNCHANGED tables /\ UNCHANGED logbook
  BY DEF Tick, Leave, Rename
<1>2. SamePlayers /\ SameLives /\ ClosingSessions
  BY <1>1, SameTables DEF tables
<1>3. clock' \in Times /\ tagOf' \in [Accounts -> Tags]
      /\ on' \in [Accounts -> Servers \cup {None}]
  BY BoundsAssumption DEF TypeOK, Times, Tick, Leave, Rename
<1>4. TypeOK'
  BY <1>1, <1>2, <1>3, TypeOfRest DEF TypeOK, SameLives, ClosingSessions, tables
<1> QED
  BY <1>2, <1>4, StructureKept

\* A death of a life that is open.
LEMMA DiedAliveStep ==
  ASSUME TypeOK, Structure, NEW s \in Servers, NEW a \in Accounts,
         NEW at \in Nat, NEW d \in DeathLines(s), NEW p \in DOMAIN players,
         NEW l \in OpenLife(s, p), SamePlayers, DiedAlive(s, a, p, l, d, at)
  PROVE  /\ lives' \in Seq(LifeRow) /\ sessions' \in Seq(SessionRow)
         /\ kills' \subseteq KillRow /\ Structure'
<1> DEFINE open == OpenSession(s, p)
           C == Credited(open, at, "clean")
<1>1. /\ RowsExist /\ OpenRowsAgree /\ "clean" \in CloseReasons
      /\ open \in SUBSET DOMAIN sessions /\ l \in DOMAIN lives
      /\ IsOpenLife(l, s, p)
  BY Lookups DEF Structure, CloseReasons, OpenLife, First
<1>2. /\ C \in Seq(LifeRow) /\ Len(C) = Len(lives) /\ DOMAIN C = DOMAIN lives
      /\ \A m \in DOMAIN lives : /\ C[m].server = lives[m].server
                                 /\ C[m].player = lives[m].player
                                 /\ C[m].number = lives[m].number
                                 /\ C[m].end = lives[m].end
  BY <1>1, CreditedRows
<1>3. lives' = [C EXCEPT ![l] = Ended(C[l], d, at)]
  BY DEF DiedAlive
<1>4. C[l] \in LifeRow /\ l \in 1 .. Len(C)
  BY <1>1, <1>2, LenProperties, ElementOfSeq
<1> HIDE DEF C
<1>5. /\ Ended(C[l], d, at) \in LifeRow
      /\ Ended(C[l], d, at).server = C[l].server
      /\ Ended(C[l], d, at).player = C[l].player
      /\ Ended(C[l], d, at).number = C[l].number
      /\ Ended(C[l], d, at).end = at
  BY <1>4 DEF Ended, DeathLines, LifeRow
<1>6. lives' \in Seq(LifeRow) /\ DOMAIN lives' = DOMAIN lives
  BY <1>2, <1>3, <1>4, <1>5, ExceptSeq
<1>7. \A m \in DOMAIN lives : /\ lives'[m].server = lives[m].server
                              /\ lives'[m].player = lives[m].player
                              /\ lives'[m].number = lives[m].number
                              /\ m # l => lives'[m].end = lives[m].end
  BY <1>1, <1>2, <1>3, <1>5
<1>8. lives'[l].end # None
  BY <1>1, <1>2, <1>3, <1>5, NoneAssumption
<1>9. /\ sessions' \in Seq(SessionRow) /\ DOMAIN sessions' = DOMAIN sessions
      /\ \A i \in DOMAIN sessions :
           /\ sessions'[i].server = sessions[i].server
           /\ sessions'[i].player = sessions[i].player
           /\ sessions'[i].life = sessions[i].life
           /\ sessions'[i].to = None => sessions[i].to = None /\ i \notin open
  <2> DEFINE T == Closed(open, at, "clean")
  <2>1. /\ T \in Seq(SessionRow) /\ DOMAIN T = DOMAIN sessions
        /\ \A i \in DOMAIN sessions :
             /\ T[i].server = sessions[i].server /\ T[i].player = sessions[i].player
             /\ T[i].life = sessions[i].life
             /\ i \in open => T[i].to \in Nat
             /\ i \notin open => T[i] = sessions[i]
    BY <1>1, ClosedRows
  <2>2. sessions' = T
    BY DEF DiedAlive
  <2> HIDE DEF T
  <2> QED
    BY <2>1, <2>2, NoneAssumption
<1>10. kills' \subseteq KillRow
  <2>1. KillOf(s, a, p, l, d) \subseteq KillRow
    <3>1. p \in Nat /\ l \in Nat /\ d.killer \in Accounts \cup {None}
      BY <1>1, TableRows DEF DeathLines
    <3>2. PlayerNamed(tagOf[d.killer]) \in Nat \cup {None}
      BY Lookups, TableRows DEF PlayerNamed
    <3>3. d.killer # None => tagOf[d.killer] \in Tags
      BY <3>1 DEF TypeOK
    <3> QED
      BY <3>1, <3>2, <3>3 DEF KillOf, KillRow
  <2> QED
    BY <2>1 DEF DiedAlive, TypeOK
<1>11. RowsExist'
  BY <1>1, <1>6, <1>7, <1>9 DEF RowsExist, SamePlayers
<1>12. OneIdentityPerHash'
  BY DEF Structure, OneIdentityPerHash, SamePlayers
<1>13. OpenRowsAgree'
  <2>1. ASSUME NEW m \in DOMAIN lives', NEW n \in DOMAIN lives',
               lives'[m].end = None, lives'[n].end = None,
               lives'[m].server = lives'[n].server,
               lives'[m].player = lives'[n].player
        PROVE  m = n
    BY <2>1, <1>1, <1>6, <1>7, <1>8 DEF OpenRowsAgree
  <2>2. ASSUME NEW i \in DOMAIN sessions', NEW j \in DOMAIN sessions',
               sessions'[i].to = None, sessions'[j].to = None,
               sessions'[i].server = sessions'[j].server,
               sessions'[i].player = sessions'[j].player
        PROVE  i = j
    BY <2>2, <1>1, <1>9 DEF OpenRowsAgree
  <2>3. ASSUME NEW i \in DOMAIN sessions', sessions'[i].to = None
        PROVE  IsOpenLife(sessions[i].life, sessions[i].server, sessions[i].player)'
    <3>1. /\ i \in DOMAIN sessions /\ sessions[i].to = None /\ i \notin open
          /\ sessions[i].life \in DOMAIN lives
          /\ IsOpenLife(sessions[i].life, sessions[i].server, sessions[i].player)
      BY <2>3, <1>1, <1>9 DEF RowsExist, OpenRowsAgree
    <3>2. sessions[i].life # l
      <4>1. SUFFICES ASSUME sessions[i].life = l PROVE FALSE
        OBVIOUS
      <4>2. IsOpenSession(i, s, p)
        BY <1>1, <3>1, <4>1 DEF IsOpenLife, IsOpenSession
      <4>3. \A j \in DOMAIN sessions : IsOpenSession(j, s, p) => j = i
        BY <1>1, <3>1, <4>2 DEF OpenRowsAgree, IsOpenSession
      <4>4. {j \in DOMAIN sessions : IsOpenSession(j, s, p)} = {i}
        BY <3>1, <4>2, <4>3
      <4> QED
        BY <3>1, <4>4, FirstOfSet DEF OpenSession
    <3> QED
      BY <3>1, <3>2, <1>7, <1>9 DEF IsOpenLife
  <2> QED
    BY <2>1, <2>2, <2>3 DEF OpenRowsAgree
<1>14. LivesNumbered'
  BY <1>6, <1>7, NumbersKept DEF Structure
<1> QED
  BY <1>6, <1>9, <1>10, <1>11, <1>12, <1>13, <1>14 DEF Structure

\* A further line of a death already recorded.
LEMMA DiedAgainStep ==
  ASSUME TypeOK, NEW s \in Servers, NEW at \in Nat, NEW d \in DeathLines(s),
         NEW p, DiedAgain(s, p, d, at)
  PROVE  SameLives
<1>1. ASSUME NEW l \in DOMAIN lives
      PROVE  /\ lives'[l] \in LifeRow
             /\ lives'[l].server = lives[l].server
             /\ lives'[l].player = lives[l].player
             /\ lives'[l].number = lives[l].number
             /\ lives'[l].end = lives[l].end
  <2>1. lives[l] \in LifeRow
    BY TableRows
  <2>2. lives'[l] = lives[l] \/ lives'[l] = Enriched(lives[l], d)
    BY DEF DiedAgain
  <2>3. /\ d.cause \in Causes /\ d.stats \in Stats \cup {None}
    BY DEF DeathLines
  <2> DEFINE cause == IF lives[l].cause = "died" /\ d.cause # "died"
                      THEN d.cause ELSE lives[l].cause
             stats == IF lives[l].stats = None THEN d.stats ELSE lives[l].stats
  <2>4. Enriched(lives[l], d) = [lives[l] EXCEPT !.cause = cause, !.stats = stats]
    BY <2>1 DEF Enriched, LifeRow
  <2>5. cause \in Causes \cup {None} /\ stats \in Stats \cup {None}
    BY <2>1, <2>3 DEF LifeRow
  <2> HIDE DEF cause, stats
  <2> DEFINE row == [lives[l] EXCEPT !.cause = cause, !.stats = stats]
  <2>6. /\ row \in LifeRow
        /\ row.server = lives[l].server /\ row.player = lives[l].player
        /\ row.number = lives[l].number /\ row.end = lives[l].end
    BY <2>1, <2>5 DEF LifeRow
  <2>7. lives'[l] = lives[l] \/ lives'[l] = row
    BY <2>2, <2>4
  <2> HIDE DEF row
  <2> QED
    BY <2>1, <2>6, <2>7
<1>2. lives' \in [1 .. Len(lives) -> LifeRow]
  BY <1>1, TableRows DEF DiedAgain
<1>3. lives' \in Seq(LifeRow) /\ DOMAIN lives' = DOMAIN lives
  BY <1>2, TableRows, TableIsSeq
<1> QED
  BY <1>1, <1>3 DEF SameLives

LEMMA DiedStep ==
  ASSUME TypeOK, Structure, NEW s \in Servers, NEW a \in Accounts,
         NEW at \in Stamps, NEW d \in DeathLines(s), Died(s, a, d, at)
  PROVE  TypeOK' /\ Structure'
<1>1. at \in Nat
  BY Lookups
<1>2. SamePlayers
  BY SameTables DEF Died
<1>3. /\ lives' \in Seq(LifeRow) /\ sessions' \in Seq(SessionRow)
      /\ kills' \subseteq KillRow /\ Structure'
  <2>1. CASE UNCHANGED <<lives, sessions, kills>>
    BY <2>1, <1>2, SameTables, StructureKept
    DEF TypeOK, SameLives, ClosingSessions
  <2>2. ASSUME NEW p \in ByTag(tagOf[a]), NEW l \in OpenLife(s, p),
               DiedAlive(s, a, p, l, d, at)
        PROVE  /\ lives' \in Seq(LifeRow) /\ sessions' \in Seq(SessionRow)
               /\ kills' \subseteq KillRow /\ Structure'
    BY <1>1, <1>2, <2>2, Lookups, DiedAliveStep
  <2>3. ASSUME NEW p \in ByTag(tagOf[a]), DiedAgain(s, p, d, at)
        PROVE  /\ lives' \in Seq(LifeRow) /\ sessions' \in Seq(SessionRow)
               /\ kills' \subseteq KillRow /\ Structure'
    <3>1. SameLives /\ UNCHANGED <<sessions, kills>>
      BY <1>1, <2>3, DiedAgainStep DEF DiedAgain
    <3>2. ClosingSessions
      BY <3>1, SameTables
    <3> QED
      BY <1>2, <3>1, <3>2, StructureKept DEF TypeOK, SameLives, ClosingSessions
  <2> QED
    BY <2>1, <2>2, <2>3 DEF Died
<1>4. logbook' \in [session: SUBSET (Servers \X Accounts),
                    alive: SUBSET (Servers \X Accounts)]
  BY DEF Died, TypeOK
<1> QED
  BY <1>2, <1>3, <1>4, TypeOfRest DEF Died, TypeOK

-----------------------------------------------------------------------------
\* The connect line, which may open a player, a life and a session.

\* Any id a connect resolves to: a known player or the next row.
Ids == DOMAIN players \cup {Len(players) + 1}

LEMMA NumbersTaken ==
  ASSUME TypeOK, Structure, NEW s \in Servers, NEW p \in Ids
  PROVE  /\ IsFiniteSet(LivesOf(s, p))
         /\ Cardinality(LivesOf(s, p)) \in 0 .. Len(lives)
         /\ {lives[l].number : l \in LivesOf(s, p)}
              = 1 .. Cardinality(LivesOf(s, p))
         /\ NextNumber(s, p) = Cardinality(LivesOf(s, p)) + 1
<1> DEFINE n == Cardinality(LivesOf(s, p))
<1>1. Len(lives) \in Nat /\ DOMAIN lives = 1 .. Len(lives)
  BY TableRows
<1>2. IsFiniteSet(1 .. Len(lives)) /\ Cardinality(1 .. Len(lives)) = Len(lives)
  <2> DEFINE len == Len(lives)
  <2>1. 1 \in Int /\ len \in Int /\ len \in Nat
    BY <1>1
  <2> HIDE DEF len
  <2>2. /\ IsFiniteSet(1 .. len)
        /\ Cardinality(1 .. len) = IF 1 > len THEN 0 ELSE len - 1 + 1
    BY <2>1, FS_Interval
  <2>3. (IF 1 > len THEN 0 ELSE len - 1 + 1) = len
    BY <2>1
  <2> QED
    BY <2>2, <2>3 DEF len
<1>3. LivesOf(s, p) \in SUBSET (1 .. Len(lives))
  BY <1>1 DEF LivesOf
<1>4. IsFiniteSet(LivesOf(s, p)) /\ n \in 0 .. Len(lives)
  BY <1>1, <1>2, <1>3, FS_Subset, FS_CardinalityType
<1>5. {lives[l].number : l \in LivesOf(s, p)} = 1 .. n
  <2>1. CASE p \in DOMAIN players
    BY <2>1 DEF Structure, LivesNumbered
  <2>2. CASE p \notin DOMAIN players
    <3>1. LivesOf(s, p) = {}
      BY <2>2 DEF Structure, RowsExist, LivesOf
    <3> QED
      BY <3>1, FS_EmptySet
  <2> QED
    BY <2>1, <2>2
<1> HIDE DEF n
<1>6. \A l \in LivesOf(s, p) : lives[l].number \in 1 .. n
  BY <1>5
<1>7. n = 0 \/ \E l \in LivesOf(s, p) : lives[l].number = n
  <2>1. n \in 1 .. n \/ n = 0
    BY <1>4
  <2> QED
    BY <2>1, <1>5
<1> DEFINE Next1(m) == /\ \A l \in LivesOf(s, p) : lives[l].number < m
                       /\ m = 1 \/ \E l \in LivesOf(s, p) : lives[l].number = m - 1
<1>8. n + 1 \in 1 .. Len(lives) + 1 /\ Next1(n + 1)
  BY <1>1, <1>4, <1>6, <1>7
<1>9. ASSUME NEW m \in 1 .. Len(lives) + 1, Next1(m)
      PROVE  m = n + 1
  <2>1. m - 1 = 0 \/ m - 1 \in 1 .. n
    BY <1>6, <1>9
  <2>2. n = 0 \/ n < m
    BY <1>7, <1>9
  <2> QED
    BY <1>1, <1>4, <2>1, <2>2
<1>10. NextNumber(s, p) = n + 1
  BY <1>8, <1>9 DEF NextNumber
<1> QED
  BY <1>4, <1>5, <1>10 DEF n

LEMMA ConnectIdentity ==
  ASSUME TypeOK, Structure, NEW a \in Accounts, NEW at \in Nat,
         players' = ConnectedRow(a, at)
  PROVE  /\ IdentityOf(a) \in Ids
         /\ players' \in Seq(PlayerRow) /\ OneIdentityPerHash'
         /\ DOMAIN players \subseteq DOMAIN players'
         /\ IdentityOf(a) \in DOMAIN players'
         /\ DOMAIN players' \subseteq Ids
<1>1. /\ Len(players) \in Nat /\ DOMAIN players = 1 .. Len(players)
      /\ \A p \in DOMAIN players : players[p] \in PlayerRow
      /\ \A p, q \in DOMAIN players : players[p].hash = players[q].hash => p = q
      /\ players \in Seq(PlayerRow) /\ tagOf[a] \in Tags
  BY TableRows DEF Structure, OneIdentityPerHash, TypeOK
<1>2. CASE ByHash(a) = {}
  <2>1. \A p \in DOMAIN players : players[p].hash # a
    BY <1>1, <1>2 DEF ByHash
  <2>2. NewPlayer(a, at) \in PlayerRow /\ NewPlayer(a, at).hash = a
    BY <1>1 DEF NewPlayer, PlayerRow
  <2>3. players' = Append(players, NewPlayer(a, at)) /\ IdentityOf(a) = Len(players) + 1
    BY <1>2 DEF ConnectedRow, IdentityOf
  <2>4. /\ players' \in Seq(PlayerRow) /\ Len(players') = Len(players) + 1
        /\ \A p \in 1 .. Len(players) : players'[p] = players[p]
        /\ players'[Len(players) + 1] = NewPlayer(a, at)
    BY <1>1, <2>2, <2>3, AppendProperties
  <2>5. DOMAIN players' = 1 .. Len(players) + 1
    BY <2>4, LenProperties
  <2>6. OneIdentityPerHash'
    BY <1>1, <2>1, <2>2, <2>4, <2>5 DEF OneIdentityPerHash
  <2> QED
    BY <1>1, <2>3, <2>4, <2>5, <2>6 DEF Ids
<1>3. CASE ByHash(a) # {}
  <2> DEFINE p == IdentityOf(a)
             row == [players[p] EXCEPT !.tag = tagOf[a],
                                       !.names = players[p].names \cup {tagOf[a]},
                                       !.seen = at]
  <2>1. p \in DOMAIN players
    BY <1>3, Lookups DEF IdentityOf
  <2>2. row \in PlayerRow /\ row.hash = players[p].hash
    BY <1>1, <2>1 DEF PlayerRow
  <2>3. players' = [players EXCEPT ![p] = row]
    BY <1>1, <1>3, <2>1 DEF ConnectedRow, PlayerRow
  <2> HIDE DEF p, row
  <2>4. /\ players' \in Seq(PlayerRow) /\ DOMAIN players' = DOMAIN players
        /\ \A q \in DOMAIN players : players'[q].hash = players[q].hash
    BY <1>1, <2>1, <2>2, <2>3, ExceptSeq
  <2>5. OneIdentityPerHash'
    BY <1>1, <2>4 DEF OneIdentityPerHash
  <2> QED
    BY <2>1, <2>4, <2>5 DEF Ids, p
<1> QED
  BY <1>2, <1>3

LEMMA ConnectedStep ==
  ASSUME TypeOK, Structure, NEW s \in Servers, NEW a \in Accounts,
         NEW at \in Stamps, Connected(s, a, at)
  PROVE  TypeOK' /\ Structure'
<1> DEFINE p == IdentityOf(a)
           missed == OpenSession(s, p)
           C == Credited(missed, at, "superseded")
           T == Closed(missed, at, "superseded")
           born == OpenLife(s, p) = {}
           l == IF born THEN Len(lives) + 1 ELSE CHOOSE x \in OpenLife(s, p) : TRUE
           birth == NewLife(s, p, at)
           fresh == NewSession(s, p, l, at)
<1>1. /\ at \in Nat /\ RowsExist /\ OneIdentityPerHash /\ OpenRowsAgree
      /\ LivesNumbered /\ "superseded" \in CloseReasons
      /\ missed \in SUBSET DOMAIN sessions
  BY Lookups DEF Structure, CloseReasons
<1>2. /\ players' \in Seq(PlayerRow) /\ OneIdentityPerHash' /\ p \in Ids
      /\ DOMAIN players \subseteq DOMAIN players' /\ p \in DOMAIN players'
      /\ DOMAIN players' \subseteq Ids
  BY <1>1, ConnectIdentity DEF Connected
<1>3. /\ Len(players) \in Nat /\ DOMAIN players = 1 .. Len(players)
      /\ Len(lives) \in Nat /\ DOMAIN lives = 1 .. Len(lives)
      /\ Len(sessions) \in Nat /\ DOMAIN sessions = 1 .. Len(sessions)
  BY TableRows
<1>4. p \in Nat
  BY <1>2, <1>3 DEF Ids
<1>5. /\ C \in Seq(LifeRow) /\ Len(C) = Len(lives) /\ DOMAIN C = DOMAIN lives
      /\ \A m \in DOMAIN lives : /\ C[m].server = lives[m].server
                                 /\ C[m].player = lives[m].player
                                 /\ C[m].number = lives[m].number
                                 /\ C[m].end = lives[m].end
  BY <1>1, CreditedRows
<1>6. /\ T \in Seq(SessionRow) /\ Len(T) = Len(sessions)
      /\ \A i \in DOMAIN sessions :
           /\ T[i].server = sessions[i].server /\ T[i].player = sessions[i].player
           /\ T[i].life = sessions[i].life
           /\ T[i].to = None => sessions[i].to = None /\ i \notin missed
  <2>1. None \notin Nat
    BY NoneAssumption
  <2>2. /\ T \in Seq(SessionRow) /\ Len(T) = Len(sessions)
        /\ \A i \in DOMAIN sessions :
             /\ T[i].server = sessions[i].server /\ T[i].player = sessions[i].player
             /\ T[i].life = sessions[i].life
             /\ i \in missed => T[i].to \in Nat
             /\ i \notin missed => T[i] = sessions[i]
    BY <1>1, ClosedRows
  <2> HIDE DEF T, missed
  <2> QED
    BY <2>1, <2>2
<1>7. \A i \in DOMAIN sessions : i \notin missed => ~ IsOpenSession(i, s, p)
  <2>1. SUFFICES ASSUME NEW i \in DOMAIN sessions, IsOpenSession(i, s, p)
                 PROVE  i \in missed
    OBVIOUS
  <2>2. \A j \in DOMAIN sessions : IsOpenSession(j, s, p) => j = i
    BY <1>1, <2>1 DEF OpenRowsAgree, IsOpenSession
  <2>3. {j \in DOMAIN sessions : IsOpenSession(j, s, p)} = {i}
    BY <2>1, <2>2
  <2> QED
    BY <2>3, FirstOfSet DEF OpenSession
<1>8. /\ birth \in LifeRow /\ birth.server = s /\ birth.player = p
      /\ birth.end = None /\ birth.number = Cardinality(LivesOf(s, p)) + 1
  <2>1. NextNumber(s, p) = Cardinality(LivesOf(s, p)) + 1 /\ NextNumber(s, p) \in Nat
    BY <1>2, <1>3, NumbersTaken
  <2> QED
    BY <1>1, <1>4, <2>1 DEF NewLife, LifeRow
<1>9. ~ born => l \in DOMAIN lives /\ IsOpenLife(l, s, p)
  BY DEF OpenLife, First
<1>10. l \in Nat
  BY <1>3, <1>9
<1>11. /\ fresh \in SessionRow /\ fresh.server = s /\ fresh.player = p
       /\ fresh.life = l /\ fresh.to = None
  BY <1>1, <1>4, <1>10 DEF NewSession, SessionRow
<1>12. born => \A m \in DOMAIN lives : ~ IsOpenLife(m, s, p)
  BY FirstOfSet DEF OpenLife
<1>13. /\ lives' = IF born THEN Append(C, birth) ELSE C
       /\ sessions' = Append(T, fresh)
  BY DEF Connected
<1> HIDE DEF p, missed, C, T, born, l, birth, fresh
<1>14. /\ sessions' \in Seq(SessionRow) /\ DOMAIN sessions' = 1 .. Len(sessions) + 1
       /\ \A i \in DOMAIN sessions : sessions'[i] = T[i]
       /\ sessions'[Len(sessions) + 1] = fresh
  <2>1. Len(sessions') = Len(sessions) + 1 /\ sessions' \in Seq(SessionRow)
    BY <1>6, <1>11, <1>13, AppendProperties
  <2>2. DOMAIN sessions' = 1 .. Len(sessions')
    BY <2>1, LenProperties
  <2> QED
    BY <1>3, <1>6, <1>11, <1>13, <2>1, <2>2, AppendProperties
<1>15. /\ lives' \in Seq(LifeRow)
       /\ \A m \in DOMAIN lives : m \in DOMAIN lives' /\ lives'[m] = C[m]
       /\ born => DOMAIN lives' = 1 .. Len(lives) + 1 /\ lives'[Len(lives) + 1] = birth
       /\ ~ born => DOMAIN lives' = DOMAIN lives
  <2>1. CASE born
    <3>1. lives' \in Seq(LifeRow) /\ Len(lives') = Len(lives) + 1
      BY <1>5, <1>8, <1>13, <2>1, AppendProperties
    <3>2. DOMAIN lives' = 1 .. Len(lives')
      BY <3>1, LenProperties
    <3> QED
      BY <1>3, <1>5, <1>8, <1>13, <2>1, <3>1, <3>2, AppendProperties
  <2>2. CASE ~ born
    BY <1>5, <1>13, <2>2
  <2> QED
    BY <2>1, <2>2
<1>16. born => l = Len(lives) + 1
  BY DEF l
<1>17. /\ l \in DOMAIN lives' /\ lives'[l].server = s /\ lives'[l].player = p
       /\ lives'[l].end = None
  <2>1. CASE born
    BY <1>3, <1>8, <1>15, <1>16, <2>1
  <2>2. CASE ~ born
    BY <1>5, <1>9, <1>15, <2>2 DEF IsOpenLife
  <2> QED
    BY <2>1, <2>2
<1>18. TypeOK'
  <2>1. /\ on' \in [Accounts -> Servers \cup {None}]
        /\ logbook' \in [session: SUBSET (Servers \X Accounts),
                         alive: SUBSET (Servers \X Accounts)]
        /\ UNCHANGED <<clock, tagOf, kills>>
    BY DEF Connected, TypeOK
  <2> QED
    BY <1>2, <1>14, <1>15, <2>1 DEF TypeOK
<1>19. RowsExist'
  <2>1. ASSUME NEW m \in DOMAIN lives'
        PROVE  lives'[m].player \in DOMAIN players'
    <3>1. CASE m \in DOMAIN lives
      BY <1>1, <1>2, <1>5, <1>15, <3>1 DEF RowsExist
    <3>2. CASE m \notin DOMAIN lives
      <4>1. lives'[m] = birth
        BY <1>3, <1>15, <3>2
      <4> QED
        BY <1>2, <1>8, <4>1
    <3> QED
      BY <3>1, <3>2
  <2>2. ASSUME NEW i \in DOMAIN sessions'
        PROVE  /\ sessions'[i].player \in DOMAIN players'
               /\ sessions'[i].life \in DOMAIN lives'
    <3>1. CASE i \in DOMAIN sessions
      BY <1>1, <1>2, <1>6, <1>14, <1>15, <3>1 DEF RowsExist
    <3>2. CASE i \notin DOMAIN sessions
      <4>1. sessions'[i] = fresh
        BY <1>3, <1>14, <3>2
      <4> QED
        BY <1>2, <1>11, <1>17, <4>1
    <3> QED
      BY <3>1, <3>2
  <2> QED
    BY <2>1, <2>2 DEF RowsExist
<1>20. OpenRowsAgree'
  <2>1. \A m \in DOMAIN lives' :
          \/ /\ m \in DOMAIN lives /\ lives'[m].server = lives[m].server
             /\ lives'[m].player = lives[m].player /\ lives'[m].end = lives[m].end
          \/ m = l /\ born
    BY <1>3, <1>5, <1>15, <1>16
  <2>2. ASSUME NEW m \in DOMAIN lives', NEW n \in DOMAIN lives',
               lives'[m].end = None, lives'[n].end = None,
               lives'[m].server = lives'[n].server,
               lives'[m].player = lives'[n].player
        PROVE  m = n
    <3>1. CASE m = l /\ born
      BY <1>12, <1>17, <2>1, <2>2, <3>1 DEF IsOpenLife
    <3>2. CASE n = l /\ born
      BY <1>12, <1>17, <2>1, <2>2, <3>2 DEF IsOpenLife
    <3>3. CASE m \in DOMAIN lives /\ n \in DOMAIN lives
      BY <1>1, <1>5, <1>15, <2>2, <3>3 DEF OpenRowsAgree
    <3> QED
      BY <2>1, <3>1, <3>2, <3>3
  <2>3. \A i \in DOMAIN sessions' :
          sessions'[i].to = None =>
            \/ /\ i \in DOMAIN sessions /\ sessions[i].to = None
               /\ ~ IsOpenSession(i, s, p)
               /\ sessions'[i].server = sessions[i].server
               /\ sessions'[i].player = sessions[i].player
               /\ sessions'[i].life = sessions[i].life
            \/ i = Len(sessions) + 1
    BY <1>3, <1>6, <1>7, <1>14
  <2>4. ASSUME NEW i \in DOMAIN sessions', NEW j \in DOMAIN sessions',
               sessions'[i].to = None, sessions'[j].to = None,
               sessions'[i].server = sessions'[j].server,
               sessions'[i].player = sessions'[j].player
        PROVE  i = j
    BY <1>1, <1>11, <1>14, <2>3, <2>4 DEF OpenRowsAgree, IsOpenSession
  <2>5. ASSUME NEW i \in DOMAIN sessions', sessions'[i].to = None
        PROVE  IsOpenLife(sessions[i].life, sessions[i].server, sessions[i].player)'
    <3>1. CASE i = Len(sessions) + 1
      BY <1>11, <1>14, <1>17, <3>1 DEF IsOpenLife
    <3>2. CASE i \in DOMAIN sessions /\ sessions[i].to = None
      <4>1. /\ sessions[i].life \in DOMAIN lives
            /\ IsOpenLife(sessions[i].life, sessions[i].server, sessions[i].player)
        BY <1>1, <3>2 DEF RowsExist, OpenRowsAgree
      <4> QED
        BY <1>5, <1>6, <1>14, <1>15, <3>2, <4>1 DEF IsOpenLife
    <3> QED
      BY <2>3, <2>5, <3>1, <3>2
  <2> QED
    BY <2>2, <2>4, <2>5 DEF OpenRowsAgree
<1>21. LivesNumbered'
  <2> SUFFICES ASSUME NEW s2 \in Servers, NEW p2 \in DOMAIN players'
               PROVE  {lives'[m].number : m \in LivesOf(s2, p2)'}
                        = 1 .. Cardinality(LivesOf(s2, p2)')
    BY DEF LivesNumbered
  <2>1. /\ IsFiniteSet(LivesOf(s2, p2)) /\ Cardinality(LivesOf(s2, p2)) \in Nat
        /\ {lives[m].number : m \in LivesOf(s2, p2)}
             = 1 .. Cardinality(LivesOf(s2, p2))
    BY <1>2, <1>3, NumbersTaken
  <2>2. {lives'[m].number : m \in LivesOf(s2, p2)}
          = {lives[m].number : m \in LivesOf(s2, p2)}
    BY <1>5, <1>15 DEF LivesOf
  <2>3. CASE born /\ s2 = s /\ p2 = p
    <3>1. LivesOf(s2, p2)' = LivesOf(s2, p2) \cup {l}
      BY <1>3, <1>5, <1>8, <1>15, <1>16, <2>3 DEF LivesOf
    <3>2. l \notin LivesOf(s2, p2)
      BY <1>3, <1>16, <2>3 DEF LivesOf
    <3>3. Cardinality(LivesOf(s2, p2)') = Cardinality(LivesOf(s2, p2)) + 1
      BY <2>1, <3>1, <3>2, FS_AddElement
    <3>4. lives'[l].number = Cardinality(LivesOf(s2, p2)) + 1
      BY <1>8, <1>15, <1>16, <2>3
    <3>5. {lives'[m].number : m \in LivesOf(s2, p2)'}
            = {lives'[m].number : m \in LivesOf(s2, p2)} \cup {lives'[l].number}
      BY <3>1
    <3>6. \A n \in Nat : (1 .. n) \cup {n + 1} = 1 .. n + 1
      OBVIOUS
    <3> QED
      BY <2>1, <2>2, <3>3, <3>4, <3>5, <3>6
  <2>4. CASE ~ (born /\ s2 = s /\ p2 = p)
    <3>1. LivesOf(s2, p2)' = LivesOf(s2, p2)
      BY <1>3, <1>5, <1>8, <1>15, <2>4 DEF LivesOf
    <3> QED
      BY <2>1, <2>2, <3>1
  <2> QED
    BY <2>3, <2>4
<1> QED
  BY <1>2, <1>18, <1>19, <1>20, <1>21 DEF Structure

-----------------------------------------------------------------------------
\* The theorems.

LEMMA NextIInv == IInv /\ [Next]_vars => IInv'
<1> SUFFICES ASSUME TypeOK, Structure, [Next]_vars
             PROVE  TypeOK' /\ Structure'
  BY DEF IInv, Structure
<1>1. CASE UNCHANGED vars
  BY <1>1, SameTables, StructureKept DEF vars, TypeOK
<1>2. ASSUME NEW s \in Servers, NEW at \in Stamps, Line(s, at)
      PROVE  TypeOK' /\ Structure'
  BY <1>2, ConnectedStep, DisconnectedStep, PositionStep, DiedStep, RebootedStep
  DEF Line
<1>3. CASE \/ Tick
           \/ \E a \in Accounts : Leave(a)
           \/ \E a \in Accounts, t \in Tags : Rename(a, t)
  BY <1>3, GameStep
<1> QED
  BY <1>1, <1>2, <1>3 DEF Next

\* The fold keeps its tables well-typed and its rows consistent, whatever the
\* lines say, in whatever order and however late they are folded.
THEOREM Invariant == Spec => []IInv
<1>1. Init => IInv
  BY InitIInv
<1>2. IInv /\ [Next]_vars => IInv'
  BY NextIInv
<1> QED
  BY <1>1, <1>2, PTL DEF Spec

\* Every table holds rows of its type: no handler writes a malformed row.
THEOREM TypeCorrect == Spec => []TypeOK
<1>1. IInv => TypeOK
  BY DEF IInv
<1> QED
  BY <1>1, Invariant, PTL

\* A connect never gives one account two identities.
THEOREM IdentitiesUnique == Spec => []OneIdentityPerHash
<1>1. IInv => OneIdentityPerHash
  BY DEF IInv
<1> QED
  BY <1>1, Invariant, PTL

\* At most one open life and one open session per player and server, and the
\* session plays that life.
THEOREM OpenRowsCorrect == Spec => []OpenRowsAgree
<1>1. IInv => OpenRowsAgree
  BY DEF IInv
<1> QED
  BY <1>1, Invariant, PTL

\* The lives of a player on a server are numbered without a gap or a repeat.
THEOREM NumberingCorrect == Spec => []LivesNumbered
<1>1. IInv => LivesNumbered
  BY DEF IInv
<1> QED
  BY <1>1, Invariant, PTL

-----------------------------------------------------------------------------
\* Death is final.

Final(l) ==
  /\ lives'[l].end = lives[l].end
  /\ lives'[l].number = lives[l].number
  /\ lives'[l].play = lives[l].play
  /\ lives[l].cause # "died" => lives'[l].cause = lives[l].cause
  /\ lives[l].stats # None => lives'[l].stats = lives[l].stats

LEMMA OnlyTheLivingAreCredited ==
  ASSUME OpenRowsAgree, NEW S \in SUBSET DOMAIN sessions,
         \A i \in S : sessions[i].to = None,
         NEW at, NEW reason, NEW l \in DOMAIN lives, lives[l].end # None
  PROVE  Credited(S, at, reason)[l] = lives[l]
<1>1. \A i \in S : lives[sessions[i].life].end = None
  BY DEF OpenRowsAgree, IsOpenLife
<1> QED
  BY <1>1 DEF Credited

LEMMA LineIsFinal ==
  ASSUME IInv, NEW s \in Servers, NEW at \in Stamps, Line(s, at),
         NEW l \in DOMAIN lives, lives[l].end # None
  PROVE  Final(l)
<1>1. TypeOK /\ RowsExist /\ OpenRowsAgree /\ at \in Nat
  BY Lookups DEF IInv
<1>2. \A p : /\ OpenSession(s, p) \in SUBSET DOMAIN sessions
             /\ \A i \in OpenSession(s, p) : sessions[i].to = None
  BY DEF OpenSession, First, IsOpenSession
<1>3. CASE lives'[l] = lives[l]
  BY <1>3 DEF Final
<1>4. ASSUME NEW a \in Accounts, Connected(s, a, at)
      PROVE  lives'[l] = lives[l]
  <2> DEFINE p == IdentityOf(a)
             C == Credited(OpenSession(s, p), at, "superseded")
  <2>1. C[l] = lives[l]
    BY <1>1, <1>2, OnlyTheLivingAreCredited
  <2>2. lives' = C \/ \E birth : lives' = Append(C, birth)
    BY <1>4 DEF Connected
  <2>3. C \in Seq(LifeRow) /\ DOMAIN C = DOMAIN lives
    <3>1. "superseded" \in CloseReasons
      BY DEF CloseReasons
    <3> QED
      BY <1>1, <1>2, <3>1, CreditedRows
  <2>4. Len(C) \in Nat /\ DOMAIN C = 1 .. Len(C)
    BY <2>3, LenProperties
  <2> HIDE DEF C
  <2>5. \A birth : Append(C, birth)[l] = C[l]
    BY <2>3, <2>4
  <2> QED
    BY <2>1, <2>2, <2>5
<1>5. ASSUME NEW a \in Accounts, Disconnected(s, a, at) \/ Position(s, a, at)
      PROVE  lives'[l] = lives[l]
  BY <1>1, <1>2, <1>5, OnlyTheLivingAreCredited DEF Disconnected, Position
<1>6. CASE Rebooted(s, at)
  <2>1. OpenOn(s) \in SUBSET DOMAIN sessions /\ \A i \in OpenOn(s) : sessions[i].to = None
    BY DEF OpenOn
  <2>2. Credited(OpenOn(s), at, "reboot")[l] = lives[l]
    BY <1>1, <2>1, OnlyTheLivingAreCredited
  <2> QED
    BY <1>3, <1>6, <2>2 DEF Rebooted
<1>7. ASSUME NEW a \in Accounts, NEW d \in DeathLines(s), Died(s, a, d, at)
      PROVE  Final(l)
  <2>1. CASE UNCHANGED lives
    BY <1>3, <2>1
  <2>2. ASSUME NEW p, NEW m \in OpenLife(s, p), DiedAlive(s, a, p, m, d, at)
        PROVE  lives'[l] = lives[l]
    <3> DEFINE C == Credited(OpenSession(s, p), at, "clean")
    <3>1. m # l
      BY <2>2 DEF OpenLife, First, IsOpenLife
    <3>2. lives' = [C EXCEPT ![m] = Ended(@, d, at)] /\ C[l] = lives[l]
      BY <1>1, <1>2, <2>2, OnlyTheLivingAreCredited DEF DiedAlive
    <3>3. DOMAIN C = DOMAIN lives
      BY DEF Credited
    <3> HIDE DEF C
    <3> QED
      BY <3>1, <3>2, <3>3
  <2>3. ASSUME NEW p, DiedAgain(s, p, d, at)
        PROVE  Final(l)
    <3>1. lives'[l] = lives[l] \/ lives'[l] = Enriched(lives[l], d)
      BY <2>3 DEF DiedAgain
    <3>2. lives[l] \in LifeRow
      BY <1>1, TableRows
    <3>3. CASE lives'[l] = Enriched(lives[l], d)
      BY <3>2, <3>3 DEF Final, Enriched, LifeRow
    <3> QED
      BY <1>3, <3>1, <3>3
  <2> QED
    BY <1>3, <1>7, <2>1, <2>2, <2>3 DEF Died
<1> QED
  BY <1>3, <1>4, <1>5, <1>6, <1>7 DEF Line

\* A life that ended keeps its end, number and playtime: whatever session is
\* closed later, on whatever server and however late, credits a living character.
THEOREM DeathsAreFinal == Spec => DeathIsFinal
<1>1. IInv /\ [Next]_vars => [\A l \in DOMAIN lives : lives[l].end # None => Final(l)]_vars
  <2> SUFFICES ASSUME IInv, Next, NEW l \in DOMAIN lives, lives[l].end # None
               PROVE  Final(l)
    OBVIOUS
  <2>1. ASSUME NEW s \in Servers, NEW at \in Stamps, Line(s, at)
        PROVE  Final(l)
    BY <2>1, LineIsFinal
  <2>2. CASE UNCHANGED lives
    BY <2>2 DEF Final
  <2> QED
    BY <2>1, <2>2 DEF Next, Tick, Leave, Rename, tables
<1> QED
  BY <1>1, Invariant, PTL DEF Spec, DeathIsFinal, Final

-----------------------------------------------------------------------------
\* Lines in order.  With no lag a line is folded in the second it was written, and the
\* row its name leads to is the row of the account that wrote it.

Own(a) == {p \in DOMAIN players : players[p].hash = a}

\* A row that still carries the name of another account was last seen before
\* that account took the name, and so before it began to play under it.
NamesInv ==
  /\ \A a, b \in Accounts : tagOf[a] = tagOf[b] => a = b
  /\ \A p \in DOMAIN players : players[p].seen <= clock
  /\ \A a \in Accounts, p \in DOMAIN players :
       on[a] # None /\ players[p].hash = a => players[p].tag = tagOf[a]
  /\ \A a \in Accounts, q \in DOMAIN players :
       players[q].tag = tagOf[a] /\ players[q].hash # a =>
         /\ players[q].seen < clock
         /\ on[a] # None => \E p \in Own(a) : players[q].seen < players[p].seen

\* The session and the life of an account that a server's tables hold open.
PlaysOn(i, s, a) == /\ sessions[i].to = None /\ sessions[i].server = s
                    /\ players[sessions[i].player].hash = a
AliveOn(l, s, a) == /\ lives[l].end = None /\ lives[l].server = s
                    /\ players[lives[l].player].hash = a

LogInv ==
  \A s \in Servers, a \in Accounts :
    /\ <<s, a>> \in logbook.session <=> \E i \in DOMAIN sessions : PlaysOn(i, s, a)
    /\ <<s, a>> \in logbook.alive <=> \E l \in DOMAIN lives : AliveOn(l, s, a)

KillsInv ==
  /\ KillsCreditTheKiller
  /\ \A k \in kills : /\ k.life \in DOMAIN lives
                      /\ k.killer # None => k.killer \in DOMAIN players

\* LivesFollow, a life at a time: what was played fits between begin and end.
Fits(l) ==
  /\ lives[l].start + lives[l].play <= clock
  /\ lives[l].end # None => /\ lives[l].start + lives[l].play <= lives[l].end
                            /\ lives[l].end <= clock

\* What a life was played so far lies before its open session.
TimesInv ==
  /\ \A l \in DOMAIN lives : Fits(l)
  /\ \A l, m \in DOMAIN lives :
       /\ lives[l].server = lives[m].server /\ lives[l].player = lives[m].player
       /\ lives[l].number < lives[m].number
       => lives[l].end # None /\ lives[l].end <= lives[m].start
  /\ \A i \in DOMAIN sessions : sessions[i].to = None =>
       /\ sessions[i].from <= clock
       /\ lives[sessions[i].life].start + lives[sessions[i].life].play
            <= sessions[i].from

\* Of one server: what it showed last of a player is what their open session heard.
Honest(i) ==
  /\ sessions[i].reason \in {"superseded", "reboot"} =>
       sessions[i].to # None /\ sessions[i].to <= sessions[i].heard
  /\ sessions[i].to = None => /\ sessions[i].from <= sessions[i].heard
                              /\ players[sessions[i].player].seen <= sessions[i].heard

HeardInv == \A i \in DOMAIN sessions : Honest(i)

OrderInv == IInv /\ NamesInv /\ LogInv /\ KillsInv /\ TimesInv

\* Times are numbers.
LEMMA RowTimes ==
  ASSUME TypeOK
  PROVE  /\ clock \in Nat
         /\ \A p \in DOMAIN players : players[p].seen \in Nat
         /\ \A l \in DOMAIN lives : /\ lives[l].start \in Nat /\ lives[l].play \in Nat
                                    /\ lives[l].end # None => lives[l].end \in Nat
         /\ \A i \in DOMAIN sessions :
              /\ sessions[i].from \in Nat
              /\ sessions[i].to # None => sessions[i].to \in Nat
<1>1. clock \in Nat
  BY BoundsAssumption DEF TypeOK, Times
<1>2. \A p \in DOMAIN players : players[p].seen \in Nat
  BY TableRows DEF PlayerRow
<1>3. \A l \in DOMAIN lives : /\ lives[l].start \in Nat /\ lives[l].play \in Nat
                              /\ lives[l].end # None => lives[l].end \in Nat
  BY TableRows DEF LifeRow
<1>4. \A i \in DOMAIN sessions : /\ sessions[i].from \in Nat
                                 /\ sessions[i].to # None => sessions[i].to \in Nat
  BY TableRows DEF SessionRow
<1> QED
  BY <1>1, <1>2, <1>3, <1>4

-----------------------------------------------------------------------------
\* Where names lead.

LEMMA HashLeadsHome ==
  ASSUME TypeOK, OneIdentityPerHash, NEW a \in Accounts
  PROVE  ByHash(a) = Own(a)
<1>1. \A p \in DOMAIN players : p \in Nat
  BY TableRows
<1> QED
  BY <1>1 DEF ByHash, Own, OneIdentityPerHash

LEMMA NameLeadsHome ==
  ASSUME TypeOK, OneIdentityPerHash, NamesInv, NEW a \in Accounts, on[a] # None
  PROVE  ByTag(tagOf[a]) = Own(a)
<1>1. \A p \in DOMAIN players : p \in Nat /\ players[p].seen \in Nat
  BY TableRows DEF PlayerRow
<1>2. ASSUME NEW p \in ByTag(tagOf[a])
      PROVE  p \in Own(a)
  <2>1. /\ p \in DOMAIN players /\ players[p].tag = tagOf[a]
        /\ \A q \in DOMAIN players : players[q].tag = tagOf[a] => Outranks(p, q)
    BY DEF ByTag
  <2>2. SUFFICES ASSUME players[p].hash # a PROVE FALSE
    BY <2>1 DEF Own
  <2>3. PICK r \in Own(a) : players[p].seen < players[r].seen
    BY <2>1, <2>2 DEF NamesInv
  <2>4. r \in DOMAIN players /\ players[r].tag = tagOf[a]
    BY <2>3 DEF NamesInv, Own
  <2>5. Outranks(p, r)
    BY <2>1, <2>4
  <2> QED
    BY <1>1, <2>1, <2>3, <2>4, <2>5 DEF Outranks
<1>3. ASSUME NEW p \in Own(a)
      PROVE  p \in ByTag(tagOf[a])
  <2>1. p \in DOMAIN players /\ players[p].hash = a /\ players[p].tag = tagOf[a]
    BY DEF Own, NamesInv
  <2>2. ASSUME NEW q \in DOMAIN players, players[q].tag = tagOf[a]
        PROVE  Outranks(p, q)
    <3>1. CASE q = p
      BY <1>1, <2>1, <3>1 DEF Outranks
    <3>2. CASE q # p
      <4>1. players[q].hash # a
        BY <2>1, <3>2 DEF OneIdentityPerHash
      <4>2. PICK r \in Own(a) : players[q].seen < players[r].seen
        BY <2>2, <4>1 DEF NamesInv
      <4>3. r = p
        BY <2>1, <4>2 DEF Own, OneIdentityPerHash
      <4> QED
        BY <1>1, <2>1, <4>2, <4>3 DEF Outranks
    <3> QED
      BY <3>1, <3>2
  <2> QED
    BY <2>1, <2>2 DEF ByTag
<1> QED
  BY <1>2, <1>3

\* What a line of account a does to players: row r, the account's own, is seen under
\* the name it carries.
Sees(a, r) ==
  /\ r \in DOMAIN players' /\ players'[r].hash = a
  /\ players'[r].tag = tagOf[a] /\ players'[r].seen = clock
  /\ \A q \in DOMAIN players' \ {r} :
       q \in DOMAIN players /\ players'[q] = players[q] /\ players[q].hash # a
  /\ \A q \in DOMAIN players :
       q \in DOMAIN players' /\ players'[q].hash = players[q].hash

LEMMA TouchSees ==
  ASSUME TypeOK, OneIdentityPerHash, NamesInv, NEW a \in Accounts, on[a] # None,
         NEW p \in Own(a), players' = Touched(p, clock)
  PROVE  Sees(a, p)
<1>1. /\ p \in DOMAIN players /\ players[p].hash = a /\ players[p].tag = tagOf[a]
      /\ \A q \in DOMAIN players : players[q].hash = a => q = p
      /\ players[p] \in PlayerRow
  BY TableRows DEF Own, NamesInv, OneIdentityPerHash
<1>2. DOMAIN players' = DOMAIN players
  BY DEF Touched
<1>3. \A q \in DOMAIN players : q # p => players'[q] = players[q]
  BY DEF Touched
<1>4. players'[p] = [players[p] EXCEPT !.seen = clock]
  BY <1>1 DEF Touched
<1>5. players'[p].hash = a /\ players'[p].tag = tagOf[a] /\ players'[p].seen = clock
  BY <1>1, <1>4 DEF PlayerRow
<1> QED
  BY <1>1, <1>2, <1>3, <1>5 DEF Sees

LEMMA ConnectSees ==
  ASSUME TypeOK, OneIdentityPerHash, NEW a \in Accounts,
         players' = ConnectedRow(a, clock)
  PROVE  Sees(a, IdentityOf(a))
<1> DEFINE p == IdentityOf(a)
<1>1. /\ Len(players) \in Nat /\ DOMAIN players = 1 .. Len(players)
      /\ \A q \in DOMAIN players : players[q] \in PlayerRow
      /\ ByHash(a) = Own(a) /\ players \in Seq(PlayerRow) /\ tagOf[a] \in Tags
      /\ clock \in Nat
  BY TableRows, HashLeadsHome, BoundsAssumption DEF TypeOK, Times
<1>2. CASE ByHash(a) = {}
  <2> DEFINE row == NewPlayer(a, clock)
  <2>1. row \in PlayerRow /\ row.hash = a /\ row.tag = tagOf[a] /\ row.seen = clock
    BY <1>1 DEF NewPlayer, PlayerRow
  <2>2. players' = Append(players, row) /\ p = Len(players) + 1
    BY <1>2 DEF ConnectedRow, IdentityOf
  <2> HIDE DEF row
  <2>3. /\ players' \in Seq(PlayerRow) /\ Len(players') = Len(players) + 1
        /\ \A q \in 1 .. Len(players) : players'[q] = players[q]
        /\ players'[Len(players) + 1] = row
    BY <1>1, <2>1, <2>2, AppendProperties
  <2>4. DOMAIN players' = 1 .. Len(players) + 1
    BY <2>3, LenProperties
  <2>5. \A q \in DOMAIN players : players[q].hash # a
    BY <1>1, <1>2 DEF Own
  <2> QED
    BY <1>1, <2>1, <2>2, <2>3, <2>4, <2>5 DEF Sees
<1>3. CASE ByHash(a) # {}
  <2> DEFINE row == [players[p] EXCEPT !.tag = tagOf[a],
                                       !.names = players[p].names \cup {tagOf[a]},
                                       !.seen = clock]
  <2>1. p \in DOMAIN players /\ players[p].hash = a
    BY <1>1, <1>3 DEF IdentityOf, Own
  <2>2. row.hash = a /\ row.tag = tagOf[a] /\ row.seen = clock
    BY <1>1, <2>1 DEF PlayerRow
  <2>3. players' = [players EXCEPT ![p] = row]
    BY <1>1, <1>3, <2>1 DEF ConnectedRow, PlayerRow
  <2>4. \A q \in DOMAIN players : players[q].hash = a => q = p
    BY <2>1 DEF OneIdentityPerHash
  <2> HIDE DEF p, row
  <2> QED
    BY <2>1, <2>2, <2>3, <2>4 DEF Sees, p
<1> QED
  BY <1>2, <1>3

LEMMA NamesSeen ==
  ASSUME TypeOK, TypeOK', NamesInv, NEW a \in Accounts, NEW r, Sees(a, r),
         UNCHANGED <<clock, tagOf>>,
         \A b \in Accounts : b # a => on'[b] \in {on[b], None}
  PROVE  NamesInv'
<1>1. /\ \A p \in DOMAIN players : players[p].seen \in Nat
      /\ clock \in Nat
  BY TableRows, BoundsAssumption DEF PlayerRow, TypeOK, Times
<1>2. \A p \in DOMAIN players' : players'[p].seen <= clock'
  BY <1>1 DEF Sees, NamesInv
<1>3. ASSUME NEW b \in Accounts, NEW p \in DOMAIN players',
             on'[b] # None, players'[p].hash = b
      PROVE  players'[p].tag = tagOf'[b]
  BY <1>3 DEF Sees, NamesInv
<1>4. ASSUME NEW b \in Accounts, NEW q \in DOMAIN players',
             players'[q].tag = tagOf'[b], players'[q].hash # b
      PROVE  /\ players'[q].seen < clock'
             /\ on'[b] # None =>
                  \E p \in Own(b)' : players'[q].seen < players'[p].seen
  <2>1. /\ q # r /\ q \in DOMAIN players /\ players'[q] = players[q]
        /\ players[q].tag = tagOf[b] /\ players[q].hash # b
    BY <1>4 DEF Sees, NamesInv
  <2>2. players[q].seen < clock
    BY <2>1 DEF NamesInv
  <2>3. ASSUME on'[b] # None
        PROVE  \E p \in Own(b)' : players'[q].seen < players'[p].seen
    <3>1. CASE b = a
      <4>1. r \in Own(b)' /\ players'[r].seen = clock
        BY <3>1 DEF Sees, Own
      <4> QED
        BY <2>1, <2>2, <4>1
    <3>2. CASE b # a
      <4>1. on[b] # None
        BY <2>3, <3>2
      <4>2. PICK p \in Own(b) : players[q].seen < players[p].seen
        BY <2>1, <4>1 DEF NamesInv
      <4>3. p \in DOMAIN players' /\ p # r /\ players'[p] = players[p]
        BY <3>2, <4>2 DEF Sees, Own
      <4>4. p \in Own(b)'
        BY <4>2, <4>3 DEF Own
      <4> QED
        BY <2>1, <4>2, <4>3, <4>4
    <3> QED
      BY <3>1, <3>2
  <2> QED
    BY <2>1, <2>2, <2>3
<1>5. \A b, c \in Accounts : tagOf'[b] = tagOf'[c] => b = c
  BY DEF NamesInv
<1> QED
  BY <1>2, <1>3, <1>4, <1>5 DEF NamesInv

LEMMA NamesRest ==
  ASSUME TypeOK, TypeOK', NamesInv, UNCHANGED <<players, tagOf>>, clock <= clock',
         \A b \in Accounts : on'[b] \in {on[b], None}
  PROVE  NamesInv'
<1>1. /\ \A p \in DOMAIN players : players[p].seen \in Nat
      /\ clock \in Nat /\ clock' \in Nat
  BY TableRows, BoundsAssumption DEF PlayerRow, TypeOK, Times
<1>2. \A b : Own(b)' = Own(b)
  BY DEF Own
<1> QED
  BY <1>1, <1>2 DEF NamesInv

LEMMA NameTaken ==
  ASSUME TypeOK, NamesInv, NEW a \in Accounts, NEW t \in Tags, Rename(a, t)
  PROVE  NamesInv'
<1>1. /\ on[a] = None /\ \A b \in Accounts : tagOf[b] # t
      /\ \A p \in DOMAIN players : players[p].tag = t => players[p].seen < clock
      /\ UNCHANGED <<clock, on, players>>
      /\ tagOf'[a] = t /\ \A b \in Accounts : b # a => tagOf'[b] = tagOf[b]
  BY DEF Rename, tables, TypeOK
<1>2. \A b : Own(b)' = Own(b)
  BY <1>1 DEF Own
<1> QED
  BY <1>1, <1>2 DEF NamesInv

-----------------------------------------------------------------------------
\* Rows that are open, by account.

LEMMA OwnRows ==
  ASSUME TypeOK, Structure, NEW s \in Servers, NEW a \in Accounts, NEW p \in Own(a)
  PROVE  /\ OpenSession(s, p) = {i \in DOMAIN sessions : PlaysOn(i, s, a)}
         /\ OpenLife(s, p) = {l \in DOMAIN lives : AliveOn(l, s, a)}
<1>1. /\ RowsExist /\ OpenRowsAgree
      /\ \A q \in DOMAIN players : players[q].hash = a <=> q = p
  BY DEF Structure, OneIdentityPerHash, Own
<1>2. OpenSession(s, p) = {i \in DOMAIN sessions : IsOpenSession(i, s, p)}
  <2>1. \A i, j \in {i \in DOMAIN sessions : IsOpenSession(i, s, p)} : i = j
    BY <1>1 DEF OpenRowsAgree, IsOpenSession
  <2> QED
    BY <2>1, FirstOfSet DEF OpenSession
<1>3. OpenLife(s, p) = {l \in DOMAIN lives : IsOpenLife(l, s, p)}
  <2>1. \A l, m \in {l \in DOMAIN lives : IsOpenLife(l, s, p)} : l = m
    BY <1>1 DEF OpenRowsAgree, IsOpenLife
  <2> QED
    BY <2>1, FirstOfSet DEF OpenLife
<1>4. \A i \in DOMAIN sessions : IsOpenSession(i, s, p) <=> PlaysOn(i, s, a)
  BY <1>1 DEF RowsExist, IsOpenSession, PlaysOn
<1>5. \A l \in DOMAIN lives : IsOpenLife(l, s, p) <=> AliveOn(l, s, a)
  BY <1>1 DEF RowsExist, IsOpenLife, AliveOn
<1> QED
  BY <1>2, <1>3, <1>4, <1>5

LEMMA NobodysRows ==
  ASSUME RowsExist, NEW s, NEW a, Own(a) = {}
  PROVE  /\ \A i \in DOMAIN sessions : ~ PlaysOn(i, s, a)
         /\ \A l \in DOMAIN lives : ~ AliveOn(l, s, a)
  BY DEF RowsExist, Own, PlaysOn, AliveOn

HashesKept == \A q \in DOMAIN players :
                q \in DOMAIN players' /\ players'[q].hash = players[q].hash

LEMMA PlaysAfterClose ==
  ASSUME TypeOK, RowsExist, HashesKept, NEW S \in SUBSET DOMAIN sessions,
         NEW at \in Nat, NEW reason \in CloseReasons, NEW i \in DOMAIN sessions,
         sessions'[i] = Closed(S, at, reason)[i]
  PROVE  \A s, a : PlaysOn(i, s, a)' <=> PlaysOn(i, s, a) /\ i \notin S
<1>1. /\ sessions'[i].server = sessions[i].server
      /\ sessions'[i].player = sessions[i].player
      /\ sessions[i].player \in DOMAIN players
      /\ sessions'[i].to = None <=> sessions[i].to = None /\ i \notin S
  <2> DEFINE T == Closed(S, at, reason)
  <2>1. /\ T[i].server = sessions[i].server /\ T[i].player = sessions[i].player
        /\ i \in S => T[i].to \in Nat
        /\ i \notin S => T[i] = sessions[i]
    BY ClosedRows
  <2> HIDE DEF T
  <2>2. sessions'[i] = T[i]
    BY DEF T
  <2> QED
    BY <2>1, <2>2, NoneAssumption DEF RowsExist
<1> QED
  BY <1>1 DEF PlaysOn, HashesKept

LEMMA LivesAfterSameEnd ==
  ASSUME RowsExist, HashesKept, NEW l \in DOMAIN lives,
         lives'[l].server = lives[l].server, lives'[l].player = lives[l].player,
         lives'[l].end = lives[l].end
  PROVE  \A s, a : AliveOn(l, s, a)' <=> AliveOn(l, s, a)
  BY DEF RowsExist, HashesKept, AliveOn

LEMMA LogIs ==
  ASSUME TypeOK, RowsExist, LogInv
  PROVE  TablesFollowTheLog
<1> DEFINE PlaySet == {<<sessions[i].server, players[sessions[i].player].hash>> :
                         i \in {j \in DOMAIN sessions : sessions[j].to = None}}
           LifeSet == {<<lives[l].server, players[lives[l].player].hash>> :
                         l \in {m \in DOMAIN lives : lives[m].end = None}}
<1>1. /\ logbook.session \subseteq Servers \X Accounts
      /\ logbook.alive \subseteq Servers \X Accounts
  BY DEF TypeOK
<1>2. /\ \A i \in DOMAIN sessions : /\ sessions[i].server \in Servers
                                    /\ players[sessions[i].player].hash \in Accounts
      /\ \A l \in DOMAIN lives : /\ lives[l].server \in Servers
                                 /\ players[lives[l].player].hash \in Accounts
  BY TableRows DEF RowsExist, PlayerRow, SessionRow, LifeRow
<1>3. PlaySet \subseteq Servers \X Accounts /\ LifeSet \subseteq Servers \X Accounts
  BY <1>2
<1>4. ASSUME NEW s \in Servers, NEW a \in Accounts
      PROVE  /\ <<s, a>> \in PlaySet <=> \E i \in DOMAIN sessions : PlaysOn(i, s, a)
             /\ <<s, a>> \in LifeSet <=> \E l \in DOMAIN lives : AliveOn(l, s, a)
  BY DEF PlaysOn, AliveOn
<1> HIDE DEF PlaySet, LifeSet
<1>5. logbook.session = PlaySet
  <2>1. ASSUME NEW x \in Servers \X Accounts
        PROVE  x \in logbook.session <=> x \in PlaySet
    <3>1. PICK s \in Servers, a \in Accounts : x = <<s, a>>
      OBVIOUS
    <3> QED
      BY <1>4, <3>1 DEF LogInv
  <2> QED
    BY <1>1, <1>3, <2>1
<1>6. logbook.alive = LifeSet
  <2>1. ASSUME NEW x \in Servers \X Accounts
        PROVE  x \in logbook.alive <=> x \in LifeSet
    <3>1. PICK s \in Servers, a \in Accounts : x = <<s, a>>
      OBVIOUS
    <3> QED
      BY <1>4, <3>1 DEF LogInv
  <2> QED
    BY <1>1, <1>3, <2>1
<1> QED
  BY <1>5, <1>6 DEF TablesFollowTheLog, PlaySet, LifeSet

\* The log and the tables, when every pair's rows move as the log says.
LEMMA LogMoves ==
  ASSUME LogInv,
         \A s \in Servers, a \in Accounts :
           /\ \/ /\ <<s, a>> \in logbook'.session <=> <<s, a>> \in logbook.session
                 /\ (\E i \in DOMAIN sessions' : PlaysOn(i, s, a)') <=>
                      \E i \in DOMAIN sessions : PlaysOn(i, s, a)
              \/ /\ <<s, a>> \in logbook'.session
                 /\ \E i \in DOMAIN sessions' : PlaysOn(i, s, a)'
              \/ /\ <<s, a>> \notin logbook'.session
                 /\ ~ \E i \in DOMAIN sessions' : PlaysOn(i, s, a)'
           /\ \/ /\ <<s, a>> \in logbook'.alive <=> <<s, a>> \in logbook.alive
                 /\ (\E l \in DOMAIN lives' : AliveOn(l, s, a)') <=>
                      \E l \in DOMAIN lives : AliveOn(l, s, a)
              \/ /\ <<s, a>> \in logbook'.alive
                 /\ \E l \in DOMAIN lives' : AliveOn(l, s, a)'
              \/ /\ <<s, a>> \notin logbook'.alive
                 /\ ~ \E l \in DOMAIN lives' : AliveOn(l, s, a)'
  PROVE  LogInv'
<1> SUFFICES ASSUME NEW s \in Servers, NEW a \in Accounts
             PROVE  /\ <<s, a>> \in logbook'.session <=>
                         \E i \in DOMAIN sessions' : PlaysOn(i, s, a)'
                    /\ <<s, a>> \in logbook'.alive <=>
                         \E l \in DOMAIN lives' : AliveOn(l, s, a)'
  BY DEF LogInv
<1>1. /\ <<s, a>> \in logbook.session <=> \E i \in DOMAIN sessions : PlaysOn(i, s, a)
      /\ <<s, a>> \in logbook.alive <=> \E l \in DOMAIN lives : AliveOn(l, s, a)
  BY DEF LogInv
<1> QED
  BY <1>1


-----------------------------------------------------------------------------
\* The log and the tables agree, action by action.

\* Whose line it is; the row its name leads to.
LEMMA LineOfOwn ==
  ASSUME TypeOK, Structure, NamesInv, NEW s \in Servers, NEW a \in Accounts, on[a] = s
  PROVE  on[a] # None /\ ByTag(tagOf[a]) = Own(a)
<1>1. on[a] # None
  BY NoneAssumption
<1> QED
  BY <1>1, NameLeadsHome DEF Structure

LEMMA SessionLogRemoves ==
  ASSUME NEW s, NEW a, logbook' = [logbook EXCEPT !.session = @ \ {<<s, a>>}], TypeOK
  PROVE  /\ logbook'.session = logbook.session \ {<<s, a>>}
         /\ logbook'.alive = logbook.alive
  BY DEF TypeOK

LEMMA LogDisconnected ==
  ASSUME TypeOK, Structure, NamesInv, LogInv, NEW s \in Servers, NEW a \in Accounts,
         Disconnected(s, a, clock)
  PROVE  LogInv'
<1>1. /\ RowsExist /\ clock \in Nat /\ "clean" \in CloseReasons
      /\ on[a] # None /\ ByTag(tagOf[a]) = Own(a)
  BY LineOfOwn, BoundsAssumption DEF Disconnected, Structure, TypeOK, Times, CloseReasons
<1>2. /\ logbook'.session = logbook.session \ {<<s, a>>}
      /\ logbook'.alive = logbook.alive
  BY SessionLogRemoves DEF Disconnected
<1>3. CASE Own(a) = {} /\ UNCHANGED <<players, lives, sessions>>
  <2>1. \A i \in DOMAIN sessions : ~ PlaysOn(i, s, a)
    BY <1>1, <1>3, NobodysRows
  <2>2. <<s, a>> \notin logbook.session
    BY <2>1 DEF LogInv
  <2>3. logbook'.session = logbook.session
    BY <1>2, <2>2
  <2>4. /\ \A i, t, b : PlaysOn(i, t, b)' <=> PlaysOn(i, t, b)
        /\ \A l, t, b : AliveOn(l, t, b)' <=> AliveOn(l, t, b)
    BY <1>3 DEF PlaysOn, AliveOn
  <2> QED
    BY <1>2, <1>3, <2>3, <2>4 DEF LogInv
<1>4. ASSUME NEW p \in Own(a), players' = Touched(p, clock),
             lives' = Credited(OpenSession(s, p), clock, "clean"),
             sessions' = Closed(OpenSession(s, p), clock, "clean")
      PROVE  LogInv'
  <2> DEFINE S == OpenSession(s, p)
  <2>1. S = {i \in DOMAIN sessions : PlaysOn(i, s, a)}
    BY OwnRows
  <2>2. HashesKept
    BY <1>1, <1>4, TouchSees DEF Sees, HashesKept, Structure
  <2>3. S \in SUBSET DOMAIN sessions
    BY <2>1
  <2>4. DOMAIN sessions' = DOMAIN sessions /\ DOMAIN lives' = DOMAIN lives
    BY <1>4 DEF Closed, Credited
  <2>5. \A i \in DOMAIN sessions : \A t, b :
          PlaysOn(i, t, b)' <=> PlaysOn(i, t, b) /\ i \notin S
    BY <1>1, <1>4, <2>2, <2>3, PlaysAfterClose
  <2>6. \A l \in DOMAIN lives : \A t, b : AliveOn(l, t, b)' <=> AliveOn(l, t, b)
    BY <1>1, <1>4, <2>2, <2>3, CreditedRows, LivesAfterSameEnd
  <2> HIDE DEF S
  <2>7. ASSUME NEW t \in Servers, NEW b \in Accounts
        PROVE  \/ /\ <<t, b>> \in logbook'.session <=> <<t, b>> \in logbook.session
                  /\ (\E i \in DOMAIN sessions' : PlaysOn(i, t, b)') <=>
                       \E i \in DOMAIN sessions : PlaysOn(i, t, b)
               \/ /\ <<t, b>> \notin logbook'.session
                  /\ ~ \E i \in DOMAIN sessions' : PlaysOn(i, t, b)'
    <3>1. CASE t = s /\ b = a
      BY <1>2, <2>1, <2>4, <2>5, <3>1
    <3>2. CASE ~ (t = s /\ b = a)
      <4>1. \A i \in S : ~ PlaysOn(i, t, b)
        BY <2>1, <3>2 DEF PlaysOn
      <4> QED
        BY <1>2, <2>4, <2>5, <3>2, <4>1
    <3> QED
      BY <3>1, <3>2
  <2>8. ASSUME NEW t \in Servers, NEW b \in Accounts
        PROVE  /\ <<t, b>> \in logbook'.alive <=> <<t, b>> \in logbook.alive
               /\ (\E l \in DOMAIN lives' : AliveOn(l, t, b)') <=>
                    \E l \in DOMAIN lives : AliveOn(l, t, b)
    BY <1>2, <2>4, <2>6
  <2> QED
    BY <2>7, <2>8, LogMoves
<1> QED
  BY <1>1, <1>3, <1>4 DEF Disconnected

LEMMA LogRebooted ==
  ASSUME TypeOK, Structure, LogInv, NEW s \in Servers, Rebooted(s, clock)
  PROVE  LogInv'
<1> DEFINE S == OpenOn(s)
<1>1. /\ RowsExist /\ clock \in Nat /\ "reboot" \in CloseReasons
      /\ S \in SUBSET DOMAIN sessions /\ HashesKept
      /\ lives' = Credited(S, clock, "reboot") /\ sessions' = Closed(S, clock, "reboot")
  BY BoundsAssumption
  DEF Rebooted, Structure, TypeOK, Times, CloseReasons, OpenOn, HashesKept
<1>2. /\ logbook'.session = logbook.session \ ({s} \X Accounts)
      /\ logbook'.alive = logbook.alive
  BY DEF Rebooted, TypeOK
<1>3. DOMAIN sessions' = DOMAIN sessions /\ DOMAIN lives' = DOMAIN lives
  BY <1>1 DEF Closed, Credited
<1>4. \A i \in DOMAIN sessions : \A t, b :
        PlaysOn(i, t, b)' <=> PlaysOn(i, t, b) /\ i \notin S
  BY <1>1, PlaysAfterClose
<1>5. \A l \in DOMAIN lives : \A t, b : AliveOn(l, t, b)' <=> AliveOn(l, t, b)
  BY <1>1, CreditedRows, LivesAfterSameEnd
<1>6. \A i \in DOMAIN sessions : \A t, b : PlaysOn(i, t, b) => (i \in S <=> t = s)
  BY DEF PlaysOn, OpenOn
<1> HIDE DEF S
<1>7. ASSUME NEW t \in Servers, NEW b \in Accounts
      PROVE  \/ /\ <<t, b>> \in logbook'.session <=> <<t, b>> \in logbook.session
                /\ (\E i \in DOMAIN sessions' : PlaysOn(i, t, b)') <=>
                     \E i \in DOMAIN sessions : PlaysOn(i, t, b)
             \/ /\ <<t, b>> \notin logbook'.session
                /\ ~ \E i \in DOMAIN sessions' : PlaysOn(i, t, b)'
  <2>1. CASE t = s
    BY <1>2, <1>3, <1>4, <1>6, <2>1
  <2>2. CASE t # s
    BY <1>2, <1>3, <1>4, <1>6, <2>2
  <2> QED
    BY <2>1, <2>2
<1>8. ASSUME NEW t \in Servers, NEW b \in Accounts
      PROVE  /\ <<t, b>> \in logbook'.alive <=> <<t, b>> \in logbook.alive
             /\ (\E l \in DOMAIN lives' : AliveOn(l, t, b)') <=>
                  \E l \in DOMAIN lives : AliveOn(l, t, b)
  BY <1>2, <1>3, <1>5
<1> QED
  BY <1>7, <1>8, LogMoves

LEMMA LogPosition ==
  ASSUME TypeOK, Structure, NamesInv, LogInv, NEW s \in Servers, NEW a \in Accounts,
         Position(s, a, clock)
  PROVE  LogInv'
<1>1. /\ RowsExist /\ on[a] # None /\ ByTag(tagOf[a]) = Own(a)
      /\ UNCHANGED <<lives, logbook>>
  BY LineOfOwn DEF Position, Structure
<1>2. CASE UNCHANGED <<players, sessions>>
  <2>1. /\ \A i, t, b : PlaysOn(i, t, b)' <=> PlaysOn(i, t, b)
        /\ \A l, t, b : AliveOn(l, t, b)' <=> AliveOn(l, t, b)
    BY <1>1, <1>2 DEF PlaysOn, AliveOn
  <2> QED
    BY <1>1, <1>2, <2>1 DEF LogInv
<1>3. ASSUME NEW p \in Own(a), players' = Touched(p, clock),
             sessions' = Heard(s, a, clock)
      PROVE  LogInv'
  <2>1. HashesKept
    BY <1>1, <1>3, TouchSees DEF Sees, HashesKept, Structure
  <2>2. ASSUME NEW i \in DOMAIN sessions
        PROVE  \A t, b : PlaysOn(i, t, b)' <=> PlaysOn(i, t, b)
    <3>1. sessions[i] \in SessionRow
      BY TableRows
    <3>2. \/ sessions'[i] = sessions[i]
          \/ sessions'[i] = [sessions[i] EXCEPT !.heard = clock]
      BY <1>3 DEF Heard
    <3>3. /\ sessions'[i].to = sessions[i].to /\ sessions'[i].server = sessions[i].server
          /\ sessions'[i].player = sessions[i].player
      BY <3>1, <3>2 DEF SessionRow
    <3> QED
      BY <1>1, <2>1, <3>3 DEF PlaysOn, HashesKept, RowsExist
  <2>3. DOMAIN sessions' = DOMAIN sessions
    BY <1>3 DEF Heard
  <2>4. \A l \in DOMAIN lives : \A t, b : AliveOn(l, t, b)' <=> AliveOn(l, t, b)
    BY <1>1, <2>1, LivesAfterSameEnd
  <2> QED
    BY <1>1, <2>2, <2>3, <2>4, LogMoves
<1> QED
  BY <1>1, <1>2, <1>3 DEF Position


\* A death of an open life takes the session of the pair with it.
LEMMA DeathRows ==
  ASSUME TypeOK, Structure, NEW s \in Servers, NEW a \in Accounts, NEW p \in Own(a),
         NEW l \in OpenLife(s, p), NEW d \in DeathLines(s), clock \in Nat,
         HashesKept, DiedAlive(s, a, p, l, d, clock)
  PROVE  /\ DOMAIN sessions' = DOMAIN sessions /\ DOMAIN lives' = DOMAIN lives
         /\ \A i \in DOMAIN sessions : \A t, b :
              PlaysOn(i, t, b)' <=> PlaysOn(i, t, b) /\ ~ PlaysOn(i, s, a)
         /\ \A m \in DOMAIN lives : \A t, b :
              AliveOn(m, t, b)' <=> AliveOn(m, t, b) /\ m # l
         /\ \A m \in DOMAIN lives : AliveOn(m, s, a) <=> m = l
<1> DEFINE S == OpenSession(s, p)
           C == Credited(S, clock, "clean")
<1>1. /\ RowsExist /\ "clean" \in CloseReasons /\ S \in SUBSET DOMAIN sessions
      /\ S = {i \in DOMAIN sessions : PlaysOn(i, s, a)}
      /\ OpenLife(s, p) = {m \in DOMAIN lives : AliveOn(m, s, a)}
      /\ l \in DOMAIN lives
  BY OwnRows, Lookups DEF Structure, CloseReasons
<1>2. \A m \in OpenLife(s, p) : m = l
  BY FirstOfSet DEF OpenLife
<1>3. /\ DOMAIN C = DOMAIN lives /\ Len(C) = Len(lives) /\ C \in Seq(LifeRow)
      /\ \A m \in DOMAIN lives : /\ C[m].server = lives[m].server
                                 /\ C[m].player = lives[m].player
                                 /\ C[m].end = lives[m].end
  BY <1>1, CreditedRows
<1>4. lives' = [C EXCEPT ![l] = Ended(C[l], d, clock)]
      /\ sessions' = Closed(S, clock, "clean")
  BY DEF DiedAlive
<1>5. DOMAIN sessions' = DOMAIN sessions
  BY <1>4 DEF Closed
<1>6. \A i \in DOMAIN sessions : \A t, b :
        PlaysOn(i, t, b)' <=> PlaysOn(i, t, b) /\ i \notin S
  BY <1>1, <1>4, PlaysAfterClose
<1> HIDE DEF C, S
<1>7. C[l] \in LifeRow
  BY <1>1, <1>3, ElementOfSeq, LenProperties
<1>8. Ended(C[l], d, clock).end = clock
  BY <1>7 DEF Ended, LifeRow
<1>9. /\ DOMAIN lives' = DOMAIN lives
      /\ lives'[l].end = clock
      /\ \A m \in DOMAIN lives : m # l => lives'[m] = C[m]
  BY <1>1, <1>3, <1>4, <1>8
<1>10. \A m \in DOMAIN lives : \A t, b : AliveOn(m, t, b)' <=> AliveOn(m, t, b) /\ m # l
  <2>1. \A t, b : ~ AliveOn(l, t, b)'
    BY <1>9, NoneAssumption DEF AliveOn
  <2>2. \A m \in DOMAIN lives : m # l => \A t, b : AliveOn(m, t, b)' <=> AliveOn(m, t, b)
    BY <1>1, <1>3, <1>9, LivesAfterSameEnd
  <2> QED
    BY <2>1, <2>2
<1> QED
  BY <1>1, <1>2, <1>5, <1>6, <1>9, <1>10

LEMMA LogDied ==
  ASSUME TypeOK, Structure, NamesInv, LogInv, NEW s \in Servers, NEW a \in Accounts,
         NEW d \in DeathLines(s), Died(s, a, d, clock)
  PROVE  LogInv'
<1>1. /\ RowsExist /\ OpenRowsAgree /\ clock \in Nat /\ HashesKept
      /\ ByTag(tagOf[a]) = Own(a)
  BY LineOfOwn, BoundsAssumption DEF Died, Structure, TypeOK, Times, HashesKept
<1>2. /\ logbook'.session = logbook.session \ {<<s, a>>}
      /\ logbook'.alive = logbook.alive \ {<<s, a>>}
  BY DEF Died
<1>3. ASSUME DOMAIN sessions' = DOMAIN sessions, DOMAIN lives' = DOMAIN lives,
             \A i \in DOMAIN sessions : \A t, b :
               PlaysOn(i, t, b)' <=> PlaysOn(i, t, b) /\ ~ PlaysOn(i, s, a),
             \A m \in DOMAIN lives : \A t, b :
               AliveOn(m, t, b)' <=> AliveOn(m, t, b) /\ ~ AliveOn(m, s, a)
      PROVE  LogInv'
  <2>1. ASSUME NEW t \in Servers, NEW b \in Accounts, t = s /\ b = a
        PROVE  /\ <<t, b>> \notin logbook'.session
               /\ ~ \E i \in DOMAIN sessions' : PlaysOn(i, t, b)'
               /\ <<t, b>> \notin logbook'.alive
               /\ ~ \E l \in DOMAIN lives' : AliveOn(l, t, b)'
    BY <1>2, <1>3, <2>1
  <2>2. ASSUME NEW t \in Servers, NEW b \in Accounts, ~ (t = s /\ b = a)
        PROVE  /\ <<t, b>> \in logbook'.session <=> <<t, b>> \in logbook.session
               /\ (\E i \in DOMAIN sessions' : PlaysOn(i, t, b)') <=>
                    \E i \in DOMAIN sessions : PlaysOn(i, t, b)
               /\ <<t, b>> \in logbook'.alive <=> <<t, b>> \in logbook.alive
               /\ (\E l \in DOMAIN lives' : AliveOn(l, t, b)') <=>
                    \E l \in DOMAIN lives : AliveOn(l, t, b)
    <3>1. /\ \A i \in DOMAIN sessions : PlaysOn(i, t, b) => ~ PlaysOn(i, s, a)
          /\ \A l \in DOMAIN lives : AliveOn(l, t, b) => ~ AliveOn(l, s, a)
      BY <2>2 DEF PlaysOn, AliveOn
    <3>2. /\ \A i \in DOMAIN sessions : PlaysOn(i, t, b)' <=> PlaysOn(i, t, b)
          /\ \A l \in DOMAIN lives : AliveOn(l, t, b)' <=> AliveOn(l, t, b)
      BY <1>3, <3>1
    <3> QED
      BY <1>2, <1>3, <2>2, <3>2
  <2> QED
    BY <2>1, <2>2, LogMoves
<1>4. CASE Own(a) = {} /\ UNCHANGED <<lives, sessions>>
  <2>1. /\ \A i \in DOMAIN sessions : ~ PlaysOn(i, s, a)
        /\ \A l \in DOMAIN lives : ~ AliveOn(l, s, a)
    BY <1>1, <1>4, NobodysRows
  <2>2. /\ \A i, t, b : PlaysOn(i, t, b)' <=> PlaysOn(i, t, b)
        /\ \A l, t, b : AliveOn(l, t, b)' <=> AliveOn(l, t, b)
    BY <1>4 DEF PlaysOn, AliveOn, Died
  <2> QED
    BY <1>3, <1>4, <2>1, <2>2
<1>5. ASSUME NEW p \in Own(a), NEW l \in OpenLife(s, p), DiedAlive(s, a, p, l, d, clock)
      PROVE  LogInv'
  <2>1. /\ DOMAIN sessions' = DOMAIN sessions /\ DOMAIN lives' = DOMAIN lives
        /\ \A i \in DOMAIN sessions : \A t, b :
             PlaysOn(i, t, b)' <=> PlaysOn(i, t, b) /\ ~ PlaysOn(i, s, a)
        /\ \A m \in DOMAIN lives : \A t, b :
             AliveOn(m, t, b)' <=> AliveOn(m, t, b) /\ m # l
        /\ \A m \in DOMAIN lives : AliveOn(m, s, a) <=> m = l
    BY <1>1, <1>5, DeathRows
  <2> QED
    BY <1>3, <2>1
<1>6. ASSUME NEW p \in Own(a), DiedAgain(s, p, d, clock)
      PROVE  LogInv'
  <2>1. SameLives /\ UNCHANGED sessions
    BY <1>1, <1>6, DiedAgainStep DEF DiedAgain
  <2>2. \A m \in DOMAIN lives : ~ AliveOn(m, s, a)
    BY <1>6, OwnRows DEF DiedAgain
  <2>3. \A i \in DOMAIN sessions : ~ PlaysOn(i, s, a)
    <3>1. ASSUME NEW i \in DOMAIN sessions, PlaysOn(i, s, a)
          PROVE  AliveOn(sessions[i].life, s, a)
      BY <1>1, <3>1 DEF OpenRowsAgree, IsOpenLife, PlaysOn, AliveOn
    <3> QED
      BY <1>1, <2>2, <3>1 DEF RowsExist
  <2>4. \A m \in DOMAIN lives : \A t, b : AliveOn(m, t, b)' <=> AliveOn(m, t, b)
    BY <1>1, <2>1, LivesAfterSameEnd DEF SameLives
  <2>5. \A i, t, b : PlaysOn(i, t, b)' <=> PlaysOn(i, t, b)
    BY <2>1 DEF PlaysOn, Died
  <2> QED
    BY <1>3, <2>1, <2>2, <2>3, <2>4, <2>5 DEF SameLives
<1> QED
  BY <1>1, <1>4, <1>5, <1>6 DEF Died

\* What a connect does to the rows: the session that was missed closes, one opens,
\* and a life begins where none was open.
ConnectOpens(s, a, p, l) ==
  LET S == OpenSession(s, p)
      C == Credited(S, clock, "superseded")
      T == Closed(S, clock, "superseded")
      n == Len(sessions) + 1
      born == OpenLife(s, p) = {}
  IN  /\ DOMAIN sessions' = DOMAIN sessions \cup {n} /\ n \notin DOMAIN sessions
      /\ \A i \in DOMAIN sessions : sessions'[i] = T[i]
      /\ sessions'[n] = NewSession(s, p, l, clock)
      /\ \A m \in DOMAIN lives : m \in DOMAIN lives' /\ lives'[m] = C[m]
      /\ born => /\ l \notin DOMAIN lives /\ DOMAIN lives' = DOMAIN lives \cup {l}
                 /\ lives'[l] = NewLife(s, p, clock)
      /\ ~ born => l \in OpenLife(s, p) /\ DOMAIN lives' = DOMAIN lives

LEMMA Appended ==
  ASSUME NEW R, NEW f \in Seq(R), NEW x
  PROVE  /\ DOMAIN Append(f, x) = 1 .. Len(f) + 1
         /\ \A i \in 1 .. Len(f) : Append(f, x)[i] = f[i]
         /\ Append(f, x)[Len(f) + 1] = x
<1> DEFINE Q == R \cup {x}
<1>1. f \in Seq(Q)
  <2>1. /\ Len(f) \in Nat /\ DOMAIN f = 1 .. Len(f)
        /\ f \in [1 .. Len(f) -> R]
    BY LenProperties
  <2>2. f \in [1 .. Len(f) -> Q]
    BY <2>1
  <2> QED
    BY <2>1, <2>2, SeqDef
<1>2. x \in Q
  OBVIOUS
<1> HIDE DEF Q
<1>3. /\ Append(f, x) \in Seq(Q) /\ Len(Append(f, x)) = Len(f) + 1
      /\ \A i \in 1 .. Len(f) : Append(f, x)[i] = f[i]
      /\ Append(f, x)[Len(f) + 1] = x
  BY <1>1, <1>2, AppendProperties
<1> QED
  BY <1>3, LenProperties

LEMMA ConnectedRows ==
  ASSUME TypeOK, Structure, NEW s \in Servers, NEW a \in Accounts, clock \in Nat,
         Connected(s, a, clock)
  PROVE  \E l \in Nat : ConnectOpens(s, a, IdentityOf(a), l)
<1> DEFINE p == IdentityOf(a)
           S == OpenSession(s, p)
           C == Credited(S, clock, "superseded")
           T == Closed(S, clock, "superseded")
           born == OpenLife(s, p) = {}
           l == IF born THEN Len(lives) + 1 ELSE CHOOSE x \in OpenLife(s, p) : TRUE
           birth == NewLife(s, p, clock)
           fresh == NewSession(s, p, l, clock)
<1>1. /\ RowsExist /\ "superseded" \in CloseReasons /\ S \in SUBSET DOMAIN sessions
  BY Lookups DEF Structure, CloseReasons
<1>2. /\ Len(lives) \in Nat /\ DOMAIN lives = 1 .. Len(lives)
      /\ Len(sessions) \in Nat /\ DOMAIN sessions = 1 .. Len(sessions)
  BY TableRows
<1>3. C \in Seq(LifeRow) /\ Len(C) = Len(lives)
  BY <1>1, CreditedRows
<1>4. T \in Seq(SessionRow) /\ Len(T) = Len(sessions)
  BY <1>1, ClosedRows
<1>5. ~ born => l \in OpenLife(s, p) /\ l \in DOMAIN lives
  BY Lookups
<1>6. born => l = Len(lives) + 1
  OBVIOUS
<1>7. /\ lives' = IF born THEN Append(C, birth) ELSE C
      /\ sessions' = Append(T, fresh)
  BY DEF Connected
<1> HIDE DEF p, S, C, T, born, l, birth, fresh
<1>8. /\ DOMAIN sessions' = 1 .. Len(sessions) + 1
      /\ \A i \in DOMAIN sessions : sessions'[i] = T[i]
      /\ sessions'[Len(sessions) + 1] = fresh
  BY <1>2, <1>4, <1>7, Appended
<1>9. CASE born
  <2>1. /\ DOMAIN lives' = 1 .. Len(lives) + 1
        /\ \A m \in DOMAIN lives : lives'[m] = C[m]
        /\ lives'[Len(lives) + 1] = birth
    BY <1>2, <1>3, <1>7, <1>9, Appended
  <2>2. /\ l \in Nat /\ l \notin DOMAIN lives
        /\ DOMAIN lives' = DOMAIN lives \cup {l}
        /\ \A m \in DOMAIN lives : m \in DOMAIN lives'
    BY <1>2, <1>6, <1>9, <2>1
  <2>3. lives'[l] = birth
    BY <1>6, <1>9, <2>1
  <2>4. ConnectOpens(s, a, p, l)
    <3>1. /\ DOMAIN sessions' = DOMAIN sessions \cup {Len(sessions) + 1}
          /\ Len(sessions) + 1 \notin DOMAIN sessions
      BY <1>2, <1>8
    <3>2. born /\ l \notin DOMAIN lives /\ DOMAIN lives' = DOMAIN lives \cup {l}
      BY <1>9, <2>2
    <3>3. \A m \in DOMAIN lives : m \in DOMAIN lives' /\ lives'[m] = C[m]
      BY <2>1, <2>2
    <3> QED
      BY <1>8, <2>3, <3>1, <3>2, <3>3 DEF ConnectOpens, S, C, T, born, birth, fresh
  <2> QED
    BY <2>2, <2>4 DEF p
<1>10. CASE ~ born
  <2>1. lives' = C /\ DOMAIN C = DOMAIN lives
    BY <1>2, <1>3, <1>7, <1>10, LenProperties
  <2>2. l \in Nat /\ l \in OpenLife(s, p)
    BY <1>2, <1>5, <1>10
  <2>3. ConnectOpens(s, a, p, l)
    BY <1>2, <1>8, <1>10, <2>1, <2>2 DEF ConnectOpens, S, C, T, born, fresh
  <2> QED
    BY <2>2, <2>3 DEF p
<1> QED
  BY <1>9, <1>10

LEMMA LogConnected ==
  ASSUME TypeOK, Structure, LogInv, NEW s \in Servers, NEW a \in Accounts,
         Connected(s, a, clock)
  PROVE  LogInv'
<1>0. PICK p, n : p = IdentityOf(a) /\ n = Len(sessions) + 1
  OBVIOUS
<1> DEFINE S == OpenSession(s, p)
<1>1. /\ RowsExist /\ clock \in Nat /\ "superseded" \in CloseReasons
      /\ OneIdentityPerHash /\ S \in SUBSET DOMAIN sessions
  BY Lookups, BoundsAssumption DEF Structure, TypeOK, Times, CloseReasons
<1>2. /\ logbook'.session = logbook.session \cup {<<s, a>>}
      /\ logbook'.alive = logbook.alive \cup {<<s, a>>}
  BY DEF Connected
<1>3. Sees(a, p)
  BY <1>0, <1>1, ConnectSees DEF Connected
<1>4. HashesKept /\ p \in DOMAIN players' /\ players'[p].hash = a
  BY <1>3 DEF Sees, HashesKept
<1>5. PICK l \in Nat : ConnectOpens(s, a, p, l)
  BY <1>0, <1>1, ConnectedRows
<1>6. p \in DOMAIN players => players[p].hash = a
  BY <1>4 DEF HashesKept
<1>7. \A i \in S : PlaysOn(i, s, a)
  <2>1. \A i \in S : sessions[i].player = p /\ sessions[i].to = None /\ sessions[i].server = s
    BY DEF OpenSession, First, IsOpenSession
  <2> QED
    BY <1>1, <1>6, <2>1 DEF PlaysOn, RowsExist
<1>8. \A i \in DOMAIN sessions : \A t, b :
        PlaysOn(i, t, b)' <=> PlaysOn(i, t, b) /\ i \notin S
  <2>1. \A i \in DOMAIN sessions : sessions'[i] = Closed(S, clock, "superseded")[i]
    BY <1>5 DEF ConnectOpens
  <2> HIDE DEF S
  <2> QED
    BY <1>1, <1>4, <2>1, PlaysAfterClose
<1>9. /\ n \in DOMAIN sessions' /\ PlaysOn(n, s, a)'
      /\ DOMAIN sessions' = DOMAIN sessions \cup {n}
  <2>1. /\ DOMAIN sessions' = DOMAIN sessions \cup {n}
        /\ sessions'[n] = NewSession(s, p, l, clock)
    BY <1>0, <1>5 DEF ConnectOpens
  <2>2. /\ sessions'[n].to = None /\ sessions'[n].server = s
        /\ sessions'[n].player = p
    BY <2>1 DEF NewSession
  <2> QED
    BY <1>4, <2>1, <2>2 DEF PlaysOn
<1>10. \A t, b : PlaysOn(n, t, b)' => t = s /\ b = a
  BY <1>9 DEF PlaysOn
<1>11. \A m \in DOMAIN lives : \A t, b : AliveOn(m, t, b)' <=> AliveOn(m, t, b)
  <2> DEFINE C == Credited(S, clock, "superseded")
  <2>1. \A m \in DOMAIN lives : lives'[m] = C[m]
    BY <1>5 DEF ConnectOpens
  <2>2. \A m \in DOMAIN lives : /\ C[m].server = lives[m].server
                                /\ C[m].player = lives[m].player
                                /\ C[m].end = lives[m].end
    BY <1>1, CreditedRows
  <2> HIDE DEF C
  <2> QED
    BY <1>1, <1>4, <2>1, <2>2, LivesAfterSameEnd
<1>12. l \in DOMAIN lives' /\ AliveOn(l, s, a)'
  <2>1. CASE OpenLife(s, p) = {}
    <3>1. l \in DOMAIN lives' /\ lives'[l] = NewLife(s, p, clock)
      BY <1>5, <2>1 DEF ConnectOpens
    <3>2. /\ lives'[l].end = None /\ lives'[l].server = s /\ lives'[l].player = p
      BY <3>1 DEF NewLife
    <3> QED
      BY <1>4, <3>1, <3>2 DEF AliveOn
  <2>2. CASE OpenLife(s, p) # {}
    <3>1. l \in OpenLife(s, p) /\ l \in DOMAIN lives /\ l \in DOMAIN lives'
      BY <1>5, <2>2, Lookups DEF ConnectOpens
    <3>2. AliveOn(l, s, a)
      BY <1>1, <1>6, <3>1 DEF OpenLife, First, IsOpenLife, AliveOn, RowsExist
    <3> QED
      BY <1>11, <3>1, <3>2
  <2> QED
    BY <2>1, <2>2
<1>13. /\ \A m \in DOMAIN lives' : m \in DOMAIN lives \/ m = l
       /\ \A m \in DOMAIN lives : m \in DOMAIN lives'
  BY <1>5 DEF ConnectOpens
<1>14. \A t, b : AliveOn(l, t, b)' => t = s /\ b = a
  BY <1>12 DEF AliveOn
<1> HIDE DEF S
<1>15. ASSUME NEW t \in Servers, NEW b \in Accounts
       PROVE  /\ \/ /\ <<t, b>> \in logbook'.session <=> <<t, b>> \in logbook.session
                    /\ (\E i \in DOMAIN sessions' : PlaysOn(i, t, b)') <=>
                         \E i \in DOMAIN sessions : PlaysOn(i, t, b)
                 \/ /\ <<t, b>> \in logbook'.session
                    /\ \E i \in DOMAIN sessions' : PlaysOn(i, t, b)'
              /\ \/ /\ <<t, b>> \in logbook'.alive <=> <<t, b>> \in logbook.alive
                    /\ (\E m \in DOMAIN lives' : AliveOn(m, t, b)') <=>
                         \E m \in DOMAIN lives : AliveOn(m, t, b)
                 \/ /\ <<t, b>> \in logbook'.alive
                    /\ \E m \in DOMAIN lives' : AliveOn(m, t, b)'
  <2>1. CASE t = s /\ b = a
    <3>1. <<t, b>> \in logbook'.session /\ <<t, b>> \in logbook'.alive
      BY <1>2, <2>1
    <3>2. /\ \E i \in DOMAIN sessions' : PlaysOn(i, t, b)'
          /\ \E m \in DOMAIN lives' : AliveOn(m, t, b)'
      BY <1>9, <1>12, <2>1
    <3> QED
      BY <3>1, <3>2
  <2>2. CASE ~ (t = s /\ b = a)
    <3>1. \A i \in S : ~ PlaysOn(i, t, b)
      BY <1>7, <2>2 DEF PlaysOn
    <3>2. (\E i \in DOMAIN sessions' : PlaysOn(i, t, b)') <=>
            \E i \in DOMAIN sessions : PlaysOn(i, t, b)
      <4>1. ~ PlaysOn(n, t, b)'
        BY <1>10, <2>2
      <4>2. \A i \in DOMAIN sessions : PlaysOn(i, t, b)' <=> PlaysOn(i, t, b)
        BY <1>8, <3>1
      <4> QED
        BY <1>9, <4>1, <4>2
    <3>3. (\E m \in DOMAIN lives' : AliveOn(m, t, b)') <=>
            \E m \in DOMAIN lives : AliveOn(m, t, b)
      BY <1>11, <1>13, <1>14, <2>2
    <3> QED
      BY <1>2, <2>2, <3>2, <3>3
  <2> QED
    BY <2>1, <2>2
<1> QED
  BY <1>15, LogMoves


-----------------------------------------------------------------------------
\* Kills.

\* What every line leaves of the lives: where they belong, and what ended.
LivesLast == \A l \in DOMAIN lives :
               /\ l \in DOMAIN lives'
               /\ lives'[l].server = lives[l].server
               /\ lives'[l].player = lives[l].player

LEMMA KillsStay ==
  ASSUME KillsInv, UNCHANGED kills, HashesKept, LivesLast,
         \A l \in DOMAIN lives : lives[l].end # None => Final(l)
  PROVE  KillsInv'
<1>1. ASSUME NEW k \in kills
      PROVE  /\ k.killer # None => k.killer \in DOMAIN players'
                                   /\ players'[k.killer].hash = k.by
             /\ k.life \in DOMAIN lives'
             /\ lives'[k.life].cause = "pvp" /\ lives'[k.life].end # None
             /\ lives'[k.life].server = k.server /\ lives'[k.life].player = k.victim
  <2>1. /\ k.killer # None => k.killer \in DOMAIN players
                              /\ players[k.killer].hash = k.by
        /\ k.life \in DOMAIN lives
        /\ lives[k.life].cause = "pvp" /\ lives[k.life].end # None
        /\ lives[k.life].server = k.server /\ lives[k.life].player = k.victim
    BY DEF KillsInv, KillsCreditTheKiller
  <2>2. lives'[k.life].end = lives[k.life].end /\ lives'[k.life].cause = "pvp"
    BY <2>1 DEF Final
  <2> QED
    BY <2>1, <2>2 DEF HashesKept, LivesLast
<1>2. \A k, j \in kills : j.life = k.life => j = k
  BY DEF KillsInv, KillsCreditTheKiller
<1> QED
  BY <1>1, <1>2 DEF KillsInv, KillsCreditTheKiller

LEMMA KillCredited ==
  ASSUME TypeOK, Structure, NamesInv, KillsInv, NEW s \in Servers, NEW a \in Accounts,
         NEW p \in Own(a), NEW l \in OpenLife(s, p), NEW d \in DeathLines(s),
         clock \in Nat, UNCHANGED players, LivesLast,
         \A m \in DOMAIN lives : lives[m].end # None => Final(m),
         DiedAlive(s, a, p, l, d, clock)
  PROVE  KillsInv'
<1>1. /\ l \in DOMAIN lives /\ IsOpenLife(l, s, p) /\ HashesKept
      /\ kills' = kills \cup KillOf(s, a, p, l, d)
  BY Lookups DEF OpenLife, First, DiedAlive, HashesKept
<1>2. \A k \in kills : k.life # l
  BY <1>1 DEF KillsInv, KillsCreditTheKiller, IsOpenLife
<1>3. ASSUME NEW k \in kills
      PROVE  /\ k.killer # None => k.killer \in DOMAIN players'
                                   /\ players'[k.killer].hash = k.by
             /\ k.life \in DOMAIN lives'
             /\ lives'[k.life].cause = "pvp" /\ lives'[k.life].end # None
             /\ lives'[k.life].server = k.server /\ lives'[k.life].player = k.victim
  <2>1. /\ k.killer # None => k.killer \in DOMAIN players
                              /\ players[k.killer].hash = k.by
        /\ k.life \in DOMAIN lives
        /\ lives[k.life].cause = "pvp" /\ lives[k.life].end # None
        /\ lives[k.life].server = k.server /\ lives[k.life].player = k.victim
    BY DEF KillsInv, KillsCreditTheKiller
  <2>2. lives'[k.life].end = lives[k.life].end /\ lives'[k.life].cause = "pvp"
    BY <2>1 DEF Final
  <2> QED
    BY <1>1, <2>1, <2>2 DEF HashesKept, LivesLast
<1>4. ASSUME NEW k \in KillOf(s, a, p, l, d)
      PROVE  /\ k.killer # None => k.killer \in DOMAIN players'
                                   /\ players'[k.killer].hash = k.by
             /\ k.life = l /\ k.server = s /\ k.victim = p /\ d.cause = "pvp"
  <2>1. /\ d.killer # None /\ d.killer \in Accounts /\ on[d.killer] = s
        /\ d.cause = "pvp"
    BY DEF KillOf, DeathLines
  <2>2. k = [server |-> s, killer |-> PlayerNamed(tagOf[d.killer]),
             name |-> tagOf[d.killer], victim |-> p, life |-> l, by |-> d.killer]
    BY DEF KillOf
  <2>3. ByTag(tagOf[d.killer]) = Own(d.killer)
    BY <2>1, LineOfOwn
  <2>4. PlayerNamed(tagOf[d.killer]) = None
          \/ PlayerNamed(tagOf[d.killer]) \in Own(d.killer)
    BY <2>3 DEF PlayerNamed
  <2> QED
    BY <2>1, <2>2, <2>4 DEF Own
<1>5. \A j, k \in KillOf(s, a, p, l, d) : j = k
  BY DEF KillOf
<1>6. d.cause = "pvp" =>
        /\ lives'[l].cause = "pvp" /\ lives'[l].end # None
        /\ lives'[l].server = s /\ lives'[l].player = p /\ l \in DOMAIN lives'
  <2> DEFINE C == Credited(OpenSession(s, p), clock, "clean")
  <2>1. /\ C \in Seq(LifeRow) /\ DOMAIN C = DOMAIN lives
    BY Lookups, CreditedRows DEF Structure, CloseReasons
  <2>2. lives' = [C EXCEPT ![l] = Ended(C[l], d, clock)]
    BY DEF DiedAlive
  <2> HIDE DEF C
  <2>3. C[l] \in LifeRow
    BY <1>1, <2>1, ElementOfSeq, LenProperties
  <2>4. lives'[l] = Ended(C[l], d, clock)
    BY <1>1, <2>1, <2>2
  <2>5. lives'[l].cause = d.cause /\ lives'[l].end = clock
    BY <2>3, <2>4 DEF Ended, LifeRow
  <2> QED
    BY <1>1, <2>5, NoneAssumption DEF LivesLast, IsOpenLife
<1>7. ASSUME NEW k \in kills'
      PROVE  /\ k.killer # None => k.killer \in DOMAIN players'
                                   /\ players'[k.killer].hash = k.by
             /\ k.life \in DOMAIN lives'
             /\ lives'[k.life].cause = "pvp" /\ lives'[k.life].end # None
             /\ lives'[k.life].server = k.server /\ lives'[k.life].player = k.victim
  BY <1>1, <1>3, <1>4, <1>6
<1>8. \A j, k \in kills' : j.life = k.life => j = k
  <2>1. \A j, k \in kills : j.life = k.life => j = k
    BY DEF KillsInv, KillsCreditTheKiller
  <2> QED
    BY <1>1, <1>2, <1>4, <1>5, <2>1
<1> QED
  BY <1>7, <1>8 DEF KillsInv, KillsCreditTheKiller


-----------------------------------------------------------------------------
\* Time: what a close credits lies between the session's begin and now.

LEMMA CloseIsBetween ==
  ASSUME TypeOK, RowsExist, NamesInv, NEW i \in DOMAIN sessions,
         sessions[i].from <= clock, NEW reason
  PROVE  /\ sessions[i].from <= CloseTime(i, clock, reason)
         /\ CloseTime(i, clock, reason) <= clock
         /\ CloseTime(i, clock, reason) \in Nat
         /\ Played(i, clock, reason)
              = CloseTime(i, clock, reason) - sessions[i].from
<1>1. /\ sessions[i].from \in Nat /\ players[sessions[i].player].seen \in Nat
      /\ players[sessions[i].player].seen <= clock /\ clock \in Nat
  BY RowTimes DEF RowsExist, NamesInv
<1>2. /\ sessions[i].from <= CloseTime(i, clock, reason)
      /\ CloseTime(i, clock, reason) <= clock
      /\ CloseTime(i, clock, reason) \in Nat
  BY <1>1 DEF CloseTime, Heartbeat
<1> QED
  BY <1>1, <1>2 DEF Played, DurationSeconds

\* Rows of open sessions, closed now.
OpenOnes(S) == S \subseteq {i \in DOMAIN sessions : sessions[i].to = None}

LEMMA CreditIsPast ==
  ASSUME TypeOK, Structure, NamesInv, TimesInv, NEW S, OpenOnes(S),
         NEW reason \in CloseReasons, NEW l \in DOMAIN lives
  PROVE  LET C == Credited(S, clock, reason)
         IN  /\ C[l].start = lives[l].start
             /\ \/ C[l].play = lives[l].play
                \/ lives[l].end = None /\ C[l].start + C[l].play <= clock
             /\ \A i \in DOMAIN sessions \ S :
                  sessions[i].to = None /\ sessions[i].life = l => C[l].play = lives[l].play
<1> DEFINE C == Credited(S, clock, reason)
           c == CHOOSE i \in S : sessions[i].life = l
           more == Played(c, clock, reason)
<1>1. /\ lives[l] \in LifeRow /\ RowsExist /\ OpenRowsAgree /\ clock \in Nat
  BY TableRows, BoundsAssumption DEF Structure, TypeOK, Times
<1>2. CASE ~ \E i \in S : sessions[i].life = l
  <2>1. C[l] = lives[l]
    BY <1>2 DEF Credited
  <2> QED
    BY <2>1
<1>3. CASE \E i \in S : sessions[i].life = l
  <2>1. C[l] = [lives[l] EXCEPT !.play = lives[l].play + more]
    BY <1>3 DEF Credited
  <2>2. /\ c \in S /\ c \in DOMAIN sessions /\ sessions[c].life = l
        /\ sessions[c].to = None
    BY <1>3 DEF OpenOnes
  <2>3. /\ lives[l].end = None /\ sessions[c].from <= clock
        /\ lives[l].start + lives[l].play <= sessions[c].from
    BY <1>1, <2>2 DEF TimesInv, OpenRowsAgree, IsOpenLife
  <2> HIDE DEF c
  <2>4. /\ CloseTime(c, clock, reason) <= clock /\ CloseTime(c, clock, reason) \in Nat
        /\ more = CloseTime(c, clock, reason) - sessions[c].from
        /\ sessions[c].from <= CloseTime(c, clock, reason)
    BY <1>1, <2>2, <2>3, CloseIsBetween
  <2> HIDE DEF more, C
  <2>5. C[l].start = lives[l].start /\ C[l].play = lives[l].play + more
    BY <1>1, <2>1 DEF LifeRow
  <2>6. /\ lives[l].start \in Nat /\ lives[l].play \in Nat /\ sessions[c].from \in Nat
    BY <1>1, <2>2, TableRows DEF LifeRow, SessionRow
  <2>7. C[l].start + C[l].play <= clock
    BY <1>1, <2>3, <2>4, <2>5, <2>6
  <2>8. \A i \in DOMAIN sessions : sessions[i].to = None /\ sessions[i].life = l => i = c
    BY <1>1, <2>2 DEF OpenRowsAgree, IsOpenLife
  <2> QED
    BY <2>2, <2>3, <2>5, <2>7, <2>8 DEF C
<1> QED
  BY <1>2, <1>3

LEMMA TimesFollow ==
  ASSUME TypeOK, TimesInv
  PROVE  LivesFollow
<1>1. ASSUME NEW l \in DOMAIN lives
      PROVE  LET last == IF lives[l].end = None THEN clock ELSE lives[l].end
             IN  lives[l].start <= last /\ lives[l].play <= last - lives[l].start
  <2>1. lives[l] \in LifeRow
    BY TableRows
  <2>2. /\ lives[l].start \in Nat /\ lives[l].play \in Nat
        /\ lives[l].end # None => lives[l].end \in Nat
    BY <2>1 DEF LifeRow
  <2>3. clock \in Nat
    BY BoundsAssumption DEF TypeOK, Times
  <2>4. Fits(l)
    BY DEF TimesInv
  <2> QED
    BY <2>2, <2>3, <2>4 DEF Fits
<1> QED
  BY <1>1 DEF TimesInv, LivesFollow

LEMMA TimesClose ==
  ASSUME TypeOK, Structure, NamesInv, TimesInv, NEW S, OpenOnes(S),
         NEW reason \in CloseReasons, UNCHANGED clock,
         lives' = Credited(S, clock, reason), sessions' = Closed(S, clock, reason)
  PROVE  TimesInv'
<1> DEFINE C == Credited(S, clock, reason)
           T == Closed(S, clock, reason)
<1>1. /\ RowsExist /\ clock \in Nat /\ S \in SUBSET DOMAIN sessions
  BY BoundsAssumption DEF Structure, TypeOK, Times, OpenOnes
<1>2. /\ DOMAIN C = DOMAIN lives
      /\ \A l \in DOMAIN lives : /\ C[l].server = lives[l].server
                                 /\ C[l].player = lives[l].player
                                 /\ C[l].number = lives[l].number
                                 /\ C[l].end = lives[l].end
  BY <1>1, CreditedRows
<1>3. \A l \in DOMAIN lives :
        /\ C[l].start = lives[l].start
        /\ \/ C[l].play = lives[l].play
           \/ lives[l].end = None /\ C[l].start + C[l].play <= clock
        /\ \A i \in DOMAIN sessions \ S :
             sessions[i].to = None /\ sessions[i].life = l => C[l].play = lives[l].play
  BY CreditIsPast
<1>4. /\ DOMAIN T = DOMAIN sessions
      /\ \A i \in DOMAIN sessions :
           /\ i \in S => T[i].to \in Nat
           /\ i \notin S => T[i] = sessions[i]
  BY <1>1, ClosedRows
<1>5. lives' = C /\ sessions' = T
  OBVIOUS
<1> HIDE DEF C, T
<1>6. ASSUME NEW l \in DOMAIN lives'
      PROVE  Fits(l)'
  BY <1>2, <1>3, <1>5 DEF Fits, TimesInv
<1>7. ASSUME NEW l \in DOMAIN lives', NEW m \in DOMAIN lives',
             lives'[l].server = lives'[m].server, lives'[l].player = lives'[m].player,
             lives'[l].number < lives'[m].number
      PROVE  lives'[l].end # None /\ lives'[l].end <= lives'[m].start
  BY <1>2, <1>3, <1>5, <1>7 DEF TimesInv
<1>8. ASSUME NEW i \in DOMAIN sessions', sessions'[i].to = None
      PROVE  /\ sessions'[i].from <= clock'
             /\ lives'[sessions'[i].life].start + lives'[sessions'[i].life].play
                  <= sessions'[i].from
  <2>1. /\ i \in DOMAIN sessions \ S /\ sessions'[i] = sessions[i]
        /\ sessions[i].to = None /\ sessions[i].life \in DOMAIN lives
    BY <1>1, <1>4, <1>5, <1>8, NoneAssumption DEF RowsExist
  <2> QED
    BY <1>3, <1>5, <2>1 DEF TimesInv
<1> QED
  BY <1>6, <1>7, <1>8 DEF TimesInv

\* A step that touches no time of a life or session.
LEMMA TimesStay ==
  ASSUME TypeOK, RowsExist, TimesInv, clock <= clock', clock' \in Nat, SameLives,
         \A l \in DOMAIN lives : /\ lives'[l].start = lives[l].start
                                 /\ lives'[l].play = lives[l].play,
         DOMAIN sessions' = DOMAIN sessions,
         \A i \in DOMAIN sessions : /\ sessions'[i].to = sessions[i].to
                                    /\ sessions'[i].from = sessions[i].from
                                    /\ sessions'[i].life = sessions[i].life
  PROVE  TimesInv'
<1>1. ASSUME NEW l \in DOMAIN lives
      PROVE  /\ lives[l].start \in Nat /\ lives[l].play \in Nat
             /\ lives[l].end # None => lives[l].end \in Nat
             /\ clock \in Nat
  BY RowTimes
<1>2. ASSUME NEW l \in DOMAIN lives'
      PROVE  Fits(l)'
  BY <1>1 DEF Fits, TimesInv, SameLives
<1>3. ASSUME NEW i \in DOMAIN sessions', sessions'[i].to = None
      PROVE  /\ sessions'[i].from <= clock'
             /\ lives'[sessions'[i].life].start + lives'[sessions'[i].life].play
                  <= sessions'[i].from
  <2>1. /\ i \in DOMAIN sessions /\ sessions[i].life \in DOMAIN lives
        /\ sessions[i].from \in Nat /\ clock \in Nat
    BY <1>3, RowTimes DEF RowsExist
  <2> QED
    BY <1>3, <2>1 DEF TimesInv
<1> QED
  BY <1>2, <1>3 DEF TimesInv, SameLives

LEMMA TimesConnected ==
  ASSUME TypeOK, Structure, NamesInv, TimesInv, NEW s \in Servers, NEW a \in Accounts,
         Connected(s, a, clock)
  PROVE  TimesInv'
<1> DEFINE p == IdentityOf(a)
           S == OpenSession(s, p)
           C == Credited(S, clock, "superseded")
           T == Closed(S, clock, "superseded")
           n == Len(sessions) + 1
           birth == NewLife(s, p, clock)
           born == OpenLife(s, p) = {}
<1>1. /\ RowsExist /\ clock \in Nat /\ UNCHANGED clock /\ S \in SUBSET DOMAIN sessions
      /\ OpenOnes(S) /\ "superseded" \in CloseReasons
  BY BoundsAssumption
  DEF Structure, TypeOK, Times, OpenOnes, OpenSession, First, IsOpenSession,
      CloseReasons, Connected
<1>2. /\ DOMAIN C = DOMAIN lives
      /\ \A m \in DOMAIN lives : /\ C[m].server = lives[m].server
                                 /\ C[m].player = lives[m].player
                                 /\ C[m].number = lives[m].number
                                 /\ C[m].end = lives[m].end
  BY <1>1, CreditedRows
<1>3. \A m \in DOMAIN lives :
        /\ C[m].start = lives[m].start
        /\ \/ C[m].play = lives[m].play
           \/ lives[m].end = None /\ C[m].start + C[m].play <= clock
        /\ \A i \in DOMAIN sessions \ S :
             sessions[i].to = None /\ sessions[i].life = m => C[m].play = lives[m].play
  BY <1>1, CreditIsPast
<1>4. \A i \in DOMAIN sessions : /\ i \in S => T[i].to \in Nat
                                 /\ i \notin S => T[i] = sessions[i]
  BY <1>1, ClosedRows
<1>5. PICK l \in Nat : ConnectOpens(s, a, p, l)
  BY <1>1, ConnectedRows
<1>6. /\ DOMAIN sessions' = DOMAIN sessions \cup {n}
      /\ \A i \in DOMAIN sessions : sessions'[i] = T[i]
      /\ sessions'[n] = NewSession(s, p, l, clock)
      /\ \A m \in DOMAIN lives : m \in DOMAIN lives' /\ lives'[m] = C[m]
      /\ born => /\ l \notin DOMAIN lives /\ DOMAIN lives' = DOMAIN lives \cup {l}
                 /\ lives'[l] = birth
      /\ ~ born => l \in OpenLife(s, p) /\ DOMAIN lives' = DOMAIN lives
  BY <1>5 DEF ConnectOpens
<1>7. p \in Ids
  BY <1>1, ConnectIdentity DEF Connected
<1>8. /\ birth.server = s /\ birth.player = p /\ birth.start = clock
      /\ birth.end = None /\ birth.play = 0 /\ birth.number = NextNumber(s, p)
  BY DEF NewLife
<1>9. \A m \in DOMAIN lives : lives[m].server = s /\ lives[m].player = p =>
        lives[m].number < NextNumber(s, p) /\ lives[m].number \in Nat
  <2>1. ASSUME NEW m \in LivesOf(s, p)
        PROVE  lives[m].number < NextNumber(s, p) /\ lives[m].number \in Nat
    <3> DEFINE k == Cardinality(LivesOf(s, p))
    <3>1. /\ k \in Nat /\ NextNumber(s, p) = k + 1
          /\ {lives[x].number : x \in LivesOf(s, p)} = 1 .. k
      BY <1>7, NumbersTaken, TableRows
    <3> HIDE DEF k
    <3>2. lives[m].number \in 1 .. k
      BY <3>1
    <3> QED
      BY <3>1, <3>2
  <2> QED
    BY <2>1 DEF LivesOf
<1>10. born => \A m \in DOMAIN lives : lives[m].server = s /\ lives[m].player = p =>
         lives[m].end # None
  BY FirstOfSet DEF OpenLife, IsOpenLife
<1>11. ~ born => l \in DOMAIN lives /\ lives[l].end = None
  BY <1>6 DEF OpenLife, First, IsOpenLife
<1> HIDE DEF p, S, C, T, n, birth, born
<1>12. \A m \in DOMAIN lives' : m \in DOMAIN lives \/ (m = l /\ born)
  BY <1>6
<1>13. ASSUME NEW m \in DOMAIN lives
       PROVE  Fits(m)'
  BY <1>1, <1>2, <1>3, <1>6 DEF Fits, TimesInv
<1>14. born => Fits(l)'
  BY <1>1, <1>6, <1>8 DEF Fits
<1>15. ASSUME NEW k \in DOMAIN lives', NEW m \in DOMAIN lives',
              lives'[k].server = lives'[m].server, lives'[k].player = lives'[m].player,
              lives'[k].number < lives'[m].number
       PROVE  lives'[k].end # None /\ lives'[k].end <= lives'[m].start
  <2>1. CASE k \in DOMAIN lives /\ m \in DOMAIN lives
    BY <1>2, <1>3, <1>6, <1>15, <2>1 DEF TimesInv
  <2>2. CASE k \in DOMAIN lives /\ m = l /\ born
    <3>1. /\ lives[k].server = s /\ lives[k].player = p
          /\ lives'[k].end = lives[k].end /\ lives'[m].start = clock
      BY <1>2, <1>6, <1>8, <1>15, <2>2
    <3>2. lives[k].end # None /\ Fits(k)
      BY <1>10, <2>2, <3>1 DEF TimesInv
    <3> QED
      BY <3>1, <3>2 DEF Fits
  <2>3. CASE k = l /\ born /\ m \in DOMAIN lives
    <3>1. /\ lives[m].server = s /\ lives[m].player = p
          /\ NextNumber(s, p) < lives[m].number
      BY <1>2, <1>6, <1>8, <1>15, <2>3
    <3>2. NextNumber(s, p) \in Nat
      BY <1>7, NumbersTaken, TableRows
    <3> QED
      BY <1>9, <2>3, <3>1, <3>2
  <2>4. CASE k = l /\ m = l /\ born
    <3>1. NextNumber(s, p) \in Nat
      BY <1>7, NumbersTaken, TableRows
    <3> QED
      BY <1>6, <1>8, <1>15, <2>4, <3>1
  <2> QED
    BY <1>12, <2>1, <2>2, <2>3, <2>4
<1>16. ASSUME NEW i \in DOMAIN sessions', sessions'[i].to = None
       PROVE  /\ sessions'[i].from <= clock'
              /\ lives'[sessions'[i].life].start + lives'[sessions'[i].life].play
                   <= sessions'[i].from
  <2>1. CASE i \in DOMAIN sessions
    <3>1. /\ i \in DOMAIN sessions \ S /\ sessions'[i] = sessions[i]
          /\ sessions[i].to = None /\ sessions[i].life \in DOMAIN lives
      BY <1>1, <1>4, <1>6, <1>16, <2>1, NoneAssumption DEF RowsExist
    <3> QED
      BY <1>1, <1>3, <1>6, <3>1 DEF TimesInv
  <2>2. CASE i = n
    <3>1. sessions'[i].from = clock /\ sessions'[i].life = l
      BY <1>6, <2>2 DEF NewSession
    <3>2. l \in DOMAIN lives' /\ Fits(l)'
      BY <1>6, <1>11, <1>13, <1>14
    <3> QED
      BY <1>1, <3>1, <3>2 DEF Fits
  <2> QED
    BY <1>6, <2>1, <2>2
<1> QED
  BY <1>12, <1>13, <1>14, <1>15, <1>16 DEF TimesInv

LEMMA TimesDied ==
  ASSUME TypeOK, Structure, Structure', NamesInv, TimesInv, NEW s \in Servers, NEW a,
         NEW p, NEW l \in OpenLife(s, p), NEW d \in DeathLines(s),
         UNCHANGED clock, DiedAlive(s, a, p, l, d, clock)
  PROVE  TimesInv'
<1> DEFINE S == OpenSession(s, p)
           C == Credited(S, clock, "clean")
           T == Closed(S, clock, "clean")
<1>1. /\ RowsExist /\ clock \in Nat /\ S \in SUBSET DOMAIN sessions
      /\ OpenOnes(S) /\ "clean" \in CloseReasons
      /\ l \in DOMAIN lives /\ lives[l].end = None
  BY BoundsAssumption
  DEF Structure, TypeOK, Times, OpenOnes, OpenSession, First, IsOpenSession,
      CloseReasons, OpenLife, IsOpenLife
<1>2. /\ DOMAIN C = DOMAIN lives /\ C \in Seq(LifeRow) /\ Len(C) = Len(lives)
      /\ \A m \in DOMAIN lives : /\ C[m].server = lives[m].server
                                 /\ C[m].player = lives[m].player
                                 /\ C[m].number = lives[m].number
                                 /\ C[m].end = lives[m].end
  BY <1>1, CreditedRows
<1>3. \A m \in DOMAIN lives :
        /\ C[m].start = lives[m].start
        /\ \/ C[m].play = lives[m].play
           \/ lives[m].end = None /\ C[m].start + C[m].play <= clock
        /\ \A i \in DOMAIN sessions \ S :
             sessions[i].to = None /\ sessions[i].life = m => C[m].play = lives[m].play
  BY <1>1, CreditIsPast
<1>4. /\ DOMAIN T = DOMAIN sessions
      /\ \A i \in DOMAIN sessions : /\ i \in S => T[i].to \in Nat
                                    /\ i \notin S => T[i] = sessions[i]
  BY <1>1, ClosedRows
<1>5. lives' = [C EXCEPT ![l] = Ended(C[l], d, clock)] /\ sessions' = T
  BY DEF DiedAlive
<1> HIDE DEF S, C, T
<1>6. C[l] \in LifeRow
  BY <1>1, <1>2, ElementOfSeq, LenProperties
<1>7. /\ lives'[l].server = C[l].server /\ lives'[l].player = C[l].player
      /\ lives'[l].number = C[l].number /\ lives'[l].start = C[l].start
      /\ lives'[l].play = C[l].play /\ lives'[l].end = clock
  <2>1. lives'[l] = Ended(C[l], d, clock)
    BY <1>1, <1>2, <1>5
  <2> QED
    BY <1>6, <2>1 DEF Ended, LifeRow
<1>8. /\ DOMAIN lives' = DOMAIN lives
      /\ \A m \in DOMAIN lives : m # l => lives'[m] = C[m]
  BY <1>2, <1>5
<1>9. C[l].start + C[l].play <= clock
  BY <1>1, <1>3 DEF TimesInv, Fits
<1>10. ASSUME NEW m \in DOMAIN lives'
       PROVE  Fits(m)'
  <2>1. CASE m = l
    BY <1>1, <1>7, <1>9, <2>1 DEF Fits
  <2>2. CASE m # l
    BY <1>2, <1>3, <1>8, <2>2 DEF Fits, TimesInv
  <2> QED
    BY <2>1, <2>2
<1>11. \A m \in DOMAIN lives :
         /\ lives'[m].server = lives[m].server /\ lives'[m].player = lives[m].player
         /\ lives'[m].number = lives[m].number /\ lives'[m].start = lives[m].start
         /\ m # l => lives'[m].end = lives[m].end
  BY <1>1, <1>2, <1>3, <1>7, <1>8
<1>12. ASSUME NEW k \in DOMAIN lives', NEW m \in DOMAIN lives',
              lives'[k].server = lives'[m].server, lives'[k].player = lives'[m].player,
              lives'[k].number < lives'[m].number
       PROVE  lives'[k].end # None /\ lives'[k].end <= lives'[m].start
  <2>1. /\ lives[k].end # None /\ lives[k].end <= lives[m].start
    BY <1>8, <1>11, <1>12 DEF TimesInv
  <2> QED
    BY <1>1, <1>8, <1>11, <2>1
<1>13. ASSUME NEW i \in DOMAIN sessions', sessions'[i].to = None
       PROVE  /\ sessions'[i].from <= clock'
              /\ lives'[sessions'[i].life].start + lives'[sessions'[i].life].play
                   <= sessions'[i].from
  <2>1. /\ i \in DOMAIN sessions \ S /\ sessions'[i] = sessions[i]
        /\ sessions[i].to = None /\ sessions[i].life \in DOMAIN lives
    BY <1>1, <1>4, <1>5, <1>13, NoneAssumption DEF RowsExist
  <2>2. lives'[sessions[i].life].end = None
    BY <1>13, <2>1 DEF Structure, OpenRowsAgree, IsOpenLife
  <2>3. sessions[i].life # l
    BY <1>1, <1>7, <2>2, NoneAssumption
  <2> QED
    BY <1>3, <1>8, <2>1, <2>3 DEF TimesInv
<1> QED
  BY <1>10, <1>12, <1>13 DEF TimesInv

-----------------------------------------------------------------------------
\* What sessions heard.

LEMMA HeardClose ==
  ASSUME TypeOK, RowsExist, NamesInv, TimesInv, HeardInv, NEW S, OpenOnes(S),
         NEW reason \in CloseReasons, NEW i \in DOMAIN sessions,
         sessions'[i] = Closed(S, clock, reason)[i],
         sessions[i].to = None /\ i \notin S =>
           players'[sessions[i].player].seen = players[sessions[i].player].seen
  PROVE  Honest(i)'
<1>1. /\ sessions[i] \in SessionRow /\ Honest(i) /\ clock \in Nat
      /\ players[sessions[i].player].seen \in Nat
      /\ players[sessions[i].player].seen <= clock
  BY TableRows, BoundsAssumption
  DEF RowsExist, PlayerRow, HeardInv, NamesInv, TypeOK, Times
<1>2. CASE i \notin S
  <2>1. sessions'[i] = sessions[i]
    BY <1>2 DEF Closed
  <2> QED
    BY <1>1, <1>2, <2>1 DEF Honest
<1>3. CASE i \in S
  <2> DEFINE to == CloseTime(i, clock, reason)
             dur == Played(i, clock, reason)
  <2>1. sessions'[i] = [sessions[i] EXCEPT !.to = to, !.dur = dur, !.reason = reason]
    BY <1>3 DEF Closed
  <2>2. sessions[i].to = None /\ sessions[i].from <= clock
    BY <1>3 DEF OpenOnes, TimesInv
  <2>3. /\ sessions[i].from \in Nat /\ sessions[i].heard \in Nat
        /\ sessions[i].from <= sessions[i].heard
        /\ players[sessions[i].player].seen <= sessions[i].heard
    BY <1>1, <2>2 DEF Honest, SessionRow
  <2>4. to \in Nat /\ (reason # "clean" => to <= sessions[i].heard)
    BY <1>1, <2>2, <2>3 DEF CloseTime, Heartbeat
  <2> HIDE DEF to, dur
  <2>5. /\ sessions'[i].to = to /\ sessions'[i].reason = reason
        /\ sessions'[i].heard = sessions[i].heard
    BY <1>1, <2>1 DEF SessionRow
  <2>6. to # None
    BY <2>4, NoneAssumption
  <2> QED
    BY <2>4, <2>5, <2>6 DEF Honest
<1> QED
  BY <1>2, <1>3

OneServer == \A s, t \in Servers : s = t

\* Of one server, a player's open session is the one a line of theirs is about.
LEMMA OthersPlay ==
  ASSUME TypeOK, Structure, OneServer, NEW s \in Servers, NEW p,
         NEW i \in DOMAIN sessions, sessions[i].to = None, i \notin OpenSession(s, p)
  PROVE  sessions[i].player # p
<1>1. SUFFICES ASSUME sessions[i].player = p PROVE FALSE
  OBVIOUS
<1>2. IsOpenSession(i, s, p)
  BY <1>1, TableRows DEF OneServer, IsOpenSession, SessionRow
<1>3. {j \in DOMAIN sessions : IsOpenSession(j, s, p)} = {i}
  BY <1>2 DEF Structure, OpenRowsAgree, IsOpenSession
<1> QED
  BY <1>3, FirstOfSet DEF OpenSession

LEMMA OpenAreOpen ==
  /\ \A s, p : OpenOnes(OpenSession(s, p))
  /\ \A s : OpenOnes(OpenOn(s))
  BY DEF OpenOnes, OpenSession, First, IsOpenSession, OpenOn

LEMMA HeardLine ==
  ASSUME TypeOK, Structure, NamesInv, TimesInv, HeardInv, OneServer,
         NEW s \in Servers, Line(s, clock)
  PROVE  HeardInv'
<1>1. /\ RowsExist /\ OneIdentityPerHash /\ clock \in Nat
      /\ "clean" \in CloseReasons /\ "superseded" \in CloseReasons
      /\ "reboot" \in CloseReasons
  BY BoundsAssumption DEF Structure, TypeOK, Times, CloseReasons
<1>0. None \notin {"superseded", "reboot"}
  BY NoneAssumption
<1>2. ASSUME UNCHANGED <<players, sessions>>
      PROVE  HeardInv'
  BY <1>2 DEF HeardInv, Honest
<1>3. ASSUME NEW a \in Accounts, Connected(s, a, clock)
      PROVE  HeardInv'
  <2>0. PICK p, n : p = IdentityOf(a) /\ n = Len(sessions) + 1
    OBVIOUS
  <2> DEFINE S == OpenSession(s, p)
  <2>1. Sees(a, p)
    BY <1>1, <1>3, <2>0, ConnectSees DEF Connected
  <2>2. PICK l \in Nat : ConnectOpens(s, a, p, l)
    BY <1>1, <1>3, <2>0, ConnectedRows
  <2>3. ASSUME NEW i \in DOMAIN sessions
        PROVE  Honest(i)'
    <3>1. sessions'[i] = Closed(S, clock, "superseded")[i]
      BY <2>2 DEF ConnectOpens
    <3>2. ASSUME sessions[i].to = None, i \notin S
          PROVE  players'[sessions[i].player].seen = players[sessions[i].player].seen
      <4>1. sessions[i].player # p /\ sessions[i].player \in DOMAIN players
        BY <1>1, <3>2, OthersPlay DEF RowsExist
      <4> QED
        BY <2>1, <4>1 DEF Sees
    <3> QED
      BY <1>1, <3>1, <3>2, OpenAreOpen, HeardClose
  <2>4. Honest(n)'
    <3>1. sessions'[n] = NewSession(s, p, l, clock)
      BY <2>0, <2>2 DEF ConnectOpens
    <3>2. /\ sessions'[n].reason = None /\ sessions'[n].from = clock
          /\ sessions'[n].heard = clock /\ sessions'[n].player = p
      BY <3>1 DEF NewSession
    <3>3. players'[p].seen = clock
      BY <2>1 DEF Sees
    <3> QED
      <4> QED
        BY <1>0, <1>1, <3>2, <3>3 DEF Honest
  <2>5. DOMAIN sessions' = DOMAIN sessions \cup {n}
    BY <2>0, <2>2 DEF ConnectOpens
  <2> QED
    BY <2>3, <2>4, <2>5 DEF HeardInv
<1>4. ASSUME NEW a \in Accounts, Disconnected(s, a, clock)
      PROVE  HeardInv'
  <2>1. on[a] # None /\ ByTag(tagOf[a]) = Own(a)
    BY <1>4, LineOfOwn DEF Disconnected
  <2>2. ASSUME NEW p \in Own(a), players' = Touched(p, clock),
               sessions' = Closed(OpenSession(s, p), clock, "clean")
        PROVE  HeardInv'
    <3>1. Sees(a, p)
      BY <1>1, <2>1, <2>2, TouchSees
    <3>2. ASSUME NEW i \in DOMAIN sessions
          PROVE  Honest(i)'
      <4>1. ASSUME sessions[i].to = None, i \notin OpenSession(s, p)
            PROVE  players'[sessions[i].player].seen = players[sessions[i].player].seen
        <5>1. sessions[i].player # p /\ sessions[i].player \in DOMAIN players
          BY <1>1, <4>1, OthersPlay DEF RowsExist
        <5> QED
          BY <3>1, <5>1 DEF Sees
      <4> QED
        BY <1>1, <2>2, <4>1, OpenAreOpen, HeardClose
    <3>3. DOMAIN sessions' = DOMAIN sessions
      BY <2>2 DEF Closed
    <3> QED
      BY <3>2, <3>3 DEF HeardInv
  <2> QED
    BY <1>2, <1>4, <2>1, <2>2 DEF Disconnected
<1>5. ASSUME NEW a \in Accounts, Position(s, a, clock)
      PROVE  HeardInv'
  <2>1. on[a] # None /\ ByTag(tagOf[a]) = Own(a)
    BY <1>5, LineOfOwn DEF Position
  <2>2. ASSUME NEW p \in Own(a), players' = Touched(p, clock),
               sessions' = Heard(s, a, clock)
        PROVE  HeardInv'
    <3>1. Sees(a, p)
      BY <1>1, <2>1, <2>2, TouchSees
    <3>2. ASSUME NEW i \in DOMAIN sessions
          PROVE  Honest(i)'
      <4>1. /\ sessions[i] \in SessionRow /\ Honest(i)
            /\ sessions[i].player \in DOMAIN players
        BY <1>1, TableRows DEF HeardInv, RowsExist
      <4>2. \/ sessions'[i] = sessions[i]
            \/ sessions'[i] = [sessions[i] EXCEPT !.heard = clock] /\ sessions[i].heard < clock
        BY <2>2 DEF Heard
      <4>3. /\ sessions'[i].to = sessions[i].to /\ sessions'[i].from = sessions[i].from
            /\ sessions'[i].reason = sessions[i].reason
            /\ sessions'[i].player = sessions[i].player
            /\ \/ sessions'[i].heard = sessions[i].heard
               \/ sessions'[i].heard = clock /\ sessions[i].heard < clock
        BY <4>1, <4>2 DEF SessionRow
      <4>4. sessions[i].from \in Nat /\ sessions[i].heard \in Nat
        BY <4>1 DEF SessionRow
      <4>5. CASE sessions[i].to # None
        <5>1. sessions[i].to \in Nat
          BY <4>1, <4>5 DEF SessionRow
        <5> QED
          BY <1>1, <4>1, <4>3, <4>4, <4>5, <5>1 DEF Honest
      <4>6. CASE sessions[i].to = None /\ players[sessions[i].player].hash = a
        <5>1. sessions[i].server = s
          BY <4>1 DEF OneServer, SessionRow
        <5>2. clock <= sessions'[i].heard
          <6>1. CASE sessions[i].heard < clock
            <7>1. sessions'[i] = [sessions[i] EXCEPT !.heard = clock]
              BY <2>2, <4>6, <5>1, <6>1 DEF Heard
            <7> QED
              BY <1>1, <4>1, <7>1 DEF SessionRow
          <6>2. CASE ~ (sessions[i].heard < clock)
            BY <1>1, <4>3, <4>4, <6>2
          <6> QED
            BY <6>1, <6>2
        <5>3. players'[sessions[i].player].seen = clock
          BY <2>2, <3>1, <4>1, <4>6 DEF Sees
        <5> QED
          BY <1>1, <4>1, <4>3, <4>4, <4>6, <5>2, <5>3 DEF Honest
      <4>7. CASE sessions[i].to = None /\ players[sessions[i].player].hash # a
        <5>1. players'[sessions[i].player].seen = players[sessions[i].player].seen
          BY <3>1, <4>1, <4>7 DEF Sees
        <5>2. players[sessions[i].player].seen \in Nat
          BY <4>1, TableRows DEF PlayerRow
        <5> QED
          BY <1>1, <4>1, <4>3, <4>4, <4>7, <5>1, <5>2 DEF Honest
      <4> QED
        BY <4>5, <4>6, <4>7
    <3>3. DOMAIN sessions' = DOMAIN sessions
      BY <2>2 DEF Heard
    <3> QED
      BY <3>2, <3>3 DEF HeardInv
  <2> QED
    BY <1>2, <1>5, <2>1, <2>2 DEF Position
<1>6. ASSUME NEW S, OpenOnes(S), NEW reason \in CloseReasons, UNCHANGED players,
             sessions' = Closed(S, clock, reason)
      PROVE  HeardInv'
  <2>1. \A i \in DOMAIN sessions : Honest(i)'
    BY <1>1, <1>6, HeardClose
  <2>2. DOMAIN sessions' = DOMAIN sessions
    BY <1>6 DEF Closed
  <2> QED
    BY <2>1, <2>2 DEF HeardInv
<1>7. ASSUME NEW a \in Accounts, NEW d \in DeathLines(s), Died(s, a, d, clock)
      PROVE  HeardInv'
  <2>1. ASSUME NEW p, NEW l, DiedAlive(s, a, p, l, d, clock)
        PROVE  HeardInv'
    <3>1. sessions' = Closed(OpenSession(s, p), clock, "clean") /\ UNCHANGED players
      BY <1>7, <2>1 DEF DiedAlive, Died
    <3> QED
      BY <1>1, <1>6, <3>1, OpenAreOpen
  <2> QED
    BY <1>2, <1>7, <2>1 DEF Died, DiedAgain
<1>8. ASSUME Rebooted(s, clock)
      PROVE  HeardInv'
  BY <1>1, <1>6, <1>8, OpenAreOpen DEF Rebooted
<1> QED
  BY <1>3, <1>4, <1>5, <1>7, <1>8 DEF Line

-----------------------------------------------------------------------------
\* Every step.

LEMMA NamesLine ==
  ASSUME TypeOK, TypeOK', Structure, NamesInv, NEW s \in Servers, Line(s, clock)
  PROVE  NamesInv'
<1>1. /\ OneIdentityPerHash /\ clock \in Nat
  BY BoundsAssumption DEF Structure, TypeOK, Times
<1>2. ASSUME NEW a \in Accounts, Connected(s, a, clock)
      PROVE  NamesInv'
  <2>1. Sees(a, IdentityOf(a)) /\ UNCHANGED <<clock, tagOf>>
    BY <1>1, <1>2, ConnectSees DEF Connected
  <2>2. \A b \in Accounts : b # a => on'[b] \in {on[b], None}
    BY <1>2 DEF Connected, TypeOK
  <2> QED
    BY <2>1, <2>2, NamesSeen
<1>3. ASSUME NEW a \in Accounts, Disconnected(s, a, clock) \/ Position(s, a, clock)
      PROVE  NamesInv'
  <2>1. /\ on[a] # None /\ ByTag(tagOf[a]) = Own(a) /\ UNCHANGED <<clock, tagOf, on>>
    BY <1>3, LineOfOwn DEF Disconnected, Position
  <2>2. CASE UNCHANGED players
    BY <1>1, <2>1, <2>2, NamesRest
  <2>3. ASSUME NEW p \in Own(a), players' = Touched(p, clock)
        PROVE  NamesInv'
    <3>1. Sees(a, p)
      BY <1>1, <2>1, <2>3, TouchSees
    <3> QED
      BY <2>1, <3>1, NamesSeen
  <2> QED
    BY <1>3, <2>1, <2>2, <2>3 DEF Disconnected, Position
<1>4. ASSUME NEW a \in Accounts, NEW d \in DeathLines(s), Died(s, a, d, clock)
      PROVE  NamesInv'
  BY <1>1, <1>4, NamesRest DEF Died
<1>5. ASSUME Rebooted(s, clock)
      PROVE  NamesInv'
  BY <1>1, <1>5, NamesRest DEF Rebooted
<1> QED
  BY <1>2, <1>3, <1>4, <1>5 DEF Line

LEMMA LogLine ==
  ASSUME TypeOK, Structure, NamesInv, LogInv, NEW s \in Servers, Line(s, clock)
  PROVE  LogInv'
  BY LogConnected, LogDisconnected, LogPosition, LogDied, LogRebooted DEF Line

LEMMA TimesLine ==
  ASSUME TypeOK, Structure, Structure', NamesInv, TimesInv, NEW s \in Servers,
         Line(s, clock)
  PROVE  TimesInv'
<1>1. /\ RowsExist /\ clock \in Nat /\ UNCHANGED clock
      /\ "clean" \in CloseReasons /\ "reboot" \in CloseReasons
  BY BoundsAssumption
  DEF Structure, TypeOK, Times, CloseReasons, Line, Connected, Disconnected, Position,
      Died, Rebooted
<1>2. ASSUME NEW a \in Accounts, Connected(s, a, clock)
      PROVE  TimesInv'
  BY <1>2, TimesConnected
<1>3. ASSUME UNCHANGED <<lives, sessions>>
      PROVE  TimesInv'
  BY <1>1, <1>3 DEF TimesInv, Fits
<1>4. ASSUME NEW a \in Accounts, Disconnected(s, a, clock)
      PROVE  TimesInv'
  BY <1>1, <1>3, <1>4, OpenAreOpen, TimesClose DEF Disconnected
<1>5. ASSUME Rebooted(s, clock)
      PROVE  TimesInv'
  BY <1>1, <1>5, OpenAreOpen, TimesClose DEF Rebooted
<1>6. ASSUME NEW a \in Accounts, Position(s, a, clock)
      PROVE  TimesInv'
  <2>1. SameLives /\ UNCHANGED lives
    BY <1>6, SameTables DEF Position
  <2>2. ASSUME sessions' = Heard(s, a, clock)
        PROVE  TimesInv'
    <3>1. DOMAIN sessions' = DOMAIN sessions
      BY <2>2 DEF Heard
    <3>2. ASSUME NEW i \in DOMAIN sessions
          PROVE  /\ sessions'[i].to = sessions[i].to /\ sessions'[i].from = sessions[i].from
                 /\ sessions'[i].life = sessions[i].life
      <4>1. \/ sessions'[i] = sessions[i]
            \/ sessions'[i] = [sessions[i] EXCEPT !.heard = clock]
        BY <2>2 DEF Heard
      <4>2. sessions[i] \in SessionRow
        BY TableRows
      <4> QED
        BY <4>1, <4>2 DEF SessionRow
    <3> QED
      BY <1>1, <2>1, <3>1, <3>2, TimesStay
  <2> QED
    BY <1>3, <1>6, <2>1, <2>2 DEF Position
<1>7. ASSUME NEW a \in Accounts, NEW d \in DeathLines(s), Died(s, a, d, clock)
      PROVE  TimesInv'
  <2>1. ASSUME NEW p, NEW l \in OpenLife(s, p), DiedAlive(s, a, p, l, d, clock)
        PROVE  TimesInv'
    BY <1>1, <2>1, TimesDied
  <2>2. ASSUME NEW p, DiedAgain(s, p, d, clock)
        PROVE  TimesInv'
    <3>1. SameLives /\ UNCHANGED sessions
      BY <1>1, <2>2, DiedAgainStep DEF DiedAgain
    <3>2. ASSUME NEW l \in DOMAIN lives
          PROVE  lives'[l].start = lives[l].start /\ lives'[l].play = lives[l].play
      <4>1. lives[l] \in LifeRow
        BY TableRows
      <4>2. lives'[l] = lives[l] \/ lives'[l] = Enriched(lives[l], d)
        BY <2>2 DEF DiedAgain
      <4>3. /\ Enriched(lives[l], d).start = lives[l].start
            /\ Enriched(lives[l], d).play = lives[l].play
        BY <4>1 DEF Enriched, LifeRow
      <4> QED
        BY <4>2, <4>3
    <3> QED
      BY <1>1, <3>1, <3>2, TimesStay
  <2> QED
    BY <1>3, <1>7, <2>1, <2>2 DEF Died
<1> QED
  BY <1>2, <1>4, <1>5, <1>6, <1>7 DEF Line

\* No line moves a life to another player, or an account to another row.
LEMMA RowsLast ==
  ASSUME TypeOK, Structure, NamesInv, NEW s \in Servers, Line(s, clock)
  PROVE  HashesKept /\ LivesLast
<1>1. /\ OneIdentityPerHash /\ RowsExist /\ clock \in Nat
      /\ "clean" \in CloseReasons /\ "superseded" \in CloseReasons
      /\ "reboot" \in CloseReasons
  BY BoundsAssumption DEF Structure, TypeOK, Times, CloseReasons
<1>2. ASSUME UNCHANGED players PROVE HashesKept
  BY <1>2 DEF HashesKept
<1>3. ASSUME SameLives PROVE LivesLast
  BY <1>3 DEF SameLives, LivesLast
<1>4. ASSUME NEW S \in SUBSET DOMAIN sessions, NEW reason \in CloseReasons,
             lives' = Credited(S, clock, reason)
      PROVE  LivesLast
  BY <1>1, <1>4, CreditedRows DEF LivesLast
<1>5. ASSUME NEW a \in Accounts, Connected(s, a, clock)
      PROVE  HashesKept /\ LivesLast
  <2>1. HashesKept
    BY <1>1, <1>5, ConnectSees DEF Connected, Sees, HashesKept
  <2> DEFINE C == Credited(OpenSession(s, IdentityOf(a)), clock, "superseded")
  <2>2. \A m \in DOMAIN lives : m \in DOMAIN lives' /\ lives'[m] = C[m]
    BY <1>1, <1>5, ConnectedRows DEF ConnectOpens
  <2>3. \A m \in DOMAIN lives : C[m].server = lives[m].server /\ C[m].player = lives[m].player
    BY <1>1, Lookups, CreditedRows
  <2> HIDE DEF C
  <2> QED
    BY <2>1, <2>2, <2>3 DEF LivesLast
<1>6. ASSUME NEW a \in Accounts, Disconnected(s, a, clock) \/ Position(s, a, clock)
      PROVE  HashesKept /\ LivesLast
  <2>1. on[a] # None /\ ByTag(tagOf[a]) = Own(a)
    BY <1>6, LineOfOwn DEF Disconnected, Position
  <2>2. ASSUME NEW p \in Own(a), players' = Touched(p, clock)
        PROVE  HashesKept
    BY <1>1, <2>1, <2>2, TouchSees DEF Sees, HashesKept
  <2>3. HashesKept
    BY <1>2, <1>6, <2>1, <2>2 DEF Disconnected, Position
  <2>4. LivesLast
    <3>1. ASSUME UNCHANGED lives PROVE LivesLast
      BY <1>3, <3>1, SameTables
    <3> QED
      BY <1>1, <1>4, <1>6, <3>1, Lookups DEF Disconnected, Position
  <2> QED
    BY <2>3, <2>4
<1>7. ASSUME NEW a \in Accounts, NEW d \in DeathLines(s), Died(s, a, d, clock)
      PROVE  HashesKept /\ LivesLast
  <2>1. HashesKept
    BY <1>2, <1>7 DEF Died
  <2>2. ASSUME NEW p, NEW l \in OpenLife(s, p), DiedAlive(s, a, p, l, d, clock)
        PROVE  LivesLast
    <3> DEFINE C == Credited(OpenSession(s, p), clock, "clean")
    <3>1. /\ C \in Seq(LifeRow) /\ DOMAIN C = DOMAIN lives
          /\ \A m \in DOMAIN lives : /\ C[m].server = lives[m].server
                                     /\ C[m].player = lives[m].player
      BY <1>1, Lookups, CreditedRows
    <3>2. lives' = [C EXCEPT ![l] = Ended(C[l], d, clock)]
      BY <2>2 DEF DiedAlive
    <3>3. l \in DOMAIN lives
      BY Lookups
    <3> HIDE DEF C
    <3>4. C[l] \in LifeRow
      BY <3>1, <3>3, ElementOfSeq, LenProperties
    <3>5. /\ Ended(C[l], d, clock).server = C[l].server
          /\ Ended(C[l], d, clock).player = C[l].player
      BY <3>4 DEF Ended, LifeRow
    <3> QED
      BY <3>1, <3>2, <3>3, <3>5 DEF LivesLast
  <2>3. ASSUME NEW p, DiedAgain(s, p, d, clock)
        PROVE  LivesLast
    BY <1>1, <1>3, <2>3, DiedAgainStep
  <2>4. ASSUME UNCHANGED lives
        PROVE  LivesLast
    BY <1>3, <2>4, SameTables
  <2> QED
    BY <1>7, <2>1, <2>2, <2>3, <2>4 DEF Died
<1>8. ASSUME Rebooted(s, clock)
      PROVE  HashesKept /\ LivesLast
  BY <1>1, <1>2, <1>4, <1>8, Lookups DEF Rebooted
<1> QED
  BY <1>5, <1>6, <1>7, <1>8 DEF Line

LEMMA KillsLine ==
  ASSUME IInv, NamesInv, KillsInv, NEW s \in Servers, clock \in Stamps, Line(s, clock)
  PROVE  KillsInv'
<1>1. /\ TypeOK /\ Structure /\ clock \in Nat
  BY Lookups DEF IInv, Structure
<1>2. HashesKept /\ LivesLast
  BY <1>1, RowsLast
<1>3. \A l \in DOMAIN lives : lives[l].end # None => Final(l)
  BY LineIsFinal
<1>4. ASSUME UNCHANGED kills PROVE KillsInv'
  BY <1>2, <1>3, <1>4, KillsStay
<1>5. ASSUME NEW a \in Accounts, NEW d \in DeathLines(s), Died(s, a, d, clock)
      PROVE  KillsInv'
  <2>1. ByTag(tagOf[a]) = Own(a) /\ UNCHANGED players
    BY <1>1, <1>5, LineOfOwn DEF Died
  <2>2. ASSUME NEW p \in Own(a), NEW l \in OpenLife(s, p), DiedAlive(s, a, p, l, d, clock)
        PROVE  KillsInv'
    BY <1>1, <1>2, <1>3, <2>1, <2>2, KillCredited
  <2> QED
    BY <1>4, <1>5, <2>1, <2>2 DEF Died, DiedAgain
<1> QED
  BY <1>4, <1>5 DEF Line, Connected, Disconnected, Position, Rebooted

LEMMA OrderInit == Init => OrderInv /\ HeardInv
<1> SUFFICES ASSUME Init PROVE OrderInv /\ HeardInv
  OBVIOUS
<1>1. IInv
  BY InitIInv
<1>2. NamesInv /\ KillsInv /\ TimesInv /\ HeardInv
  BY DEF Init, NamesInv, KillsInv, KillsCreditTheKiller, TimesInv, HeardInv
<1>3. LogInv
  BY DEF Init, LogInv
<1> QED
  BY <1>1, <1>2, <1>3 DEF OrderInv

\* Ticks, departures and renames move no table.
LEMMA GameOrder ==
  ASSUME OrderInv, TypeOK',
         \/ Tick
         \/ \E a \in Accounts : Leave(a)
         \/ \E a \in Accounts, t \in Tags : Rename(a, t)
  PROVE  NamesInv' /\ LogInv' /\ KillsInv' /\ TimesInv' /\ (HeardInv => HeardInv')
<1>1. /\ TypeOK /\ RowsExist /\ UNCHANGED <<players, lives, sessions, kills, logbook>>
      /\ clock \in Nat /\ clock' \in Nat /\ clock <= clock'
  BY BoundsAssumption DEF OrderInv, IInv, TypeOK, Times, Tick, Leave, Rename, tables
<1>2. LogInv' /\ KillsInv' /\ (HeardInv => HeardInv')
  BY <1>1 DEF OrderInv, LogInv, PlaysOn, AliveOn, KillsInv, KillsCreditTheKiller,
              HeardInv, Honest
<1>3. TimesInv'
  BY <1>1, SameTables, TimesStay DEF OrderInv
<1>4. NamesInv'
  <2>1. CASE \E a \in Accounts, t \in Tags : Rename(a, t)
    BY <1>1, <2>1, NameTaken DEF OrderInv
  <2>2. CASE Tick \/ \E a \in Accounts : Leave(a)
    <3>1. UNCHANGED tagOf /\ \A b \in Accounts : on'[b] \in {on[b], None}
      BY <1>1, <2>2 DEF Tick, Leave, TypeOK
    <3> QED
      BY <1>1, <3>1, NamesRest DEF OrderInv
  <2> QED
    BY <2>1, <2>2
<1> QED
  BY <1>2, <1>3, <1>4

LEMMA OrderStep ==
  ASSUME MaxLag = 0, OrderInv, [Next]_vars
  PROVE  OrderInv' /\ (OneServer /\ HeardInv => HeardInv')
<1>1. IInv'
  BY NextIInv DEF OrderInv
<1>2. /\ TypeOK /\ Structure /\ TypeOK' /\ Structure'
      /\ NamesInv /\ LogInv /\ KillsInv /\ TimesInv /\ IInv
  BY <1>1 DEF OrderInv, IInv, Structure
<1>3. clock \in Nat /\ \A at \in Stamps : at = clock
  BY <1>2, BoundsAssumption DEF TypeOK, Times, Stamps
<1>4. CASE UNCHANGED vars
  BY <1>1, <1>2, <1>4
  DEF vars, OrderInv, NamesInv, Own, LogInv, PlaysOn, AliveOn, KillsInv,
      KillsCreditTheKiller, TimesInv, Fits, HeardInv, Honest
<1>5. ASSUME NEW s \in Servers, NEW at \in Stamps, Line(s, at)
      PROVE  OrderInv' /\ (OneServer /\ HeardInv => HeardInv')
  <2>1. Line(s, clock) /\ clock \in Stamps
    BY <1>3, <1>5
  <2> QED
    BY <1>1, <1>2, <2>1, NamesLine, LogLine, KillsLine, TimesLine, HeardLine DEF OrderInv
<1>6. CASE \/ Tick
           \/ \E a \in Accounts : Leave(a)
           \/ \E a \in Accounts, t \in Tags : Rename(a, t)
  BY <1>1, <1>2, <1>6, GameOrder DEF OrderInv
<1> QED
  BY <1>4, <1>5, <1>6 DEF Next

\* Of lines folded in order, on however many servers: rows and kills stay with the
\* account whose lines made them, and lives follow each other.
THEOREM RowsStayHome ==
  MaxLag = 0 => (Spec => [](AccountsKeepTheirOwn /\ LivesFollow))
<1> SUFFICES ASSUME MaxLag = 0 PROVE Spec => [](AccountsKeepTheirOwn /\ LivesFollow)
  OBVIOUS
<1>1. Init => OrderInv
  BY OrderInit
<1>2. OrderInv /\ [Next]_vars => OrderInv'
  BY OrderStep
<1>3. OrderInv => AccountsKeepTheirOwn /\ LivesFollow
  BY LogIs, TimesFollow DEF OrderInv, IInv, KillsInv, AccountsKeepTheirOwn
<1> QED
  BY <1>1, <1>2, <1>3, PTL DEF Spec

\* On one server its heartbeat is the only one, and no second is counted twice
\* or for nobody either.
THEOREM LivesToldRight ==
  MaxLag = 0 /\ OneServer => (Spec => []LivesAreTheAccounts)
<1> SUFFICES ASSUME MaxLag = 0, OneServer PROVE Spec => []LivesAreTheAccounts
  OBVIOUS
<1>1. Init => OrderInv /\ HeardInv
  BY OrderInit
<1>2. OrderInv /\ HeardInv /\ [Next]_vars => (OrderInv /\ HeardInv)'
  BY OrderStep
<1>3. HeardInv => NeverInflates
  BY DEF HeardInv, Honest, NeverInflates
<1>4. OrderInv /\ HeardInv => LivesAreTheAccounts
  BY <1>3, LogIs, TimesFollow
  DEF OrderInv, IInv, KillsInv, AccountsKeepTheirOwn, TimeIsPlayedOnce,
      LivesAreTheAccounts
<1> QED
  BY <1>1, <1>2, <1>4, PTL DEF Spec

-----------------------------------------------------------------------------
\* Playtime.  The time of a set of sessions is what MapThenSumSet recurses to,
\* session by session; it is also the number of their seconds, told apart by the
\* session they were played in, and of those the steps can be followed.

SecondsOf(w, i) == {i} \X (1 .. w[i].dur)
Seconds(w, S) == UNION {SecondsOf(w, i) : i \in S}
Timed(w, S) == \A i \in S : w[i].dur \in Nat

AnyOf(S) == CHOOSE i \in S : TRUE
\* h is the time of every set of sessions of S.
TimesUp(h, w, S) ==
  h = [s \in SUBSET S |-> IF s = {} THEN 0 ELSE w[AnyOf(s)].dur + h[s \ {AnyOf(s)}]]

LEMMA SecondsCount ==
  ASSUME NEW w, NEW i, w[i].dur \in Nat
  PROVE  IsFiniteSet(SecondsOf(w, i)) /\ Cardinality(SecondsOf(w, i)) = w[i].dur
<1> DEFINE n == w[i].dur
<1>1. IsFiniteSet(1 .. n) /\ Cardinality(1 .. n) = n
  <2>1. /\ IsFiniteSet(1 .. n)
        /\ Cardinality(1 .. n) = IF 1 > n THEN 0 ELSE n - 1 + 1
    BY FS_Interval
  <2>2. n \in Nat
    OBVIOUS
  <2> HIDE DEF n
  <2> QED
    BY <2>1, <2>2
<1>2. IsFiniteSet({i}) /\ Cardinality({i}) = 1
  BY FS_Singleton
<1> HIDE DEF n
<1>3. IsFiniteSet({i} \X (1 .. n)) /\ Cardinality({i} \X (1 .. n)) = 1 * n
  BY <1>1, <1>2, FS_Product
<1>4. n \in Nat
  BY DEF n
<1> QED
  BY <1>3, <1>4 DEF SecondsOf, n

LEMMA SecondsFinite ==
  ASSUME NEW w, NEW S, IsFiniteSet(S), Timed(w, S)
  PROVE  IsFiniteSet(Seconds(w, S)) /\ Cardinality(Seconds(w, S)) \in Nat
<1> DEFINE B == {SecondsOf(w, i) : i \in S}
           f == [i \in S |-> SecondsOf(w, i)]
<1>1. f \in Surjection(S, B)
  BY DEF Surjection
<1> HIDE DEF f
<1>2. IsFiniteSet(B)
  BY <1>1, FS_Surjection
<1>3. \A b \in B : IsFiniteSet(b)
  BY SecondsCount DEF Timed
<1> HIDE DEF B
<1>4. IsFiniteSet(UNION B)
  BY <1>2, <1>3, FS_UNION
<1> QED
  BY <1>4, FS_CardinalityType DEF Seconds, B

LEMMA SecondsWithout ==
  ASSUME NEW w, NEW S, IsFiniteSet(S), Timed(w, S), NEW i \in S
  PROVE  Cardinality(Seconds(w, S)) = w[i].dur + Cardinality(Seconds(w, S \ {i}))
<1> DEFINE A == SecondsOf(w, i)
           B == Seconds(w, S \ {i})
<1>1. w[i].dur \in Nat /\ IsFiniteSet(S \ {i}) /\ Timed(w, S \ {i})
  BY FS_Subset DEF Timed
<1>2. IsFiniteSet(A) /\ Cardinality(A) = w[i].dur
  BY <1>1, SecondsCount
<1>3. IsFiniteSet(B) /\ Cardinality(B) \in Nat
  BY <1>1, SecondsFinite
<1>4. Seconds(w, S) = A \cup B
  BY DEF Seconds
<1>5. A \cap B = {}
  BY DEF Seconds, SecondsOf
<1> HIDE DEF A, B
<1>6. Cardinality(A \cap B) = 0
  BY <1>5, FS_EmptySet
<1>7. Cardinality(A \cup B) = Cardinality(A) + Cardinality(B) - Cardinality(A \cap B)
  BY <1>2, <1>3, FS_Union
<1> QED
  BY <1>1, <1>2, <1>3, <1>4, <1>6, <1>7 DEF B

LEMMA SecondsTime ==
  ASSUME NEW w, NEW S, IsFiniteSet(S), Timed(w, S)
  PROVE  TimesUp([s \in SUBSET S |-> Cardinality(Seconds(w, s))], w, S)
<1> DEFINE g == [s \in SUBSET S |-> Cardinality(Seconds(w, s))]
<1>1. Cardinality(Seconds(w, {})) = 0
  <2>1. Seconds(w, {}) = {}
    BY DEF Seconds
  <2> QED
    BY <2>1, FS_EmptySet
<1>2. ASSUME NEW s \in SUBSET S, s # {}
      PROVE  Cardinality(Seconds(w, s)) = w[AnyOf(s)].dur + g[s \ {AnyOf(s)}]
  <2>1. AnyOf(s) \in s
    BY <1>2 DEF AnyOf
  <2>2. IsFiniteSet(s) /\ Timed(w, s)
    BY FS_Subset DEF Timed
  <2>3. Cardinality(Seconds(w, s)) =
          w[AnyOf(s)].dur + Cardinality(Seconds(w, s \ {AnyOf(s)}))
    BY <2>1, <2>2, SecondsWithout
  <2> QED
    BY <2>3
<1>3. g = [s \in SUBSET S |-> IF s = {} THEN 0
                              ELSE w[AnyOf(s)].dur + g[s \ {AnyOf(s)}]]
  BY <1>1, <1>2
<1> QED
  BY <1>3 DEF TimesUp

\* There is no second such sum: of a smallest set the two would differ at, they
\* agree on what is left without the session taken first.
LEMMA OneTime ==
  ASSUME NEW w, NEW S, IsFiniteSet(S), NEW g, NEW h, TimesUp(g, w, S), TimesUp(h, w, S)
  PROVE  g[S] = h[S]
<1> SUFFICES ASSUME g[S] # h[S] PROVE FALSE
  OBVIOUS
<1> DEFINE D == {s \in SUBSET S : g[s] # h[s]}
           R == StrictSubsetOrdering(S)
<1>1. D \subseteq SUBSET S /\ D # {}
  OBVIOUS
<1>2. IsWellFoundedOn(R, SUBSET S)
  BY FS_StrictSubsetOrderingWellFounded, FS_FiniteSubsetsOfFinite
<1> HIDE DEF R
<1>3. PICK s \in D : \A t \in D : ~ (<<t, s>> \in R)
  BY <1>1, <1>2, WFMin
<1>4. s # {}
  BY DEF TimesUp
<1>5. AnyOf(s) \in s
  BY <1>4 DEF AnyOf
<1>6. /\ g[s] = w[AnyOf(s)].dur + g[s \ {AnyOf(s)}]
      /\ h[s] = w[AnyOf(s)].dur + h[s \ {AnyOf(s)}]
  BY <1>4 DEF TimesUp
<1>7. s \ {AnyOf(s)} \in D
  BY <1>6
<1>8. <<s \ {AnyOf(s)}, s>> \in R
  BY <1>5 DEF R, StrictSubsetOrdering
<1> QED
  BY <1>3, <1>7, <1>8

LEMMA SumOfSeconds ==
  ASSUME NEW w, NEW S, IsFiniteSet(S), Timed(w, S)
  PROVE  (CHOOSE h : TimesUp(h, w, S))[S] = Cardinality(Seconds(w, S))
<1> DEFINE g == [s \in SUBSET S |-> Cardinality(Seconds(w, s))]
<1>1. TimesUp(g, w, S) /\ g[S] = Cardinality(Seconds(w, S))
  BY SecondsTime
<1> HIDE DEF g
<1>2. TimesUp(CHOOSE h : TimesUp(h, w, S), w, S)
  BY <1>1
<1> QED
  BY <1>1, <1>2, OneTime

\* The lives C count the time of the sessions T that were played in them, and
\* a session that is open counts for nothing yet.
PlayedIn(T, l) == {i \in DOMAIN T : T[i].life = l}
Counts(C, T) ==
  /\ \A l \in DOMAIN C : C[l].play = Cardinality(Seconds(T, PlayedIn(T, l)))
  /\ \A i \in DOMAIN T : T[i].to = None => T[i].dur = 0
PlayInv == Counts(lives, sessions)

\* Tables that still count: those of before, but for sessions of no time and
\* lives that none was played in.
LEMMA StillCounts ==
  ASSUME NEW C, NEW T, NEW D, NEW U, Counts(C, T), DOMAIN T \subseteq DOMAIN U,
         \A i \in DOMAIN T : /\ U[i].life = T[i].life /\ U[i].dur = T[i].dur
                             /\ U[i].to = T[i].to,
         \A i \in DOMAIN U \ DOMAIN T : U[i].dur = 0,
         \A l \in DOMAIN D : \/ l \in DOMAIN C /\ D[l].play = C[l].play
                             \/ D[l].play = 0 /\ PlayedIn(T, l) = {}
  PROVE  Counts(D, U)
<1>1. ASSUME NEW l
      PROVE  Seconds(U, PlayedIn(U, l)) = Seconds(T, PlayedIn(T, l))
  <2>1. \A i \in DOMAIN U \ DOMAIN T : SecondsOf(U, i) = {}
    <3>1. 1 .. 0 = {}
      OBVIOUS
    <3> QED
      BY <3>1 DEF SecondsOf
  <2>2. \A i \in DOMAIN T : SecondsOf(U, i) = SecondsOf(T, i)
    BY DEF SecondsOf
  <2>3. PlayedIn(T, l) = PlayedIn(U, l) \cap DOMAIN T
    BY DEF PlayedIn
  <2>4. PlayedIn(U, l) \subseteq DOMAIN U
    BY DEF PlayedIn
  <2> QED
    BY <2>1, <2>2, <2>3, <2>4 DEF Seconds
<1>2. \A l : PlayedIn(T, l) = {} => Cardinality(Seconds(T, PlayedIn(T, l))) = 0
  <2>1. Seconds(T, {}) = {}
    BY DEF Seconds
  <2> QED
    BY <2>1, FS_EmptySet
<1>3. \A l \in DOMAIN D : D[l].play = Cardinality(Seconds(T, PlayedIn(T, l)))
  BY <1>2 DEF Counts
<1>4. \A i \in DOMAIN U : U[i].to = None => U[i].dur = 0
  BY DEF Counts
<1> QED
  BY <1>1, <1>3, <1>4 DEF Counts

LEMMA SessionsTimed ==
  ASSUME NEW T \in Seq(SessionRow), NEW l
  PROVE  IsFiniteSet(PlayedIn(T, l)) /\ Timed(T, PlayedIn(T, l))
<1>1. Len(T) \in Nat /\ DOMAIN T = 1 .. Len(T)
  BY LenProperties
<1>2. IsFiniteSet(DOMAIN T)
  BY <1>1, FS_Interval
<1>3. \A i \in DOMAIN T : T[i].dur \in Nat
  <2>1. \A i \in 1 .. Len(T) : T[i] \in SessionRow
    BY ElementOfSeq
  <2> QED
    BY <1>1, <2>1 DEF SessionRow
<1> QED
  BY <1>2, <1>3, FS_Subset DEF PlayedIn, Timed

\* Open sessions that close credit their time, and each to a life of its own.
LEMMA PlayClosed ==
  ASSUME TypeOK, RowsExist, OpenRowsAgree, PlayInv,
         NEW S \in SUBSET DOMAIN sessions, OpenOnes(S), NEW at \in Nat,
         NEW reason \in CloseReasons
  PROVE  Counts(Credited(S, at, reason), Closed(S, at, reason))
<1> DEFINE C == Credited(S, at, reason)
           T == Closed(S, at, reason)
           P(i) == Played(i, at, reason)
<1>1. /\ DOMAIN C = DOMAIN lives /\ T \in Seq(SessionRow) /\ DOMAIN T = DOMAIN sessions
      /\ \A i \in DOMAIN sessions : /\ T[i].life = sessions[i].life
                                    /\ i \in S => T[i].to \in Nat
                                    /\ i \notin S => T[i] = sessions[i]
  BY ClosedRows, CreditedRows
<1>2. \A i \in S : sessions[i].to = None /\ sessions[i].dur = 0 /\ P(i) \in Nat
  BY ClosingTimes DEF OpenOnes, PlayInv, Counts
<1>3. \A i, j \in S : sessions[i].life = sessions[j].life => i = j
  BY <1>2 DEF OpenRowsAgree, IsOpenLife
<1>4. \A i \in S : T[i].dur = P(i)
  <2> SUFFICES ASSUME NEW i \in S PROVE T[i].dur = P(i)
    OBVIOUS
  <2>1. T[i] = [sessions[i] EXCEPT !.to = CloseTime(i, at, reason), !.dur = P(i),
                                   !.reason = reason]
    BY DEF Closed
  <2>2. sessions[i] \in SessionRow
    BY TableRows
  <2> HIDE DEF P, T
  <2> QED
    BY <2>1, <2>2 DEF SessionRow
<1>5. \A l \in DOMAIN lives :
        /\ \A i \in S : sessions[i].life = l => C[l].play = lives[l].play + P(i)
        /\ (\A i \in S : sessions[i].life # l) => C[l] = lives[l]
  <2> SUFFICES ASSUME NEW l \in DOMAIN lives
               PROVE  /\ \A i \in S : sessions[i].life = l => C[l].play = lives[l].play + P(i)
                      /\ (\A i \in S : sessions[i].life # l) => C[l] = lives[l]
    OBVIOUS
  <2> DEFINE c == CHOOSE i \in S : sessions[i].life = l
  <2>1. C[l] = IF \E i \in S : sessions[i].life = l
               THEN [lives[l] EXCEPT !.play = lives[l].play + P(c)]
               ELSE lives[l]
    BY DEF Credited
  <2>2. \A i \in S : sessions[i].life = l => c = i
    BY <1>3
  <2>3. lives[l] \in LifeRow
    BY TableRows
  <2> HIDE DEF C, P, c
  <2> QED
    BY <2>1, <2>2, <2>3 DEF LifeRow
<1> HIDE DEF C, T, P
<1>6. ASSUME NEW l \in DOMAIN C PROVE C[l].play = Cardinality(Seconds(T, PlayedIn(T, l)))
  <2> DEFINE Q == PlayedIn(sessions, l)
  <2>1. PlayedIn(T, l) = Q
    BY <1>1 DEF PlayedIn
  <2>2. lives[l].play = Cardinality(Seconds(sessions, Q)) /\ lives[l].play \in Nat
    BY <1>1, TableRows DEF PlayInv, Counts, LifeRow
  <2>3. /\ IsFiniteSet(Q) /\ Timed(sessions, Q) /\ Timed(T, Q)
        /\ Q \subseteq DOMAIN sessions
    BY <1>1, <2>1, SessionsTimed DEF TypeOK, PlayedIn
  <2>4. \A i \in Q : i \notin S => SecondsOf(T, i) = SecondsOf(sessions, i)
    BY <1>1, <2>3 DEF SecondsOf
  <2>5. CASE \A i \in S : sessions[i].life # l
    <3>1. \A i \in Q : i \notin S
      BY <2>5 DEF PlayedIn
    <3>2. Seconds(T, Q) = Seconds(sessions, Q)
      BY <2>4, <3>1 DEF Seconds
    <3> QED
      BY <1>1, <1>5, <2>1, <2>2, <2>5, <3>2
  <2>6. ASSUME NEW i \in S, sessions[i].life = l
        PROVE  C[l].play = Cardinality(Seconds(T, Q))
    <3>1. i \in Q /\ \A j \in Q \ {i} : j \notin S
      BY <1>3, <2>6 DEF PlayedIn
    <3>2. Seconds(T, Q \ {i}) = Seconds(sessions, Q \ {i})
      BY <2>4, <3>1 DEF Seconds
    <3>3. /\ Cardinality(Seconds(T, Q)) = T[i].dur + Cardinality(Seconds(T, Q \ {i}))
          /\ Cardinality(Seconds(sessions, Q)) =
               sessions[i].dur + Cardinality(Seconds(sessions, Q \ {i}))
      BY <2>3, <3>1, SecondsWithout
    <3>4. IsFiniteSet(Q \ {i}) /\ Timed(sessions, Q \ {i})
      BY <2>3, FS_Subset DEF Timed
    <3>5. Cardinality(Seconds(sessions, Q \ {i})) \in Nat
      BY <3>4, SecondsFinite
    <3>6. C[l].play = lives[l].play + P(i) /\ T[i].dur = P(i) /\ sessions[i].dur = 0
      BY <1>1, <1>2, <1>4, <1>5, <2>6
    <3> QED
      BY <1>2, <2>2, <3>2, <3>3, <3>5, <3>6
  <2> QED
    BY <2>1, <2>5, <2>6
<1>7. \A i \in DOMAIN T : T[i].to = None => T[i].dur = 0
  <2>1. None \notin Nat
    BY NoneAssumption
  <2> QED
    BY <1>1, <2>1 DEF PlayInv, Counts
<1> QED
  BY <1>6, <1>7 DEF Counts, C, T

LEMMA PlayStays ==
  ASSUME PlayInv, UNCHANGED <<lives, sessions>>
  PROVE  PlayInv'
  BY DEF PlayInv, Counts, PlayedIn, Seconds, SecondsOf

LEMMA PlayConnected ==
  ASSUME TypeOK, Structure, PlayInv, NEW s \in Servers, NEW a \in Accounts,
         NEW at \in Stamps, Connected(s, a, at)
  PROVE  PlayInv'
<1> DEFINE p == IdentityOf(a)
           S == OpenSession(s, p)
           C == Credited(S, at, "superseded")
           T == Closed(S, at, "superseded")
           born == OpenLife(s, p) = {}
           l == IF born THEN Len(lives) + 1 ELSE CHOOSE x \in OpenLife(s, p) : TRUE
           birth == NewLife(s, p, at)
           fresh == NewSession(s, p, l, at)
<1>1. /\ RowsExist /\ OpenRowsAgree /\ "superseded" \in CloseReasons /\ at \in Nat
      /\ S \in SUBSET DOMAIN sessions /\ OpenOnes(S)
  BY Lookups, OpenAreOpen DEF Structure, CloseReasons
<1>2. Counts(C, T)
  BY <1>1, PlayClosed
<1>3. C \in Seq(LifeRow) /\ Len(C) = Len(lives) /\ DOMAIN C = DOMAIN lives
  BY <1>1, CreditedRows
<1>4. /\ T \in Seq(SessionRow) /\ Len(T) = Len(sessions) /\ DOMAIN T = DOMAIN sessions
      /\ \A i \in DOMAIN sessions : T[i].life = sessions[i].life
  BY <1>1, ClosedRows
<1>5. /\ lives' = IF born THEN Append(C, birth) ELSE C
      /\ sessions' = Append(T, fresh)
  BY DEF Connected
<1>6. birth.play = 0 /\ fresh.dur = 0
  BY DEF NewLife, NewSession
<1>7. /\ Len(lives) \in Nat /\ DOMAIN lives = 1 .. Len(lives)
      /\ Len(sessions) \in Nat /\ DOMAIN sessions = 1 .. Len(sessions)
  BY TableRows
<1> HIDE DEF p, S, C, T, born, l, birth, fresh
<1>8. /\ DOMAIN sessions' = 1 .. Len(sessions) + 1
      /\ \A i \in DOMAIN sessions : sessions'[i] = T[i]
      /\ sessions'[Len(sessions) + 1] = fresh
  BY <1>4, <1>5, <1>7, Appended
<1>9. \A i \in DOMAIN sessions' \ DOMAIN T : sessions'[i].dur = 0
  BY <1>4, <1>6, <1>7, <1>8
<1>10. PlayedIn(T, Len(lives) + 1) = {}
  BY <1>1, <1>4, <1>7 DEF RowsExist, PlayedIn
<1>11. \A m \in DOMAIN lives' : \/ m \in DOMAIN C /\ lives'[m].play = C[m].play
                                \/ lives'[m].play = 0 /\ PlayedIn(T, m) = {}
  <2>1. CASE born
    <3>1. /\ DOMAIN lives' = 1 .. Len(lives) + 1
          /\ \A m \in DOMAIN lives : lives'[m] = C[m]
          /\ lives'[Len(lives) + 1] = birth
      BY <1>3, <1>5, <1>7, <2>1, Appended
    <3> QED
      BY <1>3, <1>6, <1>7, <1>10, <3>1
  <2>2. CASE ~ born
    BY <1>5, <2>2
  <2> QED
    BY <2>1, <2>2
<1>12. /\ DOMAIN T \subseteq DOMAIN sessions'
       /\ \A i \in DOMAIN T : sessions'[i] = T[i]
  BY <1>4, <1>7, <1>8
<1> QED
  BY <1>2, <1>9, <1>11, <1>12, StillCounts DEF PlayInv

LEMMA PlayDiedAlive ==
  ASSUME TypeOK, Structure, PlayInv, NEW s \in Servers, NEW a \in Accounts, NEW at \in Nat,
         NEW d, NEW p, NEW l \in OpenLife(s, p), DiedAlive(s, a, p, l, d, at)
  PROVE  PlayInv'
<1> DEFINE S == OpenSession(s, p)
           C == Credited(S, at, "clean")
           T == Closed(S, at, "clean")
<1>1. /\ RowsExist /\ OpenRowsAgree /\ "clean" \in CloseReasons /\ l \in DOMAIN lives
      /\ S \in SUBSET DOMAIN sessions /\ OpenOnes(S)
  BY Lookups, OpenAreOpen DEF Structure, CloseReasons
<1>2. Counts(C, T)
  BY <1>1, PlayClosed
<1>3. C \in Seq(LifeRow) /\ Len(C) = Len(lives) /\ DOMAIN C = DOMAIN lives
  BY <1>1, CreditedRows
<1>4. sessions' = T /\ lives' = [C EXCEPT ![l] = Ended(C[l], d, at)]
  BY DEF DiedAlive
<1> HIDE DEF S, C, T
<1>5. C[l] \in LifeRow
  BY <1>1, <1>3, TableRows, ElementOfSeq
<1>6. \A m \in DOMAIN lives' : m \in DOMAIN C /\ lives'[m].play = C[m].play
  BY <1>4, <1>5 DEF Ended, LifeRow
<1> QED
  BY <1>2, <1>4, <1>6, StillCounts DEF PlayInv

LEMMA PlayDied ==
  ASSUME TypeOK, Structure, PlayInv, NEW s \in Servers, NEW a \in Accounts, NEW at \in Stamps,
         NEW d \in DeathLines(s), Died(s, a, d, at)
  PROVE  PlayInv'
<1>1. at \in Nat
  BY Lookups
<1>2. ASSUME NEW p, DiedAgain(s, p, d, at)
      PROVE  PlayInv'
  <2>1. /\ sessions' = sessions
        /\ lives' = [m \in DOMAIN lives |->
                       IF m \in JustEnded(s, p, at) THEN Enriched(lives[m], d) ELSE lives[m]]
    BY <1>2 DEF DiedAgain
  <2>2. \A m \in DOMAIN lives : lives[m] \in LifeRow
    BY TableRows
  <2>3. \A m \in DOMAIN lives' : m \in DOMAIN lives /\ lives'[m].play = lives[m].play
    BY <2>1, <2>2 DEF Enriched, LifeRow
  <2> QED
    BY <2>1, <2>3, StillCounts DEF PlayInv
<1>3. \/ UNCHANGED <<lives, sessions>>
      \/ \E p : \/ \E l \in OpenLife(s, p) : DiedAlive(s, a, p, l, d, at)
                \/ DiedAgain(s, p, d, at)
  BY DEF Died
<1> QED
  BY <1>1, <1>2, <1>3, PlayStays, PlayDiedAlive

LEMMA PlayLine ==
  ASSUME TypeOK, Structure, PlayInv, NEW s \in Servers, NEW at \in Stamps, Line(s, at)
  PROVE  PlayInv'
<1>1. /\ at \in Nat /\ RowsExist /\ OpenRowsAgree
      /\ "clean" \in CloseReasons /\ "reboot" \in CloseReasons
  BY Lookups DEF Structure, CloseReasons
<1>2. ASSUME NEW S, S \subseteq DOMAIN sessions, OpenOnes(S), NEW reason \in CloseReasons,
             lives' = Credited(S, at, reason), sessions' = Closed(S, at, reason)
      PROVE  PlayInv'
  BY <1>1, <1>2, PlayClosed DEF PlayInv
<1>3. ASSUME NEW a \in Accounts, Disconnected(s, a, at)
      PROVE  PlayInv'
  <2>1. \/ UNCHANGED <<lives, sessions>>
        \/ \E p : /\ lives' = Credited(OpenSession(s, p), at, "clean")
                  /\ sessions' = Closed(OpenSession(s, p), at, "clean")
    BY <1>3 DEF Disconnected
  <2> QED
    BY <1>1, <1>2, <2>1, PlayStays, Lookups, OpenAreOpen
<1>4. ASSUME Rebooted(s, at)
      PROVE  PlayInv'
  BY <1>1, <1>2, <1>4, Lookups, OpenAreOpen DEF Rebooted
<1>5. ASSUME NEW a \in Accounts, Position(s, a, at)
      PROVE  PlayInv'
  <2>1. lives' = lives /\ (sessions' = sessions \/ sessions' = Heard(s, a, at))
    BY <1>5 DEF Position
  <2>2. \A i \in DOMAIN sessions : sessions[i] \in SessionRow
    BY TableRows
  <2>3. CASE sessions' = Heard(s, a, at)
    <3>1. /\ DOMAIN sessions' = DOMAIN sessions
          /\ \A i \in DOMAIN sessions :
               \/ sessions'[i] = sessions[i]
               \/ sessions'[i] = [sessions[i] EXCEPT !.heard = at]
      BY <2>3 DEF Heard
    <3>2. \A i \in DOMAIN sessions : /\ sessions'[i].life = sessions[i].life
                                     /\ sessions'[i].dur = sessions[i].dur
                                     /\ sessions'[i].to = sessions[i].to
      BY <2>2, <3>1 DEF SessionRow
    <3> QED
      BY <2>1, <3>1, <3>2, StillCounts DEF PlayInv
  <2> QED
    BY <2>1, <2>3, PlayStays
<1> QED
  BY <1>3, <1>4, <1>5, PlayConnected, PlayDied DEF Line

\* Of lines folded however late and on however many servers, a life's playtime is
\* the time of its sessions.
THEOREM PlaytimeAddsUp == Spec => []PlaytimeIsSessionTime
<1>1. Init => PlayInv
  BY DEF Init, PlayInv, Counts
<1>2. IInv /\ PlayInv /\ [Next]_vars => PlayInv'
  <2> SUFFICES ASSUME IInv, PlayInv, [Next]_vars PROVE PlayInv'
    OBVIOUS
  <2>1. TypeOK /\ Structure
    BY DEF IInv, Structure
  <2>2. \/ \E s \in Servers, at \in Stamps : Line(s, at)
        \/ UNCHANGED <<lives, sessions>>
    BY DEF Next, Leave, Rename, Tick, tables, vars
  <2> QED
    BY <2>1, <2>2, PlayLine, PlayStays
<1>3. IInv /\ PlayInv => PlaytimeIsSessionTime
  <2> SUFFICES ASSUME IInv, PlayInv, NEW l \in DOMAIN lives
               PROVE  lives[l].play =
                        MapThenSumSet(LAMBDA i : sessions[i].dur, PlayedIn(sessions, l))
    BY DEF PlaytimeIsSessionTime, PlayedIn
  <2> DEFINE S == PlayedIn(sessions, l)
  <2>1. IsFiniteSet(S) /\ Timed(sessions, S)
    BY SessionsTimed DEF IInv, TypeOK
  <2> HIDE DEF S
  <2>2. MapThenSumSet(LAMBDA i : sessions[i].dur, S) = (CHOOSE h : TimesUp(h, sessions, S))[S]
    BY DEF MapThenSumSet, MapThenFoldSet, TimesUp, AnyOf
  <2>3. (CHOOSE h : TimesUp(h, sessions, S))[S] = Cardinality(Seconds(sessions, S))
    BY <2>1, SumOfSeconds
  <2> QED
    BY <2>2, <2>3 DEF PlayInv, Counts, S
<1> QED
  BY <1>1, <1>2, <1>3, Invariant, PTL DEF Spec

-----------------------------------------------------------------------------
\* Least and greatest numbers, and the instant at which a sum of sessions crosses a bound.

LEMMA LeastNat ==
  ASSUME NEW S \in SUBSET Nat, S # {}
  PROVE  \E n \in S : \A m \in S : n <= m
<1>1. PICK n \in S : \A m \in S : ~(<<m, n>> \in OpToRel(<, Nat))
  BY NatLessThanWellFounded, WFMin, Zenon
<1>2. \A m \in S : ~(m < n)
  BY <1>1 DEF OpToRel
<1> QED
  BY <1>2

LEMMA MinIsLeast ==
  ASSUME NEW S \in SUBSET Nat, S # {}
  PROVE  Min(S) \in S /\ \A m \in S : Min(S) <= m
  BY LeastNat DEF Min

LEMMA MaxIsGreatest ==
  ASSUME NEW n \in Nat, NEW S \in SUBSET (0 .. n), S # {}
  PROVE  Max(S) \in S /\ \A m \in S : m <= Max(S)
<1> DEFINE D == {n - m : m \in S}
<1>0. \A m \in S : n - m \in Nat
  OBVIOUS
<1>1. D \subseteq Nat /\ D # {}
  BY <1>0
<1>2. PICK d \in D : \A e \in D : d <= e
  BY <1>1, LeastNat
<1>3. PICK m \in S : d = n - m
  BY <1>2
<1>4. \A k \in S : n - k \in D
  OBVIOUS
<1>5. \A k \in S : m >= k
  <2> SUFFICES ASSUME NEW k \in S PROVE m >= k
    OBVIOUS
  <2>1. d <= n - k /\ k \in Nat /\ m \in Nat
    BY <1>2, <1>4
  <2> HIDE DEF D
  <2> QED
    BY <1>3, <2>1
<1> QED
  BY <1>5 DEF Max

\* Sessions w of S come one after the other; they cross the bound with the session
\* before which they had not reached it and after which they have.
PlayedBefore(w, S, i) == Cardinality(Seconds(w, {j \in S : j < i}))
Crosses(w, S, i) ==
  PlayedBefore(w, S, i) < QualifySeconds /\ PlayedBefore(w, S, i) + w[i].dur >= QualifySeconds

LEMMA SecondsGrow ==
  ASSUME NEW w, NEW S, IsFiniteSet(S), Timed(w, S), NEW A \in SUBSET S
  PROVE  /\ Cardinality(Seconds(w, A)) \in Nat /\ Cardinality(Seconds(w, S)) \in Nat
         /\ Cardinality(Seconds(w, A)) <= Cardinality(Seconds(w, S))
<1>1. IsFiniteSet(A) /\ Timed(w, A)
  BY FS_Subset DEF Timed
<1>2. Seconds(w, A) \subseteq Seconds(w, S)
  BY DEF Seconds
<1>3. IsFiniteSet(Seconds(w, S))
  BY SecondsFinite
<1>4. Cardinality(Seconds(w, A)) <= Cardinality(Seconds(w, S))
  BY <1>2, <1>3, FS_Subset
<1> QED
  BY <1>1, <1>4, SecondsFinite

LEMMA PlayedUpTo ==
  ASSUME NEW w, NEW S \in SUBSET Nat, IsFiniteSet(S), Timed(w, S), NEW i \in S
  PROVE  /\ PlayedBefore(w, S, i) \in Nat /\ w[i].dur \in Nat
         /\ PlayedBefore(w, S, i) + w[i].dur = Cardinality(Seconds(w, {j \in S : j <= i}))
<1> DEFINE A == {j \in S : j < i}
           B == {j \in S : j <= i}
<1>1. IsFiniteSet(B) /\ Timed(w, B) /\ w[i].dur \in Nat
  BY FS_Subset DEF Timed
<1>2. i \in B /\ A = B \ {i}
  <2>1. \A j \in S : j \in Nat
    OBVIOUS
  <2>2. \A j \in S : j < i <=> j <= i /\ j # i
    BY <2>1
  <2>3. i <= i
    BY <2>1
  <2> QED
    BY <2>2, <2>3
<1> HIDE DEF A, B
<1>3. Cardinality(Seconds(w, B)) = w[i].dur + Cardinality(Seconds(w, A))
  BY <1>1, <1>2, SecondsWithout
<1>4. Cardinality(Seconds(w, A)) \in Nat
  BY <1>1, <1>2, SecondsGrow
<1> QED
  BY <1>1, <1>3, <1>4 DEF PlayedBefore, A, B

\* They cross it once.
LEMMA CrossesOnce ==
  ASSUME NEW w, NEW S \in SUBSET Nat, IsFiniteSet(S), Timed(w, S),
         NEW i \in S, NEW j \in S, Crosses(w, S, i), Crosses(w, S, j)
  PROVE  i = j
<1>0. QualifySeconds \in Nat
  BY QualifyAssumption
<1>1. ASSUME NEW m \in S, NEW n \in S, m < n, Crosses(w, S, m), Crosses(w, S, n)
      PROVE  FALSE
  <2> DEFINE A == {k \in S : k <= m}
             B == {k \in S : k < n}
  <2>1. A \subseteq B /\ B \subseteq S
    <3>1. \A k \in S : k \in Nat
      OBVIOUS
    <3>2. \A k \in S : k <= m => k < n
      BY <1>1, <3>1
    <3> QED
      BY <3>2
  <2>2. IsFiniteSet(B) /\ Timed(w, B)
    BY FS_Subset DEF Timed
  <2>3. /\ PlayedBefore(w, S, m) + w[m].dur = Cardinality(Seconds(w, A))
        /\ PlayedBefore(w, S, n) = Cardinality(Seconds(w, B))
    BY PlayedUpTo DEF PlayedBefore
  <2> HIDE DEF A, B
  <2>4. /\ Cardinality(Seconds(w, A)) <= Cardinality(Seconds(w, B))
        /\ Cardinality(Seconds(w, A)) \in Nat /\ Cardinality(Seconds(w, B)) \in Nat
    BY <2>1, <2>2, SecondsGrow
  <2>5. /\ Cardinality(Seconds(w, A)) >= QualifySeconds
        /\ Cardinality(Seconds(w, B)) < QualifySeconds
    BY <1>1, <2>3 DEF Crosses
  <2> QED
    BY <1>0, <2>4, <2>5
<1> QED
  BY <1>1

\* Whether they do is told by their sum.
LEMMA CrossesIffReached ==
  ASSUME NEW w, NEW n \in Nat, NEW S \in SUBSET (0 .. n), IsFiniteSet(S), Timed(w, S)
  PROVE  (\E i \in S : Crosses(w, S, i)) <=> Cardinality(Seconds(w, S)) >= QualifySeconds
<1>0. QualifySeconds \in Nat /\ QualifySeconds > 0
  BY QualifyAssumption
<1> DEFINE Upto(i) == Cardinality(Seconds(w, {j \in S : j <= i}))
<1>1. ASSUME NEW i \in S
      PROVE  /\ PlayedBefore(w, S, i) + w[i].dur = Upto(i) /\ PlayedBefore(w, S, i) \in Nat
             /\ Upto(i) \in Nat /\ Upto(i) <= Cardinality(Seconds(w, S))
             /\ Cardinality(Seconds(w, S)) \in Nat
  <2>1. {j \in S : j <= i} \in SUBSET S /\ S \in SUBSET Nat
    OBVIOUS
  <2> QED
    BY <2>1, PlayedUpTo, SecondsGrow
<1> HIDE DEF Upto
<1>2. ASSUME NEW i \in S, Crosses(w, S, i)
      PROVE  Cardinality(Seconds(w, S)) >= QualifySeconds
  BY <1>0, <1>1, <1>2 DEF Crosses
<1>3. ASSUME Cardinality(Seconds(w, S)) >= QualifySeconds
      PROVE  \E i \in S : Crosses(w, S, i)
  <2> DEFINE R == {i \in S : Upto(i) >= QualifySeconds}
  <2>1. S # {}
    <3>1. Seconds(w, {}) = {}
      BY DEF Seconds
    <3> QED
      BY <1>0, <1>3, <3>1, FS_EmptySet
  <2>2. R # {}
    <3>3. Max(S) \in S /\ \A m \in S : m <= Max(S)
      BY <2>1, MaxIsGreatest
    <3>4. {j \in S : j <= Max(S)} = S
      BY <3>3
    <3>5. Upto(Max(S)) >= QualifySeconds
      BY <1>3, <3>4 DEF Upto
    <3> QED
      BY <3>3, <3>5
  <2>3. PICK i \in R : \A k \in R : i <= k
    <3>0. \A j \in S : j \in Nat
      OBVIOUS
    <3>1. R \subseteq Nat
      BY <3>0
    <3> HIDE DEF R
    <3> QED
      BY <2>2, <3>1, LeastNat
  <2>4. PlayedBefore(w, S, i) < QualifySeconds
    <3> DEFINE E == {j \in S : j < i}
    <3>1. CASE E = {}
      <4>1. Seconds(w, {}) = {}
        BY DEF Seconds
      <4> QED
        BY <1>0, <3>1, <4>1, FS_EmptySet DEF PlayedBefore
    <3>2. CASE E # {}
      <4>0. i \in S /\ i \in Nat /\ \A j \in S : j \in Nat
        BY <2>3
      <4>1. \A j \in E : j \in 0 .. i
        BY <4>0
      <4> HIDE DEF E
      <4>2. Max(E) \in E /\ \A m \in E : m <= Max(E)
        BY <3>2, <4>0, <4>1, MaxIsGreatest
      <4>3. PICK k : k = Max(E)
        OBVIOUS
      <4>4. k \in S /\ k < i /\ {j \in S : j <= k} = E
        <5>1. k \in S /\ k < i /\ \A j \in S : j < i => j <= k
          BY <4>2, <4>3 DEF E
        <5>2. \A j \in S : j < i <=> j <= k
          BY <4>0, <5>1
        <5> QED
          BY <5>1, <5>2 DEF E
      <4>5. k \notin R
        BY <2>3, <4>1, <4>4
      <4>6. ~(Upto(k) >= QualifySeconds) /\ Upto(k) \in Nat
        BY <1>1, <4>4, <4>5
      <4>7. PlayedBefore(w, S, i) = Upto(k)
        BY <4>4 DEF PlayedBefore, Upto, E
      <4> QED
        BY <1>0, <4>6, <4>7
    <3> QED
      BY <3>1, <3>2
  <2>5. PlayedBefore(w, S, i) + w[i].dur >= QualifySeconds
    BY <1>1, <2>3
  <2> QED
    BY <2>4, <2>5 DEF Crosses
<1> QED
  BY <1>2, <1>3

\* They still do when only the last of them went on and others came after it.
LEMMA CrossesForGood ==
  ASSUME NEW w, NEW v, NEW S \in SUBSET Nat, NEW T \in SUBSET Nat, S \subseteq T,
         \A i \in S, j \in T \ S : i < j,
         \A i, j \in S : i < j => v[i].dur = w[i].dur,
         \A i \in S : w[i].dur \in Nat /\ v[i].dur \in Nat /\ w[i].dur <= v[i].dur,
         IsFiniteSet(S), NEW i \in S
  PROVE  /\ PlayedBefore(v, T, i) = PlayedBefore(w, S, i)
         /\ Crosses(w, S, i) => Crosses(v, T, i)
<1>1. {j \in T : j < i} = {j \in S : j < i}
  <2>1. \A j \in T : j \in Nat
    OBVIOUS
  <2>2. \A j \in T \ S : i < j /\ i \in T
    OBVIOUS
  <2>3. \A j \in T \ S : ~(j < i)
    BY <2>1, <2>2
  <2> QED
    BY <2>3
<1>2. \A j \in S : j < i => SecondsOf(v, j) = SecondsOf(w, j)
  BY DEF SecondsOf
<1>3. PlayedBefore(v, T, i) = PlayedBefore(w, S, i)
  <2>1. Seconds(v, {j \in S : j < i}) = Seconds(w, {j \in S : j < i})
    BY <1>2 DEF Seconds
  <2> QED
    BY <1>1, <2>1 DEF PlayedBefore
<1>4. PlayedBefore(w, S, i) \in Nat
  BY PlayedUpTo DEF Timed
<1>5. QualifySeconds \in Nat /\ w[i].dur \in Nat /\ v[i].dur \in Nat /\ w[i].dur <= v[i].dur
  BY QualifyAssumption
<1> QED
  BY <1>3, <1>4, <1>5 DEF Crosses

-----------------------------------------------------------------------------
\* What every step leaves of the rows.  A session goes on or ends, and an open one is
\* worth no less for having been closed.
SessionsGoOn ==
  /\ \A i \in DOMAIN sessions :
       /\ i \in DOMAIN sessions'
       /\ sessions'[i].life = sessions[i].life /\ sessions'[i].from = sessions[i].from
       /\ sessions[i].to # None => /\ sessions'[i].to # None
                                   /\ sessions'[i].dur = sessions[i].dur
       /\ sessions[i].to = None =>
            \/ sessions'[i].to = None /\ sessions'[i].dur = sessions[i].dur
            \/ /\ sessions'[i].to # None /\ sessions'[i].from + sessions'[i].dur <= clock
               /\ DurationSeconds(sessions[i].from, players[sessions[i].player].seen)
                    <= sessions'[i].dur
  /\ \A i \in DOMAIN sessions' \ DOMAIN sessions :
       /\ sessions'[i].from = clock /\ sessions'[i].dur = 0 /\ sessions'[i].to = None
       /\ \A j \in DOMAIN sessions :
            j < i /\ (sessions'[j].life = sessions'[i].life => sessions'[j].to # None)
  /\ \A i, j \in DOMAIN sessions' \ DOMAIN sessions : i = j

\* A life goes on or ends; where a death is later said to be a kill, it is of this second.
LivesGoOn ==
  /\ \A l \in DOMAIN lives :
       /\ l \in DOMAIN lives'
       /\ lives'[l].server = lives[l].server /\ lives'[l].player = lives[l].player
       /\ lives'[l].start = lives[l].start /\ lives[l].play <= lives'[l].play
       /\ lives[l].end = None => lives'[l].end \in {None, clock}
       /\ lives[l].end # None => /\ lives'[l].end = lives[l].end
                                 /\ lives[l].cause = "pvp" => lives'[l].cause = "pvp"
                                 /\ lives[l].cause # "pvp" /\ lives'[l].cause = "pvp" =>
                                      lives[l].end = clock
  /\ \A l \in DOMAIN lives' \ DOMAIN lives : lives'[l].start = clock

KillsCome ==
  /\ kills \subseteq kills'
  /\ \A k \in kills' \ kills : k.life \in DOMAIN lives' /\ lives'[k.life].end = clock

SeenGoesOn ==
  \A p \in DOMAIN players : p \in DOMAIN players' /\ players[p].seen <= players'[p].seen

RowsGoOn == SessionsGoOn /\ LivesGoOn /\ KillsCome /\ SeenGoesOn

LEMMA GoneOnClosed ==
  ASSUME TypeOK, Structure, NamesInv, TimesInv, NEW S, OpenOnes(S),
         NEW reason \in CloseReasons, NEW i \in DOMAIN sessions
  PROVE  LET T == Closed(S, clock, reason)
         IN  /\ T[i].life = sessions[i].life /\ T[i].from = sessions[i].from
             /\ sessions[i].to # None => T[i].to # None /\ T[i].dur = sessions[i].dur
             /\ sessions[i].to = None =>
                  \/ T[i].to = None /\ T[i].dur = sessions[i].dur
                  \/ /\ T[i].to # None /\ T[i].from + T[i].dur <= clock
                     /\ DurationSeconds(sessions[i].from, players[sessions[i].player].seen)
                          <= T[i].dur
             /\ i \in S => T[i].to # None
<1> DEFINE T == Closed(S, clock, reason)
           to == CloseTime(i, clock, reason)
           dur == Played(i, clock, reason)
<1>1. /\ RowsExist /\ sessions[i] \in SessionRow /\ sessions[i].from \in Nat
      /\ players[sessions[i].player].seen \in Nat /\ clock \in Nat
      /\ players[sessions[i].player].seen <= clock
  BY TableRows, RowTimes DEF Structure, RowsExist, NamesInv
<1>2. CASE i \notin S
  <2>1. T[i] = sessions[i]
    BY <1>2 DEF Closed
  <2> QED
    BY <1>2, <2>1
<1>3. CASE i \in S
  <2>1. T[i] = [sessions[i] EXCEPT !.to = to, !.dur = dur, !.reason = reason]
    BY <1>3 DEF Closed
  <2>2. sessions[i].to = None /\ sessions[i].from <= clock
    BY <1>3 DEF OpenOnes, TimesInv
  <2>3. /\ to \in Nat /\ to <= clock /\ sessions[i].from <= to
        /\ dur = to - sessions[i].from
    BY <1>1, <2>2, CloseIsBetween
  <2>4. DurationSeconds(sessions[i].from, players[sessions[i].player].seen) <= to - sessions[i].from
    BY <1>1, <2>2, <2>3 DEF CloseTime, Heartbeat, DurationSeconds
  <2>5. dur \in Nat /\ sessions[i].from + dur <= clock /\ to # None
    BY <1>1, <2>3, NoneAssumption
  <2> HIDE DEF T, to, dur
  <2>6. /\ T[i].life = sessions[i].life /\ T[i].from = sessions[i].from
        /\ T[i].to = to /\ T[i].dur = dur
    BY <1>1, <2>1 DEF SessionRow
  <2> QED
    BY <2>2, <2>3, <2>4, <2>5, <2>6 DEF T
<1> QED
  BY <1>2, <1>3

LEMMA GoneOnCredited ==
  ASSUME TypeOK, Structure, NEW S \in SUBSET DOMAIN sessions, NEW reason \in CloseReasons,
         clock \in Nat, NEW l \in DOMAIN lives
  PROVE  LET C == Credited(S, clock, reason)
         IN  /\ C[l] \in LifeRow
             /\ C[l].server = lives[l].server /\ C[l].player = lives[l].player
             /\ C[l].start = lives[l].start /\ lives[l].play <= C[l].play
             /\ C[l].end = lives[l].end /\ C[l].cause = lives[l].cause
<1> DEFINE c == CHOOSE i \in S : sessions[i].life = l
           more == Played(c, clock, reason)
           C == Credited(S, clock, reason)
<1>1. RowsExist /\ lives[l] \in LifeRow
  BY TableRows DEF Structure
<1>2. C[l] \in LifeRow
  <2>1. C \in Seq(LifeRow) /\ Len(C) = Len(lives) /\ DOMAIN C = DOMAIN lives
    BY <1>1, CreditedRows
  <2> HIDE DEF C
  <2> QED
    BY <2>1, LenProperties, ElementOfSeq
<1>3. CASE ~ \E i \in S : sessions[i].life = l
  <2>1. C[l] = lives[l]
    BY <1>3 DEF Credited
  <2>2. lives[l].play \in Nat
    BY <1>1 DEF LifeRow
  <2> QED
    BY <1>2, <2>1, <2>2
<1>4. CASE \E i \in S : sessions[i].life = l
  <2>1. C[l] = [lives[l] EXCEPT !.play = lives[l].play + more]
    BY <1>4 DEF Credited
  <2>2. c \in DOMAIN sessions
    BY <1>4
  <2> HIDE DEF c
  <2>3. more \in Nat
    BY <1>1, <2>2, ClosingTimes
  <2>4. lives[l].play \in Nat
    BY <1>1 DEF LifeRow
  <2> HIDE DEF more, C
  <2>5. /\ C[l].server = lives[l].server /\ C[l].player = lives[l].player
        /\ C[l].start = lives[l].start /\ C[l].play = lives[l].play + more
        /\ C[l].end = lives[l].end /\ C[l].cause = lives[l].cause
    BY <1>1, <2>1 DEF LifeRow
  <2> QED
    BY <1>2, <2>3, <2>4, <2>5 DEF C
<1> QED
  BY <1>3, <1>4

\* Sessions that close and are credited, all that most lines do.
LEMMA CloseGoesOn ==
  ASSUME TypeOK, Structure, NamesInv, TimesInv, clock \in Nat, NEW S, OpenOnes(S),
         NEW reason \in CloseReasons,
         sessions' = Closed(S, clock, reason), lives' = Credited(S, clock, reason)
  PROVE  SessionsGoOn /\ LivesGoOn
<1>1. S \in SUBSET DOMAIN sessions
  BY DEF OpenOnes
<1>2. DOMAIN sessions' = DOMAIN sessions /\ DOMAIN lives' = DOMAIN lives
  BY DEF Closed, Credited
<1>3. SessionsGoOn
  BY <1>2, GoneOnClosed DEF SessionsGoOn
<1>4. LivesGoOn
  BY <1>1, <1>2, GoneOnCredited DEF LivesGoOn
<1> QED
  BY <1>3, <1>4

LEMMA RestGoesOn ==
  ASSUME TypeOK
  PROVE  /\ UNCHANGED sessions => SessionsGoOn
         /\ UNCHANGED lives => LivesGoOn
         /\ UNCHANGED kills => KillsCome
         /\ UNCHANGED players => SeenGoesOn
<1>1. \A l \in DOMAIN lives : lives[l].play \in Nat
  BY RowTimes
<1>2. \A p \in DOMAIN players : players[p].seen \in Nat
  BY RowTimes
<1> QED
  BY <1>1, <1>2 DEF SessionsGoOn, LivesGoOn, KillsCome, SeenGoesOn

\* Who is seen is seen now.
LEMMA SeenNow ==
  ASSUME TypeOK, NamesInv, NEW a, NEW r, Sees(a, r)
  PROVE  SeenGoesOn
<1>1. \A p \in DOMAIN players : players[p].seen \in Nat /\ players[p].seen <= clock
  BY RowTimes DEF NamesInv
<1>2. ASSUME NEW p \in DOMAIN players
      PROVE  p \in DOMAIN players' /\ players[p].seen <= players'[p].seen
  BY <1>1 DEF Sees
<1> QED
  BY <1>2 DEF SeenGoesOn

LEMMA ConnectGoesOn ==
  ASSUME TypeOK, Structure, NamesInv, TimesInv, clock \in Nat,
         NEW s \in Servers, NEW a \in Accounts, Connected(s, a, clock)
  PROVE  RowsGoOn
<1>1. PICK p, l : p = IdentityOf(a) /\ ConnectOpens(s, a, p, l)
  BY ConnectedRows
<1> DEFINE S == OpenSession(s, p)
           C == Credited(S, clock, "superseded")
           T == Closed(S, clock, "superseded")
           n == Len(sessions) + 1
<1>2. /\ S \in SUBSET DOMAIN sessions /\ OpenOnes(S) /\ "superseded" \in CloseReasons
      /\ RowsExist /\ OpenRowsAgree /\ OneIdentityPerHash
  BY OpenAreOpen, Lookups DEF CloseReasons, Structure
<1>3. /\ DOMAIN sessions' = DOMAIN sessions \cup {n} /\ n \notin DOMAIN sessions
      /\ \A i \in DOMAIN sessions : sessions'[i] = T[i]
      /\ sessions'[n] = NewSession(s, p, l, clock)
      /\ \A m \in DOMAIN lives : m \in DOMAIN lives' /\ lives'[m] = C[m]
      /\ OpenLife(s, p) = {} => /\ l \notin DOMAIN lives
                                /\ DOMAIN lives' = DOMAIN lives \cup {l}
                                /\ lives'[l] = NewLife(s, p, clock)
      /\ OpenLife(s, p) # {} => l \in OpenLife(s, p) /\ DOMAIN lives' = DOMAIN lives
  BY <1>1 DEF ConnectOpens
<1>4. Len(sessions) \in Nat /\ DOMAIN sessions = 1 .. Len(sessions)
  BY TableRows
<1>5. ASSUME NEW j \in DOMAIN sessions, sessions[j].life = l
      PROVE  T[j].to # None
  <2>1. CASE j \in S
    BY <1>2, <2>1, GoneOnClosed
  <2>2. CASE j \notin S
    <3>1. SUFFICES ASSUME sessions[j].to = None PROVE FALSE
      BY <1>2, GoneOnClosed
    <3>2. IsOpenLife(l, sessions[j].server, sessions[j].player) /\ l \in DOMAIN lives
      BY <1>2, <1>5, <3>1 DEF OpenRowsAgree, RowsExist
    <3>3. l \in OpenLife(s, p)
      BY <1>3, <3>2
    <3>4. IsOpenLife(l, s, p)
      BY <3>3 DEF OpenLife, First
    <3>5. IsOpenSession(j, s, p)
      BY <3>1, <3>2, <3>4 DEF IsOpenLife, IsOpenSession
    <3>6. {i \in DOMAIN sessions : IsOpenSession(i, s, p)} = {j}
      BY <1>2, <3>5 DEF OpenRowsAgree, IsOpenSession
    <3> QED
      BY <2>2, <3>6, FirstOfSet DEF OpenSession
  <2> QED
    BY <2>1, <2>2
<1>6. SessionsGoOn
  <2>1. \A i \in DOMAIN sessions' \ DOMAIN sessions :
          /\ sessions'[i].from = clock /\ sessions'[i].dur = 0 /\ sessions'[i].to = None
          /\ \A j \in DOMAIN sessions :
               j < i /\ (sessions'[j].life = sessions'[i].life => sessions'[j].to # None)
    <3>1. /\ sessions'[n].from = clock /\ sessions'[n].life = l
          /\ sessions'[n].dur = 0 /\ sessions'[n].to = None
      BY <1>3 DEF NewSession
    <3>2. \A j \in DOMAIN sessions : j < n /\ T[j].life = sessions[j].life
      BY <1>2, <1>4, GoneOnClosed
    <3> HIDE DEF n, T
    <3> QED
      BY <1>3, <1>5, <3>1, <3>2
  <2>2. /\ \A i \in DOMAIN sessions : i \in DOMAIN sessions'
        /\ \A i, j \in DOMAIN sessions' \ DOMAIN sessions : i = j
    BY <1>3
  <2>3. \A i \in DOMAIN sessions :
             /\ T[i].life = sessions[i].life /\ T[i].from = sessions[i].from
             /\ sessions[i].to # None => T[i].to # None /\ T[i].dur = sessions[i].dur
             /\ sessions[i].to = None =>
                  \/ T[i].to = None /\ T[i].dur = sessions[i].dur
                  \/ /\ T[i].to # None /\ T[i].from + T[i].dur <= clock
                     /\ DurationSeconds(sessions[i].from, players[sessions[i].player].seen)
                          <= T[i].dur
    BY <1>2, GoneOnClosed
  <2> HIDE DEF T, n
  <2> QED
    BY <1>3, <2>1, <2>2, <2>3 DEF SessionsGoOn
<1>7. LivesGoOn
  <2>1. \A m \in DOMAIN lives :
             /\ C[m].server = lives[m].server /\ C[m].player = lives[m].player
             /\ C[m].start = lives[m].start /\ lives[m].play <= C[m].play
             /\ C[m].end = lives[m].end /\ C[m].cause = lives[m].cause
    BY <1>2, GoneOnCredited
  <2>2. \A m \in DOMAIN lives' \ DOMAIN lives : lives'[m].start = clock
    BY <1>3 DEF NewLife
  <2> HIDE DEF C
  <2> QED
    BY <1>3, <2>1, <2>2 DEF LivesGoOn
<1>8. KillsCome /\ SeenGoesOn
  <2>1. UNCHANGED kills /\ players' = ConnectedRow(a, clock)
    BY DEF Connected
  <2> QED
    BY <1>2, <2>1, ConnectSees, SeenNow, RestGoesOn
<1> QED
  BY <1>6, <1>7, <1>8 DEF RowsGoOn

LEMMA DeathGoesOn ==
  ASSUME TypeOK, Structure, NamesInv, TimesInv, clock \in Nat, NEW s \in Servers, NEW a,
         NEW p, NEW l \in OpenLife(s, p), NEW d \in DeathLines(s), UNCHANGED players,
         DiedAlive(s, a, p, l, d, clock)
  PROVE  RowsGoOn
<1> DEFINE S == OpenSession(s, p)
           C == Credited(S, clock, "clean")
<1>1. /\ S \in SUBSET DOMAIN sessions /\ OpenOnes(S) /\ "clean" \in CloseReasons
      /\ l \in DOMAIN lives /\ lives[l].end = None
  BY OpenAreOpen, Lookups DEF CloseReasons, OpenLife, First, IsOpenLife
<1>2. /\ sessions' = Closed(S, clock, "clean")
      /\ lives' = [C EXCEPT ![l] = Ended(C[l], d, clock)]
      /\ kills' = kills \cup KillOf(s, a, p, l, d)
  BY DEF DiedAlive
<1>3. SessionsGoOn
  <2>1. DOMAIN sessions' = DOMAIN sessions
    BY <1>2 DEF Closed
  <2> HIDE DEF S
  <2> QED
    BY <1>1, <1>2, <2>1, GoneOnClosed DEF SessionsGoOn
<1>4. \A m \in DOMAIN lives :
             /\ C[m] \in LifeRow
             /\ C[m].server = lives[m].server /\ C[m].player = lives[m].player
             /\ C[m].start = lives[m].start /\ lives[m].play <= C[m].play
             /\ C[m].end = lives[m].end /\ C[m].cause = lives[m].cause
  BY <1>1, GoneOnCredited
<1>5. DOMAIN C = DOMAIN lives
  BY DEF Credited
<1> HIDE DEF C, S
<1>6. /\ DOMAIN lives' = DOMAIN lives
      /\ \A m \in DOMAIN lives : m # l => lives'[m] = C[m]
      /\ lives'[l] = Ended(C[l], d, clock)
  BY <1>1, <1>2, <1>5
<1>7. /\ lives'[l].server = C[l].server /\ lives'[l].player = C[l].player
      /\ lives'[l].start = C[l].start /\ lives'[l].play = C[l].play
      /\ lives'[l].end = clock
  BY <1>1, <1>4, <1>6 DEF Ended, LifeRow
<1>8. LivesGoOn
  BY <1>1, <1>4, <1>6, <1>7 DEF LivesGoOn
<1>9. KillsCome
  <2>1. \A k \in KillOf(s, a, p, l, d) : k.life = l
    BY DEF KillOf
  <2> QED
    BY <1>1, <1>2, <1>6, <1>7, <2>1 DEF KillsCome
<1> QED
  BY <1>3, <1>8, <1>9, RestGoesOn DEF RowsGoOn

LEMMA LaterLineGoesOn ==
  ASSUME TypeOK, NEW s \in Servers, NEW p, NEW d \in DeathLines(s), UNCHANGED players,
         DiedAgain(s, p, d, clock)
  PROVE  RowsGoOn
<1>1. /\ DOMAIN lives' = DOMAIN lives
      /\ \A l \in DOMAIN lives : lives'[l] = IF l \in JustEnded(s, p, clock)
                                             THEN Enriched(lives[l], d) ELSE lives[l]
  BY DEF DiedAgain
<1>2. ASSUME NEW l \in DOMAIN lives
      PROVE  /\ lives'[l].server = lives[l].server /\ lives'[l].player = lives[l].player
             /\ lives'[l].start = lives[l].start /\ lives'[l].play = lives[l].play
             /\ lives[l].play <= lives'[l].play
             /\ lives'[l].end = lives[l].end
             /\ lives[l].cause = "pvp" => lives'[l].cause = "pvp"
             /\ lives[l].cause # lives'[l].cause => lives[l].end = clock
  <2>1. lives[l] \in LifeRow /\ lives[l].play \in Nat
    BY TableRows, RowTimes
  <2>2. CASE l \in JustEnded(s, p, clock)
    <3>1. lives'[l] = Enriched(lives[l], d) /\ lives[l].end = clock
      BY <1>1, <2>2 DEF JustEnded
    <3> QED
      BY <2>1, <3>1 DEF Enriched, LifeRow
  <2>3. CASE l \notin JustEnded(s, p, clock)
    BY <1>1, <2>1, <2>3
  <2> QED
    BY <2>2, <2>3
<1>3. LivesGoOn
  BY <1>1, <1>2 DEF LivesGoOn
<1> QED
  BY <1>3, RestGoesOn DEF DiedAgain, RowsGoOn

LEMMA PositionGoesOn ==
  ASSUME TypeOK, Structure, NamesInv, NEW s \in Servers, NEW a \in Accounts,
         Position(s, a, clock)
  PROVE  RowsGoOn
<1>1. UNCHANGED <<lives, kills>> /\ on[a] # None
  <2>1. None \notin Servers
    BY NoneAssumption
  <2> QED
    BY <2>1 DEF Position
<1>2. CASE UNCHANGED <<players, sessions>>
  BY <1>1, <1>2, RestGoesOn DEF RowsGoOn
<1>3. ASSUME NEW p \in ByTag(tagOf[a]), players' = Touched(p, clock),
             sessions' = Heard(s, a, clock)
      PROVE  RowsGoOn
  <2>1. ByTag(tagOf[a]) = Own(a) /\ OneIdentityPerHash
    BY <1>1, LineOfOwn DEF Position, Structure
  <2>2. SeenGoesOn
    BY <1>1, <1>3, <2>1, TouchSees, SeenNow
  <2>3. DOMAIN sessions' = DOMAIN sessions
    BY <1>3 DEF Heard
  <2>4. \A i \in DOMAIN sessions :
          /\ sessions'[i].life = sessions[i].life /\ sessions'[i].from = sessions[i].from
          /\ sessions'[i].to = sessions[i].to /\ sessions'[i].dur = sessions[i].dur
    <3> SUFFICES ASSUME NEW i \in DOMAIN sessions
                 PROVE  /\ sessions'[i].life = sessions[i].life
                        /\ sessions'[i].from = sessions[i].from
                        /\ sessions'[i].to = sessions[i].to
                        /\ sessions'[i].dur = sessions[i].dur
      OBVIOUS
    <3>1. \/ sessions'[i] = sessions[i]
          \/ sessions'[i] = [sessions[i] EXCEPT !.heard = clock]
      BY <1>3 DEF Heard
    <3>2. sessions[i] \in SessionRow
      BY TableRows
    <3> QED
      BY <3>1, <3>2 DEF SessionRow
  <2>5. SessionsGoOn
    BY <2>3, <2>4 DEF SessionsGoOn
  <2> QED
    BY <1>1, <2>2, <2>5, RestGoesOn DEF RowsGoOn
<1> QED
  BY <1>2, <1>3 DEF Position

LEMMA DisconnectGoesOn ==
  ASSUME TypeOK, Structure, NamesInv, TimesInv, clock \in Nat,
         NEW s \in Servers, NEW a \in Accounts, Disconnected(s, a, clock)
  PROVE  RowsGoOn
<1>1. UNCHANGED kills /\ on[a] # None
  <2>1. None \notin Servers
    BY NoneAssumption
  <2> QED
    BY <2>1 DEF Disconnected
<1>2. CASE UNCHANGED <<players, lives, sessions>>
  BY <1>1, <1>2, RestGoesOn DEF RowsGoOn
<1>3. ASSUME NEW p \in ByTag(tagOf[a]), players' = Touched(p, clock),
             lives' = Credited(OpenSession(s, p), clock, "clean"),
             sessions' = Closed(OpenSession(s, p), clock, "clean")
      PROVE  RowsGoOn
  <2>1. ByTag(tagOf[a]) = Own(a) /\ OneIdentityPerHash /\ "clean" \in CloseReasons
    BY <1>1, LineOfOwn DEF Disconnected, Structure, CloseReasons
  <2>2. SeenGoesOn
    BY <1>1, <1>3, <2>1, TouchSees, SeenNow
  <2>3. SessionsGoOn /\ LivesGoOn
    BY <1>3, <2>1, OpenAreOpen, CloseGoesOn
  <2> QED
    BY <1>1, <2>2, <2>3, RestGoesOn DEF RowsGoOn
<1> QED
  BY <1>2, <1>3 DEF Disconnected

LEMMA EveryStepGoesOn ==
  ASSUME MaxLag = 0, OrderInv, [Next]_vars
  PROVE  RowsGoOn /\ clock \in Nat /\ clock' \in Nat /\ clock <= clock'
<1>1. /\ TypeOK /\ Structure /\ NamesInv /\ TimesInv /\ TypeOK'
  BY NextIInv DEF OrderInv, IInv, Structure
<1>2. clock \in Nat /\ clock' \in Nat /\ \A at \in Stamps : at = clock
  BY <1>1, BoundsAssumption DEF TypeOK, Times, Stamps
<1>3. CASE UNCHANGED tables /\ clock <= clock'
  BY <1>1, <1>2, <1>3, RestGoesOn DEF tables, RowsGoOn
<1>4. ASSUME NEW s \in Servers, Line(s, clock)
      PROVE  RowsGoOn /\ clock' = clock
  <2>1. clock' = clock
    BY <1>4 DEF Line, Connected, Disconnected, Position, Died, Rebooted
  <2>2. ASSUME NEW a \in Accounts, NEW d \in DeathLines(s), Died(s, a, d, clock)
        PROVE  RowsGoOn
    <3>1. UNCHANGED players
      BY <2>2 DEF Died
    <3>2. CASE UNCHANGED <<lives, sessions, kills>>
      BY <1>1, <3>1, <3>2, RestGoesOn DEF RowsGoOn
    <3> QED
      BY <1>1, <1>2, <2>2, <3>1, <3>2, DeathGoesOn, LaterLineGoesOn DEF Died
  <2>3. CASE Rebooted(s, clock)
    <3>1. SessionsGoOn /\ LivesGoOn
      BY <1>1, <1>2, <2>3, OpenAreOpen, CloseGoesOn DEF Rebooted, CloseReasons
    <3> QED
      BY <1>1, <2>3, <3>1, RestGoesOn DEF Rebooted, RowsGoOn
  <2> QED
    BY <1>1, <1>2, <1>4, <2>1, <2>2, <2>3, ConnectGoesOn, DisconnectGoesOn, PositionGoesOn
    DEF Line
<1>5. \/ \E s \in Servers : Line(s, clock)
      \/ UNCHANGED tables /\ clock <= clock'
  <2>1. CASE UNCHANGED vars
    BY <1>2, <2>1 DEF vars, tables
  <2>2. CASE Next
    BY <1>2, <2>2 DEF Next, Tick, Leave, Rename
  <2> QED
    BY <2>1, <2>2
<1> QED
  BY <1>2, <1>3, <1>4, <1>5

-----------------------------------------------------------------------------
\* The instant at which a life came to count.

\* Sessions of a life follow each other, and what was played has passed.
SessionsInv ==
  /\ \A i \in DOMAIN sessions : sessions[i].from + sessions[i].dur <= clock
  /\ \A i, j \in DOMAIN sessions :
       i < j /\ sessions[i].life = sessions[j].life => sessions[i].to # None

HistoryInv == OrderInv /\ PlayInv /\ SessionsInv

LEMMA HistoryInit == Init => HistoryInv
<1> SUFFICES ASSUME Init PROVE HistoryInv
  OBVIOUS
<1>1. OrderInv
  BY OrderInit
<1>2. PlayInv /\ SessionsInv
  BY DEF Init, PlayInv, Counts, SessionsInv
<1> QED
  BY <1>1, <1>2 DEF HistoryInv

LEMMA SessionsStep ==
  ASSUME TypeOK, TypeOK', SessionsInv, SessionsGoOn,
         clock \in Nat, clock' \in Nat, clock <= clock'
  PROVE  SessionsInv'
<1>1. /\ DOMAIN sessions = 1 .. Len(sessions) /\ Len(sessions) \in Nat
      /\ \A i \in DOMAIN sessions : sessions[i] \in SessionRow
  BY TableRows
<1>2. \A i \in DOMAIN sessions : sessions[i].from \in Nat /\ sessions[i].dur \in Nat
  BY <1>1 DEF SessionRow
<1>3. /\ DOMAIN sessions' = 1 .. Len(sessions') /\ Len(sessions') \in Nat
      /\ \A i \in DOMAIN sessions' : sessions'[i] \in SessionRow
  BY TypeOK', ElementOfSeq, LenProperties DEF TypeOK
<1>4. \A i \in DOMAIN sessions' : sessions'[i].from \in Nat /\ sessions'[i].dur \in Nat
  BY <1>3 DEF SessionRow
<1>5. ASSUME NEW i \in DOMAIN sessions'
      PROVE  sessions'[i].from + sessions'[i].dur <= clock'
  <2>1. CASE i \in DOMAIN sessions
    <3>1. \/ sessions'[i].from = sessions[i].from /\ sessions'[i].dur = sessions[i].dur
          \/ sessions'[i].from + sessions'[i].dur <= clock
      BY <2>1 DEF SessionsGoOn
    <3>2. sessions[i].from + sessions[i].dur <= clock
      BY <2>1 DEF SessionsInv
    <3>3. sessions'[i].from + sessions'[i].dur <= clock
      BY <3>1, <3>2
    <3> QED
      BY <1>4, <3>3
  <2>2. CASE i \notin DOMAIN sessions
    <3>1. sessions'[i].from = clock /\ sessions'[i].dur = 0
      BY <2>2 DEF SessionsGoOn
    <3> QED
      BY <3>1
  <2> QED
    BY <2>1, <2>2
<1>6. ASSUME NEW i \in DOMAIN sessions', NEW j \in DOMAIN sessions',
             i < j, sessions'[i].life = sessions'[j].life
      PROVE  sessions'[i].to # None
  <2>1. CASE j \in DOMAIN sessions
    <3>1. i \in DOMAIN sessions
      BY <1>1, <1>3, <1>6, <2>1
    <3>2. sessions[i].life = sessions[j].life
      BY <1>6, <2>1, <3>1 DEF SessionsGoOn
    <3>3. sessions[i].to # None
      BY <1>6, <2>1, <3>1, <3>2 DEF SessionsInv
    <3> QED
      BY <3>1, <3>3 DEF SessionsGoOn
  <2>2. CASE j \notin DOMAIN sessions
    <3>1. CASE i \in DOMAIN sessions
      BY <1>6, <2>2, <3>1 DEF SessionsGoOn
    <3>2. CASE i \notin DOMAIN sessions
      BY <1>3, <1>6, <2>2, <3>2 DEF SessionsGoOn
    <3> QED
      BY <3>1, <3>2
  <2> QED
    BY <2>1, <2>2
<1> QED
  BY <1>5, <1>6 DEF SessionsInv

LEMMA HistoryStep ==
  ASSUME MaxLag = 0, HistoryInv, [Next]_vars
  PROVE  HistoryInv' /\ RowsGoOn /\ clock \in Nat /\ clock' \in Nat /\ clock <= clock'
<1>1. OrderInv' /\ RowsGoOn /\ clock \in Nat /\ clock' \in Nat /\ clock <= clock'
  BY OrderStep, EveryStepGoesOn DEF HistoryInv
<1>2. TypeOK /\ TypeOK' /\ Structure
  BY <1>1 DEF HistoryInv, OrderInv, IInv, Structure
<1>3. PlayInv'
  <2>1. \/ \E s \in Servers, at \in Stamps : Line(s, at)
        \/ UNCHANGED <<lives, sessions>>
    BY DEF Next, Leave, Rename, Tick, tables, vars
  <2> QED
    BY <1>2, <2>1, PlayLine, PlayStays DEF HistoryInv
<1>4. SessionsInv'
  BY <1>1, <1>2, SessionsStep DEF HistoryInv, RowsGoOn
<1> QED
  BY <1>1, <1>3, <1>4 DEF HistoryInv

\* What each session adds to its life, as a table of times.
Worths(upTo) == [i \in DOMAIN sessions |-> [dur |-> Contribution(i, upTo)]]
SeenOf(l) == Seen(lives[l].player)
WorthsOf(l) == Worths(SeenOf(l))
SessionsOf(l) == PlayedIn(sessions, l)

LEMMA WorthsTimed ==
  ASSUME TypeOK, NEW l, NEW upTo \in Nat
  PROVE  /\ SessionsOf(l) \in SUBSET (0 .. Len(sessions)) /\ SessionsOf(l) \in SUBSET Nat
         /\ Len(sessions) \in Nat /\ SessionsOf(l) \in SUBSET DOMAIN sessions
         /\ IsFiniteSet(SessionsOf(l)) /\ Timed(Worths(upTo), SessionsOf(l))
         /\ \A i \in DOMAIN sessions : /\ Worths(upTo)[i].dur = Contribution(i, upTo)
                                       /\ Contribution(i, upTo) \in Nat
<1>1. /\ Len(sessions) \in Nat /\ DOMAIN sessions = 1 .. Len(sessions)
      /\ \A i \in DOMAIN sessions : sessions[i] \in SessionRow
  BY TableRows
<1>2. SessionsOf(l) \subseteq DOMAIN sessions
  BY DEF SessionsOf, PlayedIn
<1>3. IsFiniteSet(SessionsOf(l))
  <2>1. IsFiniteSet(1 .. Len(sessions))
    BY <1>1, FS_Interval
  <2> QED
    BY <1>1, <1>2, <2>1, FS_Subset
<1>4. ASSUME NEW i \in DOMAIN sessions
      PROVE  Contribution(i, upTo) \in Nat
  <2>1. sessions[i].from \in Nat /\ sessions[i].dur \in Nat
    BY <1>1 DEF SessionRow
  <2> QED
    BY <2>1 DEF Contribution, DurationSeconds
<1>5. \A i \in DOMAIN sessions : Worths(upTo)[i].dur = Contribution(i, upTo)
  BY DEF Worths
<1>6. Timed(Worths(upTo), SessionsOf(l))
  BY <1>2, <1>4, <1>5 DEF Timed
<1>7. \A i \in SessionsOf(l) : i \in 0 .. Len(sessions) /\ i \in Nat
  BY <1>1, <1>2
<1> QED
  BY <1>1, <1>2, <1>3, <1>4, <1>5, <1>6, <1>7

LEMMA SumOfWorths ==
  ASSUME NEW upTo, NEW S, IsFiniteSet(S), S \subseteq DOMAIN sessions, Timed(Worths(upTo), S)
  PROVE  MapThenSumSet(LAMBDA i : Contribution(i, upTo), S)
           = Cardinality(Seconds(Worths(upTo), S))
<1> DEFINE w == Worths(upTo)
<1>1. MapThenSumSet(LAMBDA i : Contribution(i, upTo), S)
        = (CHOOSE h : h = [s \in SUBSET S |->
             IF s = {} THEN 0 ELSE Contribution(AnyOf(s), upTo) + h[s \ {AnyOf(s)}]])[S]
  BY DEF MapThenSumSet, MapThenFoldSet, AnyOf
<1>2. ASSUME NEW h
      PROVE  (h = [s \in SUBSET S |-> IF s = {} THEN 0
                     ELSE Contribution(AnyOf(s), upTo) + h[s \ {AnyOf(s)}]])
             <=> TimesUp(h, w, S)
  <2>1. \A s \in SUBSET S : s # {} => w[AnyOf(s)].dur = Contribution(AnyOf(s), upTo)
    <3> SUFFICES ASSUME NEW s \in SUBSET S, s # {}
                 PROVE  w[AnyOf(s)].dur = Contribution(AnyOf(s), upTo)
      OBVIOUS
    <3>1. AnyOf(s) \in DOMAIN sessions
      BY DEF AnyOf
    <3> QED
      BY <3>1 DEF Worths
  <2>2. [s \in SUBSET S |-> IF s = {} THEN 0
                     ELSE Contribution(AnyOf(s), upTo) + h[s \ {AnyOf(s)}]]
        = [s \in SUBSET S |-> IF s = {} THEN 0 ELSE w[AnyOf(s)].dur + h[s \ {AnyOf(s)}]]
    BY <2>1
  <2> QED
    BY <2>2 DEF TimesUp
<1>3. (CHOOSE h : TimesUp(h, w, S))[S] = Cardinality(Seconds(w, S))
  BY SumOfSeconds
<1> HIDE DEF w
<1>4. (CHOOSE h : h = [s \in SUBSET S |->
             IF s = {} THEN 0 ELSE Contribution(AnyOf(s), upTo) + h[s \ {AnyOf(s)}]])
      = CHOOSE h : TimesUp(h, w, S)
  BY <1>2
<1> QED
  BY <1>1, <1>3, <1>4 DEF w

LEMMA CrossedIs ==
  ASSUME TypeOK, NEW l, NEW upTo \in Nat
  PROVE  CrossedAt(l, upTo) =
           {sessions[i].from + QualifySeconds - PlayedBefore(Worths(upTo), SessionsOf(l), i) :
              i \in {j \in SessionsOf(l) : Crosses(Worths(upTo), SessionsOf(l), j)}}
<1> DEFINE w == Worths(upTo)
           S == SessionsOf(l)
           Adds(i) == Contribution(i, upTo)
           Before(i) == MapThenSumSet(Adds, {j \in S : j < i})
<1>1. CrossedAt(l, upTo) =
        {sessions[i].from + QualifySeconds - Before(i) :
         i \in {j \in S : /\ Before(j) < QualifySeconds
                          /\ Before(j) + Adds(j) >= QualifySeconds}}
  BY DEF CrossedAt, SessionsOf, PlayedIn
<1>2. ASSUME NEW i \in S
      PROVE  Before(i) = PlayedBefore(w, S, i) /\ Adds(i) = w[i].dur
  <2> DEFINE B == {j \in S : j < i}
  <2>1. /\ S \in SUBSET DOMAIN sessions /\ IsFiniteSet(S) /\ Timed(w, S)
        /\ \A j \in DOMAIN sessions : w[j].dur = Contribution(j, upTo)
    BY WorthsTimed
  <2>2. IsFiniteSet(B) /\ B \subseteq DOMAIN sessions /\ Timed(w, B)
    BY <2>1, FS_Subset DEF Timed
  <2> HIDE DEF B
  <2>3. MapThenSumSet(Adds, B) = Cardinality(Seconds(w, B))
    BY <2>2, SumOfWorths
  <2> QED
    BY <2>1, <2>3 DEF PlayedBefore, B
<1>3. \A i \in S : Crosses(w, S, i) <=> /\ Before(i) < QualifySeconds
                                        /\ Before(i) + Adds(i) >= QualifySeconds
  BY <1>2 DEF Crosses
<1> HIDE DEF w, S, Adds, Before
<1>4. {sessions[i].from + QualifySeconds - Before(i) :
         i \in {j \in S : /\ Before(j) < QualifySeconds
                          /\ Before(j) + Adds(j) >= QualifySeconds}}
      = {sessions[i].from + QualifySeconds - PlayedBefore(w, S, i) :
           i \in {j \in S : Crosses(w, S, j)}}
  BY <1>2, <1>3
<1> QED
  BY <1>1, <1>4 DEF w, S

\* The three kinds of instants, of which a life's is the earliest.
DeathAt(l) == IF lives[l].cause = "pvp" /\ lives[l].end # None THEN {lives[l].end} ELSE {}
ShotsAt(l) ==
  {t \in KillTimes(lives[l].server, lives[l].player) :
     lives[l].start <= t /\ (lives[l].end = None \/ t <= lives[l].end)}
Crossed(l) == CrossedAt(l, SeenOf(l))
Instants(l) == DeathAt(l) \cup ShotsAt(l) \cup Crossed(l)

\* What is known of a life's history in every state.
HistoryKnown(l) ==
  LET w == WorthsOf(l)
      S == SessionsOf(l)
  IN  /\ Crossed(l) = {sessions[i].from + QualifySeconds - PlayedBefore(w, S, i) :
                         i \in {j \in S : Crosses(w, S, j)}}
      /\ S \in SUBSET Nat /\ IsFiniteSet(S) /\ Timed(w, S)
      /\ S = {i \in DOMAIN sessions : sessions[i].life = l}
      /\ \A i \in S : w[i].dur = Contribution(i, SeenOf(l))
      /\ \A t \in Instants(l) : t \in Nat /\ t <= clock

LEMMA KillTimesPast ==
  ASSUME TypeOK, KillsInv, TimesInv, NEW s, NEW p, NEW t \in KillTimes(s, p)
  PROVE  t \in Nat /\ t <= clock
<1>1. PICK k \in kills : t = lives[k.life].end
  BY DEF KillTimes
<1>2. k.life \in DOMAIN lives /\ lives[k.life].end # None
  BY DEF KillsInv, KillsCreditTheKiller
<1> QED
  BY <1>1, <1>2, RowTimes DEF TimesInv, Fits

AllKnown == \A l \in DOMAIN lives : HistoryKnown(l)

LEMMA HistoryFacts == HistoryInv => AllKnown
<1> SUFFICES ASSUME HistoryInv, NEW l \in DOMAIN lives PROVE HistoryKnown(l)
  BY DEF AllKnown
<1>1. /\ TypeOK /\ RowsExist /\ OpenRowsAgree /\ KillsInv /\ TimesInv /\ NamesInv
      /\ SessionsInv /\ clock \in Nat /\ SeenOf(l) \in Nat
  BY RowTimes DEF HistoryInv, OrderInv, IInv, RowsExist, SeenOf, Seen
<1>2. PICK w, S : w = WorthsOf(l) /\ S = SessionsOf(l)
  OBVIOUS
<1>3. /\ S \in SUBSET Nat /\ IsFiniteSet(S) /\ Timed(w, S) /\ S \in SUBSET DOMAIN sessions
      /\ \A i \in S : w[i].dur = Contribution(i, SeenOf(l))
      /\ Crossed(l) = {sessions[i].from + QualifySeconds - PlayedBefore(w, S, i) :
                         i \in {j \in S : Crosses(w, S, j)}}
  BY <1>1, <1>2, WorthsTimed, CrossedIs DEF Crossed, WorthsOf
<1>4. ASSUME NEW t \in Crossed(l)
      PROVE  t \in Nat /\ t <= clock
  <2>1. PICK i \in S : /\ Crosses(w, S, i)
                       /\ t = sessions[i].from + QualifySeconds - PlayedBefore(w, S, i)
    BY <1>3, <1>4
  <2>2. /\ i \in DOMAIN sessions /\ sessions[i] \in SessionRow
        /\ sessions[i].from + sessions[i].dur <= clock
        /\ SeenOf(l) \in Nat /\ SeenOf(l) <= clock
    BY <1>1, <1>3, TableRows, RowTimes DEF SessionsInv, SeenOf, Seen, NamesInv, RowsExist
  <2>3. sessions[i].from \in Nat /\ sessions[i].dur \in Nat
    BY <2>2 DEF SessionRow
  <2>4. sessions[i].from + Contribution(i, SeenOf(l)) <= clock
    BY <1>1, <2>2, <2>3 DEF Contribution, DurationSeconds
  <2>5. PlayedBefore(w, S, i) \in Nat /\ w[i].dur \in Nat
    BY <1>3, PlayedUpTo
  <2>6. QualifySeconds \in Nat
    BY QualifyAssumption
  <2>7. /\ PlayedBefore(w, S, i) < QualifySeconds
        /\ PlayedBefore(w, S, i) + w[i].dur >= QualifySeconds
        /\ sessions[i].from + w[i].dur <= clock
    BY <1>3, <2>1, <2>4 DEF Crosses
  <2> QED
    BY <1>1, <2>1, <2>3, <2>5, <2>6, <2>7
<1>5. ASSUME NEW t \in DeathAt(l) \cup ShotsAt(l)
      PROVE  t \in Nat /\ t <= clock
  <2>1. CASE t \in DeathAt(l)
    BY <1>1, <2>1, RowTimes DEF DeathAt, TimesInv, Fits
  <2>2. CASE t \in ShotsAt(l)
    BY <1>1, <2>2, KillTimesPast DEF ShotsAt
  <2> QED
    BY <1>5, <2>1, <2>2
<1>6. \A t \in Instants(l) : t \in Nat /\ t <= clock
  BY <1>4, <1>5 DEF Instants
<1> QED
  BY <1>2, <1>3, <1>6 DEF HistoryKnown, SessionsOf, PlayedIn

\* Once crossed the bound stays where it was crossed, and of a life that ended it is
\* not crossed any more.
LEMMA CrossedStands ==
  ASSUME HistoryInv, HistoryInv', RowsGoOn, NEW l \in DOMAIN lives
  PROVE  Crossed(l) # {} \/ lives[l].end # None => Crossed(l)' = Crossed(l)
<1>1. /\ TypeOK /\ RowsExist /\ OpenRowsAgree /\ NamesInv /\ SessionsInv
      /\ TypeOK' /\ RowsExist' /\ OpenRowsAgree' /\ NamesInv'
      /\ l \in DOMAIN lives' /\ lives'[l].player = lives[l].player
  BY DEF HistoryInv, OrderInv, IInv, RowsGoOn, LivesGoOn
<1>2. HistoryKnown(l) /\ HistoryKnown(l)'
  <2>1. (HistoryInv => AllKnown)'
    BY HistoryFacts, PTL
  <2> QED
    BY <1>1, <2>1, HistoryFacts DEF AllKnown
<1>3. PICK S, T, w, v : /\ S = SessionsOf(l) /\ T = SessionsOf(l)'
                        /\ w = WorthsOf(l) /\ v = WorthsOf(l)'
  OBVIOUS
<1>4. /\ Crossed(l) = {sessions[i].from + QualifySeconds - PlayedBefore(w, S, i) :
                         i \in {j \in S : Crosses(w, S, j)}}
      /\ S \in SUBSET Nat /\ IsFiniteSet(S) /\ Timed(w, S)
      /\ S = {i \in DOMAIN sessions : sessions[i].life = l}
      /\ \A i \in S : w[i].dur = Contribution(i, SeenOf(l))
  BY <1>2, <1>3 DEF HistoryKnown
<1>5. /\ Crossed(l)' = {sessions'[i].from + QualifySeconds - PlayedBefore(v, T, i) :
                         i \in {j \in T : Crosses(v, T, j)}}
      /\ T \in SUBSET Nat /\ IsFiniteSet(T) /\ Timed(v, T)
      /\ T = {i \in DOMAIN sessions' : sessions'[i].life = l}
      /\ \A i \in T : v[i].dur = Contribution(i, SeenOf(l))'
  BY <1>2, <1>3 DEF HistoryKnown
<1>6. /\ S \subseteq T /\ \A i \in S, j \in T \ S : i < j
      /\ \A i \in S : sessions'[i].from = sessions[i].from
  <2>1. ASSUME NEW i \in S
        PROVE  i \in T /\ sessions'[i].from = sessions[i].from
    BY <1>4, <1>5, <2>1 DEF RowsGoOn, SessionsGoOn
  <2>2. ASSUME NEW i \in S, NEW j \in T \ S
        PROVE  i < j
    <3>1. j \in DOMAIN sessions' \ DOMAIN sessions /\ i \in DOMAIN sessions
      BY <1>4, <1>5, <2>2 DEF RowsGoOn, SessionsGoOn
    <3> QED
      BY <3>1 DEF RowsGoOn, SessionsGoOn
  <2> QED
    BY <2>1, <2>2
<1>7. ASSUME NEW i \in S
      PROVE  /\ sessions[i].to # None => v[i].dur = w[i].dur
             /\ w[i].dur \in Nat /\ v[i].dur \in Nat /\ w[i].dur <= v[i].dur
  <2>1. /\ i \in DOMAIN sessions /\ sessions[i].life = l /\ i \in T
        /\ w[i].dur = Contribution(i, SeenOf(l)) /\ v[i].dur = Contribution(i, SeenOf(l))'
        /\ w[i].dur \in Nat /\ v[i].dur \in Nat
    BY <1>4, <1>5, <1>6 DEF Timed
  <2>2. /\ SeenOf(l) = players[lives[l].player].seen
        /\ SeenOf(l)' = players'[lives[l].player].seen
        /\ players[lives[l].player].seen \in Nat /\ players'[lives[l].player].seen \in Nat
        /\ players[lives[l].player].seen <= players'[lives[l].player].seen
    <3>1. players[lives[l].player].seen <= players'[lives[l].player].seen
      BY <1>1 DEF RowsGoOn, SeenGoesOn, RowsExist
    <3>2. players[lives[l].player].seen \in Nat
      BY <1>1, RowTimes DEF RowsExist
    <3>3. players'[lives[l].player].seen \in Nat
      <4>1. lives[l].player \in DOMAIN players'
        BY <1>1 DEF RowsExist
      <4>2. players'[lives[l].player] \in PlayerRow
        BY <1>1, <4>1, ElementOfSeq, LenProperties DEF TypeOK
      <4> QED
        BY <4>2 DEF PlayerRow
    <3> QED
      BY <1>1, <3>1, <3>2, <3>3 DEF SeenOf, Seen
  <2>3. CASE sessions[i].to # None
    <3>1. sessions'[i].to # None /\ sessions'[i].dur = sessions[i].dur
      BY <2>1, <2>3 DEF RowsGoOn, SessionsGoOn
    <3>2. v[i].dur = w[i].dur
      BY <2>1, <2>3, <3>1 DEF Contribution
    <3> QED
      BY <2>1, <3>2
  <2>4. CASE sessions[i].to = None
    <3>1. sessions[i].player = lives[l].player /\ sessions[i].from \in Nat
      BY <1>1, <2>1, <2>4, RowTimes DEF OpenRowsAgree, IsOpenLife
    <3>2. w[i].dur = DurationSeconds(sessions[i].from, players[lives[l].player].seen)
      BY <2>1, <2>2, <2>4 DEF Contribution
    <3>3. CASE sessions'[i].to = None
      <4>1. v[i].dur = DurationSeconds(sessions[i].from, players'[lives[l].player].seen)
        BY <1>6, <2>1, <2>2, <3>3 DEF Contribution
      <4>2. w[i].dur <= v[i].dur
        BY <2>2, <3>1, <3>2, <4>1 DEF DurationSeconds
      <4> QED
        BY <2>1, <2>4, <4>2
    <3>4. CASE sessions'[i].to # None
      <4>1. v[i].dur = sessions'[i].dur
        BY <2>1, <3>4 DEF Contribution
      <4>2. DurationSeconds(sessions[i].from, players[sessions[i].player].seen)
              <= sessions'[i].dur
        BY <2>1, <2>4, <3>4 DEF RowsGoOn, SessionsGoOn
      <4> QED
        BY <2>1, <2>4, <3>1, <3>2, <4>1, <4>2
    <3> QED
      BY <3>3, <3>4
  <2> QED
    BY <2>3, <2>4
<1>8. \A i, j \in S : i < j => v[i].dur = w[i].dur
  BY <1>1, <1>4, <1>7 DEF SessionsInv
<1>9. \A i \in S : /\ PlayedBefore(v, T, i) = PlayedBefore(w, S, i)
                   /\ Crosses(w, S, i) => Crosses(v, T, i)
  BY <1>4, <1>5, <1>6, <1>7, <1>8, CrossesForGood
<1>10. CASE Crossed(l) # {}
  <2>1. PICK i \in S : Crosses(w, S, i)
    BY <1>4, <1>10
  <2>2. i \in T /\ Crosses(v, T, i)
    BY <1>6, <1>9, <2>1
  <2>3. {j \in S : Crosses(w, S, j)} = {i} /\ {j \in T : Crosses(v, T, j)} = {i}
    <3>1. \A j \in S : Crosses(w, S, j) => j = i
      BY <1>4, <2>1, CrossesOnce
    <3>2. \A j \in T : Crosses(v, T, j) => j = i
      BY <1>5, <2>2, CrossesOnce
    <3> QED
      BY <2>1, <2>2, <3>1, <3>2
  <2>4. /\ Crossed(l) = {sessions[i].from + QualifySeconds - PlayedBefore(w, S, i)}
        /\ Crossed(l)' = {sessions'[i].from + QualifySeconds - PlayedBefore(v, T, i)}
    BY <1>4, <1>5, <2>3
  <2> QED
    BY <1>6, <1>9, <2>4
<1>11. CASE lives[l].end # None
  <2>1. \A i \in S : sessions[i].to # None
    BY <1>1, <1>4, <1>11 DEF OpenRowsAgree, IsOpenLife
  <2>2. T = S
    <3>1. lives'[l].end # None
      BY <1>11 DEF RowsGoOn, LivesGoOn
    <3>2. ASSUME NEW j \in T, j \notin S
          PROVE  FALSE
      <4>1. j \in DOMAIN sessions' \ DOMAIN sessions /\ sessions'[j].life = l
        BY <1>4, <1>5, <3>2 DEF RowsGoOn, SessionsGoOn
      <4>2. sessions'[j].to = None
        BY <4>1 DEF RowsGoOn, SessionsGoOn
      <4> QED
        BY <1>1, <3>1, <4>1, <4>2 DEF OpenRowsAgree, IsOpenLife
    <3> QED
      BY <1>6, <3>2
  <2>3. \A i \in S : v[i].dur = w[i].dur /\ w[i].dur \in Nat /\ v[i].dur <= w[i].dur
    BY <1>7, <2>1
  <2>4. \A i \in S : Crosses(v, T, i) => Crosses(w, S, i)
    BY <1>4, <1>5, <1>7, <2>2, <2>3, CrossesForGood
  <2>5. {j \in S : Crosses(w, S, j)} = {j \in T : Crosses(v, T, j)}
    BY <1>9, <2>2, <2>4
  <2>6. PICK K : K = {j \in S : Crosses(w, S, j)}
    OBVIOUS
  <2>7. /\ Crossed(l) = {sessions[i].from + QualifySeconds - PlayedBefore(w, S, i) : i \in K}
        /\ Crossed(l)' = {sessions'[i].from + QualifySeconds - PlayedBefore(v, T, i) : i \in K}
    BY <1>4, <1>5, <2>5, <2>6
  <2>8. \A i \in K : /\ sessions'[i].from = sessions[i].from
                     /\ PlayedBefore(v, T, i) = PlayedBefore(w, S, i)
    BY <1>6, <1>9, <2>6
  <2> QED
    BY <2>7, <2>8
<1> QED
  BY <1>10, <1>11

LEMMA KillTimesCome ==
  ASSUME TypeOK, KillsInv, RowsGoOn, NEW s, NEW p
  PROVE  /\ KillTimes(s, p) \subseteq KillTimes(s, p)'
         /\ \A t \in KillTimes(s, p)' \ KillTimes(s, p) : t = clock
<1>1. /\ \A k \in kills : k.life \in DOMAIN lives /\ lives[k.life].end # None
      /\ \A k \in kills : lives'[k.life].end = lives[k.life].end
      /\ \A k \in kills' \ kills : lives'[k.life].end = clock
      /\ kills \subseteq kills'
  BY DEF KillsInv, KillsCreditTheKiller, RowsGoOn, LivesGoOn, KillsCome
<1>2. ASSUME NEW t \in KillTimes(s, p)
      PROVE  t \in KillTimes(s, p)'
  <2>1. PICK k \in kills : k.server = s /\ k.killer = p /\ t = lives[k.life].end
    BY <1>2 DEF KillTimes
  <2> QED
    BY <1>1, <2>1 DEF KillTimes
<1>3. ASSUME NEW t \in KillTimes(s, p)', t \notin KillTimes(s, p)
      PROVE  t = clock
  <2>1. PICK k \in kills' : k.server = s /\ k.killer = p /\ t = lives'[k.life].end
    BY <1>3 DEF KillTimes
  <2>2. CASE k \in kills
    BY <1>1, <1>3, <2>1, <2>2 DEF KillTimes
  <2> QED
    BY <1>1, <2>1, <2>2
<1> QED
  BY <1>2, <1>3

\* A life that counts goes on counting, from the same instant, or from an earlier one if
\* it counted by a kill.
LEMMA CountsForGood ==
  ASSUME MaxLag = 0, HistoryInv, [Next]_vars, NEW l \in DOMAIN lives, LifeQualifiedAt(l) # None
  PROVE  \/ LifeQualifiedAt(l)' = LifeQualifiedAt(l)
         \/ /\ LifeQualifiedAt(l) \in KillTimes(lives[l].server, lives[l].player)
            /\ LifeQualifiedAt(l)' # None /\ LifeQualifiedAt(l)' < LifeQualifiedAt(l)
<1>1. HistoryInv' /\ RowsGoOn /\ clock \in Nat
  BY HistoryStep
<1>2. /\ TypeOK /\ KillsInv /\ TimesInv
      /\ l \in DOMAIN lives' /\ lives'[l].player = lives[l].player
      /\ lives'[l].server = lives[l].server /\ lives'[l].start = lives[l].start
  BY <1>1 DEF HistoryInv, OrderInv, IInv, RowsGoOn, LivesGoOn
<1>3. PICK J, K : J = Instants(l) /\ K = Instants(l)'
  OBVIOUS
<1>4. /\ LifeQualifiedAt(l) = IF J = {} THEN None ELSE Min(J)
      /\ LifeQualifiedAt(l)' = IF K = {} THEN None ELSE Min(K)
  BY <1>3 DEF LifeQualifiedAt, QualifiedInstant, Instants, DeathAt, ShotsAt, Crossed, SeenOf
<1>5. /\ \A t \in J : t \in Nat /\ t <= clock
      /\ \A t \in K : t \in Nat
  <2>1. (HistoryInv => AllKnown)'
    BY HistoryFacts, PTL
  <2> QED
    BY <1>1, <1>2, <1>3, <2>1, HistoryFacts DEF AllKnown, HistoryKnown
<1>6. /\ DeathAt(l) \subseteq DeathAt(l)'
      /\ \A t \in DeathAt(l)' \ DeathAt(l) : t = clock
  <2>1. None \notin {clock}
    BY <1>1, NoneAssumption
  <2> QED
    BY <1>1, <2>1 DEF DeathAt, RowsGoOn, LivesGoOn
<1>7. /\ ShotsAt(l) \subseteq ShotsAt(l)'
      /\ \A t \in ShotsAt(l)' \ ShotsAt(l) : t = clock
  <2> DEFINE shots == KillTimes(lives[l].server, lives[l].player)
  <2>1. /\ shots \subseteq shots' /\ \A t \in shots' \ shots : t = clock
        /\ shots' = KillTimes(lives[l].server, lives[l].player)'
    BY <1>1, <1>2, KillTimesCome
  <2>2. \A t \in shots : t \in Nat /\ t <= clock
    BY <1>2, KillTimesPast
  <2>3. \/ lives'[l].end = lives[l].end
        \/ lives[l].end = None /\ lives'[l].end = clock
    BY <1>1 DEF RowsGoOn, LivesGoOn
  <2>4. /\ ShotsAt(l) = {t \in shots :
                           lives[l].start <= t /\ (lives[l].end = None \/ t <= lives[l].end)}
        /\ ShotsAt(l)' = {t \in shots' :
                           lives[l].start <= t /\ (lives'[l].end = None \/ t <= lives'[l].end)}
    BY <1>2 DEF ShotsAt
  <2> HIDE DEF shots
  <2> QED
    BY <2>1, <2>2, <2>3, <2>4
<1>8. Crossed(l) # {} \/ lives[l].end # None => Crossed(l)' = Crossed(l)
  BY <1>1, CrossedStands
<1>9. /\ J = DeathAt(l) \cup ShotsAt(l) \cup Crossed(l)
      /\ K = DeathAt(l)' \cup ShotsAt(l)' \cup Crossed(l)'
      /\ J \subseteq K
  BY <1>3, <1>6, <1>7, <1>8 DEF Instants
<1>10. J # {} /\ K # {}
  BY <1>4, <1>9
<1>11. PICK m, n : m = Min(J) /\ n = Min(K)
  OBVIOUS
<1>12. /\ m \in J /\ n \in K /\ m \in Nat /\ n \in Nat /\ m <= clock
       /\ (\A t \in J : m <= t) /\ (\A t \in K : n <= t)
  <2>1. J \in SUBSET Nat /\ K \in SUBSET Nat
    BY <1>5
  <2> QED
    BY <1>5, <1>10, <1>11, <2>1, MinIsLeast
<1>13. CASE m # n
  <2>1. n < m /\ n # clock
    BY <1>1, <1>9, <1>12, <1>13
  <2>2. n \notin J
    BY <1>12, <2>1
  <2>3. n \in Crossed(l)' /\ n \notin Crossed(l)
    BY <1>6, <1>7, <1>9, <1>12, <2>1, <2>2
  <2>4. Crossed(l) = {} /\ lives[l].end = None
    BY <1>8, <2>3
  <2>5. m \in ShotsAt(l)
    BY <1>9, <1>12, <2>4 DEF DeathAt
  <2>6. m \in KillTimes(lives[l].server, lives[l].player)
    BY <2>5 DEF ShotsAt
  <2>7. n # None
    BY <1>12, NoneAssumption
  <2> QED
    BY <1>4, <1>10, <1>11, <2>1, <2>6, <2>7
<1> QED
  BY <1>4, <1>10, <1>11, <1>13

\* What came before a life: lives that began earlier, and kills.
LEMMA PriorsKept ==
  ASSUME MaxLag = 0, HistoryInv, [Next]_vars, NEW l \in DOMAIN lives
  PROVE  LET was == Priors(lives[l].player, lives[l].start)
             is == Priors(lives[l].player, lives[l].start)'
         IN  /\ is.lives = was.lives /\ is.kills = was.kills
             /\ is.longest >= was.longest
<1>1. HistoryInv' /\ RowsGoOn /\ clock \in Nat /\ clock' \in Nat
  BY HistoryStep
<1>2. /\ TypeOK /\ KillsInv /\ TimesInv /\ TimesInv' /\ TypeOK'
      /\ \A m \in DOMAIN lives :
           /\ m \in DOMAIN lives' /\ lives'[m].player = lives[m].player
           /\ lives'[m].start = lives[m].start /\ lives[m].play <= lives'[m].play
      /\ \A m \in DOMAIN lives' \ DOMAIN lives : lives'[m].start = clock
  BY <1>1 DEF HistoryInv, OrderInv, IInv, RowsGoOn, LivesGoOn
<1>3. PICK p, before : p = lives[l].player /\ before = lives[l].start
  OBVIOUS
<1>4. /\ lives'[l].player = p /\ lives'[l].start = before /\ before \in Nat /\ before <= clock
  <2>1. /\ lives[l].start \in Nat /\ lives[l].play \in Nat
        /\ lives[l].start + lives[l].play <= clock
    BY <1>2, RowTimes DEF TimesInv, Fits
  <2> QED
    BY <1>1, <1>2, <1>3, <2>1
<1>5. PICK A : A = PriorLives(p, before)
  OBVIOUS
<1>6. A = PriorLives(p, before)' /\ A \subseteq DOMAIN lives
  BY <1>1, <1>2, <1>4, <1>5 DEF PriorLives
<1>7. {k \in kills' : k.killer = p /\ KillTime(k)' < before}
        = {k \in kills : k.killer = p /\ KillTime(k) < before}
  <2>1. /\ kills \subseteq kills' /\ \A k \in kills' \ kills : lives'[k.life].end = clock
        /\ \A k \in kills : lives'[k.life].end = lives[k.life].end
    BY <1>1, <1>2 DEF KillsInv, KillsCreditTheKiller, RowsGoOn, LivesGoOn, KillsCome
  <2>2. ~(clock < before)
    BY <1>1, <1>4
  <2> QED
    BY <2>1, <2>2 DEF KillTime
<1>8. PICK L, M : /\ L = {0} \cup {lives[m].play : m \in A}
                  /\ M = {0} \cup {lives'[m].play : m \in A}
  OBVIOUS
<1>9. /\ \A x \in L : x \in 0 .. clock
      /\ \A x \in M : x \in 0 .. clock'
  <2>1. ASSUME NEW m \in DOMAIN lives
        PROVE  lives[m].play \in 0 .. clock
    <3>1. /\ lives[m].start \in Nat /\ lives[m].play \in Nat
          /\ lives[m].start + lives[m].play <= clock
      BY <1>2, <2>1, RowTimes DEF TimesInv, Fits
    <3> QED
      BY <1>1, <3>1
  <2>2. ASSUME NEW m \in DOMAIN lives'
        PROVE  lives'[m].play \in 0 .. clock'
    <3>1. lives'[m] \in LifeRow
      BY <1>2, <2>2, ElementOfSeq, LenProperties DEF TypeOK
    <3>2. /\ lives'[m].start \in Nat /\ lives'[m].play \in Nat
          /\ lives'[m].start + lives'[m].play <= clock'
      BY <1>2, <2>2, <3>1 DEF TimesInv, Fits, LifeRow
    <3> QED
      BY <1>1, <3>2
  <2>3. \A m \in A : m \in DOMAIN lives /\ m \in DOMAIN lives'
    BY <1>2, <1>6
  <2> QED
    BY <1>1, <1>8, <2>1, <2>2, <2>3
<1>10. /\ Max(L) \in L /\ Max(M) \in M /\ \A x \in M : x <= Max(M)
       /\ \A x \in L : x \in Nat
       /\ \A x \in M : x \in Nat
  <2>1. L # {} /\ M # {} /\ L \in SUBSET (0 .. clock) /\ M \in SUBSET (0 .. clock')
    BY <1>8, <1>9
  <2>2. Max(L) \in L
    BY <1>1, <2>1, MaxIsGreatest
  <2>3. Max(M) \in M /\ \A x \in M : x <= Max(M)
    BY <1>1, <2>1, MaxIsGreatest
  <2> QED
    BY <1>1, <1>9, <2>2, <2>3
<1>11. Max(M) >= Max(L)
  <2>1. CASE Max(L) = 0
    BY <1>10, <2>1
  <2>2. ASSUME NEW m \in A, Max(L) = lives[m].play
        PROVE  Max(M) >= Max(L)
    <3>1. lives'[m].play \in M /\ lives[m].play <= lives'[m].play /\ lives[m].play \in L
      BY <1>2, <1>6, <1>8
    <3> QED
      BY <1>10, <2>2, <3>1
  <2> QED
    BY <1>8, <1>10, <2>1, <2>2
<1>12. /\ Priors(p, before) =
            [lives |-> Cardinality(A), longest |-> Max(L),
             kills |-> Cardinality({k \in kills : k.killer = p /\ KillTime(k) < before})]
       /\ Priors(lives[l].player, lives[l].start)' =
            [lives |-> Cardinality(A), longest |-> Max(M),
             kills |-> Cardinality({k \in kills' : k.killer = p /\ KillTime(k)' < before})]
  <2>1. Priors(p, before) =
            [lives |-> Cardinality(A), longest |-> Max(L),
             kills |-> Cardinality({k \in kills : k.killer = p /\ KillTime(k) < before})]
    BY <1>5, <1>8 DEF Priors
  <2>2. Priors(lives[l].player, lives[l].start)' =
            [lives |-> Cardinality(A), longest |-> Max(M),
             kills |-> Cardinality({k \in kills' : k.killer = p /\ KillTime(k)' < before})]
    BY <1>3, <1>4, <1>6, <1>8 DEF Priors
  <2> QED
    BY <2>1, <2>2
<1>13. PICK was, is : /\ was = Priors(lives[l].player, lives[l].start)
                      /\ is = Priors(lives[l].player, lives[l].start)'
  OBVIOUS
<1>14. /\ was.lives = Cardinality(A) /\ is.lives = Cardinality(A)
       /\ was.kills = is.kills /\ was.longest = Max(L) /\ is.longest = Max(M)
  <2>1. PICK n, x, y, z :
          /\ n = Cardinality(A) /\ x = Max(L) /\ y = Max(M)
          /\ z = Cardinality({k \in kills : k.killer = p /\ KillTime(k) < before})
    OBVIOUS
  <2>2. was = [lives |-> n, longest |-> x, kills |-> z]
    BY <1>3, <1>12, <1>13, <2>1
  <2>3. is = [lives |-> n, longest |-> y, kills |-> z]
    BY <1>7, <1>12, <1>13, <2>1
  <2> QED
    BY <2>1, <2>2, <2>3
<1> QED
  BY <1>11, <1>13, <1>14

\* Of lines folded in order, on however many servers: a life that counts goes on counting
\* and from no later instant, and what came before it is told alike at any time.
THEOREM PastIsPast == MaxLag = 0 => (SiteSpec => HistoryStands)
<1> SUFFICES ASSUME MaxLag = 0 PROVE SiteSpec => HistoryStands
  OBVIOUS
<1>0. SiteInit => Init
  BY DEF SiteInit
<1>00. [SiteNext]_siteVars => [Next]_vars
  BY DEF SiteNext, siteVars
<1>1. Init => HistoryInv
  BY HistoryInit
<1>2. HistoryInv /\ [Next]_vars => HistoryInv'
  BY HistoryStep
<1>3. HistoryInv /\ [Next]_vars =>
        [\A l \in DOMAIN lives :
           LET was == LifeQualifiedAt(l)
               is == LifeQualifiedAt(l)'
           IN  was # None =>
                 \/ is = was
                 \/ /\ was \in KillTimes(lives[l].server, lives[l].player)
                    /\ is # None /\ is < was]_vars
  BY CountsForGood
<1>4. HistoryInv /\ [Next]_vars =>
        [\A l \in DOMAIN lives :
           LET was == Priors(lives[l].player, lives[l].start)
               is == Priors(lives[l].player, lives[l].start)'
           IN  /\ is.lives = was.lives /\ is.kills = was.kills
               /\ is.longest >= was.longest]_vars
  BY PriorsKept
<1> QED
  BY <1>0, <1>00, <1>1, <1>2, <1>3, <1>4, PTL
  DEF SiteSpec, HistoryStands, QualifiedForGood, PriorsStand

-----------------------------------------------------------------------------
\* Names: a player's own is one they carried, and kills were fired under such.
NamesCarried ==
  /\ \A p \in DOMAIN players : players[p].tag \in players[p].names
  /\ \A k \in kills : k.killer # None => k.name \in players[k.killer].names

\* What a line leaves of the names.
NamesGoOn ==
  /\ \A p \in DOMAIN players : /\ p \in DOMAIN players'
                               /\ players[p].names \subseteq players'[p].names
  /\ \A p \in DOMAIN players' : players'[p].tag \in players'[p].names

LEMMA NamesGoOnAt ==
  ASSUME TypeOK, NamesCarried, NEW s \in Servers, NEW at \in Nat, Line(s, at)
  PROVE  NamesGoOn
<1>1. /\ Len(players) \in Nat /\ DOMAIN players = 1 .. Len(players)
      /\ players \in Seq(PlayerRow) /\ \A p \in DOMAIN players : players[p] \in PlayerRow
  BY TableRows DEF TypeOK
<1>2. ASSUME UNCHANGED players PROVE NamesGoOn
  BY <1>2 DEF NamesGoOn, NamesCarried
<1>3. ASSUME NEW t, NEW p \in ByTag(t), players' = Touched(p, at)
      PROVE  NamesGoOn
  <2>1. p \in DOMAIN players
    BY Lookups
  <2>2. /\ DOMAIN players' = DOMAIN players
        /\ \A q \in DOMAIN players : /\ players'[q].names = players[q].names
                                     /\ players'[q].tag = players[q].tag
    BY <1>1, <1>3, <2>1 DEF Touched, PlayerRow
  <2> QED
    BY <2>2 DEF NamesGoOn, NamesCarried
<1>4. ASSUME NEW a \in Accounts, players' = ConnectedRow(a, at)
      PROVE  NamesGoOn
  <2>0. tagOf[a] \in Tags
    BY DEF TypeOK
  <2>1. CASE ByHash(a) = {}
    <3>1. NewPlayer(a, at) \in PlayerRow /\ tagOf[a] \in NewPlayer(a, at).names
          /\ NewPlayer(a, at).tag = tagOf[a]
      BY <2>0 DEF NewPlayer, PlayerRow
    <3>2. players' = Append(players, NewPlayer(a, at))
      BY <1>4, <2>1 DEF ConnectedRow
    <3>3. /\ players' \in Seq(PlayerRow) /\ Len(players') = Len(players) + 1
          /\ \A p \in 1 .. Len(players) : players'[p] = players[p]
          /\ players'[Len(players) + 1] = NewPlayer(a, at)
      BY <1>1, <3>1, <3>2, AppendProperties
    <3>4. DOMAIN players' = 1 .. Len(players) + 1
      BY <3>3, LenProperties
    <3>5. \A p \in DOMAIN players' : p \in DOMAIN players \/ p = Len(players) + 1
      BY <1>1, <3>4
    <3>6. DOMAIN players \subseteq DOMAIN players'
      BY <1>1, <3>4
    <3> QED
      BY <1>1, <3>1, <3>3, <3>5, <3>6 DEF NamesGoOn, NamesCarried
  <2>2. CASE ByHash(a) # {}
    <3> DEFINE p == IdentityOf(a)
               row == [players[p] EXCEPT !.tag = tagOf[a],
                                         !.names = players[p].names \cup {tagOf[a]},
                                         !.seen = at]
    <3>1. p \in DOMAIN players
      BY <2>2, Lookups DEF IdentityOf
    <3>2. row.tag = tagOf[a] /\ row.names = players[p].names \cup {tagOf[a]}
      BY <1>1, <3>1 DEF PlayerRow
    <3>3. players' = [players EXCEPT ![p] = row]
      BY <1>1, <1>4, <2>2, <3>1 DEF ConnectedRow, PlayerRow
    <3> HIDE DEF p, row
    <3>4. /\ DOMAIN players' = DOMAIN players /\ players'[p] = row
          /\ \A q \in DOMAIN players : q # p => players'[q] = players[q]
      BY <1>1, <3>1, <3>3
    <3> QED
      BY <3>1, <3>2, <3>4 DEF NamesGoOn, NamesCarried
  <2> QED
    BY <2>1, <2>2
<1> QED
  BY <1>2, <1>3, <1>4
  DEF Line, Connected, Disconnected, Position, Died, Rebooted

LEMMA NamesCarriedStep ==
  ASSUME TypeOK, KillsInv, NamesCarried, [Next]_vars
  PROVE  NamesCarried'
<1>1. ASSUME UNCHANGED <<players, kills>> PROVE NamesCarried'
  BY <1>1 DEF NamesCarried
<1>2. ASSUME NEW s \in Servers, NEW at \in Stamps, Line(s, at)
      PROVE  NamesCarried'
  <2>1. NamesGoOn
    BY <1>2, Lookups, NamesGoOnAt
  <2>2. ASSUME NEW k \in kills, k.killer # None
        PROVE  k.name \in players'[k.killer].names
    BY <2>1, <2>2 DEF NamesGoOn, NamesCarried, KillsInv
  <2>3. ASSUME NEW a, NEW p, NEW l, NEW d, NEW k \in KillOf(s, a, p, l, d), k.killer # None
        PROVE  k.name \in players'[k.killer].names
    <3>1. k.killer \in ByTag(k.name)
      BY <2>3 DEF KillOf, PlayerNamed
    <3>2. k.killer \in DOMAIN players /\ players[k.killer].tag = k.name
      BY <3>1 DEF ByTag
    <3> QED
      BY <2>1, <3>2 DEF NamesGoOn, NamesCarried
  <2>4. \A k \in kills' : k \in kills \/ \E a, p, l, d : k \in KillOf(s, a, p, l, d)
    BY <1>2 DEF Line, Connected, Disconnected, Position, Died, DiedAlive, DiedAgain, Rebooted
  <2> QED
    BY <2>1, <2>2, <2>3, <2>4 DEF NamesCarried, NamesGoOn
<1> QED
  BY <1>1, <1>2 DEF Next, vars, tables, Tick, Leave, Rename

-----------------------------------------------------------------------------
\* The three decisions about a life that ended.
LEMMA DecidedOnce == HistoryInv => DecidedAlike
<1> SUFFICES ASSUME HistoryInv, NEW l \in DOMAIN lives, lives[l].end # None
             PROVE  LET counts == l \in PlayerLives(lives[l].server, lives[l].player, None)
                    IN  /\ QualifiedLifeCondition(l) <=> counts
                        /\ (LifeQualifiedAt(l) # None) <=> counts
  BY DEF DecidedAlike
<1> DEFINE s == lives[l].server
           p == lives[l].player
           shot == \E t \in KillTimes(s, p) : lives[l].start <= t /\ t <= lives[l].end
           counts == lives[l].cause = "pvp" \/ shot \/ lives[l].play >= QualifySeconds
<1>1. l \in PlayerLives(s, p, None) <=> counts
  <2>1. LifeRowFor(l, None) = lives[l]
    BY DEF LifeRowFor, ApplyRetirement
  <2>2. PlayedSeconds(lives[l], s, p) = lives[l].play
    BY DEF PlayedSeconds
  <2>3. l \in LivesOf(s, p)
    BY DEF LivesOf
  <2> QED
    BY <2>1, <2>2, <2>3 DEF PlayerLives, IsLifeQualified
<1>2. QualifiedLifeCondition(l) <=> counts
  BY DEF QualifiedLifeCondition
<1>3. LifeQualifiedAt(l) # None <=> Instants(l) # {}
  <2>1. LifeQualifiedAt(l) = IF Instants(l) = {} THEN None ELSE Min(Instants(l))
    BY DEF LifeQualifiedAt, QualifiedInstant, Instants, DeathAt, ShotsAt, Crossed, SeenOf, Seen
  <2>2. HistoryKnown(l)
    BY HistoryFacts DEF AllKnown
  <2>3. Instants(l) \subseteq Nat
    BY <2>2 DEF HistoryKnown
  <2>4. Instants(l) # {} => Min(Instants(l)) \in Nat
    BY <2>3, MinIsLeast
  <2> QED
    BY <2>1, <2>4, NoneAssumption
<1>4. Crossed(l) # {} <=> lives[l].play >= QualifySeconds
  <2>1. PICK w, S : w = WorthsOf(l) /\ S = SessionsOf(l)
    OBVIOUS
  <2>2. /\ Crossed(l) = {sessions[i].from + QualifySeconds - PlayedBefore(w, S, i) :
                           i \in {j \in S : Crosses(w, S, j)}}
        /\ S \in SUBSET Nat /\ IsFiniteSet(S) /\ Timed(w, S)
        /\ S = {i \in DOMAIN sessions : sessions[i].life = l}
        /\ \A i \in S : w[i].dur = Contribution(i, SeenOf(l))
    BY <2>1, HistoryFacts DEF AllKnown, HistoryKnown
  <2>3. Crossed(l) # {} <=> \E i \in S : Crosses(w, S, i)
    BY <2>2
  <2>4. /\ TypeOK /\ OpenRowsAgree /\ PlayInv
        /\ Len(sessions) \in Nat /\ DOMAIN sessions = 1 .. Len(sessions)
    BY TableRows DEF HistoryInv, OrderInv, IInv
  <2>5. S \subseteq 0 .. Len(sessions)
    BY <2>2, <2>4
  <2>6. (\E i \in S : Crosses(w, S, i)) <=> Cardinality(Seconds(w, S)) >= QualifySeconds
    BY <2>2, <2>4, <2>5, CrossesIffReached
  <2>7. \A i \in S : sessions[i].to # None
    BY <2>2, <2>4 DEF OpenRowsAgree, IsOpenLife
  <2>8. \A i \in S : SecondsOf(w, i) = SecondsOf(sessions, i)
    <3>1. \A i \in S : w[i].dur = sessions[i].dur
      BY <2>2, <2>7 DEF Contribution
    <3> QED
      BY <3>1 DEF SecondsOf
  <2>9. Seconds(w, S) = Seconds(sessions, PlayedIn(sessions, l))
    BY <2>2, <2>8 DEF Seconds, PlayedIn
  <2> QED
    BY <2>3, <2>4, <2>6, <2>9 DEF PlayInv, Counts
<1>5. DeathAt(l) # {} <=> lives[l].cause = "pvp"
  BY DEF DeathAt
<1>6. ShotsAt(l) # {} <=> shot
  BY DEF ShotsAt
<1>7. LifeQualifiedAt(l) # None <=> counts
  BY <1>3, <1>4, <1>5, <1>6 DEF Instants
<1> QED
  BY <1>1, <1>2, <1>7

-----------------------------------------------------------------------------
\* What the boards show of somebody with a name of their own.
ShownUnder(board, t) == {row[2] : row \in {r \in board : r[1] = t}}
Values(value, S) == {value[l] : l \in S}

\* Kills under the name are the player's kills.
LEMMA KillsByName ==
  ASSUME TypeOK, NamesCarried, NEW s \in Servers, NEW p \in DOMAIN players, SoleHolder(p)
  PROVE  KillsUnder(s, players[p].tag) = {k \in kills : k.server = s /\ k.killer = p}
<1>0. p # None
  BY TableRows, NoneAssumption
<1>1. ASSUME NEW k \in kills, k.killer = p PROVE k.name = players[p].tag
  BY <1>0, <1>1 DEF SoleHolder, NamesCarried
<1>2. ASSUME NEW k \in kills, k.name = players[p].tag PROVE k.killer = p
  BY <1>2 DEF SoleHolder
<1> QED
  BY <1>1, <1>2 DEF KillsUnder

\* So are the lives of whoever carries it, and when they count.
LEMMA LivesByName ==
  ASSUME TypeOK, NamesCarried, RowsExist, NEW s \in Servers, NEW p \in DOMAIN players, SoleHolder(p)
  PROVE  /\ \A l \in LivesHere(s) : players[lives[l].player].tag = players[p].tag
                                      <=> l \in LivesOf(s, p)
         /\ \A l \in LivesOf(s, p) : \A play, upTo :
              CountsUnder(l, play, upTo) <=>
                IsLifeQualified(lives[l].cause, play, lives[l].start, upTo, KillTimes(s, p))
<1>1. ASSUME NEW l \in LivesHere(s), players[lives[l].player].tag = players[p].tag
      PROVE  l \in LivesOf(s, p)
  <2>1. lives[l].player \in DOMAIN players /\ l \in DOMAIN lives /\ lives[l].server = s
    BY DEF RowsExist, LivesHere
  <2>2. players[lives[l].player].tag \in players[lives[l].player].names
    BY <2>1 DEF NamesCarried
  <2>3. lives[l].player = p
    BY <1>1, <2>1, <2>2 DEF SoleHolder
  <2> QED
    BY <2>1, <2>3 DEF LivesOf
<1>2. ASSUME NEW l \in LivesOf(s, p)
      PROVE  /\ l \in LivesHere(s) /\ lives[l].player = p /\ lives[l].server = s
             /\ {KillTime(k) : k \in KillsUnder(lives[l].server,
                                                players[lives[l].player].tag)}
                  = KillTimes(s, p)
  BY KillsByName DEF LivesOf, LivesHere, KillTimes, KillTime
<1>3. ASSUME NEW l \in LivesOf(s, p), NEW play, NEW upTo
      PROVE  CountsUnder(l, play, upTo) <=>
                IsLifeQualified(lives[l].cause, play, lives[l].start, upTo, KillTimes(s, p))
  BY <1>2 DEF CountsUnder
<1> QED
  BY <1>1, <1>2, <1>3

\* The board of the living.
LEMMA AliveByName ==
  ASSUME TypeOK, NamesCarried, RowsExist, NEW s \in Servers, NEW p \in DOMAIN players, SoleHolder(p)
  PROVE  ShownUnder(AliveLongest(s), players[p].tag)
           = {TimeAlive(l) : l \in Survivors(s) \cap LivesOf(s, p)}
<1> DEFINE Shown(m) == /\ lives[m].end = None
                       /\ CountsUnder(m, TimeAlive(m), Seen(lives[m].player))
           there == {m \in LivesHere(s) : Shown(m)}
           t == players[p].tag
<1>1. ASSUME NEW l \in LivesOf(s, p)
      PROVE  Shown(l) <=> l \in Survivors(s)
  <2>1. /\ l \in DOMAIN lives /\ lives[l].server = s /\ lives[l].player = p
    BY DEF LivesOf
  <2>2. CountsUnder(l, TimeAlive(l), Seen(p)) <=>
          IsLifeQualified(lives[l].cause, TimeAlive(l), lives[l].start, Seen(p), KillTimes(s, p))
    BY LivesByName
  <2>3. IsLifeQualified(lives[l].cause, TimeAlive(l), lives[l].start, Seen(p), KillTimes(s, p))
          <=> IsLifeQualified(lives[l].cause, TimeAlive(l), lives[l].start, Seen(p),
                              {u \in KillTimes(s, p) : u >= lives[l].start})
    BY DEF IsLifeQualified
  <2> QED
    BY <2>1, <2>2, <2>3 DEF Survivors
<1>2. LivesOf(s, p) \subseteq LivesHere(s)
  BY DEF LivesOf, LivesHere
<1>3. Survivors(s) \subseteq LivesHere(s)
  BY DEF Survivors, LivesHere
<1>4. {m \in there : players[lives[m].player].tag = t} = Survivors(s) \cap LivesOf(s, p)
  BY <1>1, <1>2, <1>3, LivesByName
<1>5. AliveLongest(s) = {<<players[lives[l].player].tag, TimeAlive(l)>> : l \in there}
  BY DEF AliveLongest
<1> HIDE DEF there
<1>6. {row[2] : row \in {r \in AliveLongest(s) : r[1] = t}}
        = {TimeAlive(l) : l \in {m \in there : players[lives[m].player].tag = t}}
  <2>1. ASSUME NEW l \in there
        PROVE  /\ <<players[lives[l].player].tag, TimeAlive(l)>>[1] = players[lives[l].player].tag
               /\ <<players[lives[l].player].tag, TimeAlive(l)>>[2] = TimeAlive(l)
    OBVIOUS
  <2>2. \A r \in AliveLongest(s) : \E l \in there :
          r[1] = players[lives[l].player].tag /\ r[2] = TimeAlive(l)
    BY <1>5
  <2>3. \A l \in there : \E r \in AliveLongest(s) :
          r[1] = players[lives[l].player].tag /\ r[2] = TimeAlive(l)
    BY <1>5, <2>1
  <2> QED
    BY <2>2, <2>3
<1> QED
  BY <1>4, <1>6 DEF ShownUnder

\* A board of best values shows one of the values of the name's own lives.
LEMMA BestByName ==
  ASSUME TypeOK, NamesCarried, RowsExist, NEW s \in Servers, NEW p \in DOMAIN players, SoleHolder(p),
         NEW D \in SUBSET LivesHere(s), NEW value \in [D -> Nat],
         NEW x \in ShownUnder(Best(value), players[p].tag)
  PROVE  /\ D \cap LivesOf(s, p) # {}
         /\ x = Max(Values(value, D \cap LivesOf(s, p)))
<1> DEFINE t == players[p].tag
           Of(u) == {l \in DOMAIN value : players[lives[l].player].tag = u}
           Names == {u \in Tags : Of(u) # {}}
<1>1. x = Max({value[l] : l \in Of(t)}) /\ Of(t) # {}
  <2>1. Best(value) = {<<u, Max({value[l] : l \in Of(u)})>> : u \in Names}
    BY DEF Best
  <2>2. PICK r \in Best(value) : r[1] = t /\ x = r[2]
    BY DEF ShownUnder
  <2>3. PICK u \in Names : r = <<u, Max({value[l] : l \in Of(u)})>>
    BY <2>1, <2>2
  <2>4. r[1] = u /\ r[2] = Max({value[l] : l \in Of(u)})
    BY <2>3
  <2> QED
    BY <2>2, <2>3, <2>4
<1>2. Of(t) = D \cap LivesOf(s, p)
  BY LivesByName
<1> QED
  BY <1>1, <1>2 DEF Values

LEMMA KillsFinite ==
  ASSUME TypeOK, KillsInv, NEW K \in SUBSET kills
  PROVE  IsFiniteSet(K) /\ Cardinality(K) \in 0 .. Cardinality(kills)
         /\ Cardinality(kills) \in Nat
<1>1. Len(lives) \in Nat /\ DOMAIN lives = 1 .. Len(lives)
  BY TableRows
<1>2. IsFiniteSet(DOMAIN lives)
  BY <1>1, FS_Interval
<1> DEFINE f == [k \in kills |-> k.life]
<1>3. f \in [kills -> DOMAIN lives] /\ \A j, k \in kills : f[j] = f[k] => j = k
  BY DEF KillsInv, KillsCreditTheKiller
<1>4. f \in Injection(kills, DOMAIN lives)
  BY <1>3 DEF Injection, IsInjective
<1>5. IsFiniteSet(kills)
  BY <1>2, <1>4, FS_Injection
<1>6. IsFiniteSet(K) /\ Cardinality(K) <= Cardinality(kills)
  BY <1>5, FS_Subset
<1>7. Cardinality(K) \in Nat /\ Cardinality(kills) \in Nat
  BY <1>5, <1>6, FS_CardinalityType
<1> QED
  BY <1>6, <1>7

\* The sum of the time of one life.
LEMMA SumOfOne ==
  ASSUME NEW s, NEW p, NEW l, PlayedSeconds(lives[l], s, p) \in Nat
  PROVE  MapThenSumSet(LAMBDA m : PlayedSeconds(lives[m], s, p), {l})
           = PlayedSeconds(lives[l], s, p)
<1> DEFINE S == {l}
           v == PlayedSeconds(lives[l], s, p)
           IsSum(h) == h = [t \in SUBSET S |->
             IF t = {} THEN 0 ELSE PlayedSeconds(lives[AnyOf(t)], s, p) + h[t \ {AnyOf(t)}]]
           g == [t \in SUBSET S |-> IF t = {} THEN 0 ELSE v]
<1>1. MapThenSumSet(LAMBDA m : PlayedSeconds(lives[m], s, p), S) = (CHOOSE h : IsSum(h))[S]
  BY DEF MapThenSumSet, MapThenFoldSet, AnyOf
<1>2. \A t \in SUBSET S : t = {} \/ t = S
  OBVIOUS
<1>3. AnyOf(S) = l /\ S # {}
  BY DEF AnyOf
<1>4. S \ {AnyOf(S)} = {}
  BY <1>3
<1>5. \A t \in SUBSET S : t # {} =>
        PlayedSeconds(lives[AnyOf(t)], s, p) + g[t \ {AnyOf(t)}] = v
  <2>1. g[{}] = 0
    OBVIOUS
  <2>2. PlayedSeconds(lives[AnyOf(S)], s, p) + g[S \ {AnyOf(S)}] = v + 0
    BY <1>3, <1>4, <2>1
  <2>3. v + 0 = v
    OBVIOUS
  <2> QED
    BY <1>2, <2>2, <2>3
<1>6. IsSum(g)
  BY <1>5
<1>7. ASSUME NEW h, IsSum(h)
      PROVE  h[S] = v
  <2>1. h[{}] = 0
    BY <1>7
  <2>2. h[S] = PlayedSeconds(lives[AnyOf(S)], s, p) + h[S \ {AnyOf(S)}]
    BY <1>3, <1>7
  <2>3. h[S] = v + 0
    BY <1>3, <1>4, <2>1, <2>2
  <2> QED
    BY <2>3
<1>8. IsSum(CHOOSE h : IsSum(h))
  <2> HIDE DEF g, IsSum
  <2> QED
    BY <1>6
<1> HIDE DEF IsSum
<1> QED
  BY <1>1, <1>7, <1>8

\* What a page shows of a life is no less than what its row holds.
LEMMA ShownAtLeast ==
  ASSUME TypeOK, OpenRowsAgree, NamesInv, TimesInv,
         NEW s \in Servers, NEW p \in DOMAIN players, NEW l \in PlayerLives(s, p, None)
  PROVE  /\ ShownSeconds(l, AllActive) \in 0 .. 2 * clock
         /\ lives[l].play <= ShownSeconds(l, AllActive)
<1>1. /\ l \in LivesOf(s, p) /\ l \in DOMAIN lives /\ lives[l].server = s
      /\ lives[l].player = p
  BY DEF PlayerLives, LivesOf
<1>2. /\ clock \in Nat /\ Seen(p) \in Nat /\ Seen(p) <= clock
      /\ lives[l].play \in Nat /\ lives[l].play <= clock /\ lives[l].start \in Nat
  BY <1>1, RowTimes DEF Seen, NamesInv, TimesInv, Fits
<1>3. AllActive[s].active /\ AllActive[s].retired = None
  BY DEF AllActive, Active
<1>4. CASE lives[l].end # None
  <2>1. ShownSeconds(l, AllActive) = lives[l].play
    BY <1>1, <1>3, <1>4 DEF ShownSeconds, RowOn, LifeRowFor, ApplyRetirement
  <2> QED
    BY <1>2, <2>1
<1>5. CASE lives[l].end = None
  <2> DEFINE v == PlayedSeconds(lives[l], s, p)
             current == {m \in PlayerLives(s, p, None) : lives[m].end = None}
  <2>1. v \in 0 .. 2 * clock /\ lives[l].play <= v
    <3>1. v = LivePlaytime(lives[l].play, FromOf(OpenSession(s, p)), Seen(p))
      BY <1>5 DEF PlayedSeconds
    <3>2. FromOf(OpenSession(s, p)) = None \/ FromOf(OpenSession(s, p)) \in Nat
      <4>1. OpenSession(s, p) # {} =>
              (CHOOSE i \in OpenSession(s, p) : TRUE) \in OpenSession(s, p)
        OBVIOUS
      <4> QED
        BY <4>1, Lookups, RowTimes DEF FromOf
    <3>3. CASE FromOf(OpenSession(s, p)) = None
      BY <1>2, <3>1, <3>3 DEF LivePlaytime
    <3>4. CASE FromOf(OpenSession(s, p)) \in Nat
      <4>1. v = lives[l].play + DurationSeconds(FromOf(OpenSession(s, p)), Seen(p))
        BY <3>1, <3>4, NoneAssumption DEF LivePlaytime
      <4>2. DurationSeconds(FromOf(OpenSession(s, p)), Seen(p)) \in 0 .. clock
        BY <1>2, <3>4 DEF DurationSeconds
      <4> HIDE DEF v
      <4> QED
        BY <1>2, <4>1, <4>2
    <3> QED
      BY <3>2, <3>3, <3>4
  <2>2. current = {l}
    <3>1. ASSUME NEW m \in current PROVE m = l
      BY <1>1, <1>5, <3>1 DEF OpenRowsAgree, PlayerLives, LivesOf
    <3> QED
      BY <1>5, <3>1
  <2>3. ShownSeconds(l, AllActive) = Profile(s, p).current
    BY <1>1, <1>3, <1>5 DEF ShownSeconds
  <2>4. Profile(s, p).current = MapThenSumSet(LAMBDA m : PlayedSeconds(lives[m], s, p), current)
    BY DEF Profile
  <2>5. v \in Nat
    BY <1>2, <2>1
  <2> HIDE DEF current
  <2>6. ShownSeconds(l, AllActive) = v
    BY <2>2, <2>3, <2>4, <2>5, SumOfOne
  <2> HIDE DEF v
  <2> QED
    BY <2>1, <2>6
<1> QED
  BY <1>4, <1>5

LEMMA LongestAtLeast ==
  ASSUME TypeOK, OpenRowsAgree, NamesInv, TimesInv,
         NEW s \in Servers, NEW p \in DOMAIN players, NEW l \in PlayerLives(s, p, None)
  PROVE  lives[l].play <= Totals(p, AllActive, NoBans).longest
<1> DEFINE all == AllLives(p, AllActive)
           V == {0} \cup {ShownSeconds(m, AllActive) : m \in all}
<1>1. Totals(p, AllActive, NoBans).longest = Max(V)
  BY DEF Totals, Longest
<1>2. \A q \in Servers : AllActive[q].retired = None
  BY DEF AllActive, Active
<1>3. all = UNION {PlayerLives(q, p, None) : q \in Servers}
  BY <1>2 DEF AllLives, LivesOn
<1>4. clock \in Nat /\ 2 * clock \in Nat
  BY RowTimes
<1>5. \A m \in all : ShownSeconds(m, AllActive) \in 0 .. 2 * clock
  BY <1>3, ShownAtLeast
<1>6. ShownSeconds(l, AllActive) \in V
  BY <1>3
<1>7. \A x \in V : x \in 0 .. 2 * clock
  BY <1>4, <1>5
<1>8. lives[l].play <= ShownSeconds(l, AllActive) /\ lives[l].play \in Nat
  BY ShownAtLeast, RowTimes DEF PlayerLives, LivesOf
<1> HIDE DEF V
<1>9. Max(V) \in V /\ \A m \in V : m <= Max(V)
  BY <1>4, <1>6, <1>7, MaxIsGreatest
<1>10. PICK a, b : a = ShownSeconds(l, AllActive) /\ b = Max(V)
  OBVIOUS
<1>11. a \in Nat /\ b \in Nat /\ a <= b
  BY <1>6, <1>7, <1>9, <1>10
<1> QED
  BY <1>1, <1>8, <1>10, <1>11

LEMMA MostKillsByName ==
  ASSUME TypeOK, NamesCarried, NEW s \in Servers, NEW p \in DOMAIN players, SoleHolder(p),
         NEW x \in ShownUnder(MostKills(s), players[p].tag)
  PROVE  x = Cardinality({k \in kills : k.server = s /\ k.killer = p})
<1>1. PICK r \in MostKills(s) : r[1] = players[p].tag /\ x = r[2]
  BY DEF ShownUnder
<1>2. PICK t \in {k.name : k \in kills} : r = <<t, Cardinality(KillsUnder(s, t))>>
  BY DEF MostKills
<1>3. r[1] = t /\ r[2] = Cardinality(KillsUnder(s, t))
  BY <1>2
<1> QED
  BY <1>1, <1>3, KillsByName

\* Their longest row of kills is the longest of one of their lives.
LEMMA StreaksByName ==
  ASSUME TypeOK, RowsExist, KillsInv, TimesInv, NamesCarried,
         NEW s \in Servers, NEW p \in DOMAIN players, SoleHolder(p),
         NEW x \in ShownUnder(LongestKillstreak(s), players[p].tag)
  PROVE  x = Max({0} \cup {Cardinality(LifeKills(s, p, lives[l].start, lives[l].end)) :
                             l \in LivesOf(s, p)})
<1> DEFINE Fired(l) == {k \in KillsUnder(s, players[lives[l].player].tag) :
                          /\ k.killer # None
                          /\ lives[l].start <= KillTime(k)
                          /\ KillTime(k) <= EndOr(l, clock)}
           value == [l \in LivesHere(s) |-> Cardinality(Fired(l))]
           mine == LivesOf(s, p)
           Streak(l) == Cardinality(LifeKills(s, p, lives[l].start, lives[l].end))
           V == {Streak(l) : l \in mine}
           n == Cardinality(kills)
<1>1. LongestKillstreak(s) = Best(value)
  BY DEF LongestKillstreak
<1>2. ASSUME NEW l \in LivesHere(s) PROVE Cardinality(Fired(l)) \in Nat
  <2>1. Fired(l) \in SUBSET kills
    BY DEF KillsUnder
  <2> HIDE DEF Fired
  <2> QED
    BY <2>1, KillsFinite
<1>3. value \in [LivesHere(s) -> Nat]
  BY <1>2
<1>4. mine \subseteq LivesHere(s)
  BY DEF LivesOf, LivesHere
<1>5. ASSUME NEW l \in mine PROVE value[l] = Streak(l) /\ Streak(l) \in 0 .. n
  <2>1. l \in DOMAIN lives /\ lives[l].player = p /\ l \in LivesHere(s)
    BY <1>4 DEF LivesOf
  <2>2. KillsUnder(s, players[p].tag) = {k \in kills : k.server = s /\ k.killer = p}
    BY KillsByName
  <2>3. p # None
    BY TableRows, NoneAssumption
  <2>4. ASSUME NEW k \in kills, k.server = s, k.killer = p PROVE KillTime(k) <= clock
    <3>1. KillTime(k) \in KillTimes(s, p)
      BY <2>4 DEF KillTimes, KillTime
    <3> QED
      BY <3>1, KillTimesPast
  <2>5. Fired(l) = LifeKills(s, p, lives[l].start, lives[l].end)
    BY <2>1, <2>2, <2>3, <2>4 DEF LifeKills, EndOr
  <2>6. LifeKills(s, p, lives[l].start, lives[l].end) \in SUBSET kills
    BY DEF LifeKills
  <2>7. Streak(l) \in 0 .. n
    BY <2>6, KillsFinite
  <2> QED
    BY <2>1, <2>5, <2>7
<1>6. n \in Nat
  BY KillsFinite
<1> HIDE DEF value, Streak, n
<1>7. /\ LivesHere(s) \cap mine # {}
      /\ x = Max(Values(value, LivesHere(s) \cap mine))
  <2>1. x \in ShownUnder(Best(value), players[p].tag)
    BY <1>1
  <2>2. LivesHere(s) \in SUBSET LivesHere(s)
    OBVIOUS
  <2> HIDE DEF mine
  <2> QED
    BY <1>3, <2>1, <2>2, BestByName DEF mine
<1>8. Values(value, LivesHere(s) \cap mine) = V
  BY <1>4, <1>5 DEF Values
<1>9. V # {} /\ (\A v \in V : v \in 0 .. n /\ v \in Nat)
  BY <1>4, <1>5, <1>6, <1>7
<1> HIDE DEF V
<1>10. Max(V) \in V /\ \A v \in V : v <= Max(V)
  BY <1>6, <1>9, MaxIsGreatest
<1>11. \A v \in {0} \cup V : v \in 0 .. n /\ v \in Nat
  BY <1>6, <1>9
<1>12. Max({0} \cup V) \in {0} \cup V /\ \A v \in {0} \cup V : v <= Max({0} \cup V)
  BY <1>6, <1>11, MaxIsGreatest
<1>13. PICK a, b : a = Max(V) /\ b = Max({0} \cup V)
  OBVIOUS
<1>14. a \in Nat /\ b \in Nat /\ a <= b /\ b <= a
  <2>1. a \in V /\ b \in {0} \cup V /\ a <= b
    BY <1>10, <1>12, <1>13
  <2>2. a \in Nat /\ b \in Nat
    BY <1>11, <2>1
  <2>3. b = 0 \/ b <= a
    BY <1>10, <1>13, <2>1
  <2> QED
    BY <2>1, <2>2, <2>3
<1>15. a = b
  BY <1>14
<1> QED
  BY <1>7, <1>8, <1>13, <1>15 DEF V, Streak

\* A life on the all-time board is on a page too, unless a kill fired after the last
\* heartbeat put it there.
LEMMA AlltimeByName ==
  ASSUME TypeOK, RowsExist, OpenRowsAgree, NamesInv, KillsInv, TimesInv, NamesCarried,
         NEW s \in Servers, NEW p \in DOMAIN players, SoleHolder(p),
         NEW x \in ShownUnder(AlltimeLongest(s), players[p].tag)
  PROVE  \/ x <= Totals(p, AllActive, NoBans).longest
         \/ \E l \in LivesOf(s, p) : /\ lives[l].end = None /\ lives[l].play = x
                                     /\ FiredUnheard(l)
<1> DEFINE D == {m \in LivesHere(s) : CountsUnder(m, lives[m].play, EndOr(m, clock))}
           value == [l \in D |-> lives[l].play]
           V == Values(value, D \cap LivesOf(s, p))
<1>0. clock \in Nat
  BY RowTimes
<1>1. AlltimeLongest(s) = Best(value)
  BY DEF AlltimeLongest
<1>2. \A l \in D : lives[l].play \in 0 .. clock /\ lives[l].play \in Nat
  BY RowTimes DEF LivesHere, TimesInv, Fits
<1>3. value \in [D -> Nat] /\ D \in SUBSET LivesHere(s)
  BY <1>2
<1>4. D \cap LivesOf(s, p) # {} /\ x = Max(V)
  <2> HIDE DEF D, value
  <2>1. x \in ShownUnder(Best(value), players[p].tag)
    BY <1>1
  <2> QED
    BY <1>3, <2>1, BestByName
<1>5. V # {} /\ \A v \in V : v \in 0 .. clock
  BY <1>2, <1>4 DEF Values
<1>6. x \in V
  <2> HIDE DEF V
  <2> QED
    BY <1>0, <1>4, <1>5, MaxIsGreatest
<1>7. PICK l \in D \cap LivesOf(s, p) : x = lives[l].play
  BY <1>6 DEF Values
<1>8. /\ l \in DOMAIN lives /\ lives[l].server = s /\ lives[l].player = p
      /\ IsLifeQualified(lives[l].cause, lives[l].play, lives[l].start, EndOr(l, clock),
                         KillTimes(s, p))
  BY <1>7, LivesByName DEF LivesOf
<1>9. LifeRowFor(l, None) = lives[l]
  BY DEF LifeRowFor, ApplyRetirement
<1>10. CASE l \in PlayerLives(s, p, None)
  BY <1>7, <1>10, LongestAtLeast
<1>11. CASE l \notin PlayerLives(s, p, None)
  <2>1. lives[l].end = None
    BY <1>7, <1>8, <1>9, <1>11 DEF PlayerLives, PlayedSeconds, EndOr
  <2>2. ~IsLifeQualified(lives[l].cause, PlayedSeconds(lives[l], s, p), lives[l].start,
                         Seen(p), KillTimes(s, p))
    BY <1>7, <1>9, <1>11, <2>1 DEF PlayerLives
  <2>3. PlayedSeconds(lives[l], s, p) >= lives[l].play
    <3>1. PlayedSeconds(lives[l], s, p)
            = LivePlaytime(lives[l].play, FromOf(OpenSession(s, p)), Seen(p))
      BY <2>1 DEF PlayedSeconds
    <3>2. FromOf(OpenSession(s, p)) = None \/ FromOf(OpenSession(s, p)) \in Nat
      <4>1. OpenSession(s, p) # {} =>
              (CHOOSE i \in OpenSession(s, p) : TRUE) \in OpenSession(s, p)
        OBVIOUS
      <4> QED
        BY <4>1, Lookups, RowTimes DEF FromOf
    <3>3. lives[l].play \in Nat /\ Seen(p) \in Nat
      BY <1>8, RowTimes DEF Seen
    <3> QED
      BY <3>1, <3>2, <3>3, NoneAssumption DEF LivePlaytime, DurationSeconds
  <2>4. PlayedSeconds(lives[l], s, p) \in Int /\ lives[l].play \in Int
    <3>1. FromOf(OpenSession(s, p)) = None \/ FromOf(OpenSession(s, p)) \in Nat
      <4>1. OpenSession(s, p) # {} =>
              (CHOOSE i \in OpenSession(s, p) : TRUE) \in OpenSession(s, p)
        OBVIOUS
      <4> QED
        BY <4>1, Lookups, RowTimes DEF FromOf
    <3>2. lives[l].play \in Nat /\ Seen(p) \in Nat
      BY <1>8, RowTimes DEF Seen
    <3> QED
      BY <2>1, <3>1, <3>2, NoneAssumption DEF PlayedSeconds, LivePlaytime, DurationSeconds
  <2>5. QualifySeconds \in Nat
    BY QualifyAssumption
  <2>6. ~(lives[l].play >= QualifySeconds)
    BY <2>2, <2>3, <2>4, <2>5 DEF IsLifeQualified
  <2>7. PICK t \in KillTimes(s, p) : lives[l].start <= t /\ t <= clock /\ ~(t <= Seen(p))
    BY <1>8, <2>1, <2>2, <2>6 DEF IsLifeQualified, EndOr
  <2>8. t \in Nat /\ Seen(p) \in Nat
    BY KillTimesPast, RowTimes DEF Seen
  <2>9. t > Seen(p)
    BY <2>7, <2>8
  <2> QED
    BY <1>7, <1>8, <2>1, <2>9 DEF FiredUnheard
<1> QED
  BY <1>10, <1>11

RecordsInv == HistoryInv /\ NamesCarried

LEMMA NamesLead ==
  ASSUME NamesCarried, RowsExist, NEW s \in Servers, NEW p \in DOMAIN players
  PROVE  LET t == players[p].tag
         IN  /\ \A t2 \in players[p].names :
                  SlugRows(t2) # {} /\ (t2 = t => p \in PageRows(t2))
             /\ <<s, t>> \in {<<x[1], x[2]>> : x \in SitemapLives} <=>
                  \E q \in DOMAIN players : players[q].tag = t /\ LivesOf(s, q) # {}
<1> DEFINE t == players[p].tag
           Listed(l) == <<lives[l].server, players[lives[l].player].tag, lives[l].number>>
<1>1. ASSUME NEW t2 \in players[p].names PROVE SlugRows(t2) # {}
  BY DEF SlugRows
<1>2. t \in players[p].names
  BY DEF NamesCarried
<1>3. p \in PageRows(t)
  <2>1. PICK q \in SlugRows(t) : TRUE
    BY <1>1, <1>2
  <2>2. CASE ByTag(t) # {}
    BY <2>1, <2>2 DEF SlugRows, ByTag, PageRows
  <2>3. CASE ByTag(t) = {}
    <3>1. p \in SlugRows(t)
      BY <1>2, <2>3 DEF SlugRows
    <3> QED
      BY <3>1 DEF PageRows
  <2> QED
    BY <2>2, <2>3
<1>4. ASSUME NEW l \in DOMAIN lives
      PROVE  /\ Listed(l)[1] = lives[l].server
             /\ Listed(l)[2] = players[lives[l].player].tag
  OBVIOUS
<1>5. <<s, t>> \in {<<x[1], x[2]>> : x \in SitemapLives} <=>
        \E l \in DOMAIN lives : lives[l].server = s /\ players[lives[l].player].tag = t
  <2>1. SitemapLives = {Listed(l) : l \in DOMAIN lives}
    BY DEF SitemapLives
  <2> HIDE DEF Listed
  <2>2. {<<x[1], x[2]>> : x \in SitemapLives} = {<<Listed(l)[1], Listed(l)[2]>> : l \in DOMAIN lives}
    BY <2>1
  <2>3. {<<Listed(l)[1], Listed(l)[2]>> : l \in DOMAIN lives}
          = {<<lives[l].server, players[lives[l].player].tag>> : l \in DOMAIN lives}
    BY <1>4
  <2> QED
    BY <2>2, <2>3
<1>6. (\E l \in DOMAIN lives : lives[l].server = s /\ players[lives[l].player].tag = t)
        <=> \E q \in DOMAIN players : players[q].tag = t /\ LivesOf(s, q) # {}
  BY DEF LivesOf, RowsExist
<1> QED
  BY <1>1, <1>3, <1>5, <1>6

LEMMA BoardsShow == RecordsInv => BoardsByName
<1> SUFFICES ASSUME RecordsInv, NEW s \in Servers, NEW p \in DOMAIN players
             PROVE  LET t == players[p].tag
                        mine == LivesOf(s, p)
                        On(board) == {row[2] : row \in {r \in board : r[1] = t}}
                        Streak(l) == Cardinality(LifeKills(s, p, lives[l].start, lives[l].end))
                    IN  /\ kills # {} /\ SoleHolder(p) =>
                             /\ On(MostKills(s)) \subseteq
                                  {Cardinality({k \in kills : k.server = s /\ k.killer = p})}
                             /\ On(AliveLongest(s)) =
                                  {TimeAlive(l) : l \in Survivors(s) \cap mine}
                             /\ On(LongestKillstreak(s)) \subseteq
                                  {Max({0} \cup {Streak(l) : l \in mine})}
                             /\ \A x \in On(AlltimeLongest(s)) :
                                  \/ x <= Totals(p, AllActive, NoBans).longest
                                  \/ \E l \in mine : /\ lives[l].end = None
                                                     /\ lives[l].play = x
                                                     /\ FiredUnheard(l)
                        /\ \A t2 \in players[p].names :
                             SlugRows(t2) # {} /\ (t2 = t => p \in PageRows(t2))
                        /\ <<s, t>> \in {<<x[1], x[2]>> : x \in SitemapLives} <=>
                             \E q \in DOMAIN players : players[q].tag = t /\ LivesOf(s, q) # {}
  BY DEF BoardsByName
<1>1. /\ TypeOK /\ RowsExist /\ OpenRowsAgree /\ NamesInv /\ KillsInv /\ TimesInv
      /\ NamesCarried
  BY DEF RecordsInv, HistoryInv, OrderInv, IInv
<1> DEFINE On(board) == {row[2] : row \in {r \in board : r[1] = players[p].tag}}
<1>2. \A board : On(board) = ShownUnder(board, players[p].tag)
  BY DEF ShownUnder
<1> HIDE DEF On
<1>3. ASSUME SoleHolder(p)
      PROVE  /\ On(MostKills(s)) \subseteq
                  {Cardinality({k \in kills : k.server = s /\ k.killer = p})}
             /\ On(AliveLongest(s)) = {TimeAlive(l) : l \in Survivors(s) \cap LivesOf(s, p)}
             /\ On(LongestKillstreak(s)) \subseteq
                  {Max({0} \cup {Cardinality(LifeKills(s, p, lives[l].start, lives[l].end)) :
                                   l \in LivesOf(s, p)})}
             /\ \A x \in On(AlltimeLongest(s)) :
                  \/ x <= Totals(p, AllActive, NoBans).longest
                  \/ \E l \in LivesOf(s, p) : /\ lives[l].end = None /\ lives[l].play = x
                                              /\ FiredUnheard(l)
  <2>1. \A x \in ShownUnder(MostKills(s), players[p].tag) :
          x = Cardinality({k \in kills : k.server = s /\ k.killer = p})
    BY <1>1, <1>3, MostKillsByName
  <2>2. ShownUnder(AliveLongest(s), players[p].tag)
          = {TimeAlive(l) : l \in Survivors(s) \cap LivesOf(s, p)}
    BY <1>1, <1>3, AliveByName
  <2>3. \A x \in ShownUnder(LongestKillstreak(s), players[p].tag) :
          x = Max({0} \cup {Cardinality(LifeKills(s, p, lives[l].start, lives[l].end)) :
                              l \in LivesOf(s, p)})
    BY <1>1, <1>3, StreaksByName
  <2>4. \A x \in ShownUnder(AlltimeLongest(s), players[p].tag) :
          \/ x <= Totals(p, AllActive, NoBans).longest
          \/ \E l \in LivesOf(s, p) : /\ lives[l].end = None /\ lives[l].play = x
                                      /\ FiredUnheard(l)
    BY <1>1, <1>3, AlltimeByName
  <2>5. /\ On(MostKills(s)) = ShownUnder(MostKills(s), players[p].tag)
        /\ On(AliveLongest(s)) = ShownUnder(AliveLongest(s), players[p].tag)
        /\ On(LongestKillstreak(s)) = ShownUnder(LongestKillstreak(s), players[p].tag)
        /\ On(AlltimeLongest(s)) = ShownUnder(AlltimeLongest(s), players[p].tag)
    BY <1>2
  <2>6. On(MostKills(s)) \subseteq
          {Cardinality({k \in kills : k.server = s /\ k.killer = p})}
    BY <2>1, <2>5
  <2>7. On(LongestKillstreak(s)) \subseteq
          {Max({0} \cup {Cardinality(LifeKills(s, p, lives[l].start, lives[l].end)) :
                           l \in LivesOf(s, p)})}
    BY <2>3, <2>5
  <2> QED
    BY <2>2, <2>4, <2>5, <2>6, <2>7
<1>4. LET t == players[p].tag
      IN  /\ \A t2 \in players[p].names :
               SlugRows(t2) # {} /\ (t2 = t => p \in PageRows(t2))
          /\ <<s, t>> \in {<<x[1], x[2]>> : x \in SitemapLives} <=>
               \E q \in DOMAIN players : players[q].tag = t /\ LivesOf(s, q) # {}
  BY <1>1, NamesLead
<1> QED
  BY <1>3, <1>4 DEF On

LEMMA RecordsStep ==
  ASSUME MaxLag = 0, RecordsInv, [Next]_vars
  PROVE  RecordsInv'
<1>1. HistoryInv'
  BY HistoryStep DEF RecordsInv
<1>2. NamesCarried'
  BY NamesCarriedStep DEF RecordsInv, HistoryInv, OrderInv, IInv
<1> QED
  BY <1>1, <1>2 DEF RecordsInv

\* Of lines folded in order: of a life that ended the newsdesk, the pages and the
\* instant agree whether it counted; and of a player with a name of their own the
\* boards, which go by names, say what the pages say, which go by accounts.
THEOREM RecordsTrue == MaxLag = 0 => (Spec => []RecordsAgree)
<1> SUFFICES ASSUME MaxLag = 0 PROVE Spec => []RecordsAgree
  OBVIOUS
<1>1. Init => RecordsInv
  <2>1. Init => NamesCarried
    BY DEF Init, NamesCarried
  <2> QED
    BY <2>1, HistoryInit DEF RecordsInv
<1>2. RecordsInv /\ [Next]_vars => RecordsInv'
  BY RecordsStep
<1>3. RecordsInv => RecordsAgree
  BY DecidedOnce, BoardsShow DEF RecordsInv, RecordsAgree
<1> QED
  BY <1>1, <1>2, <1>3, PTL DEF Spec

-----------------------------------------------------------------------------
\* The pages about players (PagesAgree): every span a session holds lies in its life and in
\* the time its player was seen; then each query of the pages says what those tables say.

\* A server's log shows nobody later than the heartbeat; a session that ended was
\* worth its span, all of it past; and a life that goes on has no cause of death.
Spans(i) ==
  /\ sessions[i].heard <= players[sessions[i].player].seen
  /\ sessions[i].to # None =>
       /\ sessions[i].to <= clock
       /\ sessions[i].dur = DurationSeconds(sessions[i].from, sessions[i].to)
NoCauseYet(l) == lives[l].end = None => lives[l].cause = None

SpansInv ==
  /\ \A i \in DOMAIN sessions : Spans(i)
  /\ \A l \in DOMAIN lives : NoCauseYet(l)

LEMMA SpansClose ==
  ASSUME TypeOK, TypeOK', RowsExist, NamesInv, TimesInv, SpansInv, SeenGoesOn, clock' = clock,
         NEW S, OpenOnes(S), NEW reason \in CloseReasons, NEW i \in DOMAIN sessions,
         sessions'[i] = Closed(S, clock, reason)[i]
  PROVE  Spans(i)'
<1>1. /\ sessions[i] \in SessionRow /\ Spans(i) /\ clock \in Nat
      /\ sessions[i].player \in DOMAIN players
      /\ players[sessions[i].player].seen \in Nat
      /\ players[sessions[i].player].seen <= players'[sessions[i].player].seen
  BY TableRows, RowTimes DEF RowsExist, SpansInv, SeenGoesOn
<1>2. players'[sessions[i].player].seen \in Nat
  <2>1. sessions[i].player \in DOMAIN players'
    BY <1>1 DEF SeenGoesOn
  <2>2. players'[sessions[i].player] \in PlayerRow
    BY <2>1, ElementOfSeq, LenProperties DEF TypeOK
  <2> QED
    BY <2>2 DEF PlayerRow
<1>3. sessions[i].heard \in Nat
  BY <1>1 DEF SessionRow
<1>4. sessions[i].heard <= players'[sessions[i].player].seen
  <2>1. sessions[i].heard <= players[sessions[i].player].seen
    BY <1>1 DEF Spans
  <2> QED
    BY <1>1, <1>2, <1>3, <2>1
<1>5. CASE i \notin S
  <2>1. sessions'[i] = sessions[i]
    BY <1>5 DEF Closed
  <2> QED
    BY <1>1, <1>4, <2>1 DEF Spans
<1>6. CASE i \in S
  <2> DEFINE to == CloseTime(i, clock, reason)
             dur == Played(i, clock, reason)
  <2>1. sessions'[i] = [sessions[i] EXCEPT !.to = to, !.dur = dur, !.reason = reason]
    BY <1>6 DEF Closed
  <2>2. sessions[i].from <= clock
    BY <1>6 DEF OpenOnes, TimesInv
  <2>3. to <= clock /\ dur = DurationSeconds(sessions[i].from, to)
    BY <1>1, <2>2, CloseIsBetween DEF Played
  <2> HIDE DEF to, dur
  <2>4. /\ sessions'[i].to = to /\ sessions'[i].dur = dur
        /\ sessions'[i].from = sessions[i].from /\ sessions'[i].player = sessions[i].player
        /\ sessions'[i].heard = sessions[i].heard
    BY <1>1, <2>1 DEF SessionRow
  <2> QED
    BY <1>4, <2>3, <2>4 DEF Spans
<1> QED
  BY <1>5, <1>6

LEMMA CauseCredited ==
  ASSUME TypeOK, SpansInv, NEW S, NEW reason, NEW l \in DOMAIN lives
  PROVE  LET C == Credited(S, clock, reason)
         IN  C[l].end = lives[l].end /\ C[l].cause = lives[l].cause /\ DOMAIN C = DOMAIN lives
<1> DEFINE C == Credited(S, clock, reason)
<1>1. lives[l] \in LifeRow
  BY TableRows
<1>2. C[l] = lives[l] \/ \E play : C[l] = [lives[l] EXCEPT !.play = play]
  BY DEF Credited
<1>3. DOMAIN C = DOMAIN lives
  BY DEF Credited
<1> HIDE DEF C
<1>4. C[l].end = lives[l].end /\ C[l].cause = lives[l].cause
  BY <1>1, <1>2 DEF LifeRow
<1> QED
  BY <1>3, <1>4 DEF C

LEMMA SpansLine ==
  ASSUME TypeOK, TypeOK', Structure, NamesInv, TimesInv, SpansInv, SeenGoesOn, clock' = clock,
         NEW s \in Servers, Line(s, clock)
  PROVE  SpansInv'
<1>1. /\ RowsExist /\ OneIdentityPerHash /\ clock \in Nat
      /\ "clean" \in CloseReasons /\ "superseded" \in CloseReasons
      /\ "reboot" \in CloseReasons
  BY BoundsAssumption DEF Structure, TypeOK, Times, CloseReasons
<1>2. ASSUME UNCHANGED sessions
      PROVE  \A i \in DOMAIN sessions' : Spans(i)'
  <2>1. \A i \in DOMAIN sessions : sessions'[i] = Closed({}, clock, "clean")[i]
    BY <1>2 DEF Closed
  <2>2. OpenOnes({})
    BY DEF OpenOnes
  <2> QED
    BY <1>1, <1>2, <2>1, <2>2, SpansClose
<1>3. ASSUME NEW S, OpenOnes(S), NEW reason \in CloseReasons,
             sessions' = Closed(S, clock, reason)
      PROVE  \A i \in DOMAIN sessions' : Spans(i)'
  <2>1. DOMAIN sessions' = DOMAIN sessions
    BY <1>3 DEF Closed
  <2> QED
    BY <1>1, <1>3, <2>1, SpansClose
<1>4. ASSUME NEW S, NEW reason, lives' = Credited(S, clock, reason)
      PROVE  \A l \in DOMAIN lives' : NoCauseYet(l)'
  <2>1. DOMAIN lives' = DOMAIN lives
    BY <1>4 DEF Credited
  <2>2. \A l \in DOMAIN lives : lives'[l].end = lives[l].end /\ lives'[l].cause = lives[l].cause
    BY <1>4, CauseCredited
  <2> QED
    BY <2>1, <2>2 DEF SpansInv, NoCauseYet
<1>5. ASSUME UNCHANGED lives
      PROVE  \A l \in DOMAIN lives' : NoCauseYet(l)'
  BY <1>5 DEF SpansInv, NoCauseYet
<1>6. ASSUME NEW a \in Accounts, Connected(s, a, clock)
      PROVE  SpansInv'
  <2>0. PICK p, n : p = IdentityOf(a) /\ n = Len(sessions) + 1
    OBVIOUS
  <2>1. Sees(a, p)
    BY <1>1, <1>6, <2>0, ConnectSees DEF Connected
  <2>2. PICK l \in Nat : ConnectOpens(s, a, p, l)
    BY <1>1, <1>6, <2>0, ConnectedRows
  <2>3. \A i \in DOMAIN sessions : Spans(i)'
    BY <1>1, <2>2, OpenAreOpen, SpansClose DEF ConnectOpens
  <2>4. Spans(n)'
    <3>1. sessions'[n] = NewSession(s, p, l, clock)
      BY <2>0, <2>2 DEF ConnectOpens
    <3>2. /\ sessions'[n].to = None /\ sessions'[n].heard = clock /\ sessions'[n].player = p
      BY <3>1 DEF NewSession
    <3>3. players'[p].seen = clock
      BY <2>1 DEF Sees
    <3> QED
      BY <1>1, <3>2, <3>3 DEF Spans
  <2>5. DOMAIN sessions' = DOMAIN sessions \cup {n}
    BY <2>0, <2>2 DEF ConnectOpens
  <2>6. ASSUME NEW m \in DOMAIN lives'
        PROVE  NoCauseYet(m)'
    <3>1. CASE m \in DOMAIN lives
      <4>1. lives'[m] = Credited(OpenSession(s, p), clock, "superseded")[m]
        BY <2>2, <3>1 DEF ConnectOpens
      <4>2. lives'[m].end = lives[m].end /\ lives'[m].cause = lives[m].cause
        BY <3>1, <4>1, CauseCredited
      <4> QED
        BY <3>1, <4>2 DEF SpansInv, NoCauseYet
    <3>2. CASE m \notin DOMAIN lives
      <4>1. lives'[m] = NewLife(s, p, clock)
        BY <2>2, <2>6, <3>2 DEF ConnectOpens
      <4>2. lives'[m].cause = None
        BY <4>1 DEF NewLife
      <4> QED
        BY <4>2 DEF NoCauseYet
    <3> QED
      BY <3>1, <3>2
  <2> QED
    BY <2>3, <2>4, <2>5, <2>6 DEF SpansInv
<1>7. ASSUME NEW a \in Accounts, Disconnected(s, a, clock)
      PROVE  SpansInv'
  BY <1>1, <1>2, <1>3, <1>4, <1>5, <1>7, OpenAreOpen DEF Disconnected, SpansInv
<1>8. ASSUME NEW a \in Accounts, Position(s, a, clock)
      PROVE  SpansInv'
  <2>0. UNCHANGED lives
    BY <1>8 DEF Position
  <2>1. on[a] # None /\ ByTag(tagOf[a]) = Own(a)
    BY <1>8, LineOfOwn DEF Position
  <2>2. ASSUME NEW p \in Own(a), players' = Touched(p, clock),
               sessions' = Heard(s, a, clock)
        PROVE  \A i \in DOMAIN sessions' : Spans(i)'
    <3>1. Sees(a, p)
      BY <1>1, <2>1, <2>2, TouchSees
    <3>2. ASSUME NEW i \in DOMAIN sessions
          PROVE  Spans(i)'
      <4>1. sessions[i] \in SessionRow /\ sessions[i].player \in DOMAIN players
        BY <1>1, TableRows DEF RowsExist
      <4>2. CASE sessions'[i] = sessions[i]
        <5>1. sessions'[i] = Closed({}, clock, "clean")[i]
          BY <4>2 DEF Closed
        <5>2. OpenOnes({})
          BY DEF OpenOnes
        <5> QED
          BY <1>1, <5>1, <5>2, SpansClose
      <4>3. CASE sessions'[i] # sessions[i]
        <5>1. /\ players[sessions[i].player].hash = a /\ sessions[i].to = None
              /\ sessions'[i] = [sessions[i] EXCEPT !.heard = clock]
          BY <2>2, <4>3 DEF Heard
        <5>2. /\ sessions'[i].to = None /\ sessions'[i].heard = clock
              /\ sessions'[i].player = sessions[i].player
          BY <4>1, <5>1 DEF SessionRow
        <5>3. players'[sessions[i].player].seen = clock
          BY <3>1, <4>1, <5>1 DEF Sees
        <5> QED
          BY <1>1, <5>2, <5>3 DEF Spans
      <4> QED
        BY <4>2, <4>3
    <3>3. DOMAIN sessions' = DOMAIN sessions
      BY <2>2 DEF Heard
    <3> QED
      BY <3>2, <3>3
  <2> QED
    BY <1>2, <1>5, <1>8, <2>0, <2>1, <2>2 DEF Position, SpansInv
<1>9. ASSUME NEW a \in Accounts, NEW d \in DeathLines(s), Died(s, a, d, clock)
      PROVE  SpansInv'
  <2>1. ASSUME NEW p, NEW l \in OpenLife(s, p), DiedAlive(s, a, p, l, d, clock)
        PROVE  SpansInv'
    <3>1. /\ sessions' = Closed(OpenSession(s, p), clock, "clean")
          /\ lives' = [Credited(OpenSession(s, p), clock, "clean")
                         EXCEPT ![l] = Ended(@, d, clock)]
      BY <2>1 DEF DiedAlive
    <3>2. PICK C : C = Credited(OpenSession(s, p), clock, "clean")
      OBVIOUS
    <3>3. /\ DOMAIN C = DOMAIN lives /\ l \in DOMAIN lives
          /\ \A m \in DOMAIN lives : C[m].end = lives[m].end /\ C[m].cause = lives[m].cause
          /\ C[l] \in LifeRow
      <4>1. l \in DOMAIN lives
        BY Lookups
      <4>2. C \in Seq(LifeRow) /\ DOMAIN C = DOMAIN lives
        BY <1>1, <3>2, Lookups, CreditedRows
      <4> QED
        BY <3>2, <4>1, <4>2, CauseCredited, ElementOfSeq, LenProperties
    <3>4. /\ DOMAIN lives' = DOMAIN lives /\ lives'[l] = Ended(C[l], d, clock)
          /\ \A m \in DOMAIN lives : m # l => lives'[m] = C[m]
      BY <3>1, <3>2, <3>3
    <3>5. lives'[l].end = clock /\ clock # None
      <4>1. lives'[l].end = clock
        BY <3>3, <3>4 DEF Ended, LifeRow
      <4> QED
        BY <1>1, <4>1, NoneAssumption
    <3>6. \A m \in DOMAIN lives' : NoCauseYet(m)'
      BY <3>3, <3>4, <3>5 DEF SpansInv, NoCauseYet
    <3> QED
      BY <1>1, <1>3, <3>1, <3>6, OpenAreOpen DEF SpansInv
  <2>2. ASSUME NEW p, DiedAgain(s, p, d, clock)
        PROVE  SpansInv'
    <3>1. /\ UNCHANGED sessions /\ DOMAIN lives' = DOMAIN lives
          /\ \A m \in DOMAIN lives : m \notin JustEnded(s, p, clock) => lives'[m] = lives[m]
          /\ \A m \in JustEnded(s, p, clock) : lives'[m] = Enriched(lives[m], d)
      BY <2>2 DEF DiedAgain, JustEnded, LivesOf
    <3>2. ASSUME NEW m \in DOMAIN lives'
          PROVE  NoCauseYet(m)'
      <4>1. lives[m] \in LifeRow
        BY <3>1, TableRows
      <4>2. CASE m \in JustEnded(s, p, clock)
        <5>1. lives[m].end = clock /\ clock # None
          BY <1>1, <4>2, NoneAssumption DEF JustEnded
        <5>2. lives'[m].end = lives[m].end
          BY <3>1, <4>1, <4>2 DEF Enriched, LifeRow
        <5> QED
          BY <5>1, <5>2 DEF NoCauseYet
      <4>3. CASE m \notin JustEnded(s, p, clock)
        BY <3>1, <4>3 DEF NoCauseYet, SpansInv
      <4> QED
        BY <4>2, <4>3
    <3> QED
      BY <1>2, <3>1, <3>2 DEF SpansInv
  <2> QED
    BY <1>2, <1>5, <1>9, <2>1, <2>2 DEF Died, SpansInv
<1>10. ASSUME Rebooted(s, clock)
      PROVE  SpansInv'
  BY <1>1, <1>3, <1>4, <1>10, OpenAreOpen DEF Rebooted, SpansInv
<1> QED
  BY <1>6, <1>7, <1>8, <1>9, <1>10 DEF Line

\* What the pages rest on.
PagesInv == RecordsInv /\ SpansInv

LEMMA PagesInit == Init => PagesInv
<1>1. Init => NamesCarried /\ SpansInv
  BY DEF Init, NamesCarried, SpansInv
<1> QED
  BY <1>1, HistoryInit DEF RecordsInv, PagesInv

LEMMA PagesStep ==
  ASSUME MaxLag = 0, PagesInv, [Next]_vars
  PROVE  PagesInv'
<1>1. RecordsInv' /\ RowsGoOn /\ clock \in Nat /\ clock' \in Nat /\ clock <= clock'
  BY RecordsStep, HistoryStep DEF PagesInv, RecordsInv
<1>2. /\ TypeOK /\ TypeOK' /\ Structure /\ NamesInv /\ TimesInv /\ SpansInv /\ SeenGoesOn
  BY <1>1 DEF PagesInv, RecordsInv, HistoryInv, OrderInv, IInv, Structure, RowsGoOn
<1>3. SpansInv'
  <2>1. ASSUME NEW s \in Servers, NEW at \in Stamps, Line(s, at)
        PROVE  SpansInv'
    <3>1. at = clock /\ clock' = clock
      <4>1. at = clock
        BY <1>2, BoundsAssumption DEF TypeOK, Times, Stamps
      <4> QED
        BY <2>1, <4>1 DEF Line, Connected, Disconnected, Position, Died, Rebooted
    <3> QED
      BY <1>2, <2>1, <3>1, SpansLine
  <2>2. ASSUME UNCHANGED <<players, lives, sessions>>
        PROVE  SpansInv'
    <3>1. ASSUME NEW i \in DOMAIN sessions, sessions[i].to # None
          PROVE  sessions[i].to <= clock'
      <4>1. sessions[i].to <= clock /\ sessions[i].to \in Nat
        BY <1>2, <3>1, RowTimes DEF SpansInv, Spans
      <4> QED
        BY <1>1, <4>1
    <3> QED
      BY <1>2, <2>2, <3>1 DEF SpansInv, Spans, NoCauseYet
  <2> QED
    BY <2>1, <2>2 DEF Next, Tick, Leave, Rename, tables, vars
<1> QED
  BY <1>1, <1>3 DEF PagesInv

LEMMA PagesFacts ==
  ASSUME PagesInv
  PROVE  /\ TypeOK /\ RowsExist /\ OneIdentityPerHash /\ OpenRowsAgree /\ LivesNumbered
         /\ NamesInv /\ LogInv /\ KillsInv /\ TimesInv /\ PlayInv /\ SessionsInv
         /\ SpansInv /\ NamesCarried /\ HistoryInv /\ clock \in Nat
  BY RowTimes DEF PagesInv, RecordsInv, HistoryInv, OrderInv, IInv

\* The rows of an open life, however they are found.
LEMMA OpenRows ==
  ASSUME TypeOK, RowsExist, OpenRowsAgree, NEW l \in DOMAIN lives
  PROVE  /\ OpenSessionIn(l) \subseteq SessionsOf(l)
         /\ \A i, j \in OpenSessionIn(l) : i = j
         /\ lives[l].end # None => OpenSessionIn(l) = {}
         /\ lives[l].end = None =>
              /\ OpenLife(lives[l].server, lives[l].player) = {l}
              /\ OpenSession(lives[l].server, lives[l].player) = OpenSessionIn(l)
         /\ \/ FromOf(OpenSessionIn(l)) = None /\ OpenSessionIn(l) = {}
            \/ \E i \in OpenSessionIn(l) : /\ OpenSessionIn(l) = {i}
                                           /\ FromOf(OpenSessionIn(l)) = sessions[i].from
<1> DEFINE s == lives[l].server
           p == lives[l].player
<1>1. ASSUME NEW i \in OpenSessionIn(l)
      PROVE  IsOpenLife(l, sessions[i].server, sessions[i].player)
  BY DEF OpenSessionIn, OpenRowsAgree
<1>2. \A i, j \in OpenSessionIn(l) : i = j
  BY <1>1 DEF OpenSessionIn, OpenRowsAgree, IsOpenLife
<1>3. ASSUME lives[l].end = None
      PROVE  OpenLife(s, p) = {l} /\ OpenSession(s, p) = OpenSessionIn(l)
  <2>1. {m \in DOMAIN lives : IsOpenLife(m, s, p)} = {l}
    BY <1>3 DEF IsOpenLife, OpenRowsAgree
  <2>2. ASSUME NEW i \in DOMAIN sessions
        PROVE  IsOpenSession(i, s, p) <=> sessions[i].life = l /\ sessions[i].to = None
    <3>1. ASSUME IsOpenSession(i, s, p) PROVE sessions[i].life = l
      <4>1. IsOpenLife(sessions[i].life, s, p) /\ sessions[i].life \in DOMAIN lives
        BY <3>1 DEF IsOpenSession, OpenRowsAgree, RowsExist
      <4> QED
        BY <2>1, <4>1
    <3>2. ASSUME sessions[i].life = l, sessions[i].to = None PROVE IsOpenSession(i, s, p)
      BY <1>1, <3>2 DEF OpenSessionIn, IsOpenLife, IsOpenSession
    <3> QED
      BY <3>1, <3>2 DEF IsOpenSession
  <2>3. {i \in DOMAIN sessions : IsOpenSession(i, s, p)} = OpenSessionIn(l)
    BY <2>2 DEF OpenSessionIn
  <2>4. First(OpenSessionIn(l)) = OpenSessionIn(l)
    BY <1>2, FirstOfSet
  <2>5. First({l}) = {l}
    BY FirstOfSet
  <2> QED
    BY <2>1, <2>3, <2>4, <2>5 DEF OpenLife, OpenSession
<1>4. lives[l].end # None => OpenSessionIn(l) = {}
  BY <1>1 DEF IsOpenLife
<1>5. ASSUME NEW i \in OpenSessionIn(l)
      PROVE  OpenSessionIn(l) = {i} /\ FromOf(OpenSessionIn(l)) = sessions[i].from
  BY <1>2, <1>5 DEF FromOf
<1>6. OpenSessionIn(l) = {} => FromOf(OpenSessionIn(l)) = None
  BY DEF FromOf
<1>7. OpenSessionIn(l) \subseteq SessionsOf(l)
  BY DEF OpenSessionIn, SessionsOf, PlayedIn
<1>8. \/ FromOf(OpenSessionIn(l)) = None /\ OpenSessionIn(l) = {}
      \/ \E i \in OpenSessionIn(l) : /\ OpenSessionIn(l) = {i}
                                     /\ FromOf(OpenSessionIn(l)) = sessions[i].from
  <2>1. CASE OpenSessionIn(l) = {}
    BY <1>6, <2>1
  <2>2. CASE OpenSessionIn(l) # {}
    BY <1>5, <2>2
  <2> QED
    BY <2>1, <2>2
<1> QED
  BY <1>2, <1>3, <1>4, <1>7, <1>8

\* What a life was played by some instant is the time of its sessions till then.
PlayedBy(l, upTo) == LivePlaytime(lives[l].play, FromOf(OpenSessionIn(l)), upTo)

LEMMA LiveIsSum ==
  ASSUME TypeOK, RowsExist, OpenRowsAgree, PlayInv, NEW l \in DOMAIN lives, NEW upTo \in Nat
  PROVE  /\ PlayedBy(l, upTo) = Cardinality(Seconds(Worths(upTo), SessionsOf(l)))
         /\ PlayedBy(l, upTo) \in Nat /\ lives[l].play <= PlayedBy(l, upTo)
<1> DEFINE w == Worths(upTo)
           S == SessionsOf(l)
           live == PlayedBy(l, upTo)
<1>1. /\ IsFiniteSet(S) /\ Timed(w, S) /\ S \in SUBSET DOMAIN sessions
      /\ \A i \in DOMAIN sessions : w[i].dur = Contribution(i, upTo)
  BY WorthsTimed
<1>2. lives[l].play = Cardinality(Seconds(sessions, S)) /\ lives[l].play \in Nat
  BY RowTimes DEF PlayInv, Counts, SessionsOf
<1>3. Timed(sessions, S)
  BY <1>1, TableRows DEF Timed, SessionRow
<1>4. \A i \in S \ OpenSessionIn(l) : w[i].dur = sessions[i].dur
  BY <1>1 DEF OpenSessionIn, SessionsOf, PlayedIn, Contribution
<1> HIDE DEF w, S
<1>5. CASE OpenSessionIn(l) = {} /\ FromOf(OpenSessionIn(l)) = None
  <2>1. live = lives[l].play
    BY <1>5 DEF LivePlaytime, PlayedBy
  <2>2. Seconds(w, S) = Seconds(sessions, S)
    <3>1. \A i \in S : SecondsOf(w, i) = SecondsOf(sessions, i)
      BY <1>4, <1>5 DEF SecondsOf
    <3> QED
      BY <3>1 DEF Seconds
  <2> HIDE DEF live
  <2> QED
    BY <1>2, <2>1, <2>2 DEF live, w, S
<1>6. ASSUME NEW i \in OpenSessionIn(l), OpenSessionIn(l) = {i},
             FromOf(OpenSessionIn(l)) = sessions[i].from
      PROVE  /\ live = Cardinality(Seconds(w, S)) /\ live \in Nat /\ lives[l].play <= live
  <2>1. /\ i \in S /\ i \in DOMAIN sessions /\ sessions[i].to = None
        /\ sessions[i].from \in Nat /\ sessions[i].dur = 0
    BY RowTimes DEF OpenSessionIn, SessionsOf, PlayedIn, PlayInv, Counts, S
  <2>2. /\ Cardinality(Seconds(w, S)) = w[i].dur + Cardinality(Seconds(w, S \ {i}))
        /\ Cardinality(Seconds(sessions, S)) = sessions[i].dur + Cardinality(Seconds(sessions, S \ {i}))
    BY <1>1, <1>3, <2>1, SecondsWithout
  <2>3. Seconds(w, S \ {i}) = Seconds(sessions, S \ {i})
    <3>1. \A j \in S \ {i} : SecondsOf(w, j) = SecondsOf(sessions, j)
      BY <1>4, <1>6 DEF SecondsOf
    <3> QED
      BY <3>1 DEF Seconds
  <2>4. w[i].dur = DurationSeconds(sessions[i].from, upTo)
    BY <1>1, <2>1 DEF Contribution
  <2>5. live = lives[l].play + DurationSeconds(sessions[i].from, upTo)
    BY <1>6, <2>1, NoneAssumption DEF LivePlaytime, PlayedBy
  <2>6. DurationSeconds(sessions[i].from, upTo) \in Nat
    BY <2>1 DEF DurationSeconds
  <2>7. Cardinality(Seconds(sessions, S \ {i})) \in Nat
    <3>1. S \ {i} \in SUBSET S
      OBVIOUS
    <3> QED
      BY <1>1, <1>3, <3>1, SecondsGrow
  <2> HIDE DEF live
  <2> QED
    BY <1>2, <2>1, <2>2, <2>3, <2>4, <2>5, <2>6, <2>7
<1> HIDE DEF live
<1>7. live = Cardinality(Seconds(w, S)) /\ live \in Nat /\ lives[l].play <= live
  <2>1. CASE FromOf(OpenSessionIn(l)) = None /\ OpenSessionIn(l) = {}
    BY <1>2, <1>5, <2>1 DEF live, w, S
  <2> QED
    BY <1>6, <2>1, OpenRows
<1> QED
  BY <1>7 DEF live, w, S

\* A life's sessions cross the bound by some instant when it was played so long by then.
LEMMA CrossedByTime ==
  ASSUME TypeOK, RowsExist, OpenRowsAgree, PlayInv, NEW l \in DOMAIN lives, NEW upTo \in Nat
  PROVE  /\ CrossedAt(l, upTo) # {} <=> PlayedBy(l, upTo) >= QualifySeconds
         /\ CrossedAt(l, upTo) \subseteq Nat
<1> DEFINE w == Worths(upTo)
           S == SessionsOf(l)
<1>1. /\ S \in SUBSET (0 .. Len(sessions)) /\ S \in SUBSET Nat /\ Len(sessions) \in Nat
      /\ S \in SUBSET DOMAIN sessions /\ IsFiniteSet(S) /\ Timed(w, S)
  BY WorthsTimed
<1>2. CrossedAt(l, upTo) = {sessions[i].from + QualifySeconds - PlayedBefore(w, S, i) :
                              i \in {j \in S : Crosses(w, S, j)}}
  BY CrossedIs
<1> HIDE DEF w, S
<1>3. CrossedAt(l, upTo) # {} <=> \E i \in S : Crosses(w, S, i)
  BY <1>2
<1>4. (\E i \in S : Crosses(w, S, i)) <=> Cardinality(Seconds(w, S)) >= QualifySeconds
  BY <1>1, CrossesIffReached
<1>5. PlayedBy(l, upTo) = Cardinality(Seconds(w, S))
  BY LiveIsSum DEF w, S
<1>6. ASSUME NEW t \in CrossedAt(l, upTo) PROVE t \in Nat
  <2>1. PICK i \in S : /\ Crosses(w, S, i)
                       /\ t = sessions[i].from + QualifySeconds - PlayedBefore(w, S, i)
    BY <1>2
  <2>2. /\ PlayedBefore(w, S, i) \in Nat /\ PlayedBefore(w, S, i) < QualifySeconds
        /\ QualifySeconds \in Nat
    BY <1>1, <2>1, PlayedUpTo, QualifyAssumption DEF Crosses
  <2>3. sessions[i].from \in Nat
    BY <1>1, RowTimes
  <2> QED
    BY <2>1, <2>2, <2>3
<1> QED
  BY <1>3, <1>4, <1>5, <1>6

-----------------------------------------------------------------------------
\* Which lives count, as the boards and as the pages ask it.

\* The rows the pages take for a life whose server may have been retired.
StopOf(l, retired) ==
  IF retired = None THEN SeenOf(l) ELSE RetirementCap(retired, SeenOf(l))

LEMMA RowShown ==
  ASSUME TypeOK, RowsExist, OpenRowsAgree, NamesInv, NEW l \in DOMAIN lives,
         NEW retired \in {None} \cup Nat
  PROVE  LET row == LifeRowFor(l, retired)
         IN  /\ row.cause = lives[l].cause /\ row.start = lives[l].start
             /\ row.server = lives[l].server /\ row.player = lives[l].player
             /\ row.end = (IF lives[l].end # None \/ retired = None THEN lives[l].end ELSE retired)
             /\ row.end # None => row.play = PlayedBy(l, StopOf(l, retired))
             /\ lives[l].end # None \/ retired = None => row = lives[l]
             /\ StopOf(l, retired) \in 0 .. clock
             /\ TimeAlive(l) = PlayedBy(l, SeenOf(l))
<1> DEFINE s == lives[l].server
           p == lives[l].player
           row == LifeRowFor(l, retired)
<1>0. /\ SeenOf(l) \in Nat /\ SeenOf(l) <= clock /\ clock \in Nat /\ lives[l] \in LifeRow
  BY RowTimes, TableRows DEF SeenOf, Seen, RowsExist, NamesInv
<1>1. StopOf(l, retired) \in 0 .. clock
  BY <1>0 DEF StopOf, RetirementCap
<1>2. TimeAlive(l) = PlayedBy(l, SeenOf(l))
  BY DEF TimeAlive, PlayedBy, SeenOf
<1>3. CASE lives[l].end # None \/ retired = None
  <2>1. row = lives[l]
    BY <1>3 DEF LifeRowFor, ApplyRetirement
  <2>2. lives[l].end # None => lives[l].play = PlayedBy(l, StopOf(l, retired))
    <3>1. lives[l].end # None => FromOf(OpenSessionIn(l)) = None
      BY OpenRows
    <3> QED
      BY <3>1 DEF PlayedBy, LivePlaytime
  <2> QED
    BY <1>1, <1>2, <1>3, <2>1, <2>2
<1>4. CASE lives[l].end = None /\ retired # None
  <2>1. OpenSession(s, p) \cap OpenSessionIn(l) = OpenSessionIn(l)
    BY <1>4, OpenRows
  <2>2. StopOf(l, retired) = RetirementCap(retired, Seen(p))
    BY <1>4 DEF StopOf, SeenOf
  <2>3. row = [lives[l] EXCEPT !.end = retired, !.play = PlayedBy(l, StopOf(l, retired))]
    BY <1>4, <2>1, <2>2 DEF LifeRowFor, ApplyRetirement, PlayedBy
  <2>4. PICK play : play = PlayedBy(l, StopOf(l, retired))
    OBVIOUS
  <2>5. /\ row.cause = lives[l].cause /\ row.start = lives[l].start
        /\ row.server = lives[l].server /\ row.player = lives[l].player
        /\ row.end = retired /\ row.play = play
    <3> HIDE DEF row
    <3> QED
      BY <1>0, <2>3, <2>4 DEF LifeRow
  <2> QED
    BY <1>1, <1>2, <1>4, <2>4, <2>5
<1> QED
  BY <1>3, <1>4

\* When a life of the player's counts on the server's page.
CountsWith(l, play, last) ==
  \/ lives[l].cause = "pvp"
  \/ \E t \in KillTimes(lives[l].server, lives[l].player) : lives[l].start <= t /\ t <= last
  \/ play >= QualifySeconds
LastOf(l, retired) ==
  IF lives[l].end # None THEN lives[l].end ELSE IF retired # None THEN retired ELSE SeenOf(l)

LEMMA LivesThatCount ==
  ASSUME TypeOK, RowsExist, OpenRowsAgree, NamesInv, NEW s \in Servers, NEW p \in DOMAIN players,
         NEW retired \in {None} \cup Nat
  PROVE  /\ PlayerLives(s, p, retired) \subseteq LivesOf(s, p)
         /\ LivesOf(s, p) \subseteq DOMAIN lives
         /\ \A l \in LivesOf(s, p) :
              l \in PlayerLives(s, p, retired) <=>
                CountsWith(l, PlayedBy(l, StopOf(l, retired)), LastOf(l, retired))
<1> SUFFICES ASSUME NEW l \in LivesOf(s, p)
             PROVE  l \in PlayerLives(s, p, retired) <=>
                      CountsWith(l, PlayedBy(l, StopOf(l, retired)), LastOf(l, retired))
  BY DEF PlayerLives, LivesOf
<1>1. l \in DOMAIN lives /\ lives[l].server = s /\ lives[l].player = p
  BY DEF LivesOf
<1>2. PICK row : row = LifeRowFor(l, retired)
  OBVIOUS
<1>3. /\ row.cause = lives[l].cause /\ row.start = lives[l].start
      /\ row.end = (IF lives[l].end # None \/ retired = None THEN lives[l].end ELSE retired)
      /\ row.end # None => row.play = PlayedBy(l, StopOf(l, retired))
      /\ lives[l].end # None \/ retired = None => row = lives[l]
  BY <1>1, <1>2, RowShown
<1>4. l \in PlayerLives(s, p, retired) <=>
        IsLifeQualified(row.cause, PlayedSeconds(row, s, p), row.start,
                        IF row.end # None THEN row.end ELSE Seen(p), KillTimes(s, p))
  BY <1>2 DEF PlayerLives
<1>5. PlayedSeconds(row, s, p) = PlayedBy(l, StopOf(l, retired))
  <2>1. CASE row.end # None
    BY <1>3, <2>1 DEF PlayedSeconds
  <2>2. CASE row.end = None
    <3>1. row = lives[l] /\ lives[l].end = None /\ retired = None
      BY <1>3, <2>2
    <3>2. OpenSession(s, p) = OpenSessionIn(l)
      BY <1>1, <3>1, OpenRows
    <3> QED
      BY <1>1, <2>2, <3>1, <3>2 DEF PlayedSeconds, PlayedBy, StopOf, SeenOf
  <2> QED
    BY <2>1, <2>2
<1>6. (IF row.end # None THEN row.end ELSE Seen(p)) = LastOf(l, retired)
  BY <1>1, <1>3 DEF LastOf, SeenOf
<1> QED
  BY <1>1, <1>3, <1>4, <1>5, <1>6 DEF IsLifeQualified, CountsWith

\* The survivors board shows the open lives that count.
LEMMA BoardIs ==
  ASSUME TypeOK, RowsExist, OpenRowsAgree, NamesInv, SpansInv, NEW l \in DOMAIN lives
  PROVE  /\ l \in Survivors(lives[l].server) <=>
              lives[l].end = None /\ CountsWith(l, TimeAlive(l), SeenOf(l))
         /\ l \in Survivors(lives[l].server) <=>
              lives[l].end = None /\ l \in PlayerLives(lives[l].server, lives[l].player, None)
<1>1. l \in Survivors(lives[l].server) <=>
         lives[l].end = None /\ CountsWith(l, TimeAlive(l), SeenOf(l))
  <2>1. SeenOf(l) \in Nat /\ lives[l].start \in Nat
    BY RowTimes DEF SeenOf, Seen, RowsExist
  <2>2. \A t : lives[l].start <= t <=> t >= lives[l].start
    OBVIOUS
  <2> QED
    BY <2>1, <2>2 DEF Survivors, IsLifeQualified, CountsWith, SeenOf
<1>2. lives[l].server \in Servers /\ lives[l].player \in DOMAIN players
  BY TableRows DEF RowsExist, LifeRow
<1>3. l \in LivesOf(lives[l].server, lives[l].player)
  BY DEF LivesOf
<1>4. l \in PlayerLives(lives[l].server, lives[l].player, None) <=>
        CountsWith(l, PlayedBy(l, StopOf(l, None)), LastOf(l, None))
  BY <1>2, <1>3, LivesThatCount
<1>5. PlayedBy(l, StopOf(l, None)) = TimeAlive(l)
  BY RowShown DEF StopOf
<1>6. lives[l].end = None => LastOf(l, None) = SeenOf(l)
  BY DEF LastOf
<1> QED
  BY <1>1, <1>4, <1>5, <1>6

\* When an open life counts, and when the board leaves it out.
LEMMA OpenLivesPart == PagesInv => OpenLivesDiffer
<1> SUFFICES ASSUME PagesInv, NEW l \in DOMAIN lives, lives[l].end = None
             PROVE  LET p == lives[l].player
                        s == lives[l].server
                    IN  /\ l \in Survivors(s) => LifeQualifiedAt(l) # None
                        /\ LifeQualifiedAt(l) # None /\ l \notin Survivors(s) =>
                             \E t \in KillTimes(s, p) : t > Seen(p)
  BY DEF OpenLivesDiffer
<1> DEFINE p == lives[l].player
           s == lives[l].server
<1>1. /\ TypeOK /\ RowsExist /\ OpenRowsAgree /\ NamesInv /\ KillsInv /\ TimesInv /\ PlayInv
      /\ SpansInv /\ HistoryInv /\ clock \in Nat
  BY PagesFacts
<1>2. SeenOf(l) \in Nat /\ SeenOf(l) = Seen(p)
  BY <1>1, RowTimes DEF SeenOf, Seen, RowsExist
<1>3. l \in Survivors(s) <=> CountsWith(l, TimeAlive(l), SeenOf(l))
  BY <1>1, BoardIs
<1>4. lives[l].cause # "pvp"
  BY <1>1, NoneAssumption DEF SpansInv, NoCauseYet
<1>5. TimeAlive(l) >= QualifySeconds <=> Crossed(l) # {}
  BY <1>1, <1>2, CrossedByTime, RowShown DEF Crossed
<1>6. LifeQualifiedAt(l) # None <=> ShotsAt(l) # {} \/ Crossed(l) # {}
  <2>1. LifeQualifiedAt(l) = IF Instants(l) = {} THEN None ELSE Min(Instants(l))
    BY DEF LifeQualifiedAt, QualifiedInstant, Instants, DeathAt, ShotsAt, Crossed, SeenOf, Seen
  <2>2. HistoryKnown(l)
    BY <1>1, HistoryFacts DEF AllKnown
  <2>3. Instants(l) \subseteq Nat
    BY <2>2 DEF HistoryKnown
  <2>4. Instants(l) # {} => Min(Instants(l)) \in Nat
    BY <2>3, MinIsLeast
  <2>5. DeathAt(l) = {}
    BY <1>4 DEF DeathAt
  <2> QED
    BY <2>1, <2>4, <2>5, NoneAssumption DEF Instants
<1>7. ShotsAt(l) = {t \in KillTimes(s, p) : lives[l].start <= t}
  BY DEF ShotsAt
<1>8. \A t \in KillTimes(s, p) : t \in Nat
  BY <1>1, KillTimesPast
<1>9. \A t \in KillTimes(s, p) : ~(t <= SeenOf(l)) => t > Seen(p)
  BY <1>2, <1>8
<1>10. CountsWith(l, TimeAlive(l), SeenOf(l)) <=>
         \/ \E t \in KillTimes(s, p) : lives[l].start <= t /\ t <= SeenOf(l)
         \/ Crossed(l) # {}
  BY <1>4, <1>5 DEF CountsWith
<1> HIDE DEF s, p
<1> QED
  BY <1>3, <1>6, <1>7, <1>9, <1>10 DEF s, p

\* A sum of one time, or none.
LEMMA SumOfFew ==
  ASSUME NEW w, NEW S, \A i, j \in S : i = j, Timed(w, S)
  PROVE  /\ IsFiniteSet(S)
         /\ S = {} => Cardinality(Seconds(w, S)) = 0
         /\ \A i \in S : Cardinality(Seconds(w, S)) = w[i].dur
<1>1. S = {} => IsFiniteSet(S) /\ Cardinality(Seconds(w, S)) = 0
  <2>1. Seconds(w, {}) = {}
    BY DEF Seconds
  <2> QED
    BY <2>1, FS_EmptySet
<1>2. ASSUME NEW i \in S
      PROVE  IsFiniteSet(S) /\ Cardinality(Seconds(w, S)) = w[i].dur
  <2>1. S = {i}
    OBVIOUS
  <2>2. Seconds(w, S) = SecondsOf(w, i)
    BY <2>1 DEF Seconds
  <2> QED
    BY <2>1, <2>2, SecondsCount, FS_Singleton DEF Timed
<1>3. S # {} => \E i \in S : TRUE
  OBVIOUS
<1> QED
  BY <1>1, <1>2, <1>3

\* The times a board and a profile add up.
AliveTimes(S) == [l \in S |-> [dur |-> TimeAlive(l)]]

LEMMA SumOfAlive ==
  ASSUME NEW S, IsFiniteSet(S), Timed(AliveTimes(S), S)
  PROVE  MapThenSumSet(TimeAlive, S) = Cardinality(Seconds(AliveTimes(S), S))
<1> DEFINE w == AliveTimes(S)
<1>1. MapThenSumSet(TimeAlive, S)
        = (CHOOSE h : h = [s \in SUBSET S |->
             IF s = {} THEN 0 ELSE TimeAlive(AnyOf(s)) + h[s \ {AnyOf(s)}]])[S]
  BY DEF MapThenSumSet, MapThenFoldSet, AnyOf
<1>2. ASSUME NEW h
      PROVE  (h = [s \in SUBSET S |-> IF s = {} THEN 0
                     ELSE TimeAlive(AnyOf(s)) + h[s \ {AnyOf(s)}]])
             <=> TimesUp(h, w, S)
  <2>1. ASSUME NEW s \in SUBSET S, s # {}
        PROVE  w[AnyOf(s)].dur = TimeAlive(AnyOf(s))
    <3>1. AnyOf(s) \in S
      BY <2>1 DEF AnyOf
    <3> QED
      BY <3>1 DEF AliveTimes
  <2>2. [s \in SUBSET S |-> IF s = {} THEN 0
                     ELSE TimeAlive(AnyOf(s)) + h[s \ {AnyOf(s)}]]
        = [s \in SUBSET S |-> IF s = {} THEN 0 ELSE w[AnyOf(s)].dur + h[s \ {AnyOf(s)}]]
    BY <2>1
  <2> QED
    BY <2>2 DEF TimesUp
<1>3. (CHOOSE h : TimesUp(h, w, S))[S] = Cardinality(Seconds(w, S))
  BY SumOfSeconds
<1> HIDE DEF w
<1>4. (CHOOSE h : h = [s \in SUBSET S |->
             IF s = {} THEN 0 ELSE TimeAlive(AnyOf(s)) + h[s \ {AnyOf(s)}]])
      = CHOOSE h : TimesUp(h, w, S)
  BY <1>2
<1> QED
  BY <1>1, <1>3, <1>4 DEF w

PlayedTimes(S, s, p) == [l \in S |-> [dur |-> PlayedSeconds(lives[l], s, p)]]

LEMMA SumOfPlayed ==
  ASSUME NEW S, IsFiniteSet(S), NEW q, NEW p, Timed(PlayedTimes(S, q, p), S)
  PROVE  MapThenSumSet(LAMBDA l : PlayedSeconds(lives[l], q, p), S)
           = Cardinality(Seconds(PlayedTimes(S, q, p), S))
<1> DEFINE w == PlayedTimes(S, q, p)
<1>1. MapThenSumSet(LAMBDA l : PlayedSeconds(lives[l], q, p), S)
        = (CHOOSE h : h = [s \in SUBSET S |->
             IF s = {} THEN 0
             ELSE PlayedSeconds(lives[AnyOf(s)], q, p) + h[s \ {AnyOf(s)}]])[S]
  BY DEF MapThenSumSet, MapThenFoldSet, AnyOf
<1>2. ASSUME NEW h
      PROVE  (h = [s \in SUBSET S |-> IF s = {} THEN 0
                     ELSE PlayedSeconds(lives[AnyOf(s)], q, p) + h[s \ {AnyOf(s)}]])
             <=> TimesUp(h, w, S)
  <2>1. ASSUME NEW s \in SUBSET S, s # {}
        PROVE  w[AnyOf(s)].dur = PlayedSeconds(lives[AnyOf(s)], q, p)
    <3>1. AnyOf(s) \in S
      BY <2>1 DEF AnyOf
    <3> QED
      BY <3>1 DEF PlayedTimes
  <2>2. [s \in SUBSET S |-> IF s = {} THEN 0
                     ELSE PlayedSeconds(lives[AnyOf(s)], q, p) + h[s \ {AnyOf(s)}]]
        = [s \in SUBSET S |-> IF s = {} THEN 0 ELSE w[AnyOf(s)].dur + h[s \ {AnyOf(s)}]]
    BY <2>1
  <2> QED
    BY <2>2 DEF TimesUp
<1>3. (CHOOSE h : TimesUp(h, w, S))[S] = Cardinality(Seconds(w, S))
  BY SumOfSeconds
<1> HIDE DEF w
<1>4. (CHOOSE h : h = [s \in SUBSET S |->
             IF s = {} THEN 0
             ELSE PlayedSeconds(lives[AnyOf(s)], q, p) + h[s \ {AnyOf(s)}]])
      = CHOOSE h : TimesUp(h, w, S)
  BY <1>2
<1> QED
  BY <1>1, <1>3, <1>4 DEF w

\* The open life of a player on a server that counts: on the board, in the profile,
\* and each adds up its time.
BoardOf(s, p) == {l \in Survivors(s) : lives[l].player = p}
CurrentOf(s, p) == {l \in PlayerLives(s, p, None) : lives[l].end = None}

LEMMA OpenLifeShown ==
  ASSUME PagesInv, NEW s \in Servers, NEW p \in DOMAIN players
  PROVE  /\ BoardOf(s, p) = CurrentOf(s, p)
         /\ \A l \in CurrentOf(s, p) :
              /\ l \in DOMAIN lives /\ lives[l].server = s /\ lives[l].player = p
              /\ lives[l].end = None
              /\ PlayedSeconds(lives[l], s, p) = TimeAlive(l) /\ TimeAlive(l) \in Nat
              /\ Profile(s, p).current = TimeAlive(l)
         /\ Profile(s, p).alive <=> CurrentOf(s, p) # {}
         /\ IsFiniteSet(CurrentOf(s, p)) /\ Timed(AliveTimes(CurrentOf(s, p)), CurrentOf(s, p))
         /\ Profile(s, p).current = Cardinality(Seconds(AliveTimes(CurrentOf(s, p)), CurrentOf(s, p)))
<1> DEFINE C == CurrentOf(s, p)
           w == AliveTimes(C)
<1>1. /\ TypeOK /\ RowsExist /\ OpenRowsAgree /\ NamesInv /\ PlayInv /\ SpansInv
  BY PagesFacts
<1>2. ASSUME NEW l \in C
      PROVE  /\ l \in DOMAIN lives /\ lives[l].server = s /\ lives[l].player = p
             /\ lives[l].end = None
             /\ PlayedSeconds(lives[l], s, p) = TimeAlive(l) /\ TimeAlive(l) \in Nat
  <2>1. l \in DOMAIN lives /\ lives[l].server = s /\ lives[l].player = p /\ lives[l].end = None
    BY DEF CurrentOf, PlayerLives, LivesOf
  <2>2. OpenSession(s, p) = OpenSessionIn(l)
    BY <1>1, <2>1, OpenRows
  <2>3. PlayedSeconds(lives[l], s, p) = TimeAlive(l)
    BY <2>1, <2>2 DEF PlayedSeconds, TimeAlive
  <2>4. SeenOf(l) \in Nat
    BY <1>1, <2>1, RowTimes DEF SeenOf, Seen
  <2>5. TimeAlive(l) \in Nat
    BY <1>1, <2>1, <2>4, LiveIsSum, RowShown
  <2> QED
    BY <2>1, <2>3, <2>5
<1>3. BoardOf(s, p) = C
  <2>1. ASSUME NEW l \in BoardOf(s, p) PROVE l \in C
    <3>1. l \in DOMAIN lives /\ lives[l].server = s /\ lives[l].player = p /\ l \in Survivors(s)
      BY DEF BoardOf, Survivors
    <3> QED
      BY <1>1, <3>1, BoardIs DEF CurrentOf
  <2>2. ASSUME NEW l \in C PROVE l \in BoardOf(s, p)
    <3>1. l \in PlayerLives(s, p, None)
      BY DEF CurrentOf
    <3> QED
      BY <1>1, <1>2, <3>1, BoardIs DEF BoardOf
  <2> QED
    BY <2>1, <2>2
<1>4. \A l, m \in C : l = m
  BY <1>1, <1>2 DEF OpenRowsAgree
<1>5. Timed(w, C) /\ \A l \in C : w[l].dur = TimeAlive(l)
  BY <1>2 DEF AliveTimes, Timed
<1>6. PlayedTimes(C, s, p) = w
  <2>1. \A l \in C : [dur |-> PlayedSeconds(lives[l], s, p)] = [dur |-> TimeAlive(l)]
    BY <1>2
  <2> HIDE DEF C
  <2> QED
    BY <2>1 DEF PlayedTimes, AliveTimes
<1>7. Profile(s, p).alive <=> C # {}
  BY DEF Profile, CurrentOf
<1>8. Profile(s, p).current = MapThenSumSet(LAMBDA l : PlayedSeconds(lives[l], s, p), C)
  BY DEF Profile, CurrentOf
<1> HIDE DEF C, w
<1>9. IsFiniteSet(C) /\ \A l \in C : Cardinality(Seconds(w, C)) = TimeAlive(l)
  BY <1>4, <1>5, SumOfFew
<1>10. Profile(s, p).current = Cardinality(Seconds(w, C))
  BY <1>5, <1>6, <1>8, <1>9, SumOfPlayed
<1> QED
  BY <1>2, <1>3, <1>5, <1>7, <1>9, <1>10 DEF C, w

\* To retire a server now takes no life from anyone.
LEMMA RetiredNow ==
  ASSUME PagesInv, NEW s \in Servers, NEW p \in DOMAIN players
  PROVE  PlayerLives(s, p, None) \subseteq PlayerLives(s, p, clock)
<1>1. /\ TypeOK /\ RowsExist /\ OpenRowsAgree /\ NamesInv /\ KillsInv /\ TimesInv /\ clock \in Nat
  BY PagesFacts
<1> SUFFICES ASSUME NEW l \in PlayerLives(s, p, None)
             PROVE  l \in PlayerLives(s, p, clock)
  OBVIOUS
<1>2. l \in LivesOf(s, p) /\ l \in DOMAIN lives
  BY DEF PlayerLives, LivesOf
<1>3. /\ l \in PlayerLives(s, p, None) <=>
           CountsWith(l, PlayedBy(l, StopOf(l, None)), LastOf(l, None))
      /\ l \in PlayerLives(s, p, clock) <=>
           CountsWith(l, PlayedBy(l, StopOf(l, clock)), LastOf(l, clock))
  BY <1>1, <1>2, LivesThatCount
<1>4. SeenOf(l) \in Nat /\ SeenOf(l) <= clock /\ clock # None
  BY <1>1, <1>2, RowTimes, NoneAssumption DEF SeenOf, Seen, RowsExist, NamesInv
<1>5. StopOf(l, clock) = StopOf(l, None)
  BY <1>1, <1>4 DEF StopOf, RetirementCap
<1>6. \A t \in KillTimes(lives[l].server, lives[l].player) :
        t <= LastOf(l, None) => t <= LastOf(l, clock)
  <2>1. CASE lives[l].end # None
    BY <2>1 DEF LastOf
  <2>2. CASE lives[l].end = None
    <3>1. LastOf(l, None) = SeenOf(l) /\ LastOf(l, clock) = clock
      BY <1>4, <2>2 DEF LastOf
    <3>2. \A t \in KillTimes(lives[l].server, lives[l].player) : t \in Nat /\ t <= clock
      BY <1>1, KillTimesPast
    <3> QED
      BY <3>1, <3>2
  <2> QED
    BY <2>1, <2>2
<1> QED
  BY <1>3, <1>5, <1>6 DEF CountsWith

LEMMA OneLifePart == PagesInv => PagesShowOneLife
<1> SUFFICES ASSUME PagesInv, NEW s \in Servers, NEW p \in DOMAIN players
             PROVE  LET board == {l \in Survivors(s) : lives[l].player = p}
                    IN  /\ Profile(s, p).alive <=> board # {}
                        /\ Profile(s, p).current = MapThenSumSet(TimeAlive, board)
                        /\ \A r \in Roster(s) :
                             r.life \in board => r.lifeSeconds = TimeAlive(r.life)
                        /\ PlayerLives(s, p, None) \subseteq PlayerLives(s, p, clock)
                        /\ \A l \in board :
                             ApplyRetirement(lives[l], FromOf(OpenSessionIn(l)), clock,
                                             Seen(p)).play = TimeAlive(l)
  BY DEF PagesShowOneLife
<1>1. /\ TypeOK /\ RowsExist /\ OpenRowsAgree /\ NamesInv /\ clock \in Nat
  BY PagesFacts
<1>2. /\ BoardOf(s, p) = CurrentOf(s, p)
      /\ \A l \in CurrentOf(s, p) : /\ l \in DOMAIN lives /\ lives[l].server = s
                                     /\ lives[l].player = p /\ lives[l].end = None
                                     /\ PlayedSeconds(lives[l], s, p) = TimeAlive(l)
                                     /\ TimeAlive(l) \in Nat
                                     /\ Profile(s, p).current = TimeAlive(l)
      /\ Profile(s, p).alive <=> CurrentOf(s, p) # {}
      /\ IsFiniteSet(CurrentOf(s, p)) /\ Timed(AliveTimes(CurrentOf(s, p)), CurrentOf(s, p))
      /\ Profile(s, p).current = Cardinality(Seconds(AliveTimes(CurrentOf(s, p)), CurrentOf(s, p)))
  BY OpenLifeShown
<1>3. PICK board : board = {l \in Survivors(s) : lives[l].player = p}
  OBVIOUS
<1>4. board = CurrentOf(s, p)
  BY <1>2, <1>3 DEF BoardOf
<1>5. \A r \in Roster(s) : r.life \in board => r.lifeSeconds = TimeAlive(r.life)
  <2> SUFFICES ASSUME NEW i \in OpenOn(s)
               PROVE  LivePlaytime(lives[sessions[i].life].play, sessions[i].from,
                                   Seen(sessions[i].player)) = TimeAlive(sessions[i].life)
    BY DEF Roster
  <2>1. i \in DOMAIN sessions /\ sessions[i].to = None
    BY DEF OpenOn
  <2>2. PICK l : l = sessions[i].life
    OBVIOUS
  <2>3. l \in DOMAIN lives /\ lives[l].player = sessions[i].player
    BY <1>1, <2>1, <2>2 DEF RowsExist, OpenRowsAgree, IsOpenLife
  <2>4. i \in OpenSessionIn(l)
    BY <2>1, <2>2 DEF OpenSessionIn
  <2>5. FromOf(OpenSessionIn(l)) = sessions[i].from
    BY <1>1, <2>3, <2>4, OpenRows
  <2> QED
    BY <2>2, <2>3, <2>5 DEF TimeAlive
<1>6. PlayerLives(s, p, None) \subseteq PlayerLives(s, p, clock)
  BY RetiredNow
<1>7. ASSUME NEW l \in board
      PROVE  ApplyRetirement(lives[l], FromOf(OpenSessionIn(l)), clock, Seen(p)).play
               = TimeAlive(l)
  <2>1. l \in DOMAIN lives /\ lives[l].player = p /\ lives[l].end = None
    BY <1>2, <1>4
  <2>2. /\ Seen(p) \in Nat /\ Seen(p) <= clock /\ clock # None /\ lives[l] \in LifeRow
    BY <1>1, <2>1, RowTimes, TableRows, NoneAssumption DEF Seen, NamesInv
  <2>3. RetirementCap(clock, Seen(p)) = Seen(p)
    BY <1>1, <2>2 DEF RetirementCap
  <2>4. PICK play : play = TimeAlive(l)
    OBVIOUS
  <2>5. play = LivePlaytime(lives[l].play, FromOf(OpenSessionIn(l)), Seen(p))
    BY <2>1, <2>4 DEF TimeAlive
  <2>6. ApplyRetirement(lives[l], FromOf(OpenSessionIn(l)), clock, Seen(p))
          = [lives[l] EXCEPT !.end = clock, !.play = play]
    BY <2>1, <2>2, <2>3, <2>5 DEF ApplyRetirement
  <2> QED
    BY <2>2, <2>4, <2>6 DEF LifeRow
<1>8. MapThenSumSet(TimeAlive, board) = Cardinality(Seconds(AliveTimes(board), board))
  BY <1>2, <1>4, SumOfAlive
<1>9. Profile(s, p).current = MapThenSumSet(TimeAlive, board)
  BY <1>2, <1>4, <1>8
<1>10. Profile(s, p).alive <=> board # {}
  BY <1>2, <1>4
<1> QED
  BY <1>3, <1>5, <1>6, <1>7, <1>9, <1>10

LEMMA QueriesPart == PagesInv => QueriesAgree
  BY PagesFacts, DecidedOnce, OpenLivesPart, OneLifePart DEF QueriesAgree

-----------------------------------------------------------------------------
\* Who is online, and the life a ban is for.

\* Whoever is listed as online was heard, has a life there and was somewhere last.
LEMMA OnlinePart == PagesInv => OnlineIsSeen
<1> SUFFICES ASSUME PagesInv, NEW s \in Servers, NEW p \in OnlinePlayers(s)
             PROVE  /\ clock - Seen(p) <= OnlineSeconds
                    /\ OpenLife(s, p) # {}
                    /\ LastPlayed(p, AllActive) # {}
  BY DEF OnlineIsSeen
<1>1. /\ TypeOK /\ RowsExist /\ OpenRowsAgree /\ TimesInv /\ SpansInv /\ clock \in Nat
  BY PagesFacts
<1>2. PICK i \in OpenOn(s) : sessions[i].player = p /\ clock - sessions[i].heard <= OnlineSeconds
  BY DEF OnlinePlayers
<1>3. /\ i \in DOMAIN sessions /\ sessions[i].server = s /\ sessions[i].to = None
      /\ sessions[i] \in SessionRow /\ sessions[i].player \in DOMAIN players
      /\ sessions[i].life \in DOMAIN lives
  BY <1>1, TableRows DEF OpenOn, RowsExist
<1>4. clock - Seen(p) <= OnlineSeconds
  <2>1. sessions[i].heard <= players[p].seen /\ sessions[i].heard \in Nat /\ players[p].seen \in Nat
    BY <1>1, <1>2, <1>3, RowTimes DEF SpansInv, Spans, SessionRow
  <2>2. OnlineSeconds \in Nat
    BY PagesAssumption
  <2> QED
    BY <1>1, <1>2, <2>1, <2>2 DEF Seen
<1>5. OpenLife(s, p) # {}
  <2>1. IsOpenLife(sessions[i].life, s, p)
    BY <1>1, <1>2, <1>3 DEF OpenRowsAgree
  <2> QED
    BY <1>3, <2>1 DEF OpenLife, First
<1>6. LastPlayed(p, AllActive) # {}
  <2> DEFINE here == {j \in DOMAIN sessions :
                        sessions[j].player = p /\ AllActive[sessions[j].server].active}
             F == {sessions[j].from : j \in here}
  <2>1. i \in here
    BY <1>2, <1>3 DEF SessionRow, AllActive, Active
  <2>2. \A j \in here : sessions[j].from \in 0 .. clock
    <3>1. \A j \in DOMAIN sessions : sessions[j].from \in Nat /\ sessions[j].from <= clock
      <4> SUFFICES ASSUME NEW j \in DOMAIN sessions
                   PROVE  sessions[j].from \in Nat /\ sessions[j].from <= clock
        OBVIOUS
      <4>1. sessions[j] \in SessionRow /\ sessions[j].from + sessions[j].dur <= clock
        BY PagesFacts, TableRows DEF SessionsInv
      <4>2. sessions[j].from \in Nat /\ sessions[j].dur \in Nat
        BY <4>1 DEF SessionRow
      <4> QED
        BY <1>1, <4>1, <4>2
    <3> QED
      BY <1>1, <3>1
  <2>3. F # {} /\ \A x \in F : x \in 0 .. clock
    BY <2>1, <2>2
  <2>4. LastPlayed(p, AllActive) =
          {sessions[j].server : j \in {k \in here : \A m \in here : sessions[m].from <= sessions[k].from}}
    BY DEF LastPlayed
  <2> HIDE DEF here
  <2>5. PICK last \in F : \A x \in F : x <= last
    <3> HIDE DEF F
    <3> QED
      BY <1>1, <2>3, MaxIsGreatest
  <2>6. PICK j \in here : last = sessions[j].from
    BY <2>5
  <2>7. \A m \in here : sessions[m].from <= sessions[j].from
    BY <2>5, <2>6
  <2> QED
    BY <2>4, <2>6, <2>7
<1> QED
  BY <1>4, <1>5, <1>6

\* Of the lives that began in a given second the card names the one there is.
LEMMA BannedPart == PagesInv => BannedForTheRightLife
<1> SUFFICES ASSUME PagesInv, NEW p \in DOMAIN players, NEW l \in DOMAIN lives,
                    lives[l].player = p, lives[l].end # None, QualifiedLifeCondition(l)
             PROVE  LET s == lives[l].server
                        card == Standing(p, s, AllActive, [NoBans EXCEPT ![s] = lives[l].start])
                    IN  /\ card.state = "banned"
                        /\ \/ card.of = {l}
                           \/ \E m \in LivesOf(s, p) :
                                m # l /\ lives[m].start = lives[l].start
  BY DEF BannedForTheRightLife
<1>1. /\ TypeOK /\ HistoryInv
  BY PagesFacts
<1>2. PICK s, start : s = lives[l].server /\ start = lives[l].start
  OBVIOUS
<1>3. /\ s \in Servers /\ start \in Nat /\ start # None /\ lives[l].number \in Nat
  BY <1>1, <1>2, TableRows, NoneAssumption DEF LifeRow
<1>4. PICK ban : ban = [NoBans EXCEPT ![s] = start]
  OBVIOUS
<1>5. ban[s] = start
  BY <1>3, <1>4 DEF NoBans
<1>6. PICK S : S = LivesOn(p, s, AllActive)
  OBVIOUS
<1>7. S = PlayerLives(s, p, None)
  BY <1>3, <1>6 DEF LivesOn, AllActive, Active
<1>8. l \in S
  BY <1>1, <1>2, <1>7, DecidedOnce DEF DecidedAlike
<1>9. Standing(p, s, AllActive, ban).state = "banned"
      /\ Standing(p, s, AllActive, ban).of = Triggering(S, start)
  BY <1>3, <1>5, <1>6 DEF Standing
<1>10. \/ Triggering(S, start) = {l}
       \/ \E m \in LivesOf(s, p) : m # l /\ lives[m].start = start
  <2> DEFINE B == {m \in S : lives[m].start = start}
  <2>1. CASE \E m \in B : m # l
    BY <1>7, <2>1 DEF PlayerLives
  <2>2. CASE \A m \in B : m = l
    <3>1. B = {l}
      BY <1>2, <1>8, <2>2
    <3>2. lives[l].number <= lives[l].number
      BY <1>3
    <3>3. Newest({l}) = {l}
      BY <3>2 DEF Newest
    <3> QED
      BY <3>1, <3>3 DEF Triggering
  <2> QED
    BY <2>1, <2>2
<1> QED
  BY <1>2, <1>4, <1>9, <1>10

-----------------------------------------------------------------------------
\* A life page: its sessions, its track and its playtime.

\* A server is retired at some second of the past, and an active one is not retired.
Orderly(status) ==
  /\ status.retired \in {None} \cup 0 .. clock
  /\ status.active => status.retired = None

LEMMA LastLinePast ==
  ASSUME PagesInv, NEW s \in Servers
  PROVE  LastLine(s) \in 0 .. clock
<1>1. /\ TypeOK /\ TimesInv /\ NamesInv /\ SpansInv /\ SessionsInv /\ RowsExist /\ clock \in Nat
  BY PagesFacts
<1> DEFINE ofLives == UNION {{lives[l].start, lives[l].end} : l \in LivesHere(s)}
           here == {i \in DOMAIN sessions : sessions[i].server = s}
           ofSessions == UNION {{sessions[i].from, sessions[i].to, sessions[i].heard} : i \in here}
           V == {0} \cup ((ofLives \cup ofSessions) \ {None})
<1>2. ASSUME NEW x \in ofLives, x # None PROVE x \in 0 .. clock
  <2>1. PICK l \in DOMAIN lives : x \in {lives[l].start, lives[l].end}
    BY <1>2 DEF LivesHere
  <2>2. /\ lives[l].start \in Nat /\ lives[l].play \in Nat /\ lives[l].start + lives[l].play <= clock
        /\ lives[l].end # None => lives[l].end \in Nat /\ lives[l].end <= clock
    BY <1>1, <2>1, RowTimes DEF TimesInv, Fits
  <2> QED
    BY <1>1, <1>2, <2>1, <2>2
<1>3. ASSUME NEW x \in ofSessions, x # None PROVE x \in 0 .. clock
  <2>1. PICK i \in DOMAIN sessions : x \in {sessions[i].from, sessions[i].to, sessions[i].heard}
    BY <1>3
  <2>2. /\ sessions[i] \in SessionRow /\ sessions[i].player \in DOMAIN players
        /\ sessions[i].from + sessions[i].dur <= clock
    BY <1>1, <2>1, TableRows DEF SessionsInv, RowsExist
  <2>3. /\ sessions[i].from \in Nat /\ sessions[i].dur \in Nat /\ sessions[i].heard \in Nat
        /\ sessions[i].to # None => sessions[i].to \in Nat
    BY <2>2 DEF SessionRow
  <2>4. sessions[i].to # None => sessions[i].to <= clock
    BY <1>1, <2>1 DEF SpansInv, Spans
  <2>5. /\ sessions[i].heard <= players[sessions[i].player].seen
        /\ players[sessions[i].player].seen \in Nat /\ players[sessions[i].player].seen <= clock
    BY <1>1, <2>1, <2>2, RowTimes DEF SpansInv, Spans, NamesInv
  <2> QED
    BY <1>1, <1>3, <2>1, <2>2, <2>3, <2>4, <2>5
<1>4. V # {} /\ \A x \in V : x \in 0 .. clock
  BY <1>1, <1>2, <1>3
<1>5. LastLine(s) = Max(V)
  BY DEF LastLine
<1> HIDE DEF V
<1> QED
  BY <1>1, <1>4, <1>5, MaxIsGreatest

LEMMA StatusesInOrder ==
  ASSUME PagesInv, NEW s \in Servers, NEW status \in StatusesOf(s)
  PROVE  Orderly(status)
<1>1. clock \in Nat /\ LastLine(s) \in 0 .. clock
  BY PagesFacts, LastLinePast
<1>2. PICK last : last = LastLine(s)
  OBVIOUS
<1>3. status \in {Active, Paused, Retired(last), Retired(clock)}
  BY <1>2 DEF StatusesOf
<1>4. None \notin Nat
  BY NoneAssumption
<1> QED
  BY <1>1, <1>2, <1>3, <1>4 DEF Orderly, Active, Paused, Retired

\* The spans of a table of sessions, an open one up to some second.
LEMMA SumOfSpans ==
  ASSUME NEW T, NEW seen, NEW w, IsFiniteSet(DOMAIN T), Timed(w, DOMAIN T),
         \A i \in DOMAIN T :
           DurationSeconds(T[i].from, IF T[i].to = None THEN seen ELSE T[i].to) = w[i].dur
  PROVE  MapThenSumSet(LAMBDA i : DurationSeconds(T[i].from,
                                     IF T[i].to = None THEN seen ELSE T[i].to), DOMAIN T)
           = Cardinality(Seconds(w, DOMAIN T))
<1> DEFINE S == DOMAIN T
           Span(i) == DurationSeconds(T[i].from, IF T[i].to = None THEN seen ELSE T[i].to)
<1>1. MapThenSumSet(Span, S)
        = (CHOOSE h : h = [s \in SUBSET S |->
             IF s = {} THEN 0 ELSE Span(AnyOf(s)) + h[s \ {AnyOf(s)}]])[S]
  BY DEF MapThenSumSet, MapThenFoldSet, AnyOf
<1>2. ASSUME NEW h
      PROVE  (h = [s \in SUBSET S |-> IF s = {} THEN 0 ELSE Span(AnyOf(s)) + h[s \ {AnyOf(s)}]])
             <=> TimesUp(h, w, S)
  <2>1. ASSUME NEW s \in SUBSET S, s # {}
        PROVE  w[AnyOf(s)].dur = Span(AnyOf(s))
    <3>1. AnyOf(s) \in S
      BY <2>1 DEF AnyOf
    <3> QED
      BY <3>1
  <2>2. [s \in SUBSET S |-> IF s = {} THEN 0 ELSE Span(AnyOf(s)) + h[s \ {AnyOf(s)}]]
        = [s \in SUBSET S |-> IF s = {} THEN 0 ELSE w[AnyOf(s)].dur + h[s \ {AnyOf(s)}]]
    BY <2>1
  <2> QED
    BY <2>2 DEF TimesUp
<1>3. (CHOOSE h : TimesUp(h, w, S))[S] = Cardinality(Seconds(w, S))
  BY SumOfSeconds
<1> HIDE DEF S
<1>4. (CHOOSE h : h = [s \in SUBSET S |->
             IF s = {} THEN 0 ELSE Span(AnyOf(s)) + h[s \ {AnyOf(s)}]])
      = CHOOSE h : TimesUp(h, w, S)
  BY <1>2
<1>5. MapThenSumSet(Span, S) = Cardinality(Seconds(w, S))
  BY <1>1, <1>3, <1>4
<1> QED
  BY <1>5 DEF S

\* What the page of a life lists and what its track shows are its sessions.
LEMMA SpansShown ==
  ASSUME PagesInv, NEW l \in DOMAIN lives, NEW retired \in {None} \cup 0 .. clock
  PROVE  LET T == LifeDetail(l, retired).sessions
             W == TrackWindows(l, retired)
             seen == SeenOf(l)
         IN  /\ DOMAIN T = SessionsOf(l) /\ DOMAIN W = SessionsOf(l)
             /\ \A i \in SessionsOf(l) :
                  /\ DurationSeconds(T[i].from, IF T[i].to = None THEN seen ELSE T[i].to)
                       = Contribution(i, StopOf(l, retired))
                  /\ DurationSeconds(W[i].from, IF W[i].to = None THEN seen ELSE W[i].to)
                       = Contribution(i, StopOf(l, retired))
<1>1. /\ TypeOK /\ RowsExist /\ OpenRowsAgree /\ NamesInv /\ SpansInv /\ clock \in Nat
  BY PagesFacts
<1>2. PICK seen, stop : seen = SeenOf(l) /\ stop = StopOf(l, retired)
  OBVIOUS
<1>3. seen \in Nat /\ stop \in Nat /\ seen # None /\ stop # None
  <2>1. StopOf(l, retired) \in 0 .. clock
    BY <1>1, RowShown
  <2>2. seen \in Nat
    BY <1>1, <1>2, RowTimes DEF RowsExist, SeenOf, Seen
  <2> QED
    BY <1>1, <1>2, <2>1, <2>2, NoneAssumption
<1>4. stop = IF retired = None THEN seen ELSE RetirementCap(retired, seen)
  BY <1>2 DEF StopOf
<1>5. PICK T, W : T = LifeDetail(l, retired).sessions /\ W = TrackWindows(l, retired)
  OBVIOUS
<1>6. PICK cap : cap = IF lives[l].end # None THEN lives[l].end ELSE stop
  OBVIOUS
<1>7. T = [i \in SessionsOf(l) |->
             IF sessions[i].to # None \/ retired = None THEN sessions[i]
             ELSE [sessions[i] EXCEPT !.to = stop]]
  BY <1>2, <1>4, <1>5 DEF LifeDetail, SessionsOf, PlayedIn, SeenOf
<1>8. W = [i \in SessionsOf(l) |->
             [from |-> sessions[i].from,
              to |-> IF sessions[i].to # None THEN sessions[i].to
                     ELSE IF cap > sessions[i].from THEN cap ELSE sessions[i].from]]
  <2>1. cap = IF lives[l].end # None THEN lives[l].end
              ELSE IF retired # None THEN RetirementCap(retired, seen) ELSE seen
    BY <1>4, <1>6
  <2> QED
    BY <1>2, <1>5, <2>1 DEF TrackWindows, SessionsOf, PlayedIn, SeenOf
<1>9. ASSUME NEW i \in SessionsOf(l)
      PROVE  /\ DurationSeconds(T[i].from, IF T[i].to = None THEN seen ELSE T[i].to)
                  = Contribution(i, stop)
             /\ DurationSeconds(W[i].from, IF W[i].to = None THEN seen ELSE W[i].to)
                  = Contribution(i, stop)
  <2>1. i \in DOMAIN sessions /\ sessions[i].life = l /\ sessions[i] \in SessionRow
    BY <1>1, TableRows DEF SessionsOf, PlayedIn
  <2>2. sessions[i].from \in Nat /\ sessions[i].from # None
    BY <2>1, NoneAssumption DEF SessionRow
  <2>3. /\ W[i].from = sessions[i].from
        /\ W[i].to = IF sessions[i].to # None THEN sessions[i].to
                     ELSE IF cap > sessions[i].from THEN cap ELSE sessions[i].from
    BY <1>8
  <2>4. CASE sessions[i].to # None
    <3>1. T[i] = sessions[i]
      BY <1>7, <2>4
    <3>2. sessions[i].dur = DurationSeconds(sessions[i].from, sessions[i].to)
      BY <1>1, <2>1, <2>4 DEF SpansInv, Spans
    <3>3. Contribution(i, stop) = sessions[i].dur
      BY <2>4 DEF Contribution
    <3> QED
      BY <2>3, <2>4, <3>1, <3>2, <3>3
  <2>5. CASE sessions[i].to = None
    <3>1. lives[l].end = None /\ cap = stop
      BY <1>1, <1>6, <2>1, <2>5 DEF OpenRowsAgree, IsOpenLife
    <3>2. Contribution(i, stop) = DurationSeconds(sessions[i].from, stop)
      BY <2>5 DEF Contribution
    <3>3. T[i].from = sessions[i].from /\ T[i].to = (IF retired = None THEN None ELSE stop)
      BY <1>7, <2>1, <2>5 DEF SessionRow
    <3>4. (IF T[i].to = None THEN seen ELSE T[i].to) = stop
      BY <1>3, <1>4, <3>3
    <3>5. /\ W[i].to = (IF stop > sessions[i].from THEN stop ELSE sessions[i].from)
          /\ W[i].to # None
      BY <1>3, <2>2, <2>3, <2>5, <3>1
    <3>6. DurationSeconds(W[i].from, W[i].to) = DurationSeconds(sessions[i].from, stop)
      BY <1>3, <2>2, <2>3, <3>5 DEF DurationSeconds
    <3> QED
      BY <3>2, <3>3, <3>4, <3>5, <3>6
  <2> QED
    BY <2>4, <2>5
<1> QED
  BY <1>2, <1>5, <1>7, <1>8, <1>9

\* The instant on the page of a life says whether it counts.
LEMMA TimelineDecides ==
  ASSUME PagesInv, NEW l \in DOMAIN lives, NEW retired \in {None} \cup 0 .. clock,
         LifeRowFor(l, retired).end # None
  PROVE  TimelineQualifiedAt(l, retired) # None
           <=> l \in PlayerLives(lives[l].server, lives[l].player, retired)
<1>1. /\ TypeOK /\ RowsExist /\ OpenRowsAgree /\ NamesInv /\ KillsInv /\ TimesInv /\ PlayInv
      /\ SpansInv /\ clock \in Nat
  BY PagesFacts
<1>2. PICK row, s, p, stop : /\ row = LifeRowFor(l, retired) /\ s = lives[l].server
                             /\ p = lives[l].player /\ stop = StopOf(l, retired)
  OBVIOUS
<1>3. /\ row.cause = lives[l].cause /\ row.start = lives[l].start
      /\ row.server = s /\ row.player = p /\ row.end # None
      /\ row.end = (IF lives[l].end # None \/ retired = None THEN lives[l].end ELSE retired)
      /\ stop \in 0 .. clock
  BY <1>1, <1>2, RowShown
<1>4. row.end \in Nat /\ row.end = LastOf(l, retired)
  <2>1. lives[l].end # None => lives[l].end \in Nat
    BY <1>1, RowTimes
  <2>2. row.end = LastOf(l, retired)
    BY <1>3 DEF LastOf
  <2> QED
    BY <1>1, <1>3, <2>1, <2>2
<1> DEFINE death == IF row.cause = "pvp" /\ row.end # None THEN {row.end} ELSE {}
           shots == {t \in KillTimes(s, p) :
                       row.start <= t /\ (row.end = None \/ t <= row.end)}
           instants == death \cup shots \cup CrossedAt(l, stop)
<1>5. TimelineQualifiedAt(l, retired) = IF instants = {} THEN None ELSE Min(instants)
  <2>1. LifeDetail(l, retired).life = row
    BY <1>2 DEF LifeDetail
  <2>2. stop = IF retired = None THEN Seen(p) ELSE RetirementCap(retired, Seen(p))
    BY <1>2 DEF StopOf, SeenOf
  <2> QED
    BY <1>2, <1>3, <2>1, <2>2 DEF TimelineQualifiedAt, QualifiedInstant
<1>6. /\ CrossedAt(l, stop) # {} <=> PlayedBy(l, stop) >= QualifySeconds
      /\ CrossedAt(l, stop) \subseteq Nat
  BY <1>1, <1>3, CrossedByTime
<1>7. death # {} <=> lives[l].cause = "pvp"
  BY <1>3
<1>8. shots # {} <=> \E t \in KillTimes(s, p) : lives[l].start <= t /\ t <= row.end
  BY <1>3
<1>9. instants \subseteq Nat
  <2>1. death \subseteq Nat
    BY <1>4
  <2>2. shots \subseteq Nat
    BY <1>1, KillTimesPast
  <2> QED
    BY <1>6, <2>1, <2>2
<1>10. instants # {} <=> CountsWith(l, PlayedBy(l, stop), row.end)
  BY <1>2, <1>6, <1>7, <1>8 DEF CountsWith
<1> HIDE DEF instants
<1>11. TimelineQualifiedAt(l, retired) # None <=> instants # {}
  <2>1. instants # {} => Min(instants) \in Nat
    BY <1>9, MinIsLeast
  <2> QED
    BY <1>5, <2>1, NoneAssumption
<1>12. s \in Servers /\ p \in DOMAIN players /\ l \in LivesOf(s, p)
  BY <1>1, <1>2, TableRows DEF RowsExist, LifeRow, LivesOf
<1>13. l \in PlayerLives(s, p, retired) <=> CountsWith(l, PlayedBy(l, stop), row.end)
  BY <1>1, <1>2, <1>4, <1>12, LivesThatCount
<1> QED
  BY <1>2, <1>10, <1>11, <1>13

LEMMA AddUpPart == PagesInv => LifePagesAddUp
<1> SUFFICES ASSUME PagesInv, NEW l \in DOMAIN lives, NEW status \in StatusesOf(lives[l].server)
             PROVE  LET s == lives[l].server
                        p == lives[l].player
                        retired == status.retired
                        fleet == [AllActive EXCEPT ![s] = status]
                        detail == LifeDetail(l, retired)
                        windows == TrackWindows(l, retired)
                        shown == IF detail.life.end = None THEN TimeAlive(l) ELSE detail.life.play
                        Length(w) == DurationSeconds(w.from, IF w.to = None THEN Seen(p) ELSE w.to)
                    IN  /\ shown = MapThenSumSet(LAMBDA i : Length(detail.sessions[i]),
                                                 DOMAIN detail.sessions)
                        /\ shown = MapThenSumSet(LAMBDA i : Length(windows[i]), DOMAIN windows)
                        /\ detail.life.end # None =>
                             (TimelineQualifiedAt(l, retired) # None <=> l \in LivesOn(p, s, fleet))
                        /\ l \in LivesOn(p, s, fleet) =>
                             l \in LifePage(s, players[p].tag, lives[l].number, fleet)
  BY DEF LifePagesAddUp
<1> DEFINE s == lives[l].server
           p == lives[l].player
           retired == status.retired
           fleet == [AllActive EXCEPT ![s] = status]
           detail == LifeDetail(l, retired)
           windows == TrackWindows(l, retired)
           shown == IF detail.life.end = None THEN TimeAlive(l) ELSE detail.life.play
           Length(w) == DurationSeconds(w.from, IF w.to = None THEN Seen(p) ELSE w.to)
           w == Worths(StopOf(l, retired))
           S == SessionsOf(l)
<1>1. /\ TypeOK /\ RowsExist /\ OpenRowsAgree /\ NamesInv /\ PlayInv /\ NamesCarried /\ clock \in Nat
  BY PagesFacts
<1>2. s \in Servers /\ p \in DOMAIN players
  BY <1>1, TableRows DEF RowsExist, LifeRow
<1>3. retired \in {None} \cup 0 .. clock /\ retired \in {None} \cup Nat
  BY <1>1, <1>2, StatusesInOrder DEF Orderly
<1>4. LivesOn(p, s, fleet) = PlayerLives(s, p, retired)
  BY <1>2 DEF LivesOn, AllActive
<1>5. /\ DOMAIN detail.sessions = S /\ DOMAIN windows = S
      /\ \A i \in S : /\ Length(detail.sessions[i]) = Contribution(i, StopOf(l, retired))
                      /\ Length(windows[i]) = Contribution(i, StopOf(l, retired))
  <2> HIDE DEF retired
  <2> QED
    BY <1>3, SpansShown DEF SeenOf
<1>6. /\ IsFiniteSet(S) /\ Timed(w, S) /\ StopOf(l, retired) \in Nat
      /\ \A i \in S : w[i].dur = Contribution(i, StopOf(l, retired))
      /\ PlayedBy(l, StopOf(l, retired)) = Cardinality(Seconds(w, S))
  <2>1. StopOf(l, retired) \in 0 .. clock
    BY <1>1, <1>3, RowShown
  <2>2. StopOf(l, retired) \in Nat
    BY <1>1, <2>1
  <2>3. PICK stop \in Nat : stop = StopOf(l, retired)
    BY <2>2
  <2>4. /\ IsFiniteSet(S) /\ Timed(Worths(stop), S) /\ S \subseteq DOMAIN sessions
        /\ \A i \in DOMAIN sessions : Worths(stop)[i].dur = Contribution(i, stop)
    BY <1>1, WorthsTimed
  <2>5. PlayedBy(l, stop) = Cardinality(Seconds(Worths(stop), S))
    BY <1>1, LiveIsSum
  <2> HIDE DEF S
  <2> QED
    BY <2>2, <2>3, <2>4, <2>5
<1>7. shown = Cardinality(Seconds(w, S))
  <2>1. LET row == LifeRowFor(l, retired)
        IN  /\ row.end = (IF lives[l].end # None \/ retired = None THEN lives[l].end ELSE retired)
            /\ row.end # None => row.play = PlayedBy(l, StopOf(l, retired))
            /\ TimeAlive(l) = PlayedBy(l, SeenOf(l))
    BY <1>1, <1>3, RowShown
  <2>2. detail.life = LifeRowFor(l, retired)
    BY DEF LifeDetail
  <2>3. retired = None => StopOf(l, retired) = SeenOf(l)
    BY DEF StopOf
  <2> HIDE DEF retired, detail, w, S
  <2> QED
    BY <1>6, <2>1, <2>2, <2>3
<1>8. MapThenSumSet(LAMBDA i : Length(detail.sessions[i]), DOMAIN detail.sessions)
        = Cardinality(Seconds(w, S))
  <2>1. PICK T : T = detail.sessions
    OBVIOUS
  <2>2. \A i \in DOMAIN T : DurationSeconds(T[i].from, IF T[i].to = None THEN Seen(p) ELSE T[i].to)
                              = w[i].dur
    BY <1>5, <1>6, <2>1
  <2>3. IsFiniteSet(DOMAIN T) /\ Timed(w, DOMAIN T) /\ DOMAIN T = S
    BY <1>5, <1>6, <2>1
  <2> HIDE DEF detail, w, S
  <2>4. MapThenSumSet(LAMBDA i : Length(T[i]), DOMAIN T) = Cardinality(Seconds(w, DOMAIN T))
    BY <2>2, <2>3, SumOfSpans
  <2> QED
    BY <2>1, <2>3, <2>4
<1>9. MapThenSumSet(LAMBDA i : Length(windows[i]), DOMAIN windows) = Cardinality(Seconds(w, S))
  <2>1. PICK T : T = windows
    OBVIOUS
  <2>2. \A i \in DOMAIN T : DurationSeconds(T[i].from, IF T[i].to = None THEN Seen(p) ELSE T[i].to)
                              = w[i].dur
    BY <1>5, <1>6, <2>1
  <2>3. IsFiniteSet(DOMAIN T) /\ Timed(w, DOMAIN T) /\ DOMAIN T = S
    BY <1>5, <1>6, <2>1
  <2> HIDE DEF windows, w, S
  <2>4. MapThenSumSet(LAMBDA i : Length(T[i]), DOMAIN T) = Cardinality(Seconds(w, DOMAIN T))
    BY <2>2, <2>3, SumOfSpans
  <2> QED
    BY <2>1, <2>3, <2>4
<1>10. detail.life.end # None =>
         (TimelineQualifiedAt(l, retired) # None <=> l \in LivesOn(p, s, fleet))
  <2>1. detail.life = LifeRowFor(l, retired)
    BY DEF LifeDetail
  <2> QED
    BY <1>3, <1>4, <2>1, TimelineDecides
<1>11. l \in LivesOn(p, s, fleet) => l \in LifePage(s, players[p].tag, lives[l].number, fleet)
  <2>1. p \in PageRows(players[p].tag)
    BY <1>1, <1>2, NamesLead DEF NamesCarried
  <2> QED
    BY <2>1 DEF LifePage
<1> HIDE DEF shown, w, S
<1>12. /\ shown = MapThenSumSet(LAMBDA i : Length(detail.sessions[i]), DOMAIN detail.sessions)
       /\ shown = MapThenSumSet(LAMBDA i : Length(windows[i]), DOMAIN windows)
  BY <1>7, <1>8, <1>9
<1> QED
  BY <1>10, <1>11, <1>12 DEF shown

-----------------------------------------------------------------------------
\* The aggregate: sums over the servers someone played on.

\* The sizes of disjoint sets add up to the size of their union.
Whole(F, S) == UNION {F[s] : s \in S}
Parts(F, S) ==
  /\ \A s \in S : IsFiniteSet(F[s])
  /\ \A s, t \in S : s # t => F[s] \cap F[t] = {}

LEMMA WholeFinite ==
  ASSUME NEW F, NEW S, IsFiniteSet(S), Parts(F, S)
  PROVE  IsFiniteSet(Whole(F, S)) /\ Cardinality(Whole(F, S)) \in Nat
<1> DEFINE B == {F[s] : s \in S}
           f == [s \in S |-> F[s]]
<1>1. f \in Surjection(S, B)
  BY DEF Surjection
<1> HIDE DEF f
<1>2. IsFiniteSet(B)
  BY <1>1, FS_Surjection
<1>3. \A b \in B : IsFiniteSet(b)
  BY DEF Parts
<1> HIDE DEF B
<1>4. IsFiniteSet(UNION B)
  BY <1>2, <1>3, FS_UNION
<1> QED
  BY <1>4, FS_CardinalityType DEF Whole, B

LEMMA PartsCount ==
  ASSUME NEW F, NEW w, NEW S, IsFiniteSet(S), Parts(F, S),
         \A s \in S : w[s].dur = Cardinality(F[s])
  PROVE  (CHOOSE h : TimesUp(h, w, S))[S] = Cardinality(Whole(F, S))
<1> DEFINE g == [t \in SUBSET S |-> Cardinality(Whole(F, t))]
<1>1. Cardinality(Whole(F, {})) = 0
  <2>1. Whole(F, {}) = {}
    BY DEF Whole
  <2> QED
    BY <2>1, FS_EmptySet
<1>2. ASSUME NEW t \in SUBSET S, t # {}
      PROVE  Cardinality(Whole(F, t)) = w[AnyOf(t)].dur + g[t \ {AnyOf(t)}]
  <2> DEFINE A == F[AnyOf(t)]
             B == Whole(F, t \ {AnyOf(t)})
  <2>1. AnyOf(t) \in t /\ AnyOf(t) \in S
    BY <1>2 DEF AnyOf
  <2>2. IsFiniteSet(t \ {AnyOf(t)}) /\ Parts(F, t \ {AnyOf(t)})
    <3>1. t \ {AnyOf(t)} \subseteq S
      OBVIOUS
    <3> QED
      BY <3>1, FS_Subset DEF Parts
  <2>3. IsFiniteSet(B) /\ Cardinality(B) \in Nat
    BY <2>2, WholeFinite
  <2>4. IsFiniteSet(A) /\ Cardinality(A) \in Nat
    BY <2>1, FS_CardinalityType DEF Parts
  <2>5. Whole(F, t) = A \cup B
    BY <2>1 DEF Whole
  <2>6. A \cap B = {}
    <3>1. \A s \in t \ {AnyOf(t)} : A \cap F[s] = {}
      BY <2>1 DEF Parts
    <3> HIDE DEF A
    <3> QED
      BY <3>1 DEF Whole
  <2>7. w[AnyOf(t)].dur = Cardinality(A)
    BY <2>1
  <2> HIDE DEF A, B
  <2>8. Cardinality(A \cap B) = 0
    BY <2>6, FS_EmptySet
  <2>9. Cardinality(A \cup B) = Cardinality(A) + Cardinality(B) - Cardinality(A \cap B)
    BY <2>3, <2>4, FS_Union
  <2>10. Cardinality(Whole(F, t)) = w[AnyOf(t)].dur + Cardinality(B)
    BY <2>3, <2>4, <2>5, <2>7, <2>8, <2>9
  <2>11. t \ {AnyOf(t)} \in SUBSET S
    OBVIOUS
  <2> QED
    BY <2>10, <2>11 DEF B
<1>3. TimesUp(g, w, S)
  BY <1>1, <1>2 DEF TimesUp
<1>4. g[S] = Cardinality(Whole(F, S))
  OBVIOUS
<1> HIDE DEF g
<1>5. TimesUp(CHOOSE h : TimesUp(h, w, S), w, S)
  BY <1>3
<1> QED
  BY <1>3, <1>4, <1>5, OneTime

\* The aggregate's two counts.
LivesCounts(p, S) == [s \in S |-> [dur |-> Profile(s, p).lives]]
DeathsCounts(p, S) == [s \in S |-> [dur |-> Profile(s, p).deaths]]

LEMMA SumOfLives ==
  ASSUME NEW p, NEW S
  PROVE  MapThenSumSet(LAMBDA s : Profile(s, p).lives, S)
           = (CHOOSE h : TimesUp(h, LivesCounts(p, S), S))[S]
<1> DEFINE w == LivesCounts(p, S)
<1>1. MapThenSumSet(LAMBDA s : Profile(s, p).lives, S)
        = (CHOOSE h : h = [t \in SUBSET S |->
             IF t = {} THEN 0 ELSE Profile(AnyOf(t), p).lives + h[t \ {AnyOf(t)}]])[S]
  BY DEF MapThenSumSet, MapThenFoldSet, AnyOf
<1>2. ASSUME NEW h
      PROVE  (h = [t \in SUBSET S |-> IF t = {} THEN 0
                     ELSE Profile(AnyOf(t), p).lives + h[t \ {AnyOf(t)}]])
             <=> TimesUp(h, w, S)
  <2>1. ASSUME NEW t \in SUBSET S, t # {}
        PROVE  w[AnyOf(t)].dur = Profile(AnyOf(t), p).lives
    <3>1. AnyOf(t) \in S
      BY <2>1 DEF AnyOf
    <3> QED
      BY <3>1 DEF LivesCounts
  <2>2. [t \in SUBSET S |-> IF t = {} THEN 0
                     ELSE Profile(AnyOf(t), p).lives + h[t \ {AnyOf(t)}]]
        = [t \in SUBSET S |-> IF t = {} THEN 0 ELSE w[AnyOf(t)].dur + h[t \ {AnyOf(t)}]]
    BY <2>1
  <2> QED
    BY <2>2 DEF TimesUp
<1> HIDE DEF w
<1>3. (CHOOSE h : h = [t \in SUBSET S |->
             IF t = {} THEN 0 ELSE Profile(AnyOf(t), p).lives + h[t \ {AnyOf(t)}]])
      = CHOOSE h : TimesUp(h, w, S)
  BY <1>2
<1> QED
  BY <1>1, <1>3 DEF w

LEMMA SumOfDeaths ==
  ASSUME NEW p, NEW S
  PROVE  MapThenSumSet(LAMBDA s : Profile(s, p).deaths, S)
           = (CHOOSE h : TimesUp(h, DeathsCounts(p, S), S))[S]
<1> DEFINE w == DeathsCounts(p, S)
<1>1. MapThenSumSet(LAMBDA s : Profile(s, p).deaths, S)
        = (CHOOSE h : h = [t \in SUBSET S |->
             IF t = {} THEN 0 ELSE Profile(AnyOf(t), p).deaths + h[t \ {AnyOf(t)}]])[S]
  BY DEF MapThenSumSet, MapThenFoldSet, AnyOf
<1>2. ASSUME NEW h
      PROVE  (h = [t \in SUBSET S |-> IF t = {} THEN 0
                     ELSE Profile(AnyOf(t), p).deaths + h[t \ {AnyOf(t)}]])
             <=> TimesUp(h, w, S)
  <2>1. ASSUME NEW t \in SUBSET S, t # {}
        PROVE  w[AnyOf(t)].dur = Profile(AnyOf(t), p).deaths
    <3>1. AnyOf(t) \in S
      BY <2>1 DEF AnyOf
    <3> QED
      BY <3>1 DEF DeathsCounts
  <2>2. [t \in SUBSET S |-> IF t = {} THEN 0
                     ELSE Profile(AnyOf(t), p).deaths + h[t \ {AnyOf(t)}]]
        = [t \in SUBSET S |-> IF t = {} THEN 0 ELSE w[AnyOf(t)].dur + h[t \ {AnyOf(t)}]]
    BY <2>1
  <2> QED
    BY <2>2 DEF TimesUp
<1> HIDE DEF w
<1>3. (CHOOSE h : h = [t \in SUBSET S |->
             IF t = {} THEN 0 ELSE Profile(AnyOf(t), p).deaths + h[t \ {AnyOf(t)}]])
      = CHOOSE h : TimesUp(h, w, S)
  BY <1>2
<1> QED
  BY <1>1, <1>3 DEF w

\* The lives of a player on the servers, and those that ended, are apart.
CountedOn(p) == [s \in Servers |-> PlayerLives(s, p, None)]
EndedOn(p) == [s \in Servers |-> Deaths(PlayerLives(s, p, None))]

LEMMA RowsFinite ==
  ASSUME TypeOK, NEW S \in SUBSET DOMAIN lives
  PROVE  IsFiniteSet(S) /\ Cardinality(S) \in Nat
<1>1. Len(lives) \in Nat /\ DOMAIN lives = 1 .. Len(lives)
  BY TableRows
<1>2. IsFiniteSet(DOMAIN lives)
  BY <1>1, FS_Interval
<1> QED
  BY <1>2, FS_Subset, FS_CardinalityType

LEMMA LivesApart ==
  ASSUME TypeOK, NEW p
  PROVE  Parts(CountedOn(p), Servers) /\ Parts(EndedOn(p), Servers)
<1>1. ASSUME NEW s \in Servers
      PROVE  /\ CountedOn(p)[s] \subseteq LivesOf(s, p)
             /\ EndedOn(p)[s] \subseteq LivesOf(s, p)
             /\ LivesOf(s, p) \subseteq DOMAIN lives
  BY DEF CountedOn, EndedOn, Deaths, PlayerLives, LivesOf
<1>2. ASSUME NEW s \in Servers
      PROVE  IsFiniteSet(CountedOn(p)[s]) /\ IsFiniteSet(EndedOn(p)[s])
  BY <1>1, RowsFinite
<1>3. \A s, t \in Servers : s # t => LivesOf(s, p) \cap LivesOf(t, p) = {}
  BY DEF LivesOf
<1>4. ASSUME NEW s \in Servers, NEW t \in Servers, s # t
      PROVE  /\ CountedOn(p)[s] \cap CountedOn(p)[t] = {}
             /\ EndedOn(p)[s] \cap EndedOn(p)[t] = {}
  BY <1>1, <1>3, <1>4
<1> QED
  BY <1>2, <1>4 DEF Parts

PlayedOn(p) == {s \in Servers : LivesOf(s, p) # {}}

LEMMA PlayedFinite ==
  ASSUME TypeOK, NEW p
  PROVE  IsFiniteSet(PlayedOn(p))
<1> DEFINE of == {l \in DOMAIN lives : lives[l].player = p}
           B == {lives[l].server : l \in of}
           f == [l \in of |-> lives[l].server]
<1>1. IsFiniteSet(of)
  BY RowsFinite
<1>2. f \in Surjection(of, B)
  BY DEF Surjection
<1> HIDE DEF f
<1>3. IsFiniteSet(B)
  BY <1>1, <1>2, FS_Surjection
<1>4. PlayedOn(p) \subseteq B
  BY DEF PlayedOn, LivesOf
<1> HIDE DEF B
<1> QED
  BY <1>3, <1>4, FS_Subset

LEMMA CountsAddUp ==
  ASSUME PagesInv, NEW p \in DOMAIN players
  PROVE  /\ Aggregate(p, AllActive).lives = Totals(p, AllActive, NoBans).lives
         /\ Aggregate(p, AllActive).deaths = Totals(p, AllActive, NoBans).deaths
<1>1. TypeOK
  BY PagesFacts
<1>2. \A s \in Servers : AllActive[s].active = TRUE /\ AllActive[s].retired = None
  BY DEF AllActive, Active
<1> DEFINE S == AggregateOn(p, AllActive)
<1>3. S = PlayedOn(p) /\ S \subseteq Servers
  BY <1>2 DEF AggregateOn, PlayedOn
<1>4. IsFiniteSet(S)
  BY <1>1, <1>3, PlayedFinite
<1>5. AllLives(p, AllActive) = UNION {PlayerLives(s, p, None) : s \in Servers}
  BY <1>2 DEF AllLives, LivesOn
<1>6. \A s \in Servers \ S : PlayerLives(s, p, None) = {}
  BY <1>3 DEF PlayedOn, PlayerLives
<1>7. AllLives(p, AllActive) = Whole(CountedOn(p), S)
  <2>1. \A s \in S : CountedOn(p)[s] = PlayerLives(s, p, None)
    BY <1>3 DEF CountedOn
  <2> HIDE DEF S
  <2> QED
    BY <1>3, <1>5, <1>6, <2>1 DEF Whole
<1>8. Deaths(AllLives(p, AllActive)) = Whole(EndedOn(p), S)
  <2>1. \A s \in S : EndedOn(p)[s] = Deaths(PlayerLives(s, p, None))
    BY <1>3 DEF EndedOn
  <2> HIDE DEF S
  <2> QED
    BY <1>3, <1>5, <1>6, <2>1 DEF Whole, Deaths
<1>9. Parts(CountedOn(p), S) /\ Parts(EndedOn(p), S)
  BY <1>1, <1>3, LivesApart DEF Parts
<1>10. ASSUME NEW s \in S
       PROVE  /\ LivesCounts(p, S)[s].dur = Cardinality(CountedOn(p)[s])
              /\ DeathsCounts(p, S)[s].dur = Cardinality(EndedOn(p)[s])
  <2>1. /\ Profile(s, p).lives = Cardinality(PlayerLives(s, p, None))
        /\ Profile(s, p).deaths = Cardinality(Deaths(PlayerLives(s, p, None)))
    <3>1. PlayerLives(s, p, None) \ {l \in PlayerLives(s, p, None) : lives[l].end = None}
            = Deaths(PlayerLives(s, p, None))
      BY DEF Deaths
    <3> QED
      BY <3>1 DEF Profile
  <2>2. s \in Servers
    BY <1>3
  <2> QED
    BY <2>1, <2>2 DEF LivesCounts, DeathsCounts, CountedOn, EndedOn
<1>11. /\ Aggregate(p, AllActive).lives = MapThenSumSet(LAMBDA s : Profile(s, p).lives, S)
       /\ Aggregate(p, AllActive).deaths = MapThenSumSet(LAMBDA s : Profile(s, p).deaths, S)
  BY DEF Aggregate
<1> HIDE DEF S
<1>12. Aggregate(p, AllActive).lives = Cardinality(Whole(CountedOn(p), S))
  <2>1. MapThenSumSet(LAMBDA s : Profile(s, p).lives, S)
          = (CHOOSE h : TimesUp(h, LivesCounts(p, S), S))[S]
    BY SumOfLives
  <2>2. (CHOOSE h : TimesUp(h, LivesCounts(p, S), S))[S] = Cardinality(Whole(CountedOn(p), S))
    BY <1>4, <1>9, <1>10, PartsCount
  <2> QED
    BY <1>11, <2>1, <2>2
<1>13. Aggregate(p, AllActive).deaths = Cardinality(Whole(EndedOn(p), S))
  <2>1. MapThenSumSet(LAMBDA s : Profile(s, p).deaths, S)
          = (CHOOSE h : TimesUp(h, DeathsCounts(p, S), S))[S]
    BY SumOfDeaths
  <2>2. (CHOOSE h : TimesUp(h, DeathsCounts(p, S), S))[S] = Cardinality(Whole(EndedOn(p), S))
    BY <1>4, <1>9, <1>10, PartsCount
  <2> QED
    BY <1>11, <2>1, <2>2
<1> QED
  BY <1>7, <1>8, <1>12, <1>13 DEF Totals

-----------------------------------------------------------------------------
\* The cards, the record and the kills.

OrderlyFleet(fleet) == \A s \in Servers : Orderly(fleet[s])

LEMMA AllActiveInOrder ==
  /\ OrderlyFleet(AllActive)
  /\ \A s \in Servers : AllActive[s].active = TRUE /\ AllActive[s].retired = None
  BY DEF OrderlyFleet, Orderly, AllActive, Active

\* Whatever a page shows of a life is a number of seconds.
LEMMA PlayedBound ==
  ASSUME PagesInv, NEW l \in DOMAIN lives, NEW upTo \in 0 .. clock
  PROVE  PlayedBy(l, upTo) \in 0 .. 2 * clock
<1>1. /\ TypeOK /\ RowsExist /\ OpenRowsAgree /\ PlayInv /\ TimesInv /\ clock \in Nat /\ upTo \in Nat
  BY PagesFacts
<1>2. lives[l].play \in Nat /\ lives[l].play <= clock
  <2>1. lives[l].start \in Nat /\ lives[l].play \in Nat /\ lives[l].start + lives[l].play <= clock
    BY <1>1, RowTimes DEF TimesInv, Fits
  <2> QED
    BY <1>1, <2>1
<1>3. PICK from : from = FromOf(OpenSessionIn(l))
  OBVIOUS
<1>4. from = None \/ from \in Nat
  <2>1. \A i \in OpenSessionIn(l) : sessions[i].from \in Nat
    BY <1>1, RowTimes DEF OpenSessionIn
  <2> QED
    BY <1>1, <1>3, <2>1, OpenRows
<1>5. PlayedBy(l, upTo) = IF from = None THEN lives[l].play
                          ELSE lives[l].play + DurationSeconds(from, upTo)
  BY <1>3 DEF PlayedBy, LivePlaytime
<1>6. from \in Nat => DurationSeconds(from, upTo) \in 0 .. clock
  BY <1>1 DEF DurationSeconds
<1>7. PICK d : d = DurationSeconds(from, upTo)
  OBVIOUS
<1>8. from = None \/ d \in 0 .. clock
  BY <1>4, <1>6, <1>7
<1> QED
  BY <1>1, <1>2, <1>5, <1>7, <1>8

LEMMA ShownBound ==
  ASSUME PagesInv, NEW p \in DOMAIN players, NEW s \in Servers, NEW fleet, Orderly(fleet[s]),
         NEW l \in LivesOn(p, s, fleet)
  PROVE  /\ ShownSeconds(l, fleet) \in 0 .. 2 * clock
         /\ fleet[s].active /\ lives[l].end = None => ShownSeconds(l, fleet) = TimeAlive(l)
<1>1. /\ TypeOK /\ RowsExist /\ OpenRowsAgree /\ NamesInv /\ PlayInv /\ TimesInv /\ clock \in Nat
  BY PagesFacts
<1>2. PICK retired : retired = fleet[s].retired
  OBVIOUS
<1>3. /\ retired \in {None} \cup 0 .. clock /\ retired \in {None} \cup Nat
      /\ fleet[s].active => retired = None
  BY <1>1, <1>2 DEF Orderly
<1>4. /\ l \in PlayerLives(s, p, retired) /\ l \in DOMAIN lives
      /\ lives[l].server = s /\ lives[l].player = p
  BY <1>2 DEF LivesOn, PlayerLives, LivesOf
<1>5. CASE fleet[s].active /\ lives[l].end = None
  <2>1. l \in CurrentOf(s, p)
    BY <1>3, <1>4, <1>5 DEF CurrentOf
  <2>2. ShownSeconds(l, fleet) = TimeAlive(l)
    BY <1>4, <1>5, <2>1, OpenLifeShown DEF ShownSeconds
  <2>3. TimeAlive(l) = PlayedBy(l, SeenOf(l))
    BY <1>1, <1>3, <1>4, RowShown
  <2>4. SeenOf(l) \in 0 .. clock
    BY <1>1, <1>4, RowTimes DEF SeenOf, Seen, NamesInv
  <2> QED
    BY <1>4, <2>2, <2>3, <2>4, PlayedBound
<1>6. CASE ~(fleet[s].active /\ lives[l].end = None)
  <2>1. ShownSeconds(l, fleet) = LifeRowFor(l, retired).play
    BY <1>2, <1>4, <1>6 DEF ShownSeconds, RowOn
  <2>2. /\ LifeRowFor(l, retired).end # None =>
             LifeRowFor(l, retired).play = PlayedBy(l, StopOf(l, retired))
        /\ LifeRowFor(l, retired).end = None => LifeRowFor(l, retired).play = lives[l].play
        /\ StopOf(l, retired) \in 0 .. clock
    <3>1. LET row == LifeRowFor(l, retired)
          IN  /\ row.end = (IF lives[l].end # None \/ retired = None THEN lives[l].end
                            ELSE retired)
              /\ row.end # None => row.play = PlayedBy(l, StopOf(l, retired))
              /\ lives[l].end # None \/ retired = None => row = lives[l]
              /\ StopOf(l, retired) \in 0 .. clock
      BY <1>1, <1>3, <1>4, RowShown
    <3> QED
      BY <3>1
  <2>3. PlayedBy(l, StopOf(l, retired)) \in 0 .. 2 * clock
    BY <1>4, <2>2, PlayedBound
  <2>4. lives[l].play \in 0 .. 2 * clock
    <3>1. lives[l].start \in Nat /\ lives[l].play \in Nat /\ lives[l].start + lives[l].play <= clock
      BY <1>1, <1>4, RowTimes DEF TimesInv, Fits
    <3> QED
      BY <1>1, <3>1
  <2> QED
    BY <1>6, <2>1, <2>2, <2>3, <2>4
<1> QED
  BY <1>5, <1>6

\* The record of some of the lives is no more than that of all.
LEMMA LongestOf ==
  ASSUME PagesInv, NEW p \in DOMAIN players, NEW fleet, OrderlyFleet(fleet),
         NEW S \in SUBSET AllLives(p, fleet)
  PROVE  /\ Longest(S, fleet) \in Nat
         /\ \A l \in S : ShownSeconds(l, fleet) <= Longest(S, fleet)
         /\ Longest(S, fleet) <= Longest(AllLives(p, fleet), fleet)
<1>1. clock \in Nat /\ 2 * clock \in Nat
  BY PagesFacts
<1>2. \A l \in AllLives(p, fleet) : ShownSeconds(l, fleet) \in 0 .. 2 * clock
  BY ShownBound DEF AllLives, OrderlyFleet
<1> DEFINE V(T) == {0} \cup {ShownSeconds(l, fleet) : l \in T}
<1>3. ASSUME NEW T \in SUBSET AllLives(p, fleet)
      PROVE  /\ Longest(T, fleet) \in V(T) /\ Longest(T, fleet) \in Nat
             /\ \A x \in V(T) : x <= Longest(T, fleet)
  <2>1. V(T) # {} /\ \A x \in V(T) : x \in 0 .. 2 * clock
    BY <1>1, <1>2
  <2>2. Longest(T, fleet) = Max(V(T))
    BY DEF Longest
  <2> HIDE DEF V
  <2>3. Max(V(T)) \in V(T) /\ \A x \in V(T) : x <= Max(V(T))
    BY <1>1, <2>1, MaxIsGreatest
  <2> QED
    BY <1>1, <2>1, <2>2, <2>3
<1>4. V(S) \subseteq V(AllLives(p, fleet))
  OBVIOUS
<1>5. \A l \in S : ShownSeconds(l, fleet) \in V(S)
  OBVIOUS
<1> HIDE DEF V
<1>6. AllLives(p, fleet) \in SUBSET AllLives(p, fleet)
  OBVIOUS
<1>7. \A x \in V(AllLives(p, fleet)) : x <= Longest(AllLives(p, fleet), fleet)
  BY <1>3, <1>6
<1> QED
  BY <1>3, <1>4, <1>5, <1>7

\* A kill fired in a life is on its killer's page.
LEMMA KillsOnPage ==
  ASSUME PagesInv, NEW p \in DOMAIN players, NEW fleet, OrderlyFleet(fleet)
  PROVE  {k \in kills : k.killer = p} \ FiredDead(p) \subseteq PageKills(p, fleet, NoBans)
<1>1. /\ TypeOK /\ RowsExist /\ OpenRowsAgree /\ NamesInv /\ KillsInv
  BY PagesFacts
<1> SUFFICES ASSUME NEW k \in kills, k.killer = p, k \notin FiredDead(p),
                    fleet[k.server].active
             PROVE  ~NeverPlayed(p, k.server, fleet, NoBans)
  BY DEF PageKills
<1>2. PICK s : s = k.server
  OBVIOUS
<1>3. s \in Servers
  BY <1>1, <1>2 DEF TypeOK, KillRow
<1>4. fleet[s].retired = None
  BY <1>2, <1>3 DEF OrderlyFleet, Orderly
<1>5. PICK l \in LivesOf(s, p) : k \in LifeKills(s, p, lives[l].start, lives[l].end)
  BY <1>2 DEF FiredDead
<1>6. l \in DOMAIN lives /\ lives[l].server = s /\ lives[l].player = p
  BY <1>5 DEF LivesOf
<1>7. CASE lives[l].end = None
  <2>1. OpenLife(s, p) = {l}
    BY <1>1, <1>6, <1>7, OpenRows
  <2> QED
    BY <1>2, <2>1 DEF NeverPlayed
<1>8. CASE lives[l].end # None
  <2>1. KillTime(k) \in KillTimes(s, p)
    BY <1>2 DEF KillTime, KillTimes
  <2>2. lives[l].start <= KillTime(k) /\ KillTime(k) <= lives[l].end
    BY <1>5, <1>8 DEF LifeKills
  <2>3. CountsWith(l, PlayedBy(l, StopOf(l, None)), LastOf(l, None))
    BY <1>6, <1>8, <2>1, <2>2 DEF CountsWith, LastOf
  <2>4. l \in PlayerLives(s, p, None)
    BY <1>1, <1>3, <1>5, <2>3, LivesThatCount
  <2> QED
    BY <1>2, <1>4, <2>4 DEF NeverPlayed, LivesOn
<1> QED
  BY <1>7, <1>8

\* A card and the board show the same life with the same time.
LEMMA CardShows ==
  ASSUME PagesInv, NEW p \in DOMAIN players, NEW s \in Servers,
         Cards(p, AllActive, NoBans)[s].state = "alive",
         NEW l \in Cards(p, AllActive, NoBans)[s].of
  PROVE  LET card == Cards(p, AllActive, NoBans)[s]
         IN  /\ card.seconds = TimeAlive(l)
             /\ l \in Survivors(s) => card.qualified
             /\ card.qualified /\ l \notin Survivors(s) => FiredUnheard(l)
             /\ l \in LivesOn(p, s, AllActive) =>
                  card.seconds <= Totals(p, AllActive, NoBans).longest
<1>1. /\ TypeOK /\ RowsExist /\ OpenRowsAgree /\ OpenLivesDiffer
  BY PagesFacts, OpenLivesPart
<1>2. PICK card : card = Cards(p, AllActive, NoBans)[s]
  OBVIOUS
<1>3. card = Standing(p, s, AllActive, NoBans)
  BY <1>2, AllActiveInOrder DEF Cards
<1>4. NoBans[s] = None
  BY DEF NoBans
<1>5. OpenLife(s, p) # {}
  <2>1. OpenLife(s, p) = {} => card.state = "idle"
    BY <1>3, <1>4 DEF Standing
  <2> QED
    BY <1>2, <2>1
<1>6. PICK m : m \in OpenLife(s, p) /\ m = CHOOSE x \in OpenLife(s, p) : TRUE
  BY <1>5
<1>7. m \in DOMAIN lives /\ lives[m].server = s /\ lives[m].player = p /\ lives[m].end = None
  BY <1>6 DEF OpenLife, First, IsOpenLife
<1>8. OpenLife(s, p) = {m} /\ OpenSession(s, p) = OpenSessionIn(m)
  BY <1>1, <1>7, OpenRows
<1>9. /\ card.of = OpenLife(s, p)
      /\ card.seconds = (IF Profile(s, p).alive THEN Profile(s, p).current
                         ELSE LivePlaytime(lives[m].play, FromOf(OpenSession(s, p)), Seen(p)))
      /\ card.qualified = (LifeQualifiedAt(m) # None)
  BY <1>3, <1>4, <1>5, <1>6 DEF Standing
<1>10. l = m
  BY <1>2, <1>8, <1>9
<1>11. card.seconds = TimeAlive(m)
  <2>1. CASE Profile(s, p).alive
    <3>1. PICK c \in CurrentOf(s, p) : TRUE
      BY <2>1, OpenLifeShown
    <3>2. /\ c \in DOMAIN lives /\ lives[c].server = s /\ lives[c].player = p
          /\ lives[c].end = None /\ Profile(s, p).current = TimeAlive(c)
      BY OpenLifeShown
    <3>3. c = m
      BY <1>1, <1>7, <3>2 DEF OpenRowsAgree
    <3> QED
      BY <1>9, <2>1, <3>2, <3>3
  <2>2. CASE ~Profile(s, p).alive
    BY <1>7, <1>8, <1>9, <2>2 DEF TimeAlive
  <2> QED
    BY <2>1, <2>2
<1>12. /\ m \in Survivors(s) => LifeQualifiedAt(m) # None
       /\ LifeQualifiedAt(m) # None /\ m \notin Survivors(s) => FiredUnheard(m)
  BY <1>1, <1>7 DEF OpenLivesDiffer, FiredUnheard
<1>13. m \in LivesOn(p, s, AllActive) => TimeAlive(m) <= Totals(p, AllActive, NoBans).longest
  <2> SUFFICES ASSUME m \in LivesOn(p, s, AllActive)
               PROVE  TimeAlive(m) <= Totals(p, AllActive, NoBans).longest
    OBVIOUS
  <2>1. ShownSeconds(m, AllActive) = TimeAlive(m)
    BY <1>7, ShownBound, AllActiveInOrder DEF OrderlyFleet
  <2>2. Totals(p, AllActive, NoBans).longest = Longest(AllLives(p, AllActive), AllActive)
    BY DEF Totals
  <2>3. m \in AllLives(p, AllActive)
    BY DEF AllLives
  <2>4. ShownSeconds(m, AllActive) <= Longest(AllLives(p, AllActive), AllActive)
    BY <2>3, LongestOf, AllActiveInOrder
  <2> QED
    BY <2>1, <2>2, <2>4
<1> QED
  BY <1>2, <1>9, <1>10, <1>11, <1>12, <1>13

\* The page leaves out kills of the dead, which the aggregate may count.
LEMMA KillsCompare ==
  ASSUME PagesInv, NEW p \in DOMAIN players
  PROVE  LET own == Totals(p, AllActive, NoBans).kills
             all == Aggregate(p, AllActive).kills
         IN  own <= all /\ all <= own + Cardinality(FiredDead(p))
<1>1. TypeOK /\ RowsExist /\ OpenRowsAgree /\ KillsInv
  BY PagesFacts
<1> DEFINE A == PageKills(p, AllActive, NoBans)
           B == {k \in kills : k.killer = p /\ k.server \in AggregateOn(p, AllActive)}
           D == FiredDead(p)
<1>2. A \subseteq B
  <2> SUFFICES ASSUME NEW k \in kills, k.killer = p,
                      ~(AllActive[k.server].active /\ NeverPlayed(p, k.server, AllActive, NoBans))
               PROVE  k.server \in AggregateOn(p, AllActive)
    BY DEF PageKills
  <2>1. k.server \in Servers
    BY <1>1 DEF TypeOK, KillRow
  <2>2. AllActive[k.server].active /\ NoBans[k.server] = None
    BY <2>1, AllActiveInOrder DEF NoBans
  <2>3. LivesOn(p, k.server, AllActive) # {} \/ OpenLife(k.server, p) # {}
    BY <2>2 DEF NeverPlayed
  <2>4. LivesOf(k.server, p) # {}
    <3>1. LivesOn(p, k.server, AllActive) \subseteq LivesOf(k.server, p)
      BY DEF LivesOn, PlayerLives
    <3>2. \A l \in OpenLife(k.server, p) : l \in LivesOf(k.server, p)
      BY DEF OpenLife, First, IsOpenLife, LivesOf
    <3> QED
      BY <2>3, <3>1, <3>2
  <2> QED
    BY <2>1, <2>2, <2>4 DEF AggregateOn
<1>3. B \subseteq A \cup D
  BY KillsOnPage, AllActiveInOrder
<1>4. /\ IsFiniteSet(A) /\ Cardinality(A) \in Nat /\ IsFiniteSet(B) /\ Cardinality(B) \in Nat
      /\ IsFiniteSet(D) /\ Cardinality(D) \in Nat
  <2>1. A \in SUBSET kills /\ B \in SUBSET kills /\ D \in SUBSET kills
    BY DEF PageKills, FiredDead
  <2>2. IsFiniteSet(A) /\ IsFiniteSet(B) /\ IsFiniteSet(D)
    BY <1>1, <2>1, KillsFinite
  <2> QED
    BY <2>2, FS_CardinalityType
<1>5. Totals(p, AllActive, NoBans).kills = Cardinality(A) /\ Aggregate(p, AllActive).kills = Cardinality(B)
  BY DEF Totals, Aggregate
<1> HIDE DEF A, B, D
<1>6. Cardinality(A) <= Cardinality(B)
  BY <1>2, <1>4, FS_Subset
<1>7. /\ IsFiniteSet(A \cup D)
      /\ Cardinality(A \cup D) = Cardinality(A) + Cardinality(D) - Cardinality(A \cap D)
  BY <1>4, FS_Union
<1>8. Cardinality(A \cap D) \in Nat
  BY <1>4, FS_Intersection, FS_CardinalityType
<1>9. Cardinality(B) <= Cardinality(A \cup D)
  BY <1>3, <1>7, FS_Subset
<1>10. Cardinality(B) <= Cardinality(A) + Cardinality(D)
  BY <1>4, <1>7, <1>8, <1>9
<1> QED
  BY <1>5, <1>6, <1>10 DEF D

LEMMA CardsPart == PagesInv => CardsAgree
<1> SUFFICES ASSUME PagesInv, NEW p \in DOMAIN players
             PROVE  LET cards == Cards(p, AllActive, NoBans)
                        totals == Totals(p, AllActive, NoBans)
                        aggregate == Aggregate(p, AllActive)
                    IN  /\ \A s \in Servers : cards[s].state = "alive" =>
                             \A l \in cards[s].of :
                               /\ /\ cards[s].seconds = TimeAlive(l)
                                  /\ l \in [q \in Servers |-> Survivors(q)][s] => cards[s].qualified
                                  /\ cards[s].qualified /\ l \notin [q \in Servers |-> Survivors(q)][s] =>
                                       FiredUnheard(l)
                               /\ l \in LivesOn(p, s, AllActive) =>
                                    cards[s].seconds <= totals.longest
                        /\ <<totals.lives, totals.deaths>> = <<aggregate.lives, aggregate.deaths>>
                        /\ totals.kills <= aggregate.kills
                        /\ aggregate.kills <= totals.kills + Cardinality(FiredDead(p))
                        /\ aggregate.longest <= totals.longest
                        /\ aggregate.alive => AliveAnywhere(p, AllActive, NoBans)
  BY DEF CardsAgree
<1>1. /\ TypeOK /\ RowsExist /\ OpenRowsAgree /\ NamesInv /\ TimesInv /\ OpenLivesDiffer
      /\ clock \in Nat
  BY PagesFacts, OpenLivesPart
<1>2. PICK cards : cards = Cards(p, AllActive, NoBans)
  OBVIOUS
<1>3. ASSUME NEW s \in Servers, cards[s].state = "alive", NEW l \in cards[s].of
      PROVE  /\ cards[s].seconds = TimeAlive(l)
             /\ l \in [q \in Servers |-> Survivors(q)][s] => cards[s].qualified
             /\ cards[s].qualified /\ l \notin [q \in Servers |-> Survivors(q)][s] => FiredUnheard(l)
             /\ l \in LivesOn(p, s, AllActive) =>
                  cards[s].seconds <= Totals(p, AllActive, NoBans).longest
  BY <1>2, <1>3, CardShows
<1>4. Aggregate(p, AllActive).longest <= Totals(p, AllActive, NoBans).longest
  <2> DEFINE own == UNION {PlayerLives(s, p, AllActive[s].retired) : s \in AggregateOn(p, AllActive)}
             V == {0} \cup {lives[l].play : l \in own}
  <2>1. Aggregate(p, AllActive).longest = Max(V)
    BY DEF Aggregate
  <2>2. ASSUME NEW l \in own
        PROVE  /\ lives[l].play \in 0 .. clock
               /\ lives[l].play <= Totals(p, AllActive, NoBans).longest
    <3>1. PICK s \in Servers : l \in PlayerLives(s, p, None)
      BY AllActiveInOrder DEF AggregateOn
    <3>2. l \in DOMAIN lives
      BY <3>1 DEF PlayerLives, LivesOf
    <3>3. lives[l].start \in Nat /\ lives[l].play \in Nat /\ lives[l].start + lives[l].play <= clock
      BY <1>1, <3>2, RowTimes DEF TimesInv, Fits
    <3> QED
      BY <1>1, <3>1, <3>3, LongestAtLeast
  <2>3. V # {} /\ \A x \in V : x \in 0 .. clock
    BY <1>1, <2>2
  <2>4. Totals(p, AllActive, NoBans).longest \in Nat
    <3>1. AllLives(p, AllActive) \in SUBSET AllLives(p, AllActive)
      OBVIOUS
    <3> QED
      BY <3>1, LongestOf, AllActiveInOrder DEF Totals
  <2>5. \A x \in V : x <= Totals(p, AllActive, NoBans).longest
    BY <2>2, <2>4
  <2> HIDE DEF V
  <2>6. Max(V) \in V
    BY <1>1, <2>3, MaxIsGreatest
  <2> QED
    BY <2>1, <2>5, <2>6
<1>5. Aggregate(p, AllActive).alive => AliveAnywhere(p, AllActive, NoBans)
  <2> SUFFICES ASSUME NEW s \in AggregateOn(p, AllActive), Profile(s, p).alive
               PROVE  AliveAnywhere(p, AllActive, NoBans)
    BY DEF Aggregate
  <2>1. s \in Servers /\ AllActive[s].active /\ NoBans[s] = None
    BY AllActiveInOrder DEF AggregateOn, NoBans
  <2>2. PICK l \in CurrentOf(s, p) : TRUE
    BY <2>1, OpenLifeShown
  <2>3. /\ l \in Survivors(s) /\ l \in DOMAIN lives /\ lives[l].server = s
        /\ lives[l].player = p /\ lives[l].end = None
    BY <2>1, OpenLifeShown DEF BoardOf
  <2>4. LifeQualifiedAt(l) # None
    BY <1>1, <2>3 DEF OpenLivesDiffer
  <2>5. OpenLife(s, p) = {l}
    BY <1>1, <2>3, OpenRows
  <2>6. (CHOOSE m \in OpenLife(s, p) : TRUE) = l
    BY <2>5
  <2>7. Standing(p, s, AllActive, NoBans).state = "alive"
        /\ Standing(p, s, AllActive, NoBans).qualified = (LifeQualifiedAt(l) # None)
    BY <2>1, <2>5, <2>6 DEF Standing
  <2>8. s \in DOMAIN cards /\ cards[s] = Standing(p, s, AllActive, NoBans)
    BY <1>2, <2>1 DEF Cards
  <2> QED
    BY <1>2, <2>4, <2>7, <2>8 DEF AliveAnywhere
<1>6. <<Totals(p, AllActive, NoBans).lives, Totals(p, AllActive, NoBans).deaths>>
        = <<Aggregate(p, AllActive).lives, Aggregate(p, AllActive).deaths>>
  BY CountsAddUp
<1>7. /\ Totals(p, AllActive, NoBans).kills <= Aggregate(p, AllActive).kills
      /\ Aggregate(p, AllActive).kills <=
           Totals(p, AllActive, NoBans).kills + Cardinality(FiredDead(p))
  BY KillsCompare
<1> QED
  BY <1>2, <1>3, <1>4, <1>5, <1>6, <1>7

-----------------------------------------------------------------------------
\* The past lives, a page at a time.

LEMMA FleetsInOrder ==
  ASSUME PagesInv, NEW fleet \in Fleets
  PROVE  OrderlyFleet(fleet)
<1>1. PICK s \in Servers : \E status \in StatusesOf(s) : fleet = [AllActive EXCEPT ![s] = status]
  BY DEF Fleets
<1>2. PICK status \in StatusesOf(s) : fleet = [AllActive EXCEPT ![s] = status]
  BY <1>1
<1>3. Orderly(status) /\ OrderlyFleet(AllActive)
  BY StatusesInOrder, AllActiveInOrder
<1>4. \A t \in Servers : fleet[t] = IF t = s THEN status ELSE AllActive[t]
  BY <1>2 DEF AllActive
<1> QED
  BY <1>3, <1>4 DEF OrderlyFleet

\* A past life ended at some second, and the lives have an order.
LEMMA PastRows ==
  ASSUME PagesInv, NEW p \in DOMAIN players, NEW fleet, OrderlyFleet(fleet)
  PROVE  /\ AllLives(p, fleet) \subseteq DOMAIN lives
         /\ PastLives(p, fleet) \subseteq AllLives(p, fleet)
         /\ \A l \in PastLives(p, fleet) : l \in Nat /\ RowOn(l, fleet).end \in Nat
         /\ IsFiniteSet(PastLives(p, fleet))
<1>1. /\ TypeOK /\ RowsExist /\ OpenRowsAgree /\ NamesInv /\ clock \in Nat
      /\ Len(lives) \in Nat /\ DOMAIN lives = 1 .. Len(lives)
  BY PagesFacts, TableRows
<1>2. \A s \in Servers : LivesOn(p, s, fleet) \subseteq LivesOf(s, p)
  BY DEF LivesOn, PlayerLives
<1>3. ASSUME NEW l \in AllLives(p, fleet)
      PROVE  l \in DOMAIN lives /\ lives[l].server \in Servers
  BY <1>2 DEF AllLives, LivesOf
<1>4. PastLives(p, fleet) \subseteq AllLives(p, fleet)
  BY DEF PastLives
<1>5. ASSUME NEW l \in PastLives(p, fleet)
      PROVE  l \in Nat /\ RowOn(l, fleet).end \in Nat
  <2>1. l \in DOMAIN lives /\ lives[l].server \in Servers /\ RowOn(l, fleet).end # None
    BY <1>3 DEF PastLives
  <2>2. PICK retired : retired = fleet[lives[l].server].retired
    OBVIOUS
  <2>3. retired \in {None} \cup Nat
    BY <1>1, <2>1, <2>2 DEF OrderlyFleet, Orderly
  <2>4. LifeRowFor(l, retired).end = (IF lives[l].end # None \/ retired = None THEN lives[l].end
                                      ELSE retired)
    BY <1>1, <2>1, <2>3, RowShown
  <2>5. lives[l].end # None => lives[l].end \in Nat
    BY <1>1, <2>1, RowTimes
  <2>6. LifeRowFor(l, retired).end # None
    BY <2>1, <2>2 DEF RowOn
  <2>7. LifeRowFor(l, retired).end \in Nat
    BY <2>3, <2>4, <2>5, <2>6
  <2> QED
    BY <1>1, <2>1, <2>2, <2>7 DEF RowOn
<1>6. IsFiniteSet(PastLives(p, fleet))
  BY <1>1, <1>3, <1>4, RowsFinite
<1> QED
  BY <1>3, <1>4, <1>5, <1>6

\* No two past lives have as many ahead of them.
LEMMA AheadApart ==
  ASSUME PagesInv, NEW p \in DOMAIN players, NEW fleet, OrderlyFleet(fleet),
         NEW l \in PastLives(p, fleet)
  PROVE  /\ Cardinality(Ahead(l, p, fleet)) \in 0 .. Cardinality(PastLives(p, fleet)) - 1
         /\ \A m \in PastLives(p, fleet) :
              Cardinality(Ahead(m, p, fleet)) = Cardinality(Ahead(l, p, fleet)) => m = l
<1> DEFINE P == PastLives(p, fleet)
           T(m) == RowOn(m, fleet).end
           A(m) == Ahead(m, p, fleet)
<1>1. IsFiniteSet(P) /\ \A m \in P : m \in Nat /\ T(m) \in Nat
  BY PastRows
<1>2. \A m \in P : A(m) = {k \in P : T(k) > T(m) \/ (T(k) = T(m) /\ k > m)}
  BY DEF Ahead
<1> HIDE DEF P, T, A
<1>3. \A m \in P : A(m) \subseteq P /\ m \notin A(m)
  BY <1>1, <1>2
<1>4. ASSUME NEW m \in P
      PROVE  /\ IsFiniteSet(A(m)) /\ Cardinality(A(m)) \in Nat
             /\ Cardinality(A(m)) <= Cardinality(P) - 1 /\ Cardinality(P) \in Nat
  <2>1. A(m) \subseteq P \ {m}
    BY <1>3
  <2>2. IsFiniteSet(P \ {m}) /\ Cardinality(P \ {m}) = Cardinality(P) - 1
    BY <1>1, FS_RemoveElement
  <2>3. IsFiniteSet(A(m)) /\ Cardinality(A(m)) <= Cardinality(P \ {m})
    BY <2>1, <2>2, FS_Subset
  <2> QED
    BY <1>1, <2>2, <2>3, FS_CardinalityType
<1>5. ASSUME NEW m \in P, NEW k \in P, T(m) > T(k) \/ (T(m) = T(k) /\ m > k)
      PROVE  Cardinality(A(m)) # Cardinality(A(k))
  <2>1. m \in A(k) /\ m \notin A(m)
    BY <1>2, <1>3, <1>5
  <2>2. ASSUME NEW x \in A(m) PROVE x \in A(k)
    <3>1. x \in P /\ (T(x) > T(m) \/ (T(x) = T(m) /\ x > m))
      BY <1>2
    <3>2. T(x) > T(k) \/ (T(x) = T(k) /\ x > k)
      BY <1>1, <1>5, <3>1
    <3> QED
      BY <1>2, <3>1, <3>2
  <2>3. A(m) \in SUBSET A(k) /\ A(m) # A(k)
    BY <2>1, <2>2
  <2> QED
    BY <1>4, <2>3, FS_Subset
<1>6. l \in P
  BY DEF P
<1>7. ASSUME NEW m \in P, m # l
      PROVE  Cardinality(A(m)) # Cardinality(A(l))
  <2>1. \/ T(m) > T(l) \/ (T(m) = T(l) /\ m > l)
        \/ T(l) > T(m) \/ (T(l) = T(m) /\ l > m)
    BY <1>1, <1>6, <1>7
  <2> QED
    BY <1>5, <1>6, <2>1
<1>8. Cardinality(A(l)) \in 0 .. Cardinality(P) - 1
  BY <1>4, <1>6
<1> QED
  BY <1>7, <1>8 DEF P, A

\* Of so many lives, so many to a page, each has a page.
LEMMA PageOfRank ==
  ASSUME NEW N \in Nat, NEW K \in Nat \ {0}, NEW r \in 0 .. N - 1
  PROVE  \E n \in 1 .. N : n <= (N + K - 1) \div K /\ r \in (n - 1) * K .. n * K - 1
<1> DEFINE S == {n \in Nat : r < n * K}
           c == (N + K - 1) \div K
<1>1. c \in Nat /\ N <= c * K
  <2>1. N + K - 1 \in Nat
    OBVIOUS
  <2>2. \A a \in Nat : a \div K \in Nat /\ a < (a \div K) * K + K
    OBVIOUS
  <2>3. c \in Nat /\ N + K - 1 < c * K + K
    BY <2>1, <2>2
  <2>4. PICK d : d = c * K
    OBVIOUS
  <2>5. d \in Int
    BY <2>3, <2>4
  <2> HIDE DEF c
  <2>6. N + K - 1 < d + K
    BY <2>3, <2>4
  <2>7. N <= d
    BY <2>5, <2>6
  <2> QED
    BY <2>3, <2>4, <2>7
<1> HIDE DEF c
<1>2. c \in S
  BY <1>1
<1>3. PICK n \in S : \A m \in S : n <= m
  BY <1>2, LeastNat
<1>4. n \in Nat /\ r < n * K /\ n <= c
  BY <1>2, <1>3
<1>5. n # 0
  <2>1. 0 * K = 0
    OBVIOUS
  <2> QED
    BY <1>4, <2>1
<1>6. n - 1 \in Nat /\ ~(r < (n - 1) * K)
  <2>1. n - 1 \in Nat /\ ~(n <= n - 1)
    BY <1>4, <1>5
  <2> QED
    BY <1>3, <2>1
<1>7. (n - 1) * K \in Int /\ n * K \in Int
  BY <1>4
<1>8. (n - 1) * K <= r /\ r <= n * K - 1
  BY <1>4, <1>6, <1>7
<1>9. n <= N
  <2>1. \A a \in Nat : a <= a * K
    OBVIOUS
  <2>2. n - 1 <= (n - 1) * K
    BY <1>6, <2>1
  <2> QED
    BY <1>4, <1>7, <1>8, <2>2
<1> QED
  BY <1>4, <1>5, <1>7, <1>8, <1>9 DEF c

\* The page served for some page asked for.
ServedPage(p, fleet, n) ==
  Min({n, Max({1, (Cardinality(PastLives(p, fleet)) + PageSize - 1) \div PageSize})})

LEMMA PageServed ==
  ASSUME PagesInv, NEW p \in DOMAIN players, NEW fleet, OrderlyFleet(fleet), NEW n \in Nat \ {0}
  PROVE  /\ PastPage(p, fleet, n) =
              {l \in PastLives(p, fleet) : Cardinality(Ahead(l, p, fleet))
                 \in (ServedPage(p, fleet, n) - 1) * PageSize .. ServedPage(p, fleet, n) * PageSize - 1}
         /\ ServedPage(p, fleet, n) \in Nat \ {0}
         /\ n <= (Cardinality(PastLives(p, fleet)) + PageSize - 1) \div PageSize =>
              ServedPage(p, fleet, n) = n
<1> DEFINE c == (Cardinality(PastLives(p, fleet)) + PageSize - 1) \div PageSize
<1>1. c \in Nat
  <2>1. Cardinality(PastLives(p, fleet)) + PageSize - 1 \in Nat /\ PageSize \in Nat \ {0}
    BY PastRows, FS_CardinalityType, PagesAssumption
  <2> QED
    BY <2>1
<1>2. PastPage(p, fleet, n) =
        {l \in PastLives(p, fleet) : Cardinality(Ahead(l, p, fleet))
           \in (ServedPage(p, fleet, n) - 1) * PageSize .. ServedPage(p, fleet, n) * PageSize - 1}
  BY DEF PastPage, ServedPage
<1>3. ServedPage(p, fleet, n) = Min({n, Max({1, c})})
  BY DEF ServedPage
<1> HIDE DEF c
<1>4. Max({1, c}) \in {1, c} /\ c <= Max({1, c}) /\ 1 <= Max({1, c})
  <2>1. {1, c} \in SUBSET (0 .. c + 1) /\ {1, c} # {} /\ c + 1 \in Nat
    BY <1>1
  <2> QED
    BY <2>1, MaxIsGreatest
<1>5. PICK most : most = Max({1, c})
  OBVIOUS
<1>6. most \in Nat \ {0} /\ c <= most
  BY <1>1, <1>4, <1>5
<1>7. Min({n, most}) \in {n, most} /\ Min({n, most}) <= n /\ Min({n, most}) <= most
  <2>1. {n, most} \in SUBSET Nat /\ {n, most} # {}
    BY <1>6
  <2> QED
    BY <2>1, MinIsLeast
<1>8. Min({n, most}) \in Nat \ {0} /\ (n <= c => Min({n, most}) = n)
  BY <1>1, <1>6, <1>7
<1> QED
  BY <1>2, <1>3, <1>5, <1>8 DEF c

LEMMA PagesHoldThePast ==
  ASSUME PagesInv, NEW p \in DOMAIN players, NEW fleet, OrderlyFleet(fleet)
  PROVE  LET past == PastLives(p, fleet)
         IN  /\ UNION {PastPage(p, fleet, n) : n \in 1 .. Cardinality(past)} = past
             /\ \A n \in 1 .. Cardinality(past) : Cardinality(PastPage(p, fleet, n)) <= PageSize
<1> DEFINE P == PastLives(p, fleet)
           N == Cardinality(P)
<1>1. IsFiniteSet(P) /\ N \in Nat /\ PageSize \in Nat \ {0}
  BY PastRows, FS_CardinalityType, PagesAssumption
<1>2. \A n \in 1 .. N : n \in Nat \ {0} /\ PastPage(p, fleet, n) \subseteq P
  BY <1>1, PageServed
<1>3. ASSUME NEW l \in P
      PROVE  \E n \in 1 .. N : l \in PastPage(p, fleet, n)
  <2>1. PICK r : r = Cardinality(Ahead(l, p, fleet))
    OBVIOUS
  <2>2. r \in 0 .. N - 1
    BY <2>1, AheadApart
  <2>3. PICK n \in 1 .. N : n <= (N + PageSize - 1) \div PageSize
                            /\ r \in (n - 1) * PageSize .. n * PageSize - 1
    BY <1>1, <2>2, PageOfRank
  <2>4. ServedPage(p, fleet, n) = n
    BY <1>1, <2>3, PageServed
  <2> QED
    BY <1>2, <2>1, <2>3, <2>4, PageServed
<1>4. ASSUME NEW n \in 1 .. N
      PROVE  Cardinality(PastPage(p, fleet, n)) <= PageSize
  <2> DEFINE S == PastPage(p, fleet, n)
             k == ServedPage(p, fleet, n)
             a == (k - 1) * PageSize
             T == a .. a + PageSize - 1
             f == [l \in S |-> Cardinality(Ahead(l, p, fleet))]
  <2>1. k \in Nat \ {0} /\ a \in Int /\ k * PageSize = a + PageSize
    BY <1>1, <1>2, PageServed
  <2>2. \A l \in S : l \in P /\ Cardinality(Ahead(l, p, fleet)) \in a .. k * PageSize - 1
    BY <1>2, PageServed
  <2>3. ASSUME NEW l \in S PROVE f[l] \in T
    <3>1. PICK r : r = Cardinality(Ahead(l, p, fleet))
      OBVIOUS
    <3>2. PICK b : b = k * PageSize
      OBVIOUS
    <3>3. r \in a .. b - 1 /\ b = a + PageSize
      BY <2>1, <2>2, <3>1, <3>2
    <3>4. r \in T
      <4> HIDE DEF a
      <4>1. a \in Int /\ PageSize \in Nat
        BY <1>1, <2>1
      <4> QED
        BY <3>3, <4>1
    <3> HIDE DEF S, T
    <3> QED
      BY <3>1, <3>4
  <2>4. \A l, m \in S : f[l] = f[m] => l = m
    BY <2>2, AheadApart
  <2>5. f \in [S -> T]
    BY <2>3
  <2> HIDE DEF S, T, f
  <2>6. f \in Injection(S, T)
    BY <2>4, <2>5 DEF Injection, IsInjective
  <2>7. IsFiniteSet(T) /\ Cardinality(T) = PageSize
    <3>1. a + PageSize - 1 \in Int /\ (a + PageSize - 1) - a + 1 = PageSize /\ a <= a + PageSize - 1
      BY <1>1, <2>1
    <3> HIDE DEF a
    <3>2. PICK b : b = a + PageSize - 1
      OBVIOUS
    <3>3. a \in Int /\ b \in Int /\ a <= b /\ b - a + 1 = PageSize
      BY <2>1, <3>1, <3>2
    <3>4. IsFiniteSet(a .. b) /\ Cardinality(a .. b) = PageSize
      BY <3>3, FS_Interval
    <3> QED
      BY <3>2, <3>4 DEF T
  <2>8. Cardinality(S) <= Cardinality(T)
    BY <2>6, <2>7, FS_Injection
  <2> QED
    BY <2>7, <2>8 DEF S
<1>5. UNION {PastPage(p, fleet, n) : n \in 1 .. N} \subseteq P
  BY <1>2
<1>6. P \subseteq UNION {PastPage(p, fleet, n) : n \in 1 .. N}
  BY <1>3
<1> QED
  BY <1>4, <1>5, <1>6

-----------------------------------------------------------------------------
\* The headline, and the pages together.

\* The headline's two counts: the ended lives of every player, the boards of the
\* active servers.
GoneOf(fleet) == [p \in DOMAIN players |-> Deaths(AllLives(p, fleet))]
GoneCounts(fleet) == [p \in DOMAIN players |-> [dur |-> Cardinality(Deaths(AllLives(p, fleet)))]]
Boards == [s \in Servers |-> Survivors(s)]
BoardCounts == [s \in Servers |-> [dur |-> Cardinality(Survivors(s))]]

LEMMA SumOfGone ==
  ASSUME NEW fleet
  PROVE  LET HasGone(p) == Cardinality(Deaths(AllLives(p, fleet)))
         IN  MapThenSumSet(HasGone, DOMAIN players)
               = (CHOOSE h : TimesUp(h, GoneCounts(fleet), DOMAIN players))[DOMAIN players]
<1> DEFINE w == GoneCounts(fleet)
           S == DOMAIN players
           HasGone(p) == Cardinality(Deaths(AllLives(p, fleet)))
<1>1. MapThenSumSet(HasGone, S)
        = (CHOOSE h : h = [t \in SUBSET S |->
             IF t = {} THEN 0 ELSE HasGone(AnyOf(t)) + h[t \ {AnyOf(t)}]])[S]
  BY DEF MapThenSumSet, MapThenFoldSet, AnyOf
<1>2. ASSUME NEW h
      PROVE  (h = [t \in SUBSET S |-> IF t = {} THEN 0
                     ELSE HasGone(AnyOf(t)) + h[t \ {AnyOf(t)}]])
             <=> TimesUp(h, w, S)
  <2>1. ASSUME NEW t \in SUBSET S, t # {}
        PROVE  w[AnyOf(t)].dur = HasGone(AnyOf(t))
    <3>1. AnyOf(t) \in S
      BY <2>1 DEF AnyOf
    <3> QED
      BY <3>1 DEF GoneCounts
  <2>2. [t \in SUBSET S |-> IF t = {} THEN 0
                     ELSE HasGone(AnyOf(t)) + h[t \ {AnyOf(t)}]]
        = [t \in SUBSET S |-> IF t = {} THEN 0 ELSE w[AnyOf(t)].dur + h[t \ {AnyOf(t)}]]
    BY <2>1
  <2> QED
    BY <2>2 DEF TimesUp
<1> HIDE DEF w
<1>3. (CHOOSE h : h = [t \in SUBSET S |->
             IF t = {} THEN 0 ELSE HasGone(AnyOf(t)) + h[t \ {AnyOf(t)}]])
      = CHOOSE h : TimesUp(h, w, S)
  BY <1>2
<1> QED
  BY <1>1, <1>3 DEF w

LEMMA SumOfBoards ==
  ASSUME NEW S \in SUBSET Servers
  PROVE  MapThenSumSet(LAMBDA s : Cardinality(Survivors(s)), S)
           = (CHOOSE h : TimesUp(h, BoardCounts, S))[S]
<1> DEFINE w == BoardCounts
<1>1. MapThenSumSet(LAMBDA s : Cardinality(Survivors(s)), S)
        = (CHOOSE h : h = [t \in SUBSET S |->
             IF t = {} THEN 0 ELSE Cardinality(Survivors(AnyOf(t))) + h[t \ {AnyOf(t)}]])[S]
  BY DEF MapThenSumSet, MapThenFoldSet, AnyOf
<1>2. ASSUME NEW h
      PROVE  (h = [t \in SUBSET S |-> IF t = {} THEN 0
                     ELSE Cardinality(Survivors(AnyOf(t))) + h[t \ {AnyOf(t)}]])
             <=> TimesUp(h, w, S)
  <2>1. ASSUME NEW t \in SUBSET S, t # {}
        PROVE  w[AnyOf(t)].dur = Cardinality(Survivors(AnyOf(t)))
    <3>1. AnyOf(t) \in Servers
      BY <2>1 DEF AnyOf
    <3> QED
      BY <3>1 DEF BoardCounts
  <2>2. [t \in SUBSET S |-> IF t = {} THEN 0
                     ELSE Cardinality(Survivors(AnyOf(t))) + h[t \ {AnyOf(t)}]]
        = [t \in SUBSET S |-> IF t = {} THEN 0 ELSE w[AnyOf(t)].dur + h[t \ {AnyOf(t)}]]
    BY <2>1
  <2> QED
    BY <2>2 DEF TimesUp
<1> HIDE DEF w
<1>3. (CHOOSE h : h = [t \in SUBSET S |->
             IF t = {} THEN 0 ELSE Cardinality(Survivors(AnyOf(t))) + h[t \ {AnyOf(t)}]])
      = CHOOSE h : TimesUp(h, w, S)
  BY <1>2
<1> QED
  BY <1>1, <1>3 DEF w

LEMMA HeadlineDeaths ==
  ASSUME PagesInv, NEW fleet, OrderlyFleet(fleet)
  PROVE  LET HasGone(p) == Cardinality(Deaths(AllLives(p, fleet)))
         IN  MapThenSumSet(HasGone, DOMAIN players) <= SiteStats(fleet).deaths
<1> DEFINE HasGone(p) == Cardinality(Deaths(AllLives(p, fleet)))
           F == GoneOf(fleet)
           S == DOMAIN players
           ended == {l \in DOMAIN lives : lives[l].end # None}
<1>1. TypeOK /\ Len(players) \in Nat /\ S = 1 .. Len(players)
  BY PagesFacts, TableRows
<1>2. IsFiniteSet(S)
  BY <1>1, FS_Interval
<1>3. ASSUME NEW p \in S
      PROVE  /\ F[p] = Deaths(AllLives(p, fleet)) /\ F[p] \subseteq ended
             /\ \A l \in F[p] : lives[l].player = p
             /\ IsFiniteSet(F[p])
  <2>1. F[p] = Deaths(AllLives(p, fleet))
    BY DEF GoneOf
  <2>2. \A l \in AllLives(p, fleet) : l \in DOMAIN lives /\ lives[l].player = p
    BY DEF AllLives, LivesOn, PlayerLives, LivesOf
  <2>3. F[p] \subseteq ended /\ \A l \in F[p] : lives[l].player = p
    BY <2>1, <2>2 DEF Deaths
  <2>4. IsFiniteSet(F[p])
    BY <1>1, <2>3, RowsFinite
  <2> QED
    BY <2>1, <2>3, <2>4
<1> HIDE DEF F
<1>4. Parts(F, S)
  <2>1. ASSUME NEW p \in S, NEW q \in S, p # q PROVE F[p] \cap F[q] = {}
    BY <1>3, <2>1
  <2> QED
    BY <1>3, <2>1 DEF Parts
<1>5. Whole(F, S) \subseteq ended
  BY <1>3 DEF Whole
<1>6. Cardinality(Whole(F, S)) <= Cardinality(ended)
  <2>1. IsFiniteSet(ended)
    BY <1>1, RowsFinite
  <2> QED
    BY <1>5, <2>1, FS_Subset
<1>7. MapThenSumSet(HasGone, S) = (CHOOSE h : TimesUp(h, GoneCounts(fleet), S))[S]
  BY SumOfGone
<1>8. (CHOOSE h : TimesUp(h, GoneCounts(fleet), S))[S] = Cardinality(Whole(F, S))
  <2>1. \A p \in S : GoneCounts(fleet)[p].dur = Cardinality(F[p])
    BY <1>3 DEF GoneCounts
  <2> QED
    BY <1>2, <1>4, <2>1, PartsCount
<1>9. SiteStats(fleet).deaths = Cardinality(ended)
  BY DEF SiteStats
<1>10. PICK c : c = (CHOOSE h : TimesUp(h, GoneCounts(fleet), S))[S]
  OBVIOUS
<1>11. c <= SiteStats(fleet).deaths
  BY <1>6, <1>8, <1>9, <1>10
<1>12. MapThenSumSet(HasGone, S) = c
  BY <1>7, <1>10
<1> QED
  BY <1>11, <1>12

LEMMA HeadlineAlive ==
  ASSUME PagesInv, NEW fleet
  PROVE  SiteStats(fleet).alive <= Cardinality({l \in DOMAIN lives : lives[l].end = None})
<1> DEFINE S == {s \in Servers : fleet[s].active}
           open == {l \in DOMAIN lives : lives[l].end = None}
<1>1. TypeOK
  BY PagesFacts
<1>2. IsFiniteSet(S) /\ S \in SUBSET Servers
  BY PagesAssumption, FS_Subset
<1> HIDE DEF S
<1>3. \A s \in S : Boards[s] = Survivors(s) /\ BoardCounts[s].dur = Cardinality(Survivors(s))
  BY <1>2 DEF Boards, BoardCounts
<1>4. \A s \in S : Boards[s] \subseteq open /\ \A l \in Boards[s] : lives[l].server = s
  BY <1>3 DEF Survivors
<1>5. IsFiniteSet(open)
  BY <1>1, RowsFinite
<1>6. Parts(Boards, S)
  <2>1. \A s \in S : IsFiniteSet(Boards[s])
    BY <1>4, <1>5, FS_Subset
  <2>2. \A s, t \in S : s # t => Boards[s] \cap Boards[t] = {}
    BY <1>4
  <2> QED
    BY <2>1, <2>2 DEF Parts
<1>7. Cardinality(Whole(Boards, S)) <= Cardinality(open)
  <2>1. Whole(Boards, S) \subseteq open
    BY <1>4 DEF Whole
  <2> QED
    BY <1>5, <2>1, FS_Subset
<1>8. SiteStats(fleet).alive = MapThenSumSet(LAMBDA s : Cardinality(Survivors(s)), S)
  BY DEF SiteStats, S
<1>9. MapThenSumSet(LAMBDA s : Cardinality(Survivors(s)), S) = (CHOOSE h : TimesUp(h, BoardCounts, S))[S]
  BY <1>2, SumOfBoards
<1>10. (CHOOSE h : TimesUp(h, BoardCounts, S))[S] = Cardinality(Whole(Boards, S))
  BY <1>2, <1>3, <1>6, PartsCount
<1>11. SiteStats(fleet).alive = Cardinality(Whole(Boards, S))
  BY <1>8, <1>9, <1>10
<1> QED
  BY <1>7, <1>11

\* A life that counts goes on counting while no server was retired in the past.
LEMMA CountedStays ==
  ASSUME PagesInv, NEW p \in DOMAIN players, NEW fleet,
         \A s \in Servers : fleet[s].retired \in {None, clock}
  PROVE  /\ AllLives(p, AllActive) \subseteq AllLives(p, fleet)
         /\ AllLives(p, AllActive) # {} => PageExists(p, fleet, NoBans)
<1>1. AllLives(p, AllActive) \subseteq AllLives(p, fleet)
  <2> SUFFICES ASSUME NEW s \in Servers
               PROVE  LivesOn(p, s, AllActive) \subseteq LivesOn(p, s, fleet)
    BY DEF AllLives
  <2>1. LivesOn(p, s, AllActive) = PlayerLives(s, p, None)
    BY AllActiveInOrder DEF LivesOn
  <2>2. PlayerLives(s, p, None) \subseteq PlayerLives(s, p, clock)
    BY RetiredNow
  <2>3. fleet[s].retired = None \/ fleet[s].retired = clock
    OBVIOUS
  <2> QED
    BY <2>1, <2>2, <2>3 DEF LivesOn
<1> QED
  BY <1>1 DEF PageExists

LEMMA HistoryPart == PagesInv => HistoryStays
<1> SUFFICES ASSUME PagesInv PROVE HistoryStays
  OBVIOUS
<1>1. ASSUME NEW p \in DOMAIN players, NEW fleet \in Fleets
      PROVE  LET counted == AllLives(p, AllActive)
                 fired == {k \in kills : k.killer = p} \ FiredDead(p)
                 totals == Totals(p, fleet, NoBans)
                 past == PastLives(p, fleet)
             IN  /\ fired \subseteq PageKills(p, fleet, NoBans)
                 /\ totals.previousBest <= totals.longest
                 /\ (\A s \in Servers : fleet[s].retired \in {None, clock}) =>
                      /\ counted \subseteq AllLives(p, fleet)
                      /\ counted # {} => PageExists(p, fleet, NoBans)
                 /\ UNION {PastPage(p, fleet, n) : n \in 1 .. Cardinality(past)} = past
                 /\ \A n \in 1 .. Cardinality(past) :
                      Cardinality(PastPage(p, fleet, n)) <= PageSize
  <2>1. OrderlyFleet(fleet)
    BY FleetsInOrder
  <2>2. {k \in kills : k.killer = p} \ FiredDead(p) \subseteq PageKills(p, fleet, NoBans)
    BY <2>1, KillsOnPage
  <2>3. Totals(p, fleet, NoBans).previousBest <= Totals(p, fleet, NoBans).longest
    <3>1. PastLives(p, fleet) \in SUBSET AllLives(p, fleet)
      BY <2>1, PastRows
    <3> QED
      BY <2>1, <3>1, LongestOf DEF Totals
  <2>4. (\A s \in Servers : fleet[s].retired \in {None, clock}) =>
          /\ AllLives(p, AllActive) \subseteq AllLives(p, fleet)
          /\ AllLives(p, AllActive) # {} => PageExists(p, fleet, NoBans)
    BY CountedStays
  <2>5. /\ UNION {PastPage(p, fleet, n) : n \in 1 .. Cardinality(PastLives(p, fleet))}
             = PastLives(p, fleet)
        /\ \A n \in 1 .. Cardinality(PastLives(p, fleet)) :
             Cardinality(PastPage(p, fleet, n)) <= PageSize
    BY <2>1, PagesHoldThePast
  <2> QED
    BY <2>2, <2>3, <2>4, <2>5
<1>2. ASSUME NEW fleet \in Fleets
      PROVE  LET stats == SiteStats(fleet)
                 HasGone(p) == Cardinality(Deaths(AllLives(p, fleet)))
             IN  /\ MapThenSumSet(HasGone, DOMAIN players) <= stats.deaths
                 /\ stats.alive <= Cardinality({l \in DOMAIN lives : lives[l].end = None})
  <2>1. OrderlyFleet(fleet)
    BY FleetsInOrder
  <2> QED
    BY <2>1, HeadlineDeaths, HeadlineAlive
<1> QED
  BY <1>1, <1>2 DEF HistoryStays

\* Whatever a server's status, the pages of the site show every player alike:
\* the cards, the boards, the aggregate, the life pages and the headline count the
\* same lives, times, kills and qualification, and no page loses anyone's history
\* (getPlayerPage, getSiteStats, getLifeDetail and the queries they share).
THEOREM PagesTrue == MaxLag = 0 => (SiteSpec => []PagesAgree)
<1> SUFFICES ASSUME MaxLag = 0 PROVE SiteSpec => []PagesAgree
  OBVIOUS
<1>0. SiteInit => PagesInv
  BY PagesInit DEF SiteInit
<1>1. [SiteNext]_siteVars => [Next]_vars
  BY DEF SiteNext, siteVars
<1>2. PagesInv /\ [Next]_vars => PagesInv'
  BY PagesStep
<1>3. PagesInv => PagesAgree
  BY QueriesPart, CardsPart, HistoryPart, AddUpPart, BannedPart, OnlinePart DEF PagesAgree
<1> QED
  BY <1>0, <1>1, <1>2, <1>3, PTL DEF SiteSpec

=============================================================================
