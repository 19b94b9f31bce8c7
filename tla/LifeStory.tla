------------------------------ MODULE LifeStory -----------------------------
(***************************************************************************)
(* What the record makes of one life and its end.  Lines tell of wounds,   *)
(* knockouts, positions and the death; from their rows the site infers what*)
(* killed the player (packages/domain, classifyDeath), collapses wounds    *)
(* into encounters and ordeals (read-models, life-dossier.ts), draws the   *)
(* way the player went (life-track.ts), and the newsdesk writes an obituary*)
(* whose facts stay as they were then (apps/newsdesk, facts.ts, prompt.ts).*)
(*                                                                         *)
(* Time is in minutes, which is as fine as the windows.  The life begins   *)
(* with a login at minute 0; its rows are found by the player, so that no  *)
(* name matters here.  Of a label only what it is told apart by is kept.   *)
(* Queries return ids: of wounds and of fixes, which stand in the order of *)
(* their times.                                                            *)
(***************************************************************************)
EXTENDS Integers, Sequences, FiniteSets, FiniteSetsExt

CONSTANTS
  Shooters,     \* gamertags of players who hit this one
  Wounds,       \* what hit lines may say: who by, and what health was left
  Endings,      \* what death lines may say
  Blank,        \* SQL null
  Window,       \* RECENT_HIT_WINDOW_S
  Gap,          \* ENCOUNTER_GAP_S
  MarkerAge,    \* MARKER_MAX_AGE_SECONDS
  Grace,        \* QUALIFY_SECONDS
  TrackCap,     \* TRACK_POINT_CAP
  MaxMinute,    \* bound
  MaxFacts,     \* bound: wounds, knockouts, shots, fixes and logins after the first
  Followed      \* bound: of "wounds" (and knockouts) and "way", one at a time

\* Labels: infected, a fall, fire, a wolf as hit lines name it and as death
\* lines do, anything else.
Labels == {"infected", "fall", "fire", "wolf", "Animal_wolf", "trap"}
EntityMechanisms == {"wolf", "bear", "animal", "infected", "fall", "vehicle", "explosion"}
\* The energy, water and bleeding of a line, as far as they decide.
DeathLine == [mechanism : {"pvp", "suicide", "bled_out", "drowned", "environment", "died"}
                            \cup EntityMechanisms,
              starving : BOOLEAN, dry : BOOLEAN, bleeding : BOOLEAN]

Healths == {0, 1, 50, Blank}   \* gone, nearly gone, hurt, not told

ASSUME StoryAssumption ==
  /\ {Window, Gap, MarkerAge, MaxMinute, MaxFacts} \subseteq Nat
  /\ TrackCap \in Nat \ {0, 1} /\ Grace \in Nat \ {0} /\ Window <= Gap
  /\ Shooters \cap Labels = {} /\ Wounds \subseteq [by : Shooters \cup Labels, hp : Healths]
  /\ Endings \subseteq DeathLine /\ Blank \notin Nat \cup Endings
  /\ Followed \subseteq {"wounds", "way"}

VARIABLES
  minute,
  followed,    \* what this run follows: lines of the other kind it leaves out
  wounds,      \* hit_events, in the order of their ids
  knockouts,   \* unconscious_events
  fixes,       \* positions
  shots,       \* kills
  stints,      \* sessions of this life
  heartbeat,   \* players.last_seen_at
  end,         \* the death: its minute and line
  closed,      \* servers.retired_at
  article      \* the obituary: the facts frozen with it

storyVars ==
  <<minute, followed, wounds, knockouts, fixes, shots, stints, heartbeat, end, closed, article>>

Minutes == 0 .. MaxMinute
Spots == {0, 2}                \* far from each other
WoundRow == [at : Minutes, by : Shooters \cup Labels, hp : Healths]
FixRow == [at : Minutes, spot : Spots]
StintRow == [from : Minutes, to : Minutes \cup {Blank}]

CauseNames == {"pvp", "suicide", "starvation", "dehydration", "bled_out", "mauled",
            "environmental", "unknown"} \cup EntityMechanisms
VerdictOf == [cause : CauseNames, confidence : {"high", "low"},
              conditions : SUBSET {"starving", "dehydrated", "hunted", "bleeding",
                                   "drowned", "healthy"}]

StoryTypeOK ==
  /\ minute \in Minutes /\ followed \in Followed
  /\ wounds \in Seq(WoundRow) /\ knockouts \subseteq Minutes
  /\ fixes \in Seq(FixRow) /\ shots \subseteq Minutes /\ stints \in Seq(StintRow)
  /\ heartbeat \in Minutes
  /\ end = Blank \/ end \in [at : Minutes, line : Endings]
  /\ closed \in Minutes \cup {Blank}
  /\ article = Blank \/ article.verdict \in VerdictOf

StoryInit ==
  /\ minute = 0 /\ followed \in Followed
  /\ wounds = <<>> /\ knockouts = {} /\ fixes = <<>> /\ shots = {}
  /\ stints = <<[from |-> 0, to |-> Blank]>> /\ heartbeat = 0
  /\ end = Blank /\ closed = Blank /\ article = Blank

-----------------------------------------------------------------------------
\* The lines and their rows.

Facts ==
  Len(wounds) + Len(fixes) + Cardinality(knockouts) + Cardinality(shots) + Len(stints) - 1
LoggedIn == stints[Len(stints)].to = Blank
Told(kind) == followed = kind /\ closed = Blank /\ Facts < MaxFacts

Elapses ==
  /\ minute < MaxMinute /\ minute' = minute + 1
  /\ UNCHANGED <<followed, wounds, knockouts, fixes, shots, stints, heartbeat, end, closed, article>>

\* What a hit line says; the attacker is a player, infected, or a label.
HitLine(by, hp) == [by |-> by, hp |-> hp]
HitRow(line) == [at |-> minute, by |-> line.by, hp |-> line.hp]

\* A hit line; of a corpse too, in the minute of the death and after it.
IsHit(line) ==
  /\ Told("wounds") /\ (LoggedIn \/ end # Blank)
  /\ wounds' = Append(wounds, HitRow(line))
  /\ UNCHANGED <<minute, followed, knockouts, fixes, shots, stints, heartbeat, end, closed, article>>

\* An unconscious line; one about a corpse is no knockout.
TellsOfKnockout == LoggedIn /\ end = Blank
FallsUnconscious ==
  /\ Told("wounds") /\ TellsOfKnockout
  /\ knockouts' = knockouts \cup {minute}
  /\ UNCHANGED <<minute, followed, wounds, fixes, shots, stints, heartbeat, end, closed, article>>

\* A position is a heartbeat, a kill is none.
IsSeenAt(spot) ==
  /\ Told("way") /\ LoggedIn
  /\ fixes' = Append(fixes, [at |-> minute, spot |-> spot])
  /\ heartbeat' = minute
  /\ UNCHANGED <<minute, followed, wounds, knockouts, shots, stints, end, closed, article>>
Shoots ==
  /\ Told("way") /\ LoggedIn
  /\ shots' = shots \cup {minute}
  /\ UNCHANGED <<minute, followed, wounds, knockouts, fixes, stints, heartbeat, end, closed, article>>

\* A session closed by its own line, or by a reboot: no later than the heartbeat.
StintsClosedAt(t) == [stints EXCEPT ![Len(stints)].to = t]
LogsOut ==
  /\ closed = Blank /\ LoggedIn
  /\ stints' = StintsClosedAt(minute) /\ heartbeat' = minute
  /\ UNCHANGED <<minute, followed, wounds, knockouts, fixes, shots, end, closed, article>>
IsRebooted ==
  /\ followed = "way" /\ closed = Blank /\ LoggedIn
  /\ stints' = StintsClosedAt(heartbeat)
  /\ UNCHANGED <<minute, followed, wounds, knockouts, fixes, shots, heartbeat, end, closed, article>>
LogsIn ==
  /\ closed = Blank /\ end = Blank /\ ~LoggedIn /\ Facts < MaxFacts
  /\ stints' = Append(stints, [from |-> minute, to |-> Blank]) /\ heartbeat' = minute
  /\ UNCHANGED <<minute, followed, wounds, knockouts, fixes, shots, end, closed, article>>

Perishes(line) ==
  /\ closed = Blank /\ end = Blank /\ LoggedIn
  /\ end' = [at |-> minute, line |-> line]
  /\ stints' = StintsClosedAt(minute)
  /\ UNCHANGED <<minute, followed, wounds, knockouts, fixes, shots, heartbeat, closed, article>>

\* The server is retired: no line any more, and the open life ends with it.
ServerRetires ==
  /\ closed = Blank /\ closed' = minute
  /\ UNCHANGED <<minute, followed, wounds, knockouts, fixes, shots, stints, heartbeat, end, article>>

-----------------------------------------------------------------------------
\* classifyDeath

Hits(ids) == {wounds[i] : i \in ids}
InWindow(at, t) == at <= t /\ t - at <= Window

\* What a stated mechanism explains, it explains for good.
Stated(d, base) ==
  LET healthy == IF base = {} THEN {"healthy"} ELSE base
      Sure(cause, conditions) ==
        [cause |-> cause, confidence |-> "high", conditions |-> conditions]
  IN  CASE d.mechanism = "bled_out" -> Sure("bled_out", base \cup {"bleeding"})
        [] d.mechanism = "drowned" -> Sure("environmental", base \cup {"drowned"})
        [] d.mechanism = "environment" -> Sure("environmental", healthy)
        [] OTHER -> Sure(d.mechanism, healthy)

KnockoutCause(by) ==
  CASE by \in Shooters -> "pvp"
    [] by = "infected" -> "mauled"
    [] by = "fall" -> "fall"
    [] by \in {"wolf", "Animal_wolf"} -> "wolf"
    [] OTHER -> "environmental"

\* Of the hits up to the last knockout the one that left least.
DownedBy(recent, knocked) ==
  LET before == {i \in recent : /\ wounds[i].hp # Blank
                                /\ knocked # {} /\ wounds[i].at <= Max(knocked)}
      least == {i \in before : \A j \in before : wounds[i].hp <= wounds[j].hp}
  IN  IF before = {} THEN {} ELSE {wounds[Min(least)].by}

\* Faulty variant of Mauled: any hit may have left nothing.
MauledByAny(d, recent, knocked) ==
  /\ \E h \in Hits(recent) : h.by = "infected"
  /\ d.bleeding \/ knocked # {} \/ \E h \in Hits(recent) : h.hp \in {0, 1}

\* Hunted, and more: bleeding, knocked out, or left with nothing by infected.
Mauled(d, recent, knocked) ==
  /\ \E h \in Hits(recent) : h.by = "infected"
  /\ d.bleeding \/ knocked # {} \/ \E h \in Hits(recent) : h.by = "infected" /\ h.hp \in {0, 1}

\* A bare "died": what the last minutes say, the strongest evidence first.
Inferred(d, base, recent, knocked) ==
  LET healthy == IF base = {} THEN {"healthy"} ELSE base
      worn == IF d.bleeding THEN base \cup {"bleeding"} ELSE healthy
      Says(cause, confidence, conditions) ==
        [cause |-> cause, confidence |-> confidence, conditions |-> conditions]
      doubted == IF recent = {} THEN "high" ELSE "low"
      downedBy == DownedBy(recent, knocked)
  IN  IF \E h \in Hits(recent) : h.by = "fall" /\ h.hp = 0 THEN Says("fall", "high", healthy)
      ELSE IF d.starving THEN Says("starvation", doubted, base)
      ELSE IF d.dry THEN Says("dehydration", doubted, base)
      ELSE IF downedBy # {}
      THEN Says(KnockoutCause(CHOOSE by \in downedBy : TRUE), "high", worn)
      ELSE IF Mauled(d, recent, knocked) THEN Says("mauled", "high", worn)
      ELSE IF d.bleeding /\ recent # {} THEN Says("bled_out", "high", base \cup {"bleeding"})
      ELSE Says("unknown", "low", healthy)

ClassifyDeath(d, recent, knocked) ==
  LET base == {c \in {"starving", "dehydrated", "hunted"} :
                 \/ c = "starving" /\ d.starving
                 \/ c = "dehydrated" /\ d.dry
                 \/ c = "hunted" /\ \E h \in Hits(recent) : h.by = "infected"}
  IN  IF d.mechanism = "died" THEN Inferred(d, base, recent, knocked) ELSE Stated(d, base)

-----------------------------------------------------------------------------
\* The dossier of a life that ended by a death, and its verdict.

RecentHits(t) == {i \in DOMAIN wounds : InWindow(wounds[i].at, t)}
RecentKnockouts(t) == {k \in knockouts : InWindow(k, t)}
DossierVerdict == ClassifyDeath(end.line, RecentHits(end.at), RecentKnockouts(end.at))

\* summarizeEncounters: ticks no further apart than Gap are one run-in.
Openings(S) == {i \in S : \A j \in S : j < i => wounds[i].at - wounds[j].at > Gap}
Runs(S) ==
  {{j \in S : i <= j /\ \A k \in Openings(S) : i < k => j < k} : i \in Openings(S)}
SummarizeEncounters(S) ==
  [encounters |-> Cardinality(Openings(S)), hits |-> Cardinality(S),
   worst |-> Max({0} \cup {Cardinality(run) : run \in Runs(S)})]

LowestOf(S) == LET told == {h.hp : h \in S} \ {Blank} IN IF told = {} THEN Blank ELSE Min(told)

Dossier(t) ==
  LET hits == {i \in DOMAIN wounds : wounds[i].at <= t}
      Ordeal(S) == SummarizeEncounters({i \in hits : wounds[i].by \in S})
  IN  [fire |-> Ordeal({"fire"}), infected |-> Ordeal({"infected"}), pvp |-> Ordeal(Shooters),
       hpLow |-> LowestOf(Hits(hits)), sessions |-> Len(stints)]

\* encountersForLife: runs per attacker.  The window of an open life ends with
\* the heartbeat, that of one cut short by the server with the server.
EncounterKey(by) ==
  CASE by \in Shooters \cup {"fire", "infected"} -> by
    [] by = "Animal_wolf" -> "wolf"
    [] OTHER -> "environment"
LifeEnd == IF end # Blank THEN end.at ELSE closed
EncounterWindow == IF LifeEnd # Blank THEN LifeEnd ELSE heartbeat

\* Faulty variant of Suppressed: by where the run began.
SuppressedByStart(run) == LifeEnd # Blank /\ LifeEnd - wounds[Min(run)].at <= Window

\* The death row tells of those already.
Suppressed(run) == LifeEnd # Blank /\ LifeEnd - wounds[Max(run)].at <= Window

InLife == {i \in DOMAIN wounds : wounds[i].at <= EncounterWindow}
RunsOf(key) == Runs({i \in InLife : EncounterKey(wounds[i].by) = key})
Keys == {EncounterKey(h.by) : h \in Hits(InLife)}
AllRuns == UNION {RunsOf(key) : key \in Keys}
EncounterOf(run) ==
  LET first == wounds[Min(run)]
  IN  [category |-> EncounterKey(first.by), from |-> first.at,
       lasted |-> wounds[Max(run)].at - first.at, hits |-> Cardinality(run),
       hpLow |-> LowestOf(Hits(run))]
EncountersForLife == {EncounterOf(run) : run \in {r \in AllRuns : ~Suppressed(r)}}

-----------------------------------------------------------------------------
\* getLifeTrack

RetirementStop == IF heartbeat < closed THEN heartbeat ELSE closed
TrackEnd ==
  IF end # Blank THEN end.at ELSE IF closed # Blank THEN RetirementStop ELSE heartbeat
Windows ==
  [i \in DOMAIN stints |->
     [from |-> stints[i].from,
      to |-> IF stints[i].to # Blank THEN stints[i].to
             ELSE Max({TrackEnd, stints[i].from})]]

Far(p, q) == fixes[p].spot - fixes[q].spot \in {-2, 2}

\* Points near the last one kept are dropped, except the last.  keptBy[n] is the
\* last point kept of those up to n.
ThinTrack(points) ==
  LET last == Max(points)
      keptBy[n \in 0 .. last] ==
        IF n = 0 THEN 0
        ELSE IF n \in points /\ (keptBy[n - 1] = 0 \/ Far(keptBy[n - 1], n)) THEN n
        ELSE keptBy[n - 1]
      kept == {n \in points : keptBy[n] = n} \cup {last}
  IN  IF points = {} THEN {}
      ELSE IF Cardinality(kept) <= TrackCap THEN kept
      ELSE {n \in kept : Cardinality({m \in kept : m < n}) < TrackCap - 1} \cup {last}

RawTrack == {p \in DOMAIN fixes : fixes[p].at <= TrackEnd}
SegmentBySession ==
  LET drawn == ThinTrack(RawTrack)
      Inside(i) == {p \in drawn : Windows[i].from <= fixes[p].at /\ fixes[p].at <= Windows[i].to}
  IN  [i \in {j \in DOMAIN stints : Inside(j) # {}} |-> Inside(i)]

\* The last fix at or before the event, unless it is too old to tell.
MarkerAt(points, kind, at) ==
  LET known == {p \in points : fixes[p].at <= at}
      best == fixes[Min({p \in known : \A q \in known : fixes[q].at <= fixes[p].at})]
  IN  IF known = {} \/ at - best.at > MarkerAge THEN {}
      ELSE {[kind |-> kind, at |-> at, sample |-> best]}

TerminalMarker ==
  IF end # Blank THEN MarkerAt(RawTrack, "death", end.at)
  ELSE IF closed # Blank \/ RawTrack = {} THEN {}
  ELSE MarkerAt(RawTrack, "now", fixes[Max(RawTrack)].at)
Markers ==
  (UNION {MarkerAt(RawTrack, "kill", t) : t \in {k \in shots : k <= TrackEnd}})
    \cup TerminalMarker

-----------------------------------------------------------------------------
\* getLifeTimeline and buildTimeline: the rows of the life page.  Each stands
\* at an instant and is labelled with the time played by then.

\* The end of a session as the page knows it; a crashed player's is the heartbeat.
SessionStop(i) ==
  IF stints[i].to # Blank THEN stints[i].to
  ELSE IF closed # Blank THEN RetirementStop ELSE heartbeat
SessionPlay(i) == Max({0, SessionStop(i) - stints[i].from})

PlayedSecondsAt(t) ==
  LET Share(i) == Max({0, Min({t, SessionStop(i)}) - stints[i].from})
  IN  MapThenSumSet(Share, DOMAIN stints)

\* lives.playtime_seconds: what the sessions that are closed were credited with.
StoredPlaytime ==
  MapThenSumSet(SessionPlay, {i \in DOMAIN stints : stints[i].to # Blank})

\* The hero's time: as stored for the dead, else with the open session.
LiveTimeAlive == StoredPlaytime + (IF LoggedIn THEN SessionPlay(Len(stints)) ELSE 0)
HeroTime == IF end # Blank THEN StoredPlaytime ELSE LiveTimeAlive

KillsOfLife == {t \in shots : LifeEnd = Blank \/ t <= LifeEnd}

\* lifeQualifiedAt over these rows: the sessions tell when Grace was played.
GraceOverAt ==
  LET Before(i) == MapThenSumSet(SessionPlay, 1 .. i - 1)
  IN  {stints[i].from + Grace - Before(i) :
         i \in {j \in DOMAIN stints : Before(j) < Grace /\ Grace <= Before(j) + SessionPlay(j)}}
QualifiedAt ==
  LET death == IF end # Blank /\ end.line.mechanism = "pvp" THEN {end.at} ELSE {}
      instants == death \cup KillsOfLife \cup GraceOverAt
  IN  IF instants = {} THEN {} ELSE {Min(instants)}

\* The logins after the first: a run of quiet ones shares a row.
HasKill(i) ==
  LET until == IF stints[i].to = Blank /\ closed = Blank THEN minute ELSE SessionStop(i)
  IN  \E t \in KillsOfLife : stints[i].from <= t /\ t <= until
LoginRows ==
  LET logins == 2 .. Len(stints)
      starts == {i \in logins : i = 2 \/ HasKill(i) \/ HasKill(i - 1)}
      Upto(i) == Min({j \in starts : j > i} \cup {Len(stints) + 1}) - 1
  IN  {[first |-> i, last |-> Upto(i)] : i \in starts}

\* A retirement is not a death: no verdict then, nor while the life is open.
LifeTimeline ==
  [kills |-> KillsOfLife, encounters |-> EncountersForLife, qualifiedAt |-> QualifiedAt,
   verdict |-> IF end # Blank THEN {DossierVerdict} ELSE {}]

TimelineKinds == {"birth", "qualified", "session", "kill", "encounter", "death", "retired", "now"}
TimelineEvent == [kind : TimelineKinds, at : Minutes, label : Minutes]
BuildTimeline ==
  LET data == LifeTimeline
      Row(kind, at) == [kind |-> kind, at |-> at, label |-> PlayedSecondsAt(at)]
      Ends(kind, at) == [kind |-> kind, at |-> at, label |-> HeroTime]
  IN  {[kind |-> "birth", at |-> 0, label |-> 0]}
      \cup {Row("qualified", t) : t \in data.qualifiedAt}
      \cup {Row("session", stints[r.first].from) : r \in LoginRows}
      \cup {Row("kill", t) : t \in data.kills}
      \cup {Row("encounter", e.from) : e \in data.encounters}
      \cup {IF end # Blank THEN Ends("death", end.at)
            ELSE IF closed # Blank THEN Ends("retired", closed) ELSE Ends("now", minute)}

-----------------------------------------------------------------------------
\* The obituary.

IsUnrecordedCause(cause) == cause \in {"died", "environment", "environmental", "unknown"}

CauseCategory(mechanism, cause) ==
  IF mechanism \in {"pvp", "suicide"} THEN mechanism
  ELSE IF ~IsUnrecordedCause(mechanism) \/ ~IsUnrecordedCause(cause) THEN "environment"
  ELSE "unknown"

BuildObituaryFacts ==
  LET verdict == DossierVerdict
  IN  [mechanism |-> end.line.mechanism, verdict |-> verdict,
       category |-> CauseCategory(end.line.mechanism, verdict.cause),
       ordeals |-> Dossier(end.at), at |-> minute]

\* What the prompt says killed the subject.
CauseUnrecorded(f) ==
  f.category # "pvp" /\ IsUnrecordedCause(f.mechanism) /\ IsUnrecordedCause(f.verdict.cause)
DescribeDeath(f) ==
  IF f.category = "pvp" THEN "pvp"
  ELSE IF ~IsUnrecordedCause(f.verdict.cause) THEN f.verdict.cause
  ELSE IF IsUnrecordedCause(f.mechanism) THEN "not recorded"
  ELSE f.mechanism
CauseCategoryTag(f) ==
  CASE f.category = "pvp" -> "PvP" [] f.category = "suicide" -> "Self-Inflicted"
    [] f.category = "environment" -> "Environment" [] OTHER -> "Unknown"

\* The facts of the prompt that say how the life went and ended.
BuildObituaryPrompt(f) ==
  [cause |-> DescribeDeath(f),
   runIns |-> {kind \in {"infected", "fire", "pvp"} : f.ordeals[kind].encounters > 0},
   directive |-> IF CauseUnrecorded(f) THEN "name no mechanism"
                 ELSE IF f.verdict.confidence = "low" THEN "hedge" ELSE "none"]

\* generateObituary: a draft that names a place is written again, once; the
\* second failure leaves the obituary to a later attempt.
Drafts == [place : BOOLEAN]
GenerateObituary(first, second) == ~first.place \/ ~second.place

Publishes(first, second) ==
  /\ end # Blank /\ article = Blank
  /\ GenerateObituary(first, second)
  /\ article' = BuildObituaryFacts
  /\ UNCHANGED <<minute, followed, wounds, knockouts, fixes, shots, stints, heartbeat, end, closed>>

\* The words for a death on the site: the verdict's, unless it names nothing.
CauseLabel(cause) == IF cause \in {"died", "unknown"} THEN "Unknown" ELSE cause
VerdictPhrase(v, mechanism) ==
  IF v.cause \notin {"environmental", "unknown"} THEN v.cause
  ELSE IF v.cause = "environmental" /\ CauseLabel(mechanism) = "Unknown" THEN "environment"
  ELSE CauseLabel(mechanism)

StoryNext ==
  \/ Elapses \/ FallsUnconscious \/ Shoots
  \/ \E line \in Wounds : IsHit(line)
  \/ \E spot \in Spots : IsSeenAt(spot)
  \/ LogsOut \/ IsRebooted \/ LogsIn \/ ServerRetires
  \/ \E line \in Endings : Perishes(line)
  \/ \E first, second \in Drafts : Publishes(first, second)

-----------------------------------------------------------------------------
\* Properties.

\* A verdict on a bare "died" blames nobody who was not there: each cause has a
\* wound in the last minutes to show for it, of that kind, and what chewed on
\* the body after the last knockout changes nothing about who is blamed.
BlamesTheGuilty ==
  end # Blank /\ end.line.mechanism = "died" =>
    LET recent == RecentHits(end.at)
        knocked == RecentKnockouts(end.at)
        verdict == DossierVerdict
        lived == {i \in recent : wounds[i].at <= Max(knocked) \/ wounds[i].by # "infected"}
        By(S) == \E i \in DOMAIN wounds : wounds[i].by \in S /\ InWindow(wounds[i].at, end.at)
    IN  /\ verdict.cause = "pvp" => By(Shooters) /\ knocked # {}
        /\ verdict.cause = "mauled" =>
             /\ By({"infected"})
             /\ \/ end.line.bleeding \/ knocked # {}
                \/ \E h \in Hits(recent) : h.by = "infected" /\ h.hp \in {0, 1}
        /\ verdict.cause = "fall" => By({"fall"})
        /\ verdict.cause = "wolf" => By({"wolf", "Animal_wolf"})
        /\ verdict.cause = "environmental" => By(Labels \ {"infected", "fall"})
        /\ knocked # {} /\ DownedBy(recent, knocked) # {} =>
             verdict.cause = ClassifyDeath(end.line, lived, knocked).cause
        /\ verdict.confidence = "high" => end.line.starving \/ end.line.dry \/ recent # {}

\* The tag of an obituary, what its author is told and the words on the site
\* agree on whether anything is known of the death; and what was published
\* stays what the life page says, unless a wound of the minute of the death was
\* folded after it.
ToldAlike ==
  article # Blank =>
    /\ LET prompt == BuildObituaryPrompt(article)
           unknown == CauseCategoryTag(article) = "Unknown"
       IN  /\ unknown <=> prompt.directive = "name no mechanism"
           /\ unknown <=> prompt.cause = "not recorded"
           /\ VerdictPhrase(article.verdict, article.mechanism) = "Unknown" => unknown
           /\ prompt.runIns = {} =>
                \A i \in DOMAIN wounds :
                  wounds[i].at < end.at => wounds[i].by \notin {"fire", "infected"} \cup Shooters
    /\ article.category = "pvp" <=> article.mechanism = "pvp"
    /\ article.at > end.at => article.verdict = DossierVerdict
    /\ article.at > end.at => article.ordeals = Dossier(end.at)

\* What the record says of the death rests on what it shows (and its rows are
\* of their types).
VerdictStands == StoryTypeOK /\ BlamesTheGuilty /\ ToldAlike

\* Every wound of the life is told once: in one encounter of the timeline, or,
\* if its run led up to the death, by the row of the death, whose verdict saw the
\* last of it (a run that led up to the retirement of the server goes untold).
\* The obituary's count of run-ins is the timeline's, with that one.
EachWoundToldOnce ==
  LET shown == {r \in AllRuns : ~Suppressed(r)}
      Shown(key) == Cardinality({r \in shown : r \in RunsOf(key)})
      Hidden(key) == {r \in RunsOf(key) : Suppressed(r)}
  IN  /\ UNION AllRuns = InLife
      /\ \A r, q \in AllRuns : r # q => r \cap q = {}
      /\ \A key \in Keys : Cardinality(Hidden(key)) <= 1
      /\ end # Blank =>
           LET dossier == Dossier(end.at)
           IN  /\ \A key \in Keys : \A r \in Hidden(key) : Max(r) \in RecentHits(end.at)
               /\ \A r \in shown : ~InWindow(wounds[Max(r)].at, end.at)
               /\ dossier.fire.encounters = Shown("fire") + Cardinality(Hidden("fire"))
               /\ dossier.infected.encounters
                    = Shown("infected") + Cardinality(Hidden("infected"))
               /\ \A e \in EncountersForLife :
                    e.hpLow # Blank => dossier.hpLow # Blank /\ dossier.hpLow <= e.hpLow

\* The trail on the map is where the player went: each point kept is drawn in a
\* session, the last fix is on it whatever was thinned out, and a marker stands
\* where the player was last seen before the event, the mark of the present at
\* the end of the trail.
TrailIsWalked ==
  LET kept == ThinTrack(RawTrack)
      drawn == SegmentBySession
  IN  RawTrack # {} =>
        /\ \A p \in kept : \E i \in DOMAIN drawn : p \in drawn[i]
        /\ Len(fixes) \in kept
        /\ \A i, j \in DOMAIN drawn : i < j =>
             \A p \in drawn[i], q \in drawn[j] : fixes[p].at <= fixes[q].at
        /\ \A m \in Markers :
             /\ m.sample.at <= m.at
             /\ \A p \in DOMAIN fixes : fixes[p].at <= m.at => fixes[p].at <= m.sample.at
             /\ m.kind = "now" => m.sample.at = fixes[Max(kept)].at
        /\ \A t \in shots, p \in DOMAIN fixes :
             t <= TrackEnd /\ fixes[p].at <= t /\ t - fixes[p].at <= MarkerAge =>
               \E m \in Markers : m.kind = "kill" /\ m.at = t

\* The timeline keeps one clock: later rows never show less time played, none
\* shows more than the hero, whose time is that of the last row's instant; the
\* row of a life that qualified by time alone shows the grace period; each login
\* after the first is told in one row, and no row joins logins around a kill of a
\* session; only the row of a death has a verdict; and the page's sessions end
\* where the trail's do.
TimelineAddsUp ==
  LET rows == BuildTimeline
      During(i, t) == stints[i].from <= t /\ t <= SessionStop(i)
  IN  /\ rows \subseteq TimelineEvent
      /\ \A r, q \in rows : r.at < q.at => r.label <= q.label
      /\ \A r \in rows : r.label <= HeroTime
      /\ LifeTimeline.verdict # {} <=> \E r \in rows : r.kind = "death"
      /\ HeroTime = PlayedSecondsAt(IF LifeEnd # Blank THEN LifeEnd ELSE minute)
      /\ QualifiedAt # {} <=>
           \/ HeroTime >= Grace \/ KillsOfLife # {}
           \/ end # Blank /\ end.line.mechanism = "pvp"
      /\ \A r \in rows : r.kind = "qualified" /\ r.at \notin KillsOfLife \cup {LifeEnd} =>
           r.label = Grace
      /\ \A i \in 2 .. Len(stints) :
           Cardinality({g \in LoginRows : g.first <= i /\ i <= g.last}) = 1
      /\ \A g \in LoginRows, t \in KillsOfLife :
           /\ g.first < g.last
           /\ stints[g.first].from <= t /\ t <= SessionStop(g.last)
           => ~\E i \in DOMAIN stints : During(i, t)
      /\ \A i \in DOMAIN stints : SessionStop(i) = Windows[i].to

\* The life page tells the life, each thing once, where and when it was.
StoryIsWhole == EachWoundToldOnce /\ TrailIsWalked /\ TimelineAddsUp

=============================================================================
