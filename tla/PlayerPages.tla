----------------------------- MODULE PlayerPages ----------------------------
(***************************************************************************)
(* The pages about players (packages/read-models and the public routes of  *)
(* apps/api): the dossier with its cards and totals, the aggregate, the    *)
(* leaderboards, the life page with its track, the sitemap.  Each page has *)
(* queries of its own over the tables of LifeFold, so that the same life   *)
(* is counted, timed and qualified in many places.                         *)
(*                                                                         *)
(* A page is a function of the tables, of the fleet (which servers are     *)
(* active, paused or retired, and since when) and of the bans in force; the*)
(* properties quantify over those.  Every server has a slug.  Gamertags    *)
(* stand for their slugs.                                                  *)
(***************************************************************************)
EXTENDS ReadModels

CONSTANT
  OnlineSeconds,  \* ONLINE_MAX_AGE_SECONDS
  PageSize        \* PLAYER_PAST_LIVES_PAGE_SIZE

ASSUME PagesAssumption ==
  OnlineSeconds \in Nat /\ PageSize \in Nat \ {0} /\ IsFiniteSet(Servers)

ServerStatus == [active: BOOLEAN, retired: Nat \cup {None}]

KillTime(k) == lives[k.life].end

-----------------------------------------------------------------------------
\* Who a name leads to.

\* resolveSlugMatch: whoever carries the name now, else someone who carried it
\* (the most recent of them in the code; here any).
SlugRows(t) ==
  IF ByTag(t) # {} THEN ByTag(t) ELSE {p \in DOMAIN players : t \in players[p].names}

\* Each query then takes a row that carries the resolved name, whichever comes
\* first: rows of a recycled name are not told apart.
PageRows(t) ==
  {q \in DOMAIN players : \E p \in SlugRows(t) : players[q].tag = players[p].tag}

-----------------------------------------------------------------------------
\* One player's page: getPlayerPage.

\* getLifeKills: inclusive at both ends.
LifeKills(s, p, from, to) ==
  {k \in kills : /\ k.server = s /\ k.killer = p
                 /\ from <= KillTime(k) /\ (to = None \/ KillTime(k) <= to)}

LivesOn(p, s, fleet) == PlayerLives(s, p, fleet[s].retired)
RowOn(l, fleet) == LifeRowFor(l, fleet[lives[l].server].retired)
AllLives(p, fleet) == UNION {LivesOn(p, s, fleet) : s \in Servers}
PastLives(p, fleet) == {l \in AllLives(p, fleet) : RowOn(l, fleet).end # None}

\* A life's own death ends it; a retirement does not count as one.
Deaths(S) == {l \in S : lives[l].end # None}

\* Faulty variant of ShownSeconds: an open life without its open session.
StoredSeconds(l, fleet) == RowOn(l, fleet).play

\* Active servers show an open life as the profile counts it; on the others it
\* shows what its row says.
ShownSeconds(l, fleet) ==
  LET s == lives[l].server
  IN  IF fleet[s].active /\ lives[l].end = None
      THEN Profile(s, lives[l].player).current
      ELSE RowOn(l, fleet).play

\* A card is skipped, kills and all, for one who never played there.
NeverPlayed(p, s, fleet, ban) ==
  LivesOn(p, s, fleet) = {} /\ ban[s] = None /\ OpenLife(s, p) = {}
PageKills(p, fleet, ban) ==
  {k \in kills : k.killer = p /\ ~(fleet[k.server].active /\ NeverPlayed(p, k.server, fleet, ban))}

Longest(S, fleet) == Max({0} \cup {ShownSeconds(l, fleet) : l \in S})
Totals(p, fleet, ban) ==
  LET all == AllLives(p, fleet)
  IN  [lives |-> Cardinality(all), deaths |-> Cardinality(Deaths(all)),
       kills |-> Cardinality(PageKills(p, fleet, ban)),
       longest |-> Longest(all, fleet), previousBest |-> Longest(PastLives(p, fleet), fleet)]

Newest(S) == {l \in S : \A m \in S : lives[m].number <= lives[l].number}

\* The life a ban is for is found by the second it began in.
Triggering(S, start) == Newest({l \in S : lives[l].start = start})

\* The card of an active server: a ban outranks an open life.  of holds the
\* life the card names, if any.
Standing(p, s, fleet, ban) ==
  LET open == OpenLife(s, p)
      profile == Profile(s, p)
      Card(state, of, seconds, qualified) ==
        [state |-> state, of |-> of, seconds |-> seconds, qualified |-> qualified]
  IN  IF ban[s] # None THEN Card("banned", Triggering(LivesOn(p, s, fleet), ban[s]), 0, FALSE)
      ELSE IF open # {}
      THEN LET l == CHOOSE l \in open : TRUE
           IN  Card("alive", open,
                    IF profile.alive THEN profile.current
                    ELSE LivePlaytime(lives[l].play, FromOf(OpenSession(s, p)), Seen(p)),
                    LifeQualifiedAt(l) # None)
      ELSE Card("idle", Newest(LivesOn(p, s, fleet)), 0, FALSE)

Cards(p, fleet, ban) ==
  [s \in {s \in Servers : fleet[s].active} |-> Standing(p, s, fleet, ban)]
AliveAnywhere(p, fleet, ban) ==
  LET cards == Cards(p, fleet, ban)
  IN  \E s \in DOMAIN cards : cards[s].state = "alive" /\ cards[s].qualified
PageExists(p, fleet, ban) ==
  LET cards == Cards(p, fleet, ban)
  IN  \/ AllLives(p, fleet) # {}
      \/ \E s \in DOMAIN cards : cards[s].state # "idle" \/ cards[s].of # {}

\* The past lives a page lists before this one: those that ended later.
Ahead(l, p, fleet) ==
  {m \in PastLives(p, fleet) :
     \/ RowOn(m, fleet).end > RowOn(l, fleet).end
     \/ RowOn(m, fleet).end = RowOn(l, fleet).end /\ m > l}

\* The past lives, latest end first, a page at a time; a page too far is the last.
PastPage(p, fleet, n) ==
  LET ended == PastLives(p, fleet)
      pages == Max({1, (Cardinality(ended) + PageSize - 1) \div PageSize})
      served == Min({n, pages})
  IN  {l \in ended : Cardinality(Ahead(l, p, fleet))
                       \in (served - 1) * PageSize .. served * PageSize - 1}

-----------------------------------------------------------------------------
\* Other pages and callers.

\* getPlayerAcrossServers, over the active servers where there is a profile.
AggregateOn(p, fleet) ==
  {s \in Servers : fleet[s].active /\ LivesOf(s, p) # {}}
Aggregate(p, fleet) ==
  LET played == AggregateOn(p, fleet)
      Sum(F(_)) == MapThenSumSet(F, played)
  IN  [lives |-> Sum(LAMBDA s : Profile(s, p).lives),
       deaths |-> Sum(LAMBDA s : Profile(s, p).deaths),
       total |-> Sum(LAMBDA s : Profile(s, p).total),
       kills |-> Cardinality({k \in kills : k.killer = p /\ k.server \in played}),
       longest |-> Max({0} \cup {lives[l].play : l \in UNION {PlayerLives(s, p, fleet[s].retired) : s \in played}}),
       alive |-> \E s \in played : Profile(s, p).alive]

\* getSiteStats: every life that ever ended, and the boards of active servers.
SiteStats(fleet) ==
  [deaths |-> Cardinality({l \in DOMAIN lives : lives[l].end # None}),
   alive |-> MapThenSumSet(LAMBDA s : Cardinality(Survivors(s)),
                           {s \in Servers : fleet[s].active})]

\* Faulty variant of CountsUnder: any kill of the name counts, whenever.
CountsByAnyKill(l, play, windowEnd) ==
  \/ play >= QualifySeconds
  \/ \E k \in kills : k.name = players[lives[l].player].tag

\* The leaderboards of one server, by name: kills count under the name that
\* fired them, lives under the name their player carries now.
KillsUnder(s, t) == {k \in kills : k.server = s /\ k.name = t}
MostKills(s) == {<<t, Cardinality(KillsUnder(s, t))>> : t \in {k.name : k \in kills}}
CountsUnder(l, play, windowEnd) ==
  IsLifeQualified(lives[l].cause, play, lives[l].start, windowEnd,
                  {KillTime(k) : k \in KillsUnder(lives[l].server, players[lives[l].player].tag)})
Best(value) ==
  LET Of(t) == {l \in DOMAIN value : players[lives[l].player].tag = t}
  IN  {<<t, Max({value[l] : l \in Of(t)})>> : t \in {u \in Tags : Of(u) # {}}}
LivesHere(s) == {l \in DOMAIN lives : lives[l].server = s}
EndOr(l, now) == IF lives[l].end = None THEN now ELSE lives[l].end
AlltimeLongest(s) ==
  LET Counts(l) == CountsUnder(l, lives[l].play, EndOr(l, clock))
  IN  Best([l \in {m \in LivesHere(s) : Counts(m)} |-> lives[l].play])
AliveLongest(s) ==
  {<<players[lives[l].player].tag, TimeAlive(l)>> :
     l \in {m \in LivesHere(s) : /\ lives[m].end = None
                                 /\ CountsUnder(m, TimeAlive(m), Seen(lives[m].player))}}
LongestKillstreak(s) ==
  Best([l \in LivesHere(s) |->
          Cardinality({k \in KillsUnder(s, players[lives[l].player].tag) :
                         /\ k.killer # None
                         /\ lives[l].start <= KillTime(k)
                         /\ KillTime(k) <= EndOr(l, clock)})])

\* getPlayerPriors: what a player did before a life began, on any server.
PriorLives(p, before) ==
  {l \in DOMAIN lives : lives[l].player = p /\ lives[l].start < before}
Priors(p, before) ==
  LET prior == PriorLives(p, before)
  IN  [lives |-> Cardinality(prior), longest |-> Max({0} \cup {lives[l].play : l \in prior}),
       kills |-> Cardinality({k \in kills : k.killer = p /\ KillTime(k) < before})]

\* getLifeDetail: the row and its sessions, an open one of a retired server
\* closed where its playtime stops.
LifeDetail(l, retired) ==
  [life |-> LifeRowFor(l, retired),
   sessions |-> [i \in {j \in DOMAIN sessions : sessions[j].life = l} |->
                   IF sessions[i].to # None \/ retired = None THEN sessions[i]
                   ELSE [sessions[i] EXCEPT !.to = RetirementCap(retired, Seen(lives[l].player))]]]

\* getLifeTimeline: when the life of that detail came to count.
TimelineQualifiedAt(l, retired) ==
  LET seen == Seen(lives[l].player)
  IN  QualifiedInstant(l, LifeDetail(l, retired).life,
                       IF retired = None THEN seen ELSE RetirementCap(retired, seen))

\* getLifeTrack: the windows in which positions are drawn, one per session.
TrackWindows(l, retired) ==
  LET seen == Seen(lives[l].player)
      cap == IF lives[l].end # None THEN lives[l].end
             ELSE IF retired # None THEN RetirementCap(retired, seen) ELSE seen
  IN  [i \in {j \in DOMAIN sessions : sessions[j].life = l} |->
         [from |-> sessions[i].from,
          to |-> IF sessions[i].to # None THEN sessions[i].to
                 ELSE IF cap > sessions[i].from THEN cap ELSE sessions[i].from]]

\* The life pages that resolve, and the ones the sitemap lists.
LifePage(s, t, n, fleet) ==
  {l \in UNION {LivesOn(p, s, fleet) : p \in PageRows(t)} : lives[l].number = n}
SitemapLives ==
  {<<lives[l].server, players[lives[l].player].tag, lives[l].number>> : l \in DOMAIN lives}

\* getOnlinePlayers: an open session that connected, or a position on this very
\* server, within the bound.  heard is the later of the two.
OnlinePlayers(s) ==
  {sessions[i].player : i \in {j \in OpenOn(s) : clock - sessions[j].heard <= OnlineSeconds}}

\* getLastPlayedMapSlug: where the newest session on an active server was.
LastPlayed(p, fleet) ==
  LET here == {i \in DOMAIN sessions : sessions[i].player = p /\ fleet[sessions[i].server].active}
  IN  {sessions[i].server : i \in {j \in here : \A k \in here : sessions[k].from <= sessions[j].from}}

-----------------------------------------------------------------------------
\* Properties.  They speak of every change of the fleet there may be: a server
\* is active, is paused, or is retired once its log has ended.

Active == [active |-> TRUE, retired |-> None]
Paused == [active |-> FALSE, retired |-> None]
Retired(t) == [active |-> FALSE, retired |-> t]

LastLine(s) ==
  LET ofLives == UNION {{lives[l].start, lives[l].end} : l \in LivesHere(s)}
      here == {i \in DOMAIN sessions : sessions[i].server = s}
      ofSessions == UNION {{sessions[i].from, sessions[i].to, sessions[i].heard} : i \in here}
  IN  Max({0} \cup ((ofLives \cup ofSessions) \ {None}))
StatusesOf(s) == {Active, Paused, Retired(LastLine(s)), Retired(clock)}
AllActive == [s \in Servers |-> Active]
Fleets == UNION {{[AllActive EXCEPT ![s] = status] : status \in StatusesOf(s)} : s \in Servers}
NoBans == [s \in Servers |-> None]

FiredUnheard(l) ==
  \E t \in KillTimes(lives[l].server, lives[l].player) : t > Seen(lives[l].player)

\* Kills a player fired while no life of theirs ran on that server: a grenade may
\* outlive who threw it.  No life counts by them.
FiredDead(p) ==
  {k \in kills : /\ k.killer = p
                 /\ \A l \in LivesOf(k.server, p) :
                      k \notin LifeKills(k.server, p, lives[l].start, lives[l].end)}

\* The card of an active server, the survivors board, the aggregate and the
\* site's headline show the same open life with the same time: the card and the
\* board part only over a kill fired after the last heartbeat, the page and the
\* aggregate over kills of the dead, which the page skips with its card, and the
\* page's record is no less than the time on its own card.
CardsAgree ==
  LET board == [s \in Servers |-> Survivors(s)]
      Shown(s, card, l) ==
        /\ card.seconds = TimeAlive(l)
        /\ l \in board[s] => card.qualified
        /\ card.qualified /\ l \notin board[s] => FiredUnheard(l)
  IN  \A p \in DOMAIN players :
        LET cards == Cards(p, AllActive, NoBans)
            totals == Totals(p, AllActive, NoBans)
            aggregate == Aggregate(p, AllActive)
        IN  /\ \A s \in Servers : cards[s].state = "alive" =>
                 \A l \in cards[s].of :
                   /\ Shown(s, cards[s], l)
                   /\ l \in LivesOn(p, s, AllActive) => cards[s].seconds <= totals.longest
            /\ <<totals.lives, totals.deaths>> = <<aggregate.lives, aggregate.deaths>>
            /\ totals.kills <= aggregate.kills
            /\ aggregate.kills <= totals.kills + Cardinality(FiredDead(p))
            /\ aggregate.longest <= totals.longest
            /\ aggregate.alive => AliveAnywhere(p, AllActive, NoBans)

\* Whatever the fleet, nobody's history is lost: each kill fired in a life is in
\* the totals of its killer's page, each life that counted before a server was
\* paused or retired still counts (a retirement in the past may take back time
\* that only another server's heartbeat credited), each past life is on a page,
\* no page overflows, the headline covers every page, and the record never falls
\* below the previous best.
HistoryStays ==
  /\ \A p \in DOMAIN players :
       LET counted == AllLives(p, AllActive)
           fired == {k \in kills : k.killer = p} \ FiredDead(p)
       IN  \A fleet \in Fleets :
             LET totals == Totals(p, fleet, NoBans)
                 past == PastLives(p, fleet)
             IN  /\ fired \subseteq PageKills(p, fleet, NoBans)
                 /\ totals.previousBest <= totals.longest
                 /\ (\A s \in Servers : fleet[s].retired \in {None, clock}) =>
                      /\ counted \subseteq AllLives(p, fleet)
                      /\ counted # {} => PageExists(p, fleet, NoBans)
                 /\ UNION {PastPage(p, fleet, n) : n \in 1 .. Cardinality(past)} = past
                 /\ \A n \in 1 .. Cardinality(past) :
                      Cardinality(PastPage(p, fleet, n)) <= PageSize
  /\ \A fleet \in Fleets :
       LET stats == SiteStats(fleet)
           Gone(p) == Cardinality(Deaths(AllLives(p, fleet)))
       IN  /\ MapThenSumSet(Gone, DOMAIN players) <= stats.deaths
           /\ stats.alive <= Cardinality({l \in DOMAIN lives : lives[l].end = None})

\* A life page exists for each life that counts, and its three accounts of the
\* time agree: the sessions it lists and the windows of its track add up to the
\* playtime it shows, open or ended, by death or by the server's retirement.
LifePagesAddUp ==
  \A l \in DOMAIN lives : \A status \in StatusesOf(lives[l].server) :
    LET s == lives[l].server
        p == lives[l].player
        retired == status.retired
        fleet == [AllActive EXCEPT ![s] = status]
        detail == LifeDetail(l, retired)
        windows == TrackWindows(l, retired)
        shown == IF detail.life.end = None THEN TimeAlive(l) ELSE detail.life.play
        Length(w) == DurationSeconds(w.from, IF w.to = None THEN Seen(p) ELSE w.to)
    IN  /\ shown = MapThenSumSet(LAMBDA i : Length(detail.sessions[i]), DOMAIN detail.sessions)
        /\ shown = MapThenSumSet(LAMBDA i : Length(windows[i]), DOMAIN windows)
        /\ detail.life.end # None =>
             (TimelineQualifiedAt(l, retired) # None <=> l \in LivesOn(p, s, fleet))
        /\ l \in LivesOn(p, s, fleet) =>
             l \in LifePage(s, players[p].tag, lives[l].number, fleet)

\* The card of a banned player names the life the ban is for, never another,
\* unless two of the player's lives began in the same second.
BannedForTheRightLife ==
  \A p \in DOMAIN players, l \in DOMAIN lives :
    LET s == lives[l].server
        card == Standing(p, s, AllActive, [NoBans EXCEPT ![s] = lives[l].start])
    IN  /\ lives[l].player = p /\ lives[l].end # None /\ QualifiedLifeCondition(l)
        => /\ card.state = "banned"
           /\ \/ card.of = {l}
              \/ \E m \in LivesOf(s, p) : m # l /\ lives[m].start = lives[l].start

\* Who is listed as online on a server was heard from there, which implies a
\* fresh heartbeat: the list never names someone whom the boards take for gone,
\* nor someone without a life on the server, and the map such a player is led to
\* by default exists.
OnlineIsSeen ==
  \A s \in Servers : \A p \in OnlinePlayers(s) :
    /\ clock - Seen(p) <= OnlineSeconds
    /\ OpenLife(s, p) # {}
    /\ LastPlayed(p, AllActive) # {}

\* One player is shown alike on every page of the site.
PagesAgree ==
  QueriesAgree /\ CardsAgree /\ HistoryStays /\ LifePagesAddUp /\ BannedForTheRightLife
    /\ OnlineIsSeen

\* Who carried one name only, which nobody else ever carried.
SoleHolder(p) ==
  /\ players[p].names = {players[p].tag}
  /\ \A q \in DOMAIN players : q # p => players[p].tag \notin players[q].names
  /\ \A k \in kills : k.name = players[p].tag => k.killer = p

\* The boards count by name the kills that the pages count by identity.  Of a
\* player with one name of their own both say the same, and no board shows a
\* time that no page of a holder of the name shows; except that the all-time
\* board, which counts kills up to now, shows an open life by a kill fired after
\* the last heartbeat, and the page does from the next heartbeat on.
BoardsByName ==
  \A s \in Servers, p \in DOMAIN players :
    LET t == players[p].tag
        mine == LivesOf(s, p)
        On(board) == {row[2] : row \in {r \in board : r[1] = t}}
        Streak(l) == Cardinality(LifeKills(s, p, lives[l].start, lives[l].end))
    IN  /\ kills # {} /\ SoleHolder(p) =>
             /\ On(MostKills(s)) \subseteq
                  {Cardinality({k \in kills : k.server = s /\ k.killer = p})}
             /\ On(AliveLongest(s)) = {TimeAlive(l) : l \in Survivors(s) \cap mine}
             /\ On(LongestKillstreak(s)) \subseteq {Max({0} \cup {Streak(l) : l \in mine})}
             /\ \A x \in On(AlltimeLongest(s)) :
                  \/ x <= Totals(p, AllActive, NoBans).longest
                  \/ \E l \in mine : lives[l].end = None /\ lives[l].play = x /\ FiredUnheard(l)
        /\ \A t2 \in players[p].names :
             SlugRows(t2) # {} /\ (t2 = t => p \in PageRows(t2))
        /\ <<s, t>> \in {<<x[1], x[2]>> : x \in SitemapLives} <=>
             \E q \in DOMAIN players : players[q].tag = t /\ LivesOf(s, q) # {}

\* Names and numbers in the record: see DecidedAlike and BoardsByName.
RecordsAgree == DecidedAlike /\ BoardsByName

\* What an obituary says of its subject's earlier lives does not depend on when
\* it is written: no later line adds a life or a kill to them.
PriorsStand ==
  [][\A l \in DOMAIN lives :
       LET was == Priors(lives[l].player, lives[l].start)
           is == Priors(lives[l].player, lives[l].start)'
       IN  /\ is.lives = was.lives /\ is.kills = was.kills
           /\ is.longest >= was.longest]_vars

=============================================================================
