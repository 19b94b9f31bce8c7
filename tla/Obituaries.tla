----------------------------- MODULE Obituaries -----------------------------
(***************************************************************************)
(* A qualified death becomes an obituary (apps/newsdesk) and the obituary  *)
(* a post on every channel (apps/crier).  Two loops, each of which reads a *)
(* batch and works it off; they meet in the articles table.  What an       *)
(* article is about is known by the natural key of the life: the server,   *)
(* the start, and the gamertag at the time of writing, so that a renamed   *)
(* player is recognised only by the history of names.                      *)
(*                                                                         *)
(* A call to the language model, to a channel or to the database may fail; *)
(* it may also succeed and its answer be lost.                             *)
(***************************************************************************)
EXTENDS Integers, Sequences, SequencesExt, FiniteSets, FiniteSetsExt

CONSTANTS
  Lives,        \* qualified lives, by their server and start
  Names,        \* gamertags of their players
  FirstName,    \* the one each started with
  Headlines,    \* what the language model may come up with
  Channels,
  None,
  BatchCap,     \* deaths, and posts, that a tick takes on
  MaxAttempts,  \* of the newsdesk at an obituary, of the crier at a post
  MaxRenames,   \* bound
  MaxFaults     \* bound: answers lost, processes stopped

ASSUME ObituariesAssumption ==
  /\ IsFiniteSet(Lives) /\ IsFiniteSet(Names) /\ IsFiniteSet(Channels)
  /\ Headlines # {} /\ FirstName \in [Lives -> Names]
  /\ {BatchCap, MaxAttempts} \subseteq Nat \ {0}
  /\ {MaxRenames, MaxFaults} \subseteq Nat
  /\ None \notin Lives \X Names \X Headlines

VARIABLES
  deaths,    \* the lives that ended, in that order
  names,     \* the names each life's player has had, the current one last
  articles,  \* the rows, by life and gamertag
  desk,      \* the batch of the newsdesk: lives with the name they were read by
  ledger,    \* syndications, by slug and channel
  crier,     \* the batch of the crier: slugs with a channel
  renames, faults,
  shown,     \* history: the posts a channel shows of each life
  lost       \* history: lives about which an answer was lost

obituaryVars == <<deaths, names, articles, desk, ledger, crier, renames, faults,
                  shown, lost>>

\* obituarySlug: one of its life and name, and the headline goes in.
Slugs == Lives \X Names \X Headlines
Target == [life: Lives, name: Names]
Article == [status: {"none", "failed", "published"}, attempts: Nat,
            slug: Slugs \cup {None}]
Entry == [posted: BOOLEAN, attempts: Nat]

ObituariesTypeOK ==
  /\ deaths \in Seq(Lives) /\ IsInjective(deaths)
  /\ names \in [Lives -> Seq(Names)]
  /\ articles \in [Lives \X Names -> Article]
  /\ desk \in Seq(Target) /\ Len(desk) <= BatchCap
  /\ ledger \in [Slugs \X Channels -> Entry]
  /\ crier \in Seq(Slugs \X Channels) /\ Len(crier) <= BatchCap
  /\ renames \in 0 .. MaxRenames /\ faults \in 0 .. MaxFaults
  /\ shown \in [Lives \X Channels -> Nat]
  /\ lost \subseteq Lives
  /\ \A k \in Lives \X Names :
       /\ articles[k].status = "published" => articles[k].slug # None
       /\ articles[k].attempts <= MaxAttempts + 1
  /\ \A e \in Slugs \X Channels : ledger[e].attempts <= MaxAttempts

ObituariesInit ==
  /\ deaths = <<>> /\ desk = <<>> /\ crier = <<>>
  /\ names = [l \in Lives |-> <<FirstName[l]>>]
  /\ articles = [k \in Lives \X Names |->
                   [status |-> "none", attempts |-> 0, slug |-> None]]
  /\ ledger = [e \in Slugs \X Channels |-> [posted |-> FALSE, attempts |-> 0]]
  /\ renames = 0 /\ faults = 0
  /\ shown = [e \in Lives \X Channels |-> 0] /\ lost = {}

-----------------------------------------------------------------------------
\* The game.

Die(l) ==
  /\ l \notin ToSet(deaths)
  /\ deaths' = Append(deaths, l)
  /\ UNCHANGED <<names, articles, desk, ledger, crier, renames, faults, shown, lost>>

Rename(l, n) ==
  /\ renames < MaxRenames /\ n # Last(names[l])
  /\ names' = [names EXCEPT ![l] = Append(@, n)]
  /\ renames' = renames + 1
  /\ UNCHANGED <<deaths, articles, desk, ledger, crier, faults, shown, lost>>

-----------------------------------------------------------------------------
\* newsdeskTick

\* Faulty variant of RowsOf: the row is looked for under the current name.
RowsOfName(l) == {articles[<<l, Last(names[l])>>]}

\* The rows of a life, under whatever name its player had.
RowsOf(l) == {articles[<<l, n>>] : n \in ToSet(names[l])}

\* Faulty variant of Settled: a failure is never retried.
SettledByAnyRow(l) == \E a \in RowsOf(l) : a.status # "none"

\* No obituary is wanted: there is one, or the attempts are used up.
Settled(l) == \E a \in RowsOf(l) : a.status = "published" \/ a.attempts >= MaxAttempts

FirstOf(seq, n) == SubSeq(seq, 1, IF Len(seq) < n THEN Len(seq) ELSE n)

TargetOf(l) == [life |-> l, name |-> Last(names[l])]

\* findObituaryTargets: the newest deaths first, by the name of now.
ReadDeaths ==
  /\ desk = <<>>
  /\ \E order \in SetToSeqs({i \in DOMAIN deaths : ~Settled(deaths[i])}) :
       /\ \A i, j \in DOMAIN order : i < j => order[i] > order[j]
       /\ desk' = FirstOf([i \in DOMAIN order |-> TargetOf(deaths[order[i]])], BatchCap)
  /\ desk' # <<>>
  /\ UNCHANGED <<deaths, names, articles, ledger, crier, renames, faults, shown, lost>>

RowOf(t) == articles[<<t.life, t.name>>]
WithRow(t, row) == [articles EXCEPT ![<<t.life, t.name>>] = row]

\* publishObituary and recordObituaryFailure: upserts on the natural key.
PublishedRow(row, t, h) ==
  [status |-> "published", attempts |-> row.attempts + 1,
   slug |-> <<t.life, t.name, h>>]
FailedRow(row) == [row EXCEPT !.status = "failed", !.attempts = @ + 1]

\* The first target of the batch is done with.
Handled == desk # <<>> /\ desk' = Tail(desk)

Publish ==
  /\ Handled
  /\ \E h \in Headlines :
       articles' = WithRow(Head(desk), PublishedRow(RowOf(Head(desk)), Head(desk), h))
  /\ UNCHANGED <<deaths, names, ledger, crier, renames, faults, shown, lost>>

\* The model refuses, or breaks the rules twice.
Fail ==
  /\ Handled
  /\ articles' = WithRow(Head(desk), FailedRow(RowOf(Head(desk))))
  /\ UNCHANGED <<deaths, names, ledger, crier, renames, faults, shown, lost>>

\* The row is written and the answer lost: the failure is recorded over it.
PublishUnanswered ==
  /\ Handled
  /\ faults < MaxFaults /\ faults' = faults + 1
  /\ \E h \in Headlines :
       articles' = WithRow(Head(desk),
                           FailedRow(PublishedRow(RowOf(Head(desk)), Head(desk), h)))
  /\ lost' = lost \cup {Head(desk).life}
  /\ UNCHANGED <<deaths, names, ledger, crier, renames, shown>>

\* The life is not found during a rebuild, the database fails, or a restart:
\* what the batch still held is read again.
DeskStops ==
  /\ desk # <<>> /\ desk' = <<>>
  /\ faults < MaxFaults /\ faults' = faults + 1
  /\ UNCHANGED <<deaths, names, articles, ledger, crier, renames, shown, lost>>

-----------------------------------------------------------------------------
\* crierTick

Position(l) == CHOOSE i \in DOMAIN deaths : deaths[i] = l

Out(s) == \E n \in Names : /\ articles[<<s[1], n>>].status = "published"
                           /\ articles[<<s[1], n>>].slug = s

\* Faulty variant of Unposted: the attempts are not counted.
UnpostedEver(s, c) == Out(s) /\ ~ledger[<<s, c>>].posted

Unposted(s, c) ==
  Out(s) /\ ~ledger[<<s, c>>].posted /\ ledger[<<s, c>>].attempts < MaxAttempts

\* findSyndicationTargets: the oldest deaths first.
ReadObituaries ==
  /\ crier = <<>>
  /\ LET wanted == {e \in Slugs \X Channels : Unposted(e[1], e[2])}
     IN  \E seq \in SetToSeqs(wanted) :
           /\ \A i, j \in DOMAIN seq :
                i < j => Position(seq[i][1][1]) <= Position(seq[j][1][1])
           /\ crier' = FirstOf(seq, BatchCap)
  /\ crier' # <<>>
  /\ UNCHANGED <<deaths, names, articles, desk, ledger, renames, faults, shown, lost>>

Posted == crier # <<>> /\ crier' = Tail(crier)
Recorded(e, posted) ==
  ledger' = [ledger EXCEPT ![e].posted = @ \/ posted, ![e].attempts = @ + 1]
Shown(e) == shown' = [shown EXCEPT ![<<e[1][1], e[2]>>] = @ + 1]

Post ==
  /\ Posted
  /\ Recorded(Head(crier), TRUE) /\ Shown(Head(crier))
  /\ UNCHANGED <<deaths, names, articles, desk, renames, faults, lost>>

\* The channel refuses: the failure is recorded and the tick goes on.
PostRefused ==
  /\ Posted
  /\ Recorded(Head(crier), FALSE)
  /\ UNCHANGED <<deaths, names, articles, desk, renames, faults, shown, lost>>

\* The channel shows the post but its answer, or the record of it, is lost.
PostUnanswered ==
  /\ Posted
  /\ faults < MaxFaults /\ faults' = faults + 1
  /\ Recorded(Head(crier), FALSE) /\ Shown(Head(crier))
  /\ lost' = lost \cup {Head(crier)[1][1]}
  /\ UNCHANGED <<deaths, names, articles, desk, renames>>

\* A restart, before the post or between the post and its record.
CrierStops ==
  /\ crier # <<>> /\ crier' = <<>>
  /\ faults < MaxFaults /\ faults' = faults + 1
  /\ \/ UNCHANGED <<shown, lost>>
     \/ Shown(Head(crier)) /\ lost' = lost \cup {Head(crier)[1][1]}
  /\ UNCHANGED <<deaths, names, articles, desk, ledger, renames>>

-----------------------------------------------------------------------------
\* The articles on the site: the newest deaths first, each under its slug.

Published == {k \in Lives \X Names : articles[k].status = "published"}
PublishedObituaries ==
  {seq \in SetToSeqs(Published) :
     \A i, j \in DOMAIN seq : i < j => Position(seq[i][1]) >= Position(seq[j][1])}
ObituaryBySlug(s) == {k \in Published : articles[k].slug = s}

-----------------------------------------------------------------------------
DeskNext == ReadDeaths \/ Publish \/ Fail \/ PublishUnanswered \/ DeskStops
CrierNext == ReadObituaries \/ Post \/ PostRefused \/ PostUnanswered \/ CrierStops

ObituariesNext ==
  \/ \E l \in Lives : Die(l) \/ \E n \in Names : Rename(l, n)
  \/ DeskNext \/ CrierNext

-----------------------------------------------------------------------------
\* Properties.

\* A channel shows one post of a death, whatever its player is called by now,
\* and the site lists it once, under the slug that the post links to, unless an
\* answer about that death was lost.
OnePostPerDeath ==
  \A l \in Lives \ lost :
    /\ \A c \in Channels : shown[<<l, c>>] <= 1
    /\ \A seq \in PublishedObituaries : \A i, j \in DOMAIN seq :
         seq[i][1] = l /\ seq[j][1] = l => i = j
    /\ \A s \in Slugs, c \in Channels :
         s[1] = l /\ ledger[<<s, c>>].posted => Cardinality(ObituaryBySlug(s)) = 1

\* The death is told: an obituary of it is out, and posted on every channel, or
\* one of the two loops has used up its attempts at it.
Told(l) ==
  \/ \E a \in RowsOf(l) : a.attempts >= MaxAttempts
  \/ \E a \in RowsOf(l) :
       /\ a.status = "published"
       /\ \A c \in Channels : \/ ledger[<<a.slug, c>>].posted
                              \/ ledger[<<a.slug, c>>].attempts >= MaxAttempts

\* The processes run on; neither is promised to succeed.
ObituariesFairness ==
  /\ WF_obituaryVars(ReadDeaths \/ Publish \/ Fail)
  /\ WF_obituaryVars(ReadObituaries \/ Post \/ PostRefused)

\* Every death is told in the end, though newer ones go first at the newsdesk
\* and older ones at the crier.
EveryDeathIsTold == \A l \in Lives : (l \in ToSet(deaths)) ~> Told(l)

=============================================================================
