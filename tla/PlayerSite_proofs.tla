-------------------------- MODULE PlayerSite_proofs --------------------------
(***************************************************************************)
(* Theorems about what the site shows a player. First the machines in the  *)
(* browser that MCPlayerSite composes (ModerationDesk, Dialogs,            *)
(* PushControl, MapCanvas, MapPage), for every set of players, items,      *)
(* terrains and endpoints and every bound; then the story of a life        *)
(* (LifeStory, as MCLives composes it with the fold): the death verdict    *)
(* and the dossier of the life, for every track, record and bound.         *)
(***************************************************************************)
EXTENDS LifeFold_proofs, MCLives

-----------------------------------------------------------------------------
\* The moderation desk and the list of blocked players (ModerationDesk): while nothing
\* crosses, what a fetch holds and what the page shows are the server's rows, but for
\* those whose act is done and unanswered.

\* A fetch of the list is under way.
Fetches(f) == f.step \in {"fetch", "read"}

\* A call is of a row with a button; only a fetch may be nobody's.
FlowsAreOfRows ==
  \A f \in flows : ~Fetches(f) => f.row \in Items /\ f.op \in {"restore", "confirm", "unblock"}

OneFetch == ~crossed => \A f, g \in flows : Fetches(f) /\ Fetches(g) => f = g

\* The server has done what a call asked for, and its answer is still to come.
Done(i) == \E f \in flows : f.step = "acted" /\ f.row = i

\* A list is that of the server, but for rows that changed since it was read.
TellsTheQueue(rows) ==
  \A i \in Items \ stale : \A s \in States : ~Done(i) => (<<i, s>> \in rows <=> standing[i] = s)

ListsTell ==
  ~crossed =>
    /\ \A f \in flows : f.step = "read" => TellsTheQueue(f.saw)
    /\ screen.kind \in {"empty", "loaded"} /\ (\A f \in flows : ~Fetches(f)) => TellsTheQueue(screen.rows)

DeskInv == DeskTypeOK /\ FlowsAreOfRows /\ OneFetch /\ ListsTell /\ ShutIsShut

LEMMA DeskStarts == DeskInit => DeskInv
<1> SUFFICES ASSUME DeskInit PROVE DeskInv
  OBVIOUS
<1> USE DeskAssumption
<1>1. [row |-> Opening, op |-> "none", step |-> "fetch", saw |-> {}] \in Flow
  BY DEF Flow
<1>2. flows \subseteq Flow /\ \A f, g \in flows : f.row = g.row => f = g
  BY <1>1 DEF DeskInit
<1>3. DeskTypeOK
  <2>1. standing \in [Items -> States \cup {"no", "allowed"}]
    BY DEF DeskInit, States
  <2>2. screen.kind = "loading" /\ screen.rows = {}
    BY DEF DeskInit
  <2>3. broken \in 0 .. MaxBroken /\ changes \in 0 .. MaxChanges
    BY DEF DeskInit
  <2> QED
    BY <1>2, <2>1, <2>2, <2>3 DEF DeskInit, DeskTypeOK
<1>4. FlowsAreOfRows /\ OneFetch /\ ListsTell /\ ShutIsShut
  BY DEF DeskInit, FlowsAreOfRows, OneFetch, ListsTell, ShutIsShut, Fetches
<1> QED
  BY <1>3, <1>4 DEF DeskInv

\* The page opens, or does not.
LEMMA DeskGate ==
  ASSUME DeskInv, GateOpens
  PROVE  DeskInv'
<1> USE DEF DeskInv
<1>1. flows = {} /\ screen.kind = "loading" /\ flows' \subseteq {[row |-> Opening, op |-> "none", step |-> "fetch", saw |-> {}]}
  BY DEF ShutIsShut, GateOpens
<1>2. DeskTypeOK'
  <2>1. flows' \subseteq Flow /\ \A f, g \in flows' : f.row = g.row => f = g
    BY <1>1, DeskAssumption DEF Flow
  <2>2. broken' \in 0 .. MaxBroken
    BY DeskAssumption DEF DeskTypeOK, GateOpens, Unbroken, Breaks
  <2> QED
    BY <2>1, <2>2 DEF DeskTypeOK, GateOpens
<1>3. FlowsAreOfRows' /\ OneFetch' /\ ListsTell'
  BY <1>1 DEF GateOpens, FlowsAreOfRows, OneFetch, ListsTell, Fetches
<1>4. ShutIsShut'
  BY <1>1 DEF GateOpens, ShutIsShut
<1> QED
  BY <1>2, <1>3, <1>4

LEMMA DeskArms ==
  ASSUME DeskInv, NEW i \in Items, Arms(i)
  PROVE  DeskInv'
<1>1. DeskTypeOK'
  BY DEF DeskInv, DeskTypeOK, Arms
<1>2. FlowsAreOfRows' /\ OneFetch' /\ ListsTell' /\ ShutIsShut'
  BY DEF DeskInv, Arms, FlowsAreOfRows, OneFetch, ListsTell, ShutIsShut, TellsTheQueue, Done, Fetches
<1> QED
  BY <1>1, <1>2 DEF DeskInv

LEMMA DeskActs ==
  ASSUME DeskInv, NEW i \in Items, NEW op \in {"restore", "confirm", "unblock"}, Acts(i, op)
  PROVE  DeskInv'
<1> DEFINE f == [row |-> i, op |-> op, step |-> "act", saw |-> {}]
<1>1. f \in Flow /\ flows' = flows \cup {f}
  BY DEF Acts, Flow
<1>2. f.step = "act" /\ f.row = i /\ f.op = op
  OBVIOUS
<1> HIDE DEF f
<1>3. DeskTypeOK'
  BY <1>1, <1>2 DEF DeskInv, DeskTypeOK, Acts, Pending
<1>4. FlowsAreOfRows' /\ OneFetch'
  BY <1>1, <1>2 DEF DeskInv, Acts, FlowsAreOfRows, OneFetch, Fetches
<1>5. ListsTell'
  BY <1>1, <1>2 DEF DeskInv, Acts, ListsTell, TellsTheQueue, Done, Fetches
<1>6. ShutIsShut'
  BY DEF DeskInv, Acts, OnScreen, ShutIsShut
<1> QED
  BY <1>3, <1>4, <1>5, <1>6 DEF DeskInv

\* The route does what it was told: the lists are old in that row until its answer.
LEMMA DeskHappens ==
  ASSUME DeskInv, NEW f \in flows, Happens(f)
  PROVE  DeskInv'
<1> DEFINE g == [f EXCEPT !.step = "acted"]
<1>1. f \in Flow /\ f.row \in Items /\ f.op \in {"restore", "confirm", "unblock"}
  BY DEF DeskInv, DeskTypeOK, FlowsAreOfRows, Happens, Fetches
<1>2. flows' = (flows \ {f}) \cup {g} /\ f.step = "act"
  BY DEF Happens, To
<1>3. g \in Flow /\ g.row = f.row /\ g.op = f.op /\ g.step = "acted"
  BY <1>1 DEF Flow
<1> HIDE DEF g
<1>4. standing' = [standing EXCEPT ![f.row] = standing'[f.row]] /\ standing'[f.row] \in States \cup {"no", "allowed"}
  BY <1>1 DEF Happens, Decided, States, DeskInv, DeskTypeOK
<1>5. DeskTypeOK'
  <2>1. standing' \in [Items -> States \cup {"no", "allowed"}]
    BY <1>4 DEF DeskInv, DeskTypeOK
  <2> QED
    BY <1>1, <1>2, <1>3, <2>1 DEF DeskInv, DeskTypeOK, Happens
<1>6. FlowsAreOfRows' /\ OneFetch'
  BY <1>1, <1>2, <1>3 DEF DeskInv, Happens, FlowsAreOfRows, OneFetch, Fetches
<1>7. \A i \in Items : ~Done(i)' => ~Done(i) /\ standing'[i] = standing[i]
  BY <1>1, <1>2, <1>3, <1>4 DEF Done, DeskInv, DeskTypeOK
<1>8. ListsTell'
  BY <1>1, <1>2, <1>3, <1>7 DEF DeskInv, Happens, ListsTell, TellsTheQueue, Fetches
<1>9. ShutIsShut'
  BY <1>2 DEF DeskInv, Happens, ShutIsShut
<1> QED
  BY <1>5, <1>6, <1>8, <1>9 DEF DeskInv

LEMMA DeskAnswered ==
  ASSUME DeskInv, NEW f \in flows, ActAnswered(f)
  PROVE  DeskInv'
<1> DEFINE g == [f EXCEPT !.step = "fetch"]
<1>1. f \in Flow
  BY DEF DeskInv, DeskTypeOK
<1>2. flows' = (flows \ {f}) \cup {g} /\ f.step = "acted"
  BY DEF ActAnswered, AfterAct, Refreshes, To
<1>3. g \in Flow /\ g.row = f.row /\ g.op = f.op /\ g.step = "fetch"
  BY <1>1 DEF Flow
<1> HIDE DEF g
<1>4. DeskTypeOK'
  <2>1. armed' \in Items \cup {Opening} /\ crossed' \in BOOLEAN
    BY DEF DeskInv, DeskTypeOK, ActAnswered
  <2> QED
    BY <1>1, <1>2, <1>3, <2>1 DEF DeskInv, DeskTypeOK, ActAnswered
<1>5. ~crossed' => ~crossed /\ \A h \in flows : ~Fetches(h)
  BY DEF ActAnswered, Fetches, DeskInv, DeskTypeOK
<1>6. FlowsAreOfRows' /\ OneFetch'
  BY <1>2, <1>3, <1>5 DEF DeskInv, FlowsAreOfRows, OneFetch, Fetches
<1>7. ListsTell'
  BY <1>2, <1>3, <1>5 DEF ListsTell, Fetches
<1>8. ShutIsShut'
  BY <1>2 DEF DeskInv, ActAnswered, ShutIsShut
<1> QED
  BY <1>4, <1>6, <1>7, <1>8 DEF DeskInv

LEMMA DeskActFails ==
  ASSUME DeskInv, NEW f \in flows, ActFails(f)
  PROVE  DeskInv'
<1>1. f \in Flow /\ flows' = flows \ {f} /\ f.row \in Items
  BY DEF DeskInv, DeskTypeOK, ActFails, Gone, FlowsAreOfRows, Fetches
<1>2. DeskTypeOK'
  BY <1>1, DeskAssumption DEF DeskInv, DeskTypeOK, ActFails, Breaks
<1>3. FlowsAreOfRows' /\ OneFetch'
  BY <1>1 DEF DeskInv, ActFails, FlowsAreOfRows, OneFetch, Fetches
<1>4. \A i \in Items \ stale' : i \in Items \ stale /\ (~Done(i)' => ~Done(i))
  BY <1>1 DEF Done, ActFails
<1>5. ListsTell'
  BY <1>1, <1>4 DEF DeskInv, ActFails, ListsTell, TellsTheQueue, Fetches
<1>6. ShutIsShut'
  BY <1>1 DEF DeskInv, ActFails, ShutIsShut
<1> QED
  BY <1>2, <1>3, <1>5, <1>6 DEF DeskInv

LEMMA DeskQueueRead ==
  ASSUME DeskInv, NEW f \in flows, QueueRead(f)
  PROVE  DeskInv'
<1> DEFINE h == [f EXCEPT !.step = "read", !.saw = Queue]
<1>1. f \in Flow /\ f.step = "fetch" /\ flows' = (flows \ {f}) \cup {h}
  BY DEF DeskInv, DeskTypeOK, QueueRead, To
<1>2. /\ Queue \subseteq Items \X States
      /\ \A i \in Items : \A s \in States : <<i, s>> \in Queue <=> standing[i] = s
  BY DEF Queue
<1>3. PICK g \in Flow : /\ g = h /\ g.row = f.row /\ g.op = f.op
                       /\ g.step = "read" /\ g.saw = Queue
  <2>1. h \in Flow /\ h.row = f.row /\ h.op = f.op /\ h.step = "read" /\ h.saw = Queue
    BY <1>1, <1>2 DEF Flow
  <2> QED
    BY ONLY <2>1
<1> HIDE DEF h
<1>4. DeskTypeOK'
  <2>1. flows \subseteq Flow /\ \A p, q \in flows : p.row = q.row => p = q
    BY DEF DeskInv, DeskTypeOK
  <2>2. \A p, q \in flows' : p.row = q.row => p = q
    BY <1>1, <1>3, <2>1
  <2>3. flows' \subseteq Flow
    BY <1>1, <1>3, <2>1
  <2> QED
    BY <2>2, <2>3 DEF DeskInv, DeskTypeOK, QueueRead
<1>5. FlowsAreOfRows' /\ OneFetch'
  BY <1>1, <1>3 DEF DeskInv, QueueRead, FlowsAreOfRows, OneFetch, Fetches
<1>6. ListsTell'
  <2>1. \A p \in flows' : ~crossed /\ Fetches(p) => p = g
    BY <1>1, <1>3 DEF DeskInv, OneFetch, Fetches
  <2>2. TellsTheQueue(g.saw)'
    BY <1>2, <1>3 DEF TellsTheQueue, QueueRead
  <2> QED
    BY <1>1, <1>3, <2>1, <2>2 DEF ListsTell, QueueRead, Fetches
<1>7. ShutIsShut'
  BY <1>1 DEF DeskInv, QueueRead, ShutIsShut
<1> QED
  BY <1>4, <1>5, <1>6, <1>7 DEF DeskInv

\* What is read is shown, if no other fetch is under way by then.
LEMMA DeskQueueShown ==
  ASSUME DeskInv, NEW f \in flows, QueueShown(f)
  PROVE  DeskInv'
<1>1. f \in Flow /\ f.step = "read" /\ flows' = flows \ {f}
  BY DEF DeskInv, DeskTypeOK, QueueShown, Gone
<1>2. screen'.rows = f.saw /\ screen'.kind \in {"empty", "loaded"} /\ f.saw \subseteq Items \X States
  BY <1>1 DEF QueueShown, Flow
<1>3. DeskTypeOK'
  BY <1>1, <1>2 DEF DeskInv, DeskTypeOK, QueueShown
<1>4. FlowsAreOfRows' /\ OneFetch'
  BY <1>1 DEF DeskInv, QueueShown, FlowsAreOfRows, OneFetch, Fetches
<1>5. \A i \in Items : ~Done(i)' => ~Done(i)
  BY <1>1 DEF Done
<1>6. ListsTell'
  BY <1>1, <1>2, <1>5 DEF DeskInv, OneFetch, QueueShown, ListsTell, TellsTheQueue, Fetches
<1>7. ShutIsShut'
  BY <1>1 DEF DeskInv, QueueShown, ShutIsShut
<1> QED
  BY <1>3, <1>4, <1>6, <1>7 DEF DeskInv

LEMMA DeskQueueFails ==
  ASSUME DeskInv, NEW f \in flows, QueueFails(f)
  PROVE  DeskInv'
<1>1. f \in Flow /\ Fetches(f) /\ flows' = flows \ {f} /\ screen' = [kind |-> "failed", rows |-> {}]
  BY DEF DeskInv, DeskTypeOK, QueueFails, Gone, Fetches
<1>2. DeskTypeOK'
  BY <1>1, DeskAssumption DEF DeskInv, DeskTypeOK, QueueFails, Breaks
<1>3. FlowsAreOfRows' /\ OneFetch'
  BY <1>1 DEF DeskInv, QueueFails, FlowsAreOfRows, OneFetch, Fetches
<1>4. ListsTell'
  BY <1>1 DEF DeskInv, OneFetch, QueueFails, ListsTell, Fetches
<1>5. ShutIsShut'
  BY <1>1 DEF DeskInv, QueueFails, ShutIsShut
<1> QED
  BY <1>2, <1>3, <1>4, <1>5 DEF DeskInv

LEMMA DeskElsewhere ==
  ASSUME DeskInv, NEW i \in Items, NEW s \in States \cup {"no", "allowed"}, Elsewhere(i, s)
  PROVE  DeskInv'
<1>1. DeskTypeOK'
  BY DeskAssumption DEF DeskInv, DeskTypeOK, Elsewhere
<1>2. FlowsAreOfRows' /\ OneFetch' /\ ShutIsShut'
  BY DEF DeskInv, Elsewhere, FlowsAreOfRows, OneFetch, ShutIsShut, Fetches
<1>3. \A j \in Items \ stale' : j \in Items \ stale /\ standing'[j] = standing[j] /\ Done(j)' = Done(j)
  BY DEF DeskInv, DeskTypeOK, Elsewhere, Done
<1>4. ListsTell'
  BY <1>3 DEF DeskInv, Elsewhere, ListsTell, TellsTheQueue, Fetches
<1> QED
  BY <1>1, <1>2, <1>4 DEF DeskInv

LEMMA DeskSteps == DeskInv /\ [DeskNext]_deskVars => DeskInv'
<1> SUFFICES ASSUME DeskInv, [DeskNext]_deskVars PROVE DeskInv'
  OBVIOUS
<1>1. CASE UNCHANGED deskVars
  <2>1. DeskTypeOK' /\ FlowsAreOfRows' /\ OneFetch' /\ ListsTell' /\ ShutIsShut'
    BY <1>1 DEF deskVars, DeskInv, DeskTypeOK, FlowsAreOfRows, OneFetch, ListsTell, ShutIsShut,
      TellsTheQueue, Done, Fetches
  <2> QED
    BY <2>1 DEF DeskInv
<1>2. CASE DeskNext
  BY <1>2, DeskGate, DeskArms, DeskActs, DeskElsewhere, DeskHappens, DeskAnswered, DeskActFails,
    DeskQueueRead, DeskQueueShown, DeskQueueFails DEF DeskNext
<1> QED
  BY <1>1, <1>2

LEMMA DeskIsFine == DeskInv => DeskIsInOrder
<1> SUFFICES ASSUME DeskInv PROVE DeskIsInOrder
  OBVIOUS
<1>1. ScreenIsTheQueue
  BY DEF DeskInv, ListsTell, TellsTheQueue, Done, ScreenIsTheQueue
<1>2. ButtonsMeanSomething
  <2> SUFFICES ASSUME flows = {}, ~crossed, NEW i \in Items \ stale, OnScreen(i)
               PROVE  standing[i] = "auto"
    BY DEF ButtonsMeanSomething
  <2>1. screen.rows \subseteq Items \X States
    BY DEF DeskInv, DeskTypeOK
  <2>2. screen.kind = "loaded" /\ \E r \in screen.rows : r[2] = "auto" /\ r[1] = i
    BY DEF OnScreen, Offered, OfferedOf
  <2>3. <<i, "auto">> \in screen.rows
    BY <2>1, <2>2
  <2> QED
    BY <1>1, <2>2, <2>3 DEF ScreenIsTheQueue, States
<1> QED
  BY <1>1, <1>2 DEF DeskInv, DeskIsInOrder

\* The desk and the list of blocked players show and offer what the server has.
THEOREM DeskHolds == DeskSpec => []DeskIsInOrder
  BY DeskStarts, DeskSteps, DeskIsFine, PTL DEF DeskSpec

-----------------------------------------------------------------------------
\* The dialogs of a player's page (Dialogs): a call in flight keeps its form empty and
\* busy, so that what is shown is of the server that answered.

GivenAnswers == [server : Subject, changed : BOOLEAN, lost : BOOLEAN]

\* Each overlay that is open holds one lock, and the first one saved what was there.
OneLockEach ==
  scroll = [count |-> Cardinality(overlays),
            overflow |-> IF overlays = {} THEN "auto" ELSE "hidden", saved |-> "auto"]

\* A form is busy while its call is under way, and shows nothing yet.
BusyWithACall ==
  \A k \in Kinds : /\ forms[k].busy <=> calls[k] # "none"
                   /\ forms[k].busy => forms[k].shows = "form"

\* What is shown, and what is on its way, is true.
TrueWhenGiven ==
  /\ atAnswer \in [Kinds -> GivenAnswers]
  /\ subject.reported => subject.verdict # "none"
  /\ \A k \in Kinds : /\ forms[k].shows # "form" => Says(k, forms[k].shows, atAnswer[k])
                      /\ calls[k] \in Messages => Says(k, calls[k], atAnswer[k])

\* A call, and what came of it, is of this time or was left behind.
OfThisTime ==
  \A k \in Kinds : /\ forms[k].busy \/ forms[k].shows # "form" => k \in submitted \cup escaped
                   /\ forms[k].busy /\ k \notin overlays => k \in escaped

DialogsInv == DialogsTypeOK /\ OneLockEach /\ BusyWithACall /\ TrueWhenGiven /\ OfThisTime

LEMMA OverlaysFinite == IsFiniteSet(Overlay) /\ Cardinality(Overlay) \in Nat
<1>1. IsFiniteSet({}) /\ IsFiniteSet({"report"}) /\ IsFiniteSet({"report", "block"})
  <2>1. IsFiniteSet({})
    BY FS_EmptySet
  <2>2. IsFiniteSet({} \cup {"report"})
    BY <2>1, FS_AddElement
  <2>3. IsFiniteSet({"report"} \cup {"block"})
    BY <2>2, FS_Singleton, FS_AddElement
  <2> QED
    BY <2>1, <2>3, FS_Singleton, Zenon
<1>2. IsFiniteSet({"menu"} \cup {"nav"})
  BY FS_Singleton, FS_AddElement
<1>3. IsFiniteSet({"menu", "nav"} \cup {"claim"})
  <2>1. {"menu"} \cup {"nav"} = {"menu", "nav"}
    OBVIOUS
  <2> QED
    BY <1>2, <2>1, FS_AddElement
<1>4. Overlay = Kinds \cup ({"menu", "nav"} \cup {"claim"})
  BY DEF Overlay
<1>5. IsFiniteSet(Overlay)
  BY <1>1, <1>3, <1>4, FS_Union DEF Kinds
<1> QED
  BY <1>5, FS_CardinalityType

\* What one set has more than another.
LEMMA CountsOver ==
  ASSUME NEW old \in SUBSET Overlay, NEW new \in SUBSET Overlay
  PROVE  /\ {Cardinality(old), Cardinality(new), Cardinality(old \ new), Cardinality(new \ old)} \subseteq Nat
         /\ Cardinality(new) = Cardinality(old) - Cardinality(old \ new) + Cardinality(new \ old)
         /\ Cardinality(old \ new) <= Cardinality(old)
         /\ Cardinality(old) = 0 <=> old = {}
         /\ Cardinality(new) = 0 <=> new = {}
         /\ Cardinality(old \ new) = 0 <=> old \subseteq new
         /\ Cardinality(new \ old) = 0 <=> new \subseteq old
         /\ Cardinality(new) <= Cardinality(Overlay)
<1>1. IsFiniteSet(old) /\ IsFiniteSet(new) /\ IsFiniteSet(old \ new) /\ IsFiniteSet(new \ old)
      /\ IsFiniteSet(old \cap new)
  BY OverlaysFinite, FS_Subset
<1>2. {Cardinality(old), Cardinality(new), Cardinality(old \ new), Cardinality(new \ old),
       Cardinality(old \cap new)} \subseteq Nat
  BY <1>1, FS_CardinalityType
<1>3. Cardinality(old \ new) = Cardinality(old) - Cardinality(old \cap new)
  BY <1>1, FS_Difference
<1>4. Cardinality(new \ old) = Cardinality(new) - Cardinality(new \cap old)
  BY <1>1, FS_Difference
<1>5. new \cap old = old \cap new
  OBVIOUS
<1>6. /\ Cardinality(old) = 0 <=> old = {}
      /\ Cardinality(new) = 0 <=> new = {}
      /\ Cardinality(old \ new) = 0 <=> old \ new = {}
      /\ Cardinality(new \ old) = 0 <=> new \ old = {}
  BY <1>1, FS_EmptySet
<1>7. Cardinality(new) <= Cardinality(Overlay)
  BY OverlaysFinite, FS_Subset
<1>8. /\ Cardinality(new) = Cardinality(old) - Cardinality(old \ new) + Cardinality(new \ old)
      /\ Cardinality(old \ new) <= Cardinality(old)
  <2>1. Cardinality(new \ old) = Cardinality(new) - Cardinality(old \cap new)
    BY <1>4, <1>5
  <2>2. \A a, b, c, d, e \in Nat : c = a - e /\ d = b - e => b = a - c + d /\ c <= a
    OBVIOUS
  <2>3. /\ Cardinality(old) \in Nat /\ Cardinality(new) \in Nat /\ Cardinality(old \ new) \in Nat
        /\ Cardinality(new \ old) \in Nat /\ Cardinality(old \cap new) \in Nat
    BY <1>2
  <2> QED
    BY <1>3, <2>1, <2>2, <2>3
<1>9. (old \ new = {} <=> old \subseteq new) /\ (new \ old = {} <=> new \subseteq old)
  OBVIOUS
<1> QED
  BY <1>2, <1>6, <1>7, <1>8, <1>9

\* A render that opens one overlay at most keeps the locks and closes what is busy knowingly.
LEMMA RendersWell ==
  ASSUME DialogsInv, NEW new \in SUBSET Overlay, Shows(new),
         \/ new \subseteq overlays
         \/ \E x : new \ overlays = {x}
  PROVE  /\ OneLockEach'
         /\ scroll'.count \in 0 .. Cardinality(Overlay)
         /\ {scroll'.overflow, scroll'.saved} \subseteq {"auto", "hidden"}
         /\ overlays' = new
         /\ escaped \subseteq escaped' /\ escaped' \subseteq Kinds
         /\ \A k \in Kinds : forms[k].busy /\ k \notin overlays' => k \in escaped'
<1> DEFINE n == Cardinality(overlays \ new)
           m == Cardinality(new \ overlays)
<1>1. overlays \in SUBSET Overlay /\ overlays' = new /\ escaped \subseteq Kinds
  BY DEF DialogsInv, DialogsTypeOK, Shows
<1>2. /\ {Cardinality(overlays), Cardinality(new), n, m} \subseteq Nat
      /\ Cardinality(new) = Cardinality(overlays) - n + m
      /\ n <= Cardinality(overlays)
      /\ Cardinality(overlays) = 0 <=> overlays = {}
      /\ Cardinality(new) = 0 <=> new = {}
      /\ n = 0 <=> overlays \subseteq new
      /\ m = 0 <=> new \subseteq overlays
      /\ Cardinality(new) <= Cardinality(Overlay)
  BY <1>1, CountsOver
<1>3. m \in {0, 1}
  <2>1. CASE new \subseteq overlays
    BY <1>2, <2>1
  <2>2. CASE \E x : new \ overlays = {x}
    BY <2>2, FS_Singleton
  <2> QED
    BY <2>1, <2>2
<1>4. scroll = [count |-> Cardinality(overlays),
                overflow |-> IF overlays = {} THEN "auto" ELSE "hidden", saved |-> "auto"]
  BY DEF DialogsInv, OneLockEach
<1>5. scroll' = IF new \subseteq overlays THEN Unlocked(scroll, n) ELSE Locked(Unlocked(scroll, n))
  BY DEF Shows
<1> DEFINE c == Cardinality(overlays) - n
           over == IF n > 0 /\ c = 0 THEN "auto" ELSE IF overlays = {} THEN "auto" ELSE "hidden"
<1>6. Unlocked(scroll, n) = [count |-> c, overflow |-> over, saved |-> "auto"]
  <2>1. (IF n > scroll.count THEN 0 ELSE scroll.count - n) = c
    BY <1>2, <1>4
  <2>2. (IF n > 0 /\ c = 0 THEN scroll.saved ELSE scroll.overflow) = over
    BY <1>4
  <2> HIDE DEF c, over, n
  <2>3. Unlocked(scroll, n) = [[scroll EXCEPT !.count = c] EXCEPT !.overflow = over]
    BY <1>4, <2>1, <2>2 DEF Unlocked
  <2> QED
    BY <1>4, <2>3
<1>7. c \in Nat /\ (c = 0 => over = "auto")
  <2>1. \A a, b \in Nat : b <= a => a - b \in Nat /\ (a - b = 0 => b > 0 \/ a = 0)
    OBVIOUS
  <2>2. Cardinality(overlays) \in Nat /\ n \in Nat
    BY <1>2
  <2>3. c \in Nat /\ (c = 0 => n > 0 \/ overlays = {})
    BY <1>2, <2>1, <2>2
  <2> QED
    BY <2>3
<1> HIDE DEF n, m
<1>8. scroll' = [count |-> Cardinality(new), overflow |-> IF new = {} THEN "auto" ELSE "hidden", saved |-> "auto"]
  <2>1. CASE new \subseteq overlays
    <3>1. c = Cardinality(new) /\ m = 0
      BY <1>2, <2>1
    <3>2. over = IF new = {} THEN "auto" ELSE "hidden"
      BY <1>2, <1>7, <2>1, <3>1
    <3> QED
      BY <1>5, <1>6, <2>1, <3>1, <3>2
  <2>2. CASE ~(new \subseteq overlays)
    <3>1. c + 1 = Cardinality(new) /\ new # {}
      BY <1>2, <1>3, <2>2
    <3>2. scroll' = Locks([count |-> c, overflow |-> over, saved |-> "auto"])
      BY <1>5, <1>6, <2>2 DEF Locked
    <3>3. (IF c = 0 THEN over ELSE "auto") = "auto"
      BY <1>7
    <3> HIDE DEF c, over
    <3>4. scroll' = [count |-> c + 1, overflow |-> "hidden", saved |-> IF c = 0 THEN over ELSE "auto"]
      BY <3>2 DEF Locks
    <3> QED
      BY <3>1, <3>3, <3>4
  <2> QED
    BY <2>1, <2>2
<1>9. OneLockEach'
  BY <1>1, <1>8 DEF OneLockEach
<1>10. scroll'.count \in 0 .. Cardinality(Overlay) /\ {scroll'.overflow, scroll'.saved} \subseteq {"auto", "hidden"}
  BY <1>2, <1>8, OverlaysFinite
<1>11. escaped' = escaped \cup {k \in (overlays \ new) \cap Kinds : forms[k].busy}
  BY DEF Shows
<1>12. \A k \in Kinds : forms[k].busy /\ k \notin overlays' => k \in escaped'
  BY <1>1, <1>11 DEF DialogsInv, OfThisTime
<1> QED
  BY <1>1, <1>9, <1>10, <1>11, <1>12

LEMMA DialogsStart == DialogsInit => DialogsInv
<1> SUFFICES ASSUME DialogsInit PROVE DialogsInv
  OBVIOUS
<1>1. subject \in Subject
  BY DEF DialogsInit, Subject
<1>2. DialogsTypeOK
  <2>1. Cardinality(overlays \cap Kinds) = 0
    BY FS_EmptySet DEF DialogsInit
  <2>2. scroll.count \in 0 .. Cardinality(Overlay) /\ {scroll.overflow, scroll.saved} \subseteq {"auto", "hidden"}
    BY OverlaysFinite DEF DialogsInit
  <2>3. openings \in 0 .. MaxOpenings /\ troubles \in 0 .. MaxTroubles /\ turns \in 0 .. MaxTurns
    BY DialogsAssumption DEF DialogsInit
  <2> QED
    BY <1>1, <2>1, <2>2, <2>3 DEF DialogsInit, DialogsTypeOK
<1>3. OneLockEach
  BY FS_EmptySet DEF DialogsInit, OneLockEach
<1>4. BusyWithACall /\ OfThisTime
  BY DEF DialogsInit, BusyWithACall, OfThisTime
<1>5. TrueWhenGiven
  BY <1>1 DEF DialogsInit, TrueWhenGiven, GivenAnswers, Messages
<1> QED
  BY <1>2, <1>3, <1>4, <1>5 DEF DialogsInv

\* What an action that only opens and closes leaves as it was.
LEMMA OnlyRenders ==
  ASSUME DialogsInv, NEW new \in SUBSET Overlay, Shows(new),
         new \subseteq overlays \/ \E x : new \ overlays = {x},
         new \cap Kinds \subseteq overlays,
         UNCHANGED <<subject, forms, calls, troubles, turns, atAnswer, submitted>>,
         linked' \in {"verified", "pending", "unlinked"}, openings' \in 0 .. MaxOpenings
  PROVE  DialogsInv'
<1>1. /\ OneLockEach'
      /\ scroll'.count \in 0 .. Cardinality(Overlay)
      /\ {scroll'.overflow, scroll'.saved} \subseteq {"auto", "hidden"}
      /\ overlays' = new
      /\ escaped \subseteq escaped' /\ escaped' \subseteq Kinds
      /\ \A k \in Kinds : forms[k].busy /\ k \notin overlays' => k \in escaped'
  BY RendersWell
<1>2. Cardinality(new \cap Kinds) <= 1
  <2>1. new \cap Kinds \subseteq overlays \cap Kinds
    OBVIOUS
  <2>2. overlays \cap Kinds \subseteq Overlay
    BY DEF Overlay
  <2>3. IsFiniteSet(overlays \cap Kinds)
    BY <2>2, OverlaysFinite, FS_Subset
  <2>4. /\ Cardinality(new \cap Kinds) <= Cardinality(overlays \cap Kinds)
        /\ Cardinality(new \cap Kinds) \in Nat /\ Cardinality(overlays \cap Kinds) \in Nat
    BY <2>1, <2>3, FS_Subset, FS_CardinalityType
  <2>5. Cardinality(overlays \cap Kinds) <= 1
    BY DEF DialogsInv, DialogsTypeOK
  <2> QED
    BY <2>4, <2>5
<1>3. DialogsTypeOK'
  BY <1>1, <1>2 DEF DialogsInv, DialogsTypeOK
<1>4. BusyWithACall' /\ TrueWhenGiven' /\ OfThisTime'
  BY <1>1 DEF DialogsInv, BusyWithACall, TrueWhenGiven, OfThisTime
<1> QED
  BY <1>1, <1>3, <1>4 DEF DialogsInv

\* The buttons that open and close.
LEMMA Toggles ==
  ASSUME DialogsInv, TogglesMenu \/ OpensNav \/ OpensClaim \/ Escape \/ ClaimSucceeds
  PROVE  DialogsInv'
<1>1. overlays \subseteq Overlay /\ linked \in {"verified", "pending", "unlinked"} /\ openings \in 0 .. MaxOpenings
  BY DEF DialogsInv, DialogsTypeOK
<1>2. MayOpen => openings' \in 0 .. MaxOpenings
  BY <1>1, DialogsAssumption DEF MayOpen
<1>3. CASE TogglesMenu
  <2>1. CASE "menu" \in overlays
    <3> DEFINE new == overlays \ {"menu", "nav"}
    <3>1. /\ new \in SUBSET Overlay /\ Shows(new) /\ new \subseteq overlays /\ new \cap Kinds \subseteq overlays
          /\ UNCHANGED <<subject, forms, calls, troubles, turns, atAnswer, submitted>>
          /\ linked' \in {"verified", "pending", "unlinked"} /\ openings' \in 0 .. MaxOpenings
      BY <1>1, <1>3, <2>1 DEF TogglesMenu
    <3> QED
      BY <3>1, OnlyRenders
  <2>2. CASE "menu" \notin overlays
    <3> DEFINE new == (overlays \ {"nav"}) \cup {"menu"}
    <3>1. /\ Shows(new)
          /\ UNCHANGED <<subject, forms, calls, troubles, turns, atAnswer, submitted>>
          /\ linked' \in {"verified", "pending", "unlinked"} /\ openings' \in 0 .. MaxOpenings
      BY <1>1, <1>2, <1>3, <2>2 DEF TogglesMenu
    <3>2. new \in SUBSET Overlay /\ new \ overlays = {"menu"} /\ new \cap Kinds \subseteq overlays
      BY <1>1, <2>2 DEF Overlay, Kinds
    <3> QED
      BY <3>1, <3>2, OnlyRenders
  <2> QED
    BY <2>1, <2>2
<1>4. CASE OpensNav
  <2> DEFINE new == overlays \cup {"nav"}
  <2>1. /\ Shows(new) /\ "nav" \notin overlays
        /\ UNCHANGED <<subject, forms, calls, troubles, turns, atAnswer, submitted>>
        /\ linked' \in {"verified", "pending", "unlinked"} /\ openings' \in 0 .. MaxOpenings
    BY <1>1, <1>2, <1>4 DEF OpensNav
  <2>2. new \in SUBSET Overlay /\ new \ overlays = {"nav"} /\ new \cap Kinds \subseteq overlays
    BY <1>1, <2>1 DEF Overlay, Kinds
  <2> QED
    BY <2>1, <2>2, OnlyRenders
<1>5. CASE OpensClaim
  <2>1. PICK kept \in {overlays, overlays \ {"nav"}} : Shows(kept \cup {"claim"})
    BY <1>5 DEF OpensClaim
  <2> DEFINE new == kept \cup {"claim"}
  <2>2. /\ Shows(new) /\ "claim" \notin overlays
        /\ UNCHANGED <<subject, forms, calls, troubles, turns, atAnswer, submitted>>
        /\ linked' \in {"verified", "pending", "unlinked"} /\ openings' \in 0 .. MaxOpenings
    BY <1>1, <1>2, <1>5, <2>1 DEF OpensClaim
  <2>3. new \in SUBSET Overlay /\ new \ overlays = {"claim"} /\ new \cap Kinds \subseteq overlays
    BY <1>1, <2>2 DEF Overlay, Kinds
  <2> QED
    BY <2>2, <2>3, OnlyRenders
<1>6. CASE Escape
  <2>1. /\ Shows({})
        /\ UNCHANGED <<subject, forms, calls, troubles, turns, atAnswer, submitted>>
        /\ linked' \in {"verified", "pending", "unlinked"} /\ openings' \in 0 .. MaxOpenings
    BY <1>1, <1>6 DEF Escape
  <2>2. {} \in SUBSET Overlay /\ {} \subseteq overlays /\ {} \cap Kinds \subseteq overlays
    OBVIOUS
  <2> QED
    BY <2>1, <2>2, OnlyRenders
<1>7. CASE ClaimSucceeds
  <2> DEFINE new == overlays \ {"claim"}
  <2>1. /\ new \in SUBSET Overlay /\ Shows(new) /\ new \subseteq overlays /\ new \cap Kinds \subseteq overlays
        /\ UNCHANGED <<subject, forms, calls, troubles, turns, atAnswer, submitted>>
        /\ linked' \in {"verified", "pending", "unlinked"} /\ openings' \in 0 .. MaxOpenings
    BY <1>1, <1>7 DEF ClaimSucceeds
  <2> QED
    BY <2>1, OnlyRenders
<1> QED
  BY <1>3, <1>4, <1>5, <1>6, <1>7

LEMMA ClosesOne ==
  ASSUME DialogsInv, NEW o \in Overlay, Closes(o)
  PROVE  DialogsInv'
<1> DEFINE new == overlays \ {o}
<1>1. overlays \subseteq Overlay /\ linked \in {"verified", "pending", "unlinked"} /\ openings \in 0 .. MaxOpenings
  BY DEF DialogsInv, DialogsTypeOK
<1>2. /\ new \in SUBSET Overlay /\ Shows(new) /\ new \subseteq overlays /\ new \cap Kinds \subseteq overlays
      /\ UNCHANGED <<subject, forms, calls, troubles, turns, atAnswer, submitted>>
      /\ linked' \in {"verified", "pending", "unlinked"} /\ openings' \in 0 .. MaxOpenings
  BY <1>1 DEF Closes
<1> QED
  BY <1>2, OnlyRenders

\* A dialog is picked where none is open, so what it is busy with was left behind.
LEMMA PicksOne ==
  ASSUME DialogsInv, NEW k \in Kinds, Picks(k)
  PROVE  DialogsInv'
<1> DEFINE new == (overlays \ {"menu", "nav"}) \cup {k}
<1>1. overlays \subseteq Overlay /\ openings \in 0 .. MaxOpenings /\ forms \in [Kinds -> [busy : BOOLEAN, shows : Messages \cup {"form"}]]
  BY DEF DialogsInv, DialogsTypeOK
<1>2. overlays \cap Kinds = {} /\ Shows(new)
  BY DEF Picks, Covered, FullScreen
<1>3. new \in SUBSET Overlay /\ new \ overlays = {k} /\ new \cap Kinds = {k}
  BY <1>1, <1>2 DEF Overlay, Kinds
<1>4. /\ OneLockEach'
      /\ scroll'.count \in 0 .. Cardinality(Overlay)
      /\ {scroll'.overflow, scroll'.saved} \subseteq {"auto", "hidden"}
      /\ overlays' = new
      /\ escaped \subseteq escaped' /\ escaped' \subseteq Kinds
      /\ \A j \in Kinds : forms[j].busy /\ j \notin overlays' => j \in escaped'
  BY <1>2, <1>3, RendersWell
<1>5. /\ forms' \in [Kinds -> [busy : BOOLEAN, shows : Messages \cup {"form"}]]
      /\ forms'[k].shows = "form"
      /\ \A j \in Kinds : forms'[j].busy = forms[j].busy
      /\ \A j \in Kinds \ {k} : forms'[j] = forms[j]
  <2>1. OnOpen(forms[k]) = [busy |-> forms[k].busy, shows |-> "form"]
    BY <1>1 DEF OnOpen, Emptied
  <2>2. forms' = [forms EXCEPT ![k] = [busy |-> forms[k].busy, shows |-> "form"]]
    BY <2>1 DEF Picks
  <2> QED
    BY <1>1, <2>2
<1>6. DialogsTypeOK'
  <2>1. openings' \in 0 .. MaxOpenings
    BY <1>1, DialogsAssumption DEF Picks, MayOpen
  <2>2. Cardinality(overlays' \cap Kinds) <= 1
    <3>1. Cardinality({k}) = 1 /\ overlays' \cap Kinds = {k}
      BY <1>3, <1>4, FS_Singleton
    <3> QED
      BY <3>1
  <2>3. submitted' \subseteq Kinds /\ UNCHANGED <<linked, subject, calls, troubles, turns>>
    BY DEF Picks, DialogsInv, DialogsTypeOK
  <2> QED
    BY <1>3, <1>4, <1>5, <2>1, <2>2, <2>3 DEF DialogsInv, DialogsTypeOK
<1>7. BusyWithACall'
  <2>1. calls' = calls
    BY DEF Picks
  <2> QED
    BY <1>5, <2>1 DEF DialogsInv, BusyWithACall
<1>8. TrueWhenGiven'
  <2>1. UNCHANGED <<calls, subject, atAnswer>>
    BY DEF Picks
  <2>2. \A j \in Kinds : forms'[j].shows # "form" => forms'[j].shows = forms[j].shows
    BY <1>5
  <2> QED
    BY <2>1, <2>2 DEF DialogsInv, TrueWhenGiven
<1>9. OfThisTime'
  <2>1. forms[k].busy => k \in escaped
    BY <1>2 DEF DialogsInv, OfThisTime
  <2>2. submitted' = submitted \ {k}
    BY DEF Picks
  <2> QED
    BY <1>3, <1>4, <1>5, <2>1, <2>2 DEF DialogsInv, OfThisTime
<1> QED
  BY <1>4, <1>6, <1>7, <1>8, <1>9 DEF DialogsInv

-----------------------------------------------------------------------------
\* The requests.

LEMMA SubmitsOne ==
  ASSUME DialogsInv, NEW k \in Kinds, Submits(k)
  PROVE  DialogsInv'
<1>1. forms \in [Kinds -> [busy : BOOLEAN, shows : Messages \cup {"form"}]]
      /\ calls \in [Kinds -> {"none", "sent", "admitted"} \cup Messages]
  BY DEF DialogsInv, DialogsTypeOK
<1>2. /\ forms' \in [Kinds -> [busy : BOOLEAN, shows : Messages \cup {"form"}]]
      /\ calls' \in [Kinds -> {"none", "sent", "admitted"} \cup Messages]
      /\ forms'[k].busy /\ forms'[k].shows = "form" /\ calls'[k] = "sent"
      /\ \A j \in Kinds \ {k} : forms'[j] = forms[j] /\ calls'[j] = calls[j]
  BY <1>1 DEF Submits
<1>3. DialogsTypeOK'
  <2>1. submitted' \cup escaped' \subseteq Kinds
    BY DEF Submits, DialogsInv, DialogsTypeOK
  <2> QED
    BY <1>2, <2>1 DEF DialogsInv, DialogsTypeOK, Submits
<1>4. OneLockEach'
  BY DEF DialogsInv, OneLockEach, Submits
<1>5. BusyWithACall'
  BY <1>2 DEF DialogsInv, BusyWithACall
<1>6. TrueWhenGiven'
  BY <1>2 DEF DialogsInv, TrueWhenGiven, Submits, Messages
<1>7. OfThisTime'
  BY <1>2 DEF DialogsInv, OfThisTime, Submits
<1> QED
  BY <1>3, <1>4, <1>5, <1>6, <1>7 DEF DialogsInv

\* An answer is given: it is true of the server that gave it.
LEMMA AnswersTruly ==
  ASSUME DialogsInv, NEW k \in Kinds, NEW said \in Messages, NEW new \in Subject,
         calls[k] # "none", Answered(k, said, new),
         new.reported => new.verdict # "none",
         Says(k, said, [server |-> new, changed |-> new # subject, lost |-> FALSE]),
         UNCHANGED <<linked, overlays, scroll, forms, openings, troubles, turns, submitted, escaped>>
  PROVE  DialogsInv'
<1>1. calls \in [Kinds -> {"none", "sent", "admitted"} \cup Messages] /\ atAnswer \in [Kinds -> GivenAnswers]
  BY DEF DialogsInv, DialogsTypeOK, TrueWhenGiven
<1> DEFINE at == [server |-> new, changed |-> new # subject, lost |-> FALSE]
<1>2. at \in GivenAnswers
  BY DEF GivenAnswers
<1> HIDE DEF at
<1>3. /\ calls' \in [Kinds -> {"none", "sent", "admitted"} \cup Messages] /\ calls'[k] = said
      /\ atAnswer' \in [Kinds -> GivenAnswers] /\ atAnswer'[k] = at
      /\ \A j \in Kinds \ {k} : calls'[j] = calls[j] /\ atAnswer'[j] = atAnswer[j]
      /\ subject' = new
  BY <1>1, <1>2 DEF Answered, at
<1>4. DialogsTypeOK'
  BY <1>3 DEF DialogsInv, DialogsTypeOK
<1>5. OneLockEach' /\ OfThisTime'
  BY DEF DialogsInv, OneLockEach, OfThisTime
<1>6. BusyWithACall'
  BY <1>3 DEF DialogsInv, BusyWithACall, Messages
<1>7. TrueWhenGiven'
  <2>1. forms[k].shows = "form"
    BY DEF DialogsInv, BusyWithACall
  <2>2. Says(k, said, at)
    BY DEF at
  <2> QED
    BY <1>3, <2>1, <2>2 DEF DialogsInv, TrueWhenGiven
<1> QED
  BY <1>4, <1>5, <1>6, <1>7 DEF DialogsInv

LEMMA ConsidersOne ==
  ASSUME DialogsInv, NEW k \in Kinds, Considers(k)
  PROVE  DialogsInv'
<1>1. CASE Refusal(k) = "admitted"
  <2>1. calls \in [Kinds -> {"none", "sent", "admitted"} \cup Messages]
    BY DEF DialogsInv, DialogsTypeOK
  <2>2. /\ calls' \in [Kinds -> {"none", "sent", "admitted"} \cup Messages]
        /\ calls'[k] = "admitted" /\ calls[k] = "sent" /\ \A j \in Kinds \ {k} : calls'[j] = calls[j]
        /\ UNCHANGED <<subject, atAnswer, linked, overlays, scroll, forms, openings, troubles, turns, submitted, escaped>>
    BY <1>1, <2>1 DEF Considers
  <2>3. DialogsTypeOK'
    BY <2>2 DEF DialogsInv, DialogsTypeOK
  <2>4. OneLockEach' /\ OfThisTime' /\ BusyWithACall'
    BY <2>2 DEF DialogsInv, OneLockEach, OfThisTime, BusyWithACall
  <2>5. TrueWhenGiven'
    BY <2>2 DEF DialogsInv, TrueWhenGiven, Messages
  <2> QED
    BY <2>3, <2>4, <2>5 DEF DialogsInv
<1>2. CASE Refusal(k) # "admitted"
  <2>1. /\ calls[k] # "none" /\ Answered(k, Refusal(k), subject)
        /\ UNCHANGED <<linked, overlays, scroll, forms, openings, troubles, turns, submitted, escaped>>
    BY <1>2 DEF Considers
  <2>2. subject \in Subject /\ (subject.reported => subject.verdict # "none")
    BY DEF DialogsInv, DialogsTypeOK, TrueWhenGiven
  <2>3. PICK at : at = [server |-> subject, changed |-> subject # subject, lost |-> FALSE]
    OBVIOUS
  <2>4. at.server = subject /\ ~at.changed
    BY <2>3
  <2>5. Refusal(k) \in Messages /\ Says(k, Refusal(k), at)
    BY <1>2, <2>4 DEF Refusal, Says, Messages, Kinds
  <2> QED
    BY <2>1, <2>2, <2>3, <2>5, AnswersTruly
<1> QED
  BY <1>1, <1>2

LEMMA CommitsOne ==
  ASSUME DialogsInv, NEW k \in Kinds, Commits(k)
  PROVE  DialogsInv'
<1>1. /\ subject \in Subject /\ (subject.reported => subject.verdict # "none")
      /\ calls[k] # "none"
      /\ UNCHANGED <<linked, overlays, scroll, forms, openings, troubles, turns, submitted, escaped>>
  BY DEF DialogsInv, DialogsTypeOK, TrueWhenGiven, Commits
<1>2. CASE k = "block"
  <2>1. PICK new : new = [subject EXCEPT !.blocked = TRUE, !.shares = FALSE]
    OBVIOUS
  <2>2. new \in Subject /\ new.blocked /\ ~new.shares /\ new.reported = subject.reported /\ new.verdict = subject.verdict
    BY <1>1, <2>1 DEF Subject
  <2>3. Answered(k, "done", new)
    BY <1>2, <2>1 DEF Commits
  <2>4. PICK at : at = [server |-> new, changed |-> new # subject, lost |-> FALSE]
    OBVIOUS
  <2>5. at.server = new
    BY <2>4
  <2>6. "done" \in Messages /\ Says(k, "done", at)
    BY <1>2, <2>2, <2>5 DEF Says, Messages
  <2> QED
    BY <1>1, <2>2, <2>3, <2>4, <2>6, AnswersTruly
<1>3. CASE k = "report"
  <2>1. PICK new : new = IF Verdict = "done" /\ subject.verdict = "none" THEN [Filed EXCEPT !.verdict = "auto"] ELSE Filed
    OBVIOUS
  <2>2. /\ Filed \in Subject /\ Filed.verdict = subject.verdict /\ Filed.reported
        /\ [Filed EXCEPT !.verdict = "auto"] \in Subject
        /\ [Filed EXCEPT !.verdict = "auto"].verdict = "auto"
    BY <1>1 DEF Filed, Subject
  <2>3. /\ new \in Subject
        /\ new.verdict = IF Verdict = "done" /\ subject.verdict = "none" THEN "auto" ELSE subject.verdict
        /\ new.reported
    <3>1. [Filed EXCEPT !.verdict = "auto"].reported
      BY <1>1 DEF Filed, Subject
    <3> QED
      BY <2>1, <2>2, <3>1
  <2>4. subject.verdict \in {"none", "auto", "confirmed", "allowed"}
    BY <1>1 DEF Subject
  <2>5. Answered(k, Verdict, new)
    BY <1>3, <2>1 DEF Commits
  <2>6. PICK at : at = [server |-> new, changed |-> new # subject, lost |-> FALSE]
    OBVIOUS
  <2>7. at.server = new
    BY <2>6
  <2>8. /\ Verdict \in {"already_reviewed", "already_reported", "done"}
        /\ Verdict = "already_reviewed" => subject.verdict = "allowed"
        /\ Verdict # "already_reviewed" => subject.verdict # "allowed"
        /\ Verdict = "already_reported" => subject.reported
    <3>1. CASE subject.verdict = "allowed"
      <4>1. Verdict = "already_reviewed"
        BY <3>1 DEF Verdict, ReportAnswer
      <4> QED
        BY <3>1, <4>1
    <3>2. CASE subject.verdict # "allowed" /\ subject.reported
      BY <3>2 DEF Verdict, ReportAnswer
    <3>3. CASE subject.verdict # "allowed" /\ ~subject.reported
      BY <3>3 DEF Verdict, ReportAnswer
    <3> QED
      BY <3>1, <3>2, <3>3
  <2>9. new.verdict # "none"
    BY <1>1, <2>3, <2>4, <2>8
  <2>10. Verdict # "already_reviewed" => new.verdict \in {"auto", "confirmed"}
    BY <1>1, <2>3, <2>4, <2>8, <2>9
  <2>11. Verdict = "already_reviewed" => new.verdict = "allowed"
    BY <2>3, <2>8
  <2>12. Verdict \in Messages /\ Says(k, Verdict, at)
    BY <1>3, <2>3, <2>7, <2>8, <2>10, <2>11 DEF Says, Messages
  <2> QED
    BY <1>1, <2>3, <2>5, <2>6, <2>9, <2>12, AnswersTruly
<1> QED
  BY <1>2, <1>3 DEF Kinds

\* What the dialog gets to see ends its call.
LEMMA SettlesOne ==
  ASSUME DialogsInv, NEW k \in Kinds, NEW said \in Messages, Settled(k, said), calls[k] # "none",
         atAnswer' \in [Kinds -> GivenAnswers], Says(k, said, atAnswer'[k]),
         \A j \in Kinds \ {k} : atAnswer'[j] = atAnswer[j],
         troubles' \in 0 .. MaxTroubles,
         UNCHANGED <<linked, subject, overlays, scroll, openings, turns, submitted, escaped>>
  PROVE  DialogsInv'
<1>1. forms \in [Kinds -> [busy : BOOLEAN, shows : Messages \cup {"form"}]]
      /\ calls \in [Kinds -> {"none", "sent", "admitted"} \cup Messages]
  BY DEF DialogsInv, DialogsTypeOK
<1>2. /\ forms' \in [Kinds -> [busy : BOOLEAN, shows : Messages \cup {"form"}]]
      /\ calls' \in [Kinds -> {"none", "sent", "admitted"} \cup Messages]
      /\ ~forms'[k].busy /\ forms'[k].shows = said /\ calls'[k] = "none"
      /\ \A j \in Kinds \ {k} : forms'[j] = forms[j] /\ calls'[j] = calls[j]
  BY <1>1 DEF Settled
<1>3. DialogsTypeOK'
  BY <1>2 DEF DialogsInv, DialogsTypeOK
<1>4. OneLockEach' /\ BusyWithACall'
  BY <1>2 DEF DialogsInv, OneLockEach, BusyWithACall
<1>5. TrueWhenGiven'
  BY <1>2 DEF DialogsInv, TrueWhenGiven, Messages
<1>6. OfThisTime'
  BY <1>2 DEF DialogsInv, OfThisTime, BusyWithACall
<1> QED
  BY <1>3, <1>4, <1>5, <1>6 DEF DialogsInv

LEMMA ComesOrBreaks ==
  ASSUME DialogsInv, NEW k \in Kinds, AnswerComes(k) \/ CallBreaks(k)
  PROVE  DialogsInv'
<1>1. atAnswer \in [Kinds -> GivenAnswers] /\ subject \in Subject /\ troubles \in 0 .. MaxTroubles
  BY DEF DialogsInv, DialogsTypeOK, TrueWhenGiven
<1>2. CASE AnswerComes(k)
  <2>1. /\ calls[k] \in Messages /\ Settled(k, calls[k]) /\ calls[k] # "none"
        /\ UNCHANGED <<linked, subject, overlays, scroll, openings, troubles, turns, atAnswer, submitted, escaped>>
    BY <1>2 DEF AnswerComes, Messages
  <2>2. Says(k, calls[k], atAnswer'[k])
    BY <2>1 DEF DialogsInv, TrueWhenGiven
  <2> QED
    BY <1>1, <2>1, <2>2, SettlesOne
<1>3. CASE CallBreaks(k)
  <2>1. PICK at : at = IF calls[k] \in Messages THEN [atAnswer[k] EXCEPT !.lost = TRUE]
                       ELSE [server |-> subject, changed |-> FALSE, lost |-> FALSE]
    OBVIOUS
  <2>2. at \in GivenAnswers /\ (~at.changed \/ at.lost)
    BY <1>1, <2>1 DEF GivenAnswers
  <2>3. atAnswer' = [atAnswer EXCEPT ![k] = at]
    BY <1>3, <2>1 DEF CallBreaks
  <2>4. /\ atAnswer' \in [Kinds -> GivenAnswers] /\ atAnswer'[k] = at
        /\ \A j \in Kinds \ {k} : atAnswer'[j] = atAnswer[j]
    BY <1>1, <2>2, <2>3
  <2>5. "fallback" \in Messages /\ Says(k, "fallback", atAnswer'[k])
    BY <2>2, <2>4 DEF Says, Messages
  <2>6. troubles' \in 0 .. MaxTroubles
    BY <1>1, <1>3, DialogsAssumption DEF CallBreaks
  <2>7. /\ Settled(k, "fallback") /\ calls[k] # "none"
        /\ UNCHANGED <<linked, subject, overlays, scroll, openings, turns, submitted, escaped>>
    BY <1>3 DEF CallBreaks
  <2> QED
    BY <2>4, <2>5, <2>6, <2>7, SettlesOne
<1> QED
  BY <1>2, <1>3

\* Whatever the others do, a reported image keeps a verdict.
LEMMA OthersTurn ==
  ASSUME DialogsInv, OthersDo
  PROVE  DialogsInv'
<1>1. subject \in Subject /\ (subject.reported => subject.verdict # "none")
  BY DEF DialogsInv, DialogsTypeOK, TrueWhenGiven
<1>2. \E new \in Subject : Becomes(new) /\ (new.reported => new.verdict # "none")
  <2>1. CASE \E u \in {"subject", "viewer"} : PictureChanges(u)
    <3>1. PICK u \in {"subject", "viewer"} : PictureChanges(u)
      BY <2>1
    <3> DEFINE held == IF u \in subject.holders THEN subject.holders \ {u} ELSE subject.holders \cup {u}
    <3>2. held \in SUBSET {"subject", "viewer"}
      BY <1>1 DEF Subject
    <3>3. Becomes([subject EXCEPT !.holders = held])
      BY <3>1 DEF PictureChanges
    <3> HIDE DEF held
    <3>4. /\ [subject EXCEPT !.holders = held] \in Subject
          /\ [subject EXCEPT !.holders = held].reported = subject.reported
          /\ [subject EXCEPT !.holders = held].verdict = subject.verdict
      BY <1>1, <3>2 DEF Subject
    <3> QED
      BY <1>1, <3>3, <3>4
  <2>2. CASE AnotherReports
    BY <1>1, <2>2 DEF AnotherReports, Subject
  <2>3. CASE Restores
    BY <1>1, <2>3 DEF Restores, Subject
  <2>4. CASE Destroys
    <3>1. PICK new : new = [subject EXCEPT !.verdict = "confirmed", !.holders = {}]
      OBVIOUS
    <3>2. new \in Subject /\ new.verdict = "confirmed"
      BY <1>1, <3>1 DEF Subject
    <3> QED
      BY <2>4, <3>1, <3>2 DEF Destroys
  <2>5. CASE CapMoves
    <3>1. PICK new : new = [subject EXCEPT !.capped = ~@]
      OBVIOUS
    <3>2. new \in Subject /\ new.verdict = subject.verdict /\ new.reported = subject.reported
      BY <1>1, <3>1 DEF Subject
    <3> QED
      BY <1>1, <2>5, <3>1, <3>2 DEF CapMoves
  <2>6. CASE AccountGoes
    <3>1. PICK new : new = [subject EXCEPT !.owner = "nobody", !.holders = @ \ {"subject"},
                                           !.blocked = FALSE, !.shares = FALSE]
      OBVIOUS
    <3>2. new \in Subject /\ new.verdict = subject.verdict /\ new.reported = subject.reported
      BY <1>1, <3>1 DEF Subject
    <3> QED
      BY <1>1, <2>6, <3>1, <3>2 DEF AccountGoes
  <2>7. CASE SessionRunsOut
    <3>1. PICK new : new = [subject EXCEPT !.session = FALSE]
      OBVIOUS
    <3>2. new \in Subject /\ new.verdict = subject.verdict /\ new.reported = subject.reported
      BY <1>1, <3>1 DEF Subject
    <3> QED
      BY <1>1, <2>7, <3>1, <3>2 DEF SessionRunsOut
  <2> QED
    BY <2>1, <2>2, <2>3, <2>4, <2>5, <2>6, <2>7 DEF OthersDo
<1>3. PICK new \in Subject : Becomes(new) /\ (new.reported => new.verdict # "none")
  BY <1>2
<1>4. DialogsTypeOK'
  <2>1. turns' \in 0 .. MaxTurns
    BY <1>3, DialogsAssumption DEF Becomes, DialogsInv, DialogsTypeOK
  <2> QED
    BY <1>3, <2>1 DEF Becomes, DialogsInv, DialogsTypeOK
<1>5. OneLockEach' /\ BusyWithACall' /\ TrueWhenGiven' /\ OfThisTime'
  BY <1>3 DEF Becomes, DialogsInv, OneLockEach, BusyWithACall, TrueWhenGiven, OfThisTime
<1> QED
  BY <1>4, <1>5 DEF DialogsInv

LEMMA DialogsStep == DialogsInv /\ [DialogsNext]_dialogVars => DialogsInv'
<1> SUFFICES ASSUME DialogsInv, [DialogsNext]_dialogVars PROVE DialogsInv'
  OBVIOUS
<1>1. CASE UNCHANGED dialogVars
  <2>1. DialogsTypeOK'
    BY <1>1 DEF dialogVars, DialogsInv, DialogsTypeOK
  <2>2. OneLockEach' /\ BusyWithACall' /\ TrueWhenGiven' /\ OfThisTime'
    BY <1>1 DEF dialogVars, DialogsInv, OneLockEach, BusyWithACall, TrueWhenGiven, OfThisTime
  <2> QED
    BY <2>1, <2>2 DEF DialogsInv
<1>2. CASE DialogsNext
  BY <1>2, Toggles, ClosesOne, PicksOne, SubmitsOne, ConsidersOne, CommitsOne, ComesOrBreaks, OthersTurn DEF DialogsNext
<1> QED
  BY <1>1, <1>2

LEMMA DialogsAreFine == DialogsInv => DialogsAreHonest
<1> SUFFICES ASSUME DialogsInv PROVE DialogsAreHonest
  OBVIOUS
<1>1. EveryMessageTrue
  BY DEF DialogsInv, TrueWhenGiven, EveryMessageTrue
<1>2. ConfirmsThisTime
  BY DEF DialogsInv, OfThisTime, ConfirmsThisTime
<1>3. PageIsFree
  BY DEF DialogsInv, OneLockEach, PageIsFree
<1> QED
  BY <1>1, <1>2, <1>3 DEF DialogsInv, DialogsAreHonest

\* A dialog's messages are true, of this time, and the page scrolls when it should.
THEOREM DialogsHold == DialogsSpec => []DialogsAreHonest
  BY DialogsStart, DialogsStep, DialogsAreFine, PTL DEF DialogsSpec

\* Of the site as it is run: whichever of its machines moves, a dialog tells the truth
\* of its request, and the desk of its rows.
THEOREM ActsShown == SiteSpec => []ActsAreAsShown
<1>1. SiteInit => DeskInv /\ DialogsInv
  BY DeskStarts, DialogsStart DEF SiteInit
<1>2. DeskInv /\ DialogsInv /\ [SiteNext]_siteVars => DeskInv' /\ DialogsInv'
  <2>1. [SiteNext]_siteVars => [DeskNext]_deskVars /\ [DialogsNext]_dialogVars
    BY DEF SiteNext, siteVars
  <2> QED
    BY <2>1, DeskSteps, DialogsStep
<1>3. DeskInv /\ DialogsInv => ActsAreAsShown
  BY DeskIsFine, DialogsAreFine DEF ActsAreAsShown
<1> QED
  BY <1>1, <1>2, <1>3, PTL DEF SiteSpec

-----------------------------------------------------------------------------
\* Push alerts.  What the toggle says rests on the one task of the page; that
\* nobody is pushed to after a sign-out rests on endpoints being used once.

\* No endpoint is anywhere before the browser had it, and a page that was left shows
\* no task.
EndpointsKnown ==
  /\ subscription <= endpoints
  /\ \A r \in subscribed : r.endpoint <= endpoints
  /\ \A t \in tasks : /\ t.endpoint <= endpoints
                      /\ t.op = "enable" /\ t.step = "server" => t.endpoint # 0
                      /\ t.shown => toggle # "absent"

\* What the task of the toggle on the page goes by is still so.
GoesBy(t) ==
  /\ t.shown
  /\ t.op = "reconcile" /\ t.step = "status" => t.endpoint = subscription
  /\ t.op = "enable" /\ t.step # "server" => ~Reaches(session)
  /\ t.op = "enable" /\ t.step = "server" => t.endpoint = subscription

\* A toggle that was told of everything waits for one task of its own or is
\* settled, and no sign-out has got as far as the rows.
ToggleTold ==
  toggle # "absent" /\ ~unsure =>
    /\ leaving # "browser"
    /\ toggle = "working" => \E t \in tasks : tasks = {t} /\ GoesBy(t)
    /\ toggle # "working" => tasks = {}
    /\ toggle = "on" => Reaches(session)
    /\ toggle = "off" => ~Reaches(session)

\* Past its teardown, a sign-out leaves no row that reaches, or is known to have
\* slipped.
TornDown == leaving \in {"browser", "session"} /\ Reaches(session) => session \in slipped

PushInv == PushControlTypeOK /\ EndpointsKnown /\ ToggleTold /\ NobodyElsesNews /\ TornDown

LEMMA PushInitInv == PushControlInit => PushInv
<1> SUFFICES ASSUME PushControlInit PROVE PushInv
  OBVIOUS
<1>0. MaxEndpoints \in Nat /\ MaxMishaps \in Nat
  BY PushControlAssumption
<1>1. PushControlTypeOK
  <2>1. /\ {subscription, endpoints} \subseteq 0 .. MaxEndpoints
        /\ mishaps \in 0 .. MaxMishaps
    BY <1>0 DEF PushControlInit
  <2> QED
    BY <2>1 DEF PushControlInit, PushControlTypeOK
<1>2. EndpointsKnown
  BY DEF PushControlInit, EndpointsKnown
<1>3. ToggleTold
  BY DEF PushControlInit, ToggleTold
<1>4. NobodyElsesNews /\ TornDown
  BY DEF PushControlInit, NobodyElsesNews, TornDown, Reaches
<1> QED
  BY <1>1, <1>2, <1>3, <1>4 DEF PushInv

\* The tasks stay well-typed: one is dropped, or goes on to another step.
LEMMA TaskGoesOn ==
  ASSUME NEW t \in Task, NEW st \in {"browser", "status", "prompt", "subscribe", "server"}
  PROVE  /\ [t EXCEPT !.step = st] \in Task
         /\ [t EXCEPT !.step = st].op = t.op /\ [t EXCEPT !.step = st].step = st
         /\ [t EXCEPT !.step = st].endpoint = t.endpoint
         /\ [t EXCEPT !.step = st].shown = t.shown
  BY DEF Task

LEMMA TaskGoesOnAt ==
  ASSUME NEW t \in Task, NEW e \in 0 .. MaxEndpoints,
         NEW st \in {"browser", "status", "prompt", "subscribe", "server"}
  PROVE  /\ [t EXCEPT !.step = st, !.endpoint = e] \in Task
         /\ [t EXCEPT !.step = st, !.endpoint = e].op = t.op
         /\ [t EXCEPT !.step = st, !.endpoint = e].step = st
         /\ [t EXCEPT !.step = st, !.endpoint = e].endpoint = e
         /\ [t EXCEPT !.step = st, !.endpoint = e].shown = t.shown
  BY DEF Task

LEMMA TaskLeft ==
  ASSUME NEW t \in Task
  PROVE  /\ [t EXCEPT !.shown = FALSE] \in Task
         /\ ~[t EXCEPT !.shown = FALSE].shown
         /\ [t EXCEPT !.shown = FALSE].op = t.op
         /\ [t EXCEPT !.shown = FALSE].step = t.step
         /\ [t EXCEPT !.shown = FALSE].endpoint = t.endpoint
  BY DEF Task

\* Who is reached, by what is subscribed.
LEMMA RowsChange ==
  ASSUME PushInv, NEW e \in 0 .. MaxEndpoints
  PROVE  /\ session # Anon /\ e # 0 =>
              /\ Upserted(e) \subseteq [endpoint : 1 .. MaxEndpoints, user : People, live : BOOLEAN]
              /\ e <= endpoints => \A r \in Upserted(e) : r.endpoint <= endpoints
         /\ Deleted(e) \subseteq subscribed
         /\ \A u \in People : \A f : [endpoint |-> f, user |-> u, live |-> TRUE] \in Upserted(e) =>
              u = session \/ RowActive(u, f)
         /\ [endpoint |-> e, user |-> session, live |-> TRUE] \in Upserted(e)
         /\ [endpoint |-> e, user |-> session, live |-> TRUE] \notin Deleted(e)
         /\ \A u : RowActive(u, subscription) =>
              subscription # 0 /\ u \in People
         /\ ~RowActive(session, endpoints + 1)
         /\ \A u : ~RowActive(u, endpoints + 1)
<1>1. /\ session \in People \cup {Anon} /\ {subscription, endpoints} \subseteq 0 .. MaxEndpoints
      /\ subscribed \subseteq [endpoint : 1 .. MaxEndpoints, user : People, live : BOOLEAN]
      /\ \A r \in subscribed : r.endpoint <= endpoints
  BY DEF PushInv, PushControlTypeOK, EndpointsKnown
<1>2. MaxEndpoints \in Nat
  BY PushControlAssumption
<1>3. session # Anon /\ e # 0 =>
        /\ Upserted(e) \subseteq [endpoint : 1 .. MaxEndpoints, user : People, live : BOOLEAN]
        /\ e <= endpoints => \A r \in Upserted(e) : r.endpoint <= endpoints
  <2> SUFFICES ASSUME session # Anon, e # 0
               PROVE  /\ Upserted(e) \subseteq [endpoint : 1 .. MaxEndpoints, user : People,
                                                live : BOOLEAN]
                      /\ e <= endpoints => \A r \in Upserted(e) : r.endpoint <= endpoints
    OBVIOUS
  <2> DEFINE new == [endpoint |-> e, user |-> session, live |-> TRUE]
  <2>1. e \in 1 .. MaxEndpoints
    BY <1>2
  <2>2. session \in People
    BY <1>1
  <2>3. new \in [endpoint : 1 .. MaxEndpoints, user : People, live : BOOLEAN]
    BY <2>1, <2>2
  <2>4. new.endpoint = e
    OBVIOUS
  <2>5. Upserted(e) \subseteq subscribed \cup {new}
    BY DEF Upserted
  <2> HIDE DEF new
  <2> QED
    BY <1>1, <2>3, <2>4, <2>5
<1>4. \A u : ~RowActive(u, endpoints + 1)
  BY <1>1, <1>2 DEF RowActive
<1>5. \A u : RowActive(u, subscription) => subscription # 0 /\ u \in People
  BY <1>1, <1>2 DEF RowActive
<1>6. /\ Deleted(e) \subseteq subscribed
      /\ [endpoint |-> e, user |-> session, live |-> TRUE] \notin Deleted(e)
  BY DEF Deleted, RowsAt
<1>7. /\ \A u \in People : \A f : [endpoint |-> f, user |-> u, live |-> TRUE] \in Upserted(e) =>
           u = session \/ RowActive(u, f)
      /\ [endpoint |-> e, user |-> session, live |-> TRUE] \in Upserted(e)
  BY DEF Upserted, RowActive
<1> QED
  BY <1>3, <1>4, <1>5, <1>6, <1>7

\* The toggle is told the truth by a task that settles or goes on.
LEMMA ToldSettles ==
  ASSUME PushInv, NEW t \in tasks, NEW says \in {"denied", "off", "on", "error"},
         SettlesAs(t, says), UNCHANGED leaving, ~unsure' => ~unsure,
         toggle # "absent" /\ ~unsure /\ ~unsure' /\ tasks = {t} /\ GoesBy(t) =>
           (says = "on" => Reaches(session)') /\ (says = "off" => ~Reaches(session)')
  PROVE  ToggleTold'
<1> SUFFICES ASSUME toggle' # "absent", ~unsure'
             PROVE  /\ leaving' # "browser" /\ toggle' # "working" /\ tasks' = {}
                    /\ toggle' = "on" => Reaches(session)'
                    /\ toggle' = "off" => ~Reaches(session)'
  BY DEF ToggleTold
<1>1. toggle # "absent" /\ ~unsure
  BY DEF SettlesAs, PushInv, EndpointsKnown
<1>2. leaving # "browser" /\ tasks = {t} /\ GoesBy(t)
  BY <1>1 DEF PushInv, ToggleTold
<1>3. toggle' = says /\ tasks' = {}
  BY <1>2 DEF SettlesAs, GoesBy
<1> QED
  BY <1>1, <1>2, <1>3

LEMMA ToldGoesOn ==
  ASSUME PushInv, NEW t \in tasks, NEW next, Step(t, next), UNCHANGED <<toggle, leaving>>,
         ~unsure' => ~unsure,
         toggle # "absent" /\ ~unsure /\ ~unsure' /\ tasks = {t} /\ GoesBy(t) => GoesBy(next)'
  PROVE  ToggleTold'
<1> SUFFICES ASSUME toggle' # "absent", ~unsure'
             PROVE  /\ leaving' # "browser" /\ toggle' = "working"
                    /\ \E v \in tasks' : tasks' = {v} /\ GoesBy(v)'
  BY DEF ToggleTold
<1>1. toggle = "working" /\ leaving # "browser" /\ tasks = {t} /\ GoesBy(t)
  BY DEF PushInv, ToggleTold
<1>2. tasks' = {next}
  BY <1>1 DEF Step
<1> QED
  BY <1>1, <1>2

LEMMA ToldOfNothing == toggle' = "absent" \/ unsure' => ToggleTold'
  BY DEF ToggleTold

\* Steps of a task, as to types and endpoints.
LEMMA TaskTypes ==
  ASSUME PushInv, NEW t \in tasks,
         \/ \E says \in {"denied", "off", "on", "error"} : SettlesAs(t, says)
         \/ \E next \in Task : /\ Step(t, next) /\ UNCHANGED toggle
                               /\ next.endpoint <= endpoints'
                               /\ next.op = "enable" /\ next.step = "server" => next.endpoint # 0
                               /\ next.shown = t.shown
  PROVE  /\ toggle' \in {"absent", "working", "unsupported", "ios", "denied", "off", "on", "error"}
         /\ tasks' \subseteq Task
         /\ endpoints <= endpoints' /\ endpoints \in Nat /\ endpoints' \in Nat =>
              \A v \in tasks' : /\ v.endpoint <= endpoints'
                                /\ v.op = "enable" /\ v.step = "server" => v.endpoint # 0
                                /\ v.shown => toggle' # "absent"
<1>1. /\ tasks \subseteq Task
      /\ toggle \in {"absent", "working", "unsupported", "ios", "denied", "off", "on", "error"}
      /\ \A v \in tasks : /\ v.endpoint <= endpoints
                          /\ v.op = "enable" /\ v.step = "server" => v.endpoint # 0
                          /\ v.shown => toggle # "absent"
  BY DEF PushInv, PushControlTypeOK, EndpointsKnown
<1>2. \A v \in tasks : v.endpoint \in Nat
  BY <1>1, PushControlAssumption DEF Task
<1>3. toggle' \in {"absent", "working", "unsupported", "ios", "denied", "off", "on", "error"}
  BY <1>1 DEF SettlesAs
<1>4. \A v \in tasks' :
        v \in Task /\ (v.shown => toggle' # "absent")
  BY <1>1 DEF SettlesAs, Step
<1>5. \A v \in tasks' :
        \/ v \in tasks
        \/ /\ v.endpoint <= endpoints'
           /\ v.op = "enable" /\ v.step = "server" => v.endpoint # 0
  BY DEF SettlesAs, Step
<1> QED
  BY <1>1, <1>2, <1>3, <1>4, <1>5

\* Steps that leave subscriptions, sessions and sign-outs alone.
LEMMA NewsSame ==
  ASSUME PushInv, UNCHANGED <<session, subscription, subscribed, leaving>>, slipped' = slipped
  PROVE  NobodyElsesNews' /\ TornDown'
  BY DEF PushInv, NobodyElsesNews, TornDown, Reaches, RowActive

LEMMA ReconcileStep ==
  ASSUME PushInv, Reconcile
  PROVE  PushInv'
<1> DEFINE v == [op |-> "reconcile", step |-> "browser", endpoint |-> 0, shown |-> TRUE]
<1>1. v \in Task
  BY PushControlAssumption DEF Task, Ops
<1>2. /\ UNCHANGED <<capable, permission, session, subscription, endpoints, subscribed,
                     leaving, mishaps, slipped>>
      /\ \/ toggle' \in {"ios", "unsupported", "denied"} /\ UNCHANGED tasks
         \/ toggle' = "working" /\ tasks' = tasks \cup {v}
      /\ unsure' = (tasks # {} \/ leaving # "no")
  BY DEF Reconcile, StartsTask
<1>3. PushControlTypeOK'
  BY <1>1, <1>2 DEF PushInv, PushControlTypeOK
<1>4. EndpointsKnown'
  BY <1>2, PushControlAssumption DEF PushInv, EndpointsKnown, PushControlTypeOK
<1>5. ToggleTold'
  <2> SUFFICES ASSUME ~unsure' PROVE ToggleTold'
    BY ToldOfNothing
  <2>1. tasks = {} /\ leaving = "no"
    BY <1>2
  <2>2. GoesBy(v)'
    BY DEF GoesBy
  <2> HIDE DEF v
  <2> QED
    BY <1>2, <2>1, <2>2 DEF ToggleTold
<1> QED
  BY <1>2, <1>3, <1>4, <1>5, NewsSame DEF PushInv

LEMMA PushBounds ==
  PushInv => /\ MaxEndpoints \in Nat /\ endpoints \in Nat /\ subscription \in Nat
             /\ subscription \in 0 .. MaxEndpoints /\ endpoints \in 0 .. MaxEndpoints
             /\ subscription <= endpoints /\ tasks \subseteq Task /\ Anon \notin People
             /\ \A t \in tasks : t.endpoint \in 0 .. MaxEndpoints /\ t.endpoint <= endpoints
  BY PushControlAssumption DEF PushInv, PushControlTypeOK, EndpointsKnown, Task

LEMMA TaskStepsQuietly ==
  ASSUME PushInv, NEW t \in tasks,
         \/ ReadsBrowser(t)
         \/ AsksStatus(t)
         \/ \E reply \in {"default", "granted", "denied"} : Prompts(t, reply)
  PROVE  PushInv'
<1> DEFINE prompted == [t EXCEPT !.step = "subscribe"]
<1>0. /\ t \in Task /\ subscription \in 0 .. MaxEndpoints /\ subscription <= endpoints
      /\ t.endpoint <= endpoints /\ endpoints \in Nat
  BY PushBounds
<1>a. PICK asks : asks = [t EXCEPT !.step = "status", !.endpoint = subscription]
  OBVIOUS
<1>b. /\ asks \in Task /\ asks.op = t.op /\ asks.step = "status"
      /\ asks.endpoint = subscription /\ asks.shown = t.shown
  <2>1. /\ [t EXCEPT !.step = "status", !.endpoint = subscription] \in Task
        /\ [t EXCEPT !.step = "status", !.endpoint = subscription].op = t.op
        /\ [t EXCEPT !.step = "status", !.endpoint = subscription].step = "status"
        /\ [t EXCEPT !.step = "status", !.endpoint = subscription].endpoint = subscription
        /\ [t EXCEPT !.step = "status", !.endpoint = subscription].shown = t.shown
    BY <1>0 DEF Task
  <2> QED
    BY <1>a, <2>1
<1>1. /\ prompted \in Task /\ prompted.op = t.op /\ prompted.step = "subscribe"
      /\ prompted.endpoint = t.endpoint /\ prompted.shown = t.shown
  BY <1>0, TaskGoesOn
<1>2. /\ UNCHANGED <<capable, session, subscription, endpoints, subscribed, leaving, slipped>>
      /\ permission' \in {"default", "granted", "denied"}
      /\ mishaps' \in 0 .. MaxMishaps /\ unsure' \in BOOLEAN
  <2>0. permission \in {"default", "granted", "denied"} /\ unsure \in BOOLEAN
    BY DEF PushInv, PushControlTypeOK
  <2>1. /\ mishaps \in 0 .. MaxMishaps /\ MaxMishaps \in Nat
    BY PushControlAssumption DEF PushInv, PushControlTypeOK
  <2>2. /\ UNCHANGED <<capable, session, subscription, endpoints, subscribed, leaving, slipped>>
        /\ \/ UNCHANGED permission
           \/ permission' \in {"default", "granted", "denied"}
        /\ UNCHANGED mishaps \/ Mishap
    BY DEF ReadsBrowser, AsksStatus, Prompts
  <2>3. UNCHANGED unsure \/ unsure' = TRUE
    BY DEF ReadsBrowser, AsksStatus, Prompts
  <2>4. mishaps' \in 0 .. MaxMishaps
    BY <2>1, <2>2 DEF Mishap
  <2>5. unsure' \in BOOLEAN /\ permission' \in {"default", "granted", "denied"}
    BY <2>0, <2>2, <2>3
  <2> QED
    BY <2>2, <2>4, <2>5
<1>3. \/ t.op = "reconcile" /\ SettlesAs(t, "off") /\ subscription = 0
         /\ UNCHANGED unsure
      \/ t.op = "reconcile" /\ subscription # 0 /\ Step(t, asks) /\ UNCHANGED <<toggle, unsure>>
      \/ /\ t.op = "reconcile" /\ t.step = "status" /\ UNCHANGED unsure
         /\ SettlesAs(t, IF RowActive(session, t.endpoint) THEN "on" ELSE "off")
      \/ SettlesAs(t, "off") /\ unsure'
      \/ t.op = "enable" /\ t.step = "prompt" /\ Step(t, prompted) /\ UNCHANGED <<toggle, unsure>>
      \/ /\ t.op = "enable" /\ t.step = "prompt" /\ UNCHANGED unsure
         /\ SettlesAs(t, "denied") \/ SettlesAs(t, "off")
  BY <1>a DEF ReadsBrowser, AsksStatus, Prompts
<1> HIDE DEF prompted
<1>4. \/ \E says \in {"denied", "off", "on", "error"} : SettlesAs(t, says)
      \/ \E next \in Task : /\ Step(t, next) /\ UNCHANGED toggle
                            /\ next.endpoint <= endpoints'
                            /\ next.op = "enable" /\ next.step = "server" => next.endpoint # 0
                            /\ next.shown = t.shown
  BY <1>0, <1>b, <1>1, <1>2, <1>3
<1>5. PushControlTypeOK'
  BY <1>2, <1>4, TaskTypes DEF PushInv, PushControlTypeOK
<1>6. EndpointsKnown'
  BY <1>0, <1>2, <1>4, TaskTypes DEF PushInv, EndpointsKnown
<1>7. ToggleTold'
  <2>1. CASE subscription = 0 /\ SettlesAs(t, "off") /\ UNCHANGED unsure
    BY <1>2, <2>1, ToldSettles DEF Reaches
  <2>2. CASE t.op = "reconcile" /\ Step(t, asks) /\ UNCHANGED <<toggle, unsure>>
    <3>1. GoesBy(t) => GoesBy(asks)'
      BY <1>b, <1>2, <2>2 DEF GoesBy
    <3> QED
      BY <1>2, <2>2, <3>1, ToldGoesOn
  <2>3. CASE /\ t.op = "reconcile" /\ t.step = "status" /\ UNCHANGED unsure
             /\ SettlesAs(t, IF RowActive(session, t.endpoint) THEN "on" ELSE "off")
    <3>1. GoesBy(t) => (RowActive(session, t.endpoint) <=> Reaches(session))
      <4>1. RowActive(session, subscription) => subscription # 0
        BY <1>0, RowsChange
      <4> QED
        BY <2>3, <4>1 DEF GoesBy, Reaches
    <3>2. Reaches(session)' = Reaches(session)
      BY <1>2 DEF Reaches, RowActive
    <3> QED
      BY <1>2, <2>3, <3>1, <3>2, ToldSettles
  <2>4. CASE unsure'
    BY <2>4, ToldOfNothing
  <2>5. CASE t.op = "enable" /\ t.step = "prompt" /\ Step(t, prompted) /\ UNCHANGED <<toggle, unsure>>
    <3>1. GoesBy(t) => GoesBy(prompted)'
      BY <1>1, <1>2, <2>5 DEF GoesBy, Reaches, RowActive
    <3> QED
      BY <1>2, <2>5, <3>1, ToldGoesOn
  <2>6. CASE /\ t.op = "enable" /\ t.step = "prompt" /\ UNCHANGED unsure
             /\ SettlesAs(t, "denied") \/ SettlesAs(t, "off")
    <3>1. GoesBy(t) => ~Reaches(session)'
      BY <1>2, <2>6 DEF GoesBy, Reaches, RowActive
    <3> QED
      BY <1>2, <2>6, <3>1, ToldSettles
  <2> QED
    BY <1>3, <2>1, <2>2, <2>3, <2>4, <2>5, <2>6
<1> QED
  BY <1>2, <1>5, <1>6, <1>7, NewsSame DEF PushInv

LEMMA TogglesStep ==
  ASSUME PushInv, Enable \/ Disable \/ LeavesInbox
  PROVE  PushInv'
<1> DEFINE v == [op |-> "enable", step |-> "prompt", endpoint |-> 0, shown |-> TRUE]
           away == {[t EXCEPT !.shown = FALSE] : t \in tasks}
<1>0. /\ subscription \in 0 .. MaxEndpoints /\ subscription <= endpoints
      /\ endpoints \in Nat /\ tasks \subseteq Task /\ MaxEndpoints \in Nat
  BY PushBounds
<1>a. PICK w : w = [op |-> "disable", step |-> "server", endpoint |-> subscription,
                    shown |-> TRUE]
  OBVIOUS
<1>1. v \in Task /\ w \in Task
  BY <1>0, <1>a DEF Task, Ops
<1>2. \A u \in away : \E t \in tasks : /\ u \in Task /\ ~u.shown /\ u.op = t.op
                                       /\ u.step = t.step /\ u.endpoint = t.endpoint
  <2>1. \A t \in tasks : /\ [t EXCEPT !.shown = FALSE] \in Task
                         /\ ~[t EXCEPT !.shown = FALSE].shown
                         /\ [t EXCEPT !.shown = FALSE].op = t.op
                         /\ [t EXCEPT !.shown = FALSE].step = t.step
                         /\ [t EXCEPT !.shown = FALSE].endpoint = t.endpoint
    BY <1>0, TaskLeft
  <2> QED
    BY <2>1
<1>3. /\ UNCHANGED <<capable, permission, session, subscription, endpoints, subscribed,
                     leaving, mishaps, unsure, slipped>>
      /\ \/ toggle = "off" /\ toggle' = "working" /\ tasks' = tasks \cup {v}
         \/ toggle = "on" /\ toggle' = "working" /\ tasks' = tasks \cup {w}
         \/ toggle = "on" /\ subscription = 0 /\ toggle' = "off" /\ UNCHANGED tasks
         \/ toggle' = "absent" /\ tasks' = away
  BY <1>a DEF Enable, Disable, LeavesInbox, StartsTask
<1>4. \A u \in tasks : /\ u.endpoint <= endpoints
                       /\ u.op = "enable" /\ u.step = "server" => u.endpoint # 0
                       /\ u.shown => toggle # "absent"
  BY DEF PushInv, EndpointsKnown
<1>5. /\ v.op = "enable" /\ v.step = "prompt" /\ v.endpoint = 0 /\ v.shown
      /\ w.op = "disable" /\ w.step = "server" /\ w.endpoint = subscription /\ w.shown
  BY <1>a
<1> HIDE DEF v, away
<1>6. PushControlTypeOK'
  <2>1. tasks' \subseteq Task
    BY <1>0, <1>1, <1>2, <1>3
  <2>2. toggle' \in {"absent", "working", "off"}
    BY <1>3
  <2> QED
    BY <1>3, <2>1, <2>2 DEF PushInv, PushControlTypeOK
<1>7. EndpointsKnown'
  <2>1. \A u \in tasks' : /\ u.endpoint <= endpoints
                          /\ u.op = "enable" /\ u.step = "server" => u.endpoint # 0
                          /\ u.shown => toggle' # "absent"
    BY <1>0, <1>2, <1>3, <1>4, <1>5
  <2> QED
    BY <1>3, <2>1 DEF PushInv, EndpointsKnown
<1>8. ToggleTold'
  <2> SUFFICES ASSUME toggle' # "absent", ~unsure' PROVE ToggleTold'
    BY DEF ToggleTold
  <2>1. toggle \in {"off", "on"} /\ ~unsure
    BY <1>3
  <2>2. /\ leaving # "browser" /\ tasks = {} /\ toggle = "on" => Reaches(session)
        /\ toggle = "off" => ~Reaches(session)
    BY <2>1 DEF PushInv, ToggleTold
  <2>3. CASE toggle' = "working" /\ tasks' = tasks \cup {v} /\ toggle = "off"
    <3>1. GoesBy(v)' /\ tasks' = {v}
      BY <1>3, <1>5, <2>1, <2>2, <2>3 DEF GoesBy, Reaches, RowActive, PushInv, ToggleTold
    <3> QED
      BY <1>3, <2>2, <2>3, <3>1, <2>1 DEF ToggleTold, PushInv
  <2>4. CASE toggle' = "working" /\ tasks' = tasks \cup {w} /\ toggle = "on"
    <3>1. GoesBy(w)' /\ tasks' = {w}
      BY <1>5, <2>1, <2>4 DEF GoesBy, PushInv, ToggleTold
    <3> QED
      BY <1>3, <2>4, <3>1, <2>1 DEF ToggleTold, PushInv
  <2>5. CASE toggle = "on" /\ subscription = 0 /\ toggle' = "off" /\ UNCHANGED tasks
    BY <1>3, <2>1, <2>5 DEF ToggleTold, PushInv, Reaches
  <2> QED
    BY <1>3, <2>3, <2>4, <2>5
<1> QED
  BY <1>3, <1>6, <1>7, <1>8, NewsSame DEF PushInv

\* Steps after which alerts reach nobody new but who is signed in, and not even them
\* on their way out.
LEMMA NewsFewer ==
  ASSUME PushInv, UNCHANGED <<session, leaving>>, slipped \subseteq slipped',
         \A u : Reaches(u)' => \/ Reaches(u)
                               \/ u = session /\ (leaving # "no" => u \in slipped')
  PROVE  NobodyElsesNews' /\ TornDown'
  BY DEF PushInv, NobodyElsesNews, TornDown

LEMMA CallOutcomes ==
  ASSUME PushInv, NEW new, NEW answered \in BOOLEAN, Call(new, answered)
  PROVE  /\ \/ subscribed' = new /\ session # Anon
            \/ subscribed' = subscribed
         /\ answered => subscribed' = new
         /\ mishaps' \in 0 .. MaxMishaps
<1>1. mishaps \in 0 .. MaxMishaps /\ MaxMishaps \in Nat
  BY PushControlAssumption DEF PushInv, PushControlTypeOK
<1>2. \/ mishaps' = mishaps
      \/ mishaps < MaxMishaps /\ mishaps' = mishaps + 1
  BY DEF Call
<1>3. mishaps' \in 0 .. MaxMishaps
  BY <1>1, <1>2
<1>4. \/ subscribed' = new /\ session # Anon
      \/ subscribed' = subscribed
  BY DEF Call
<1>5. answered => subscribed' = new
  BY Zenon DEF Call
<1> QED
  BY <1>3, <1>4, <1>5

LEMMA MishapBounded ==
  ASSUME PushInv, UNCHANGED mishaps \/ Mishap
  PROVE  mishaps' \in 0 .. MaxMishaps
<1>1. mishaps \in 0 .. MaxMishaps /\ MaxMishaps \in Nat
  BY PushControlAssumption DEF PushInv, PushControlTypeOK
<1> QED
  BY <1>1 DEF Mishap

LEMMA SubscribesStep ==
  ASSUME PushInv, NEW t \in tasks, Subscribes(t)
  PROVE  PushInv'
<1>0. /\ t \in Task /\ subscription \in 0 .. MaxEndpoints /\ subscription <= endpoints
      /\ endpoints \in Nat /\ endpoints \in 0 .. MaxEndpoints /\ MaxEndpoints \in Nat
      /\ \A r \in subscribed : r.endpoint <= endpoints
      /\ subscribed \subseteq [endpoint : 1 .. MaxEndpoints, user : People, live : BOOLEAN]
  BY PushBounds DEF PushInv, EndpointsKnown, PushControlTypeOK
<1>1. /\ UNCHANGED <<capable, permission, session, subscribed, leaving, unsure, slipped>>
      /\ t.op = "enable" /\ t.step = "subscribe"
  BY DEF Subscribes
<1>2. CASE Mishap /\ SettlesAs(t, "error") /\ UNCHANGED <<subscription, endpoints>>
  <2>1. mishaps' \in 0 .. MaxMishaps
    BY <1>2, MishapBounded
  <2>2. PushControlTypeOK'
    BY <1>1, <1>2, <2>1, TaskTypes DEF PushInv, PushControlTypeOK
  <2>3. EndpointsKnown'
    BY <1>0, <1>1, <1>2, TaskTypes DEF PushInv, EndpointsKnown
  <2>4. ToggleTold'
    BY <1>1, <1>2, ToldSettles
  <2> QED
    BY <1>1, <1>2, <2>2, <2>3, <2>4, NewsSame DEF PushInv
<1>3. CASE ~(Mishap /\ SettlesAs(t, "error") /\ UNCHANGED <<subscription, endpoints>>)
  <2>1. PICK e : e = IF subscription = 0 THEN endpoints + 1 ELSE subscription
    OBVIOUS
  <2>2. PICK next : next = [t EXCEPT !.step = "server", !.endpoint = e]
    OBVIOUS
  <2>3. /\ subscription # 0 \/ endpoints < MaxEndpoints
        /\ subscription' = e /\ UNCHANGED <<toggle, mishaps>> /\ Step(t, next)
        /\ endpoints' = IF subscription = 0 THEN endpoints + 1 ELSE endpoints
    BY <1>3, <2>1, <2>2 DEF Subscribes
  <2>4. /\ e \in 0 .. MaxEndpoints /\ e # 0 /\ endpoints' \in 0 .. MaxEndpoints
        /\ e <= endpoints' /\ endpoints <= endpoints' /\ endpoints' \in Nat
    BY <1>0, <2>1, <2>3
  <2>5. /\ next \in Task /\ next.op = "enable" /\ next.step = "server" /\ next.endpoint = e
        /\ next.shown = t.shown
    BY <1>0, <1>1, <2>2, <2>4 DEF Task
  <2>6. PushControlTypeOK'
    <3>1. tasks' \subseteq Task
      BY <2>3, <2>4, <2>5, TaskTypes
    <3> QED
      BY <1>1, <2>3, <2>4, <3>1 DEF PushInv, PushControlTypeOK
  <2>7. EndpointsKnown'
    <3>1. \A v \in tasks' : /\ v.endpoint <= endpoints'
                            /\ v.op = "enable" /\ v.step = "server" => v.endpoint # 0
                            /\ v.shown => toggle' # "absent"
      BY <1>0, <2>3, <2>4, <2>5, TaskTypes
    <3>2. \A r \in subscribed : r.endpoint \in Nat
      BY <1>0
    <3>3. \A r \in subscribed' : r.endpoint <= endpoints'
      BY <1>0, <1>1, <2>4, <3>2
    <3> QED
      BY <2>3, <2>4, <3>1, <3>3 DEF EndpointsKnown
  <2>8. ToggleTold'
    <3>1. GoesBy(t) => GoesBy(next)'
      BY <2>3, <2>5 DEF GoesBy
    <3> QED
      BY <1>1, <2>3, <3>1, ToldGoesOn
  <2>9. \A u : Reaches(u)' => Reaches(u)
    <3>1. \A u : ~RowActive(u, endpoints + 1)
      BY <1>0, RowsChange
    <3> QED
      BY <1>1, <2>1, <2>3, <3>1 DEF Reaches, RowActive
  <2> QED
    BY <1>1, <2>6, <2>7, <2>8, <2>9, NewsFewer DEF PushInv
<1> QED
  BY <1>2, <1>3

LEMMA RegistersStep ==
  ASSUME PushInv, NEW t \in tasks, Registers(t)
  PROVE  PushInv'
<1> DEFINE e == t.endpoint
<1>0. /\ t.op = "enable" /\ t.step = "server"
      /\ e \in 0 .. MaxEndpoints /\ e # 0 /\ e <= endpoints /\ endpoints \in Nat
      /\ MaxEndpoints \in Nat /\ subscription \in Nat
  BY PushBounds DEF Registers, PushInv, EndpointsKnown
<1>1. /\ UNCHANGED <<capable, permission, session, subscription, endpoints, leaving>>
      /\ unsure' = (unsure \/ Unseen(t))
      /\ slipped' = IF leaving = "no" THEN slipped ELSE slipped \cup ({session} \ {Anon})
      /\ \/ Call(Upserted(e), TRUE) /\ SettlesAs(t, "on")
         \/ Call(Upserted(e), FALSE) /\ SettlesAs(t, "error")
  BY DEF Registers
<1>2. /\ \/ subscribed' = Upserted(e) /\ session # Anon
         \/ subscribed' = subscribed
      /\ SettlesAs(t, "error") \/ subscribed' = Upserted(e)
      /\ mishaps' \in 0 .. MaxMishaps
  BY <1>1, CallOutcomes
<1>3. PushControlTypeOK'
  <2>1. subscribed' \subseteq [endpoint : 1 .. MaxEndpoints, user : People, live : BOOLEAN]
    BY <1>0, <1>2, RowsChange DEF PushInv, PushControlTypeOK
  <2>2. slipped' \subseteq People
    BY <1>1 DEF PushInv, PushControlTypeOK
  <2>3. tasks' \subseteq Task
    BY <1>1, TaskTypes
  <2>4. toggle' \in {"absent", "working", "unsupported", "ios", "denied", "off", "on", "error"}
    BY <1>1, TaskTypes
  <2>5. unsure' \in BOOLEAN
    BY <1>1
  <2> QED
    BY <1>1, <1>2, <2>1, <2>2, <2>3, <2>4, <2>5 DEF PushInv, PushControlTypeOK
<1>4. EndpointsKnown'
  <2>1. \A r \in subscribed' : r.endpoint <= endpoints
    BY <1>0, <1>2, RowsChange DEF PushInv, EndpointsKnown
  <2>2. \A v \in tasks' : /\ v.endpoint <= endpoints'
                          /\ v.op = "enable" /\ v.step = "server" => v.endpoint # 0
                          /\ v.shown => toggle' # "absent"
    <3>1. \E says \in {"denied", "off", "on", "error"} : SettlesAs(t, says)
      BY <1>1
    <3>2. endpoints <= endpoints' /\ endpoints \in Nat /\ endpoints' \in Nat
      BY <1>0, <1>1
    <3> QED
      BY <3>1, <3>2, TaskTypes
  <2> QED
    BY <1>1, <2>1, <2>2 DEF PushInv, EndpointsKnown
<1>5. ToggleTold'
  <2>1. CASE SettlesAs(t, "error")
    BY <1>1, <2>1, ToldSettles
  <2>2. CASE SettlesAs(t, "on") /\ subscribed' = Upserted(e)
    <3>1. GoesBy(t) => Reaches(session)'
      <4>1. [endpoint |-> e, user |-> session, live |-> TRUE] \in subscribed'
        BY <1>0, <2>2, RowsChange
      <4> QED
        BY <1>0, <1>1, <4>1 DEF GoesBy, Reaches, RowActive
    <3> QED
      BY <1>1, <2>2, <3>1, ToldSettles
  <2> QED
    BY <1>1, <1>2, <2>1, <2>2
<1>6. \A u : Reaches(u)' => Reaches(u) \/ u = session
  <2>1. \A u : RowActive(u, subscription)' => u = session \/ RowActive(u, subscription)
    BY <1>1, <1>2 DEF Upserted, RowActive
  <2> QED
    BY <1>1, <2>1 DEF Reaches
<1>7. leaving # "no" /\ session # Anon => session \in slipped'
  BY <1>1
<1>8. ~Reaches(Anon)'
  BY <1>3, PushControlAssumption DEF PushControlTypeOK, Reaches, RowActive
<1>9. NobodyElsesNews' /\ TornDown'
  BY <1>1, <1>6, <1>7, <1>8, NewsFewer
<1> QED
  BY <1>3, <1>4, <1>5, <1>9 DEF PushInv

\* Rows that go, and types that stay.
LEMMA RowsFewer ==
  ASSUME PushInv, subscribed' \subseteq subscribed, UNCHANGED endpoints
  PROVE  /\ subscribed' \subseteq [endpoint : 1 .. MaxEndpoints, user : People, live : BOOLEAN]
         /\ \A r \in subscribed' : r.endpoint <= endpoints'
         /\ \A u, f : RowActive(u, f)' => RowActive(u, f)
  BY DEF PushInv, PushControlTypeOK, EndpointsKnown, RowActive

LEMMA DropsRowStep ==
  ASSUME PushInv, NEW t \in tasks, DropsRow(t)
  PROVE  PushInv'
<1> DEFINE e == t.endpoint
<1>0. PICK next : next = [t EXCEPT !.step = "browser"]
  OBVIOUS
<1>1. /\ t.op = "disable" /\ t \in Task /\ e \in 0 .. MaxEndpoints /\ e <= endpoints
      /\ endpoints \in Nat
  BY PushBounds DEF DropsRow
<1>2. next \in Task /\ next.op = "disable" /\ next.step = "browser" /\ next.endpoint = e
  BY <1>0, <1>1 DEF Task
<1>3. next.shown = t.shown
  BY <1>0, <1>1 DEF Task
<1>4. /\ UNCHANGED <<capable, permission, session, subscription, endpoints, leaving, slipped>>
      /\ unsure' = (unsure \/ Unseen(t))
      /\ \/ Call(Deleted(e), TRUE) /\ Step(t, next) /\ UNCHANGED toggle
         \/ Call(Deleted(e), FALSE) /\ SettlesAs(t, "error")
  BY <1>0 DEF DropsRow
<1>5. subscribed' \subseteq subscribed /\ mishaps' \in 0 .. MaxMishaps
  <2>1. \E answered \in BOOLEAN : Call(Deleted(e), answered)
    BY <1>4
  <2>2. mishaps' \in 0 .. MaxMishaps
    BY <2>1, CallOutcomes
  <2>3. subscribed' = Deleted(e) \/ subscribed' = subscribed
    BY <2>1, CallOutcomes
  <2> QED
    BY <2>2, <2>3 DEF Deleted
<1>6. PushControlTypeOK' /\ EndpointsKnown'
  <2>1. \/ \E says \in {"denied", "off", "on", "error"} : SettlesAs(t, says)
        \/ \E v \in Task : /\ Step(t, v) /\ UNCHANGED toggle
                           /\ v.endpoint <= endpoints'
                           /\ v.op = "enable" /\ v.step = "server" => v.endpoint # 0
                           /\ v.shown = t.shown
    BY <1>1, <1>2, <1>3, <1>4
  <2>2. /\ tasks' \subseteq Task
        /\ toggle' \in {"absent", "working", "unsupported", "ios", "denied", "off", "on", "error"}
    BY <2>1, TaskTypes
  <2>3. \A v \in tasks' : /\ v.endpoint <= endpoints'
                          /\ v.op = "enable" /\ v.step = "server" => v.endpoint # 0
                          /\ v.shown => toggle' # "absent"
    <3>1. endpoints <= endpoints' /\ endpoints \in Nat /\ endpoints' \in Nat
      BY <1>1, <1>4
    <3> QED
      BY <2>1, <3>1, TaskTypes
  <2>4. unsure' \in BOOLEAN
    BY <1>4
  <2>5. /\ subscribed' \subseteq [endpoint : 1 .. MaxEndpoints, user : People, live : BOOLEAN]
        /\ \A r \in subscribed' : r.endpoint <= endpoints'
    BY <1>4, <1>5, RowsFewer
  <2>6. PushControlTypeOK'
    BY <1>4, <1>5, <2>2, <2>4, <2>5 DEF PushInv, PushControlTypeOK
  <2>7. EndpointsKnown'
    BY <1>4, <2>3, <2>5 DEF PushInv, EndpointsKnown
  <2> QED
    BY <2>6, <2>7
<1>7. ToggleTold'
  <2>1. CASE SettlesAs(t, "error")
    BY <1>4, <2>1, ToldSettles
  <2>2. CASE Step(t, next) /\ UNCHANGED toggle
    <3>1. GoesBy(t) => GoesBy(next)'
      BY <1>2, <1>3 DEF GoesBy
    <3> QED
      BY <1>4, <2>2, <3>1, ToldGoesOn
  <2> QED
    BY <1>4, <2>1, <2>2
<1>8. \A u : Reaches(u)' => Reaches(u)
  BY <1>4, <1>5, RowsFewer DEF Reaches
<1> QED
  BY <1>4, <1>6, <1>7, <1>8, NewsFewer DEF PushInv

LEMMA DropsSubscriptionStep ==
  ASSUME PushInv, NEW t \in tasks, DropsSubscription(t)
  PROVE  PushInv'
<1>1. /\ UNCHANGED <<capable, permission, session, endpoints, subscribed, leaving, slipped>>
      /\ unsure' = (unsure \/ Unseen(t))
      /\ \/ subscription' = 0 /\ SettlesAs(t, "off")
         \/ SettlesAs(t, "error") /\ UNCHANGED subscription
      /\ UNCHANGED mishaps \/ Mishap
  BY DEF DropsSubscription
<1>2. /\ endpoints \in Nat /\ subscription' \in 0 .. MaxEndpoints /\ subscription' <= endpoints
  BY <1>1, PushBounds
<1>3. /\ mishaps' \in 0 .. MaxMishaps
      /\ \E says \in {"denied", "off", "on", "error"} : SettlesAs(t, says)
  BY <1>1, MishapBounded
<1>4. PushControlTypeOK'
  <2>1. /\ tasks' \subseteq Task
        /\ toggle' \in {"absent", "working", "unsupported", "ios", "denied", "off", "on", "error"}
    BY <1>3, TaskTypes
  <2>2. unsure' \in BOOLEAN
    BY <1>1
  <2> QED
    BY <1>1, <1>2, <1>3, <2>1, <2>2 DEF PushInv, PushControlTypeOK
<1>5. EndpointsKnown'
  <2>1. \A v \in tasks' : /\ v.endpoint <= endpoints'
                          /\ v.op = "enable" /\ v.step = "server" => v.endpoint # 0
                          /\ v.shown => toggle' # "absent"
    <3>1. endpoints <= endpoints' /\ endpoints \in Nat /\ endpoints' \in Nat
      BY <1>1, <1>2
    <3> QED
      BY <1>3, <3>1, TaskTypes
  <2> QED
    BY <1>1, <1>2, <2>1 DEF PushInv, EndpointsKnown
<1>6. ToggleTold'
  <2>1. subscription' = 0 => ~Reaches(session)'
    BY DEF Reaches
  <2> QED
    BY <1>1, <2>1, ToldSettles
<1>7. \A u : Reaches(u)' => Reaches(u)
  BY <1>1 DEF Reaches, RowActive
<1> QED
  BY <1>1, <1>4, <1>5, <1>6, <1>7, NewsFewer DEF PushInv

\* Signing out and in: no toggle is told anything by it.
LEMMA ToldOfNoChange ==
  ASSUME PushInv, UNCHANGED <<toggle, tasks, session, subscription, subscribed, unsure>>,
         leaving' # "browser"
  PROVE  ToggleTold'
<1>1. \A t : GoesBy(t) => GoesBy(t)'
  BY DEF GoesBy, Reaches, RowActive
<1> QED
  BY <1>1 DEF PushInv, ToggleTold, Reaches, RowActive

LEMMA SignsOutStep ==
  ASSUME PushInv, SignsOut
  PROVE  PushInv'
<1>1. /\ UNCHANGED <<capable, permission, session, subscription, endpoints, subscribed,
                     toggle, tasks, mishaps, unsure, slipped>>
      /\ leaving' = "teardown"
  BY DEF SignsOut, LeavesTo
<1>2. PushControlTypeOK'
  BY <1>1 DEF PushInv, PushControlTypeOK
<1>3. EndpointsKnown'
  BY <1>1 DEF PushInv, EndpointsKnown
<1>4. NobodyElsesNews' /\ TornDown'
  BY <1>1 DEF PushInv, NobodyElsesNews, TornDown, Reaches, RowActive
<1> QED
  BY <1>1, <1>2, <1>3, <1>4, ToldOfNoChange DEF PushInv

LEMMA DeletesAccountStep ==
  ASSUME PushInv, DeletesAccount
  PROVE  PushInv'
<1>1. /\ UNCHANGED <<capable, permission, subscription, endpoints, toggle, tasks, mishaps,
                     slipped>>
      /\ leaving' = "teardown" /\ session' = Anon /\ unsure' = TRUE /\ session # Anon
      /\ subscribed' = {r \in subscribed : r.user # session}
  BY DEF DeletesAccount, LeavesTo
<1>2. subscribed' \subseteq subscribed
  BY <1>1
<1>3. PushControlTypeOK'
  BY <1>1, <1>2, RowsFewer DEF PushInv, PushControlTypeOK
<1>4. EndpointsKnown'
  BY <1>1, <1>2, RowsFewer DEF PushInv, EndpointsKnown
<1>5. NobodyElsesNews'
  <2> SUFFICES ASSUME NEW u \in People, Reaches(u)' PROVE u \in slipped
    BY <1>1 DEF NobodyElsesNews
  <2>1. u # session
    BY <1>1 DEF Reaches, RowActive
  <2>2. Reaches(u)
    BY <1>1, <1>2 DEF Reaches, RowActive
  <2> QED
    BY <2>1, <2>2 DEF PushInv, NobodyElsesNews
<1>6. TornDown'
  BY <1>1 DEF TornDown
<1> QED
  BY <1>1, <1>3, <1>4, <1>5, <1>6, ToldOfNothing DEF PushInv

LEMMA LooksUpStep ==
  ASSUME PushInv, LooksUp
  PROVE  PushInv'
<1>1. /\ UNCHANGED <<capable, permission, session, subscription, endpoints, subscribed,
                     toggle, tasks, unsure>>
      /\ leaving' \in {"session", "server"}
      /\ UNCHANGED mishaps \/ Mishap
      /\ \/ UNCHANGED slipped
         \/ slipped' = slipped \cup ({session} \ {Anon})
  BY DEF LooksUp, LeavesTo
<1>2. leaving' = "session" => subscription = 0 \/ session \in slipped' \/ session = Anon
  BY DEF LooksUp, LeavesTo
<1>3. mishaps' \in 0 .. MaxMishaps
  BY <1>1, MishapBounded
<1>4. slipped' \subseteq People /\ slipped \subseteq slipped'
  BY <1>1 DEF PushInv, PushControlTypeOK
<1>5. PushControlTypeOK'
  BY <1>1, <1>3, <1>4 DEF PushInv, PushControlTypeOK
<1>6. EndpointsKnown'
  BY <1>1 DEF PushInv, EndpointsKnown
<1>7. \A u : Reaches(u)' = Reaches(u)
  BY <1>1 DEF Reaches, RowActive
<1>8. ~Reaches(Anon)
  BY PushControlAssumption DEF PushInv, PushControlTypeOK, Reaches, RowActive
<1>9. TornDown'
  BY <1>1, <1>2, <1>7, <1>8 DEF TornDown, Reaches
<1>10. NobodyElsesNews'
  BY <1>1, <1>4, <1>7 DEF PushInv, NobodyElsesNews
<1> QED
  BY <1>1, <1>5, <1>6, <1>9, <1>10, ToldOfNoChange DEF PushInv

LEMMA TearsDownRowStep ==
  ASSUME PushInv, TearsDownRow
  PROVE  PushInv'
<1>1. /\ UNCHANGED <<capable, permission, session, subscription, endpoints, toggle, tasks>>
      /\ unsure' = TRUE /\ leaving' \in {"browser", "session"}
      /\ \/ UNCHANGED slipped
         \/ slipped' = slipped \cup ({session} \ {Anon})
  BY DEF TearsDownRow, LeavesTo
<1>2. \E answered \in BOOLEAN : Call(Deleted(subscription), answered)
  BY DEF TearsDownRow
<1>3. /\ mishaps' \in 0 .. MaxMishaps
      /\ subscribed' = Deleted(subscription) \/ subscribed' = subscribed
  BY <1>2, CallOutcomes
<1>4. \/ Call(Deleted(subscription), TRUE)
      \/ slipped' = slipped \cup ({session} \ {Anon})
  BY DEF TearsDownRow
<1>5. Call(Deleted(subscription), TRUE) => subscribed' = Deleted(subscription)
  BY CallOutcomes
<1>6. slipped' \subseteq People /\ slipped \subseteq slipped'
  BY <1>1 DEF PushInv, PushControlTypeOK
<1>7. subscribed' \subseteq subscribed
  BY <1>3 DEF Deleted
<1>8. PushControlTypeOK'
  BY <1>1, <1>3, <1>6, <1>7, RowsFewer DEF PushInv, PushControlTypeOK
<1>9. EndpointsKnown'
  BY <1>1, <1>7, RowsFewer DEF PushInv, EndpointsKnown
<1>10. \A u : Reaches(u)' => Reaches(u)
  BY <1>1, <1>7 DEF Reaches, RowActive
<1>11. ~Reaches(Anon)'
  BY <1>1, <1>8, PushControlAssumption DEF PushControlTypeOK, Reaches, RowActive
<1>12. TornDown'
  <2>1. CASE subscribed' = Deleted(subscription)
    <3>1. ~Reaches(session)'
      BY <1>1, <2>1 DEF Deleted, RowsAt, Reaches, RowActive
    <3> QED
      BY <1>1, <3>1 DEF TornDown
  <2>2. CASE slipped' = slipped \cup ({session} \ {Anon})
    BY <1>1, <1>11, <2>2 DEF TornDown
  <2> QED
    BY <1>4, <1>5, <2>1, <2>2
<1>13. NobodyElsesNews'
  BY <1>1, <1>6, <1>10 DEF PushInv, NobodyElsesNews
<1> QED
  BY <1>1, <1>8, <1>9, <1>12, <1>13, ToldOfNothing DEF PushInv

LEMMA TearsDownSubscriptionStep ==
  ASSUME PushInv, TearsDownSubscription
  PROVE  PushInv'
<1>1. /\ UNCHANGED <<capable, permission, session, endpoints, subscribed, toggle, tasks,
                     unsure, slipped>>
      /\ leaving = "browser" /\ leaving' = "session"
      /\ UNCHANGED mishaps \/ Mishap
      /\ subscription' = 0 \/ UNCHANGED subscription
  BY DEF TearsDownSubscription, LeavesTo
<1>2. mishaps' \in 0 .. MaxMishaps
  BY <1>1, MishapBounded
<1>3. subscription' \in 0 .. MaxEndpoints /\ subscription' <= endpoints
  BY <1>1, PushBounds
<1>4. PushControlTypeOK'
  BY <1>1, <1>2, <1>3 DEF PushInv, PushControlTypeOK
<1>5. EndpointsKnown'
  BY <1>1, <1>3 DEF PushInv, EndpointsKnown
<1>6. ToggleTold'
  BY <1>1 DEF PushInv, ToggleTold
<1>7. \A u : Reaches(u)' => Reaches(u)
  BY <1>1 DEF Reaches, RowActive
<1>8. NobodyElsesNews' /\ TornDown'
  BY <1>1, <1>7 DEF PushInv, NobodyElsesNews, TornDown
<1> QED
  BY <1>4, <1>5, <1>6, <1>8 DEF PushInv

LEMMA EndsSessionStep ==
  ASSUME PushInv, EndsSession
  PROVE  PushInv'
<1>1. /\ UNCHANGED <<capable, permission, subscription, endpoints, subscribed, unsure>>
      /\ leaving = "session" /\ leaving' = "no" /\ toggle' = "absent" /\ tasks' = {}
      /\ session' = Anon \/ session' = session
      /\ UNCHANGED mishaps \/ Mishap
      /\ \/ UNCHANGED slipped
         \/ slipped' = slipped \cup ({session} \ {Anon})
  BY DEF EndsSession, LeavesTo
<1>2. mishaps' \in 0 .. MaxMishaps
  BY <1>1, MishapBounded
<1>3. slipped' \subseteq People /\ slipped \subseteq slipped'
  BY <1>1 DEF PushInv, PushControlTypeOK
<1>4. PushControlTypeOK'
  BY <1>1, <1>2, <1>3 DEF PushInv, PushControlTypeOK
<1>5. EndpointsKnown'
  BY <1>1 DEF PushInv, EndpointsKnown
<1>6. \A u : Reaches(u)' = Reaches(u)
  BY <1>1 DEF Reaches, RowActive
<1>7. NobodyElsesNews'
  BY <1>1, <1>3, <1>6 DEF PushInv, NobodyElsesNews, TornDown
<1>8. TornDown'
  BY <1>1 DEF TornDown
<1> QED
  BY <1>1, <1>4, <1>5, <1>7, <1>8, ToldOfNothing DEF PushInv

LEMMA SignsInStep ==
  ASSUME PushInv, NEW u \in People, SignsIn(u)
  PROVE  PushInv'
<1>1. /\ UNCHANGED <<capable, permission, subscription, endpoints, subscribed, toggle, tasks,
                     leaving, mishaps, unsure>>
      /\ session = Anon /\ session' = u /\ slipped' = slipped \ {u} /\ leaving = "no"
      /\ toggle = "absent"
  BY DEF SignsIn
<1>2. PushControlTypeOK'
  BY <1>1 DEF PushInv, PushControlTypeOK
<1>3. EndpointsKnown'
  BY <1>1 DEF PushInv, EndpointsKnown
<1>4. \A v : Reaches(v)' = Reaches(v)
  BY <1>1 DEF Reaches, RowActive
<1>5. NobodyElsesNews' /\ TornDown'
  BY <1>1, <1>4, PushControlAssumption DEF PushInv, NobodyElsesNews, TornDown
<1> QED
  BY <1>1, <1>2, <1>3, <1>5, ToldOfNothing DEF PushInv

LEMMA SessionExpiresStep ==
  ASSUME PushInv, SessionExpires
  PROVE  PushInv'
<1>1. /\ UNCHANGED <<capable, permission, subscription, endpoints, subscribed, toggle, tasks,
                     leaving, mishaps>>
      /\ session # Anon /\ session' = Anon /\ unsure' = TRUE
      /\ slipped' = slipped \cup {session}
  BY DEF SessionExpires
<1>2. PushControlTypeOK'
  BY <1>1 DEF PushInv, PushControlTypeOK
<1>3. EndpointsKnown'
  BY <1>1 DEF PushInv, EndpointsKnown
<1>4. \A u : Reaches(u)' = Reaches(u)
  BY <1>1 DEF Reaches, RowActive
<1>5. ~Reaches(Anon)
  BY PushControlAssumption DEF PushInv, PushControlTypeOK, Reaches, RowActive
<1>6. NobodyElsesNews' /\ TornDown'
  BY <1>1, <1>4, <1>5 DEF PushInv, NobodyElsesNews, TornDown
<1> QED
  BY <1>1, <1>2, <1>3, <1>6, ToldOfNothing DEF PushInv

LEMMA RetiresRowStep ==
  ASSUME PushInv, NEW r \in subscribed, RetiresRow(r)
  PROVE  PushInv'
<1> DEFINE dead == [r EXCEPT !.live = FALSE]
           Rows == [endpoint : 1 .. MaxEndpoints, user : People, live : BOOLEAN]
<1>1. /\ UNCHANGED <<capable, permission, session, subscription, endpoints, toggle, tasks,
                     leaving, mishaps, slipped>>
      /\ unsure' = TRUE /\ subscribed' = (subscribed \ {r}) \cup {dead}
  BY DEF RetiresRow
<1>2. r \in Rows /\ subscribed \subseteq Rows
  BY DEF PushInv, PushControlTypeOK
<1>3. dead \in Rows /\ dead.endpoint = r.endpoint /\ dead.live = FALSE
  <2>1. dead \in Rows /\ dead.endpoint = r.endpoint
    BY <1>2
  <2>2. dead.live = FALSE
    BY <1>2
  <2> QED
    BY <2>1, <2>2
<1> HIDE DEF dead
<1>4. PushControlTypeOK'
  BY <1>1, <1>2, <1>3 DEF PushInv, PushControlTypeOK
<1>5. EndpointsKnown'
  <2>1. \A q \in subscribed' : q.endpoint <= endpoints
    BY <1>1, <1>3 DEF PushInv, EndpointsKnown
  <2> QED
    BY <1>1, <2>1 DEF PushInv, EndpointsKnown
<1>6. \A u : Reaches(u)' => Reaches(u)
  BY <1>1, <1>3 DEF Reaches, RowActive
<1> QED
  BY <1>1, <1>4, <1>5, <1>6, ToldOfNothing, NewsFewer DEF PushInv

LEMMA PushStep == PushInv /\ [PushControlNext]_pushControlVars => PushInv'
<1> SUFFICES ASSUME PushInv, [PushControlNext]_pushControlVars PROVE PushInv'
  OBVIOUS
<1>1. CASE UNCHANGED pushControlVars
  <2>1. /\ UNCHANGED <<capable, permission, session, subscription, endpoints, subscribed>>
        /\ UNCHANGED <<toggle, tasks, leaving, mishaps, unsure, slipped>>
    BY <1>1 DEF pushControlVars
  <2>2. PushControlTypeOK'
    BY <2>1 DEF PushInv, PushControlTypeOK
  <2>3. EndpointsKnown'
    BY <2>1 DEF PushInv, EndpointsKnown
  <2>4. \A t : GoesBy(t) => GoesBy(t)'
    BY <2>1 DEF GoesBy, Reaches, RowActive
  <2>5. ToggleTold'
    BY <2>1, <2>4 DEF PushInv, ToggleTold, Reaches, RowActive
  <2> QED
    BY <2>1, <2>2, <2>3, <2>5, NewsSame DEF PushInv
<1>2. CASE Reconcile \/ Enable \/ Disable \/ LeavesInbox
  BY <1>2, ReconcileStep, TogglesStep
<1>3. ASSUME NEW t \in tasks,
             \/ ReadsBrowser(t) \/ AsksStatus(t) \/ Subscribes(t) \/ Registers(t)
             \/ DropsRow(t) \/ DropsSubscription(t)
             \/ \E reply \in {"default", "granted", "denied"} : Prompts(t, reply)
      PROVE  PushInv'
  BY <1>3, TaskStepsQuietly, SubscribesStep, RegistersStep, DropsRowStep, DropsSubscriptionStep
<1>4. CASE \/ SignsOut \/ DeletesAccount \/ LooksUp \/ TearsDownRow
           \/ TearsDownSubscription \/ EndsSession \/ SessionExpires
           \/ \E u \in People : SignsIn(u)
           \/ \E r \in subscribed : RetiresRow(r)
  BY <1>4, SignsOutStep, DeletesAccountStep, LooksUpStep, TearsDownRowStep,
     TearsDownSubscriptionStep, EndsSessionStep, SessionExpiresStep, SignsInStep, RetiresRowStep
<1> QED
  BY <1>1, <1>2, <1>3, <1>4 DEF PushControlNext

\* Whoever shares the browser, whatever call fails or loses its answer: a settled
\* toggle is right, and a sign-out ends the alerts.
THEOREM PushHonest == PushControlSpec => []PushIsAsSaid
<1>1. PushControlInit => PushInv
  BY PushInitInv
<1>2. PushInv /\ [PushControlNext]_pushControlVars => PushInv'
  BY PushStep
<1>3. PushInv => PushIsAsSaid
  BY DEF PushInv, PushIsAsSaid, ToggleTold, ToggleTellsTheTruth
<1> QED
  BY <1>1, <1>2, <1>3, PTL DEF PushControlSpec

-----------------------------------------------------------------------------
\* The canvas of a map (MapCanvas): an import that was not called off is the last
\* canvas's own, and a canvas has one map.

\* An import that was not called off is the last canvas's, whose map is not there yet.
ImportsInv ==
  /\ \A i, j \in imports : ~i.cancelled /\ ~j.cancelled => i = j
  /\ \A i \in imports : ~i.cancelled => i.terrain = terrain /\ maps = {}
\* A map that was fitted shows something else than the world.
FitInv ==
  /\ \A m, n \in maps : m = n
  /\ \A m \in maps : m.fit => m.view # "world"
CanvasInv ==
  /\ MapCanvasTypeOK /\ NeverBlank /\ ShownWhatThereIs /\ ImportsInv /\ FitInv
  /\ \A m \in maps : m.terrain = terrain /\ m.drawn = drawKey

LEMMA CanvasStarts == MapCanvasInit => CanvasInv
<1> SUFFICES ASSUME MapCanvasInit PROVE CanvasInv
  OBVIOUS
<1>1. MapCanvasTypeOK
  <2>1. MaxPolls \in Nat /\ MaxFlights \in Nat /\ MaxMounts \in Nat
    BY MapCanvasAssumption
  <2>2. drawKey \in Data /\ focus \in 0 .. MaxFlights /\ flown \in 0 .. focus /\ mounts \in 0 .. MaxMounts
    BY <2>1 DEF MapCanvasInit, Data
  <2> QED
    BY <2>2 DEF MapCanvasInit, MapCanvasTypeOK
<1>2. NeverBlank /\ ShownWhatThereIs
  BY MapCanvasAssumption DEF MapCanvasInit, NeverBlank, ShownWhatThereIs
<1> QED
  BY <1>1, <1>2 DEF MapCanvasInit, CanvasInv, ImportsInv, FitInv

LEMMA CanvasIsFine == CanvasInv => OneMapUpToDate
<1> SUFFICES ASSUME CanvasInv PROVE Cardinality(maps) <= 1
  BY DEF CanvasInv, OneMapUpToDate
<1>1. CASE maps = {}
  BY <1>1, FS_EmptySet
<1>2. CASE maps # {}
  <2>1. PICK m : maps = {m}
    BY <1>2 DEF CanvasInv, FitInv
  <2>2. Cardinality({m}) = 1
    BY FS_Singleton
  <2>3. Cardinality(maps) = 1
    BY <2>1, <2>2
  <2> QED
    BY <2>3
<1> QED
  BY <1>1, <1>2

\* What drawing and flying make of a map.
LEMMA DrawnMap ==
  ASSUME NEW m \in LiveMap, NEW data \in Data, m.fit => m.view # "world"
  PROVE  LET n == Drawn(m, data)
         IN  /\ n \in LiveMap /\ n.mount = m.mount /\ n.terrain = m.terrain /\ n.drawn = data
             /\ n.fit => n.view # "world"
             /\ n.view = "world" => ~data.points
             /\ m.fit => n.view = m.view
  BY DEF Drawn, LiveMap, Data, Views

LEMMA FlownMap ==
  ASSUME NEW m \in LiveMap, NEW f
  PROVE  LET n == Flown(m, f)
         IN  /\ n \in LiveMap /\ n.mount = m.mount /\ n.terrain = m.terrain /\ n.drawn = m.drawn
             /\ n.fit = m.fit /\ n.view \in {m.view, "focus"}
             /\ Flies(f) => n.view = "focus"
  BY DEF Flown, LiveMap, Views

\* A canvas that is created has no map yet, and calls off what the last one asked for.
LEMMA CreatedCanvas ==
  ASSUME CanvasInv, NEW t \in Terrains, NEW boxed \in BOOLEAN, Creates(t, boxed),
         terrain' = t, drawKey' = drawKey, focus' = focus, flown' \in 0 .. focus, stuck' \in BOOLEAN,
         ~boxed /\ t \in Charted => stuck'
  PROVE  CanvasInv' /\ maps' = {}
<1>1. /\ MapCanvasTypeOK /\ mounts \in 0 .. MaxMounts /\ drawKey \in Data /\ MaxMounts \in Nat
      /\ imports \subseteq Import
  BY MapCanvasAssumption DEF CanvasInv, MapCanvasTypeOK
<1> DEFINE called == {[i EXCEPT !.cancelled = TRUE] : i \in imports}
           new == [mount |-> mounts + 1, terrain |-> t, cancelled |-> FALSE, data |-> drawKey]
<1>2. /\ mounts' = mounts + 1 /\ mounts < MaxMounts /\ loadError' = FALSE /\ maps' = {}
      /\ imports' = called \cup (IF t \in Charted /\ boxed THEN {new} ELSE {})
  BY DEF Creates
<1>3. \A i \in called : i \in Import /\ i.cancelled
  BY <1>1 DEF Import
<1>4. new \in Import /\ ~new.cancelled /\ new.terrain = t
  BY <1>1, <1>2 DEF Import
<1>5. \A i \in imports' : i \in Import /\ (~i.cancelled => i = new)
  BY <1>2, <1>3, <1>4
<1>6. MapCanvasTypeOK'
  <2>1. mounts' \in 0 .. MaxMounts
    BY <1>1, <1>2
  <2> QED
    BY <1>1, <1>2, <1>5, <2>1 DEF MapCanvasTypeOK
<1>7. NeverBlank'
  <2>1. t \in Charted /\ boxed => new \in imports'
    BY <1>2
  <2> QED
    BY <1>4, <2>1 DEF NeverBlank
<1>8. ImportsInv' /\ FitInv' /\ ShownWhatThereIs'
  BY <1>2, <1>4, <1>5 DEF ImportsInv, FitInv, ShownWhatThereIs
<1> QED
  BY <1>2, <1>6, <1>7, <1>8 DEF CanvasInv

LEMMA CanvasLeaves ==
  ASSUME CanvasInv, Unmounts
  PROVE  CanvasInv' /\ maps' = {}
<1>1. MapCanvasTypeOK /\ imports \subseteq Import
  BY DEF CanvasInv, MapCanvasTypeOK
<1>2. \A i \in imports' : i \in Import /\ i.cancelled
  BY <1>1 DEF Unmounts, Import
<1>3. MapCanvasTypeOK'
  BY <1>1, <1>2 DEF Unmounts, MapCanvasTypeOK
<1>4. NeverBlank' /\ ShownWhatThereIs'
  BY MapCanvasAssumption DEF Unmounts, NeverBlank, ShownWhatThereIs
<1> QED
  BY <1>2, <1>3, <1>4 DEF Unmounts, CanvasInv, ImportsInv, FitInv

LEMMA CanvasResolves ==
  ASSUME CanvasInv, NEW i \in imports, Resolves(i)
  PROVE  CanvasInv' /\ (i.cancelled \/ maps = {})  /\ (i.cancelled => maps' = maps)
<1>1. /\ MapCanvasTypeOK /\ imports \subseteq Import /\ drawKey \in Data /\ focus \in 0 .. MaxFlights
      /\ flown \in 0 .. focus /\ MaxFlights \in Nat /\ imports' = imports \ {i} /\ i \in Import
  BY MapCanvasAssumption DEF CanvasInv, MapCanvasTypeOK, Resolves
<1>2. UNCHANGED <<terrain, drawKey, focus, loadError, stuck, mounts>>
  BY DEF Resolves
<1>3. CASE i.cancelled
  <2>1. UNCHANGED <<maps, flown>>
    BY <1>3 DEF Resolves
  <2>2. NeverBlank'
    BY <1>1, <1>2, <1>3, <2>1 DEF CanvasInv, NeverBlank
  <2>3. MapCanvasTypeOK' /\ ImportsInv'
    BY <1>1, <1>2, <2>1 DEF CanvasInv, MapCanvasTypeOK, ImportsInv
  <2> QED
    BY <1>2, <1>3, <2>1, <2>2, <2>3 DEF CanvasInv, ShownWhatThereIs, FitInv
<1>4. CASE ~i.cancelled
  <2> DEFINE blank == [mount |-> i.mount, terrain |-> i.terrain, drawn |-> drawKey,
                       fit |-> FALSE, view |-> "world"]
             m == Drawn(blank, drawKey)
             n == Flown(m, focus)
  <2>1. maps = {} /\ i.terrain = terrain /\ \A j \in imports' : j.cancelled
    BY <1>1, <1>4 DEF CanvasInv, ImportsInv
  <2>2. maps' = {n} /\ flown' = IF Flies(focus) THEN focus ELSE flown
    BY <1>4, <2>1 DEF Resolves
  <2>3. blank \in LiveMap /\ ~blank.fit
    BY <1>1 DEF LiveMap, Views, Import
  <2>4. /\ m \in LiveMap /\ m.mount = blank.mount /\ m.terrain = blank.terrain /\ m.drawn = drawKey
        /\ m.fit => m.view # "world"
        /\ m.view = "world" => ~drawKey.points
    <3> HIDE DEF blank
    <3> QED
      BY <1>1, <2>3, DrawnMap
  <2>5. blank.terrain = terrain
    BY <2>1
  <2> HIDE DEF m, blank
  <2>6. /\ n \in LiveMap /\ n.terrain = m.terrain /\ n.drawn = m.drawn
        /\ n.fit = m.fit /\ n.view \in {m.view, "focus"}
    BY <2>4, FlownMap
  <2> HIDE DEF n
  <2>7. MapCanvasTypeOK'
    <3>1. flown' \in 0 .. focus
      BY <1>1, <2>2
    <3> QED
      BY <1>1, <1>2, <2>2, <2>6, <3>1 DEF MapCanvasTypeOK
  <2>8. ShownWhatThereIs'
    <3>1. focus # 0 => flown' = focus
      BY <2>2 DEF Flies
    <3> QED
      BY <1>2, <2>2, <2>4, <2>6, <3>1 DEF ShownWhatThereIs
  <2>9. FitInv' /\ ImportsInv' /\ NeverBlank'
    BY <2>1, <2>2, <2>4, <2>6 DEF FitInv, ImportsInv, NeverBlank
  <2>10. \A o \in maps' : o.terrain = terrain' /\ o.drawn = drawKey'
    BY <1>2, <2>2, <2>4, <2>5, <2>6
  <2> QED
    BY <1>4, <2>1, <2>7, <2>8, <2>9, <2>10 DEF CanvasInv
<1> QED
  BY <1>3, <1>4

LEMMA CanvasFails ==
  ASSUME CanvasInv, NEW i \in imports, ImportFails(i)
  PROVE  CanvasInv' /\ maps' = maps
<1>1. /\ MapCanvasTypeOK /\ imports' = imports \ {i} /\ loadError' = (loadError \/ ~i.cancelled)
      /\ UNCHANGED <<terrain, drawKey, focus, flown, maps, stuck, mounts>>
      /\ i \in Import
  BY DEF CanvasInv, MapCanvasTypeOK, ImportFails
<1>2. NeverBlank'
  BY <1>1 DEF CanvasInv, NeverBlank
<1>3. loadError' \in BOOLEAN
  BY <1>1 DEF MapCanvasTypeOK, Import
<1>4. MapCanvasTypeOK' /\ ImportsInv'
  BY <1>1, <1>3 DEF CanvasInv, MapCanvasTypeOK, ImportsInv
<1> QED
  BY <1>1, <1>2, <1>4 DEF CanvasInv, ShownWhatThereIs, FitInv

LEMMA CanvasPolls ==
  ASSUME CanvasInv, Polls
  PROVE  /\ CanvasInv'
         /\ \A m \in maps : \A n \in maps' : m.fit => n.view = m.view
<1>1. /\ MapCanvasTypeOK /\ drawKey \in Data /\ maps \subseteq LiveMap /\ MaxPolls \in Nat
      /\ drawKey.answer < MaxPolls /\ \A m \in maps : m.fit => m.view # "world"
  BY MapCanvasAssumption DEF CanvasInv, MapCanvasTypeOK, Polls, FitInv
<1>2. /\ maps' = {Drawn(m, drawKey') : m \in maps}
      /\ UNCHANGED <<terrain, focus, flown, imports, loadError, stuck, mounts>>
      /\ \E points \in BOOLEAN : drawKey' = [answer |-> drawKey.answer + 1, points |-> points]
  BY DEF Polls
<1>3. PICK data : data = drawKey'
  OBVIOUS
<1>4. data \in Data
  BY <1>1, <1>2, <1>3 DEF Data
<1>5. ASSUME NEW m \in maps
      PROVE  LET n == Drawn(m, data)
             IN  /\ n \in LiveMap /\ n.terrain = m.terrain /\ n.drawn = data
                 /\ n.fit => n.view # "world"
                 /\ n.view = "world" => ~data.points
                 /\ m.fit => n.view = m.view
  BY <1>1, <1>4, DrawnMap
<1>6. maps' = {Drawn(m, data) : m \in maps}
  BY <1>2, <1>3
<1>7. \A m, n \in maps : m = n
  BY DEF CanvasInv, FitInv
<1>8. \A m, n \in maps' : m = n
  BY <1>6, <1>7
<1>9. ASSUME NEW n \in maps'
      PROVE  /\ n \in LiveMap /\ n.terrain = terrain /\ n.drawn = data
             /\ n.fit => n.view # "world"
             /\ n.view = "world" => ~data.points
             /\ \A m \in maps : m.fit => n.view = m.view
  <2>1. PICK m \in maps : n = Drawn(m, data)
    BY <1>6
  <2>2. m.terrain = terrain
    BY DEF CanvasInv
  <2>3. \A o \in maps : o = m
    BY <1>7
  <2> QED
    BY <1>5, <2>1, <2>2, <2>3
<1>10. maps = {} <=> maps' = {}
  BY <1>6
<1>11. MapCanvasTypeOK'
  BY <1>1, <1>2, <1>3, <1>4, <1>9 DEF MapCanvasTypeOK
<1>12. NeverBlank' /\ ImportsInv'
  BY <1>2, <1>10 DEF CanvasInv, NeverBlank, ImportsInv
<1>13. \A n \in maps' : focus # 0 => flown = focus
  BY <1>10 DEF CanvasInv, ShownWhatThereIs
<1>14. ShownWhatThereIs' /\ FitInv'
  BY <1>2, <1>3, <1>8, <1>9, <1>13 DEF ShownWhatThereIs, FitInv
<1> QED
  BY <1>2, <1>3, <1>9, <1>11, <1>12, <1>14 DEF CanvasInv

LEMMA CanvasLocates ==
  ASSUME CanvasInv, Locates
  PROVE  CanvasInv' /\ (maps' = maps \/ flown' # flown)
<1>1. /\ MapCanvasTypeOK /\ maps \subseteq LiveMap /\ MaxFlights \in Nat
      /\ focus \in 0 .. MaxFlights /\ flown \in 0 .. focus /\ focus < MaxFlights
  BY MapCanvasAssumption DEF CanvasInv, MapCanvasTypeOK, Locates
<1>2. focus' = focus + 1 /\ UNCHANGED <<terrain, drawKey, imports, loadError, stuck, mounts>>
  BY DEF Locates
<1>3. CASE maps = {}
  <2>1. UNCHANGED <<maps, flown>>
    BY <1>3 DEF Locates
  <2>2. MapCanvasTypeOK'
    BY <1>1, <1>2, <2>1 DEF MapCanvasTypeOK
  <2> QED
    BY <1>2, <1>3, <2>1, <2>2 DEF CanvasInv, NeverBlank, ShownWhatThereIs, ImportsInv, FitInv
<1>4. CASE maps # {}
  <2>1. maps' = {Flown(m, focus') : m \in maps} /\ flown' = focus'
    BY <1>4 DEF Locates
  <2>2. PICK f : f = focus'
    OBVIOUS
  <2>3. Flies(f) /\ f \in 0 .. MaxFlights /\ f # flown
    BY <1>1, <1>2, <2>2 DEF Flies
  <2>4. maps' = {Flown(m, f) : m \in maps}
    BY <2>1, <2>2
  <2>5. ASSUME NEW m \in maps
        PROVE  LET n == Flown(m, f)
               IN  n \in LiveMap /\ n.terrain = m.terrain /\ n.drawn = m.drawn /\ n.view = "focus"
    BY <1>1, <2>3, FlownMap
  <2>6. \A n \in maps' : n \in LiveMap /\ n.terrain = terrain /\ n.drawn = drawKey /\ n.view = "focus"
    BY <2>4, <2>5 DEF CanvasInv
  <2>7. maps' # {} /\ \A m, n \in maps' : m = n
    BY <1>4, <2>4 DEF CanvasInv, FitInv
  <2>8. MapCanvasTypeOK'
    BY <1>1, <1>2, <2>1, <2>2, <2>3, <2>6 DEF MapCanvasTypeOK
  <2>9. ImportsInv'
    BY <1>2, <1>4 DEF CanvasInv, ImportsInv
  <2>10. NeverBlank' /\ ShownWhatThereIs' /\ FitInv'
    BY <2>1, <2>6, <2>7 DEF NeverBlank, ShownWhatThereIs, FitInv
  <2> QED
    BY <1>2, <2>1, <2>2, <2>3, <2>6, <2>8, <2>9, <2>10 DEF CanvasInv
<1> QED
  BY <1>3, <1>4

LEMMA CanvasPans ==
  ASSUME CanvasInv, Pans
  PROVE  CanvasInv' /\ \A n \in maps' : n.view = "reader"
<1>1. /\ MapCanvasTypeOK /\ maps \subseteq LiveMap
      /\ maps' = {[m EXCEPT !.view = "reader"] : m \in maps}
      /\ UNCHANGED <<terrain, drawKey, focus, flown, imports, loadError, stuck, mounts>>
  BY DEF CanvasInv, MapCanvasTypeOK, Pans
<1>2. ASSUME NEW m \in maps
      PROVE  LET n == [m EXCEPT !.view = "reader"]
             IN  n \in LiveMap /\ n.terrain = m.terrain /\ n.drawn = m.drawn /\ n.view = "reader"
  BY <1>1 DEF LiveMap, Views
<1>3. \A n \in maps' : n \in LiveMap /\ n.terrain = terrain /\ n.drawn = drawKey /\ n.view = "reader"
  BY <1>1, <1>2 DEF CanvasInv
<1>4. (maps = {} <=> maps' = {}) /\ \A m, n \in maps' : m = n
  BY <1>1 DEF CanvasInv, FitInv
<1>5. MapCanvasTypeOK'
  BY <1>1, <1>3 DEF MapCanvasTypeOK
<1>6. NeverBlank' /\ ImportsInv'
  BY <1>1, <1>4 DEF CanvasInv, NeverBlank, ImportsInv
<1>7. ShownWhatThereIs' /\ FitInv'
  BY <1>1, <1>3, <1>4 DEF CanvasInv, ShownWhatThereIs, FitInv
<1> QED
  BY <1>1, <1>3, <1>5, <1>6, <1>7 DEF CanvasInv

LEMMA CanvasStep ==
  ASSUME CanvasInv, [MapCanvasNext]_mapCanvasVars
  PROVE  CanvasInv' /\ [ViewIsTheReaders]_mapCanvasVars
<1>1. ASSUME NEW t \in Terrains, Mounts(t) PROVE CanvasInv' /\ maps' = {}
  <2>1. focus \in Nat
    BY MapCanvasAssumption DEF CanvasInv, MapCanvasTypeOK
  <2>2. Creates(t, TRUE) /\ terrain' = t /\ drawKey' = drawKey /\ focus' = focus
    BY <1>1 DEF Mounts
  <2>3. flown' \in 0 .. focus /\ stuck' \in BOOLEAN
    <3>1. flown' = 0 /\ stuck' = FALSE
      BY <1>1 DEF Mounts
    <3>2. 0 \in 0 .. focus
      BY <2>1
    <3> QED
      BY <3>1, <3>2
  <2>4. CanvasInv' /\ maps' = {}
    BY <2>2, <2>3, CreatedCanvas
  <2> QED
    BY <2>4
<1>2. ASSUME NEW t \in Terrains, ChangesTerrain(t) PROVE CanvasInv' /\ maps' = {}
  <2>1. flown \in 0 .. focus /\ loadError \in BOOLEAN
    BY DEF CanvasInv, MapCanvasTypeOK
  <2>2. HasBox \in BOOLEAN /\ (~HasBox /\ t \in Charted => stuck') /\ stuck' \in BOOLEAN
    BY <1>2, <2>1 DEF ChangesTerrain, HasBox
  <2>3. /\ Creates(t, HasBox) /\ terrain' = t /\ drawKey' = drawKey /\ focus' = focus
        /\ flown' \in 0 .. focus
    BY <1>2, <2>1 DEF ChangesTerrain
  <2> QED
    BY <2>2, <2>3, CreatedCanvas
<1>3. \A m, n \in maps : m = n
  BY DEF CanvasInv, FitInv
<1>4. CASE UNCHANGED mapCanvasVars
  BY <1>4 DEF mapCanvasVars, CanvasInv, MapCanvasTypeOK, NeverBlank, ShownWhatThereIs,
              ImportsInv, FitInv
<1>5. ASSUME MapCanvasNext PROVE CanvasInv' /\ ViewIsTheReaders
  <2>1. ASSUME NEW t \in Terrains, Mounts(t) \/ ChangesTerrain(t) PROVE CanvasInv' /\ ViewIsTheReaders
    BY <1>1, <1>2, <2>1 DEF ViewIsTheReaders
  <2>2. CASE Unmounts
    BY <2>2, CanvasLeaves DEF ViewIsTheReaders
  <2>3. CASE Polls
    BY <2>3, CanvasPolls DEF ViewIsTheReaders
  <2>4. CASE Locates
    <3>1. CanvasInv' /\ (maps' = maps \/ flown' # flown)
      BY <2>4, CanvasLocates
    <3> QED
      BY <1>3, <3>1 DEF ViewIsTheReaders
  <2>5. CASE Pans
    BY <2>5, CanvasPans DEF ViewIsTheReaders
  <2>6. ASSUME NEW i \in imports, Resolves(i) PROVE CanvasInv' /\ ViewIsTheReaders
    <3>1. CanvasInv' /\ (maps = {} \/ maps' = maps)
      BY <2>6, CanvasResolves
    <3> QED
      BY <1>3, <3>1 DEF ViewIsTheReaders
  <2>7. ASSUME NEW i \in imports, ImportFails(i) PROVE CanvasInv' /\ ViewIsTheReaders
    <3>1. CanvasInv' /\ maps' = maps
      BY <2>7, CanvasFails
    <3> QED
      BY <1>3, <3>1 DEF ViewIsTheReaders
  <2> QED
    BY <1>5, <2>1, <2>2, <2>3, <2>4, <2>5, <2>6, <2>7 DEF MapCanvasNext
<1> QED
  BY <1>4, <1>5

-----------------------------------------------------------------------------
\* The sharing controls of the map page (MapPage).

\* A request that was made alone, and since when no other was, waits for itself.
LoneWaits ==
  \A i \in DOMAIN requests :
    requests[i].alone /\ requests[i].op # "stopAll" =>
      Len(requests) = 1 /\ requests[i].who = {pendingFor}
\* While no request is done and unsettled, what the page was or is being told is so.
ToldSo ==
  (\A i \in DOMAIN requests : ~requests[i].landed) /\ ~behind =>
    /\ asking.step = "read" => asking.saw = granted
    /\ asking = NotAsking /\ answer # NoAnswer => answer = granted
\* Of a player about whom one thing is asked at a time: what was asked last is what
\* is under way, or is done.
WordOf(op) == IF op = "share" THEN "share" ELSE "stop"
WordDone(o) ==
  /\ word[o] = "stop" => o \notin granted
  /\ word[o] = "share" /\ online => o \in granted
WordsKept ==
  \A o \in Others \ tangled :
    /\ \A i, j \in OpenAbout(o) : i = j
    /\ \A i \in OpenAbout(o) : word[o] \in {"none", WordOf(requests[i].op)}
    /\ (\A i \in OpenAbout(o) : requests[i].landed) => WordDone(o)
AskingOK == asking \in {NotAsking, Asked} \cup [step : {"read"}, saw : SUBSET Others]

ControlsInv ==
  MapPageTypeOK /\ AskingOK /\ ButtonsWait /\ LoneWaits /\ ToldSo /\ WordsKept

LEMMA ControlsStart == MapPageInit => ControlsInv
<1> SUFFICES ASSUME MapPageInit PROVE ControlsInv
  OBVIOUS
<1>1. requests = <<>> /\ requests \in Seq(Request) /\ Len(requests) = 0 /\ DOMAIN requests = {}
  <2>1. <<>> \in Seq(Request) /\ Len(<<>>) = 0
    BY EmptySeq
  <2> QED
    BY <2>1, LenProperties DEF MapPageInit
<1>2. MapPageTypeOK
  <2>1. Len(requests) <= MaxRequests /\ outages \in 0 .. MaxOutages
    BY <1>1, MapPageAssumption DEF MapPageInit
  <2>2. word \in [Others -> {"none", "share", "stop"}] /\ tangled \cup unwaited \subseteq Others
    BY DEF MapPageInit
  <2>3. asking.step \in {"no", "asked", "read"} /\ asking.saw \subseteq Others
    BY DEF MapPageInit, Asked
  <2>4. online \in BOOLEAN /\ behind \in BOOLEAN
    BY DEF MapPageInit
  <2> QED
    BY <1>1, <2>1, <2>2, <2>3, <2>4 DEF MapPageInit, MapPageTypeOK
<1>3. \A o \in Others : word[o] = "none"
  BY DEF MapPageInit
<1>4. WordsKept
  BY <1>1, <1>3 DEF WordsKept, WordDone, OpenAbout
<1>5. AskingOK /\ ButtonsWait /\ LoneWaits /\ ToldSo
  BY <1>1 DEF MapPageInit, AskingOK, ButtonsWait, LoneWaits, ToldSo, Asked, NotAsking
<1> QED
  BY <1>2, <1>4, <1>5 DEF ControlsInv

LEMMA ControlsAreFine == ControlsInv => MapIsAsAgreed
<1> SUFFICES ASSUME ControlsInv PROVE MapIsAsAgreed
  OBVIOUS
<1>1. requests = <<>> => DOMAIN requests = {}
  BY EmptySeq
<1>2. ChipIsTrue
  BY <1>1 DEF ControlsInv, ToldSo, ChipIsTrue
<1>3. LastWordStands
  BY DEF ControlsInv, WordsKept, WordDone, LastWordStands
<1> QED
  BY <1>2, <1>3 DEF ControlsInv, MapIsAsAgreed

\* The requests are a sequence of requests.
LEMMA RequestRows ==
  ASSUME MapPageTypeOK
  PROVE  /\ Len(requests) \in Nat /\ DOMAIN requests = 1 .. Len(requests)
         /\ \A i \in DOMAIN requests : requests[i] \in Request
         /\ requests = <<>> <=> DOMAIN requests = {}
<1>1. requests \in Seq(Request)
  BY DEF MapPageTypeOK
<1>2. Len(requests) \in Nat /\ DOMAIN requests = 1 .. Len(requests)
  BY <1>1, LenProperties
<1>3. \A i \in DOMAIN requests : requests[i] \in Request
  BY <1>1, <1>2, ElementOfSeq
<1>4. requests # <<>> => Len(requests) # 0
  BY <1>1, EmptySeq
<1>5. requests = <<>> => Len(requests) = 0
  BY EmptySeq
<1> QED
  BY <1>2, <1>3, <1>4, <1>5

\* A request is added at the end; the others are no longer alone.
LEMMA Opened ==
  ASSUME MapPageTypeOK, NEW op \in {"share", "stop", "stopAll"}, NEW who \in SUBSET Others,
         Opens(op, who)
  PROVE  LET n == Len(requests)
         IN  /\ requests' \in Seq(Request) /\ Len(requests') = n + 1 /\ n + 1 <= MaxRequests
             /\ DOMAIN requests' = 1 .. n + 1 /\ DOMAIN requests = 1 .. n /\ n \in Nat
             /\ \A i \in 1 .. n : /\ requests'[i].op = requests[i].op
                                  /\ requests'[i].who = requests[i].who
                                  /\ requests'[i].landed = requests[i].landed
                                  /\ requests'[i].alone = FALSE
             /\ requests'[n + 1] = [op |-> op, who |-> who, landed |-> FALSE,
                                    alone |-> requests = <<>>]
<1> DEFINE n == Len(requests)
           old == [i \in DOMAIN requests |-> [requests[i] EXCEPT !.alone = FALSE]]
           new == [op |-> op, who |-> who, landed |-> FALSE, alone |-> requests = <<>>]
<1>1. n \in Nat /\ DOMAIN requests = 1 .. n /\ \A i \in 1 .. n : requests[i] \in Request
  BY RequestRows
<1>2. \A i \in 1 .. n : old[i] \in Request /\ old[i] = [requests[i] EXCEPT !.alone = FALSE]
  BY <1>1 DEF Request
<1>3. old \in Seq(Request) /\ Len(old) = n
  <2>1. old \in [1 .. n -> Request]
    BY <1>1, <1>2
  <2> HIDE DEF old
  <2> QED
    BY <1>1, <2>1, TableIsSeq
<1>4. new \in Request
  BY DEF Request
<1>5. requests' = Append(old, new) /\ n < MaxRequests
  BY DEF Opens
<1>6. \A i \in 1 .. n : /\ old[i].op = requests[i].op /\ old[i].who = requests[i].who
                        /\ old[i].landed = requests[i].landed /\ old[i].alone = FALSE
  BY <1>1, <1>2 DEF Request
<1> HIDE DEF old, new
<1>7. /\ Append(old, new) \in Seq(Request) /\ Len(Append(old, new)) = n + 1
      /\ \A i \in 1 .. n : Append(old, new)[i] = old[i]
      /\ Append(old, new)[n + 1] = new
  BY <1>3, <1>4, AppendProperties
<1>8. DOMAIN requests' = 1 .. n + 1
  BY <1>5, <1>7, LenProperties
<1>9. n + 1 <= MaxRequests
  <2>1. MaxRequests \in Nat
    BY MapPageAssumption
  <2> QED
    BY <1>1, <1>5, <2>1
<1>10. \A i \in 1 .. n : requests'[i] = old[i]
  BY <1>5, <1>7
<1>11. requests' \in Seq(Request) /\ Len(requests') = n + 1 /\ requests'[n + 1] = new
  BY <1>5, <1>7
<1> QED
  BY <1>1, <1>6, <1>8, <1>9, <1>10, <1>11 DEF new

\* One that settles goes; the others close up.
From(j, i) == IF j < i THEN j ELSE j + 1
LEMMA Removed ==
  ASSUME MapPageTypeOK, NEW i \in DOMAIN requests
  PROVE  LET n == Len(requests)
             T == RemoveAt(requests, i)
         IN  /\ T \in Seq(Request) /\ Len(T) = n - 1 /\ n \in Nat \ {0}
             /\ DOMAIN T = 1 .. n - 1 /\ DOMAIN requests = 1 .. n
             /\ \A j \in 1 .. n - 1 : /\ T[j] = requests[From(j, i)]
                                      /\ From(j, i) \in 1 .. n /\ From(j, i) # i
             /\ \A j, k \in 1 .. n - 1 : From(j, i) = From(k, i) => j = k
             /\ \A k \in 1 .. n : k # i => \E j \in 1 .. n - 1 : From(j, i) = k
<1> DEFINE n == Len(requests)
           A == SubSeq(requests, 1, i - 1)
           B == SubSeq(requests, i + 1, n)
           T == RemoveAt(requests, i)
<1>1. n \in Nat /\ DOMAIN requests = 1 .. n /\ \A j \in 1 .. n : requests[j] \in Request
  BY RequestRows
<1>2. i \in 1 .. n /\ n \in Nat \ {0}
  BY <1>1
<1>3. /\ A \in Seq(Request) /\ Len(A) = i - 1
      /\ \A j \in 1 .. i - 1 : A[j] = requests[j]
  <2>1. i - 1 \in Int /\ \A j \in 1 .. i - 1 : requests[j] \in Request
    BY <1>1, <1>2
  <2>2. /\ A \in Seq(Request)
        /\ Len(A) = IF 1 <= i - 1 THEN (i - 1) - 1 + 1 ELSE 0
        /\ \A j \in 1 .. (i - 1) - 1 + 1 : A[j] = requests[1 + j - 1]
    BY <2>1, SubSeqProperties
  <2> HIDE DEF A
  <2>3. \A j \in 1 .. i - 1 : A[j] = requests[j]
    <3> TAKE j \in 1 .. i - 1
    <3>1. j \in 1 .. (i - 1) - 1 + 1 /\ 1 + j - 1 = j
      BY <1>2
    <3> QED
      BY <2>2, <3>1
  <2> QED
    BY <1>2, <2>2, <2>3
<1>4. /\ B \in Seq(Request) /\ Len(B) = n - i
      /\ \A j \in 1 .. n - i : B[j] = requests[i + j]
  <2>1. i + 1 \in Int /\ n \in Int /\ \A j \in i + 1 .. n : requests[j] \in Request
    BY <1>1, <1>2
  <2>2. /\ B \in Seq(Request)
        /\ Len(B) = IF i + 1 <= n THEN n - (i + 1) + 1 ELSE 0
        /\ \A j \in 1 .. n - (i + 1) + 1 : B[j] = requests[(i + 1) + j - 1]
    BY <2>1, SubSeqProperties
  <2> HIDE DEF B
  <2>3. \A j \in 1 .. n - i : B[j] = requests[i + j]
    <3> TAKE j \in 1 .. n - i
    <3>1. j \in 1 .. n - (i + 1) + 1 /\ (i + 1) + j - 1 = i + j
      BY <1>2
    <3> QED
      BY <2>2, <3>1
  <2> QED
    BY <1>2, <2>2, <2>3
<1>5. T = A \o B
  BY DEF RemoveAt
<1> HIDE DEF A, B, T
<1>6. /\ T \in Seq(Request) /\ Len(T) = n - 1
      /\ \A j \in 1 .. n - 1 : T[j] = IF j <= i - 1 THEN A[j] ELSE B[j - (i - 1)]
  <2>1. (i - 1) + (n - i) = n - 1
    BY <1>2
  <2>2. /\ T \in Seq(Request) /\ Len(T) = Len(A) + Len(B)
        /\ \A j \in 1 .. Len(A) + Len(B) : T[j] = IF j <= Len(A) THEN A[j] ELSE B[j - Len(A)]
    BY <1>3, <1>4, <1>5, ConcatProperties
  <2>3. Len(A) = i - 1 /\ Len(A) + Len(B) = n - 1
    BY <1>3, <1>4, <2>1
  <2> QED
    BY <2>2, <2>3
<1>7. DOMAIN T = 1 .. n - 1
  BY <1>6, LenProperties
<1>8. ASSUME NEW j \in 1 .. n - 1
      PROVE  T[j] = requests[From(j, i)] /\ From(j, i) \in 1 .. n /\ From(j, i) # i
  <2>1. CASE j < i
    <3>1. j \in 1 .. i - 1 /\ From(j, i) = j
      BY <1>2, <2>1 DEF From
    <3> QED
      BY <1>2, <1>3, <1>6, <2>1, <3>1
  <2>2. CASE ~(j < i)
    <3>1. j - (i - 1) \in 1 .. n - i /\ i + (j - (i - 1)) = j + 1 /\ From(j, i) = j + 1 /\ ~(j <= i - 1)
      BY <1>2, <2>2 DEF From
    <3>2. T[j] = B[j - (i - 1)]
      BY <1>6, <3>1
    <3>3. B[j - (i - 1)] = requests[j + 1]
      BY <1>4, <3>1
    <3> QED
      BY <1>2, <2>2, <3>1, <3>2, <3>3
  <2> QED
    BY <2>1, <2>2
<1>9. \A j, k \in 1 .. n - 1 : From(j, i) = From(k, i) => j = k
  BY <1>2 DEF From
<1>10. ASSUME NEW k \in 1 .. n, k # i
       PROVE  \E j \in 1 .. n - 1 : From(j, i) = k
  <2>1. CASE k < i
    BY <1>2, <2>1 DEF From
  <2>2. CASE k > i
    <3>1. k - 1 \in 1 .. n - 1 /\ From(k - 1, i) = k
      BY <1>2, <2>2 DEF From
    <3> QED
      BY <3>1
  <2> QED
    BY <1>2, <1>10, <2>1, <2>2
<1> QED
  BY <1>1, <1>2, <1>6, <1>7, <1>8, <1>9, <1>10 DEF T

\* Fetches of the map.
LEMMA FetchSteps ==
  ASSUME ControlsInv, Asks \/ Reads \/ Answers \/ AskingFails
  PROVE  ControlsInv'
<1>1. /\ MapPageTypeOK /\ AskingOK /\ granted \subseteq Others /\ MaxOutages \in Nat
      /\ UNCHANGED <<online, granted, pendingFor, requests, word, tangled, unwaited>>
  BY MapPageAssumption DEF ControlsInv, MapPageTypeOK, Asks, Reads, Answers, AskingFails
<1>2. LoneWaits' /\ ButtonsWait' /\ WordsKept'
  BY <1>1 DEF ControlsInv, LoneWaits, ButtonsWait, WordsKept, WordDone, OpenAbout
<1>3. AskingOK'
  BY <1>1 DEF AskingOK, Asks, Reads, Answers, AskingFails
<1>4. asking' \in [step : {"no", "asked", "read"}, saw : SUBSET Others]
  BY <1>3 DEF AskingOK, Asked, NotAsking
<1>5. MapPageTypeOK'
  <2>1. answer' = NoAnswer \/ answer' \subseteq Others
    BY <1>1 DEF MapPageTypeOK, Asks, Reads, Answers, AskingFails
  <2>2. behind' \in BOOLEAN
    BY <1>1 DEF MapPageTypeOK, Asks, Reads, Answers, AskingFails
  <2>3. outages' \in 0 .. MaxOutages
    BY <1>1 DEF MapPageTypeOK, Asks, Reads, Answers, AskingFails, Outage
  <2>4. asking'.step \in {"no", "asked", "read"} /\ asking'.saw \subseteq Others
    BY <1>4
  <2> QED
    BY <1>1, <2>1, <2>2, <2>3, <2>4 DEF MapPageTypeOK
<1>6. ToldSo'
  <2>1. CASE Asks
    BY <1>1, <2>1 DEF Asks, ToldSo, Asked, NotAsking
  <2>2. CASE Reads
    BY <1>1, <2>2 DEF Reads, ToldSo, NotAsking
  <2>3. CASE Answers
    BY <1>1, <2>3 DEF Answers, ControlsInv, ToldSo, NotAsking
  <2>4. CASE AskingFails
    BY <1>1, <2>4 DEF AskingFails, ToldSo
  <2> QED
    BY <2>1, <2>2, <2>3, <2>4
<1> QED
  BY <1>2, <1>3, <1>5, <1>6 DEF ControlsInv

\* The words and the answers while a request is added.
LEMMA OpenSteps ==
  ASSUME ControlsInv, NEW op \in {"share", "stop", "stopAll"}, NEW who \in SUBSET Others,
         Opens(op, who), UNCHANGED <<online, granted, answer, asking, outages, behind>>,
         pendingFor' \in Others \cup {NoAnswer},
         op # "stopAll" => who = {pendingFor'} /\ pendingFor \notin who
  PROVE  ControlsInv'
<1> DEFINE n == Len(requests)
<1>1. /\ MapPageTypeOK /\ AskingOK
      /\ requests' \in Seq(Request) /\ Len(requests') = n + 1 /\ n + 1 <= MaxRequests
      /\ DOMAIN requests' = 1 .. n + 1 /\ DOMAIN requests = 1 .. n /\ n \in Nat
      /\ \A i \in 1 .. n : /\ requests'[i].op = requests[i].op
                           /\ requests'[i].who = requests[i].who
                           /\ requests'[i].landed = requests[i].landed
                           /\ requests'[i].alone = FALSE
      /\ requests'[n + 1] = [op |-> op, who |-> who, landed |-> FALSE, alone |-> requests = <<>>]
  BY Opened DEF ControlsInv
<1>2. /\ word' = [o \in Others |-> IF o \notin who THEN word[o] ELSE WordOf(op)]
      /\ tangled' = (tangled \ who) \cup {o \in who : OpenAbout(o) # {}}
      /\ unwaited' = unwaited \cup
           {o \in who : op # "stopAll" /\ \E i \in OpenAbout(o) :
                           requests[i].alone /\ requests[i].op # "stopAll"}
  BY DEF Opens, WordOf
<1>3. unwaited' = {}
  <2> SUFFICES ASSUME NEW o \in who, op # "stopAll", NEW i \in OpenAbout(o),
                      requests[i].alone, requests[i].op # "stopAll"
               PROVE  FALSE
    BY <1>2 DEF ControlsInv, ButtonsWait
  <2>1. i \in DOMAIN requests /\ o \in requests[i].who
    BY DEF OpenAbout
  <2>2. requests[i].who = {pendingFor}
    BY <2>1 DEF ControlsInv, LoneWaits
  <2> QED
    BY <2>1, <2>2
<1>4. MapPageTypeOK'
  <2>1. word' \in [Others -> {"none", "share", "stop"}]
    BY <1>1, <1>2 DEF MapPageTypeOK, WordOf
  <2>2. tangled' \cup unwaited' \subseteq Others
    BY <1>1, <1>2, <1>3 DEF MapPageTypeOK
  <2> QED
    BY <1>1, <2>1, <2>2 DEF MapPageTypeOK
<1>5. LoneWaits'
  <2>1. ASSUME NEW i \in 1 .. n + 1, i \notin 1 .. n PROVE i = n + 1
    BY <1>1, <2>1
  <2>2. requests'[n + 1].alone = (requests = <<>>)
    BY <1>1
  <2>3. requests'[n + 1].op = op /\ requests'[n + 1].who = who
    BY <1>1
  <2>4. requests = <<>> => Len(requests') = 1
    <3>1. requests = <<>> => n = 0
      BY EmptySeq
    <3> QED
      BY <1>1, <3>1
  <2>5. \A i \in 1 .. n : requests'[i].alone = FALSE
    BY <1>1
  <2>6. ASSUME NEW i \in 1 .. n + 1, requests'[i].alone, requests'[i].op # "stopAll"
        PROVE  Len(requests') = 1 /\ requests'[i].who = {pendingFor'}
    <3>1. i \notin 1 .. n
      BY <2>5, <2>6, Zenon
    <3>2. i = n + 1
      BY <2>1, <3>1
    <3>3. requests'[n + 1].alone /\ requests'[n + 1].op # "stopAll"
      BY <2>6, <3>2, Zenon
    <3>4. requests = <<>>
      BY <2>2, <3>3, Zenon
    <3>5. Len(requests') = 1
      BY <2>4, <3>4
    <3>6. who = {pendingFor'}
      BY <2>3, <3>3, Zenon
    <3> QED
      BY <2>3, <3>2, <3>5, <3>6, Zenon
  <2> QED
    BY <1>1, <2>6 DEF LoneWaits
<1>6. ToldSo'
  <2>1. (\A i \in 1 .. n + 1 : ~requests'[i].landed) => \A i \in 1 .. n : ~requests[i].landed
    BY <1>1
  <2> QED
    BY <1>1, <2>1 DEF ControlsInv, ToldSo
<1>7. ASSUME NEW o \in Others
      PROVE  /\ \A i \in 1 .. n : i \in OpenAbout(o)' <=> i \in OpenAbout(o)
             /\ n + 1 \in OpenAbout(o)' <=> o \in who
             /\ OpenAbout(o)' \subseteq 1 .. n + 1 /\ OpenAbout(o) \subseteq 1 .. n
  <2>1. OpenAbout(o)' = {i \in DOMAIN requests' : o \in requests'[i].who}
    BY DEF OpenAbout
  <2>2. OpenAbout(o) = {i \in DOMAIN requests : o \in requests[i].who}
    BY DEF OpenAbout
  <2>3. n + 1 \in 1 .. n + 1 /\ \A i \in 1 .. n : i \in 1 .. n + 1
    BY <1>1
  <2>4. n + 1 \in OpenAbout(o)' <=> o \in who
    BY <1>1, <2>1, <2>3
  <2>5. \A i \in 1 .. n : i \in OpenAbout(o)' <=> i \in OpenAbout(o)
    BY <1>1, <2>1, <2>2, <2>3
  <2> QED
    BY <1>1, <2>1, <2>2, <2>4, <2>5
<1>8. WordsKept'
  <2> SUFFICES ASSUME NEW o \in Others, o \notin tangled'
               PROVE  /\ \A i, j \in OpenAbout(o)' : i = j
                      /\ \A i \in OpenAbout(o)' : word'[o] \in {"none", WordOf(requests'[i].op)}
                      /\ (\A i \in OpenAbout(o)' : requests'[i].landed) => WordDone(o)'
    BY DEF WordsKept
  <2>1. CASE o \in who
    <3>1. OpenAbout(o) = {} /\ word'[o] = WordOf(op)
      BY <1>2, <2>1
    <3>2. \A i \in OpenAbout(o)' : i = n + 1
      <4> SUFFICES ASSUME NEW i \in OpenAbout(o)', i # n + 1 PROVE FALSE
        OBVIOUS
      <4>1. i \in 1 .. n
        BY <1>1, <1>7
      <4> QED
        BY <1>7, <3>1, <4>1
    <3>3. n + 1 \in OpenAbout(o)' /\ requests'[n + 1].op = op /\ requests'[n + 1].landed = FALSE
      BY <1>1, <1>7, <2>1
    <3> QED
      BY <3>1, <3>2, <3>3
  <2>2. CASE o \notin who
    <3>1. o \notin tangled /\ word'[o] = word[o]
      BY <1>2, <2>2
    <3>2. OpenAbout(o)' = OpenAbout(o)
      <4>1. n + 1 \notin OpenAbout(o)'
        BY <1>7, <2>2
      <4>2. ASSUME NEW i PROVE i \in OpenAbout(o)' <=> i \in OpenAbout(o)
        <5>1. i \in OpenAbout(o)' => i \in 1 .. n
          BY <1>1, <1>7, <4>1
        <5>2. i \in OpenAbout(o) => i \in 1 .. n
          BY <1>7
        <5> QED
          BY <1>7, <5>1, <5>2
      <4> QED
        BY <4>2
    <3>3. \A i \in OpenAbout(o) : requests'[i].op = requests[i].op /\ requests'[i].landed = requests[i].landed
      BY <1>1, <1>7
    <3>4. /\ \A i, j \in OpenAbout(o) : i = j
          /\ \A i \in OpenAbout(o) : word[o] \in {"none", WordOf(requests[i].op)}
          /\ (\A i \in OpenAbout(o) : requests[i].landed) => WordDone(o)
      BY <3>1 DEF ControlsInv, WordsKept
    <3>5. WordDone(o) => WordDone(o)'
      BY <3>1 DEF WordDone
    <3> QED
      BY <3>1, <3>2, <3>3, <3>4, <3>5
  <2> QED
    BY <2>1, <2>2
<1> QED
  BY <1>1, <1>3, <1>4, <1>5, <1>6, <1>8 DEF ControlsInv, ButtonsWait, AskingOK

LEMMA ClickSteps ==
  ASSUME ControlsInv, NEW o \in Others, Clicks(o)
  PROVE  ControlsInv'
<1>1. PICK op \in {"share", "stop", "stopAll"} : op # "stopAll" /\ Opens(op, {o})
  BY DEF Clicks
<1>2. /\ UNCHANGED <<online, granted, answer, asking, outages, behind>>
      /\ pendingFor' = o /\ pendingFor # o
  BY DEF Clicks, Disabled, Waits
<1>3. /\ {o} \in SUBSET Others /\ pendingFor' \in Others \cup {NoAnswer}
      /\ {o} = {pendingFor'} /\ pendingFor \notin {o}
  BY <1>2
<1> QED
  BY <1>1, <1>2, <1>3, OpenSteps

LEMMA StopAllSteps ==
  ASSUME ControlsInv, StopsAll
  PROVE  ControlsInv'
<1>1. /\ Opens("stopAll", Others) /\ pendingFor' \in Others \cup {NoAnswer}
      /\ UNCHANGED <<online, granted, answer, asking, outages, behind>>
  BY DEF StopsAll, ControlsInv, MapPageTypeOK
<1>2. Others \in SUBSET Others /\ "stopAll" \in {"share", "stop", "stopAll"}
  OBVIOUS
<1> QED
  BY <1>1, <1>2, OpenSteps

LEMMA LandSteps ==
  ASSUME ControlsInv, NEW i \in DOMAIN requests, Lands(i)
  PROVE  ControlsInv'
<1>1. /\ MapPageTypeOK /\ requests[i] \in Request /\ Len(requests) \in Nat
      /\ DOMAIN requests = 1 .. Len(requests)
      /\ UNCHANGED <<online, answer, asking, pendingFor, outages, behind, word, tangled, unwaited>>
      /\ requests' = [requests EXCEPT ![i].landed = TRUE] /\ ~requests[i].landed
      /\ \A j \in DOMAIN requests : requests[j] \in Request
  BY RequestRows DEF ControlsInv, Lands
<1>2. granted' = IF requests[i].op # "share" THEN granted \ requests[i].who
                 ELSE IF online THEN granted \cup requests[i].who ELSE granted
  BY DEF Lands
<1>3. /\ DOMAIN requests' = DOMAIN requests
      /\ \A j \in DOMAIN requests : /\ requests'[j].op = requests[j].op
                                    /\ requests'[j].who = requests[j].who
                                    /\ requests'[j].alone = requests[j].alone
                                    /\ j # i => requests'[j].landed = requests[j].landed
                                    /\ requests'[j] \in Request
      /\ requests'[i].landed = TRUE
  BY <1>1 DEF Request
<1>4. requests' \in Seq(Request) /\ Len(requests') = Len(requests)
  <2>1. requests' \in [1 .. Len(requests) -> Request]
    BY <1>1, <1>3
  <2> QED
    BY <1>1, <2>1, TableIsSeq
<1>5. MapPageTypeOK'
  <2>1. granted' \subseteq Others
    BY <1>1, <1>2 DEF MapPageTypeOK, Request
  <2> QED
    BY <1>1, <1>4, <2>1 DEF MapPageTypeOK
<1>6. LoneWaits' /\ ButtonsWait' /\ AskingOK' /\ ToldSo'
  BY <1>1, <1>3, <1>4 DEF ControlsInv, LoneWaits, ButtonsWait, AskingOK, ToldSo
<1>7. \A o : OpenAbout(o)' = OpenAbout(o)
  BY <1>3 DEF OpenAbout
<1>8. WordsKept'
  <2> SUFFICES ASSUME NEW o \in Others, o \notin tangled
               PROVE  /\ \A k, j \in OpenAbout(o) : k = j
                      /\ \A k \in OpenAbout(o) : word[o] \in {"none", WordOf(requests'[k].op)}
                      /\ (\A k \in OpenAbout(o) : requests'[k].landed) => WordDone(o)'
    BY <1>1, <1>7 DEF WordsKept
  <2>1. /\ \A k, j \in OpenAbout(o) : k = j
        /\ \A k \in OpenAbout(o) : word[o] \in {"none", WordOf(requests[k].op)}
        /\ (\A k \in OpenAbout(o) : requests[k].landed) => WordDone(o)
    BY DEF ControlsInv, WordsKept
  <2>2. \A k \in OpenAbout(o) : requests'[k].op = requests[k].op
    BY <1>3 DEF OpenAbout
  <2>3. (\A k \in OpenAbout(o) : requests'[k].landed) => WordDone(o)'
    <3>1. CASE o \in requests[i].who
      <4>1. i \in OpenAbout(o)
        BY <3>1 DEF OpenAbout
      <4>2. word[o] \in {"none", WordOf(requests[i].op)}
        BY <2>1, <4>1
      <4> QED
        BY <1>1, <1>2, <3>1, <4>2 DEF WordDone, WordOf
    <3>2. CASE o \notin requests[i].who
      <4>1. \A k \in OpenAbout(o) : k # i
        BY <3>2 DEF OpenAbout
      <4>2. \A k \in OpenAbout(o) : requests'[k].landed = requests[k].landed
        BY <1>3, <4>1 DEF OpenAbout
      <4>3. o \in granted' <=> o \in granted
        BY <1>2, <3>2
      <4>4. WordDone(o) => WordDone(o)'
        BY <1>1, <4>3 DEF WordDone
      <4> QED
        BY <2>1, <4>2, <4>4
    <3> QED
      BY <3>1, <3>2
  <2> QED
    BY <2>1, <2>2, <2>3
<1> QED
  BY <1>5, <1>6, <1>8 DEF ControlsInv

LEMMA SettleSteps ==
  ASSUME ControlsInv, NEW i \in DOMAIN requests, Settles(i)
  PROVE  ControlsInv'
<1> DEFINE n == Len(requests)
<1>1. /\ MapPageTypeOK
      /\ requests' \in Seq(Request) /\ Len(requests') = n - 1 /\ n \in Nat \ {0}
      /\ DOMAIN requests' = 1 .. n - 1 /\ DOMAIN requests = 1 .. n
      /\ \A j \in 1 .. n - 1 : /\ requests'[j] = requests[From(j, i)]
                               /\ From(j, i) \in 1 .. n /\ From(j, i) # i
      /\ \A j, k \in 1 .. n - 1 : From(j, i) = From(k, i) => j = k
      /\ \A k \in 1 .. n : k # i => \E j \in 1 .. n - 1 : From(j, i) = k
  BY Removed DEF ControlsInv, Settles
<1>2. /\ UNCHANGED <<online, granted, answer, behind, tangled, unwaited>> /\ asking' = Asked
      /\ pendingFor' \in Others \cup {NoAnswer}
  BY <1>1 DEF Settles, Invalidated, MapPageTypeOK
<1>3. \/ requests[i].landed /\ UNCHANGED <<outages, word>>
      \/ Outage /\ word' = [o \in Others |-> IF o \in requests[i].who THEN "none" ELSE word[o]]
  BY DEF Settles
<1>4. MapPageTypeOK'
  <2>1. outages' \in 0 .. MaxOutages
    BY <1>1, <1>3, MapPageAssumption DEF Outage, MapPageTypeOK
  <2>2. word' \in [Others -> {"none", "share", "stop"}]
    BY <1>1, <1>3 DEF MapPageTypeOK
  <2>3. Len(requests') <= MaxRequests
    BY <1>1, MapPageAssumption DEF MapPageTypeOK
  <2> QED
    BY <1>1, <1>2, <2>1, <2>2, <2>3 DEF MapPageTypeOK, Asked
<1>5. LoneWaits'
  <2> SUFFICES ASSUME NEW j \in 1 .. n - 1, requests'[j].alone, requests'[j].op # "stopAll"
               PROVE  FALSE
    BY <1>1 DEF LoneWaits
  <2>1. PICK k \in 1 .. n : k = From(j, i)
    BY <1>1
  <2>2. requests[k].alone /\ requests[k].op # "stopAll" /\ k \in DOMAIN requests
    BY <1>1, <2>1
  <2>3. n = 1
    BY <2>2 DEF ControlsInv, LoneWaits
  <2> QED
    BY <2>3
<1>6. ToldSo' /\ AskingOK' /\ ButtonsWait'
  BY <1>2 DEF ControlsInv, ToldSo, AskingOK, ButtonsWait, Asked, NotAsking
<1>7. ASSUME NEW o \in Others
      PROVE  /\ OpenAbout(o)' \subseteq 1 .. n - 1 /\ OpenAbout(o) \subseteq 1 .. n
             /\ \A j \in 1 .. n - 1 : j \in OpenAbout(o)' <=> From(j, i) \in OpenAbout(o)
             /\ i \in OpenAbout(o) <=> o \in requests[i].who
  BY <1>1 DEF OpenAbout
<1>8. ASSUME NEW o \in Others, o \notin tangled
      PROVE  /\ \A j, k \in OpenAbout(o)' : j = k
             /\ \A j \in OpenAbout(o)' : word'[o] \in {"none", WordOf(requests'[j].op)}
             /\ (\A j \in OpenAbout(o)' : requests'[j].landed) => WordDone(o)'
  <2>1. /\ \A j, k \in OpenAbout(o) : j = k
        /\ \A j \in OpenAbout(o) : word[o] \in {"none", WordOf(requests[j].op)}
        /\ (\A j \in OpenAbout(o) : requests[j].landed) => WordDone(o)
    BY <1>8 DEF ControlsInv, WordsKept
  <2>2. CASE o \in requests[i].who
    <3>1. i \in OpenAbout(o)
      BY <1>7, <2>2
    <3>2. OpenAbout(o)' = {}
      <4> SUFFICES ASSUME NEW j \in OpenAbout(o)' PROVE FALSE
        OBVIOUS
      <4>1. j \in 1 .. n - 1
        BY <1>7
      <4>2. From(j, i) \in OpenAbout(o) /\ From(j, i) # i
        BY <1>1, <1>7, <4>1
      <4> QED
        BY <2>1, <3>1, <4>2
    <3>3. WordDone(o)'
      <4>1. CASE requests[i].landed /\ UNCHANGED <<outages, word>>
        <5>1. WordDone(o)
          BY <2>1, <3>1, <4>1
        <5> QED
          BY <1>2, <4>1, <5>1 DEF WordDone
      <4>2. CASE Outage /\ word' = [p \in Others |-> IF p \in requests[i].who THEN "none" ELSE word[p]]
        <5>1. word'[o] = "none"
          BY <2>2, <4>2
        <5> QED
          BY <5>1 DEF WordDone
      <4> QED
        BY <1>3, <4>1, <4>2
    <3> QED
      BY <3>2, <3>3
  <2>3. CASE o \notin requests[i].who
    <3>1. word'[o] = word[o]
      BY <1>3, <2>3
    <3>2. \A j \in OpenAbout(o)' :
            /\ j \in 1 .. n - 1 /\ From(j, i) \in OpenAbout(o)
            /\ requests'[j] = requests[From(j, i)]
      BY <1>1, <1>7
    <3>3. (\A j \in OpenAbout(o)' : requests'[j].landed) => \A k \in OpenAbout(o) : requests[k].landed
      <4> SUFFICES ASSUME \A j \in OpenAbout(o)' : requests'[j].landed, NEW k \in OpenAbout(o)
                   PROVE  requests[k].landed
        OBVIOUS
      <4>1. k \in 1 .. n /\ k # i
        BY <1>7, <2>3
      <4>2. PICK j \in 1 .. n - 1 : From(j, i) = k
        BY <1>1, <4>1
      <4>3. j \in OpenAbout(o)'
        BY <1>7, <4>2
      <4> QED
        BY <3>2, <4>2, <4>3
    <3>4. \A j, k \in OpenAbout(o)' : j = k
      BY <1>1, <2>1, <3>2
    <3>5. \A j \in OpenAbout(o)' : word'[o] \in {"none", WordOf(requests'[j].op)}
      BY <2>1, <3>1, <3>2
    <3>6. WordDone(o) => WordDone(o)'
      BY <1>2, <3>1 DEF WordDone
    <3> QED
      BY <2>1, <3>3, <3>4, <3>5, <3>6
  <2> QED
    BY <2>2, <2>3
<1>9. WordsKept'
  BY <1>2, <1>8 DEF WordsKept
<1> QED
  BY <1>4, <1>5, <1>6, <1>9 DEF ControlsInv

LEMMA EndSteps ==
  ASSUME ControlsInv, SessionEnds
  PROVE  ControlsInv'
<1>1. /\ online' = FALSE /\ granted' = {} /\ behind' = TRUE /\ word' = [o \in Others |-> "none"]
      /\ UNCHANGED <<answer, asking, pendingFor, requests, outages, tangled, unwaited>>
  BY DEF SessionEnds
<1>2. MapPageTypeOK'
  BY <1>1 DEF ControlsInv, MapPageTypeOK
<1>3. LoneWaits' /\ ButtonsWait' /\ AskingOK' /\ ToldSo'
  BY <1>1 DEF ControlsInv, LoneWaits, ButtonsWait, AskingOK, ToldSo
<1>4. \A o \in Others : word'[o] = "none" /\ OpenAbout(o)' = OpenAbout(o)
  BY <1>1 DEF OpenAbout
<1>5. WordsKept'
  BY <1>1, <1>4 DEF ControlsInv, WordsKept, WordDone
<1> QED
  BY <1>2, <1>3, <1>5 DEF ControlsInv

LEMMA ControlsStep ==
  ASSUME ControlsInv, [MapPageNext]_mapPageVars
  PROVE  ControlsInv'
<1>1. CASE UNCHANGED mapPageVars
  BY <1>1 DEF mapPageVars, ControlsInv, MapPageTypeOK, AskingOK, ButtonsWait, LoneWaits, ToldSo,
              WordsKept, WordDone, OpenAbout
<1>2. CASE MapPageNext
  BY <1>2, FetchSteps, ClickSteps, StopAllSteps, LandSteps, SettleSteps, EndSteps DEF MapPageNext
<1> QED
  BY <1>1, <1>2

\* Of the site as it is run: the map's controls agree with the server and with what
\* the viewer asked last, and the canvas shows the last answer and leaves the view to
\* the reader (map-canvas.tsx, map-page.tsx).
THEOREM MapTold == SiteSpec => MapTellsTheTruth
<1>1. SiteInit => CanvasInv /\ ControlsInv
  BY CanvasStarts, ControlsStart DEF SiteInit
<1>2. [SiteNext]_siteVars => [MapCanvasNext]_mapCanvasVars /\ [MapPageNext]_mapPageVars
  BY DEF SiteNext, siteVars
<1>3. CanvasInv /\ [MapCanvasNext]_mapCanvasVars => CanvasInv' /\ [ViewIsTheReaders]_mapCanvasVars
  BY CanvasStep
<1>4. ControlsInv /\ [MapPageNext]_mapPageVars => ControlsInv'
  BY ControlsStep
<1>5. CanvasInv => MapCanvasTypeOK /\ OneMapUpToDate /\ NeverBlank /\ ShownWhatThereIs
  BY CanvasIsFine DEF CanvasInv
<1>6. ControlsInv => MapIsAsAgreed
  BY ControlsAreFine
<1> QED
  BY <1>1, <1>2, <1>3, <1>4, <1>5, <1>6, PTL
  DEF SiteSpec, MapTellsTheTruth, MapShowsWhatThereIs

-----------------------------------------------------------------------------
\* The story of a life (LifeStory): the rows it is told from are written in the order of
\* their times, the sessions of a life follow each other, and each fix lies in one.

\* Rows stand in the order of their times, none later than now.
RowsInOrder ==
  /\ \A i \in DOMAIN wounds :
       /\ wounds[i].at <= minute
       /\ \A j \in DOMAIN wounds : i < j => wounds[i].at <= wounds[j].at
  /\ \A k \in knockouts : k <= minute
  /\ \A p \in DOMAIN fixes :
       /\ fixes[p].at <= heartbeat
       /\ \A q \in DOMAIN fixes : p < q => fixes[p].at <= fixes[q].at
  /\ heartbeat <= minute
  /\ \A t \in shots : t <= minute

\* One session at a time, none before the last was over; the heartbeat is of the last.
StintsInOrder ==
  /\ Len(stints) > 0 /\ stints[1].from = 0
  /\ \A i \in DOMAIN stints :
       /\ stints[i].from <= heartbeat
       /\ stints[i].to # Blank => stints[i].from <= stints[i].to /\ stints[i].to <= minute
       /\ i < Len(stints) => stints[i].to # Blank
       /\ \A j \in DOMAIN stints : i < j => stints[i].to <= stints[j].from

\* The player was logged in wherever seen.
SeenLoggedIn ==
  \A p \in DOMAIN fixes : \E i \in DOMAIN stints :
    /\ stints[i].from <= fixes[p].at
    /\ stints[i].to # Blank => fixes[p].at <= stints[i].to

\* The death ends the last session, and the retirement of the server ends it all.
EndsAreEnds ==
  /\ end # Blank => /\ end.at <= minute /\ heartbeat <= end.at
                    /\ stints[Len(stints)].to = end.at
  /\ closed # Blank => /\ closed <= minute /\ heartbeat <= closed
                       /\ end # Blank => end.at <= closed
                       /\ \A i \in DOMAIN wounds : wounds[i].at <= closed
                       /\ \A t \in shots : t <= closed
                       /\ \A i \in DOMAIN stints : stints[i].to # Blank => stints[i].to <= closed

KindOf(kind) == CASE kind = "fire" -> {"fire"} [] kind = "infected" -> {"infected"} [] OTHER -> Shooters

\* The obituary is of the end, and still right unless it came in its minute.
ArticleHolds ==
  article # Blank =>
    /\ end # Blank /\ article.at \in Minutes /\ end.at <= article.at /\ article.at <= minute
    /\ article.mechanism = end.line.mechanism
    /\ article.category = CauseCategory(end.line.mechanism, article.verdict.cause)
    /\ article.at > end.at => article.verdict = DossierVerdict /\ article.ordeals = Dossier(end.at)
    /\ \A kind \in {"infected", "fire", "pvp"} :
         (\E i \in DOMAIN wounds : wounds[i].at < end.at /\ wounds[i].by \in KindOf(kind)) =>
           article.ordeals[kind].encounters > 0

StoryRows == StoryTypeOK /\ RowsInOrder /\ StintsInOrder /\ SeenLoggedIn /\ EndsAreEnds /\ ArticleHolds

-----------------------------------------------------------------------------
\* The tables of the story, and what its steps do to them.

LEMMA StoryTables ==
  ASSUME StoryTypeOK
  PROVE  /\ Len(wounds) \in Nat /\ DOMAIN wounds = 1 .. Len(wounds)
         /\ \A i \in DOMAIN wounds : wounds[i] \in WoundRow
         /\ Len(fixes) \in Nat /\ DOMAIN fixes = 1 .. Len(fixes)
         /\ \A p \in DOMAIN fixes : fixes[p] \in FixRow
         /\ Len(stints) \in Nat /\ DOMAIN stints = 1 .. Len(stints)
         /\ \A i \in DOMAIN stints : stints[i] \in StintRow
<1> USE DEF StoryTypeOK
<1>1. Len(wounds) \in Nat /\ DOMAIN wounds = 1 .. Len(wounds)
  BY LenProperties
<1>2. Len(fixes) \in Nat /\ DOMAIN fixes = 1 .. Len(fixes)
  BY LenProperties
<1>3. Len(stints) \in Nat /\ DOMAIN stints = 1 .. Len(stints)
  BY LenProperties
<1>4. \A i \in DOMAIN wounds : wounds[i] \in WoundRow
  BY <1>1, ElementOfSeq
<1>5. \A p \in DOMAIN fixes : fixes[p] \in FixRow
  BY <1>2, ElementOfSeq
<1>6. \A i \in DOMAIN stints : stints[i] \in StintRow
  BY <1>3, ElementOfSeq
<1> QED
  BY <1>1, <1>2, <1>3, <1>4, <1>5, <1>6

\* The times of the rows.
LEMMA StoryTimes ==
  ASSUME StoryTypeOK
  PROVE  /\ Minutes \subseteq Nat /\ Blank \notin Nat
         /\ minute \in Minutes /\ heartbeat \in Minutes
         /\ \A i \in DOMAIN wounds : wounds[i].at \in Nat
         /\ \A p \in DOMAIN fixes : fixes[p].at \in Nat
         /\ \A i \in DOMAIN stints : stints[i].from \in Nat /\ stints[i].to \in Nat \cup {Blank}
         /\ \A k \in knockouts : k \in Nat
         /\ \A k \in shots : k \in Nat
         /\ end # Blank => end.at \in Nat
         /\ closed # Blank => closed \in Nat
<1>1. Minutes \subseteq Nat
  BY StoryAssumption DEF Minutes
<1>2. Blank \notin Nat
  BY StoryAssumption
<1>3. minute \in Minutes /\ heartbeat \in Minutes /\ knockouts \subseteq Minutes /\ shots \subseteq Minutes
  BY DEF StoryTypeOK
<1>4. \A i \in DOMAIN wounds : wounds[i].at \in Minutes
  BY StoryTables DEF WoundRow
<1>5. \A p \in DOMAIN fixes : fixes[p].at \in Minutes
  BY StoryTables DEF FixRow
<1>6. \A i \in DOMAIN stints : stints[i].from \in Minutes /\ stints[i].to \in Minutes \cup {Blank}
  BY StoryTables DEF StintRow
<1>7. end # Blank => end.at \in Minutes
  BY DEF StoryTypeOK
<1>8. closed # Blank => closed \in Minutes
  BY DEF StoryTypeOK
<1> QED
  BY <1>1, <1>2, <1>3, <1>4, <1>5, <1>6, <1>7, <1>8

\* The last session closed.
LEMMA StintsClosed ==
  ASSUME StoryTypeOK, Len(stints) > 0, NEW t \in Minutes
  PROVE  /\ StintsClosedAt(t) \in Seq(StintRow) /\ Len(StintsClosedAt(t)) = Len(stints)
         /\ \A i \in DOMAIN stints :
              /\ StintsClosedAt(t)[i].from = stints[i].from
              /\ StintsClosedAt(t)[i].to = IF i = Len(stints) THEN t ELSE stints[i].to
<1> DEFINE n == Len(stints)
           f == StintsClosedAt(t)
<1>1. n \in Nat /\ DOMAIN stints = 1 .. n /\ n \in DOMAIN stints
  BY StoryTables
<1>2. \A i \in DOMAIN stints : stints[i] \in StintRow
  BY StoryTables
<1>3. DOMAIN f = 1 .. n
  BY <1>1 DEF StintsClosedAt
<1>4. \A i \in DOMAIN stints : f[i] = IF i = n THEN [stints[i] EXCEPT !.to = t] ELSE stints[i]
  BY <1>1 DEF StintsClosedAt
<1>5. \A i \in DOMAIN stints :
        /\ f[i] \in StintRow
        /\ f[i].from = stints[i].from
        /\ f[i].to = IF i = n THEN t ELSE stints[i].to
  BY <1>2, <1>4 DEF StintRow
<1>6. f = [i \in 1 .. n |-> f[i]]
  BY <1>3 DEF StintsClosedAt
<1>7. f \in [1 .. n -> StintRow]
  BY <1>1, <1>5, <1>6
<1> HIDE DEF f
<1>8. f \in Seq(StintRow) /\ Len(f) = n
  BY <1>1, <1>7, TableIsSeq
<1> QED
  BY <1>5, <1>8 DEF f

LEMMA StoryStarts == StoryInit => StoryRows
<1> SUFFICES ASSUME StoryInit PROVE StoryRows
  OBVIOUS
<1> USE StoryAssumption
<1>1. stints \in Seq(StintRow) /\ Len(stints) = 1 /\ DOMAIN stints = {1}
  <2>1. [from |-> 0, to |-> Blank] \in StintRow
    BY DEF StintRow, Minutes
  <2> QED
    BY <2>1 DEF StoryInit
<1>2. StoryTypeOK
  BY <1>1, EmptySeq DEF StoryInit, StoryTypeOK, Minutes
<1>3. stints[1].from = 0 /\ stints[1].to = Blank
  BY DEF StoryInit
<1>4. RowsInOrder
  BY DEF StoryInit, RowsInOrder
<1>5. StintsInOrder
  BY <1>1, <1>3 DEF StoryInit, StintsInOrder
<1> QED
  BY <1>2, <1>4, <1>5 DEF StoryInit, StoryRows, SeenLoggedIn, EndsAreEnds, ArticleHolds

\* What a step does to the rows: to wounds and fixes it adds at most one, of now;
\* to the stints a login, or the end of the last.
LEMMA WoundAdded ==
  ASSUME StoryTypeOK, NEW row \in WoundRow
  PROVE  /\ Append(wounds, row) \in Seq(WoundRow)
         /\ DOMAIN Append(wounds, row) = DOMAIN wounds \cup {Len(wounds) + 1}
         /\ \A i \in DOMAIN wounds : Append(wounds, row)[i] = wounds[i] /\ i < Len(wounds) + 1
         /\ Append(wounds, row)[Len(wounds) + 1] = row
<1>1. wounds \in Seq(WoundRow) /\ Len(wounds) \in Nat /\ DOMAIN wounds = 1 .. Len(wounds)
  BY StoryTables DEF StoryTypeOK
<1>2. DOMAIN Append(wounds, row) = 1 .. Len(wounds) + 1
  BY <1>1, Appended
<1>3. Append(wounds, row) \in Seq(WoundRow)
  BY <1>1, AppendProperties
<1> QED
  BY <1>1, <1>2, <1>3, Appended

LEMMA FixAdded ==
  ASSUME StoryTypeOK, NEW row \in FixRow
  PROVE  /\ Append(fixes, row) \in Seq(FixRow)
         /\ DOMAIN Append(fixes, row) = DOMAIN fixes \cup {Len(fixes) + 1}
         /\ \A i \in DOMAIN fixes : Append(fixes, row)[i] = fixes[i] /\ i < Len(fixes) + 1
         /\ Append(fixes, row)[Len(fixes) + 1] = row
<1>1. fixes \in Seq(FixRow) /\ Len(fixes) \in Nat /\ DOMAIN fixes = 1 .. Len(fixes)
  BY StoryTables DEF StoryTypeOK
<1>2. DOMAIN Append(fixes, row) = 1 .. Len(fixes) + 1
  BY <1>1, Appended
<1>3. Append(fixes, row) \in Seq(FixRow)
  BY <1>1, AppendProperties
<1> QED
  BY <1>1, <1>2, <1>3, Appended

LEMMA StintAdded ==
  ASSUME StoryTypeOK, NEW row \in StintRow
  PROVE  /\ Append(stints, row) \in Seq(StintRow)
         /\ Len(Append(stints, row)) = Len(stints) + 1
         /\ DOMAIN Append(stints, row) = DOMAIN stints \cup {Len(stints) + 1}
         /\ \A i \in DOMAIN stints : Append(stints, row)[i] = stints[i]
         /\ Append(stints, row)[Len(stints) + 1] = row
<1>1. stints \in Seq(StintRow) /\ Len(stints) \in Nat /\ DOMAIN stints = 1 .. Len(stints)
  BY StoryTables DEF StoryTypeOK
<1>2. DOMAIN Append(stints, row) = 1 .. Len(stints) + 1
  BY <1>1, Appended
<1>3. Append(stints, row) \in Seq(StintRow) /\ Len(Append(stints, row)) = Len(stints) + 1
  BY <1>1, AppendProperties
<1> QED
  BY <1>1, <1>2, <1>3, Appended

LEMMA VerdictIsOne ==
  ASSUME StoryTypeOK, NEW d \in DeathLine, NEW recent \in SUBSET DOMAIN wounds, NEW knocked
  PROVE  ClassifyDeath(d, recent, knocked) \in VerdictOf
<1> DEFINE base == {c \in {"starving", "dehydrated", "hunted"} :
                      \/ c = "starving" /\ d.starving
                      \/ c = "dehydrated" /\ d.dry
                      \/ c = "hunted" /\ \E h \in Hits(recent) : h.by = "infected"}
           All == {"starving", "dehydrated", "hunted", "bleeding", "drowned", "healthy"}
<1>1. base \subseteq All
  OBVIOUS
<1> HIDE DEF base
<1>2. d.mechanism \in {"pvp", "suicide", "bled_out", "drowned", "environment", "died"} \cup EntityMechanisms
  BY DEF DeathLine
<1>3. ASSUME NEW cause \in CauseNames, NEW confidence \in {"high", "low"}, NEW conditions \in SUBSET All
      PROVE  [cause |-> cause, confidence |-> confidence, conditions |-> conditions] \in VerdictOf
  BY <1>3 DEF VerdictOf
<1>4. CASE d.mechanism # "died"
  <2>1. Stated(d, base) \in VerdictOf
    BY <1>1, <1>2, <1>3, <1>4 DEF Stated, CauseNames
  <2> QED
    BY <1>4, <2>1 DEF ClassifyDeath, base
<1>5. CASE d.mechanism = "died"
  <2> DEFINE by == CHOOSE by \in DownedBy(recent, knocked) : TRUE
  <2>1. KnockoutCause(by) \in CauseNames
    BY DEF KnockoutCause, CauseNames, EntityMechanisms
  <2>2. {"starvation", "dehydration", "mauled", "bled_out", "unknown", "fall"} \subseteq CauseNames
    BY DEF CauseNames, EntityMechanisms
  <2> HIDE DEF by
  <2>3. Inferred(d, base, recent, knocked) \in VerdictOf
    BY <1>1, <1>3, <2>1, <2>2 DEF Inferred, by
  <2> QED
    BY <1>5, <2>3 DEF ClassifyDeath, base
<1> QED
  BY <1>4, <1>5

\* The steps, each by what it changes.
LEMMA StoryTypesKept == StoryTypeOK /\ StintsInOrder /\ StoryNext => StoryTypeOK'
<1> SUFFICES ASSUME StoryTypeOK, StintsInOrder, StoryNext
             PROVE  StoryTypeOK'
  OBVIOUS
<1> USE DEF StoryTypeOK
<1>0. minute \in Minutes /\ heartbeat \in Minutes /\ Len(stints) > 0
  BY DEF StintsInOrder
<1>1. CASE Elapses
  BY <1>1, StoryAssumption DEF Elapses, Minutes
<1>2. CASE FallsUnconscious \/ Shoots
  BY <1>0, <1>2 DEF FallsUnconscious, Shoots
<1>3. ASSUME NEW line \in Wounds, IsHit(line)
      PROVE  StoryTypeOK'
  <2>1. HitRow(line) \in WoundRow
    BY <1>0, StoryAssumption DEF HitRow, WoundRow
  <2>2. wounds' \in Seq(WoundRow)
    BY <1>3, <2>1, WoundAdded DEF IsHit
  <2> QED
    BY <1>3, <2>2 DEF IsHit
<1>4. ASSUME NEW spot \in Spots, IsSeenAt(spot)
      PROVE  StoryTypeOK'
  <2>1. [at |-> minute, spot |-> spot] \in FixRow
    BY <1>0 DEF FixRow
  <2>2. fixes' \in Seq(FixRow)
    BY <1>4, <2>1, FixAdded DEF IsSeenAt
  <2> QED
    BY <1>0, <1>4, <2>2 DEF IsSeenAt
<1>5. CASE LogsOut \/ IsRebooted
  <2>1. stints' \in Seq(StintRow)
    BY <1>0, <1>5, StintsClosed DEF LogsOut, IsRebooted
  <2> QED
    BY <1>0, <1>5, <2>1 DEF LogsOut, IsRebooted
<1>6. CASE LogsIn
  <2>1. [from |-> minute, to |-> Blank] \in StintRow
    BY <1>0 DEF StintRow
  <2>2. stints' \in Seq(StintRow)
    BY <1>6, <2>1, StintAdded DEF LogsIn
  <2> QED
    BY <1>0, <1>6, <2>2 DEF LogsIn
<1>7. CASE ServerRetires
  BY <1>0, <1>7 DEF ServerRetires
<1>8. ASSUME NEW line \in Endings, Perishes(line)
      PROVE  StoryTypeOK'
  <2>1. stints' \in Seq(StintRow)
    BY <1>0, <1>8, StintsClosed DEF Perishes
  <2>2. end' \in [at : Minutes, line : Endings]
    BY <1>0, <1>8 DEF Perishes
  <2> QED
    BY <1>8, <2>1, <2>2 DEF Perishes
<1>9. ASSUME NEW first \in Drafts, NEW second \in Drafts, Publishes(first, second)
      PROVE  StoryTypeOK'
  <2>1. end.line \in DeathLine
    BY <1>9, StoryAssumption DEF Publishes
  <2>2. DossierVerdict \in VerdictOf
    BY <2>1, VerdictIsOne DEF DossierVerdict, RecentHits
  <2>3. article'.verdict = DossierVerdict
    BY <1>9 DEF Publishes, BuildObituaryFacts
  <2> QED
    BY <1>9, <2>2, <2>3 DEF Publishes
<1> QED
  BY <1>1, <1>2, <1>3, <1>4, <1>5, <1>6, <1>7, <1>8, <1>9 DEF StoryNext

LEMMA RowsKept == StoryTypeOK /\ RowsInOrder /\ StintsInOrder /\ StoryNext => RowsInOrder'
<1> SUFFICES ASSUME StoryTypeOK, RowsInOrder, StintsInOrder, StoryNext
             PROVE  RowsInOrder'
  OBVIOUS
<1>0. /\ minute \in Nat /\ heartbeat \in Nat /\ heartbeat <= minute /\ minute \in Minutes
      /\ \A i \in DOMAIN wounds : wounds[i].at \in Nat
      /\ \A p \in DOMAIN fixes : fixes[p].at \in Nat
      /\ \A k \in knockouts \cup shots : k \in Nat
  BY StoryTimes DEF RowsInOrder
<1> USE DEF RowsInOrder
<1>1. CASE Elapses
  BY <1>0, <1>1 DEF Elapses
<1>2. CASE FallsUnconscious \/ Shoots \/ IsRebooted \/ ServerRetires
  BY <1>0, <1>2 DEF FallsUnconscious, Shoots, IsRebooted, ServerRetires
<1>3. ASSUME NEW line \in Wounds, IsHit(line)
      PROVE  RowsInOrder'
  <2>1. HitRow(line) \in WoundRow
    BY <1>0, StoryAssumption DEF HitRow, WoundRow
  <2>2. HitRow(line).at = minute
    BY DEF HitRow
  <2>3. wounds' = Append(wounds, HitRow(line))
    BY <1>3 DEF IsHit
  <2>4. /\ DOMAIN wounds' = DOMAIN wounds \cup {Len(wounds) + 1}
        /\ \A i \in DOMAIN wounds : wounds'[i] = wounds[i] /\ i < Len(wounds) + 1
        /\ wounds'[Len(wounds) + 1].at = minute
        /\ Len(wounds) \in Nat /\ DOMAIN wounds = 1 .. Len(wounds)
    BY <2>1, <2>2, <2>3, WoundAdded, StoryTables
  <2>5. \A i \in DOMAIN wounds' :
          /\ wounds'[i].at <= minute
          /\ \A j \in DOMAIN wounds' : i < j => wounds'[i].at <= wounds'[j].at
    BY <1>0, <2>4
  <2> QED
    BY <1>3, <2>5 DEF IsHit
<1>4. ASSUME NEW spot \in Spots, IsSeenAt(spot)
      PROVE  RowsInOrder'
  <2> DEFINE row == [at |-> minute, spot |-> spot]
  <2>1. row \in FixRow /\ row.at = minute
    BY <1>0 DEF FixRow
  <2> HIDE DEF row
  <2>3. fixes' = Append(fixes, row)
    BY <1>4 DEF IsSeenAt, row
  <2>4. /\ DOMAIN fixes' = DOMAIN fixes \cup {Len(fixes) + 1}
        /\ \A i \in DOMAIN fixes : fixes'[i] = fixes[i] /\ i < Len(fixes) + 1
        /\ fixes'[Len(fixes) + 1].at = minute
        /\ Len(fixes) \in Nat /\ DOMAIN fixes = 1 .. Len(fixes)
    BY <2>1, <2>3, FixAdded, StoryTables
  <2>5. \A i \in DOMAIN fixes' :
          /\ fixes'[i].at <= minute
          /\ \A j \in DOMAIN fixes' : i < j => fixes'[i].at <= fixes'[j].at
    BY <1>0, <2>4
  <2> QED
    BY <1>0, <1>4, <2>5 DEF IsSeenAt
<1>5. CASE LogsOut \/ LogsIn
  BY <1>0, <1>5 DEF LogsOut, LogsIn
<1>6. ASSUME NEW line \in Endings, Perishes(line)
      PROVE  RowsInOrder'
  BY <1>6 DEF Perishes
<1>7. ASSUME NEW first \in Drafts, NEW second \in Drafts, Publishes(first, second)
      PROVE  RowsInOrder'
  BY <1>7 DEF Publishes
<1> QED
  BY <1>1, <1>2, <1>3, <1>4, <1>5, <1>6, <1>7 DEF StoryNext

\* The last session ends at t, now or at the heartbeat.
LEMMA StintsEndInOrder ==
  ASSUME StoryTypeOK, RowsInOrder, StintsInOrder, SeenLoggedIn, LoggedIn,
         NEW t \in {minute, heartbeat}, stints' = StintsClosedAt(t), minute' = minute,
         heartbeat' = heartbeat \/ heartbeat' = minute, fixes' = fixes
  PROVE  /\ StintsInOrder' /\ SeenLoggedIn'
         /\ Len(stints') = Len(stints) /\ stints'[Len(stints)].to = t
         /\ \A i \in DOMAIN stints : i < Len(stints) => stints'[i].to = stints[i].to
<1> DEFINE n == Len(stints)
<1>0. /\ minute \in Nat /\ heartbeat \in Nat /\ heartbeat <= minute /\ t \in Minutes /\ t \in Nat
      /\ heartbeat <= t /\ t <= minute
      /\ \A i \in DOMAIN stints : stints[i].from \in Nat /\ stints[i].to \in Nat \cup {Blank}
      /\ \A p \in DOMAIN fixes : fixes[p].at \in Nat /\ fixes[p].at <= heartbeat
      /\ Blank \notin Nat
  BY StoryTimes DEF RowsInOrder
<1>1. /\ n \in Nat /\ n > 0 /\ DOMAIN stints = 1 .. n /\ 1 \in DOMAIN stints /\ n \in DOMAIN stints
      /\ stints[1].from = 0 /\ stints[n].to = Blank
  BY StoryTables DEF StintsInOrder, LoggedIn
<1>2. /\ stints' \in Seq(StintRow) /\ Len(stints') = n
      /\ \A i \in DOMAIN stints :
           /\ stints'[i].from = stints[i].from
           /\ stints'[i].to = IF i = n THEN t ELSE stints[i].to
  BY <1>0, <1>1, StintsClosed
<1>3. DOMAIN stints' = 1 .. n
  BY <1>2, LenProperties
<1> HIDE DEF n
<1>4. \A i \in DOMAIN stints :
        /\ stints[i].from <= heartbeat
        /\ stints[i].to # Blank => stints[i].from <= stints[i].to /\ stints[i].to <= minute
        /\ i < n => stints[i].to # Blank
        /\ \A j \in DOMAIN stints : i < j => stints[i].to <= stints[j].from
  BY DEF StintsInOrder, n
<1>5. \A i \in 1 .. n : stints'[i].from <= heartbeat'
  <2>1. \A i \in 1 .. n : stints[i].from <= heartbeat /\ stints[i].from \in Nat
    BY <1>0, <1>1, <1>4
  <2>2. heartbeat' \in Nat /\ heartbeat <= heartbeat'
    BY <1>0
  <2>3. \A i \in 1 .. n : stints[i].from <= heartbeat'
    BY <1>0, <2>1, <2>2
  <2> QED
    BY <1>1, <1>2, <2>3
<1>6. \A i \in 1 .. n : /\ stints'[i].to # Blank => stints'[i].from <= stints'[i].to /\ stints'[i].to <= minute'
                        /\ i < n => stints'[i].to # Blank
  <2>1. stints[n].from <= t
    <3>1. stints[n].from <= heartbeat /\ stints[n].from \in Nat
      BY <1>0, <1>1, <1>4
    <3> QED
      BY <1>0, <3>1
  <2>2. ASSUME NEW i \in 1 .. n, i = n
        PROVE  stints'[i].from <= stints'[i].to /\ stints'[i].to <= minute'
    <3>1. stints'[n].from = stints[n].from /\ stints'[n].to = t
      BY <1>1, <1>2
    <3> QED
      BY <1>0, <2>1, <2>2, <3>1
  <2>3. ASSUME NEW i \in 1 .. n, i # n
        PROVE  stints'[i].from = stints[i].from /\ stints'[i].to = stints[i].to /\ i \in DOMAIN stints
    BY <1>1, <1>2, <2>3
  <2>4. ASSUME NEW i \in 1 .. n, i # n
        PROVE  /\ stints'[i].to # Blank => stints'[i].from <= stints'[i].to /\ stints'[i].to <= minute'
               /\ i < n => stints'[i].to # Blank
    BY <1>4, <2>3, <2>4
  <2> QED
    BY <1>1, <2>2, <2>4
<1>7. \A i, j \in 1 .. n : i < j => stints'[i].to <= stints'[j].from
  BY <1>1, <1>2, <1>4
<1>8. StintsInOrder'
  BY <1>1, <1>2, <1>3, <1>5, <1>6, <1>7 DEF StintsInOrder
<1>9. SeenLoggedIn'
  <2> SUFFICES ASSUME NEW p \in DOMAIN fixes
               PROVE  \E i \in 1 .. n : /\ stints'[i].from <= fixes[p].at
                                        /\ stints'[i].to # Blank => fixes[p].at <= stints'[i].to
    BY <1>3 DEF SeenLoggedIn
  <2>1. PICK i \in DOMAIN stints : /\ stints[i].from <= fixes[p].at
                                   /\ stints[i].to # Blank => fixes[p].at <= stints[i].to
    BY DEF SeenLoggedIn
  <2>2. fixes[p].at <= t
    BY <1>0
  <2> QED
    BY <1>1, <1>2, <2>1, <2>2
<1> QED
  BY <1>1, <1>2, <1>8, <1>9 DEF n

LEMMA StintsKept ==
  StoryTypeOK /\ RowsInOrder /\ StintsInOrder /\ SeenLoggedIn /\ StoryNext
    => StintsInOrder' /\ SeenLoggedIn'
<1> SUFFICES ASSUME StoryTypeOK, RowsInOrder, StintsInOrder, SeenLoggedIn, StoryNext
             PROVE  StintsInOrder' /\ SeenLoggedIn'
  OBVIOUS
<1>0. /\ minute \in Nat /\ heartbeat \in Nat /\ heartbeat <= minute /\ minute \in Minutes
      /\ \A i \in DOMAIN stints : stints[i].from \in Nat /\ stints[i].to \in Nat \cup {Blank}
      /\ \A p \in DOMAIN fixes : fixes[p].at \in Nat /\ fixes[p].at <= heartbeat
      /\ Blank \notin Nat
  BY StoryTimes DEF RowsInOrder
<1>a. /\ Len(stints) \in Nat /\ Len(stints) > 0 /\ DOMAIN stints = 1 .. Len(stints)
      /\ Len(stints) \in DOMAIN stints
  BY StoryTables DEF StintsInOrder
<1>1. CASE Elapses
  <2>1. minute' = minute + 1 /\ stints' = stints /\ heartbeat' = heartbeat /\ fixes' = fixes
    BY <1>1 DEF Elapses
  <2>2. \A i \in DOMAIN stints : stints[i].to # Blank => stints[i].to <= minute'
    BY <1>0, <2>1 DEF StintsInOrder
  <2> QED
    BY <2>1, <2>2 DEF StintsInOrder, SeenLoggedIn
<1>2. ASSUME UNCHANGED <<minute, stints, heartbeat, fixes>>
      PROVE  StintsInOrder' /\ SeenLoggedIn'
  BY <1>2 DEF StintsInOrder, SeenLoggedIn
<1>3. CASE FallsUnconscious \/ Shoots \/ ServerRetires
  BY <1>2, <1>3 DEF FallsUnconscious, Shoots, ServerRetires
<1>4. ASSUME NEW line \in Wounds, IsHit(line)
      PROVE  StintsInOrder' /\ SeenLoggedIn'
  BY <1>2, <1>4 DEF IsHit
<1>5. ASSUME NEW first \in Drafts, NEW second \in Drafts, Publishes(first, second)
      PROVE  StintsInOrder' /\ SeenLoggedIn'
  BY <1>2, <1>5 DEF Publishes
<1>6. CASE LogsOut
  BY <1>6, StintsEndInOrder DEF LogsOut
<1>7. CASE IsRebooted
  BY <1>7, StintsEndInOrder DEF IsRebooted
<1>8. ASSUME NEW line \in Endings, Perishes(line)
      PROVE  StintsInOrder' /\ SeenLoggedIn'
  BY <1>8, StintsEndInOrder DEF Perishes
<1>9. ASSUME NEW spot \in Spots, IsSeenAt(spot)
      PROVE  StintsInOrder' /\ SeenLoggedIn'
  <2> DEFINE row == [at |-> minute, spot |-> spot]
  <2>1. row \in FixRow /\ row.at = minute
    BY <1>0 DEF FixRow
  <2> HIDE DEF row
  <2>2. fixes' = Append(fixes, row) /\ heartbeat' = minute /\ stints' = stints /\ minute' = minute
        /\ LoggedIn
    BY <1>9 DEF IsSeenAt, row
  <2>3. /\ DOMAIN fixes' = DOMAIN fixes \cup {Len(fixes) + 1}
        /\ \A p \in DOMAIN fixes : fixes'[p] = fixes[p]
        /\ fixes'[Len(fixes) + 1].at = minute
    BY <2>1, <2>2, FixAdded
  <2>4. \A i \in DOMAIN stints : stints[i].from <= minute
    BY <1>0 DEF StintsInOrder
  <2>5. StintsInOrder'
    BY <2>2, <2>4 DEF StintsInOrder
  <2>6. stints[Len(stints)].to = Blank
    BY <2>2 DEF LoggedIn
  <2>7. ASSUME NEW p \in DOMAIN fixes'
        PROVE  \E i \in DOMAIN stints : /\ stints[i].from <= fixes'[p].at
                                        /\ stints[i].to # Blank => fixes'[p].at <= stints[i].to
    <3>1. CASE p \in DOMAIN fixes
      BY <2>3, <3>1 DEF SeenLoggedIn
    <3>2. CASE p = Len(fixes) + 1
      BY <1>a, <2>3, <2>4, <2>6, <3>2
    <3> QED
      BY <2>3, <3>1, <3>2
  <2> QED
    BY <2>2, <2>5, <2>7 DEF SeenLoggedIn
<1>10. CASE LogsIn
  <2> DEFINE row == [from |-> minute, to |-> Blank]
             n == Len(stints)
  <2>1. row \in StintRow /\ row.from = minute /\ row.to = Blank
    BY <1>0 DEF StintRow
  <2> HIDE DEF row
  <2>2. /\ stints' = Append(stints, row) /\ heartbeat' = minute /\ minute' = minute
        /\ fixes' = fixes /\ ~LoggedIn
    BY <1>10 DEF LogsIn, row
  <2>3. /\ Len(stints') = n + 1 /\ DOMAIN stints' = DOMAIN stints \cup {n + 1}
        /\ \A i \in DOMAIN stints : stints'[i] = stints[i]
        /\ stints'[n + 1].from = minute /\ stints'[n + 1].to = Blank
    BY <2>1, <2>2, StintAdded
  <2>4. stints[n].to # Blank
    BY <2>2 DEF LoggedIn
  <2> HIDE DEF n
  <2>a. /\ n \in Nat /\ n > 0 /\ DOMAIN stints = 1 .. n
    BY <1>a DEF n
  <2>5. \A i \in DOMAIN stints :
        /\ stints[i].from <= heartbeat
        /\ stints[i].to # Blank => stints[i].from <= stints[i].to /\ stints[i].to <= minute
        /\ i < n => stints[i].to # Blank
        /\ \A j \in DOMAIN stints : i < j => stints[i].to <= stints[j].from
    BY DEF StintsInOrder, n
  <2>6. \A i \in DOMAIN stints : stints[i].to # Blank
    BY <2>a, <2>4, <2>5
  <2>7. \A i \in DOMAIN stints' :
          /\ stints'[i].from <= minute
          /\ stints'[i].to # Blank => stints'[i].from <= stints'[i].to /\ stints'[i].to <= minute
          /\ i < n + 1 => stints'[i].to # Blank
    BY <1>0, <2>a, <2>3, <2>5, <2>6
  <2>8. ASSUME NEW i \in DOMAIN stints', NEW j \in DOMAIN stints', i < j
        PROVE  stints'[i].to <= stints'[j].from
    <3>1. i \in DOMAIN stints
      BY <2>a, <2>3, <2>8
    <3>2. CASE j \in DOMAIN stints
      BY <2>3, <2>5, <2>8, <3>1, <3>2
    <3>3. CASE j = n + 1
      BY <2>3, <2>5, <2>6, <3>1, <3>3
    <3> QED
      BY <2>3, <3>2, <3>3
  <2>9. stints'[1].from = 0
    BY <2>a, <2>3 DEF StintsInOrder
  <2>10. StintsInOrder'
    BY <2>2, <2>3, <2>7, <2>8, <2>9, <2>a DEF StintsInOrder
  <2>11. SeenLoggedIn'
    BY <2>2, <2>3 DEF SeenLoggedIn
  <2> QED
    BY <2>10, <2>11
<1> QED
  BY <1>1, <1>3, <1>4, <1>5, <1>6, <1>7, <1>8, <1>9, <1>10 DEF StoryNext

LEMMA EndsKept ==
  StoryTypeOK /\ RowsInOrder /\ StintsInOrder /\ EndsAreEnds /\ StoryNext => EndsAreEnds'
<1> SUFFICES ASSUME StoryTypeOK, RowsInOrder, StintsInOrder, EndsAreEnds, StoryNext
             PROVE  EndsAreEnds'
  OBVIOUS
<1>0. /\ minute \in Nat /\ heartbeat \in Nat /\ heartbeat <= minute /\ minute \in Minutes
      /\ \A i \in DOMAIN wounds : wounds[i].at <= minute
      /\ \A t \in shots : t <= minute
      /\ \A i \in DOMAIN stints : stints[i].to # Blank => stints[i].to <= minute
      /\ Blank \notin Nat
  BY StoryTimes DEF RowsInOrder, StintsInOrder
<1>a. end # Blank => end.at \in Nat
  BY DEF StoryTypeOK, Minutes
<1>b. closed # Blank => closed \in Nat
  BY DEF StoryTypeOK, Minutes
<1>c. end # Blank => ~LoggedIn
  BY <1>0, <1>a DEF EndsAreEnds, LoggedIn
<1>1. CASE Elapses
  <2>1. minute' = minute + 1
    BY <1>1 DEF Elapses
  <2>2. /\ \A n \in Nat : n <= minute => n <= minute'
    BY <1>0, <2>1
  <2>3. /\ end # Blank => end.at <= minute'
        /\ closed # Blank => closed <= minute'
    BY <1>a, <1>b, <2>2 DEF EndsAreEnds
  <2>4. /\ wounds' = wounds /\ shots' = shots /\ stints' = stints /\ heartbeat' = heartbeat
        /\ end' = end /\ closed' = closed
    BY <1>1 DEF Elapses
  <2> QED
    BY <2>3, <2>4 DEF EndsAreEnds
<1>2. CASE FallsUnconscious
  BY <1>2 DEF FallsUnconscious, EndsAreEnds
<1>3. CASE Shoots
  BY <1>3, <1>c DEF Shoots, EndsAreEnds, Told
<1>4. ASSUME NEW line \in Wounds, IsHit(line)
      PROVE  EndsAreEnds'
  BY <1>4 DEF IsHit, EndsAreEnds, Told
<1>5. ASSUME NEW spot \in Spots, IsSeenAt(spot)
      PROVE  EndsAreEnds'
  BY <1>5, <1>c DEF IsSeenAt, EndsAreEnds, Told
<1>6. CASE LogsOut \/ IsRebooted \/ LogsIn
  BY <1>6, <1>c DEF LogsOut, IsRebooted, LogsIn, EndsAreEnds
<1>7. CASE ServerRetires
  BY <1>0, <1>7, <1>a DEF ServerRetires, EndsAreEnds
<1>8. ASSUME NEW line \in Endings, Perishes(line)
      PROVE  EndsAreEnds'
  <2>1. stints'[Len(stints')].to = minute
    BY <1>0, <1>8, StintsClosed, StoryTables DEF Perishes, StintsInOrder
  <2>2. end'.at = minute /\ closed' = Blank /\ minute' = minute /\ heartbeat' = heartbeat
    BY <1>8 DEF Perishes
  <2> QED
    BY <1>0, <2>1, <2>2 DEF EndsAreEnds
<1>9. ASSUME NEW first \in Drafts, NEW second \in Drafts, Publishes(first, second)
      PROVE  EndsAreEnds'
  BY <1>9 DEF Publishes, EndsAreEnds
<1> QED
  BY <1>1, <1>2, <1>3, <1>4, <1>5, <1>6, <1>7, <1>8, <1>9 DEF StoryNext

-----------------------------------------------------------------------------
\* The obituary: rows of later times change nothing of what was read for it.

\* The wound that left least, of those up to the last knockout.
Before(S, K) == {i \in S : wounds[i].hp # Blank /\ K # {} /\ wounds[i].at <= Max(K)}
LeastHurt(B) == {i \in B : \A j \in B : wounds[i].hp <= wounds[j].hp}
Downing(S, K) == Min(LeastHurt(Before(S, K)))

LEMMA DowningIsOne ==
  ASSUME StoryTypeOK, NEW S \in SUBSET DOMAIN wounds, NEW K, Before(S, K) # {}
  PROVE  Downing(S, K) \in S /\ DownedBy(S, K) = {wounds[Downing(S, K)].by}
<1> DEFINE B == Before(S, K)
<1>1. B \subseteq S /\ \A i \in B : wounds[i].hp \in Nat
  BY StoryTables DEF Before, WoundRow, Healths
<1>2. DownedBy(S, K) = {wounds[Min(LeastHurt(B))].by}
  BY DEF DownedBy, Before, LeastHurt
<1> HIDE DEF B
<1>3. PICK h \in {wounds[i].hp : i \in B} : \A g \in {wounds[i].hp : i \in B} : h <= g
  <2>1. {wounds[i].hp : i \in B} \subseteq Nat /\ {wounds[i].hp : i \in B} # {}
    BY <1>1 DEF B
  <2> QED
    BY <2>1, LeastNat
<1>4. LeastHurt(B) # {} /\ LeastHurt(B) \subseteq B
  BY <1>3 DEF LeastHurt
<1>5. LeastHurt(B) \subseteq Nat
  BY <1>1, <1>4, StoryTables
<1>6. Min(LeastHurt(B)) \in B
  BY <1>4, <1>5, MinIsLeast
<1> QED
  BY <1>1, <1>2, <1>6 DEF Downing, B

\* Rows that stand as they were are read as they were.
LEMMA SameVerdict ==
  ASSUME StoryTypeOK, NEW CONSTANT d, NEW CONSTANT S, S \subseteq DOMAIN wounds, NEW CONSTANT K,
         \A i \in S : wounds'[i] = wounds[i]
  PROVE  ClassifyDeath(d, S, K)' = ClassifyDeath(d, S, K)
<1>1. Hits(S)' = Hits(S)
  BY DEF Hits
<1>2. DownedBy(S, K)' = DownedBy(S, K)
  <2>1. PICK B : B = Before(S, K)
    OBVIOUS
  <2>2. PICK L : L = LeastHurt(B)
    OBVIOUS
  <2>3. B \subseteq S /\ L \subseteq B
    BY <2>1, <2>2 DEF Before, LeastHurt
  <2>4. B = {i \in S : wounds'[i].hp # Blank /\ K # {} /\ wounds'[i].at <= Max(K)}
    BY <2>1 DEF Before
  <2>5. L = {i \in B : \A j \in B : wounds'[i].hp <= wounds'[j].hp}
    BY <2>2, <2>3 DEF LeastHurt
  <2>6. DownedBy(S, K)' = IF B = {} THEN {} ELSE {wounds'[Min(L)].by}
    BY <2>4, <2>5 DEF DownedBy
  <2>7. DownedBy(S, K) = IF B = {} THEN {} ELSE {wounds[Min(L)].by}
    BY <2>1, <2>2 DEF DownedBy, Before, LeastHurt
  <2>8. B # {} => Min(L) \in S
    BY <2>1, <2>2, DowningIsOne DEF Downing
  <2> QED
    BY <2>6, <2>7, <2>8
<1> QED
  BY <1>1, <1>2 DEF ClassifyDeath, Inferred, Mauled

LEMMA SameSummary ==
  ASSUME NEW CONSTANT S, \A i \in S : wounds'[i] = wounds[i]
  PROVE  SummarizeEncounters(S)' = SummarizeEncounters(S)
<1>1. Openings(S)' = Openings(S)
  BY DEF Openings
<1>2. Runs(S)' = Runs(S)
  BY <1>1 DEF Runs
<1> QED
  BY <1>1, <1>2 DEF SummarizeEncounters

LEMMA SameDossier ==
  ASSUME NEW CONSTANT t, Len(stints') = Len(stints),
         {i \in DOMAIN wounds' : wounds'[i].at <= t} = {i \in DOMAIN wounds : wounds[i].at <= t},
         \A i \in {j \in DOMAIN wounds : wounds[j].at <= t} : wounds'[i] = wounds[i]
  PROVE  Dossier(t)' = Dossier(t)
<1>1. PICK H : H = {i \in DOMAIN wounds : wounds[i].at <= t}
  OBVIOUS
<1>2. H = {i \in DOMAIN wounds' : wounds'[i].at <= t} /\ \A i \in H : wounds'[i] = wounds[i]
  BY <1>1
<1>3. PICK F : F = {i \in H : wounds[i].by \in {"fire"}}
  OBVIOUS
<1>4. PICK I : I = {i \in H : wounds[i].by \in {"infected"}}
  OBVIOUS
<1>5. PICK P : P = {i \in H : wounds[i].by \in Shooters}
  OBVIOUS
<1>6. /\ F = {i \in H : wounds'[i].by \in {"fire"}}
      /\ I = {i \in H : wounds'[i].by \in {"infected"}}
      /\ P = {i \in H : wounds'[i].by \in Shooters}
  BY <1>2, <1>3, <1>4, <1>5
<1>7. /\ SummarizeEncounters(F)' = SummarizeEncounters(F)
      /\ SummarizeEncounters(I)' = SummarizeEncounters(I)
      /\ SummarizeEncounters(P)' = SummarizeEncounters(P)
  BY <1>2, <1>3, <1>4, <1>5, SameSummary
<1>8. Hits(H)' = Hits(H)
  BY <1>2 DEF Hits
<1>9. Dossier(t) = [fire |-> SummarizeEncounters(F), infected |-> SummarizeEncounters(I),
                    pvp |-> SummarizeEncounters(P), hpLow |-> LowestOf(Hits(H)),
                    sessions |-> Len(stints)]
  BY <1>1, <1>3, <1>4, <1>5 DEF Dossier
<1>10. Dossier(t)' = [fire |-> SummarizeEncounters(F)', infected |-> SummarizeEncounters(I)',
                      pvp |-> SummarizeEncounters(P)', hpLow |-> LowestOf(Hits(H))',
                      sessions |-> Len(stints')]
  BY <1>2, <1>6 DEF Dossier
<1>11. LowestOf(Hits(H))' = LowestOf(Hits(H))
  BY <1>8 DEF LowestOf
<1> QED
  BY <1>7, <1>9, <1>10, <1>11

\* A run-in opens every series of wounds.
LEMMA OpeningsCount ==
  ASSUME StoryTypeOK, NEW S \in SUBSET DOMAIN wounds, S # {}
  PROVE  /\ IsFiniteSet(S) /\ IsFiniteSet(Openings(S)) /\ Cardinality(Openings(S)) \in Nat
         /\ Min(S) \in Openings(S) /\ Cardinality(Openings(S)) > 0
<1>1. Len(wounds) \in Nat /\ DOMAIN wounds = 1 .. Len(wounds)
  BY StoryTables
<1>2. S \subseteq Nat
  BY <1>1
<1>3. Min(S) \in S /\ \A m \in S : Min(S) <= m
  BY <1>2, MinIsLeast
<1>4. Min(S) \in Openings(S)
  BY <1>2, <1>3 DEF Openings
<1>5. IsFiniteSet(S) /\ IsFiniteSet(Openings(S))
  <2>1. IsFiniteSet(DOMAIN wounds)
    BY <1>1, FS_Interval
  <2>2. IsFiniteSet(S)
    BY <2>1, FS_Subset
  <2>3. Openings(S) \subseteq S
    BY DEF Openings
  <2> QED
    BY <2>2, <2>3, FS_Subset
<1>6. Cardinality(Openings(S)) \in Nat
  BY <1>5, FS_CardinalityType
<1>7. Cardinality(Openings(S)) # 0
  BY <1>4, <1>5, FS_EmptySet
<1> QED
  BY <1>3, <1>4, <1>5, <1>6, <1>7

\* Once the life is over only wounds are added, after the end.
LEMMA ArticleKept == StoryRows /\ StoryNext => ArticleHolds'
<1> SUFFICES ASSUME StoryRows, StoryNext
             PROVE  ArticleHolds'
  OBVIOUS
<1> USE DEF StoryRows
<1>0. /\ minute \in Nat /\ minute \in Minutes /\ Blank \notin Nat /\ Minutes \subseteq Nat
      /\ Len(wounds) \in Nat /\ DOMAIN wounds = 1 .. Len(wounds)
      /\ \A i \in DOMAIN wounds : wounds[i].at \in Nat /\ wounds[i].at <= minute
  BY StoryTables, StoryTimes DEF RowsInOrder
<1>1. end # Blank => end.at \in Nat /\ end.at <= minute /\ ~LoggedIn
  BY <1>0 DEF StoryTypeOK, EndsAreEnds, LoggedIn
<1>2. CASE article = Blank /\ UNCHANGED article
  BY <1>2 DEF ArticleHolds
<1>3. ASSUME article # Blank, UNCHANGED <<article, end, wounds, knockouts, stints>>,
             minute' \in Nat, minute <= minute'
      PROVE  ArticleHolds'
  <2>1. DossierVerdict' = DossierVerdict
    BY <1>3 DEF DossierVerdict, RecentHits, RecentKnockouts, ClassifyDeath, Inferred, Mauled, DownedBy, Hits
  <2>2. Dossier(end.at)' = Dossier(end.at)
    BY <1>3 DEF Dossier, SummarizeEncounters, Runs, Openings, Hits
  <2>3. article.at \in Nat /\ article.at <= minute
    BY <1>0, <1>3 DEF ArticleHolds
  <2>4. article.at <= minute'
    BY <1>0, <1>3, <2>3
  <2> QED
    BY <1>3, <2>1, <2>2, <2>4 DEF ArticleHolds
<1>4. ASSUME NEW line \in Wounds, IsHit(line), article # Blank
      PROVE  ArticleHolds'
  <2>1. HitRow(line) \in WoundRow /\ HitRow(line).at = minute
    BY <1>0, StoryAssumption DEF HitRow, WoundRow
  <2>2. wounds' = Append(wounds, HitRow(line))
    BY <1>4 DEF IsHit
  <2>3. UNCHANGED <<minute, knockouts, stints, end, article>>
    BY <1>4 DEF IsHit
  <2>4. /\ DOMAIN wounds' = DOMAIN wounds \cup {Len(wounds) + 1}
        /\ \A i \in DOMAIN wounds : wounds'[i] = wounds[i]
        /\ wounds'[Len(wounds) + 1].at = minute
    BY <2>1, <2>2, WoundAdded
  <2>5. /\ end # Blank /\ end.at \in Nat /\ end.at <= minute
        /\ article.at \in Nat /\ end.at <= article.at /\ article.at <= minute
    BY <1>0, <1>1, <1>4 DEF ArticleHolds
  <2>6. PICK t : t = end.at
    OBVIOUS
  <2>7. PICK d : d = end.line
    OBVIOUS
  <2>8. ASSUME article.at > end.at
        PROVE  article.verdict = DossierVerdict' /\ article.ordeals = Dossier(t)'
    <3>1. t < minute /\ t \in Nat
      BY <1>0, <2>5, <2>6, <2>8
    <3>2. \A at \in Nat : InWindow(at, t) => at <= t
      BY DEF InWindow
    <3>3. ~(minute <= t)
      BY <1>0, <3>1
    <3>4. {i \in DOMAIN wounds' : wounds'[i].at <= t} = {i \in DOMAIN wounds : wounds[i].at <= t}
      BY <2>4, <3>3
    <3>5. {i \in DOMAIN wounds' : InWindow(wounds'[i].at, t)}
            = {i \in DOMAIN wounds : InWindow(wounds[i].at, t)}
      BY <1>0, <2>4, <3>2, <3>3
    <3>6. PICK S : S = RecentHits(t)
      OBVIOUS
    <3>7. PICK K : K = RecentKnockouts(t)
      OBVIOUS
    <3>8. S = RecentHits(t)' /\ K = RecentKnockouts(t)'
      BY <2>3, <3>5, <3>6, <3>7 DEF RecentHits, RecentKnockouts
    <3>9. ClassifyDeath(d, S, K)' = ClassifyDeath(d, S, K)
      <4>1. S \subseteq DOMAIN wounds
        BY <3>6 DEF RecentHits
      <4> QED
        BY <2>4, <4>1, SameVerdict
    <3>10. DossierVerdict' = ClassifyDeath(d, S, K)'
      BY <2>3, <2>6, <2>7, <3>8 DEF DossierVerdict
    <3>11. DossierVerdict = ClassifyDeath(d, S, K)
      BY <2>6, <2>7, <3>6, <3>7 DEF DossierVerdict
    <3>12. Dossier(t)' = Dossier(t)
      BY <2>3, <2>4, <3>4, SameDossier
    <3> QED
      BY <1>4, <2>6, <2>8, <3>9, <3>10, <3>11, <3>12 DEF ArticleHolds
  <2>9. ASSUME NEW i \in DOMAIN wounds', wounds'[i].at < end.at
        PROVE  i \in DOMAIN wounds /\ wounds'[i] = wounds[i]
    <3>1. ~(minute < end.at)
      BY <1>0, <2>5
    <3> QED
      BY <2>4, <2>9, <3>1
  <2>10. end'.at = t /\ article'.at = article.at /\ end' = end /\ article' = article /\ minute' = minute
    BY <2>3, <2>6
  <2>11. article'.at > end'.at => article'.verdict = DossierVerdict' /\ article'.ordeals = Dossier(end.at)'
    BY <2>6, <2>8, <2>10
  <2>12. \A kind \in {"infected", "fire", "pvp"} :
           (\E i \in DOMAIN wounds' : wounds'[i].at < end'.at /\ wounds'[i].by \in KindOf(kind)) =>
             article'.ordeals[kind].encounters > 0
    BY <1>4, <2>9, <2>10 DEF ArticleHolds
  <2> QED
    BY <1>4, <2>10, <2>11, <2>12 DEF ArticleHolds
<1>5. ASSUME NEW first \in Drafts, NEW second \in Drafts, Publishes(first, second)
      PROVE  ArticleHolds'
  <2>1. /\ end # Blank /\ article' = BuildObituaryFacts
        /\ UNCHANGED <<minute, wounds, knockouts, stints, end>>
    BY <1>5 DEF Publishes
  <2>2. DossierVerdict' = DossierVerdict
    BY <2>1 DEF DossierVerdict, RecentHits, RecentKnockouts, ClassifyDeath, Inferred, Mauled, DownedBy, Hits
  <2>3. Dossier(end.at)' = Dossier(end.at)
    BY <2>1 DEF Dossier, SummarizeEncounters, Runs, Openings, Hits
  <2>4. /\ article'.mechanism = end.line.mechanism /\ article'.verdict = DossierVerdict
        /\ article'.category = CauseCategory(end.line.mechanism, DossierVerdict.cause)
        /\ article'.ordeals = Dossier(end.at) /\ article'.at = minute
    BY <2>1 DEF BuildObituaryFacts
  <2>5. ASSUME NEW kind \in {"infected", "fire", "pvp"}, NEW i \in DOMAIN wounds,
               wounds[i].at < end.at, wounds[i].by \in KindOf(kind)
        PROVE  Dossier(end.at)[kind].encounters > 0
    <3> DEFINE S == {j \in {k \in DOMAIN wounds : wounds[k].at <= end.at} : wounds[j].by \in KindOf(kind)}
    <3>1. wounds[i].at <= end.at
      BY <1>0, <1>1, <2>1, <2>5
    <3>2. S # {} /\ S \in SUBSET DOMAIN wounds
      BY <2>5, <3>1
    <3>3. Dossier(end.at)[kind] = SummarizeEncounters(S)
      <4>1. CASE kind = "fire"
        BY <4>1 DEF Dossier, KindOf
      <4>2. CASE kind = "infected"
        BY <4>2 DEF Dossier, KindOf
      <4>3. CASE kind = "pvp"
        BY <4>3 DEF Dossier, KindOf
      <4> QED
        BY <4>1, <4>2, <4>3
    <3> HIDE DEF S
    <3>4. SummarizeEncounters(S).encounters = Cardinality(Openings(S))
      BY DEF SummarizeEncounters
    <3> QED
      BY <3>2, <3>3, <3>4, OpeningsCount
  <2>6. end.at <= minute
    BY <1>1, <2>1
  <2> QED
    BY <1>0, <2>1, <2>2, <2>3, <2>4, <2>5, <2>6 DEF ArticleHolds
<1>6. CASE Elapses
  BY <1>0, <1>2, <1>3, <1>6 DEF Elapses
<1>7. CASE ServerRetires
  BY <1>0, <1>2, <1>3, <1>7 DEF ServerRetires
<1>8. CASE FallsUnconscious \/ Shoots \/ LogsOut \/ IsRebooted \/ LogsIn
  <2>1. article = Blank /\ UNCHANGED article
    BY <1>1, <1>8 DEF FallsUnconscious, Shoots, LogsOut, IsRebooted, LogsIn, TellsOfKnockout, ArticleHolds
  <2> QED
    BY <1>2, <2>1
<1>9. ASSUME NEW spot \in Spots, IsSeenAt(spot)
      PROVE  ArticleHolds'
  <2>1. article = Blank /\ UNCHANGED article
    BY <1>1, <1>9 DEF IsSeenAt, ArticleHolds
  <2> QED
    BY <1>2, <2>1
<1>10. ASSUME NEW line \in Endings, Perishes(line)
      PROVE  ArticleHolds'
  <2>1. article = Blank /\ UNCHANGED article
    BY <1>10 DEF Perishes, ArticleHolds
  <2> QED
    BY <1>2, <2>1
<1>11. ASSUME NEW line \in Wounds, IsHit(line), article = Blank
      PROVE  ArticleHolds'
  BY <1>2, <1>11 DEF IsHit
<1> QED
  BY <1>4, <1>5, <1>6, <1>7, <1>8, <1>9, <1>10, <1>11 DEF StoryNext

LEMMA StoryStep == StoryRows /\ [StoryNext]_storyVars => StoryRows'
<1>1. CASE StoryNext
  BY <1>1, StoryTypesKept, RowsKept, StintsKept, EndsKept, ArticleKept DEF StoryRows
<1>2. ASSUME StoryRows, UNCHANGED storyVars
      PROVE  StoryRows'
  <2>1. DossierVerdict' = DossierVerdict
    BY <1>2 DEF storyVars, DossierVerdict, RecentHits, RecentKnockouts, ClassifyDeath, Inferred,
                Mauled, DownedBy, Hits
  <2>2. Dossier(end.at)' = Dossier(end.at)
    BY <1>2 DEF storyVars, Dossier, SummarizeEncounters, Runs, Openings, Hits
  <2>3. StoryTypeOK' /\ RowsInOrder'
    BY <1>2 DEF storyVars, StoryRows, StoryTypeOK, RowsInOrder
  <2>4. StintsInOrder' /\ SeenLoggedIn' /\ EndsAreEnds'
    BY <1>2 DEF storyVars, StoryRows, StintsInOrder, SeenLoggedIn, EndsAreEnds
  <2>5. ArticleHolds'
    BY <1>2, <2>1, <2>2 DEF storyVars, StoryRows, ArticleHolds
  <2> QED
    BY <2>3, <2>4, <2>5 DEF StoryRows
<1> QED
  BY <1>1, <1>2

-----------------------------------------------------------------------------
\* What a verdict on a bare "died" rests on, cause by cause.

LEMMA InferredCause ==
  ASSUME NEW d, NEW base, NEW R, NEW K
  PROVE  LET v == Inferred(d, base, R, K)
         IN  \/ v.cause = "fall" /\ \E h \in Hits(R) : h.by = "fall" /\ h.hp = 0
             \/ v.cause = "starvation" /\ d.starving
             \/ v.cause = "dehydration" /\ d.dry
             \/ DownedBy(R, K) # {} /\ v.cause = KnockoutCause(CHOOSE by \in DownedBy(R, K) : TRUE)
             \/ v.cause = "mauled" /\ Mauled(d, R, K)
             \/ v.cause = "bled_out" /\ R # {}
             \/ v.cause = "unknown" /\ v.confidence = "low"
<1> DEFINE by == CHOOSE by \in DownedBy(R, K) : TRUE
           D == DownedBy(R, K)
<1> HIDE DEF by
<1> QED
  BY DEF Inferred, by

\* A bare "died" is inferred from.
LEMMA DiedIsInferred ==
  ASSUME NEW d, d.mechanism = "died", NEW R, NEW K
  PROVE  \E base : ClassifyDeath(d, R, K) = Inferred(d, base, R, K)
  BY DEF ClassifyDeath

\* Who is blamed for a knockout was hit by in the last minutes.
LEMMA DownedByIs ==
  ASSUME StoryTypeOK, NEW R \in SUBSET DOMAIN wounds, NEW K, DownedBy(R, K) # {}
  PROVE  /\ K # {} /\ Downing(R, K) \in R
         /\ (CHOOSE by \in DownedBy(R, K) : TRUE) = wounds[Downing(R, K)].by
<1>1. Before(R, K) # {}
  BY DEF DownedBy, Before
<1>2. K # {}
  BY <1>1 DEF Before
<1>3. Downing(R, K) \in R /\ DownedBy(R, K) = {wounds[Downing(R, K)].by}
  BY <1>1, DowningIsOne
<1> QED
  BY <1>2, <1>3

LEMMA KnockoutCauses ==
  ASSUME NEW by \in Shooters \cup Labels
  PROVE  /\ KnockoutCause(by) = "pvp" => by \in Shooters
         /\ KnockoutCause(by) = "mauled" => by = "infected"
         /\ KnockoutCause(by) = "fall" => by = "fall"
         /\ KnockoutCause(by) = "wolf" => by \in {"wolf", "Animal_wolf"}
         /\ KnockoutCause(by) = "environmental" => by \in Labels \ {"infected", "fall"}
  BY DEF KnockoutCause

\* Wounds by infected after the last knockout change nothing about a death it explains.
LEMMA ChewedOn ==
  ASSUME StoryTypeOK, NEW d, NEW R \in SUBSET DOMAIN wounds, NEW K, DownedBy(R, K) # {},
         NEW b, NEW c
  PROVE  LET lived == {i \in R : wounds[i].at <= Max(K) \/ wounds[i].by # "infected"}
         IN  Inferred(d, b, R, K).cause = Inferred(d, c, lived, K).cause
<1> DEFINE lived == {i \in R : wounds[i].at <= Max(K) \/ wounds[i].by # "infected"}
<1>1. Before(lived, K) = Before(R, K)
  BY DEF Before
<1>2. DownedBy(lived, K) = DownedBy(R, K)
  BY <1>1 DEF DownedBy, Before
<1>3. (\E h \in Hits(R) : h.by = "fall" /\ h.hp = 0)
        <=> \E h \in Hits(lived) : h.by = "fall" /\ h.hp = 0
  BY DEF Hits
<1> DEFINE by == CHOOSE by \in DownedBy(R, K) : TRUE
           hurt == \E h \in Hits(R) : h.by = "fall" /\ h.hp = 0
           cause == IF hurt THEN "fall" ELSE IF d.starving THEN "starvation"
                    ELSE IF d.dry THEN "dehydration" ELSE KnockoutCause(by)
<1> HIDE DEF lived, by
<1>4. Inferred(d, b, R, K).cause = cause
  BY DEF Inferred, by
<1>5. Inferred(d, c, lived, K).cause = cause
  BY <1>2, <1>3 DEF Inferred, by
<1> QED
  BY <1>4, <1>5 DEF lived

LEMMA GuiltyBlamed == StoryRows => BlamesTheGuilty
<1> SUFFICES ASSUME StoryTypeOK, end # Blank, end.line.mechanism = "died"
             PROVE  BlamesTheGuilty
  BY DEF StoryRows, BlamesTheGuilty
<1> DEFINE R == RecentHits(end.at)
           K == RecentKnockouts(end.at)
           d == end.line
           v == DossierVerdict
           lived == {i \in R : wounds[i].at <= Max(K) \/ wounds[i].by # "infected"}
           By(S) == \E i \in DOMAIN wounds : wounds[i].by \in S /\ InWindow(wounds[i].at, end.at)
<1>1. R \in SUBSET DOMAIN wounds /\ \A i \in R : InWindow(wounds[i].at, end.at)
  BY DEF RecentHits
<1>2. ASSUME NEW i \in R, NEW S, wounds[i].by \in S
      PROVE  By(S)
  BY <1>1, <1>2
<1>3. PICK base : v = Inferred(d, base, R, K)
  BY DiedIsInferred DEF DossierVerdict
<1>4. \A i \in R : wounds[i].by \in Shooters \cup Labels
  BY <1>1, StoryTables DEF WoundRow
<1> DEFINE by == CHOOSE by \in DownedBy(R, K) : TRUE
<1>5. DownedBy(R, K) # {} => /\ K # {} /\ Downing(R, K) \in R
                             /\ by = wounds[Downing(R, K)].by
  BY <1>1, DownedByIs
<1>6. ASSUME DownedBy(R, K) # {}
      PROVE  /\ by \in Shooters \cup Labels /\ K # {}
             /\ \A S : by \in S => By(S)
  BY <1>2, <1>4, <1>5, <1>6
<1>7. ASSUME NEW h \in Hits(R)
      PROVE  \A S : h.by \in S => By(S)
  <2>1. PICK i \in R : h = wounds[i]
    BY DEF Hits
  <2> QED
    BY <1>2, <2>1
<1> HIDE DEF By
<1>8. \/ v.cause = "fall" /\ \E h \in Hits(R) : h.by = "fall" /\ h.hp = 0
      \/ v.cause = "starvation" /\ d.starving
      \/ v.cause = "dehydration" /\ d.dry
      \/ DownedBy(R, K) # {} /\ v.cause = KnockoutCause(by)
      \/ v.cause = "mauled" /\ Mauled(d, R, K)
      \/ v.cause = "bled_out" /\ R # {}
      \/ v.cause = "unknown" /\ v.confidence = "low"
  BY <1>3, InferredCause
<1>9. K # {} /\ DownedBy(R, K) # {} => v.cause = ClassifyDeath(d, lived, K).cause
  <2>1. PICK c : ClassifyDeath(d, lived, K) = Inferred(d, c, lived, K)
    BY DiedIsInferred
  <2> QED
    BY <1>1, <1>3, <2>1, ChewedOn
<1>10. v.confidence = "high" => d.starving \/ d.dry \/ R # {}
  <2> SUFFICES ASSUME R = {}, ~d.starving, ~d.dry
               PROVE  v.confidence = "low"
    BY <1>3 DEF Inferred
  <2>1. Hits(R) = {} /\ DownedBy(R, K) = {}
    BY DEF Hits, DownedBy
  <2>2. ~Mauled(d, R, K)
    BY <2>1 DEF Mauled
  <2> HIDE DEF R, K, d
  <2> QED
    BY <1>3, <2>1, <2>2 DEF Inferred
<1> HIDE DEF R, K, d, v, by
<1>11. v.cause = "pvp" => By(Shooters) /\ K # {}
  BY <1>6, <1>8, KnockoutCauses
<1>12. v.cause = "mauled" => /\ By({"infected"})
                             /\ \/ d.bleeding \/ K # {}
                                \/ \E h \in Hits(R) : h.by = "infected" /\ h.hp \in {0, 1}
  <2>1. CASE Mauled(d, R, K)
    BY <1>7, <2>1 DEF Mauled
  <2>2. CASE DownedBy(R, K) # {} /\ v.cause = KnockoutCause(by)
    BY <1>6, <2>2, KnockoutCauses
  <2> QED
    BY <1>8, <2>1, <2>2
<1>13. v.cause = "fall" => By({"fall"})
  BY <1>6, <1>7, <1>8, KnockoutCauses
<1>14. v.cause = "wolf" => By({"wolf", "Animal_wolf"})
  BY <1>6, <1>8, KnockoutCauses
<1>15. v.cause = "environmental" => By(Labels \ {"infected", "fall"})
  BY <1>6, <1>8, KnockoutCauses
<1> QED
  BY <1>9, <1>10, <1>11, <1>12, <1>13, <1>14, <1>15 DEF BlamesTheGuilty, R, K, d, v, By

\* Tag, prompt and site say alike whether anything is known of the death.
LEMMA AlikeTold == StoryRows => ToldAlike
<1> SUFFICES ASSUME StoryTypeOK, ArticleHolds, article # Blank
             PROVE  ToldAlike
  BY DEF StoryRows, ToldAlike
<1> DEFINE prompt == BuildObituaryPrompt(article)
           unknown == CauseCategoryTag(article) = "Unknown"
           mechanism == article.mechanism
           cause == article.verdict.cause
<1>1. article.verdict \in VerdictOf /\ cause \in CauseNames
  BY DEF StoryTypeOK, VerdictOf
<1>2. mechanism \in {"pvp", "suicide", "bled_out", "drowned", "environment", "died"} \cup EntityMechanisms
  BY StoryAssumption DEF ArticleHolds, StoryTypeOK, DeathLine
<1>3. article.category = CauseCategory(mechanism, cause)
  BY DEF ArticleHolds
<1>4. unknown <=> IsUnrecordedCause(mechanism) /\ IsUnrecordedCause(cause)
  BY <1>1, <1>2, <1>3 DEF CauseCategoryTag, CauseCategory, IsUnrecordedCause
<1>5. unknown <=> prompt.directive = "name no mechanism"
  BY <1>3, <1>4 DEF BuildObituaryPrompt, CauseUnrecorded, CauseCategory, IsUnrecordedCause
<1>6. unknown <=> prompt.cause = "not recorded"
  <2>1. prompt.cause = DescribeDeath(article)
    BY DEF BuildObituaryPrompt
  <2> QED
    BY <1>1, <1>2, <1>3, <1>4, <2>1
       DEF DescribeDeath, CauseCategory, IsUnrecordedCause, CauseNames, EntityMechanisms
<1>7. VerdictPhrase(article.verdict, mechanism) = "Unknown" => unknown
  BY <1>1, <1>2, <1>4 DEF VerdictPhrase, CauseLabel, IsUnrecordedCause, CauseNames, EntityMechanisms
<1>8. prompt.runIns = {} =>
        \A i \in DOMAIN wounds :
          wounds[i].at < end.at => wounds[i].by \notin {"fire", "infected"} \cup Shooters
  <2> SUFFICES ASSUME NEW i \in DOMAIN wounds, wounds[i].at < end.at,
                      wounds[i].by \in {"fire", "infected"} \cup Shooters
               PROVE  prompt.runIns # {}
    OBVIOUS
  <2>1. PICK kind \in {"infected", "fire", "pvp"} : wounds[i].by \in KindOf(kind)
    BY DEF KindOf
  <2>2. article.ordeals[kind].encounters > 0
    BY <2>1 DEF ArticleHolds
  <2> QED
    BY <2>1, <2>2 DEF BuildObituaryPrompt
<1>9. article.category = "pvp" <=> mechanism = "pvp"
  BY <1>3 DEF CauseCategory
<1> QED
  BY <1>5, <1>6, <1>7, <1>8, <1>9 DEF ToldAlike, ArticleHolds

\* The invariant: where the story is told its rows are in order.
StoryInv == about = "story" => StoryRows

LEMMA StoryInductive == LivesSpec => []StoryInv
<1>1. LivesInit => StoryInv
  BY StoryStarts DEF LivesInit, StoryInv
<1>2. StoryInv /\ [LivesNext]_<<vars, storyVars, about>> => StoryInv'
  <2> SUFFICES ASSUME StoryInv, [LivesNext]_<<vars, storyVars, about>>, about' = "story"
               PROVE  StoryRows'
    BY DEF StoryInv
  <2>1. about' = about
    BY DEF LivesNext
  <2>2. [StoryNext]_storyVars
    BY DEF LivesNext
  <2> QED
    BY <2>1, <2>2, StoryStep DEF StoryInv
<1> QED
  BY <1>1, <1>2, PTL DEF LivesSpec

\* What the record says of a death rests on what it shows: nobody is blamed who was not
\* there, and the obituary, its author's prompt and the site tell one story of it, for
\* every set of lines and every window (packages/domain, death.ts; apps/newsdesk, facts.ts).
THEOREM DeathTold == LivesSpec => []DeathToldRight
<1>1. StoryInv => DeathToldRight
  BY GuiltyBlamed, AlikeTold DEF StoryInv, DeathToldRight, VerdictStands, StoryRows
<1> QED
  BY <1>1, StoryInductive, PTL

-----------------------------------------------------------------------------
\* The runs of a series of wounds: each wound is in one, each is opened by one, and
\* between two of them there is a gap.

RunFrom(S, i) == {j \in S : i <= j /\ \A k \in Openings(S) : i < k => j < k}

LEMMA RunsAre == \A S : Runs(S) = {RunFrom(S, i) : i \in Openings(S)}
  BY DEF Runs, RunFrom

\* The ends of a set of wounds.
LEMMA WoundsBounded ==
  ASSUME StoryTypeOK, NEW S \in SUBSET DOMAIN wounds, S # {}
  PROVE  /\ S \subseteq Nat /\ IsFiniteSet(S)
         /\ Min(S) \in S /\ \A m \in S : Min(S) <= m
         /\ Max(S) \in S /\ \A m \in S : m <= Max(S)
<1>1. Len(wounds) \in Nat /\ DOMAIN wounds = 1 .. Len(wounds)
  BY StoryTables
<1>2. S \subseteq 0 .. Len(wounds) /\ S \subseteq Nat
  BY <1>1
<1>3. IsFiniteSet(S)
  <2>1. IsFiniteSet(DOMAIN wounds)
    BY <1>1, FS_Interval
  <2> QED
    BY <2>1, FS_Subset
<1> QED
  BY <1>1, <1>2, <1>3, MinIsLeast, MaxIsGreatest

LEMMA RunFromIs ==
  ASSUME StoryTypeOK, NEW S \in SUBSET DOMAIN wounds, NEW i \in Openings(S)
  PROVE  /\ RunFrom(S, i) \in SUBSET S /\ i \in RunFrom(S, i) /\ Min(RunFrom(S, i)) = i
         /\ Max(RunFrom(S, i)) \in RunFrom(S, i)
<1> DEFINE R == RunFrom(S, i)
<1>1. S \subseteq Nat
  BY StoryTables
<1>2. i \in S
  BY DEF Openings
<1>3. R \in SUBSET S /\ i \in R /\ \A j \in R : i <= j
  BY <1>1, <1>2 DEF RunFrom
<1> HIDE DEF R
<1>4. R \in SUBSET DOMAIN wounds /\ R # {}
  BY <1>3
<1>5. Min(R) \in R /\ (\A m \in R : Min(R) <= m) /\ Max(R) \in R
  BY <1>4, WoundsBounded
<1>6. Min(R) = i
  BY <1>1, <1>3, <1>5
<1> QED
  BY <1>3, <1>5, <1>6 DEF R

\* Each wound is in the run that was opened last.
LEMMA EachInRun ==
  ASSUME StoryTypeOK, NEW S \in SUBSET DOMAIN wounds, NEW j \in S
  PROVE  \E i \in Openings(S) : j \in RunFrom(S, i)
<1> DEFINE O == {i \in Openings(S) : i <= j}
<1>1. S \subseteq Nat /\ Openings(S) \subseteq S /\ Openings(S) \subseteq DOMAIN wounds
  BY StoryTables DEF Openings
<1>2. Min(S) \in O
  BY OpeningsCount, WoundsBounded
<1>3. O \in SUBSET DOMAIN wounds /\ O # {}
  BY <1>1, <1>2
<1>4. Max(O) \in O /\ \A m \in O : m <= Max(O)
  <2> HIDE DEF O
  <2> QED
    BY <1>3, WoundsBounded
<1>5. \A k \in Openings(S) : Max(O) < k => j < k
  <2> SUFFICES ASSUME NEW k \in Openings(S), Max(O) < k, ~(j < k)
               PROVE  FALSE
    OBVIOUS
  <2>1. k \in O
    BY <1>1
  <2>2. k <= Max(O) /\ k \in Nat /\ Max(O) \in Nat
    BY <1>1, <1>4, <2>1
  <2> HIDE DEF O
  <2> QED
    BY <2>2
<1>6. Max(O) \in Openings(S) /\ Max(O) <= j
  BY <1>4
<1> QED
  BY <1>5, <1>6 DEF RunFrom

\* Of two runs the first is over before the second opens, after a gap.
LEMMA RunsFollow ==
  ASSUME StoryTypeOK, NEW S \in SUBSET DOMAIN wounds, NEW i \in Openings(S),
         NEW k \in Openings(S), i < k
  PROVE  /\ \A j \in RunFrom(S, i) : j < k /\ wounds[k].at - wounds[j].at > Gap
         /\ RunFrom(S, i) \cap RunFrom(S, k) = {}
<1>1. S \subseteq Nat /\ i \in S /\ k \in S
  BY StoryTables DEF Openings
<1>2. \A j \in RunFrom(S, i) : j < k /\ j \in S
  BY DEF RunFrom
<1>3. \A j \in RunFrom(S, i) : wounds[k].at - wounds[j].at > Gap
  BY <1>1, <1>2 DEF Openings
<1>4. \A j \in RunFrom(S, k) : k <= j
  BY DEF RunFrom
<1> QED
  BY <1>1, <1>2, <1>3, <1>4

LEMMA RunsPartition ==
  ASSUME StoryTypeOK, NEW S \in SUBSET DOMAIN wounds
  PROVE  /\ UNION Runs(S) = S
         /\ \A r, q \in Runs(S) : r # q => r \cap q = {}
         /\ \A r \in Runs(S) : r \in SUBSET S /\ r # {} /\ Max(r) \in r
         /\ IsFiniteSet(Runs(S)) /\ Cardinality(Runs(S)) = Cardinality(Openings(S))
<1> DEFINE O == Openings(S)
           f == [i \in O |-> RunFrom(S, i)]
<1>1. Runs(S) = {RunFrom(S, i) : i \in O}
  BY RunsAre
<1>2. O \subseteq Nat
  BY StoryTables DEF Openings
<1>3. \A r \in Runs(S) : r \in SUBSET S /\ r # {} /\ Max(r) \in r
  BY <1>1, RunFromIs
<1>4. UNION Runs(S) = S
  BY <1>1, <1>3, EachInRun
<1>5. \A r, q \in Runs(S) : r # q => r \cap q = {}
  <2> SUFFICES ASSUME NEW i \in O, NEW k \in O, RunFrom(S, i) # RunFrom(S, k)
               PROVE  RunFrom(S, i) \cap RunFrom(S, k) = {}
    BY <1>1
  <2>1. i < k \/ k < i
    BY <1>2
  <2> QED
    BY <2>1, RunsFollow
<1>6. f \in Bijection(O, Runs(S))
  <2>1. \A i, k \in O : f[i] = f[k] => i = k
    BY RunFromIs
  <2>2. f \in [O -> Runs(S)] /\ \A r \in Runs(S) : \E i \in O : f[i] = r
    BY <1>1
  <2> HIDE DEF f, O
  <2> QED
    BY <2>1, <2>2 DEF Bijection, Injection, Surjection, IsInjective
<1>7. IsFiniteSet(O)
  <2>1. O \subseteq DOMAIN wounds /\ IsFiniteSet(DOMAIN wounds)
    BY StoryTables, FS_Interval DEF Openings
  <2> QED
    BY <2>1, FS_Subset
<1> HIDE DEF f, O
<1>8. IsFiniteSet(Runs(S)) /\ Cardinality(Runs(S)) = Cardinality(O)
  BY <1>6, <1>7, FS_Bijection DEF ExistsBijection
<1> QED
  BY <1>3, <1>4, <1>5, <1>8 DEF O

\* The wounds of a key, and the life's end where it has one.
TicksOf(key) == {i \in InLife : EncounterKey(wounds[i].by) = key}

LEMMA LifeEndIs ==
  ASSUME StoryRows, LifeEnd # Blank
  PROVE  /\ LifeEnd \in Nat /\ EncounterWindow = LifeEnd
         /\ end # Blank => LifeEnd = end.at
  BY StoryAssumption DEF StoryRows, StoryTypeOK, Minutes, LifeEnd, EncounterWindow

LEMMA KeysRuns ==
  ASSUME StoryTypeOK, NEW key
  PROVE  /\ TicksOf(key) \in SUBSET DOMAIN wounds /\ RunsOf(key) = Runs(TicksOf(key))
         /\ key \notin Keys => TicksOf(key) = {} /\ RunsOf(key) = {}
         /\ \A r \in RunsOf(key) : /\ r \in SUBSET InLife /\ r # {} /\ Max(r) \in r
                                   /\ \A i \in r : EncounterKey(wounds[i].by) = key
<1>1. TicksOf(key) \in SUBSET DOMAIN wounds /\ TicksOf(key) \subseteq InLife
  BY DEF TicksOf, InLife
<1>2. RunsOf(key) = Runs(TicksOf(key))
  BY DEF RunsOf, TicksOf
<1>3. key \notin Keys => TicksOf(key) = {}
  BY DEF Keys, Hits, TicksOf
<1>4. TicksOf(key) = {} => RunsOf(key) = {}
  BY <1>2 DEF Runs, Openings
<1>5. \A r \in RunsOf(key) : r \in SUBSET TicksOf(key) /\ r # {} /\ Max(r) \in r
  BY <1>1, <1>2, RunsPartition
<1>6. \A i \in TicksOf(key) : EncounterKey(wounds[i].by) = key
  BY DEF TicksOf
<1> QED
  BY <1>1, <1>2, <1>3, <1>4, <1>5, <1>6

\* Only the last run of a key leads up to the end.
LEMMA OneLeadsUp ==
  ASSUME StoryRows, NEW key, NEW r \in RunsOf(key), NEW q \in RunsOf(key),
         Suppressed(r), Suppressed(q)
  PROVE  r = q
<1> USE DEF StoryRows
<1> DEFINE S == TicksOf(key)
<1>1. S \in SUBSET DOMAIN wounds /\ RunsOf(key) = Runs(S)
  BY KeysRuns
<1>2. PICK i \in Openings(S) : r = RunFrom(S, i)
  BY <1>1, RunsAre
<1>3. PICK k \in Openings(S) : q = RunFrom(S, k)
  BY <1>1, RunsAre
<1>4. i \in Nat /\ k \in Nat /\ i \in DOMAIN wounds /\ k \in DOMAIN wounds
  BY <1>1, StoryTables DEF Openings
<1>5. ASSUME NEW a \in Openings(S), NEW b \in Openings(S), a < b, Suppressed(RunFrom(S, a))
      PROVE  FALSE
  <2> DEFINE m == Max(RunFrom(S, a))
  <2>1. m \in RunFrom(S, a) /\ m \in DOMAIN wounds
    BY <1>1, RunFromIs
  <2>2. wounds[b].at - wounds[m].at > Gap
    BY <1>1, <1>5, <2>1, RunsFollow
  <2>3. LifeEnd # Blank /\ LifeEnd - wounds[m].at <= Window
    BY <1>5 DEF Suppressed
  <2>4. b \in InLife /\ b \in DOMAIN wounds
    BY DEF Openings, TicksOf, InLife
  <2>5. LifeEnd \in Nat /\ wounds[b].at <= LifeEnd
    BY <2>3, <2>4, LifeEndIs DEF InLife
  <2>6. wounds[b].at \in Nat /\ wounds[m].at \in Nat
    BY <2>1, <2>4, StoryTables DEF WoundRow, Minutes
  <2>7. Window \in Nat /\ Gap \in Nat /\ Window <= Gap
    BY StoryAssumption
  <2> HIDE DEF m
  <2> QED
    BY <2>2, <2>3, <2>5, <2>6, <2>7
<1>6. ~(i < k) /\ ~(k < i)
  BY <1>2, <1>3, <1>5
<1> QED
  BY <1>2, <1>3, <1>4, <1>6

\* The lowest health told of more wounds is no higher.
LEMMA LowestOfMore ==
  ASSUME NEW S, NEW T, T \subseteq S, \A h \in S : h.hp \in Healths, LowestOf(T) # Blank
  PROVE  LowestOf(S) # Blank /\ LowestOf(S) <= LowestOf(T)
<1> DEFINE A == {h.hp : h \in S} \ {Blank}
           B == {h.hp : h \in T} \ {Blank}
<1>1. B \subseteq A /\ A \subseteq Nat
  BY DEF Healths
<1>2. B # {} /\ LowestOf(T) = Min(B)
  BY DEF LowestOf
<1>3. A # {} /\ LowestOf(S) = Min(A)
  BY <1>1, <1>2 DEF LowestOf
<1> HIDE DEF A, B
<1>4. Min(B) \in B /\ Min(A) \in A /\ \A m \in A : Min(A) <= m
  BY <1>1, <1>2, <1>3, MinIsLeast
<1>5. Blank \notin Nat
  BY StoryAssumption
<1> QED
  BY <1>1, <1>2, <1>3, <1>4, <1>5

\* The wounds of an attacker with a name of their own on the timeline.
LEMMA NamedTicks ==
  ASSUME StoryRows, end # Blank, NEW kind \in {"fire", "infected"}
  PROVE  /\ Dossier(end.at)[kind].encounters = Cardinality(RunsOf(kind))
         /\ IsFiniteSet(RunsOf(kind))
<1> USE DEF StoryRows
<1> DEFINE S == {i \in {k \in DOMAIN wounds : wounds[k].at <= end.at} : wounds[i].by \in {kind}}
<1>1. end.at \in Nat /\ LifeEnd = end.at /\ EncounterWindow = end.at
  BY StoryAssumption DEF StoryTypeOK, Minutes, LifeEnd, EncounterWindow
<1>2. \A i \in DOMAIN wounds : wounds[i].by \in Shooters \cup Labels
  BY StoryTables DEF WoundRow
<1>3. \A by \in Shooters \cup Labels : EncounterKey(by) = kind <=> by = kind
  BY StoryAssumption DEF EncounterKey, Labels
<1>4. TicksOf(kind) = S
  BY <1>1, <1>2, <1>3 DEF TicksOf, InLife
<1>5. Dossier(end.at)[kind] = SummarizeEncounters(S)
  <2>1. CASE kind = "fire"
    BY <2>1 DEF Dossier
  <2>2. CASE kind = "infected"
    BY <2>2 DEF Dossier
  <2> QED
    BY <2>1, <2>2
<1> HIDE DEF S
<1>6. Dossier(end.at)[kind].encounters = Cardinality(Openings(S))
  BY <1>5 DEF SummarizeEncounters
<1> QED
  BY <1>4, <1>6, KeysRuns, RunsPartition

LEMMA WoundsTold == StoryRows => EachWoundToldOnce
<1> SUFFICES ASSUME StoryRows PROVE EachWoundToldOnce
  OBVIOUS
<1> USE DEF StoryRows
<1> DEFINE shown == {r \in AllRuns : ~Suppressed(r)}
           Shown(key) == Cardinality({r \in shown : r \in RunsOf(key)})
           Hidden(key) == {r \in RunsOf(key) : Suppressed(r)}
<1>1. UNION AllRuns = InLife
  <2>1. ASSUME NEW r \in AllRuns
        PROVE  r \subseteq InLife
    BY KeysRuns DEF AllRuns
  <2>2. ASSUME NEW i \in InLife
        PROVE  \E r \in AllRuns : i \in r
    <3> DEFINE key == EncounterKey(wounds[i].by)
    <3>1. key \in Keys /\ i \in TicksOf(key)
      BY DEF Keys, Hits, TicksOf
    <3> HIDE DEF key
    <3>2. i \in UNION RunsOf(key)
      BY <3>1, KeysRuns, RunsPartition
    <3> QED
      BY <3>1, <3>2 DEF AllRuns
  <2> QED
    BY <2>1, <2>2
<1>2. \A r, q \in AllRuns : r # q => r \cap q = {}
  <2> SUFFICES ASSUME NEW k \in Keys, NEW l \in Keys, NEW r \in RunsOf(k), NEW q \in RunsOf(l),
                      r # q
               PROVE  r \cap q = {}
    BY DEF AllRuns
  <2>1. CASE k = l
    BY <2>1, KeysRuns, RunsPartition
  <2>2. CASE k # l
    BY <2>2, KeysRuns
  <2> QED
    BY <2>1, <2>2
<1>3. ASSUME NEW key \in Keys
      PROVE  Cardinality(Hidden(key)) <= 1
  <2>1. \A r, q \in Hidden(key) : r = q
    BY OneLeadsUp
  <2> HIDE DEF Hidden
  <2>2. CASE Hidden(key) = {}
    BY <2>2, FS_EmptySet
  <2>3. CASE Hidden(key) # {}
    <3>1. PICK r : Hidden(key) = {r}
      BY <2>1, <2>3
    <3> QED
      BY <3>1, FS_Singleton
  <2> QED
    BY <2>2, <2>3
<1>4. ASSUME end # Blank
      PROVE  /\ \A key \in Keys : \A r \in Hidden(key) : Max(r) \in RecentHits(end.at)
             /\ \A r \in shown : ~InWindow(wounds[Max(r)].at, end.at)
             /\ \A kind \in {"fire", "infected"} :
                  Dossier(end.at)[kind].encounters = Shown(kind) + Cardinality(Hidden(kind))
             /\ \A e \in EncountersForLife :
                  e.hpLow # Blank => Dossier(end.at).hpLow # Blank /\ Dossier(end.at).hpLow <= e.hpLow
  <2>0. end.at \in Nat /\ LifeEnd = end.at /\ EncounterWindow = end.at /\ LifeEnd # Blank
    BY <1>4, StoryAssumption DEF StoryTypeOK, Minutes, LifeEnd, EncounterWindow
  <2>1. ASSUME NEW r \in AllRuns
        PROVE  /\ Max(r) \in DOMAIN wounds /\ wounds[Max(r)].at <= end.at
               /\ Suppressed(r) <=> InWindow(wounds[Max(r)].at, end.at)
    <3>1. Max(r) \in InLife
      BY KeysRuns DEF AllRuns
    <3> QED
      BY <2>0, <3>1 DEF InLife, Suppressed, InWindow
  <2>2. \A r \in shown : ~InWindow(wounds[Max(r)].at, end.at)
    BY <2>1
  <2>3. ASSUME NEW key \in Keys, NEW r \in Hidden(key)
        PROVE  Max(r) \in RecentHits(end.at)
    <3>1. r \in AllRuns /\ Suppressed(r)
      BY <2>3 DEF AllRuns
    <3> QED
      BY <2>1, <3>1 DEF RecentHits
  <2>4. ASSUME NEW kind \in {"fire", "infected"}
        PROVE  Dossier(end.at)[kind].encounters = Shown(kind) + Cardinality(Hidden(kind))
    <3> DEFINE A == RunsOf(kind)
               B == Hidden(kind)
               D == {r \in A : ~Suppressed(r)}
    <3>1. IsFiniteSet(A) /\ Dossier(end.at)[kind].encounters = Cardinality(A)
      BY <1>4, NamedTicks
    <3>2. {r \in shown : r \in A} = D
      <4>1. kind \in Keys \/ A = {}
        BY KeysRuns
      <4> QED
        BY <4>1 DEF AllRuns
    <3>3. D = A \ B /\ A \cap B = B
      OBVIOUS
    <3>4. Shown(kind) = Cardinality(A \ B)
      BY <3>2, <3>3
    <3> HIDE DEF A, B, D, Shown
    <3>5. Cardinality(A \ B) = Cardinality(A) - Cardinality(A \cap B)
      BY <3>1, FS_Difference
    <3>6. Cardinality(A) \in Nat
      BY <3>1, FS_CardinalityType
    <3>7. Cardinality(B) \in Nat
      <4>1. IsFiniteSet(A \cap B)
        BY <3>1, FS_Intersection
      <4> QED
        BY <3>3, <4>1, FS_CardinalityType
    <3>8. Cardinality(A \cap B) = Cardinality(B)
      BY <3>3
    <3> HIDE DEF Hidden
    <3>9. Cardinality(A) = Shown(kind) + Cardinality(B)
      BY <3>4, <3>5, <3>6, <3>7, <3>8
    <3> QED
      BY <3>1, <3>9 DEF B
  <2>5. ASSUME NEW e \in EncountersForLife, e.hpLow # Blank
        PROVE  Dossier(end.at).hpLow # Blank /\ Dossier(end.at).hpLow <= e.hpLow
    <3>1. PICK r \in AllRuns : e = EncounterOf(r)
      BY DEF EncountersForLife
    <3>2. e.hpLow = LowestOf(Hits(r))
      BY <3>1 DEF EncounterOf
    <3> DEFINE H == {i \in DOMAIN wounds : wounds[i].at <= end.at}
    <3>3. r \subseteq H /\ H \subseteq DOMAIN wounds
      BY <1>1, <2>0 DEF InLife
    <3>4. Dossier(end.at).hpLow = LowestOf(Hits(H))
      BY DEF Dossier
    <3> HIDE DEF H
    <3>5. Hits(r) \subseteq Hits(H) /\ \A h \in Hits(H) : h.hp \in Healths
      BY <3>3, StoryTables DEF Hits, WoundRow
    <3>6. LowestOf(Hits(r)) # Blank
      BY <2>5, <3>2
    <3>7. LowestOf(Hits(H)) # Blank /\ LowestOf(Hits(H)) <= LowestOf(Hits(r))
      BY <3>5, <3>6, LowestOfMore
    <3> QED
      BY <3>2, <3>4, <3>7
  <2> QED
    BY <2>2, <2>3, <2>4, <2>5
<1> HIDE DEF shown, Shown, Hidden
<1> QED
  BY <1>1, <1>2, <1>3, <1>4 DEF EachWoundToldOnce, shown, Shown, Hidden

-----------------------------------------------------------------------------
\* The trail: all fixes are of the life, and each was seen in a session.

LEMMA TrackEndIs ==
  ASSUME StoryRows
  PROVE  /\ TrackEnd \in Nat /\ heartbeat \in Nat /\ heartbeat <= TrackEnd
         /\ RawTrack = DOMAIN fixes
         /\ \A p \in DOMAIN fixes : fixes[p].at \in Nat /\ fixes[p].at <= TrackEnd
<1> USE DEF StoryRows
<1>1. heartbeat \in Nat /\ Blank \notin Nat
  BY StoryAssumption DEF StoryTypeOK, Minutes
<1>2. TrackEnd \in Nat /\ heartbeat <= TrackEnd
  <2>1. CASE end # Blank
    <3>1. end.at \in Nat /\ heartbeat <= end.at
      BY <2>1 DEF StoryTypeOK, Minutes, EndsAreEnds
    <3> QED
      BY <2>1, <3>1 DEF TrackEnd
  <2>2. CASE end = Blank /\ closed # Blank
    <3>1. closed \in Nat /\ heartbeat <= closed
      BY <2>2 DEF StoryTypeOK, Minutes, EndsAreEnds
    <3> QED
      BY <1>1, <2>2, <3>1 DEF TrackEnd, RetirementStop
  <2>3. CASE end = Blank /\ closed = Blank
    BY <1>1, <2>3 DEF TrackEnd
  <2> QED
    BY <2>1, <2>2, <2>3
<1>3. \A p \in DOMAIN fixes : fixes[p].at \in Nat /\ fixes[p].at <= heartbeat
  BY StoryTables DEF RowsInOrder, FixRow, Minutes
<1>4. \A p \in DOMAIN fixes : fixes[p].at <= TrackEnd
  BY <1>1, <1>2, <1>3
<1> QED
  BY <1>1, <1>2, <1>3, <1>4 DEF RawTrack

LEMMA FixesBounded ==
  ASSUME StoryTypeOK, NEW S \in SUBSET DOMAIN fixes, S # {}
  PROVE  /\ S \subseteq Nat
         /\ Min(S) \in S /\ \A m \in S : Min(S) <= m
         /\ Max(S) \in S /\ \A m \in S : m <= Max(S)
<1>1. Len(fixes) \in Nat /\ DOMAIN fixes = 1 .. Len(fixes)
  BY StoryTables
<1>2. S \subseteq 0 .. Len(fixes) /\ S \subseteq Nat
  BY <1>1
<1> QED
  BY <1>1, <1>2, MinIsLeast, MaxIsGreatest

\* Whatever is thinned out, the rest is of the track and has its last point.
LEMMA ThinTrackKeeps ==
  ASSUME StoryTypeOK, NEW P \in SUBSET DOMAIN fixes, P # {}
  PROVE  ThinTrack(P) \in SUBSET P /\ Max(P) \in ThinTrack(P)
<1>1. Max(P) \in P
  BY FixesBounded
<1> QED
  BY <1>1 DEF ThinTrack

\* A marker is the last fix up to its event.
LEMMA MarkerIs ==
  ASSUME StoryRows, NEW kind, NEW at \in Nat
  PROVE  /\ \A m \in MarkerAt(RawTrack, kind, at) :
              /\ m.kind = kind /\ m.at = at /\ m.sample.at \in Nat /\ m.sample.at <= at
              /\ \A p \in DOMAIN fixes : fixes[p].at <= at => fixes[p].at <= m.sample.at
         /\ \A p \in DOMAIN fixes :
              fixes[p].at <= at /\ at - fixes[p].at <= MarkerAge => MarkerAt(RawTrack, kind, at) # {}
<1> USE DEF StoryRows
<1> DEFINE known == {p \in DOMAIN fixes : fixes[p].at <= at}
           last == {p \in known : \A q \in known : fixes[q].at <= fixes[p].at}
           best == fixes[Min(last)]
<1>1. RawTrack = DOMAIN fixes /\ \A p \in DOMAIN fixes : fixes[p].at \in Nat
  BY TrackEndIs
<1>2. MarkerAt(RawTrack, kind, at)
        = IF known = {} \/ at - best.at > MarkerAge THEN {}
          ELSE {[kind |-> kind, at |-> at, sample |-> best]}
  BY <1>1 DEF MarkerAt
<1>3. ASSUME known # {}
      PROVE  Min(last) \in last
  <2>1. Max(known) \in known /\ \A q \in known : q <= Max(known)
    BY <1>3, FixesBounded
  <2>2. \A q \in known : fixes[q].at <= fixes[Max(known)].at
    <3> SUFFICES ASSUME NEW q \in known PROVE fixes[q].at <= fixes[Max(known)].at
      OBVIOUS
    <3>1. q \in Nat /\ Max(known) \in Nat /\ q <= Max(known)
      BY <2>1, StoryTables
    <3>2. CASE q < Max(known)
      BY <2>1, <3>2 DEF RowsInOrder
    <3>3. CASE q = Max(known)
      BY <1>1, <3>3
    <3> QED
      BY <3>1, <3>2, <3>3
  <2>3. last # {} /\ last \in SUBSET DOMAIN fixes
    BY <2>1, <2>2
  <2> HIDE DEF last
  <2> QED
    BY <2>3, FixesBounded
<1>4. known # {} => best.at \in Nat /\ best.at <= at /\ \A q \in known : fixes[q].at <= best.at
  BY <1>1, <1>3
<1> HIDE DEF best, last
<1>5. \A m \in MarkerAt(RawTrack, kind, at) :
        known # {} /\ m = [kind |-> kind, at |-> at, sample |-> best]
  BY <1>2
<1>6. ASSUME NEW m \in MarkerAt(RawTrack, kind, at)
      PROVE  /\ m.kind = kind /\ m.at = at /\ m.sample.at \in Nat /\ m.sample.at <= at
             /\ \A p \in DOMAIN fixes : fixes[p].at <= at => fixes[p].at <= m.sample.at
  <2>1. m.kind = kind /\ m.at = at /\ m.sample = best /\ known # {}
    BY <1>5
  <2> QED
    BY <1>4, <2>1
<1>7. ASSUME NEW p \in DOMAIN fixes, fixes[p].at <= at, at - fixes[p].at <= MarkerAge
      PROVE  MarkerAt(RawTrack, kind, at) # {}
  <2>1. p \in known
    BY <1>7
  <2>2. fixes[p].at <= best.at /\ best.at \in Nat /\ fixes[p].at \in Nat
    BY <1>1, <1>4, <2>1
  <2>3. ~(at - best.at > MarkerAge)
    BY <1>7, <2>2, StoryAssumption
  <2> QED
    BY <1>2, <2>1, <2>3
<1> QED
  BY <1>6, <1>7

\* The windows of the sessions on the track: none overlaps a later one.
LEMMA WindowsAre ==
  ASSUME StoryRows, NEW i \in DOMAIN stints
  PROVE  /\ Windows[i].from = stints[i].from /\ Windows[i].to \in Nat /\ stints[i].from \in Nat
         /\ stints[i].from <= Windows[i].to
         /\ stints[i].to # Blank => Windows[i].to = stints[i].to
         /\ stints[i].to = Blank => Windows[i].to = TrackEnd
         /\ \A j \in DOMAIN stints : i < j => Windows[i].to <= stints[j].from
<1> USE DEF StoryRows
<1>1. stints[i].from \in Nat /\ stints[i].to \in Nat \cup {Blank} /\ Blank \notin Nat
  BY StoryTables, StoryAssumption DEF StintRow, Minutes
<1>2. TrackEnd \in Nat /\ heartbeat \in Nat /\ heartbeat <= TrackEnd /\ stints[i].from <= heartbeat
  BY TrackEndIs DEF StintsInOrder
<1>3. stints[i].from <= TrackEnd
  BY <1>1, <1>2
<1>4. Max({TrackEnd, stints[i].from}) = TrackEnd
  <2> DEFINE S == {TrackEnd, stints[i].from}
  <2>1. S \in SUBSET (0 .. TrackEnd) /\ S # {}
    BY <1>1, <1>2, <1>3
  <2>2. Max(S) \in S /\ TrackEnd <= Max(S)
    <3>1. TrackEnd \in S
      OBVIOUS
    <3> HIDE DEF S
    <3> QED
      BY <1>2, <2>1, <3>1, MaxIsGreatest
  <2> QED
    BY <1>1, <1>2, <1>3, <2>2
<1>5. /\ Windows[i].from = stints[i].from
      /\ Windows[i].to = IF stints[i].to # Blank THEN stints[i].to ELSE TrackEnd
  BY <1>4 DEF Windows
<1>6. stints[i].to # Blank => stints[i].from <= stints[i].to
  BY DEF StintsInOrder
<1>7. ASSUME NEW j \in DOMAIN stints, i < j
      PROVE  stints[i].to # Blank /\ stints[i].to <= stints[j].from
  <2>1. i < Len(stints)
    BY <1>7, StoryTables
  <2> QED
    BY <1>7, <2>1 DEF StintsInOrder
<1> QED
  BY <1>1, <1>2, <1>3, <1>5, <1>6, <1>7

LEMMA TrailTrue == StoryRows => TrailIsWalked
<1> SUFFICES ASSUME StoryRows, RawTrack # {}
             PROVE  TrailIsWalked
  BY DEF TrailIsWalked
<1> USE DEF StoryRows
<1> DEFINE kept == ThinTrack(RawTrack)
           drawn == SegmentBySession
           Inside(i) == {p \in kept : Windows[i].from <= fixes[p].at /\ fixes[p].at <= Windows[i].to}
<1>1. /\ RawTrack = DOMAIN fixes /\ TrackEnd \in Nat
      /\ \A p \in DOMAIN fixes : fixes[p].at \in Nat /\ fixes[p].at <= TrackEnd
  BY TrackEndIs
<1>2. /\ Len(fixes) \in Nat /\ DOMAIN fixes = 1 .. Len(fixes) /\ Len(fixes) \in DOMAIN fixes
      /\ Max(RawTrack) = Len(fixes)
  <2>1. Len(fixes) \in Nat /\ DOMAIN fixes = 1 .. Len(fixes) /\ DOMAIN fixes # {}
    BY <1>1, StoryTables
  <2>2. Max(DOMAIN fixes) \in DOMAIN fixes /\ \A m \in DOMAIN fixes : m <= Max(DOMAIN fixes)
    BY <2>1, FixesBounded
  <2>3. Len(fixes) \in DOMAIN fixes
    BY <2>1
  <2>4. Max(DOMAIN fixes) = Len(fixes)
    BY <2>1, <2>2, <2>3
  <2> QED
    BY <1>1, <2>1, <2>3, <2>4
<1>3. kept \in SUBSET DOMAIN fixes /\ Len(fixes) \in kept
  BY <1>1, <1>2, ThinTrackKeeps
<1>4. Max(kept) = Len(fixes)
  <2>1. Max(kept) \in kept /\ Len(fixes) <= Max(kept)
    BY <1>3, FixesBounded
  <2> QED
    BY <1>2, <1>3, <2>1
<1>5. drawn = [i \in {j \in DOMAIN stints : Inside(j) # {}} |-> Inside(i)]
  BY DEF SegmentBySession
<1>6. ASSUME NEW p \in kept
      PROVE  \E i \in DOMAIN drawn : p \in drawn[i]
  <2>1. PICK i \in DOMAIN stints : /\ stints[i].from <= fixes[p].at
                                   /\ stints[i].to # Blank => fixes[p].at <= stints[i].to
    BY <1>3 DEF SeenLoggedIn
  <2>2. Windows[i].from <= fixes[p].at /\ fixes[p].at <= Windows[i].to
    BY <1>1, <1>3, <2>1, WindowsAre
  <2>3. p \in Inside(i)
    BY <2>2
  <2> HIDE DEF Inside, drawn
  <2> QED
    BY <1>5, <2>3
<1>7. ASSUME NEW i \in DOMAIN drawn, NEW j \in DOMAIN drawn, i < j,
             NEW p \in drawn[i], NEW q \in drawn[j]
      PROVE  fixes[p].at <= fixes[q].at
  <2>1. i \in DOMAIN stints /\ j \in DOMAIN stints /\ p \in Inside(i) /\ q \in Inside(j)
    BY <1>5
  <2>2. fixes[p].at <= Windows[i].to /\ Windows[j].from <= fixes[q].at
    BY <2>1
  <2>3. fixes[p].at \in Nat /\ fixes[q].at \in Nat
    BY <1>1, <1>3, <2>1
  <2>4. Windows[i].to \in Nat /\ Windows[j].from \in Nat /\ Windows[i].to <= Windows[j].from
    BY <1>7, <2>1, WindowsAre
  <2> QED
    BY <2>2, <2>3, <2>4
<1>8. ASSUME NEW m \in Markers
      PROVE  /\ m.sample.at <= m.at
             /\ \A p \in DOMAIN fixes : fixes[p].at <= m.at => fixes[p].at <= m.sample.at
             /\ m.kind = "now" => m.sample.at = fixes[Max(kept)].at
  <2>1. CASE \E t \in shots : m \in MarkerAt(RawTrack, "kill", t)
    <3>1. PICK t \in shots : m \in MarkerAt(RawTrack, "kill", t)
      BY <2>1
    <3>2. t \in Nat
      BY DEF StoryTypeOK, Minutes
    <3> QED
      BY <3>1, <3>2, MarkerIs
  <2>2. CASE end # Blank /\ m \in MarkerAt(RawTrack, "death", end.at)
    <3>1. end.at \in Nat
      BY <2>2 DEF StoryTypeOK, Minutes
    <3> QED
      BY <2>2, <3>1, MarkerIs
  <2>3. CASE m \in MarkerAt(RawTrack, "now", fixes[Max(RawTrack)].at)
    <3> DEFINE at == fixes[Len(fixes)].at
    <3>1. at \in Nat /\ m \in MarkerAt(RawTrack, "now", at)
      BY <1>1, <1>2, <2>3
    <3> HIDE DEF at
    <3>2. /\ m.at = at /\ m.sample.at \in Nat /\ m.sample.at <= at
          /\ \A p \in DOMAIN fixes : fixes[p].at <= at => fixes[p].at <= m.sample.at
      BY <3>1, MarkerIs
    <3>3. at <= m.sample.at
      BY <1>2, <3>1, <3>2 DEF at
    <3> QED
      BY <1>4, <3>1, <3>2, <3>3 DEF at
  <2>4. (\E t \in shots : m \in MarkerAt(RawTrack, "kill", t)) \/ m \in TerminalMarker
    BY DEF Markers
  <2>5. m \in TerminalMarker =>
          \/ end # Blank /\ m \in MarkerAt(RawTrack, "death", end.at)
          \/ m \in MarkerAt(RawTrack, "now", fixes[Max(RawTrack)].at)
    BY DEF TerminalMarker
  <2> QED
    BY <2>1, <2>2, <2>3, <2>4, <2>5
<1>9. ASSUME NEW t \in shots, NEW p \in DOMAIN fixes,
             t <= TrackEnd, fixes[p].at <= t, t - fixes[p].at <= MarkerAge
      PROVE  \E m \in Markers : m.kind = "kill" /\ m.at = t
  <2>1. t \in Nat
    BY DEF StoryTypeOK, Minutes
  <2>2. PICK m \in MarkerAt(RawTrack, "kill", t) : TRUE
    BY <1>9, <2>1, MarkerIs
  <2>3. m.kind = "kill" /\ m.at = t
    BY <2>1, MarkerIs
  <2>4. m \in Markers
    BY <1>9 DEF Markers
  <2> QED
    BY <2>3, <2>4
<1> HIDE DEF kept, drawn
<1> QED
  BY <1>3, <1>6, <1>7, <1>8, <1>9 DEF TrailIsWalked, kept, drawn

-----------------------------------------------------------------------------
\* The clock of the timeline.  What is played by an instant is the minutes before it
\* that lie in a session, so that sums of sessions are numbers of minutes.

LEMMA GreaterOfTwo ==
  ASSUME NEW n \in Int
  PROVE  Max({0, n}) = IF n >= 0 THEN n ELSE 0
<1>1. \E x \in {0, n} : \A y \in {0, n} : x >= y
  OBVIOUS
<1> QED
  BY <1>1 DEF Max

LEMMA LesserOfTwo ==
  ASSUME NEW a \in Int, NEW b \in Int
  PROVE  Min({a, b}) = IF a <= b THEN a ELSE b
<1>1. \E x \in {a, b} : \A y \in {a, b} : x <= y
  OBVIOUS
<1> QED
  BY <1>1 DEF Min

\* A session stops where its window on the trail does, no later than now or the end.
LEMMA StopsAre ==
  ASSUME StoryRows, NEW i \in DOMAIN stints
  PROVE  /\ stints[i].from \in Nat /\ SessionStop(i) \in Nat /\ stints[i].from <= SessionStop(i)
         /\ SessionStop(i) = Windows[i].to /\ SessionStop(i) <= minute
         /\ SessionPlay(i) = SessionStop(i) - stints[i].from
         /\ \A j \in DOMAIN stints : i < j => SessionStop(i) <= stints[j].from
         /\ closed # Blank => SessionStop(i) <= closed
         /\ end # Blank => SessionStop(i) <= end.at
<1> USE DEF StoryRows
<1>0. /\ Len(stints) \in Nat /\ DOMAIN stints = 1 .. Len(stints) /\ Len(stints) \in DOMAIN stints
      /\ Blank \notin Nat /\ heartbeat \in Nat /\ minute \in Nat /\ heartbeat <= minute
      /\ \A k \in DOMAIN stints : stints[k].from \in Nat /\ stints[k].to \in Nat \cup {Blank}
  BY StoryTables, StoryTimes DEF StintsInOrder, RowsInOrder
<1>1. /\ end # Blank => end.at \in Nat /\ stints[Len(stints)].to = end.at
      /\ closed # Blank => closed \in Nat /\ heartbeat <= closed
  BY DEF StoryTypeOK, Minutes, EndsAreEnds
<1>2. stints[i].to = Blank => i = Len(stints) /\ end = Blank
  BY <1>0, <1>1 DEF StintsInOrder
<1>3. stints[i].to = Blank => SessionStop(i) = TrackEnd
  BY <1>2 DEF SessionStop, TrackEnd
<1>4. stints[i].to # Blank => SessionStop(i) = stints[i].to
  BY DEF SessionStop
<1>5. SessionStop(i) = Windows[i].to
  BY <1>3, <1>4, WindowsAre
<1>6. /\ stints[i].from \in Nat /\ SessionStop(i) \in Nat /\ stints[i].from <= SessionStop(i)
      /\ \A j \in DOMAIN stints : i < j => SessionStop(i) <= stints[j].from
  BY <1>5, WindowsAre
<1>7. stints[i].to = Blank => SessionStop(i) = heartbeat
  BY <1>0, <1>1 DEF SessionStop, RetirementStop
<1>8. SessionStop(i) <= minute
  BY <1>0, <1>4, <1>7 DEF StintsInOrder
<1>9. closed # Blank => SessionStop(i) <= closed
  BY <1>1, <1>4, <1>7 DEF EndsAreEnds
<1>10. end # Blank => SessionStop(i) <= end.at
  <2> SUFFICES ASSUME end # Blank PROVE stints[i].to <= end.at
    BY <1>2, <1>4
  <2>1. CASE i = Len(stints)
    BY <1>1, <2>1
  <2>2. CASE i < Len(stints)
    <3> DEFINE n == Len(stints)
    <3>1. stints[i].to # Blank /\ stints[i].to <= stints[n].from
      BY <1>0, <2>2 DEF StintsInOrder
    <3>2. stints[n].from <= stints[n].to /\ stints[n].to = end.at /\ end.at \in Nat
      BY <1>0, <1>1 DEF StintsInOrder
    <3>3. stints[i].to \in Nat /\ stints[n].from \in Nat
      BY <1>0, <3>1
    <3> QED
      BY <3>1, <3>2, <3>3
  <2> QED
    BY <1>0, <2>1, <2>2
<1>11. SessionPlay(i) = SessionStop(i) - stints[i].from
  BY <1>6, GreaterOfTwo DEF SessionPlay
<1> QED
  BY <1>5, <1>6, <1>8, <1>9, <1>10, <1>11

\* The minutes of the sessions before t.
SpansTo(t) == [i \in DOMAIN stints |-> {m \in stints[i].from .. SessionStop(i) - 1 : m < t}]
Lived(t) == Whole(SpansTo(t), DOMAIN stints)
LivedFor(t) == Cardinality(Lived(t))

LEMMA SpansApart ==
  ASSUME StoryRows, NEW t \in Nat
  PROVE  /\ IsFiniteSet(DOMAIN stints) /\ Parts(SpansTo(t), DOMAIN stints)
         /\ \A i \in DOMAIN stints :
              Cardinality(SpansTo(t)[i]) = Max({0, Min({t, SessionStop(i)}) - stints[i].from})
<1>0. DOMAIN stints = 1 .. Len(stints) /\ Len(stints) \in Nat
  BY StoryTables DEF StoryRows
<1>1. IsFiniteSet(DOMAIN stints) /\ DOMAIN stints \subseteq Nat
  BY <1>0, FS_Interval
<1>2. ASSUME NEW i \in DOMAIN stints
      PROVE  /\ IsFiniteSet(SpansTo(t)[i])
             /\ Cardinality(SpansTo(t)[i]) = Max({0, Min({t, SessionStop(i)}) - stints[i].from})
  <2> DEFINE lo == stints[i].from
             hi == SessionStop(i)
             top == Min({t, hi})
  <2>1. lo \in Nat /\ hi \in Nat
    BY StopsAre
  <2>2. top = IF t <= hi THEN t ELSE hi
    BY <2>1, LesserOfTwo
  <2>3. SpansTo(t)[i] = {m \in lo .. hi - 1 : m < t}
    BY DEF SpansTo
  <2> HIDE DEF lo, hi, top
  <2>4. top \in Nat
    BY <2>1, <2>2
  <2>5. {m \in lo .. hi - 1 : m < t} = lo .. top - 1
    BY <2>1, <2>2
  <2>6. /\ IsFiniteSet(lo .. top - 1)
        /\ Cardinality(lo .. top - 1) = IF lo > top - 1 THEN 0 ELSE top - 1 - lo + 1
    BY <2>1, <2>4, FS_Interval
  <2>7. Max({0, top - lo}) = IF top - lo >= 0 THEN top - lo ELSE 0
    BY <2>1, <2>4, GreaterOfTwo
  <2>8. Cardinality(lo .. top - 1) = Max({0, top - lo})
    BY <2>1, <2>4, <2>6, <2>7
  <2> QED
    BY <2>3, <2>5, <2>6, <2>8 DEF lo, hi, top
<1>3. ASSUME NEW i \in DOMAIN stints, NEW j \in DOMAIN stints, i < j
      PROVE  SpansTo(t)[i] \cap SpansTo(t)[j] = {}
  <2>1. /\ SessionStop(i) \in Nat /\ stints[j].from \in Nat /\ SessionStop(i) <= stints[j].from
        /\ stints[i].from \in Nat /\ SessionStop(j) \in Nat
    BY <1>3, StopsAre
  <2>2. \A m \in SpansTo(t)[i] : m \in Int /\ m <= SessionStop(i) - 1
    BY <2>1 DEF SpansTo
  <2>3. \A m \in SpansTo(t)[j] : m >= stints[j].from
    BY <2>1 DEF SpansTo
  <2> QED
    BY <2>1, <2>2, <2>3
<1>4. \A i, j \in DOMAIN stints : i # j => SpansTo(t)[i] \cap SpansTo(t)[j] = {}
  <2> SUFFICES ASSUME NEW i \in DOMAIN stints, NEW j \in DOMAIN stints, i # j
               PROVE  SpansTo(t)[i] \cap SpansTo(t)[j] = {}
    OBVIOUS
  <2>1. i < j \/ j < i
    BY <1>1
  <2> QED
    BY <1>3, <2>1
<1> QED
  BY <1>1, <1>2, <1>4 DEF Parts

\* The time played by t is the number of those minutes.
LEMMA PlayedIsLived ==
  ASSUME StoryRows, NEW t \in Nat
  PROVE  PlayedSecondsAt(t) = LivedFor(t)
<1> DEFINE S == DOMAIN stints
           Share(i) == Max({0, Min({t, SessionStop(i)}) - stints[i].from})
           w == [i \in S |-> [dur |-> Share(i)]]
<1>1. PlayedSecondsAt(t)
        = (CHOOSE h : h = [s \in SUBSET S |->
             IF s = {} THEN 0 ELSE Share(AnyOf(s)) + h[s \ {AnyOf(s)}]])[S]
  BY DEF PlayedSecondsAt, MapThenSumSet, MapThenFoldSet, AnyOf
<1>2. ASSUME NEW h
      PROVE  (h = [s \in SUBSET S |-> IF s = {} THEN 0 ELSE Share(AnyOf(s)) + h[s \ {AnyOf(s)}]])
             <=> TimesUp(h, w, S)
  <2>1. ASSUME NEW s \in SUBSET S, s # {}
        PROVE  w[AnyOf(s)].dur = Share(AnyOf(s))
    <3>1. AnyOf(s) \in S
      BY <2>1 DEF AnyOf
    <3> QED
      BY <3>1
  <2>2. [s \in SUBSET S |-> IF s = {} THEN 0 ELSE Share(AnyOf(s)) + h[s \ {AnyOf(s)}]]
        = [s \in SUBSET S |-> IF s = {} THEN 0 ELSE w[AnyOf(s)].dur + h[s \ {AnyOf(s)}]]
    BY <2>1
  <2> QED
    BY <2>2 DEF TimesUp
<1>3. \A i \in S : w[i].dur = Cardinality(SpansTo(t)[i])
  BY SpansApart
<1> HIDE DEF S, w, Share
<1>4. (CHOOSE h : h = [s \in SUBSET S |->
             IF s = {} THEN 0 ELSE Share(AnyOf(s)) + h[s \ {AnyOf(s)}]])
      = CHOOSE h : TimesUp(h, w, S)
  BY <1>2
<1>5. (CHOOSE h : TimesUp(h, w, S))[S] = Cardinality(Whole(SpansTo(t), S))
  <2>1. IsFiniteSet(S) /\ Parts(SpansTo(t), S)
    BY SpansApart DEF S
  <2> QED
    BY <1>3, <2>1, PartsCount
<1> QED
  BY <1>1, <1>4, <1>5 DEF LivedFor, Lived, S

\* So is the time of some of the sessions.
LEMMA SessionsAreLived ==
  ASSUME StoryRows, NEW S \in SUBSET DOMAIN stints
  PROVE  MapThenSumSet(SessionPlay, S) = Cardinality(Whole(SpansTo(minute), S))
<1> DEFINE w == [i \in S |-> [dur |-> SessionPlay(i)]]
<1>1. MapThenSumSet(SessionPlay, S)
        = (CHOOSE h : h = [s \in SUBSET S |->
             IF s = {} THEN 0 ELSE SessionPlay(AnyOf(s)) + h[s \ {AnyOf(s)}]])[S]
  BY DEF MapThenSumSet, MapThenFoldSet, AnyOf
<1>2. ASSUME NEW h
      PROVE  (h = [s \in SUBSET S |-> IF s = {} THEN 0
                     ELSE SessionPlay(AnyOf(s)) + h[s \ {AnyOf(s)}]])
             <=> TimesUp(h, w, S)
  <2>1. ASSUME NEW s \in SUBSET S, s # {}
        PROVE  w[AnyOf(s)].dur = SessionPlay(AnyOf(s))
    <3>1. AnyOf(s) \in S
      BY <2>1 DEF AnyOf
    <3> QED
      BY <3>1
  <2>2. [s \in SUBSET S |-> IF s = {} THEN 0 ELSE SessionPlay(AnyOf(s)) + h[s \ {AnyOf(s)}]]
        = [s \in SUBSET S |-> IF s = {} THEN 0 ELSE w[AnyOf(s)].dur + h[s \ {AnyOf(s)}]]
    BY <2>1
  <2> QED
    BY <2>2 DEF TimesUp
<1>3. \A i \in S : w[i].dur = Cardinality(SpansTo(minute)[i])
  <2> SUFFICES ASSUME NEW i \in S PROVE SessionPlay(i) = Cardinality(SpansTo(minute)[i])
    OBVIOUS
  <2>1. /\ SessionStop(i) \in Nat /\ stints[i].from \in Nat /\ stints[i].from <= SessionStop(i)
        /\ SessionStop(i) <= minute /\ SessionPlay(i) = SessionStop(i) - stints[i].from
    BY StopsAre
  <2>2. minute \in Nat
    BY StoryAssumption DEF StoryRows, StoryTypeOK, Minutes
  <2>3. Min({minute, SessionStop(i)}) = SessionStop(i)
    BY <2>1, <2>2, LesserOfTwo
  <2>4. Max({0, SessionStop(i) - stints[i].from}) = SessionStop(i) - stints[i].from
    BY <2>1, GreaterOfTwo
  <2>5. Cardinality(SpansTo(minute)[i]) = Max({0, Min({minute, SessionStop(i)}) - stints[i].from})
    BY <2>2, SpansApart
  <2> QED
    BY <2>1, <2>3, <2>4, <2>5
<1> HIDE DEF w
<1>4. (CHOOSE h : h = [s \in SUBSET S |->
             IF s = {} THEN 0 ELSE SessionPlay(AnyOf(s)) + h[s \ {AnyOf(s)}]])
      = CHOOSE h : TimesUp(h, w, S)
  BY <1>2
<1>5. (CHOOSE h : TimesUp(h, w, S))[S] = Cardinality(Whole(SpansTo(minute), S))
  <2>1. minute \in Nat
    BY StoryAssumption DEF StoryRows, StoryTypeOK, Minutes
  <2>2. IsFiniteSet(S) /\ Parts(SpansTo(minute), S)
    BY <2>1, SpansApart, FS_Subset DEF Parts
  <2> QED
    BY <1>3, <2>2, PartsCount
<1> QED
  BY <1>1, <1>4, <1>5

\* The minutes played by t.
LEMMA LivedIs ==
  ASSUME StoryRows, NEW t \in Nat
  PROVE  /\ \A m : m \in Lived(t) <=>
              m \in Nat /\ m < t /\ \E i \in DOMAIN stints : stints[i].from <= m /\ m < SessionStop(i)
         /\ IsFiniteSet(Lived(t)) /\ LivedFor(t) \in Nat /\ LivedFor(t) <= t
<1>1. ASSUME NEW m
      PROVE  m \in Lived(t) <=>
              m \in Nat /\ m < t /\ \E i \in DOMAIN stints : stints[i].from <= m /\ m < SessionStop(i)
  <2>1. m \in Lived(t) <=> \E i \in DOMAIN stints : m \in stints[i].from .. SessionStop(i) - 1 /\ m < t
    BY DEF Lived, Whole, SpansTo
  <2>2. \A i \in DOMAIN stints : stints[i].from \in Nat /\ SessionStop(i) \in Nat
    BY StopsAre
  <2>3. ASSUME NEW i \in DOMAIN stints
        PROVE  m \in stints[i].from .. SessionStop(i) - 1
                 <=> m \in Nat /\ stints[i].from <= m /\ m < SessionStop(i)
    <3>1. stints[i].from \in Nat /\ SessionStop(i) \in Nat
      BY <2>2
    <3> QED
      BY <3>1
  <2> QED
    BY <2>1, <2>3
<1>2. Lived(t) \subseteq 0 .. t - 1
  BY <1>1
<1>3. IsFiniteSet(0 .. t - 1) /\ Cardinality(0 .. t - 1) = t
  <2>1. Cardinality(0 .. t - 1) = IF 0 > t - 1 THEN 0 ELSE t - 1 - 0 + 1
    BY FS_Interval
  <2> QED
    BY <2>1, FS_Interval
<1>4. IsFiniteSet(Lived(t)) /\ Cardinality(Lived(t)) <= t
  BY <1>2, <1>3, FS_Subset
<1>5. Cardinality(Lived(t)) \in Nat
  BY <1>4, FS_CardinalityType
<1> QED
  BY <1>1, <1>4, <1>5 DEF LivedFor

LEMMA LivedGrows ==
  ASSUME StoryRows, NEW s \in Nat, NEW t \in Nat, s <= t
  PROVE  LivedFor(s) <= LivedFor(t)
<1>1. Lived(s) \subseteq Lived(t)
  <2> SUFFICES ASSUME NEW m \in Lived(s) PROVE m \in Lived(t)
    OBVIOUS
  <2>1. m \in Nat /\ m < s /\ \E i \in DOMAIN stints : stints[i].from <= m /\ m < SessionStop(i)
    BY LivedIs
  <2>2. m < t
    BY <2>1
  <2> QED
    BY <2>1, <2>2, LivedIs
<1> QED
  BY <1>1, LivedIs, FS_Subset DEF LivedFor

\* Between sessions nothing is added.
LEMMA LivedRests ==
  ASSUME StoryRows, NEW s \in Nat, NEW t \in Nat, s <= t,
         \A i \in DOMAIN stints : SessionStop(i) <= s \/ t <= stints[i].from
  PROVE  LivedFor(t) = LivedFor(s)
<1>1. ASSUME NEW m
      PROVE  m \in Lived(t) <=> m \in Lived(s)
  <2>1. ASSUME m \in Nat, NEW i \in DOMAIN stints, stints[i].from <= m, m < SessionStop(i)
        PROVE  m < t <=> m < s
    <3>1. stints[i].from \in Nat /\ SessionStop(i) \in Nat
      BY StopsAre
    <3>2. SessionStop(i) <= s \/ t <= stints[i].from
      OBVIOUS
    <3> QED
      BY <2>1, <3>1, <3>2
  <2> QED
    BY <2>1, LivedIs
<1>2. Lived(t) = Lived(s)
  BY <1>1
<1> QED
  BY <1>2 DEF LivedFor

\* Within one every minute is.
LEMMA LivedRuns ==
  ASSUME StoryRows, NEW i \in DOMAIN stints, NEW s \in Nat, NEW t \in Nat,
         stints[i].from <= s, s <= t, t <= SessionStop(i)
  PROVE  LivedFor(t) = LivedFor(s) + (t - s)
<1>1. stints[i].from \in Nat /\ SessionStop(i) \in Nat
  BY StopsAre
<1>2. ASSUME NEW m
      PROVE  m \in Lived(t) <=> m \in Lived(s) \/ m \in s .. t - 1
  <2>1. m \in s .. t - 1 <=> m \in Nat /\ s <= m /\ m < t
    OBVIOUS
  <2>2. ASSUME m \in s .. t - 1
        PROVE  m \in Lived(t)
    <3>1. m \in Nat /\ s <= m /\ m < t
      BY <2>1, <2>2
    <3>2. stints[i].from <= m /\ m < SessionStop(i)
      BY <1>1, <3>1
    <3> QED
      BY <3>1, <3>2, LivedIs
  <2>3. ASSUME m \in Nat, ~(s <= m)
        PROVE  m < s /\ m < t
    BY <2>3
  <2>4. ASSUME m \in Nat, m < s
        PROVE  m < t
    BY <2>4
  <2> QED
    BY <2>1, <2>2, <2>3, <2>4, LivedIs
<1>3. Lived(t) = Lived(s) \cup (s .. t - 1)
  BY <1>2
<1>4. Lived(s) \cap (s .. t - 1) = {}
  <2> SUFFICES ASSUME NEW m \in Lived(s), m \in s .. t - 1 PROVE FALSE
    OBVIOUS
  <2>1. m \in Nat /\ m < s
    BY LivedIs
  <2> QED
    BY <2>1
<1>5. IsFiniteSet(s .. t - 1) /\ Cardinality(s .. t - 1) = t - s
  <2> DEFINE top == t - 1
  <2>1. s \in Int /\ top \in Int
    OBVIOUS
  <2>2. s > top => t - s = 0
    OBVIOUS
  <2>3. top - s + 1 = t - s
    OBVIOUS
  <2> HIDE DEF top
  <2>4. IsFiniteSet(s .. top) /\ Cardinality(s .. top) = IF s > top THEN 0 ELSE top - s + 1
    BY <2>1, FS_Interval
  <2>5. IsFiniteSet(s .. top) /\ Cardinality(s .. top) = t - s
    BY <2>2, <2>3, <2>4
  <2> QED
    BY <2>5 DEF top
<1>6. IsFiniteSet(Lived(s)) /\ Cardinality(Lived(s)) \in Nat
  BY LivedIs DEF LivedFor
<1>7. Cardinality(Lived(s) \cap (s .. t - 1)) = 0
  BY <1>4, FS_EmptySet
<1> DEFINE A == Lived(s)
           B == s .. t - 1
<1>8. Cardinality(A \cup B) = Cardinality(A) + Cardinality(B) - Cardinality(A \cap B)
  <2> HIDE DEF A, B
  <2>1. IsFiniteSet(A) /\ IsFiniteSet(B)
    BY <1>5, <1>6 DEF A, B
  <2> QED
    BY <2>1, FS_Union
<1>9. Cardinality(Lived(t)) = Cardinality(Lived(s)) + (t - s) - 0
  BY <1>3, <1>5, <1>7, <1>8
<1> QED
  BY <1>6, <1>9 DEF LivedFor

\* The time of the sessions before one is what was played when it began.
LEMMA BeforeIs ==
  ASSUME StoryRows, NEW i \in DOMAIN stints
  PROVE  MapThenSumSet(SessionPlay, 1 .. i - 1) = LivedFor(stints[i].from)
<1> DEFINE S == 1 .. i - 1
           lo == stints[i].from
<1>1. DOMAIN stints = 1 .. Len(stints) /\ Len(stints) \in Nat /\ i \in Nat
  BY StoryTables DEF StoryRows
<1>2. S \in SUBSET DOMAIN stints /\ \A j \in DOMAIN stints : j \in S <=> j < i
  BY <1>1
<1>3. lo \in Nat /\ minute \in Nat
  BY StoryTimes DEF StoryRows
<1>4. ASSUME NEW m
      PROVE  m \in Whole(SpansTo(minute), S) <=> m \in Lived(lo)
  <2>1. m \in Whole(SpansTo(minute), S)
          <=> \E j \in S : m \in stints[j].from .. SessionStop(j) - 1 /\ m < minute
    <3>1. \A j \in S : SpansTo(minute)[j] = {k \in stints[j].from .. SessionStop(j) - 1 : k < minute}
      BY <1>2 DEF SpansTo
    <3>2. m \in Whole(SpansTo(minute), S) <=> \E j \in S : m \in SpansTo(minute)[j]
      BY DEF Whole
    <3> HIDE DEF S
    <3> QED
      BY <3>1, <3>2
  <2>2. ASSUME NEW j \in S, m \in stints[j].from .. SessionStop(j) - 1
        PROVE  m \in Nat /\ m < lo /\ stints[j].from <= m /\ m < SessionStop(j) /\ j \in DOMAIN stints
    <3>1. j \in DOMAIN stints /\ j < i
      BY <1>2
    <3>2. stints[j].from \in Nat /\ SessionStop(j) \in Nat /\ SessionStop(j) <= lo
      BY <3>1, StopsAre
    <3> QED
      BY <1>3, <2>2, <3>1, <3>2
  <2>3. ASSUME m \in Nat, m < lo, NEW j \in DOMAIN stints, stints[j].from <= m, m < SessionStop(j)
        PROVE  j \in S /\ m \in stints[j].from .. SessionStop(j) - 1 /\ m < minute
    <3>1. stints[j].from \in Nat /\ SessionStop(j) \in Nat /\ SessionStop(j) <= minute
      BY StopsAre
    <3>2. ~(j = i)
      BY <1>3, <2>3, <3>1
    <3>3. ASSUME i < j PROVE FALSE
      <4>1. SessionStop(i) <= stints[j].from /\ lo <= SessionStop(i) /\ SessionStop(i) \in Nat
        BY <3>3, StopsAre
      <4> QED
        BY <1>3, <2>3, <3>1, <4>1
    <3>4. j < i
      BY <1>1, <3>2, <3>3
    <3>5. m < minute
      BY <1>3, <2>3, <3>1
    <3>6. j \in S
      BY <1>2, <3>4
    <3> QED
      BY <2>3, <3>1, <3>5, <3>6
  <2> HIDE DEF S, lo
  <2> QED
    BY <1>3, <2>1, <2>2, <2>3, LivedIs
<1> HIDE DEF S, lo
<1>5. Whole(SpansTo(minute), S) = Lived(lo)
  BY <1>4
<1> QED
  BY <1>2, <1>5, SessionsAreLived DEF LivedFor, S, lo

\* The hero's time is all of it, at every instant that no session outlasts.
LEMMA HeroIs ==
  ASSUME StoryRows
  PROVE  /\ HeroTime = LivedFor(minute)
         /\ \A t \in Nat : (\A i \in DOMAIN stints : SessionStop(i) <= t) => LivedFor(t) = HeroTime
<1> DEFINE n == Len(stints)
<1>1. n \in Nat /\ DOMAIN stints = 1 .. n /\ n \in DOMAIN stints
  BY StoryTables DEF StoryRows, StintsInOrder
<1>2. minute \in Nat
  BY StoryAssumption DEF StoryRows, StoryTypeOK, Minutes
<1>3. \A i \in DOMAIN stints : i < n => stints[i].to # Blank
  BY DEF StoryRows, StintsInOrder
<1>4. ASSUME ~LoggedIn
      PROVE  HeroTime = LivedFor(minute)
  <2>1. {i \in DOMAIN stints : stints[i].to # Blank} = DOMAIN stints
    BY <1>1, <1>3, <1>4 DEF LoggedIn
  <2>2. StoredPlaytime = LivedFor(minute)
    BY <2>1, SessionsAreLived DEF StoredPlaytime, LivedFor, Lived
  <2>3. LivedFor(minute) \in Nat
    BY <1>2, LivedIs
  <2>4. LiveTimeAlive = StoredPlaytime + 0
    BY <1>4 DEF LiveTimeAlive
  <2>5. LiveTimeAlive = StoredPlaytime
    BY <2>2, <2>3, <2>4
  <2> QED
    BY <2>2, <2>5 DEF HeroTime
<1>5. ASSUME LoggedIn
      PROVE  HeroTime = LivedFor(minute)
  <2>1. {i \in DOMAIN stints : stints[i].to # Blank} = 1 .. n - 1
    BY <1>1, <1>3, <1>5 DEF LoggedIn
  <2>2. StoredPlaytime = LivedFor(stints[n].from)
    BY <1>1, <2>1, BeforeIs DEF StoredPlaytime
  <2>3. /\ stints[n].from \in Nat /\ SessionStop(n) \in Nat /\ stints[n].from <= SessionStop(n)
        /\ SessionPlay(n) = SessionStop(n) - stints[n].from /\ SessionStop(n) <= minute
    BY <1>1, StopsAre
  <2>4. LivedFor(SessionStop(n)) = LivedFor(stints[n].from) + (SessionStop(n) - stints[n].from)
    BY <1>1, <2>3, LivedRuns
  <2>5. \A i \in DOMAIN stints : SessionStop(i) <= SessionStop(n)
    <3> SUFFICES ASSUME NEW i \in DOMAIN stints PROVE SessionStop(i) <= SessionStop(n)
      OBVIOUS
    <3>1. CASE i = n
      BY <2>3, <3>1
    <3>2. CASE i < n
      <4>1. SessionStop(i) <= stints[n].from /\ SessionStop(i) \in Nat
        BY <1>1, <3>2, StopsAre
      <4> QED
        BY <2>3, <4>1
    <3> QED
      BY <1>1, <3>1, <3>2
  <2>6. LivedFor(minute) = LivedFor(SessionStop(n))
    BY <1>2, <2>3, <2>5, LivedRests
  <2>7. end = Blank
    BY <1>5, StoryAssumption DEF LoggedIn, StoryRows, EndsAreEnds, StoryTypeOK, Minutes
  <2>8. HeroTime = StoredPlaytime + SessionPlay(n)
    BY <1>5, <2>7 DEF HeroTime, LiveTimeAlive
  <2>9. LivedFor(stints[n].from) \in Nat
    BY <2>3, LivedIs
  <2> QED
    BY <2>2, <2>3, <2>4, <2>6, <2>8, <2>9
<1>6. HeroTime = LivedFor(minute)
  BY <1>4, <1>5
<1>7. ASSUME NEW t \in Nat, \A i \in DOMAIN stints : SessionStop(i) <= t
      PROVE  LivedFor(t) = LivedFor(minute)
  <2>1. CASE t <= minute
    BY <1>2, <1>7, <2>1, LivedRests
  <2>2. CASE minute <= t
    <3>1. \A i \in DOMAIN stints : SessionStop(i) <= minute
      BY StopsAre
    <3> QED
      BY <1>2, <2>2, <3>1, LivedRests
  <2> QED
    BY <1>2, <2>1, <2>2
<1> QED
  BY <1>6, <1>7

\* The instants of GraceOverAt: the session in which the grace period is over, and when.
LEMMA GraceIs ==
  ASSUME StoryRows
  PROVE  /\ \A t : t \in GraceOverAt <=>
              \E j \in DOMAIN stints :
                /\ LivedFor(stints[j].from) < Grace /\ Grace <= LivedFor(SessionStop(j))
                /\ t = stints[j].from + Grace - LivedFor(stints[j].from)
         /\ \A t \in GraceOverAt : t \in Minutes /\ LivedFor(t) = Grace
<1> DEFINE B(i) == MapThenSumSet(SessionPlay, 1 .. i - 1)
           L(i) == LivedFor(stints[i].from)
<1>0. Grace \in Nat \ {0} /\ minute \in Minutes /\ minute \in Nat /\ Minutes = 0 .. MaxMinute /\ MaxMinute \in Nat
  BY StoryAssumption DEF StoryRows, StoryTypeOK, Minutes
<1>1. ASSUME NEW j \in DOMAIN stints
      PROVE  /\ B(j) = L(j) /\ L(j) \in Nat
             /\ B(j) + SessionPlay(j) = LivedFor(SessionStop(j))
             /\ LivedFor(SessionStop(j)) = L(j) + (SessionStop(j) - stints[j].from)
  <2>1. /\ stints[j].from \in Nat /\ SessionStop(j) \in Nat /\ stints[j].from <= SessionStop(j)
        /\ SessionPlay(j) = SessionStop(j) - stints[j].from
    BY StopsAre
  <2>2. B(j) = L(j)
    BY BeforeIs
  <2>3. L(j) \in Nat
    BY <2>1, LivedIs
  <2>4. LivedFor(SessionStop(j)) = L(j) + (SessionStop(j) - stints[j].from)
    BY <2>1, LivedRuns
  <2> HIDE DEF B, L
  <2> QED
    BY <2>1, <2>2, <2>3, <2>4
<1>2. GraceOverAt = {stints[i].from + Grace - B(i) :
         i \in {j \in DOMAIN stints : B(j) < Grace /\ Grace <= B(j) + SessionPlay(j)}}
  BY DEF GraceOverAt
<1> HIDE DEF B
<1>3. ASSUME NEW t
      PROVE  t \in GraceOverAt <=> \E j \in DOMAIN stints :
                /\ L(j) < Grace /\ Grace <= LivedFor(SessionStop(j))
                /\ t = stints[j].from + Grace - L(j)
  <2>1. t \in GraceOverAt <=> \E j \in DOMAIN stints :
                /\ B(j) < Grace /\ Grace <= B(j) + SessionPlay(j)
                /\ t = stints[j].from + Grace - B(j)
    BY <1>2
  <2> HIDE DEF L
  <2> QED
    BY <1>1, <2>1
<1>4. ASSUME NEW t \in GraceOverAt
      PROVE  t \in Minutes /\ LivedFor(t) = Grace
  <2>1. PICK j \in DOMAIN stints : /\ L(j) < Grace /\ Grace <= LivedFor(SessionStop(j))
                                   /\ t = stints[j].from + Grace - L(j)
    BY <1>3
  <2>a. stints[j].from \in Nat /\ SessionStop(j) \in Nat /\ SessionStop(j) <= minute
    BY StopsAre
  <2> HIDE DEF L
  <2>b. L(j) \in Nat /\ LivedFor(SessionStop(j)) = L(j) + (SessionStop(j) - stints[j].from)
    BY <1>1
  <2>2. /\ stints[j].from \in Nat /\ SessionStop(j) \in Nat /\ SessionStop(j) <= minute
        /\ L(j) \in Nat /\ LivedFor(SessionStop(j)) = L(j) + (SessionStop(j) - stints[j].from)
    BY <2>a, <2>b
  <2>3. t \in Nat /\ stints[j].from <= t /\ t <= SessionStop(j) /\ t - stints[j].from = Grace - L(j)
    BY <1>0, <2>1, <2>2
  <2>4. LivedFor(t) = L(j) + (t - stints[j].from)
    BY <2>2, <2>3, LivedRuns DEF L
  <2>5. LivedFor(t) = Grace
    BY <1>0, <2>2, <2>3, <2>4
  <2>6. t <= minute
    BY <1>0, <2>2, <2>3
  <2>7. t \in Minutes
    BY <1>0, <2>3, <2>6
  <2> QED
    BY <2>5, <2>7
<1> QED
  BY <1>3, <1>4 DEF L

\* It is over if the hero has played that long.
LEMMA GraceReached ==
  ASSUME StoryRows
  PROVE  GraceOverAt # {} <=> HeroTime >= Grace
<1> DEFINE n == Len(stints)
           D == {j \in DOMAIN stints : Grace <= LivedFor(SessionStop(j))}
<1>0. Grace \in Nat \ {0} /\ minute \in Nat
  BY StoryAssumption DEF StoryRows, StoryTypeOK, Minutes
<1>1. n \in Nat /\ DOMAIN stints = 1 .. n /\ n \in DOMAIN stints
  BY StoryTables DEF StoryRows, StintsInOrder
<1>2. \A j \in DOMAIN stints : /\ SessionStop(j) \in Nat /\ SessionStop(j) <= minute
                               /\ stints[j].from \in Nat /\ LivedFor(SessionStop(j)) \in Nat
                               /\ LivedFor(stints[j].from) \in Nat
  BY StopsAre, LivedIs
<1>3. HeroTime \in Nat /\ HeroTime = LivedFor(minute)
  BY <1>0, HeroIs, LivedIs
<1>4. ASSUME GraceOverAt # {}
      PROVE  HeroTime >= Grace
  <2>1. PICK j \in DOMAIN stints : Grace <= LivedFor(SessionStop(j))
    BY <1>4, GraceIs
  <2>2. LivedFor(SessionStop(j)) <= LivedFor(minute)
    BY <1>0, <1>2, LivedGrows
  <2> QED
    BY <1>0, <1>2, <1>3, <2>1, <2>2
<1>5. ASSUME HeroTime >= Grace
      PROVE  GraceOverAt # {}
  <2>1. n \in D
    <3>1. \A i \in DOMAIN stints : SessionStop(i) <= SessionStop(n)
      <4> SUFFICES ASSUME NEW i \in DOMAIN stints PROVE SessionStop(i) <= SessionStop(n)
        OBVIOUS
      <4>1. CASE i = n
        BY <1>2, <4>1
      <4>2. CASE i < n
        <5>1. SessionStop(i) <= stints[n].from /\ stints[n].from <= SessionStop(n)
          BY <1>1, <4>2, StopsAre
        <5> QED
          BY <1>1, <1>2, <5>1
      <4> QED
        BY <1>1, <4>1, <4>2
    <3>2. LivedFor(SessionStop(n)) = HeroTime
      BY <1>1, <1>2, <3>1, HeroIs
    <3> QED
      BY <1>0, <1>1, <1>3, <1>5, <3>2
  <2>2. D \in SUBSET Nat /\ D # {}
    BY <1>1, <2>1
  <2>3. PICK j \in D : \A k \in D : j <= k
    <3> HIDE DEF D
    <3> QED
      BY <2>2, LeastNat
  <2>4. LivedFor(stints[j].from) < Grace
    <3>1. CASE j = 1
      <4>1. stints[j].from = 0
        BY <3>1 DEF StoryRows, StintsInOrder
      <4>2. LivedFor(0) <= 0 /\ LivedFor(0) \in Nat
        BY LivedIs
      <4> QED
        BY <1>0, <4>1, <4>2
    <3>2. CASE j # 1
      <4> DEFINE k == j - 1
      <4>1. k \in DOMAIN stints /\ k < j /\ j \in DOMAIN stints
        BY <1>1, <2>3, <3>2
      <4>2. k \notin D
        BY <1>1, <2>3, <4>1
      <4>3. SessionStop(k) <= stints[j].from
        BY <4>1, StopsAre
      <4>4. ASSUME NEW i \in DOMAIN stints
            PROVE  SessionStop(i) <= SessionStop(k) \/ stints[j].from <= stints[i].from
        <5>1. CASE i = k
          BY <1>2, <5>1
        <5>2. CASE i < k
          <6>1. SessionStop(i) <= stints[k].from /\ stints[k].from <= SessionStop(k)
            BY <4>1, <5>2, StopsAre
          <6> QED
            BY <1>2, <4>1, <6>1
        <5>3. CASE i = j
          BY <1>2, <5>3
        <5>4. CASE j < i
          <6>1. SessionStop(j) <= stints[i].from /\ stints[j].from <= SessionStop(j)
            BY <4>1, <5>4, StopsAre
          <6> QED
            BY <1>2, <4>1, <6>1
        <5> QED
          BY <1>1, <4>1, <5>1, <5>2, <5>3, <5>4
      <4> HIDE DEF k
      <4>5. LivedFor(stints[j].from) = LivedFor(SessionStop(k))
        BY <1>2, <4>1, <4>3, <4>4, LivedRests
      <4> QED
        BY <1>0, <1>2, <4>1, <4>2, <4>5
    <3> QED
      BY <3>1, <3>2
  <2> QED
    BY <2>3, <2>4, GraceIs
<1> QED
  BY <1>4, <1>5

-----------------------------------------------------------------------------
\* The rows of the timeline: each shows what was played by its instant.

\* The instants at which the life came to count.
QualifyingInstants ==
  (IF end # Blank /\ end.line.mechanism = "pvp" THEN {end.at} ELSE {}) \cup KillsOfLife \cup GraceOverAt

LEMMA QualifiedIs ==
  ASSUME StoryRows
  PROVE  /\ QualifyingInstants \subseteq Minutes /\ Minutes \subseteq Nat
         /\ QualifiedAt = {} <=> QualifyingInstants = {}
         /\ \A t \in QualifiedAt : t \in QualifyingInstants
<1>0. Minutes \subseteq Nat
  BY StoryAssumption DEF Minutes
<1>1. QualifyingInstants \subseteq Minutes
  <2>1. GraceOverAt \subseteq Minutes
    BY GraceIs
  <2>2. KillsOfLife \subseteq Minutes
    BY DEF KillsOfLife, StoryRows, StoryTypeOK
  <2>3. end # Blank => end.at \in Minutes
    BY DEF StoryRows, StoryTypeOK
  <2> QED
    BY <2>1, <2>2, <2>3 DEF QualifyingInstants
<1>2. QualifiedAt = IF QualifyingInstants = {} THEN {} ELSE {Min(QualifyingInstants)}
  BY DEF QualifiedAt, QualifyingInstants
<1>3. QualifyingInstants # {} => Min(QualifyingInstants) \in QualifyingInstants
  BY <1>0, <1>1, MinIsLeast
<1> QED
  BY <1>0, <1>1, <1>2, <1>3

LEMMA EncountersOfLife ==
  ASSUME StoryRows, NEW e \in EncountersForLife
  PROVE  e.from \in Minutes
<1>1. PICK r \in AllRuns : e = EncounterOf(r)
  BY DEF EncountersForLife
<1>2. r \in SUBSET DOMAIN wounds /\ r # {}
  BY KeysRuns DEF AllRuns, InLife, StoryRows
<1>3. Min(r) \in DOMAIN wounds
  BY <1>2, WoundsBounded DEF StoryRows
<1>4. wounds[Min(r)].at \in Minutes
  BY <1>3, StoryTables DEF StoryRows, WoundRow
<1> QED
  BY <1>1, <1>4 DEF EncounterOf

LEMMA LoginsOfLife ==
  ASSUME StoryRows, NEW g \in LoginRows
  PROVE  g.first \in DOMAIN stints /\ stints[g.first].from \in Minutes
<1> DEFINE starts == {k \in 2 .. Len(stints) : k = 2 \/ HasKill(k) \/ HasKill(k - 1)}
           Upto(k) == Min({j \in starts : j > k} \cup {Len(stints) + 1}) - 1
<1>a. LoginRows = {[first |-> k, last |-> Upto(k)] : k \in starts}
  BY DEF LoginRows
<1> HIDE DEF Upto
<1>1. \E k \in 2 .. Len(stints) : g.first = k
  BY <1>a
<1>2. g.first \in DOMAIN stints
  BY <1>1, StoryTables DEF StoryRows
<1> QED
  BY <1>2, StoryTables DEF StoryRows, StintRow

\* The last row is of the end of the life, or of now.
LastAt == IF end # Blank THEN end.at ELSE IF closed # Blank THEN closed ELSE minute

LEMMA LastRow ==
  ASSUME StoryRows
  PROVE  /\ LastAt \in Minutes /\ HeroTime = LivedFor(LastAt)
         /\ LastAt = IF LifeEnd # Blank THEN LifeEnd ELSE minute
<1>1. LastAt \in Minutes
  BY DEF LastAt, StoryRows, StoryTypeOK
<1>2. \A i \in DOMAIN stints : SessionStop(i) <= LastAt
  BY StopsAre DEF LastAt
<1>3. LastAt \in Nat
  BY <1>1, StoryAssumption DEF Minutes
<1>4. end # Blank => end.at # Blank
  BY StoryAssumption DEF StoryRows, StoryTypeOK, Minutes
<1> QED
  BY <1>1, <1>2, <1>3, <1>4, HeroIs DEF LastAt, LifeEnd

LEMMA RowsLabelled ==
  ASSUME StoryRows, NEW r \in BuildTimeline
  PROVE  /\ r \in TimelineEvent /\ r.at \in Nat /\ r.label = LivedFor(r.at)
         /\ r.kind = "qualified" => r.at \in QualifiedAt
         /\ r.kind = "death" => end # Blank
<1> DEFINE Row(kind, at) == [kind |-> kind, at |-> at, label |-> PlayedSecondsAt(at)]
           Ends(kind, at) == [kind |-> kind, at |-> at, label |-> HeroTime]
           last == IF end # Blank THEN Ends("death", end.at)
                   ELSE IF closed # Blank THEN Ends("retired", closed) ELSE Ends("now", minute)
<1>1. \/ r = [kind |-> "birth", at |-> 0, label |-> 0]
      \/ \E t \in QualifiedAt : r = Row("qualified", t)
      \/ \E g \in LoginRows : r = Row("session", stints[g.first].from)
      \/ \E t \in KillsOfLife : r = Row("kill", t)
      \/ \E e \in EncountersForLife : r = Row("encounter", e.from)
      \/ r = last
  BY DEF BuildTimeline, LifeTimeline
<1>2. Minutes = 0 .. MaxMinute /\ MaxMinute \in Nat
  BY StoryAssumption DEF Minutes
<1>3. ASSUME NEW t \in Minutes
      PROVE  t \in Nat /\ PlayedSecondsAt(t) = LivedFor(t) /\ LivedFor(t) \in Minutes
  <2>1. t \in Nat /\ t <= MaxMinute
    BY <1>2
  <2>2. LivedFor(t) \in Nat /\ LivedFor(t) <= t
    BY <2>1, LivedIs
  <2>3. LivedFor(t) \in Minutes
    BY <1>2, <2>1, <2>2
  <2> QED
    BY <2>1, <2>3, PlayedIsLived
<1>4. ASSUME NEW kind \in TimelineKinds, NEW t \in Minutes, r = Row(kind, t)
      PROVE  /\ r \in TimelineEvent /\ r.at \in Nat /\ r.label = LivedFor(r.at)
             /\ r.at = t /\ r.kind = kind
  BY <1>3, <1>4 DEF TimelineEvent
<1>5. CASE r = [kind |-> "birth", at |-> 0, label |-> 0]
  <2>1. 0 \in Minutes /\ LivedFor(0) = 0
    <3>1. LivedFor(0) \in Nat /\ LivedFor(0) <= 0
      BY LivedIs
    <3> QED
      BY <1>2, <3>1
  <2> QED
    BY <1>5, <2>1 DEF TimelineEvent, TimelineKinds
<1>6. CASE \E t \in QualifiedAt : r = Row("qualified", t)
  <2>1. PICK t \in QualifiedAt : r = Row("qualified", t)
    BY <1>6
  <2>2. t \in Minutes
    BY QualifiedIs
  <2> HIDE DEF Row
  <2> QED
    BY <1>4, <2>1, <2>2 DEF TimelineKinds
<1>7. CASE \E g \in LoginRows : r = Row("session", stints[g.first].from)
  <2>1. PICK g \in LoginRows : r = Row("session", stints[g.first].from)
    BY <1>7
  <2> HIDE DEF Row
  <2> QED
    BY <1>4, <2>1, LoginsOfLife DEF TimelineKinds
<1>8. CASE \E t \in KillsOfLife : r = Row("kill", t)
  <2>1. PICK t \in KillsOfLife : r = Row("kill", t)
    BY <1>8
  <2>2. t \in Minutes
    BY DEF KillsOfLife, StoryRows, StoryTypeOK
  <2> HIDE DEF Row
  <2> QED
    BY <1>4, <2>1, <2>2 DEF TimelineKinds
<1>9. CASE \E e \in EncountersForLife : r = Row("encounter", e.from)
  <2>1. PICK e \in EncountersForLife : r = Row("encounter", e.from)
    BY <1>9
  <2> HIDE DEF Row
  <2> QED
    BY <1>4, <2>1, EncountersOfLife DEF TimelineKinds
<1>10. CASE r = last
  <2>1. LastAt \in Minutes /\ HeroTime = LivedFor(LastAt)
    BY LastRow
  <2>2. HeroTime \in Minutes /\ LastAt \in Nat
    BY <1>3, <2>1
  <2>3. r.at = LastAt /\ r.label = HeroTime /\ r.kind \in {"death", "retired", "now"}
        /\ (r.kind = "death" => end # Blank) /\ r = [kind |-> r.kind, at |-> LastAt, label |-> HeroTime]
    BY <1>10 DEF LastAt
  <2> HIDE DEF last
  <2>4. r \in TimelineEvent
    BY <2>1, <2>2, <2>3 DEF TimelineEvent, TimelineKinds
  <2> QED
    BY <2>1, <2>2, <2>3, <2>4
<1> HIDE DEF Row, last
<1> QED
  BY <1>1, <1>5, <1>6, <1>7, <1>8, <1>9, <1>10

\* Each login after the first is told in one row.
LEMMA LoginsPartition ==
  ASSUME StoryRows, NEW i \in 2 .. Len(stints)
  PROVE  Cardinality({g \in LoginRows : g.first <= i /\ i <= g.last}) = 1
<1> DEFINE n == Len(stints)
           starts == {k \in 2 .. n : k = 2 \/ HasKill(k) \/ HasKill(k - 1)}
           Upto(k) == Min({j \in starts : j > k} \cup {n + 1}) - 1
           O == {k \in starts : k <= i}
           s == Max(O)
           G == {g \in LoginRows : g.first <= i /\ i <= g.last}
<1>0. n \in Nat /\ i \in Nat /\ 2 <= i /\ i <= n
  BY StoryTables DEF StoryRows
<1>1. LoginRows = {[first |-> k, last |-> Upto(k)] : k \in starts}
  BY DEF LoginRows
<1>2. starts \subseteq 2 .. n /\ starts \subseteq Nat /\ 2 \in starts
  BY <1>0
<1> HIDE DEF starts, n
<1>3. ASSUME NEW k \in starts
      PROVE  LET next == Min({j \in starts : j > k} \cup {n + 1})
             IN  /\ next = n + 1 \/ (next \in starts /\ next > k)
                 /\ \A j \in starts : j > k => next <= j
                 /\ next \in Nat
  <2> DEFINE S == {j \in starts : j > k} \cup {n + 1}
  <2>1. S \in SUBSET Nat /\ S # {}
    <3>1. n + 1 \in Nat
      BY <1>0
    <3> QED
      BY <1>2, <3>1
  <2>2. \A j \in starts : j > k => j \in S
    OBVIOUS
  <2>3. \A j \in S : j = n + 1 \/ (j \in starts /\ j > k)
    OBVIOUS
  <2> HIDE DEF S
  <2>4. Min(S) \in S /\ \A j \in S : Min(S) <= j
    BY <2>1, MinIsLeast
  <2>5. Min(S) \in Nat /\ (Min(S) = n + 1 \/ (Min(S) \in starts /\ Min(S) > k))
        /\ \A j \in starts : j > k => Min(S) <= j
    BY <1>0, <2>1, <2>2, <2>3, <2>4
  <2> QED
    BY <2>5 DEF S
<1>4. s \in O /\ \A k \in O : k <= s
  <2>1. O \in SUBSET (0 .. n)
    <3>1. 2 .. n \subseteq 0 .. n
      BY <1>0
    <3> QED
      BY <1>2, <3>1
  <2>2. 2 \in O
    BY <1>0, <1>2
  <2> HIDE DEF O
  <2> QED
    BY <1>0, <2>1, <2>2, MaxIsGreatest
<1>5. ASSUME NEW k \in starts
      PROVE  k <= i /\ i <= Upto(k) <=> k = s
  <2> DEFINE next == Min({j \in starts : j > k} \cup {n + 1})
  <2>1. next \in Nat /\ (next = n + 1 \/ (next \in starts /\ next > k))
        /\ \A j \in starts : j > k => next <= j
    BY <1>3
  <2>2. k \in Nat /\ s \in Nat /\ s \in starts /\ s <= i
    BY <1>2, <1>4
  <2>3. Upto(k) = next - 1
    OBVIOUS
  <2>a. \A j \in starts : j <= i => j <= s
    BY <1>4
  <2> HIDE DEF next, s, O, Upto
  <2>4. ASSUME k <= i, i <= Upto(k)
        PROVE  k = s
    <3>1. k <= s
      BY <2>4, <2>a
    <3>2. ASSUME k < s
          PROVE  FALSE
      <4>1. next <= s
        BY <2>1, <2>2, <3>2
      <4>2. i <= next - 1
        BY <2>3, <2>4
      <4> QED
        BY <1>0, <2>1, <2>2, <4>1, <4>2
    <3> QED
      BY <2>2, <3>1, <3>2
  <2>5. ASSUME k = s
        PROVE  i <= Upto(k)
    <3>1. next > i
      <4>1. CASE next = n + 1
        BY <1>0, <4>1
      <4>2. CASE next \in starts /\ next > k
        <5>1. ~(next <= i)
          <6> SUFFICES ASSUME next <= i PROVE FALSE
            OBVIOUS
          <6>1. next <= s
            BY <2>a, <4>2
          <6> QED
            BY <2>1, <2>2, <2>5, <4>2, <6>1
        <5> QED
          BY <1>0, <2>1, <5>1
      <4> QED
        BY <2>1, <4>1, <4>2
    <3> QED
      BY <1>0, <2>1, <2>3, <3>1
  <2> QED
    BY <2>2, <2>4, <2>5
<1>6. G = {[first |-> s, last |-> Upto(s)]}
  <2>1. \A k \in starts : [first |-> k, last |-> Upto(k)].first = k
                          /\ [first |-> k, last |-> Upto(k)].last = Upto(k)
    OBVIOUS
  <2>2. s \in starts
    BY <1>4
  <2> HIDE DEF s, O, Upto
  <2> QED
    BY <1>1, <1>5, <2>1, <2>2
<1> HIDE DEF G, s, Upto
<1>7. Cardinality(G) = 1
  BY <1>6, FS_Singleton
<1> QED
  BY <1>7 DEF G

\* A row of several logins has no kill between its first and its last, sessions included.
LEMMA QuietRows ==
  ASSUME StoryRows, NEW g \in LoginRows, NEW t \in KillsOfLife, g.first < g.last,
         stints[g.first].from <= t, t <= SessionStop(g.last),
         NEW i \in DOMAIN stints, stints[i].from <= t, t <= SessionStop(i)
  PROVE  FALSE
<1> DEFINE n == Len(stints)
           starts == {k \in 2 .. n : k = 2 \/ HasKill(k) \/ HasKill(k - 1)}
           Upto(k) == Min({j \in starts : j > k} \cup {n + 1}) - 1
<1>0. /\ n \in Nat /\ DOMAIN stints = 1 .. n /\ t \in Nat
  BY StoryTables, StoryAssumption DEF StoryRows, KillsOfLife, StoryTypeOK, Minutes
<1>1. LoginRows = {[first |-> k, last |-> Upto(k)] : k \in starts}
  BY DEF LoginRows
<1>2. starts \subseteq 2 .. n
  OBVIOUS
<1>3. \A k \in 2 .. n : HasKill(k) \/ HasKill(k - 1) => k \in starts
  OBVIOUS
<1> HIDE DEF starts
<1>4. PICK f \in starts : g = [first |-> f, last |-> Upto(f)]
  BY <1>1
<1> DEFINE last == Upto(f)
<1>5. /\ g.first = f /\ g.last = last /\ f \in Nat /\ f \in 2 .. n
  BY <1>0, <1>2, <1>4
<1>6. /\ last \in Int /\ last <= n /\ \A k \in 2 .. n : f < k /\ k <= last => k \notin starts
  <2> DEFINE S == {j \in starts : j > f} \cup {n + 1}
  <2>1. S \in SUBSET Nat /\ n + 1 \in S
    BY <1>0, <1>2
  <2>2. \A k \in starts : f < k => k \in S
    BY <1>0, <1>2, <1>5
  <2>3. last = Min(S) - 1
    OBVIOUS
  <2> HIDE DEF S, last
  <2>4. Min(S) \in Nat /\ \A j \in S : Min(S) <= j
    BY <2>1, MinIsLeast
  <2>5. last <= n
    BY <1>0, <2>1, <2>3, <2>4
  <2>6. \A k \in 2 .. n : f < k /\ k <= last => k \notin starts
    <3> SUFFICES ASSUME NEW k \in 2 .. n, f < k, k <= last, k \in starts PROVE FALSE
      OBVIOUS
    <3>1. Min(S) <= k
      BY <2>2, <2>4
    <3> QED
      BY <1>0, <2>3, <2>4, <3>1
  <2> QED
    BY <2>3, <2>4, <2>5, <2>6
<1> HIDE DEF last, n
<1>7. f < last /\ last \in 2 .. n /\ last \in DOMAIN stints /\ f \in DOMAIN stints
  BY <1>0, <1>5, <1>6
\* No login of the row is of a session with a kill.
<1>8. ASSUME NEW k \in DOMAIN stints, f <= k, k <= last
      PROVE  ~HasKill(k)
  <2>1. CASE k = last
    BY <1>3, <1>6, <1>7, <2>1
  <2>2. CASE k < last
    <3>1. k + 1 \in 2 .. n /\ f < k + 1 /\ k + 1 <= last /\ (k + 1) - 1 = k
      BY <1>0, <1>5, <1>6, <1>7, <1>8, <2>2
    <3> QED
      BY <1>3, <1>6, <3>1
  <2> QED
    BY <1>0, <1>6, <1>8, <2>1, <2>2
<1>9. ASSUME NEW k \in DOMAIN stints, stints[k].from <= t, t <= SessionStop(k)
      PROVE  HasKill(k)
  <2>1. SessionStop(k) \in Nat /\ SessionStop(k) <= minute /\ minute \in Nat
    BY StopsAre, StoryTimes DEF StoryRows
  <2>2. t <= minute
    BY <1>0, <1>9, <2>1
  <2> QED
    BY <1>9, <2>2 DEF HasKill
<1>10. /\ stints[f].from \in Nat /\ SessionStop(f) \in Nat /\ stints[f].from <= SessionStop(f)
       /\ stints[last].from \in Nat /\ SessionStop(last) \in Nat
       /\ stints[last].from <= SessionStop(last)
       /\ stints[i].from \in Nat /\ SessionStop(i) \in Nat
       /\ stints[f].from <= t /\ t <= SessionStop(last)
  BY <1>5, <1>7, StopsAre
<1>11. CASE i < f
  <2>1. SessionStop(i) <= stints[f].from
    BY <1>7, <1>11, StopsAre
  <2>2. stints[f].from <= t /\ t <= SessionStop(f)
    BY <1>0, <1>10, <2>1
  <2>3. f <= f /\ f <= last
    BY <1>0, <1>5, <1>6, <1>7
  <2> QED
    BY <1>7, <1>8, <1>9, <2>2, <2>3
<1>12. CASE last < i
  <2>1. SessionStop(last) <= stints[i].from
    BY <1>7, <1>12, StopsAre
  <2>2. stints[last].from <= t /\ t <= SessionStop(last)
    BY <1>0, <1>10, <2>1
  <2>3. f <= last /\ last <= last
    BY <1>0, <1>5, <1>6, <1>7
  <2> QED
    BY <1>7, <1>8, <1>9, <2>2, <2>3
<1>13. CASE f <= i /\ i <= last
  BY <1>8, <1>9, <1>13
<1> QED
  BY <1>0, <1>5, <1>6, <1>11, <1>12, <1>13

LEMMA TimelineTrue == StoryRows => TimelineAddsUp
<1> SUFFICES ASSUME StoryRows PROVE TimelineAddsUp
  OBVIOUS
<1> DEFINE rows == BuildTimeline
           During(i, t) == stints[i].from <= t /\ t <= SessionStop(i)
<1>0. Grace \in Nat \ {0} /\ minute \in Nat
  BY StoryAssumption DEF StoryRows, StoryTypeOK, Minutes
<1>1. rows \subseteq TimelineEvent
  BY RowsLabelled
<1>2. \A r, q \in rows : r.at < q.at => r.label <= q.label
  <2> SUFFICES ASSUME NEW r \in rows, NEW q \in rows, r.at < q.at PROVE r.label <= q.label
    OBVIOUS
  <2>1. r.at \in Nat /\ q.at \in Nat /\ r.label = LivedFor(r.at) /\ q.label = LivedFor(q.at)
    BY RowsLabelled
  <2> HIDE DEF rows
  <2>2. r.at <= q.at
    BY <2>1
  <2> QED
    BY <2>1, <2>2, LivedGrows
<1>3. \A r \in rows : r.label <= HeroTime
  <2> SUFFICES ASSUME NEW r \in rows PROVE r.label <= HeroTime
    OBVIOUS
  <2>1. r.at \in Nat /\ r.label = LivedFor(r.at)
    BY RowsLabelled
  <2> HIDE DEF rows
  <2>2. HeroTime = LivedFor(minute)
    BY HeroIs
  <2>3. CASE r.at <= minute
    BY <1>0, <2>1, <2>2, <2>3, LivedGrows
  <2>4. CASE minute <= r.at
    <3>1. \A i \in DOMAIN stints : SessionStop(i) <= minute
      BY StopsAre
    <3>2. LivedFor(r.at) = LivedFor(minute)
      BY <1>0, <2>1, <2>4, <3>1, LivedRests
    <3>3. LivedFor(minute) \in Nat
      BY <1>0, LivedIs
    <3> QED
      BY <2>1, <2>2, <3>2, <3>3
  <2> QED
    BY <1>0, <2>1, <2>3, <2>4
<1>4. LifeTimeline.verdict # {} <=> \E r \in rows : r.kind = "death"
  <2>1. LifeTimeline.verdict # {} <=> end # Blank
    BY DEF LifeTimeline
  <2>2. ASSUME end # Blank
        PROVE  \E r \in rows : r.kind = "death"
    <3>1. [kind |-> "death", at |-> end.at, label |-> HeroTime] \in rows
      BY <2>2 DEF BuildTimeline
    <3> QED
      BY <3>1
  <2>3. \A r \in rows : r.kind = "death" => end # Blank
    BY RowsLabelled
  <2> QED
    BY <2>1, <2>2, <2>3
<1>5. HeroTime = PlayedSecondsAt(IF LifeEnd # Blank THEN LifeEnd ELSE minute)
  <2>1. /\ LastAt \in Minutes /\ HeroTime = LivedFor(LastAt)
        /\ LastAt = IF LifeEnd # Blank THEN LifeEnd ELSE minute
    BY LastRow
  <2>2. LastAt \in Nat
    BY <2>1, StoryAssumption DEF Minutes
  <2>3. PlayedSecondsAt(LastAt) = LivedFor(LastAt)
    BY <2>2, PlayedIsLived
  <2> QED
    BY <2>1, <2>3
<1>6. QualifiedAt # {} <=> \/ HeroTime >= Grace \/ KillsOfLife # {}
                           \/ end # Blank /\ end.line.mechanism = "pvp"
  BY QualifiedIs, GraceReached DEF QualifyingInstants
<1>7. \A r \in rows : r.kind = "qualified" /\ r.at \notin KillsOfLife \cup {LifeEnd} => r.label = Grace
  <2> SUFFICES ASSUME NEW r \in rows, r.kind = "qualified", r.at \notin KillsOfLife \cup {LifeEnd}
               PROVE  r.label = Grace
    OBVIOUS
  <2>1. r.at \in QualifyingInstants /\ r.label = LivedFor(r.at)
    BY RowsLabelled, QualifiedIs
  <2>2. r.at \in GraceOverAt
    BY <2>1 DEF QualifyingInstants, LifeEnd
  <2> QED
    BY <2>1, <2>2, GraceIs
<1>8. \A i \in 2 .. Len(stints) :
        Cardinality({g \in LoginRows : g.first <= i /\ i <= g.last}) = 1
  BY LoginsPartition
<1>9. \A g \in LoginRows, t \in KillsOfLife :
        /\ g.first < g.last
        /\ stints[g.first].from <= t /\ t <= SessionStop(g.last)
        => ~\E i \in DOMAIN stints : During(i, t)
  BY QuietRows
<1>10. \A i \in DOMAIN stints : SessionStop(i) = Windows[i].to
  BY StopsAre
<1> HIDE DEF rows, During
<1> QED
  BY <1>1, <1>2, <1>3, <1>4, <1>5, <1>6, <1>7, <1>8, <1>9, <1>10
     DEF TimelineAddsUp, rows, During

\* The life page tells the life, each thing once, where and when it was: every wound in one
\* encounter or by the row of the death, a trail that was walked, and a timeline on one clock,
\* for every length of the windows and every history of lines (packages/read-models,
\* life-dossier.ts, life-encounters.ts, life-track.ts, life-timeline.ts).
THEOREM LifeTold == LivesSpec => []LifeToldWhole
<1>1. StoryInv => LifeToldWhole
  BY WoundsTold, TrailTrue, TimelineTrue DEF StoryInv, LifeToldWhole, StoryIsWhole
<1> QED
  BY <1>1, StoryInductive, PTL
==============================================================================
