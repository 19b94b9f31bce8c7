---------------------------- MODULE ModerationDesk --------------------------
(***************************************************************************)
(* Two lists one decides about row by row: a moderator's queue of reported *)
(* images (apps/web: moderation-body.tsx; apps/api: routes/moderation.ts)  *)
(* and a player's blocked players (blocked-users.tsx; routes/blocks.ts).   *)
(* A row's action is a call and then a fetch of the whole list; nothing    *)
(* keeps the fetches of two rows in order.                                 *)
(***************************************************************************)
EXTENDS Naturals, FiniteSets

CONSTANTS
  Items,        \* hashes of images, or gamertags that may be blocked
  Opening,      \* the fetch on mount, which is no row's
  MaxBroken,    \* bound: calls that fail or whose answer is lost
  MaxChanges    \* bound: changes from elsewhere (other moderators, other tabs)

ASSUME DeskAssumption == Opening \notin Items /\ MaxBroken \in Nat /\ MaxChanges \in Nat

VARIABLES
  desk,       \* "moderation" or "blocks"
  standing,   \* of each item at the server: "no" row, or the state of its row
  gate,       \* whether the page may be used: "asking", "open" or "shut"
  screen,     \* what it shows: a kind, and the rows with the state they came with
  armed,      \* the row whose next click destroys, or Opening for none
  flows,      \* the calls under way, of one row each (pending)
  actionError,
  broken, changes,
  stale,      \* history: rows the page cannot know changed since they were fetched
  crossed     \* history: two fetches were under way at once

deskVars == <<desk, standing, gate, screen, armed, flows, actionError, broken, changes,
              stale, crossed>>

States == {"auto", "confirmed"}
Flow == [row : Items \cup {Opening}, op : {"restore", "confirm", "unblock", "none"},
         step : {"act", "acted", "fetch", "read"}, saw : SUBSET (Items \X States)]

DeskTypeOK ==
  /\ desk \in {"moderation", "blocks"} /\ standing \in [Items -> States \cup {"no", "allowed"}]
  /\ gate \in {"asking", "open", "shut"}
  /\ screen.kind \in {"loading", "failed", "empty", "loaded"} /\ screen.rows \subseteq Items \X States
  /\ armed \in Items \cup {Opening} /\ flows \subseteq Flow
  /\ \A f, g \in flows : f.row = g.row => f = g
  /\ actionError \in BOOLEAN /\ broken \in 0 .. MaxBroken /\ changes \in 0 .. MaxChanges
  /\ stale \subseteq Items /\ crossed \in BOOLEAN

DeskInit ==
  /\ desk \in {"moderation", "blocks"} /\ standing \in [Items -> {"no", "auto"}]
  /\ gate = IF desk = "blocks" THEN "open" ELSE "asking"
  /\ screen = [kind |-> "loading", rows |-> {}] /\ armed = Opening
  /\ flows = IF desk = "blocks"
             THEN {[row |-> Opening, op |-> "none", step |-> "fetch", saw |-> {}]} ELSE {}
  /\ actionError = FALSE /\ broken = 0 /\ changes = 0
  /\ stale = {} /\ crossed = FALSE

Breaks == broken < MaxBroken /\ broken' = broken + 1
Unbroken == UNCHANGED broken

-----------------------------------------------------------------------------
\* At the server: rows that wait, and those that are settled but stay.
Queue == {<<i, standing[i]>> : i \in {j \in Items : standing[j] \in States}}

Decided(op, i) ==
  [standing EXCEPT ![i] = CASE op = "restore" -> "allowed" [] op = "confirm" -> "confirmed"
                            [] op = "unblock" -> "no"]

\* getMe: courtesy, every route asks again.
GateOpens ==
  /\ gate = "asking"
  /\ \/ /\ gate' = "open" /\ Unbroken
        /\ flows' = {[row |-> Opening, op |-> "none", step |-> "fetch", saw |-> {}]}
     \/ gate' = "shut" /\ UNCHANGED flows /\ (Unbroken \/ Breaks)
  /\ UNCHANGED <<desk, standing, screen, armed, actionError, changes, stale, crossed>>

-----------------------------------------------------------------------------
\* The buttons of a row; a row that is settled has none.

OfferedOf(rows) == {r[1] : r \in {q \in rows : q[2] = "auto"}}
Offered(rows) == OfferedOf(rows)

OnScreen(i) == gate = "open" /\ screen.kind = "loaded" /\ i \in Offered(screen.rows)
Pending(i) == \E f \in flows : f.row = i

Arms(i) ==
  /\ desk = "moderation" /\ OnScreen(i) /\ armed # i /\ armed' = i
  /\ UNCHANGED <<desk, standing, gate, screen, flows, actionError, broken, changes, stale, crossed>>

Acts(i, op) ==
  /\ OnScreen(i) /\ ~Pending(i)
  /\ IF desk = "blocks" THEN op = "unblock"
     ELSE op = "restore" \/ (op = "confirm" /\ armed = i)
  /\ flows' = flows \cup {[row |-> i, op |-> op, step |-> "act", saw |-> {}]}
  /\ actionError' = FALSE
  /\ UNCHANGED <<desk, standing, gate, screen, armed, broken, changes, stale, crossed>>

To(f, g) == flows' = (flows \ {f}) \cup {g}
Gone(f) == flows' = flows \ {f}

\* The route does what it is told, whatever became of the row.
Happens(f) ==
  /\ f.step = "act" /\ To(f, [f EXCEPT !.step = "acted"])
  /\ standing' = Decided(f.op, f.row)
  /\ UNCHANGED <<desk, gate, screen, armed, actionError, broken, changes, stale, crossed>>

\* The list is fetched anew, without a word about other fetches under way.
Refreshes(f) == To(f, [f EXCEPT !.step = "fetch"])
AfterAct(f) == Refreshes(f)

ActAnswered(f) ==
  /\ f.step = "acted" /\ AfterAct(f)
  /\ armed' = IF f.op = "confirm" THEN Opening ELSE armed
  /\ crossed' = (crossed \/ \E g \in flows : g.step \in {"fetch", "read"})
  /\ UNCHANGED <<desk, standing, gate, screen, actionError, broken, changes, stale>>

\* No fetch follows: what the page shows may be old from here on.
ActFails(f) ==
  /\ f.step \in {"act", "acted"} /\ Gone(f) /\ Breaks /\ actionError' = TRUE
  /\ stale' = IF f.step = "acted" THEN stale \cup {f.row} ELSE stale
  /\ UNCHANGED <<desk, standing, gate, screen, armed, changes, crossed>>

QueueRead(f) ==
  /\ f.step = "fetch" /\ To(f, [f EXCEPT !.step = "read", !.saw = Queue])
  /\ stale' = {}
  /\ UNCHANGED <<desk, standing, gate, screen, armed, actionError, broken, changes, crossed>>

QueueShown(f) ==
  /\ f.step = "read" /\ Gone(f)
  /\ screen' = IF f.saw = {} THEN [kind |-> "empty", rows |-> {}]
               ELSE [kind |-> "loaded", rows |-> f.saw]
  /\ UNCHANGED <<desk, standing, gate, armed, actionError, broken, changes, stale, crossed>>

QueueFails(f) ==
  /\ f.step \in {"fetch", "read"} /\ Gone(f) /\ Breaks
  /\ screen' = [kind |-> "failed", rows |-> {}]
  /\ UNCHANGED <<desk, standing, gate, armed, actionError, changes, stale, crossed>>

-----------------------------------------------------------------------------
\* Elsewhere: a report or a block, another moderator, another tab.
Elsewhere(i, s) ==
  /\ changes < MaxChanges /\ changes' = changes + 1
  /\ IF desk = "blocks" THEN s \in {"no", "auto"} /\ s # standing[i]
     ELSE \/ s = "auto" /\ standing[i] = "no"
          \/ s \in {"allowed", "confirmed"} /\ standing[i] \notin {s, "no"}
  /\ standing' = [standing EXCEPT ![i] = s] /\ stale' = stale \cup {i}
  /\ UNCHANGED <<desk, gate, screen, armed, flows, actionError, broken, crossed>>

DeskNext ==
  \/ GateOpens
  \/ \E i \in Items :
       \/ Arms(i)
       \/ \E op \in {"restore", "confirm", "unblock"} : Acts(i, op)
       \/ \E s \in States \cup {"no", "allowed"} : Elsewhere(i, s)
  \/ \E f \in flows :
       \/ Happens(f) \/ ActAnswered(f) \/ ActFails(f)
       \/ QueueRead(f) \/ QueueShown(f) \/ QueueFails(f)

DeskSpec == DeskInit /\ [][DeskNext]_deskVars

-----------------------------------------------------------------------------
\* Properties.

\* When nothing is under way the page shows the queue (an empty one only if it is
\* empty), except rows that changed behind its back, and unless two fetches crossed.
ScreenIsTheQueue ==
  flows = {} /\ ~crossed /\ screen.kind \in {"empty", "loaded"} =>
    \A i \in Items \ stale : \A s \in States : <<i, s>> \in screen.rows <=> standing[i] = s

\* Then a row with buttons is one that waits: bytes that are gone are not restored, and
\* nothing is destroyed or unblocked twice.
ButtonsMeanSomething ==
  flows = {} /\ ~crossed => \A i \in Items \ stale : OnScreen(i) => standing[i] = "auto"

\* A page that the viewer may not use shows nothing and did nothing.
ShutIsShut == gate # "open" => flows = {} /\ screen.kind = "loading"

\* The desk shows and does what the queue warrants (and the variables are of their
\* types).
DeskIsInOrder == DeskTypeOK /\ ScreenIsTheQueue /\ ButtonsMeanSomething /\ ShutIsShut

=============================================================================
