------------------------------- MODULE Notices ------------------------------
(***************************************************************************)
(* Notifications and their pushes (apps/notifier, routes/notifications.ts).*)
(* The notifier writes a notification per natural key, reads the oldest    *)
(* unpushed ones and sends each to what its owner has registered: browsers *)
(* and devices, two tables with serial numbers of their own.  Meanwhile    *)
(* users register, unregister and take over each other's machines.         *)
(*                                                                         *)
(* A send may be refused, its answer lost, its endpoint gone for good, or  *)
(* its transport not configured at all.                                    *)
(***************************************************************************)
EXTENDS Integers, Sequences, SequencesExt, FiniteSets, FiniteSetsExt

CONSTANTS
  Accounts,
  Notes,            \* notifications, by natural key
  OwnerOf,          \* whose inbox each belongs to
  Endpoints,        \* <<kind, n>>: browsers, and the tokens one device has had
  UsedBy,           \* who signs in where
  Configured,       \* kinds with credentials
  Nobody,
  PushBatch, MaxAge, MaxFailures,
  MaxRegistrations, \* bound
  MaxPushFaults     \* bound: endpoints gone, answers lost, processes stopped

Kinds == {"webpush", "device"}

ASSUME NoticesAssumption ==
  /\ IsFiniteSet(Notes) /\ OwnerOf \in [Notes -> Accounts] /\ Nobody \notin Accounts
  /\ \A e \in Endpoints : e[1] \in Kinds
  /\ UsedBy \in [Endpoints -> SUBSET Accounts]
  /\ Configured \subseteq Kinds
  /\ {PushBatch, MaxFailures} \subseteq Nat \ {0}
  /\ {MaxAge, MaxRegistrations, MaxPushFaults} \subseteq Nat

VARIABLES
  inbox,      \* notifications in order of creation
  age,        \* their age, until they are stamped
  stamped,    \* those with a pushed_at
  rows,       \* push_subscriptions and device_push_tokens
  serial,     \* the last id of either table
  open,       \* registrations of a device that have yet to reap its old tokens
  tick,       \* the batch: notifications, and whether each is too old
  sends,      \* rows the first of the batch is still to be sent to
  reading,    \* whether those rows have been read
  delivered,  \* whether one of them accepted it
  pushFaults,
  seen,       \* history: notifications an endpoint showed
  strikes,    \* history: what an endpoint failed since it was registered
  dead,       \* endpoints that are gone for good
  wanted,     \* endpoints whose machine believes it is registered
  reaped,     \* history: registrations undone by another of the same device
  unreachable \* history: notifications whose owner had nothing registered

rowVars == <<rows, serial, open, strikes, wanted, reaped>>
tickVars == <<tick, sends, reading, delivered>>
noticeVars == <<inbox, age, stamped, rowVars, tickVars, pushFaults, seen, dead,
                unreachable>>

NoRow == [id |-> 0, owner |-> Nobody, failures |-> 0, on |-> FALSE]
Recipient == [end : Endpoints, id : Nat]

NoticesTypeOK ==
  /\ inbox \in Seq(Notes) /\ IsInjective(inbox)
  /\ age \in [Notes -> 0 .. MaxAge + 1]
  /\ stamped \subseteq ToSet(inbox)
  /\ rows \in [Endpoints -> [id : Nat, owner : Accounts \cup {Nobody},
                             failures : 0 .. MaxFailures, on : BOOLEAN]]
  /\ serial \in [Kinds -> Nat]
  /\ open \subseteq Accounts \X Recipient
  /\ tick \in Seq([note : Notes, old : BOOLEAN]) /\ Len(tick) <= PushBatch
  /\ sends \subseteq Recipient /\ {reading, delivered} \subseteq BOOLEAN
  /\ pushFaults \in 0 .. MaxPushFaults
  /\ strikes \in [Endpoints -> 0 .. MaxFailures]
  /\ wanted \cup dead \cup reaped \subseteq Endpoints
  /\ seen \cup unreachable \subseteq Notes

NoticesInit ==
  /\ inbox = <<>> /\ age = [n \in Notes |-> 0] /\ stamped = {}
  /\ rows = [e \in Endpoints |-> NoRow] /\ serial = [k \in Kinds |-> 0]
  /\ open = {}
  /\ tick = <<>> /\ sends = {} /\ reading = FALSE /\ delivered = FALSE
  /\ pushFaults = 0
  /\ strikes = [e \in Endpoints |-> 0]
  /\ seen = {} /\ dead = {} /\ wanted = {} /\ reaped = {} /\ unreachable = {}

-----------------------------------------------------------------------------
\* Time, and machines.

Ages ==
  /\ \E n \in ToSet(inbox) \ stamped : age[n] <= MaxAge
  /\ age' = [n \in Notes |-> IF n \in ToSet(inbox) \ stamped /\ age[n] <= MaxAge
                             THEN age[n] + 1 ELSE age[n]]
  /\ UNCHANGED <<inbox, stamped, rowVars, tickVars, pushFaults, seen, dead, unreachable>>

Dies(e) ==
  /\ e \notin dead /\ dead' = dead \cup {e}
  /\ pushFaults < MaxPushFaults /\ pushFaults' = pushFaults + 1
  /\ UNCHANGED <<inbox, age, stamped, rowVars, tickVars, seen, unreachable>>

\* POST: the row of an endpoint moves to who is signed in and is revived.
Register(u, e) ==
  /\ u \in UsedBy[e] /\ e \notin dead
  /\ serial["webpush"] + serial["device"] < MaxRegistrations
  /\ LET kind == e[1]
         id == IF rows[e].owner = Nobody THEN serial[kind] + 1 ELSE rows[e].id
     IN  /\ rows' = [rows EXCEPT ![e] = [id |-> id, owner |-> u, failures |-> 0, on |-> TRUE]]
         /\ serial' = [serial EXCEPT ![kind] = @ + 1]
         /\ open' = IF kind = "device" THEN open \cup {<<u, [end |-> e, id |-> id]>>}
                                       ELSE open
  /\ strikes' = [strikes EXCEPT ![e] = 0]
  /\ wanted' = wanted \cup {e} /\ reaped' = reaped \ {e}
  /\ UNCHANGED <<inbox, age, stamped, tickVars, pushFaults, seen, dead, unreachable>>

\* The same request, its second statement: the user's other tokens of the
\* device, which rotated them, are deleted.
Reap(r) ==
  LET stale == {e \in Endpoints : /\ e[1] = "device" /\ e # r[2].end
                                  /\ rows[e].owner = r[1]}
  IN  /\ open' = open \ {r}
      /\ rows' = [e \in Endpoints |-> IF e \in stale THEN NoRow ELSE rows[e]]
      /\ reaped' = reaped \cup {e \in stale : rows[e].id > r[2].id}
      /\ wanted' = wanted \ {e \in stale : rows[e].id < r[2].id}
      /\ UNCHANGED <<inbox, age, stamped, serial, tickVars, pushFaults, seen,
                     strikes, dead, unreachable>>

\* DELETE: of one's own row only.
Unregister(u, e) ==
  /\ rows[e].owner = u
  /\ rows' = [rows EXCEPT ![e] = NoRow]
  /\ wanted' = wanted \ {e}
  /\ UNCHANGED <<inbox, age, stamped, serial, open, tickVars, pushFaults, seen,
                 strikes, dead, reaped, unreachable>>

-----------------------------------------------------------------------------
\* generateTick: what has become news and is not in an inbox yet, in one insert.
Generate(news) ==
  /\ news # {} /\ news \cap ToSet(inbox) = {}
  /\ \E order \in SetToSeqs(news) : inbox' = inbox \o order
  /\ UNCHANGED <<age, stamped, rowVars, tickVars, pushFaults, seen, dead, unreachable>>

-----------------------------------------------------------------------------
\* pushTick

TooOld(n) == age[n] > MaxAge

\* findUnpushed; how old each is, is told by the time the tick began.
ReadUnpushed ==
  /\ tick = <<>>
  /\ \E order \in SetToSeqs({i \in DOMAIN inbox : inbox[i] \notin stamped}) :
       /\ \A i, j \in DOMAIN order : i < j => order[i] < order[j]
       /\ LET n == IF Len(order) < PushBatch THEN Len(order) ELSE PushBatch
          IN  tick' = [i \in 1 .. n |-> [note |-> inbox[order[i]],
                                        old |-> TooOld(inbox[order[i]])]]
  /\ tick' # <<>>
  /\ UNCHANGED <<inbox, age, stamped, rowVars, sends, reading, delivered,
                 pushFaults, seen, dead, unreachable>>

Current == Head(tick).note
ActiveRows(u) == {[end |-> e, id |-> rows[e].id] :
                    e \in {d \in Endpoints : rows[d].owner = u /\ rows[d].on}}

\* A notification that is too old, or whose owner has nothing to send it to, is
\* stamped without being sent.
Skip ==
  /\ tick # <<>> /\ ~reading
  /\ Head(tick).old \/ ActiveRows(OwnerOf[Current]) = {}
  /\ stamped' = stamped \cup {Current}
  /\ unreachable' = IF Head(tick).old THEN unreachable ELSE unreachable \cup {Current}
  /\ tick' = Tail(tick)
  /\ UNCHANGED <<inbox, age, rowVars, sends, reading, delivered, pushFaults, seen, dead>>

ReadRows ==
  /\ tick # <<>> /\ ~reading /\ ~Head(tick).old
  /\ sends' = ActiveRows(OwnerOf[Current]) /\ sends' # {}
  /\ reading' = TRUE /\ delivered' = FALSE
  /\ UNCHANGED <<inbox, age, stamped, rowVars, tick, pushFaults, seen, dead, unreachable>>

\* Faulty variant of SameRow: the table is not told apart.
SameId(e, t) == rows[e].owner # Nobody /\ rows[e].id = t.id

\* Rows are found by id in the table of their kind.
SameRow(e, t) == /\ rows[e].owner # Nobody /\ rows[e].id = t.id
                 /\ e[1] = t.end[1]

\* Counted and, the last time, disabled.
Weakened(row) ==
  [row EXCEPT !.failures = Min({@ + 1, MaxFailures}),
              !.on = @ /\ row.failures + 1 < MaxFailures]
Struck(e) == strikes' = [strikes EXCEPT ![e] = Min({@ + 1, MaxFailures})]

RecordFailure(t) ==
  rows' = [e \in Endpoints |-> IF SameRow(e, t) THEN Weakened(rows[e]) ELSE rows[e]]
DeleteRow(t) ==
  rows' = [e \in Endpoints |-> IF SameRow(e, t) THEN NoRow ELSE rows[e]]

ToSend(t) == t \in sends /\ sends' = sends \ {t}
SendLeaves == UNCHANGED <<inbox, age, stamped, serial, open, tick, reading, dead, wanted,
                          reaped, unreachable>>

Accepted(t) ==
  /\ ToSend(t) /\ t.end[1] \in Configured /\ t.end \notin dead
  /\ seen' = seen \cup {Current} /\ delivered' = TRUE
  /\ UNCHANGED <<rows, strikes, pushFaults>> /\ SendLeaves

\* Any failure but a dead endpoint's: it counts.
Refused(t) ==
  /\ ToSend(t) /\ t.end[1] \in Configured
  /\ RecordFailure(t) /\ Struck(t.end)
  /\ UNCHANGED <<delivered, pushFaults, seen>> /\ SendLeaves

\* The answer, and with it the fact that it was shown, is lost.
Unanswered(t) ==
  /\ ToSend(t) /\ t.end[1] \in Configured /\ t.end \notin dead
  /\ pushFaults < MaxPushFaults /\ pushFaults' = pushFaults + 1
  /\ seen' = seen \cup {Current} /\ RecordFailure(t) /\ Struck(t.end)
  /\ UNCHANGED delivered /\ SendLeaves

Gone(t) ==
  /\ ToSend(t) /\ t.end[1] \in Configured /\ t.end \in dead
  /\ DeleteRow(t)
  /\ UNCHANGED <<delivered, strikes, pushFaults, seen>> /\ SendLeaves

\* Without credentials nothing is learnt of the endpoint.
NotConfigured(t) ==
  /\ ToSend(t) /\ t.end[1] \notin Configured
  /\ UNCHANGED <<rows, delivered, strikes, pushFaults, seen>> /\ SendLeaves

Send(t) == Accepted(t) \/ Refused(t) \/ Gone(t) \/ NotConfigured(t)

\* Stamped once an endpoint accepted it, left for the next tick otherwise.
Outcome == IF delivered THEN stamped \cup {Current} ELSE stamped

RowDone ==
  /\ reading /\ sends = {}
  /\ stamped' = Outcome
  /\ tick' = Tail(tick) /\ reading' = FALSE /\ delivered' = FALSE
  /\ UNCHANGED <<inbox, age, rowVars, sends, pushFaults, seen, dead, unreachable>>

\* A restart, or a statement that fails: the tick ends where it is.
NotifierStops ==
  /\ tick # <<>>
  /\ pushFaults < MaxPushFaults /\ pushFaults' = pushFaults + 1
  /\ tick' = <<>> /\ sends' = {} /\ reading' = FALSE /\ delivered' = FALSE
  /\ UNCHANGED <<inbox, age, stamped, rowVars, seen, dead, unreachable>>

-----------------------------------------------------------------------------
PushStep == Skip \/ ReadRows \/ (\E t \in sends : Send(t)) \/ RowDone

NoticesNext ==
  \/ Ages \/ \E e \in Endpoints : Dies(e)
  \/ \E u \in Accounts, e \in Endpoints : Register(u, e) \/ Unregister(u, e)
  \/ \E r \in open : Reap(r)
  \/ \E news \in SUBSET Notes : Generate(news)
  \/ ReadUnpushed \/ PushStep \/ NotifierStops
  \/ \E t \in sends : Unanswered(t)

NoticesFairness ==
  WF_noticeVars(Ages) /\ WF_noticeVars(ReadUnpushed \/ PushStep)

-----------------------------------------------------------------------------
\* Properties.

\* No notification is stamped unseen: an endpoint showed it, it was too old, or
\* its owner had nothing to send it to.  One that was shown is stamped by the
\* end of its turn, unless an answer was lost or the notifier stopped.
StampedForCause ==
  /\ \A n \in stamped : n \in seen \cup unreachable \/ age[n] > MaxAge
  /\ \A n \in seen \ stamped : pushFaults > 0 \/ (reading /\ n = Current)

\* A machine that believes it is registered is, unless its endpoint is gone, or
\* failed MaxFailures times since, or two registrations of the device crossed.
RetiredForCause ==
  \A e \in wanted \ (dead \cup reaped) : rows[e].on \/ strikes[e] >= MaxFailures

\* The stamps and the registrations the push keeps are what really happened, though
\* rows are deleted, moved and revived while a batch is under way.
PushKeepsTrack == StampedForCause /\ RetiredForCause

\* Every notification is stamped in the end, although the oldest go first and
\* may be refused, or belong to a transport that has no credentials.
PushDrains == \A n \in Notes : (n \in ToSet(inbox)) ~> (n \in stamped)

=============================================================================
