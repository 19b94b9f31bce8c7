----------------------------- MODULE LogPipeline ----------------------------
(***************************************************************************)
(* From the game server's log files to the projection tables: the ingest   *)
(* worker of AdmIngest, the projector (apps/projector/src/tick.ts), which  *)
(* folds the event log at a cursor of its own, the deploy script, which    *)
(* stops both and may rebuild the tables, and the backfill that appends    *)
(* events for lines an older parser did not know.                          *)
(*                                                                         *)
(* What folding does is LifeFold's matter; here the tables are the ids     *)
(* folded into them since they were last truncated.                        *)
(***************************************************************************)
EXTENDS AdmIngest, SequencesExt

CONSTANT BatchSize   \* events the projector folds in one transaction

ASSUME BatchAssumption == BatchSize \in Nat \ {0}

VARIABLES
  cursor,    \* consumer_cursors: the id the projector has come to
  folded,    \* the tables: ids, in the order they were folded
  batch,     \* the ids the projector read before its transaction, or None
  fleet,     \* "up", or what the deploy script has come to
  \* history
  halfBuilt  \* a deploy died between emptying the tables and the cursor

projection == <<cursor, folded, batch>>
release == <<fleet, halfBuilt>>
vars == <<ingestVars, projection, release>>

TypeOK ==
  /\ IngestTypeOK
  /\ cursor \in 0 .. Len(log)
  /\ folded \in Seq(1 .. Len(log))
  /\ batch \in {None} \cup ((SUBSET (1 .. Len(log))) \ {{}})
  /\ fleet \in {"up", "down", "truncated", "reset"}
  /\ halfBuilt \in BOOLEAN

Init ==
  /\ IngestInit
  /\ cursor = 0 /\ folded = <<>> /\ batch = None
  /\ fleet = "up" /\ halfBuilt = FALSE

-----------------------------------------------------------------------------
\* The projector.  Cursor and batch are read before the transaction begins.

Visible == {i \in DOMAIN log : log[i].state = "in"}

\* The first BatchSize of the ids beyond the cursor.
EventBatch ==
  LET beyond == {i \in Visible : i > cursor}
  IN  {i \in beyond : Cardinality({j \in beyond : j <= i}) <= BatchSize}

ReadBatch ==
  /\ fleet = "up" /\ batch = None /\ EventBatch # {}
  /\ batch' = EventBatch
  /\ UNCHANGED <<ingestVars, cursor, folded, release>>

\* The events are folded and the cursor set in one transaction; an event with a
\* bad payload is passed over, which for the cursor is the same.
FoldBatch ==
  /\ fleet = "up" /\ batch # None
  /\ \E order \in SetToSeqs(batch) :
       /\ \A m, n \in DOMAIN order : m < n => order[m] < order[n]
       /\ folded' = folded \o order
  /\ cursor' = Max(batch)
  /\ batch' = None
  /\ UNCHANGED <<ingestVars, release>>

\* Another error, or the process dies: the transaction rolls back.
BatchFails ==
  /\ batch # None /\ faults < MaxFaults
  /\ batch' = None
  /\ faults' = faults + 1
  /\ UNCHANGED <<game, servers, worker, parser, straddled, cursor, folded, release>>

-----------------------------------------------------------------------------
\* A deploy stops the fleet before anything else, rebuilds if told to, and
\* starts the new code.  Bound: a deploy counts as a fault.

\* Faulty variant of StopFleet: the projector is left running, and ends the
\* batch it has read when the script is through.
StopIngestOnly ==
  /\ fleet = "up" /\ faults < MaxFaults
  /\ fleet' = "down" /\ faults' = faults + 1
  /\ Killed
  /\ UNCHANGED <<game, servers, adm, raw, missed, parser, straddled, projection,
                 halfBuilt>>

StopFleet ==
  /\ fleet = "up" /\ faults < MaxFaults
  /\ fleet' = "down" /\ faults' = faults + 1
  /\ Killed
  /\ batch' = None
  /\ UNCHANGED <<game, servers, adm, raw, missed, parser, straddled, cursor, folded,
                 halfBuilt>>

\* rebuildAll: TRUNCATE and setCursor are two statements.
Truncate ==
  /\ fleet = "down"
  /\ fleet' = "truncated"
  /\ folded' = <<>>
  /\ UNCHANGED <<ingestVars, cursor, batch, halfBuilt>>

ResetCursor ==
  /\ fleet = "truncated"
  /\ fleet' = "reset"
  /\ cursor' = 0
  /\ halfBuilt' = FALSE
  /\ UNCHANGED <<ingestVars, folded, batch>>

StartFleet ==
  /\ fleet \in {"down", "reset"}
  /\ fleet' = "up"
  /\ parser' = "new"
  /\ UNCHANGED <<game, servers, worker, faults, straddled, projection, halfBuilt>>

\* The script's error trap starts the old code again.
DeployFails ==
  /\ fleet # "up"
  /\ fleet' = "up"
  /\ halfBuilt' = (halfBuilt \/ fleet = "truncated")
  /\ UNCHANGED <<ingestVars, projection>>

-----------------------------------------------------------------------------
\* backfillUnconscious: a command run by hand beside the running fleet.  It
\* appends what the old parser left out of the raw lines, at sub-index 1.

BackfillInsert ==
  /\ parser = "new" /\ InFlight("backfill") = {}
  /\ \E x \in raw :
       /\ x.whole /\ <<x.file, x.line>> = Faint
       /\ LET key == [row |-> x.row, file |-> x.file, line |-> x.line,
                      sub |-> 1]
          IN  /\ Indexed(key) = {}
              /\ Inserted(key, "backfill")
  /\ UNCHANGED <<game, servers, adm, raw, sweep, missed, overtaken, parser, faults,
                 straddled, projection, release>>

BackfillCommit ==
  /\ InFlight("backfill") # {}
  /\ Committed("backfill")
  /\ UNCHANGED <<game, servers, adm, raw, sweep, missed, parser, faults, straddled,
                 projection, release>>

-----------------------------------------------------------------------------
Ingest == fleet = "up" /\ IngestStep /\ UNCHANGED <<projection, release>>
Project == ReadBatch \/ FoldBatch
Deploy == Truncate \/ ResetCursor \/ StartFleet

Next ==
  \/ Ingest \/ Project \/ Deploy \/ BackfillCommit
  \/ fleet = "up" /\ IngestFault /\ UNCHANGED <<projection, release>>
  \/ Operate /\ UNCHANGED <<projection, release>>
  \/ BatchFails \/ StopFleet \/ DeployFails \/ BackfillInsert

Spec == Init /\ [][Next]_vars

\* The workers loop for ever, a deploy that was begun is ended, and a statement
\* sent to the database returns.
FairSpec ==
  /\ Spec
  /\ WF_vars(Ingest) /\ WF_vars(Project) /\ WF_vars(Deploy)
  /\ WF_vars(BackfillCommit)

-----------------------------------------------------------------------------
\* Properties.

KeyOf(i) == log[i].key
Before(i, j) ==
  \/ KeyOf(i).file < KeyOf(j).file
  \/ KeyOf(i).file = KeyOf(j).file /\ KeyOf(i).line < KeyOf(j).line

\* Events enter the log oldest file first, as the fold relies on: an event comes
\* after one of an older file only if a download of that file has failed (its
\* failure holds back the live file, but not the other old ones).
OldestFirst ==
  \A i, j \in Visible :
    /\ i < j /\ KeyOf(i).sub = 0 /\ KeyOf(j).sub = 0 /\ KeyOf(i).row = KeyOf(j).row
    => Before(i, j) \/ KeyOf(j).file \in missed

\* A saved cursor never runs ahead of the log: every line before it has its event
\* or was half written when it was read, whatever crashed in between.
CursorBehindTheLog ==
  \A r \in Rows, f \in FileIds :
    adm[<<r, f>>] # None =>
      \A l \in 1 .. adm[<<r, f>>].line :
        \/ \E i \in Visible : KeyOf(i) = [row |-> r, file |-> f, line |-> l, sub |-> 0]
        \/ \E x \in raw : x.row = r /\ x.file = f /\ x.line = l /\ ~x.whole

\* A map's lines are told under its own row, though one service's files are read
\* for both: only a sweep that was under way when the rows changed may mix them.
LinesUnderTheirMap ==
  straddled \/ \A x \in raw : files[x.file].map = x.row

\* What the log holds is what the files say: in their order, under their map.
FilesInOrder == OldestFirst /\ LinesUnderTheirMap

\* Nothing is left behind the projector's cursor: an event at or before it is in
\* the tables, unless another writer held its id open while a later one
\* committed, or a deploy died between emptying the tables and the cursor.
NothingBehindTheCursor ==
  fleet = "up" /\ ~halfBuilt =>
    \A i \in Visible : i <= cursor => i \in ToSet(folded) \cup overtaken

\* Neither cursor, of the files or of the log, ever skips anything.
NothingSkipped == CursorBehindTheLog /\ NothingBehindTheCursor

\* The tables and the log implement what the consumers are promised.
PublishedEvents == {KeyOf(i) : i \in Visible}
FoldedEvents == [n \in DOMAIN folded |-> KeyOf(folded[n])]
Promise == INSTANCE LineLog WITH stream <- PublishedEvents, view <- FoldedEvents
KeepsThePromise == Promise!Spec

\* Once the game server falls silent, as the bounds make it, every line it wrote
\* reaches the tables, whatever crashed and restarted, unless it was read half
\* written, its row was retired before it was read, its id was overtaken, or a
\* deploy died in the middle of a rebuild.
Written(f, l) == f \in Files /\ l <= files[f].whole
InTables(f, l) ==
  \E i \in ToSet(folded) : KeyOf(i).file = f /\ KeyOf(i).line = l /\ KeyOf(i).sub = 0
Excused(f, l) ==
  \/ \E x \in raw : x.file = f /\ x.line = l /\ ~x.whole
  \/ ~servers[Old].active /\ f < servers[New].from
  \/ \E i \in overtaken : KeyOf(i).file = f /\ KeyOf(i).line = l
  \/ halfBuilt
TablesCatchUp ==
  []<>(\A f \in FileIds, l \in Lines : Written(f, l) => InTables(f, l) \/ Excused(f, l))

=============================================================================
