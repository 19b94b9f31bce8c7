------------------------------ MODULE AdmIngest -----------------------------
(***************************************************************************)
(* The ingest worker (apps/ingest-worker): every sweep lists the ADM files *)
(* of each active server row, downloads what is new, and turns each line   *)
(* into a raw line and its events, every insert a transaction of its own.  *)
(* A line of a file is a number, and so is a file, oldest first; what the  *)
(* line says does not matter here, only whether it was whole when read.    *)
(*                                                                         *)
(* One Nitrado service is told through: its row Old is retired and its row *)
(* New added by apps/projector/src/fleet-cutover.ts when the game server   *)
(* changes its map (the runbook of deploy/README.md), while                *)
(* apps/rebooter restarts the game server of an active row.                *)
(***************************************************************************)
EXTENDS Integers, Sequences, FiniteSets, FiniteSetsExt

CONSTANTS
  Old, New,        \* the service's rows of the servers table
  None,            \* SQL null
  Faint,           \* the one line that says a player is unconscious
  BackfillBudget,  \* older files a tick may download
  MaxFiles,        \* bound: files the game server opens
  MaxLines,        \* bound: lines of a file
  MaxFaults        \* bound: crashes, failed calls and failed deploys

ASSUME IngestAssumption ==
  /\ Old # New /\ None \notin {Old, New}
  /\ BackfillBudget \in Nat \ {0} /\ MaxFiles \in Nat \ {0}
  /\ MaxLines \in Nat /\ MaxFaults \in Nat
  /\ None \notin [line: 0 .. MaxLines, complete: BOOLEAN]

VARIABLES
  \* the game server
  up,       \* is it running
  map,      \* the row whose map it plays
  files,    \* its ADM files: the row of the map, whole lines, a half line behind
  stage,    \* how far the operator is with the cutover
  \* the tables
  servers,  \* active, and the first file not before ingest_from
  adm,      \* adm_files: last_processed_line and is_complete, or None
  raw,      \* raw_lines
  log,      \* events; the index is the id
  \* the worker
  parser,   \* "old", or "new", which knows unconscious lines
  sweep,    \* what the worker's loop holds
  faults,
  \* history
  missed,     \* files a download of which failed
  overtaken,  \* ids still in flight when a higher one committed
  straddled   \* a sweep listed the files of a row retired since it began

game == <<up, map, files, stage>>
worker == <<adm, raw, log, sweep, missed, overtaken>>
ingestVars == <<game, servers, worker, parser, faults, straddled>>

Rows == {Old, New}
FileIds == 1 .. MaxFiles
Lines == 1 .. MaxLines
Stages == <<"before", "stopped", "applied", "switched">>
Files == 1 .. Len(files)

Keys == [row: Rows, file: FileIds, line: Lines, sub: 0 .. 1]
\* An id is taken from the sequence when the insert runs and seen when it
\* commits; an aborted insert leaves a hole.
Entry == [key: Keys, by: {"ingest", "backfill"}, state: {"open", "in", "void"}]

Idle == [pc |-> "idle", todo |-> {}, row |-> None, listed |-> 0, file |-> 0,
         budget |-> 0, caughtUp |-> FALSE, whole |-> 0, torn |-> FALSE,
         line |-> 0, sub |-> 0]
SweepState ==
  [pc: {"idle", "server", "file", "line", "event", "commit"},
   todo: SUBSET Rows, row: Rows \cup {None}, listed: 0 .. MaxFiles,
   file: 0 .. MaxFiles, budget: 0 .. BackfillBudget,
   caughtUp: BOOLEAN, whole: 0 .. MaxLines, torn: BOOLEAN,
   line: 0 .. MaxLines + 1, sub: 0 .. 1]

IngestTypeOK ==
  /\ up \in BOOLEAN /\ map \in Rows
  /\ files \in Seq([map: Rows, whole: 0 .. MaxLines, torn: BOOLEAN])
  /\ stage \in 1 .. Len(Stages)
  /\ servers \in [Rows -> [active: BOOLEAN, from: 1 .. MaxFiles + 1]]
  /\ adm \in [Rows \X FileIds ->
                {None} \cup [line: 0 .. MaxLines, complete: BOOLEAN]]
  /\ raw \subseteq [row: Rows, file: FileIds, line: Lines, whole: BOOLEAN]
  /\ log \in Seq(Entry)
  /\ parser \in {"old", "new"}
  /\ sweep \in SweepState
  /\ faults \in 0 .. MaxFaults
  /\ missed \subseteq FileIds
  /\ overtaken \subseteq 1 .. Len(log)
  /\ straddled \in BOOLEAN

IngestInit ==
  /\ up = TRUE /\ map = Old /\ stage = 1
  /\ files = <<[map |-> Old, whole |-> 0, torn |-> FALSE]>>
  /\ servers = [r \in Rows |-> [active |-> r = Old, from |-> 1]]
  /\ adm = [rf \in Rows \X FileIds |-> None]
  /\ raw = {} /\ log = <<>> /\ parser = "old" /\ sweep = Idle
  /\ faults = 0 /\ missed = {} /\ overtaken = {} /\ straddled = FALSE

-----------------------------------------------------------------------------
\* The game server writes lines; a download may come in the middle of one.

Live == files[Len(files)]

WriteLine(f) ==
  /\ up /\ f = Len(files) /\ Live.whole < MaxLines
  /\ files' = [files EXCEPT ![f].whole = @ + 1, ![f].torn = FALSE]
  /\ UNCHANGED <<up, map, stage, servers, worker, parser, faults, straddled>>

WriteHalf(f) ==
  /\ up /\ f = Len(files) /\ Live.whole < MaxLines /\ ~Live.torn
  /\ faults < MaxFaults
  /\ files' = [files EXCEPT ![f].torn = TRUE]
  /\ faults' = faults + 1
  /\ UNCHANGED <<up, map, stage, servers, worker, parser, straddled>>

\* A start opens a file of the map now configured.
Opened(m) == Append(files, [map |-> m, whole |-> 0, torn |-> FALSE])

RebooterRuns == Stages[stage] \in {"before", "switched"}

\* rebooterTick: at an even hour every active row's game server is restarted,
\* also one that somebody stopped; a failed call is logged and left.
Reboot ==
  /\ RebooterRuns /\ ~Live.torn /\ Len(files) < MaxFiles
  /\ \E r \in Rows : servers[r].active
  /\ up' = TRUE
  /\ files' = Opened(map)
  /\ UNCHANGED <<map, stage, servers, worker, parser, faults, straddled>>

-----------------------------------------------------------------------------
\* The cutover: the operator stops the rebooter and the game server, applies the
\* change of rows, and starts both with the new map.  Its one transaction retires
\* the old row and adds the new one, which takes files from now on only.

Cutover ==
  [servers EXCEPT ![Old].active = FALSE,
                  ![New] = [active |-> TRUE, from |-> Len(files) + 1]]

StepCutover ==
  /\ stage < Len(Stages)
  /\ stage' = stage + 1
  /\ LET next == Stages[stage + 1]
     IN  /\ next = "stopped" => ~Live.torn
         /\ next = "switched" => Len(files) < MaxFiles
         /\ up' = CASE next = "stopped" -> FALSE [] next = "switched" -> TRUE
                    [] OTHER -> up
         /\ map' = IF next = "switched" THEN New ELSE map
         /\ files' = IF next = "switched" THEN Opened(New) ELSE files
         /\ servers' = IF next = "applied" THEN Cutover ELSE servers
  /\ UNCHANGED <<worker, parser, faults, straddled>>

-----------------------------------------------------------------------------
\* A sweep: the active rows are read once, then one tick for each.

\* On to the tick of the next server, or to the end of the sweep.
NextServer(todo) ==
  IF todo = {} THEN Idle ELSE [Idle EXCEPT !.pc = "server", !.todo = todo]

StartSweep ==
  /\ sweep.pc = "idle"
  /\ sweep' = NextServer({r \in Rows : servers[r].active})
  /\ UNCHANGED <<game, servers, adm, raw, log, parser, faults, missed,
                 overtaken, straddled>>

ListFiles(r) ==
  /\ sweep.pc = "server" /\ r \in sweep.todo
  /\ sweep' = [Idle EXCEPT !.pc = "file", !.todo = sweep.todo \ {r}, !.row = r,
                           !.listed = Len(files), !.file = 1,
                           !.budget = BackfillBudget, !.caughtUp = TRUE]
  /\ straddled' = (straddled \/ ~servers[r].active)
  /\ UNCHANGED <<game, servers, adm, raw, log, parser, faults, missed, overtaken>>

\* One server's failure does not stop the others' ticks.
ListingFails(r) ==
  /\ sweep.pc = "server" /\ r \in sweep.todo /\ faults < MaxFaults
  /\ sweep' = NextServer(sweep.todo \ {r})
  /\ faults' = faults + 1
  /\ UNCHANGED <<game, servers, adm, raw, log, parser, missed, overtaken, straddled>>

BeforeCutoff(f) == f < servers[sweep.row].from
Newest(f) == f = sweep.listed
Row(f) == adm[<<sweep.row, f>>]
Done(f) == BeforeCutoff(f) \/ (~Newest(f) /\ Row(f) # None /\ Row(f).complete)
OverBudget(f) == ~Newest(f) /\ sweep.budget = 0

\* Faulty variant of Wanted: the live file is read whatever is pending.
WantedAtOnce(f) == ~Done(f) /\ ~OverBudget(f)

\* The live file waits until the older ones are caught up.
Wanted(f) == ~Done(f) /\ ~OverBudget(f) /\ (Newest(f) => sweep.caughtUp)

\* On to the next listed file with what is left of the budget, or out of the tick.
NextFile(budget, caughtUp) ==
  IF sweep.file = sweep.listed THEN NextServer(sweep.todo)
  ELSE [sweep EXCEPT !.pc = "file", !.file = @ + 1, !.budget = budget,
                     !.caughtUp = caughtUp, !.whole = 0, !.torn = FALSE, !.line = 0]

\* Faulty variant of BudgetAfter: the live file is counted too.
BudgetOfAll(f) == sweep.budget - 1

BudgetAfter(f) == IF Newest(f) THEN sweep.budget ELSE sweep.budget - 1

PassOver ==
  /\ sweep.pc = "file" /\ ~Wanted(sweep.file)
  /\ sweep' = NextFile(sweep.budget, sweep.caughtUp /\ Done(sweep.file))
  /\ UNCHANGED <<game, servers, adm, raw, log, parser, faults, missed, overtaken,
                 straddled>>

DownloadFails ==
  /\ sweep.pc = "file" /\ Wanted(sweep.file) /\ faults < MaxFaults
  /\ sweep' = NextFile(BudgetAfter(sweep.file), FALSE)
  /\ missed' = missed \cup {sweep.file}
  /\ faults' = faults + 1
  /\ UNCHANGED <<game, servers, adm, raw, log, parser, overtaken, straddled>>

\* Faulty variant of FirstLine: the line at the cursor is taken for read.
FirstLineOffByOne(saved, total) == Min({saved + 2, total + 1})

\* The cursor never runs past the file: one that shrank is not read again.
FirstLine(saved, total) == Min({saved, total}) + 1

Download ==
  /\ sweep.pc = "file" /\ Wanted(sweep.file)
  /\ LET f == sweep.file
         saved == IF Row(f) = None THEN 0 ELSE Row(f).line
         total == files[f].whole + (IF files[f].torn THEN 1 ELSE 0)
     IN  /\ adm' = IF Row(f) = None
                   THEN [adm EXCEPT ![<<sweep.row, f>>] = [line |-> 0, complete |-> FALSE]]
                   ELSE adm
         /\ sweep' = [sweep EXCEPT !.pc = "line", !.budget = BudgetAfter(f),
                                   !.whole = files[f].whole, !.torn = files[f].torn,
                                   !.line = FirstLine(saved, total)]
  /\ UNCHANGED <<game, servers, raw, log, parser, faults, missed, overtaken, straddled>>

-----------------------------------------------------------------------------
\* A file: each line is captured, then its events are appended.

\* A half line behind the whole ones counts as a line too.
Total == sweep.whole + (IF sweep.torn THEN 1 ELSE 0)
IsWhole == sweep.line <= sweep.whole

\* Half a line parses to nothing; what the parser knows gives the sub-indices.
Subs == IF ~IsWhole THEN {}
        ELSE IF parser = "new" /\ <<sweep.file, sweep.line>> = Faint THEN {0, 1}
        ELSE {0}

\* From the event in hand to the next one, or to the next line.
NextEvent(sub) ==
  IF sub \in Subs THEN [sweep EXCEPT !.pc = "event", !.sub = sub]
  ELSE [sweep EXCEPT !.pc = "line", !.line = @ + 1, !.sub = 0]

Captured(r, f, l) == \E x \in raw : x.row = r /\ x.file = f /\ x.line = l

CaptureLine ==
  /\ sweep.pc = "line" /\ sweep.line <= Total
  /\ raw' = IF Captured(sweep.row, sweep.file, sweep.line) THEN raw
            ELSE raw \cup {[row |-> sweep.row, file |-> sweep.file,
                            line |-> sweep.line, whole |-> IsWhole]}
  /\ sweep' = NextEvent(0)
  /\ UNCHANGED <<game, servers, adm, log, parser, faults, missed, overtaken, straddled>>

\* The events index by (server, file, line, sub); an aborted row is in no index.
Indexed(key) == {i \in DOMAIN log : log[i].key = key /\ log[i].state # "void"}
InFlight(by) == {i \in DOMAIN log : log[i].by = by /\ log[i].state = "open"}

\* Faulty variant of Inserted: a conflict is not looked for.
InsertedAgain(key, by) ==
  log' = Append(log, [key |-> key, by |-> by, state |-> "open"])

\* INSERT ... ON CONFLICT DO NOTHING takes an id when nobody holds the key; who
\* holds it without having committed is waited for.
Inserted(key, by) ==
  /\ \A i \in Indexed(key) : log[i].state = "in"
  /\ log' = IF Indexed(key) # {} THEN log
            ELSE Append(log, [key |-> key, by |-> by, state |-> "open"])

KeyInHand == [row |-> sweep.row, file |-> sweep.file,
              line |-> sweep.line, sub |-> sweep.sub]

InsertEvent ==
  /\ sweep.pc = "event"
  /\ Inserted(KeyInHand, "ingest")
  /\ sweep' = [sweep EXCEPT !.pc = "commit"]
  /\ UNCHANGED <<game, servers, adm, raw, parser, faults, missed, overtaken, straddled>>

\* The insert of one writer commits, after or before the other one's.
Committed(by) ==
  /\ log' = [i \in DOMAIN log |->
               IF i \in InFlight(by) THEN [log[i] EXCEPT !.state = "in"] ELSE log[i]]
  /\ overtaken' = overtaken \cup
       {i \in DOMAIN log \ InFlight(by) :
          log[i].state = "open" /\ \E j \in InFlight(by) : i < j}

CommitEvent ==
  /\ sweep.pc = "commit"
  /\ Committed("ingest")
  /\ sweep' = NextEvent(sweep.sub + 1)
  /\ UNCHANGED <<game, servers, adm, raw, parser, faults, missed, straddled>>

\* The cursor is written once, when every line is in.
SaveCursor ==
  /\ sweep.pc = "line" /\ sweep.line > Total
  /\ adm' = [adm EXCEPT ![<<sweep.row, sweep.file>>] =
               [line |-> Total, complete |-> ~Newest(sweep.file)]]
  /\ sweep' = NextFile(sweep.budget, sweep.caughtUp)
  /\ UNCHANGED <<game, servers, raw, log, parser, faults, missed, overtaken, straddled>>

\* The worker dies where it stands; an insert in flight commits or aborts.
Killed ==
  /\ sweep' = Idle
  /\ \/ Committed("ingest")
     \/ /\ log' = [i \in DOMAIN log |->
                     IF i \in InFlight("ingest") THEN [log[i] EXCEPT !.state = "void"]
                     ELSE log[i]]
        /\ UNCHANGED overtaken

IngestCrash ==
  /\ sweep.pc # "idle" /\ faults < MaxFaults
  /\ faults' = faults + 1
  /\ Killed
  /\ UNCHANGED <<game, servers, adm, raw, parser, missed, straddled>>

IngestStep ==
  \/ StartSweep \/ PassOver \/ Download
  \/ \E r \in Rows : ListFiles(r)
  \/ CaptureLine \/ InsertEvent \/ CommitEvent \/ SaveCursor

IngestFault ==
  \/ \E r \in Rows : ListingFails(r)
  \/ DownloadFails \/ IngestCrash

Operate ==
  \/ \E f \in FileIds : WriteLine(f) \/ WriteHalf(f)
  \/ Reboot \/ StepCutover

=============================================================================
