-------------------------- MODULE LogPipeline_proofs -------------------------
(***************************************************************************)
(* Theorems about AdmIngest and LogPipeline, for any number of files,      *)
(* lines and faults and any size of budget and batch.                      *)
(***************************************************************************)
EXTENDS LogPipeline, SequenceTheorems, FiniteSetTheorems, WellFoundedInduction, TLAPS

\* A half line is followed by nothing, so that the line it becomes still fits in; a
\* saved cursor is within its file; a file that is done with is no longer written.
FilesInv ==
  /\ Len(files) \in 1 .. MaxFiles
  /\ \A f \in Files : files[f].torn => files[f].whole < MaxLines
  /\ \A x \in raw : /\ x.file \in Files
                    /\ x.whole => x.line <= files[x.file].whole
  /\ \A r \in Rows, f \in FileIds :
       adm[<<r, f>>] # None =>
         /\ f \in Files
         /\ adm[<<r, f>>].line <= files[f].whole + (IF files[f].torn THEN 1 ELSE 0)
         /\ adm[<<r, f>>].complete => f < Len(files)

\* The rows and the maps of the files, through the stages of the cutover: nothing is
\* known of the new row until it is added, and its files are those opened since.
MapsInv ==
  /\ servers[Old].from = 1
  /\ servers[Old].active <=> stage <= 2
  /\ servers[New].active <=> stage > 2
  /\ stage <= 3 => map = Old /\ \A f \in Files : files[f].map = Old
  /\ stage = 3 => servers[New].from = Len(files) + 1
  /\ stage = 4 => map = New /\ servers[New].from <= Len(files) /\ \A f \in Files :
                    files[f].map = IF f < servers[New].from THEN Old ELSE New
  /\ stage <= 2 => /\ sweep.row # New /\ New \notin sweep.todo
                   /\ \A x \in raw : x.row # New
                   /\ \A i \in DOMAIN log : KeyOf(i).row # New

\* What a sweep has come to: how it got past the files before the one in hand, and
\* how far it has read that one.
Reading == sweep.pc \in {"file", "line", "event", "commit"}
InFile == sweep.pc \in {"line", "event", "commit"}
Closed(r, f) == adm[<<r, f>>] # None /\ adm[<<r, f>>].complete
Gone(r, f) == f < servers[r].from \/ f \in missed \/ Closed(r, f)
Present == {i \in DOMAIN log : log[i].state # "void"}
EventKey(r, f, l) == [row |-> r, file |-> f, line |-> l, sub |-> 0]
Logged(r, f, l) == \E i \in Visible : KeyOf(i) = EventKey(r, f, l)
HalfRead(r, f, l) == \E x \in raw : x.row = r /\ x.file = f /\ x.line = l /\ ~x.whole
Passed(r, f, l) == adm[<<r, f>>] # None /\ l <= adm[<<r, f>>].line

\* The files before the one in hand are not to be read again, or the budget is spent.
Place ==
  /\ sweep.row \in Rows /\ sweep.listed \in Files /\ sweep.file \in 1 .. sweep.listed
  /\ \A f \in 1 .. sweep.file - 1 :
       Gone(sweep.row, f) \/ (sweep.pc = "file" /\ sweep.budget = 0 /\ ~sweep.caughtUp)
  /\ \A f \in FileIds : Closed(sweep.row, f) => f < sweep.listed
  /\ straddled \/ \A f \in 1 .. sweep.listed :
                    f < servers[sweep.row].from \/ files[f].map = sweep.row

\* The file in hand has grown, if at all, since it was downloaded.
InHand ==
  /\ ~BeforeCutoff(sweep.file)
  /\ Row(sweep.file) # None /\ ~Row(sweep.file).complete
  /\ Row(sweep.file).line < sweep.line /\ sweep.line <= Total + 1
  /\ sweep.whole <= files[sweep.file].whole
  /\ sweep.torn => /\ sweep.whole < MaxLines
                   /\ \/ sweep.whole < files[sweep.file].whole
                      \/ files[sweep.file].torn
  /\ \A x \in raw : x.row = sweep.row /\ x.file = sweep.file /\ x.whole =>
       x.line <= sweep.whole

SweepInv ==
  /\ Reading => Place
  /\ InFile => InHand
  /\ sweep.pc \in {"event", "commit"} => 1 <= sweep.line /\ IsWhole
  /\ sweep.pc \in {"event", "commit"} /\ sweep.sub = 1 =>
       Logged(sweep.row, sweep.file, sweep.line)
  /\ sweep.pc = "commit" =>
       \E i \in DOMAIN log : /\ KeyOf(i) = KeyInHand
                             /\ \/ log[i].state = "in"
                                \/ log[i].state = "open" /\ log[i].by = "ingest"

\* The lines the sweep has come past: a cursor had, or their events are in, or the
\* last one was only half there.
LinesBehind ==
  InFile =>
    \A l \in 1 .. sweep.line - 1 :
      \/ Passed(sweep.row, sweep.file, l)
      \/ l <= sweep.whole /\ Logged(sweep.row, sweep.file, l)
      \/ l > sweep.whole /\ HalfRead(sweep.row, sweep.file, l)

\* The log: one event of a key, in flight for the one line in hand; an id still open
\* below one that has committed is overtaken.
LogInv ==
  /\ \A i, j \in Present : KeyOf(i) = KeyOf(j) => i = j
  /\ \A i \in InFlight("ingest") : sweep.pc = "commit" /\ KeyOf(i) = KeyInHand
  /\ \A i, j \in InFlight("backfill") : i = j
  /\ \A i \in DOMAIN log : log[i].by = "backfill" => KeyOf(i).sub = 1
  /\ \A i, j \in DOMAIN log :
       i < j /\ log[i].state = "open" /\ log[j].state = "in" => i \in overtaken

\* Its order: a line before one of the same file in the log is in the log, or a
\* cursor has passed it; a file before one of an event is not read again.
LineEvent(i) == i \in Present /\ KeyOf(i).sub = 0
OrderInv ==
  /\ \A i, j \in DOMAIN log :
       /\ LineEvent(i) /\ LineEvent(j) /\ i < j /\ KeyOf(i).row = KeyOf(j).row
       => \/ KeyOf(i).file < KeyOf(j).file
          \/ KeyOf(i).file = KeyOf(j).file /\ KeyOf(i).line < KeyOf(j).line
          \/ KeyOf(i).file # KeyOf(j).file /\ KeyOf(j).file \in missed
  /\ \A i \in DOMAIN log : LineEvent(i) =>
       \A l \in 1 .. KeyOf(i).line - 1 :
         \/ Logged(KeyOf(i).row, KeyOf(i).file, l)
         \/ Passed(KeyOf(i).row, KeyOf(i).file, l)
  /\ \A i \in DOMAIN log : LineEvent(i) =>
       \A f \in 1 .. KeyOf(i).file - 1 : Gone(KeyOf(i).row, f)

\* The projector: its batch follows the cursor without a gap, and the tables hold
\* what the cursor has come past, in the order of the ids.
ProjectorInv ==
  /\ cursor # 0 => cursor \in Visible
  /\ \A m \in DOMAIN folded : folded[m] \in Visible /\ folded[m] <= cursor
  /\ \A m, n \in DOMAIN folded : m < n => folded[m] < folded[n]
  /\ fleet # "up" => batch = None /\ sweep.pc = "idle"
  /\ fleet \in {"truncated", "reset"} => folded = <<>>
  /\ fleet = "reset" => cursor = 0 /\ ~halfBuilt
  /\ batch # None =>
       /\ \A i \in batch : i \in Visible /\ cursor < i
       /\ \A i \in Visible, j \in batch : cursor < i /\ i <= j => i \in batch \cup overtaken
  /\ fleet \in {"up", "down"} /\ ~halfBuilt =>
       \A i \in Visible : i <= cursor => i \in ToSet(folded) \cup overtaken

PipelineInv ==
  /\ TypeOK /\ FilesInv /\ MapsInv /\ LinesUnderTheirMap
  /\ SweepInv /\ LinesBehind /\ CursorBehindTheLog
  /\ LogInv /\ OrderInv /\ ProjectorInv

-----------------------------------------------------------------------------
\* Words of the definitions.

LEMMA StageNames ==
  /\ Len(Stages) = 4
  /\ Stages[1] = "before" /\ Stages[2] = "stopped"
  /\ Stages[3] = "applied" /\ Stages[4] = "switched"
  BY DEF Stages

LEMMA FileTypes ==
  ASSUME TypeOK
  PROVE  /\ Len(files) \in Nat /\ DOMAIN files = 1 .. Len(files) /\ Files = 1 .. Len(files)
         /\ \A f \in Files : files[f] \in [map: Rows, whole: 0 .. MaxLines, torn: BOOLEAN]
<1> DEFINE FileState == [map: Rows, whole: 0 .. MaxLines, torn: BOOLEAN]
<1>1. files \in Seq(FileState)
  BY DEF TypeOK, IngestTypeOK
<1> HIDE DEF FileState
<1>2. /\ Len(files) \in Nat /\ DOMAIN files = 1 .. Len(files)
      /\ \A f \in 1 .. Len(files) : files[f] \in FileState
  BY <1>1, LenProperties, ElementOfSeq
<1> QED
  BY <1>2 DEF FileState, Files

LEMMA LogTypes ==
  ASSUME TypeOK
  PROVE  /\ Len(log) \in Nat /\ DOMAIN log = 1 .. Len(log)
         /\ \A i \in DOMAIN log : /\ log[i] \in Entry /\ KeyOf(i) \in Keys
                                  /\ log[i].key = KeyOf(i)
<1>1. log \in Seq(Entry)
  BY DEF TypeOK, IngestTypeOK
<1>2. /\ Len(log) \in Nat /\ DOMAIN log = 1 .. Len(log)
      /\ \A i \in 1 .. Len(log) : log[i] \in Entry
  BY <1>1, LenProperties, ElementOfSeq
<1> QED
  BY <1>2 DEF Entry, KeyOf

LEMMA RowTypes ==
  ASSUME TypeOK
  PROVE  /\ \A r \in Rows : servers[r].active \in BOOLEAN /\ servers[r].from \in 1 .. MaxFiles + 1
         /\ \A r \in Rows, f \in FileIds : adm[<<r, f>>] # None =>
              adm[<<r, f>>].line \in 0 .. MaxLines /\ adm[<<r, f>>].complete \in BOOLEAN
         /\ \A x \in raw : /\ x.row \in Rows /\ x.file \in FileIds
                           /\ x.line \in 1 .. MaxLines /\ x.whole \in BOOLEAN
         /\ stage \in 1 .. 4 /\ map \in Rows /\ missed \subseteq FileIds
         /\ MaxFiles \in Nat /\ MaxLines \in Nat
<1>1. IngestTypeOK
  BY DEF TypeOK
<1>2. \A r \in Rows : servers[r].active \in BOOLEAN /\ servers[r].from \in 1 .. MaxFiles + 1
  BY <1>1 DEF IngestTypeOK
<1>3. \A r \in Rows, f \in FileIds : adm[<<r, f>>] # None =>
        adm[<<r, f>>].line \in 0 .. MaxLines /\ adm[<<r, f>>].complete \in BOOLEAN
  BY <1>1 DEF IngestTypeOK
<1>4. \A x \in raw : /\ x.row \in Rows /\ x.file \in FileIds
                     /\ x.line \in 1 .. MaxLines /\ x.whole \in BOOLEAN
  BY <1>1 DEF IngestTypeOK, Lines
<1>5. stage \in 1 .. 4 /\ map \in Rows /\ missed \subseteq FileIds
  BY <1>1, StageNames DEF IngestTypeOK
<1> QED
  BY <1>2, <1>3, <1>4, <1>5, IngestAssumption

LEMMA SweepTypes ==
  ASSUME TypeOK
  PROVE  /\ sweep \in SweepState
         /\ sweep.pc \in {"idle", "server", "file", "line", "event", "commit"}
         /\ sweep.todo \subseteq Rows /\ sweep.row \in Rows \cup {None}
         /\ sweep.listed \in 0 .. MaxFiles /\ sweep.file \in 0 .. MaxFiles
         /\ sweep.budget \in 0 .. BackfillBudget /\ sweep.caughtUp \in BOOLEAN
         /\ sweep.whole \in 0 .. MaxLines /\ sweep.torn \in BOOLEAN
         /\ sweep.line \in 0 .. MaxLines + 1 /\ sweep.sub \in 0 .. 1
         /\ Total \in Nat /\ Total \in {sweep.whole, sweep.whole + 1}
<1>1. sweep \in SweepState
  BY DEF TypeOK, IngestTypeOK
<1>2. /\ sweep.pc \in {"idle", "server", "file", "line", "event", "commit"}
      /\ sweep.todo \subseteq Rows /\ sweep.row \in Rows \cup {None}
      /\ sweep.listed \in 0 .. MaxFiles /\ sweep.file \in 0 .. MaxFiles
      /\ sweep.budget \in 0 .. BackfillBudget /\ sweep.caughtUp \in BOOLEAN
      /\ sweep.whole \in 0 .. MaxLines /\ sweep.torn \in BOOLEAN
      /\ sweep.line \in 0 .. MaxLines + 1 /\ sweep.sub \in 0 .. 1
  BY <1>1 DEF SweepState
<1> QED
  BY <1>1, <1>2, IngestAssumption DEF Total

LEMMA InitInv == Init => PipelineInv
<1> SUFFICES ASSUME Init PROVE PipelineInv
  OBVIOUS
<1>1. /\ up = TRUE /\ map = Old /\ stage = 1
      /\ files = <<[map |-> Old, whole |-> 0, torn |-> FALSE]>>
      /\ servers = [r \in Rows |-> [active |-> r = Old, from |-> 1]]
      /\ adm = [rf \in Rows \X FileIds |-> None]
      /\ raw = {} /\ log = <<>> /\ parser = "old" /\ sweep = Idle
      /\ faults = 0 /\ missed = {} /\ overtaken = {} /\ straddled = FALSE
      /\ cursor = 0 /\ folded = <<>> /\ batch = None
      /\ fleet = "up" /\ halfBuilt = FALSE
  BY DEF Init, IngestInit
<1>0. servers = [r \in Rows |-> IF r = Old THEN [active |-> TRUE, from |-> 1]
                                             ELSE [active |-> FALSE, from |-> 1]]
  <2>1. \A r \in Rows : (r = Old) = IF r = Old THEN TRUE ELSE FALSE
    OBVIOUS
  <2>2. \A r \in Rows : [active |-> r = Old, from |-> 1] =
          IF r = Old THEN [active |-> TRUE, from |-> 1] ELSE [active |-> FALSE, from |-> 1]
    BY <2>1
  <2> QED
    BY <1>1, <2>2
<1>2. /\ Len(files) = 1 /\ Len(log) = 0 /\ DOMAIN log = {} /\ DOMAIN folded = {}
      /\ files[1] = [map |-> Old, whole |-> 0, torn |-> FALSE]
  BY <1>1
<1>3. Files = {1}
  BY <1>2 DEF Files
<1>4. TypeOK
  <2>1. files \in Seq([map: Rows, whole: 0 .. MaxLines, torn: BOOLEAN])
    <3>1. [map |-> Old, whole |-> 0, torn |-> FALSE]
            \in [map: Rows, whole: 0 .. MaxLines, torn: BOOLEAN]
      BY IngestAssumption DEF Rows
    <3> QED
      BY <1>1, <3>1
  <2>2. sweep \in SweepState
    BY <1>1, IngestAssumption DEF Idle, SweepState, Rows
  <2>3. servers \in [Rows -> [active: BOOLEAN, from: 1 .. MaxFiles + 1]]
    BY <1>1, <1>0, IngestAssumption DEF Rows
  <2>4. stage \in 1 .. Len(Stages) /\ map \in Rows
    BY <1>1, StageNames DEF Rows
  <2>5. log \in Seq(Entry) /\ folded \in Seq(1 .. Len(log))
    BY <1>1
  <2>6. faults \in 0 .. MaxFaults /\ cursor \in 0 .. Len(log) /\ batch = None
    BY <1>1, <1>2, IngestAssumption
  <2>7. adm \in [Rows \X FileIds -> {None} \cup [line: 0 .. MaxLines, complete: BOOLEAN]]
    BY <1>1
  <2>8. IngestTypeOK
    BY <1>1, <2>1, <2>2, <2>3, <2>4, <2>5, <2>6, <2>7 DEF IngestTypeOK
  <2> QED
    BY <1>1, <2>5, <2>6, <2>8 DEF TypeOK
<1>5. FilesInv
  BY <1>1, <1>2, <1>3, IngestAssumption DEF FilesInv, FileIds
<1>6. MapsInv
  BY <1>0, <1>1, <1>2, <1>3, IngestAssumption DEF MapsInv, Idle, Rows
<1>7. LinesUnderTheirMap /\ SweepInv /\ LinesBehind /\ CursorBehindTheLog
  BY <1>1, <1>2 DEF LinesUnderTheirMap, SweepInv, Place, InHand, Reading, InFile, LinesBehind,
                    CursorBehindTheLog, Idle, FileIds
<1>8. LogInv /\ OrderInv /\ ProjectorInv
  BY <1>1, <1>2 DEF LogInv, OrderInv, ProjectorInv, Present, InFlight, Visible
<1> QED
  BY <1>4, <1>5, <1>6, <1>7, <1>8 DEF PipelineInv

-----------------------------------------------------------------------------
\* What may happen to the log.

LEMMA LogAppended ==
  ASSUME log \in Seq(Entry), NEW e \in Entry, e.state = "open", log' = Append(log, e)
  PROVE  /\ log' \in Seq(Entry) /\ Len(log) \in Nat /\ Len(log') = Len(log) + 1
         /\ DOMAIN log = 1 .. Len(log) /\ DOMAIN log' = 1 .. Len(log) + 1
         /\ \A i \in DOMAIN log : log'[i] = log[i] /\ KeyOf(i)' = KeyOf(i)
         /\ log'[Len(log) + 1] = e
         /\ Visible' = Visible
<1>1. /\ log' \in Seq(Entry) /\ Len(log) \in Nat /\ Len(log') = Len(log) + 1
      /\ DOMAIN log = 1 .. Len(log) /\ DOMAIN log' = 1 .. Len(log) + 1
      /\ \A i \in DOMAIN log : log'[i] = log[i]
      /\ log'[Len(log) + 1] = e
  BY AppendProperties, LenProperties
<1>2. Visible' = Visible
  BY <1>1 DEF Visible
<1> QED
  BY <1>1, <1>2 DEF KeyOf

\* A transaction of one writer ends.
LEMMA LogSettled ==
  ASSUME log \in Seq(Entry), NEW by, NEW to \in {"in", "void"},
         log' = [i \in DOMAIN log |->
                   IF i \in InFlight(by) THEN [log[i] EXCEPT !.state = to] ELSE log[i]]
  PROVE  /\ log' \in Seq(Entry) /\ Len(log) \in Nat /\ Len(log') = Len(log)
         /\ DOMAIN log = 1 .. Len(log) /\ DOMAIN log' = DOMAIN log
         /\ \A i \in DOMAIN log :
              /\ KeyOf(i)' = KeyOf(i) /\ log'[i].by = log[i].by
              /\ log'[i].state = IF i \in InFlight(by) THEN to ELSE log[i].state
         /\ Visible \subseteq Visible'
         /\ Visible' \subseteq Visible \cup InFlight(by)
<1>1. Len(log) \in Nat /\ DOMAIN log = 1 .. Len(log) /\ \A i \in DOMAIN log : log[i] \in Entry
  BY LenProperties, ElementOfSeq
<1>2. /\ DOMAIN log' = DOMAIN log
      /\ \A i \in DOMAIN log :
           log'[i] = IF i \in InFlight(by) THEN [log[i] EXCEPT !.state = to] ELSE log[i]
  OBVIOUS
<1>3. \A i \in DOMAIN log : /\ log'[i] \in Entry
                            /\ log'[i].key = log[i].key /\ log'[i].by = log[i].by
                            /\ log'[i].state = IF i \in InFlight(by) THEN to ELSE log[i].state
  BY <1>1, <1>2 DEF Entry
<1>4. log' \in [1 .. Len(log) -> Entry]
  BY <1>1, <1>3
<1>5. log' \in Seq(Entry) /\ Len(log') = Len(log)
  <2>1. log' \in Seq(Entry)
    BY <1>1, <1>4, SeqDef
  <2>2. Len(log') \in Nat /\ DOMAIN log' = 1 .. Len(log')
    BY <2>1, LenProperties
  <2> QED
    BY <1>1, <1>2, <2>1, <2>2
<1>6. Visible \subseteq Visible' /\ Visible' \subseteq Visible \cup InFlight(by)
  BY <1>2, <1>3 DEF Visible, InFlight
<1> QED
  BY <1>1, <1>2, <1>3, <1>5, <1>6 DEF KeyOf

\* What has been read stays read.
Onward ==
  /\ Visible \subseteq Visible' /\ \A i \in Visible : KeyOf(i)' = KeyOf(i)
  /\ raw \subseteq raw' /\ missed \subseteq missed'
  /\ \A r \in Rows, f \in FileIds : adm[<<r, f>>] # None =>
       /\ adm'[<<r, f>>] # None
       /\ adm[<<r, f>>].line <= adm'[<<r, f>>].line
       /\ adm[<<r, f>>].complete => adm'[<<r, f>>].complete

LEMMA StillRead ==
  ASSUME TypeOK, TypeOK', Onward
  PROVE  \A r \in Rows, f \in FileIds :
           /\ \A l \in Nat : /\ Logged(r, f, l) => Logged(r, f, l)'
                             /\ HalfRead(r, f, l) => HalfRead(r, f, l)'
                             /\ Passed(r, f, l) => Passed(r, f, l)'
           /\ Closed(r, f) => Closed(r, f)'
           /\ servers'[r].from = servers[r].from /\ Gone(r, f) => Gone(r, f)'
<1> SUFFICES ASSUME NEW r \in Rows, NEW f \in FileIds
             PROVE  /\ \A l \in Nat : /\ Logged(r, f, l) => Logged(r, f, l)'
                                      /\ HalfRead(r, f, l) => HalfRead(r, f, l)'
                                      /\ Passed(r, f, l) => Passed(r, f, l)'
                    /\ Closed(r, f) => Closed(r, f)'
                    /\ servers'[r].from = servers[r].from /\ Gone(r, f) => Gone(r, f)'
  OBVIOUS
<1>1. /\ adm[<<r, f>>] # None => adm[<<r, f>>].line \in Nat
      /\ adm'[<<r, f>>] # None => adm'[<<r, f>>].line \in Nat
  BY DEF TypeOK, IngestTypeOK
<1>2. \A l \in Nat : Logged(r, f, l) => Logged(r, f, l)'
  BY DEF Onward, Logged, EventKey
<1>3. \A l \in Nat : HalfRead(r, f, l) => HalfRead(r, f, l)'
  BY DEF Onward, HalfRead
<1>4. \A l \in Nat : Passed(r, f, l) => Passed(r, f, l)'
  BY <1>1 DEF Onward, Passed
<1>5. Closed(r, f) => Closed(r, f)'
  BY DEF Onward, Closed
<1>6. servers'[r].from = servers[r].from /\ Gone(r, f) => Gone(r, f)'
  BY <1>5 DEF Onward, Gone
<1> QED
  BY <1>2, <1>3, <1>4, <1>5, <1>6

-----------------------------------------------------------------------------
\* The game server and the operator.

FileState == [map: Rows, whole: 0 .. MaxLines, torn: BOOLEAN]
FilesGrow ==
  /\ files' \in Seq(FileState)
  /\ Len(files) <= Len(files') /\ Len(files') <= MaxFiles
  /\ \A f \in 1 .. Len(files) :
       /\ files'[f].map = files[f].map /\ files[f].whole <= files'[f].whole
       /\ files[f].torn => files[f].whole < files'[f].whole \/ files'[f].torn
  /\ \A f \in 1 .. Len(files') : files'[f].torn => files'[f].whole < MaxLines

LEMMA Unread ==
  ASSUME TypeOK, UNCHANGED <<log, raw, missed, adm>>
  PROVE  Onward
<1>1. \A r \in Rows, f \in FileIds : adm[<<r, f>>] # None => adm[<<r, f>>].line \in Nat
  BY DEF TypeOK, IngestTypeOK
<1>2. Visible' = Visible /\ \A i : KeyOf(i)' = KeyOf(i)
  BY DEF Visible, KeyOf
<1> QED
  BY <1>1, <1>2 DEF Onward

\* However the files grow, and rows nobody sweeps change, the worker's view stands.
LEMMA WorkerKept ==
  ASSUME PipelineInv, TypeOK', FilesGrow, UNCHANGED <<worker, straddled>>,
         \A r \in Rows : servers'[r].from = servers[r].from \/ (r = New /\ stage <= 2)
  PROVE  /\ FilesInv' /\ LinesUnderTheirMap' /\ SweepInv' /\ LinesBehind'
         /\ CursorBehindTheLog' /\ LogInv' /\ OrderInv'
<1>1. UNCHANGED <<adm, raw, log, sweep, missed, overtaken, straddled>>
  BY DEF worker
<1>2. /\ Len(files) \in Nat /\ Len(files') \in Nat
      /\ Files = 1 .. Len(files) /\ Files' = 1 .. Len(files')
      /\ \A f \in Files : files[f].whole \in Nat
      /\ \A f \in Files' : files'[f].whole \in Nat
      /\ TypeOK /\ FilesInv /\ SweepInv
  <2>1. TypeOK /\ FilesInv /\ SweepInv
    BY DEF PipelineInv
  <2>2. /\ Len(files) \in Nat /\ Files = 1 .. Len(files)
        /\ \A f \in Files : files[f].whole \in Nat
    BY <2>1, FileTypes, IngestAssumption
  <2>3. files' \in Seq(FileState)
    BY DEF FilesGrow
  <2>4. /\ Len(files') \in Nat
        /\ \A f \in 1 .. Len(files') : files'[f] \in FileState
    BY <2>3, LenProperties, ElementOfSeq
  <2>5. \A f \in 1 .. Len(files') : files'[f].whole \in Nat
    BY <2>4, IngestAssumption DEF FileState
  <2> QED
    BY <2>1, <2>2, <2>4, <2>5 DEF Files
<1>3. Onward
  BY <1>1, <1>2, Unread
<1>4. \A f \in Files : files'[f].map = files[f].map /\ f \in Files'
  BY <1>2 DEF FilesGrow
<1>5. FilesInv'
  <2>1. \A x \in raw : x.file \in Files /\ x.line \in Nat /\ (x.whole => x.line <= files[x.file].whole)
    BY <1>2, RowTypes DEF FilesInv
  <2>2. \A x \in raw : x.file \in Files' /\ (x.whole => x.line <= files'[x.file].whole)
    BY <1>2, <2>1 DEF FilesGrow
  <2>3. ASSUME NEW r \in Rows, NEW f \in FileIds, adm[<<r, f>>] # None
        PROVE  /\ f \in Files'
               /\ adm[<<r, f>>].line <= files'[f].whole + (IF files'[f].torn THEN 1 ELSE 0)
               /\ adm[<<r, f>>].complete => f < Len(files')
    <3>1. /\ f \in Files /\ adm[<<r, f>>].line \in Nat
          /\ adm[<<r, f>>].line <= files[f].whole + (IF files[f].torn THEN 1 ELSE 0)
          /\ adm[<<r, f>>].complete => f < Len(files)
      BY <1>2, <2>3, RowTypes DEF FilesInv
    <3>2. /\ files[f].whole <= files'[f].whole
          /\ files[f].torn => files[f].whole < files'[f].whole \/ files'[f].torn
      BY <1>2, <3>1 DEF FilesGrow
    <3> QED
      BY <1>2, <1>4, <3>1, <3>2 DEF FilesGrow
  <2>4. Len(files') \in 1 .. MaxFiles
    BY <1>2 DEF FilesInv, FilesGrow
  <2>5. \A f \in Files' : files'[f].torn => files'[f].whole < MaxLines
    BY <1>2 DEF FilesGrow
  <2> QED
    BY <1>1, <2>2, <2>3, <2>4, <2>5 DEF FilesInv
<1>6. LinesUnderTheirMap'
  BY <1>1, <1>2, <1>4 DEF PipelineInv, LinesUnderTheirMap, FilesInv
<1>7. \A r \in Rows, f \in FileIds : r # New \/ stage > 2 => (Gone(r, f) => Gone(r, f)')
  BY <1>1, <1>2, StageNames DEF Gone, Closed, TypeOK, IngestTypeOK
<1>8. SweepInv'
  <2>1. Reading' = Reading /\ InFile' = InFile
    BY <1>1 DEF Reading, InFile
  <2>2. Reading => sweep.row \in Rows /\ servers'[sweep.row].from = servers[sweep.row].from
                   /\ (sweep.row # New \/ stage > 2)
    <3>1. Reading => sweep.row \in Rows
      BY <1>2 DEF SweepInv, Place, InHand
    <3>2. sweep.row = New => stage > 2
      BY <1>2, RowTypes DEF PipelineInv, MapsInv
    <3> QED
      BY <1>2, <3>1, <3>2, RowTypes
  <2>3. ASSUME Reading
        PROVE  /\ sweep.row \in Rows /\ sweep.listed \in Files' /\ sweep.file \in 1 .. sweep.listed
               /\ \A f \in 1 .. sweep.file - 1 :
                    Gone(sweep.row, f)' \/ (sweep.pc = "file" /\ sweep.budget = 0 /\ ~sweep.caughtUp)
               /\ \A f \in FileIds : Closed(sweep.row, f)' => f < sweep.listed
               /\ straddled \/ \A f \in 1 .. sweep.listed :
                                 f < servers'[sweep.row].from \/ files'[f].map = sweep.row
    <3>1. sweep.listed \in Files /\ sweep.file \in 1 .. sweep.listed
      BY <1>2, <2>3 DEF SweepInv, Place, InHand
    <3>2. \A f \in 1 .. sweep.file - 1 : f \in FileIds
      BY <1>2, <3>1, RowTypes DEF FileIds, FilesInv
    <3>3. \A f \in FileIds : Closed(sweep.row, f)' = Closed(sweep.row, f)
      BY <1>1 DEF Closed
    <3>4. \A f \in 1 .. sweep.listed : f \in Files
      BY <1>2, <3>1
    <3>5. /\ \A f \in 1 .. sweep.file - 1 :
               Gone(sweep.row, f) \/ (sweep.pc = "file" /\ sweep.budget = 0 /\ ~sweep.caughtUp)
          /\ \A f \in FileIds : Closed(sweep.row, f) => f < sweep.listed
          /\ straddled \/ \A f \in 1 .. sweep.listed :
                            f < servers[sweep.row].from \/ files[f].map = sweep.row
      BY <1>2, <2>3 DEF SweepInv, Place, InHand
    <3>6. \A f \in 1 .. sweep.file - 1 :
            Gone(sweep.row, f)' \/ (sweep.pc = "file" /\ sweep.budget = 0 /\ ~sweep.caughtUp)
      <4>1. ASSUME NEW f \in 1 .. sweep.file - 1, Gone(sweep.row, f) PROVE Gone(sweep.row, f)'
        <5> DEFINE r == sweep.row
        <5>1. r \in Rows /\ f \in FileIds /\ (r # New \/ stage > 2) /\ Gone(r, f)
          BY <2>2, <2>3, <3>2, <4>1
        <5>2. r' = r
          BY <1>1
        <5> HIDE DEF r
        <5>3. Gone(r, f)'
          BY <1>1, <1>7, <5>1, <5>2 DEF Gone, Closed
        <5> QED
          BY <5>3 DEF r
      <4> QED
        BY <3>5, <4>1
    <3>7. straddled \/ \A f \in 1 .. sweep.listed :
                         f < servers'[sweep.row].from \/ files'[f].map = sweep.row
      BY <1>4, <2>2, <2>3, <3>4, <3>5
    <3> QED
      BY <1>4, <2>2, <2>3, <3>1, <3>3, <3>5, <3>6, <3>7
  <2>4. InFile => /\ sweep.file \in Files /\ sweep.whole <= files'[sweep.file].whole
                  /\ sweep.torn => /\ sweep.whole < MaxLines
                                   /\ \/ sweep.whole < files'[sweep.file].whole
                                      \/ files'[sweep.file].torn
    <3> SUFFICES ASSUME InFile
                 PROVE  /\ sweep.file \in Files /\ sweep.whole <= files'[sweep.file].whole
                        /\ sweep.torn => /\ sweep.whole < MaxLines
                                         /\ \/ sweep.whole < files'[sweep.file].whole
                                            \/ files'[sweep.file].torn
      OBVIOUS
    <3>1. sweep.file \in Files /\ sweep.whole \in Nat
      BY <1>2, SweepTypes DEF SweepInv, Place, InHand, Reading, InFile
    <3> QED
      BY <1>2, <3>1 DEF SweepInv, Place, InHand, FilesGrow
  <2>5. InFile => ~BeforeCutoff(sweep.file)' /\ Row(sweep.file)' = Row(sweep.file)
    BY <1>1, <1>2, <2>2 DEF SweepInv, Place, InHand, BeforeCutoff, Row, Reading, InFile
  <2>6. KeyInHand' = KeyInHand /\ IsWhole' = IsWhole /\ Total' = Total
    BY <1>1 DEF KeyInHand, IsWhole, Total
  <2>7. \A r, f, l : Logged(r, f, l)' = Logged(r, f, l)
    BY <1>1 DEF Logged, Visible, KeyOf
  <2>8. \A i : KeyOf(i)' = KeyOf(i)
    BY <1>1 DEF KeyOf
  <2> QED
    BY <1>1, <1>2, <2>1, <2>3, <2>4, <2>5, <2>6, <2>7, <2>8 DEF SweepInv, Place, InHand
<1>9. LinesBehind' /\ CursorBehindTheLog' /\ LogInv'
  BY <1>1 DEF PipelineInv, LinesBehind, CursorBehindTheLog, LogInv, InFile, Passed, Logged,
              HalfRead, Present, Visible, KeyOf, InFlight, KeyInHand
<1>10. OrderInv'
  <2>1. /\ \A i : LineEvent(i)' = LineEvent(i) /\ KeyOf(i)' = KeyOf(i)
        /\ \A r, f, l : Logged(r, f, l)' = Logged(r, f, l) /\ Passed(r, f, l)' = Passed(r, f, l)
    BY <1>1 DEF LineEvent, Present, KeyOf, Logged, Visible, Passed
  <2>2. ASSUME NEW i \in DOMAIN log, LineEvent(i), NEW f \in 1 .. KeyOf(i).file - 1
        PROVE  Gone(KeyOf(i).row, f)'
    <3> DEFINE r == KeyOf(i).row
    <3>1. KeyOf(i) \in Keys /\ KeyOf(i).file \in FileIds /\ r \in Rows
      BY <1>2, LogTypes DEF Keys
    <3>2. f \in FileIds /\ Gone(r, f)
      BY <1>2, <2>2, <3>1, RowTypes DEF PipelineInv, OrderInv, FileIds
    <3>3. r # New \/ stage > 2
      BY <1>2, RowTypes DEF PipelineInv, MapsInv
    <3>4. r' = r
      BY <1>1 DEF KeyOf
    <3> HIDE DEF r
    <3>5. Gone(r, f)'
      BY <1>1, <1>7, <3>1, <3>2, <3>3, <3>4 DEF Gone, Closed
    <3> QED
      BY <3>5 DEF r
  <2>3. OrderInv
    BY DEF PipelineInv
  <2>4. \A i \in DOMAIN log : LineEvent(i)' => \A f \in 1 .. (KeyOf(i).file)' - 1 : Gone(KeyOf(i).row, f)'
    BY <2>1, <2>2
  <2> QED
    BY <1>1, <2>1, <2>3, <2>4 DEF OrderInv
<1> QED
  BY <1>5, <1>6, <1>8, <1>9, <1>10


LEMMA FilesOpened ==
  ASSUME PipelineInv, NEW m \in Rows, files' = Opened(m), Len(files) < MaxFiles
  PROVE  /\ FilesGrow /\ Len(files') = Len(files) + 1
         /\ Files' = 1 .. Len(files) + 1 /\ Len(files) \in Nat
         /\ \A f \in Files : files'[f] = files[f]
         /\ files'[Len(files) + 1].map = m
<1> DEFINE new == [map |-> m, whole |-> 0, torn |-> FALSE]
<1>1. TypeOK
  BY DEF PipelineInv
<1>2. new \in FileState /\ new.map = m /\ ~new.torn
  BY IngestAssumption DEF FileState
<1>3. files \in Seq(FileState) /\ Len(files) \in Nat /\ MaxFiles \in Nat
  BY <1>1, LenProperties, IngestAssumption DEF TypeOK, IngestTypeOK, FileState
<1>4. /\ files' \in Seq(FileState) /\ Len(files') = Len(files) + 1
      /\ \A f \in 1 .. Len(files) : files'[f] = files[f]
      /\ files'[Len(files) + 1] = new
  <2>1. files' = Append(files, new)
    BY DEF Opened
  <2> HIDE DEF new
  <2> QED
    BY <1>2, <1>3, <2>1, AppendProperties
<1>5. \A f \in 1 .. Len(files) : files[f].whole \in Nat /\ (files[f].torn => files[f].whole < MaxLines)
  BY <1>1, FileTypes, IngestAssumption DEF PipelineInv, FilesInv
<1>6. FilesGrow
  <2>1. \A f \in 1 .. Len(files) :
          /\ files'[f].map = files[f].map /\ files[f].whole <= files'[f].whole
          /\ files[f].torn => files[f].whole < files'[f].whole \/ files'[f].torn
    BY <1>4, <1>5
  <2>2. \A f \in 1 .. Len(files') : files'[f].torn => files'[f].whole < MaxLines
    BY <1>2, <1>3, <1>4, <1>5
  <2> QED
    BY <1>3, <1>4, <2>1, <2>2 DEF FilesGrow
<1> QED
  BY <1>2, <1>3, <1>4, <1>6 DEF Files

\* The rest of the type invariant, when the worker and the projector rest.
LEMMA TypesKept ==
  ASSUME TypeOK, UNCHANGED <<worker, parser, straddled, projection, release>>,
         up' \in BOOLEAN, map' \in Rows, files' \in Seq(FileState), stage' \in 1 .. 4,
         servers' \in [Rows -> [active: BOOLEAN, from: 1 .. MaxFiles + 1]],
         faults' \in 0 .. MaxFaults
  PROVE  TypeOK'
<1>1. UNCHANGED <<adm, raw, log, sweep, missed, overtaken, parser, straddled, cursor, folded,
                  batch, fleet, halfBuilt>>
  BY DEF worker, projection, release
<1>2. files' \in Seq([map: Rows, whole: 0 .. MaxLines, torn: BOOLEAN]) /\ stage' \in 1 .. Len(Stages)
  BY StageNames DEF FileState
<1>3. IngestTypeOK'
  BY <1>1, <1>2 DEF TypeOK, IngestTypeOK
<1> QED
  BY <1>1, <1>3 DEF TypeOK

LEMMA ProjectorKept ==
  ASSUME ProjectorInv, UNCHANGED <<log, overtaken, sweep, projection, release>>
  PROVE  ProjectorInv'
<1>1. UNCHANGED <<cursor, folded, batch, fleet, halfBuilt>>
  BY DEF projection, release
<1>2. Visible' = Visible
  BY DEF Visible
<1> QED
  BY <1>1, <1>2 DEF ProjectorInv

LEMMA WriteSteps ==
  ASSUME PipelineInv, NEW f \in FileIds, WriteLine(f) \/ WriteHalf(f),
         UNCHANGED <<projection, release>>
  PROVE  PipelineInv'
<1>1. /\ up' = up /\ map' = map /\ stage' = stage /\ servers' = servers
      /\ UNCHANGED <<worker, parser, straddled>>
      /\ TypeOK /\ MapsInv /\ ProjectorInv
  BY DEF WriteLine, WriteHalf, PipelineInv
<1>2. /\ f = Len(files) /\ files[f].whole < MaxLines /\ f \in Files
      /\ Len(files) \in Nat /\ files \in Seq(FileState) /\ DOMAIN files = 1 .. Len(files)
      /\ \A g \in Files : files[g] \in FileState
  <2>1. f = Len(files) /\ files[f].whole < MaxLines
    BY DEF WriteLine, WriteHalf, Live
  <2> QED
    BY <1>1, <2>1, FileTypes DEF PipelineInv, FilesInv, FileState, TypeOK, IngestTypeOK, FileIds
<1>3. \E e \in FileState :
        /\ files' = [files EXCEPT ![f] = e] /\ e.map = files[f].map
        /\ files[f].whole <= e.whole /\ (e.torn => e.whole < MaxLines)
        /\ files[f].torn => files[f].whole < e.whole \/ e.torn
  <2>0. files[f] \in FileState /\ files[f].whole \in 0 .. MaxLines /\ MaxLines \in Nat
    BY <1>2, IngestAssumption DEF FileState
  <2>1. CASE WriteLine(f)
    <3> DEFINE e == [files[f] EXCEPT !.whole = files[f].whole + 1, !.torn = FALSE]
    <3>1. e \in FileState /\ e.map = files[f].map /\ e.whole = files[f].whole + 1 /\ e.torn = FALSE
      <4>1. files[f].whole + 1 \in 0 .. MaxLines /\ FALSE \in BOOLEAN
        BY <1>2, <2>0
      <4> QED
        BY <2>0, <4>1 DEF FileState
    <3>2. files' = [files EXCEPT ![f] = e]
      BY <1>2, <2>1 DEF WriteLine
    <3> HIDE DEF e
    <3>3. /\ files[f].whole <= e.whole /\ (e.torn => e.whole < MaxLines)
          /\ files[f].torn => files[f].whole < e.whole \/ e.torn
      BY <2>0, <3>1
    <3> QED
      BY <3>1, <3>2, <3>3
  <2>2. CASE WriteHalf(f)
    <3> DEFINE e == [files[f] EXCEPT !.torn = TRUE]
    <3>1. e \in FileState /\ e.map = files[f].map /\ e.whole = files[f].whole /\ e.torn
      BY <2>0 DEF FileState
    <3>2. files' = [files EXCEPT ![f] = e]
      BY <1>2, <2>2 DEF WriteHalf
    <3> HIDE DEF e
    <3>3. /\ files[f].whole <= e.whole /\ (e.torn => e.whole < MaxLines)
          /\ files[f].torn => files[f].whole < e.whole \/ e.torn
      BY <1>2, <2>0, <3>1
    <3> QED
      BY <3>1, <3>2, <3>3
  <2> QED
    BY <2>1, <2>2
<1>4. PICK e \in FileState :
        /\ files' = [files EXCEPT ![f] = e] /\ e.map = files[f].map
        /\ files[f].whole <= e.whole /\ (e.torn => e.whole < MaxLines)
        /\ files[f].torn => files[f].whole < e.whole \/ e.torn
  BY <1>3
<1>5. /\ files' \in Seq(FileState) /\ Len(files') = Len(files)
      /\ \A g \in Files : files'[g] = IF g = f THEN e ELSE files[g]
  BY <1>2, <1>4, ExceptSeq DEF Files
<1>6. FilesGrow
  <2>1. \A g \in 1 .. Len(files) : files[g].whole \in 0 .. MaxLines
                                   /\ (files[g].torn => files[g].whole < MaxLines)
    BY <1>2 DEF PipelineInv, FilesInv, Files, FileState
  <2>2. \A g \in 1 .. Len(files) :
          /\ files'[g].map = files[g].map /\ files[g].whole <= files'[g].whole
          /\ files[g].torn => files[g].whole < files'[g].whole \/ files'[g].torn
          /\ files'[g].torn => files'[g].whole < MaxLines
    BY <1>2, <1>4, <1>5, <2>1 DEF Files
  <2> QED
    BY <1>2, <1>5, <2>2 DEF FilesGrow, FileIds
<1>7. MapsInv'
  <2>1. \A g \in Files : files'[g].map = files[g].map
    BY <1>4, <1>5
  <2>2. Files' = Files
    BY <1>5 DEF Files
  <2>3. UNCHANGED <<sweep, raw, log>> /\ \A i : KeyOf(i)' = KeyOf(i)
    BY <1>1 DEF worker, KeyOf
  <2> QED
    BY <1>1, <1>5, <2>1, <2>2, <2>3 DEF MapsInv
<1>8. TypeOK'
  <2>1. faults' \in 0 .. MaxFaults
    <3>1. faults \in 0 .. MaxFaults /\ MaxFaults \in Nat
      BY <1>1, IngestAssumption DEF TypeOK, IngestTypeOK
    <3> QED
      BY <3>1 DEF WriteLine, WriteHalf
  <2>2. /\ up \in BOOLEAN /\ map \in Rows /\ stage \in 1 .. 4
        /\ servers \in [Rows -> [active: BOOLEAN, from: 1 .. MaxFiles + 1]]
    BY <1>1, StageNames DEF TypeOK, IngestTypeOK
  <2> QED
    BY <1>1, <1>5, <2>1, <2>2, TypesKept
<1>9. ProjectorInv'
  BY <1>1, ProjectorKept DEF worker
<1>10. \A r \in Rows : servers'[r].from = servers[r].from
  BY <1>1
<1> QED
  BY <1>1, <1>6, <1>7, <1>8, <1>9, <1>10, WorkerKept DEF PipelineInv

LEMMA RebootStep ==
  ASSUME PipelineInv, Reboot, UNCHANGED <<projection, release>>
  PROVE  PipelineInv'
<1>1. /\ map' = map /\ stage' = stage /\ servers' = servers /\ faults' = faults /\ up' = TRUE
      /\ files' = Opened(map) /\ Len(files) < MaxFiles
      /\ UNCHANGED <<worker, parser, straddled>>
      /\ TypeOK /\ MapsInv /\ ProjectorInv /\ map \in Rows
  BY DEF Reboot, PipelineInv, TypeOK, IngestTypeOK
<1>2. stage \in {1, 2, 4} /\ stage # 2
  BY <1>1, RowTypes, StageNames DEF Reboot, RebooterRuns
<1>3. /\ FilesGrow /\ Len(files') = Len(files) + 1
      /\ Files' = 1 .. Len(files) + 1 /\ Len(files) \in Nat /\ Files = 1 .. Len(files)
      /\ \A f \in Files : files'[f] = files[f]
      /\ files'[Len(files) + 1].map = map
  BY <1>1, FilesOpened DEF Files
<1>4. MapsInv'
  <2>1. UNCHANGED <<sweep, raw, log>> /\ \A i : KeyOf(i)' = KeyOf(i)
    BY <1>1 DEF worker, KeyOf
  <2>2. \A f \in Files' : f \in Files \/ f = Len(files) + 1
    BY <1>3
  <2>3. stage <= 3 => \A f \in Files' : files'[f].map = Old
    BY <1>1, <1>3, <2>2 DEF MapsInv
  <2>4. stage = 4 => \A f \in Files' :
                       files'[f].map = IF f < servers[New].from THEN Old ELSE New
    <3> SUFFICES ASSUME stage = 4, NEW f \in Files'
                 PROVE  files'[f].map = IF f < servers[New].from THEN Old ELSE New
      OBVIOUS
    <3>1. /\ servers[New].from \in Nat /\ servers[New].from <= Len(files) /\ map = New
          /\ f \in Files => files[f].map = IF f < servers[New].from THEN Old ELSE New
      BY <1>1, RowTypes DEF MapsInv, Rows
    <3> QED
      BY <1>3, <2>2, <3>1
  <2>5. stage = 4 => servers[New].from <= Len(files')
    <3>1. servers[New].from \in Nat
      BY <1>1, RowTypes DEF Rows
    <3> QED
      BY <1>1, <1>3, <3>1 DEF MapsInv
  <2> QED
    BY <1>1, <1>2, <2>1, <2>3, <2>4, <2>5 DEF MapsInv
<1>5. TypeOK'
  BY <1>1, <1>3, StageNames, TypesKept DEF FilesGrow, TypeOK, IngestTypeOK
<1>6. ProjectorInv'
  BY <1>1, ProjectorKept DEF worker
<1>7. \A r \in Rows : servers'[r].from = servers[r].from
  BY <1>1
<1> QED
  BY <1>1, <1>3, <1>4, <1>5, <1>6, <1>7, WorkerKept DEF PipelineInv

LEMMA FilesSame ==
  ASSUME PipelineInv, files' = files
  PROVE  FilesGrow /\ Files' = Files
<1>1. /\ files \in Seq(FileState) /\ Len(files) \in 1 .. MaxFiles /\ MaxFiles \in Nat
      /\ \A f \in 1 .. Len(files) : files[f].torn => files[f].whole < MaxLines
  BY IngestAssumption DEF PipelineInv, FilesInv, TypeOK, IngestTypeOK, FileState, Files
<1>2. \A f \in 1 .. Len(files) : files[f].whole \in Nat
  BY FileTypes, IngestAssumption DEF PipelineInv, Files
<1> QED
  BY <1>1, <1>2 DEF FilesGrow, Files

LEMMA CutoverStep ==
  ASSUME PipelineInv, StepCutover, UNCHANGED <<projection, release>>
  PROVE  PipelineInv'
<1>1. /\ UNCHANGED <<worker, parser, faults, straddled>>
      /\ TypeOK /\ MapsInv /\ ProjectorInv /\ FilesInv
      /\ stage = 1 \/ stage = 2 \/ stage = 3
      /\ stage' = stage + 1
      /\ Len(files) \in 1 .. MaxFiles /\ MaxFiles \in Nat /\ Files = 1 .. Len(files)
  <2>1. TypeOK /\ MapsInv /\ ProjectorInv /\ FilesInv
    BY DEF PipelineInv
  <2>2. UNCHANGED <<worker, parser, faults, straddled>> /\ stage < 4 /\ stage' = stage + 1
    BY StageNames DEF StepCutover
  <2>3. stage \in 1 .. 4 /\ MaxFiles \in Nat
    BY <2>1, RowTypes
  <2> QED
    BY <2>1, <2>2, <2>3 DEF FilesInv, Files
<1>2. /\ stage = 1 => up' = FALSE /\ map' = map /\ files' = files /\ servers' = servers
      /\ stage = 2 => up' = up /\ map' = map /\ files' = files /\ servers' = Cutover
      /\ stage = 3 => /\ up' = TRUE /\ map' = New /\ files' = Opened(New) /\ servers' = servers
                      /\ Len(files) < MaxFiles
  <2>1. CASE stage = 1
    <3>1. Stages[stage + 1] = "stopped"
      BY <2>1, StageNames
    <3> QED
      BY <2>1, <3>1 DEF StepCutover
  <2>2. CASE stage = 2
    <3>1. Stages[stage + 1] = "applied"
      BY <2>2, StageNames
    <3> QED
      BY <2>2, <3>1 DEF StepCutover
  <2>3. CASE stage = 3
    <3>1. Stages[stage + 1] = "switched"
      BY <2>3, StageNames
    <3> QED
      BY <2>3, <3>1 DEF StepCutover
  <2> QED
    BY <1>1, <2>1, <2>2, <2>3
<1>3. /\ up \in BOOLEAN /\ map \in Rows /\ faults \in 0 .. MaxFaults
      /\ servers \in [Rows -> [active: BOOLEAN, from: 1 .. MaxFiles + 1]]
  BY <1>1 DEF TypeOK, IngestTypeOK
<1>4. ASSUME stage = 2
      PROVE  /\ servers' \in [Rows -> [active: BOOLEAN, from: 1 .. MaxFiles + 1]]
             /\ servers'[Old].active = FALSE /\ servers'[Old].from = servers[Old].from
             /\ servers'[New].active = TRUE /\ servers'[New].from = Len(files) + 1
  <2>1. servers' = [servers EXCEPT ![Old].active = FALSE,
                                   ![New] = [active |-> TRUE, from |-> Len(files) + 1]]
    BY <1>2, <1>4 DEF Cutover
  <2>2. Len(files) + 1 \in 1 .. MaxFiles + 1 /\ Old # New /\ Old \in Rows /\ New \in Rows
    BY <1>1, IngestAssumption DEF Rows
  <2>3. [active |-> TRUE, from |-> Len(files) + 1] \in [active: BOOLEAN, from: 1 .. MaxFiles + 1]
    BY <2>2
  <2> QED
    BY <1>3, <2>1, <2>2, <2>3
<1>5. ASSUME stage = 3
      PROVE  /\ FilesGrow /\ Len(files') = Len(files) + 1
             /\ Files' = 1 .. Len(files) + 1
             /\ \A f \in Files : files'[f] = files[f]
             /\ files'[Len(files) + 1].map = New
  BY <1>2, <1>5, FilesOpened DEF Rows
<1>6. FilesGrow
  BY <1>1, <1>2, <1>5, FilesSame
<1>7. TypeOK'
  <2>1. up' \in BOOLEAN /\ map' \in Rows /\ stage' \in 1 .. 4 /\ faults' \in 0 .. MaxFaults
    <3>1. up' \in BOOLEAN
      <4>1. up' = FALSE \/ up' = TRUE \/ up' = up
        BY <1>1, <1>2
      <4> QED
        BY <1>3, <4>1
    <3>2. map' \in Rows
      BY <1>1, <1>2, <1>3 DEF Rows
    <3>3. stage' \in 1 .. 4 /\ faults' = faults
      BY <1>1
    <3> QED
      BY <1>3, <3>1, <3>2, <3>3
  <2>2. servers' \in [Rows -> [active: BOOLEAN, from: 1 .. MaxFiles + 1]]
    <3>1. CASE stage = 2
      BY <1>4, <3>1
    <3>2. CASE stage # 2
      <4>1. servers' = servers
        BY <1>1, <1>2, <3>2
      <4> QED
        BY <1>3, <4>1
    <3> QED
      BY <3>1, <3>2
  <2> QED
    BY <1>1, <1>6, <2>1, <2>2, TypesKept DEF FilesGrow
<1>8. MapsInv'
  <2>1. UNCHANGED <<sweep, raw, log>> /\ \A i : KeyOf(i)' = KeyOf(i)
    BY <1>1 DEF worker, KeyOf
  <2>2. CASE stage = 1
    <3>1. Files' = Files /\ Len(files') = Len(files)
      BY <1>2, <2>2, FilesSame
    <3> QED
      BY <1>1, <1>2, <2>1, <2>2, <3>1 DEF MapsInv
  <2>3. CASE stage = 2
    <3>1. Files' = Files /\ Len(files') = Len(files)
      BY <1>2, <2>3, FilesSame
    <3>2. /\ servers'[Old].active = FALSE /\ servers'[Old].from = servers[Old].from
          /\ servers'[New].active = TRUE /\ servers'[New].from = Len(files) + 1
      BY <1>4, <2>3
    <3>4. stage' = 3 /\ files' = files /\ map' = map
      BY <1>1, <1>2, <2>3
    <3>3. servers[Old].from = 1 /\ map = Old /\ \A f \in Files : files[f].map = Old
      BY <1>1, <2>3 DEF MapsInv
    <3> QED
      BY <3>1, <3>2, <3>3, <3>4 DEF MapsInv
  <2>4. CASE stage = 3
    <3>1. servers[New].from = Len(files) + 1 /\ \A f \in Files : files[f].map = Old
      BY <1>1, <2>4 DEF MapsInv
    <3>2. \A f \in Files' : files'[f].map = IF f < servers[New].from THEN Old ELSE New
      <4>1. \A f \in Files' : f \in Files \/ f = Len(files) + 1
        BY <1>1, <1>5, <2>4
      <4> QED
        BY <1>1, <1>5, <2>4, <3>1, <4>1
    <3> QED
      BY <1>1, <1>2, <1>5, <2>1, <2>4, <3>1, <3>2 DEF MapsInv
  <2> QED
    BY <1>1, <2>2, <2>3, <2>4
<1>9. ProjectorInv'
  BY <1>1, ProjectorKept DEF worker
<1>10. \A r \in Rows : servers'[r].from = servers[r].from \/ (r = New /\ stage <= 2)
  <2>1. CASE stage = 2
    BY <1>4, <2>1 DEF Rows
  <2>2. CASE stage # 2
    BY <1>1, <1>2, <2>2
  <2> QED
    BY <2>1, <2>2
<1> QED
  BY <1>1, <1>6, <1>7, <1>8, <1>9, <1>10, WorkerKept DEF PipelineInv

-----------------------------------------------------------------------------
\* The worker: what all its steps share.

LEMMA WorkerTyped ==
  ASSUME TypeOK, UNCHANGED <<game, servers, parser, projection, release>>,
         adm' \in [Rows \X FileIds -> {None} \cup [line: 0 .. MaxLines, complete: BOOLEAN]],
         raw' \subseteq [row: Rows, file: FileIds, line: Lines, whole: BOOLEAN],
         log' \in Seq(Entry), Len(log) <= Len(log'),
         sweep' \in SweepState, faults' \in 0 .. MaxFaults, missed' \subseteq FileIds,
         overtaken' \subseteq 1 .. Len(log'), straddled' \in BOOLEAN
  PROVE  TypeOK'
<1>1. /\ UNCHANGED <<up, map, files, stage, servers, parser, cursor, folded, batch, fleet, halfBuilt>>
      /\ IngestTypeOK
  BY DEF TypeOK, game, projection, release
<1>2. IngestTypeOK'
  BY <1>1 DEF IngestTypeOK
<1>3. /\ log \in Seq(Entry) /\ Len(log) \in Nat /\ Len(log') \in Nat
      /\ 1 .. Len(log) \subseteq 1 .. Len(log')
  <2>1. log \in Seq(Entry)
    BY <1>1 DEF IngestTypeOK
  <2>2. Len(log) \in Nat /\ Len(log') \in Nat
    BY <2>1, LenProperties
  <2> QED
    BY <2>1, <2>2
<1>4. folded' \in Seq(1 .. Len(log'))
  <2>1. folded \in Seq(1 .. Len(log))
    BY DEF TypeOK
  <2> DEFINE S == 1 .. Len(log)
             T == 1 .. Len(log')
  <2>2. Seq(S) \subseteq Seq(T)
    <3> HIDE DEF S, T
    <3> SUFFICES ASSUME S \subseteq T PROVE Seq(S) \subseteq Seq(T)
      BY <1>3 DEF S, T
    <3> QED
      OBVIOUS
  <2> QED
    BY <1>1, <2>1, <2>2
<1>5. cursor' \in 0 .. Len(log') /\ batch' \in {None} \cup ((SUBSET (1 .. Len(log'))) \ {{}})
  BY <1>1, <1>3 DEF TypeOK
<1> QED
  BY <1>1, <1>2, <1>4, <1>5 DEF TypeOK

\* What the order of the log says of its old events stands.
LEMMA OldOrder ==
  ASSUME PipelineInv, TypeOK', Onward, servers' = servers,
         \A i \in DOMAIN log : KeyOf(i)' = KeyOf(i) /\ (LineEvent(i)' => LineEvent(i))
  PROVE  /\ \A i, j \in DOMAIN log :
              /\ LineEvent(i)' /\ LineEvent(j)' /\ i < j /\ (KeyOf(i).row)' = (KeyOf(j).row)'
              => \/ (KeyOf(i).file < KeyOf(j).file)'
                 \/ (KeyOf(i).file = KeyOf(j).file /\ KeyOf(i).line < KeyOf(j).line)'
                 \/ (KeyOf(i).file # KeyOf(j).file /\ KeyOf(j).file \in missed)'
         /\ \A i \in DOMAIN log : LineEvent(i)' =>
              /\ \A l \in 1 .. (KeyOf(i).line)' - 1 :
                   \/ Logged(KeyOf(i).row, KeyOf(i).file, l)'
                   \/ Passed(KeyOf(i).row, KeyOf(i).file, l)'
              /\ \A f \in 1 .. (KeyOf(i).file)' - 1 : Gone(KeyOf(i).row, f)'
<1>1. TypeOK /\ OrderInv
  BY DEF PipelineInv
<1>2. \A i \in DOMAIN log : /\ KeyOf(i).row \in Rows /\ KeyOf(i).file \in FileIds
                            /\ KeyOf(i).line \in Nat /\ KeyOf(i).line \in 1 .. MaxLines
  BY <1>1, LogTypes DEF Keys, Lines
<1>3. \A i, j \in DOMAIN log :
       /\ LineEvent(i)' /\ LineEvent(j)' /\ i < j /\ (KeyOf(i).row)' = (KeyOf(j).row)'
       => \/ (KeyOf(i).file < KeyOf(j).file)'
          \/ (KeyOf(i).file = KeyOf(j).file /\ KeyOf(i).line < KeyOf(j).line)'
          \/ (KeyOf(i).file # KeyOf(j).file /\ KeyOf(j).file \in missed)'
  BY <1>1 DEF OrderInv, Onward
<1>4. ASSUME NEW i \in DOMAIN log, LineEvent(i)'
      PROVE  /\ \A l \in 1 .. (KeyOf(i).line)' - 1 :
                  \/ Logged(KeyOf(i).row, KeyOf(i).file, l)'
                  \/ Passed(KeyOf(i).row, KeyOf(i).file, l)'
             /\ \A f \in 1 .. (KeyOf(i).file)' - 1 : Gone(KeyOf(i).row, f)'
  <2> DEFINE r == KeyOf(i).row
             g == KeyOf(i).file
             n == KeyOf(i).line
  <2>1. /\ r \in Rows /\ g \in FileIds /\ n \in 1 .. MaxLines /\ LineEvent(i)
        /\ \A l \in 1 .. n - 1 : Logged(r, g, l) \/ Passed(r, g, l)
        /\ \A f \in 1 .. g - 1 : Gone(r, f)
    BY <1>1, <1>2, <1>4 DEF OrderInv
  <2>2. r' = r /\ g' = g /\ n' = n
    BY <1>4
  <2> HIDE DEF r, g, n
  <2>3. \A l \in 1 .. n - 1 : Logged(r, g, l)' \/ Passed(r, g, l)'
    <3> SUFFICES ASSUME NEW l \in 1 .. n - 1 PROVE Logged(r, g, l)' \/ Passed(r, g, l)'
      OBVIOUS
    <3>1. /\ Logged(r, g, l) => (\E i_1 \in Visible' : KeyOf(i_1)' = EventKey(r, g, l))
          /\ Passed(r, g, l) => adm'[<<r, g>>] # None /\ l <= adm'[<<r, g>>].line
      <4>1. l \in Nat /\ (adm[<<r, g>>] # None => adm[<<r, g>>].line \in Nat)
            /\ (adm'[<<r, g>>] # None => adm'[<<r, g>>].line \in Nat)
        BY <1>1, <2>1 DEF TypeOK, IngestTypeOK
      <4> QED
        BY <2>1, <4>1 DEF Onward, Logged, Passed
    <3> QED
      BY <2>1, <2>2, <3>1 DEF Logged, Passed, EventKey
  <2>4. \A f \in 1 .. g - 1 : Gone(r, f)'
    <3> SUFFICES ASSUME NEW f \in 1 .. g - 1 PROVE Gone(r, f)'
      OBVIOUS
    <3>1. f \in FileIds /\ Gone(r, f)
      BY <1>1, <2>1, RowTypes DEF FileIds
    <3> QED
      BY <2>1, <2>2, <3>1 DEF Onward, Gone, Closed
  <2> QED
    BY <2>2, <2>3, <2>4 DEF r, g, n
<1> QED
  BY <1>3, <1>4

\* So does the order, while events only come to an end.
LEMMA OrderKept ==
  ASSUME PipelineInv, TypeOK', Onward, servers' = servers, DOMAIN log' = DOMAIN log,
         \A i \in DOMAIN log : KeyOf(i)' = KeyOf(i) /\ (LineEvent(i)' => LineEvent(i))
  PROVE  OrderInv'
  BY OldOrder DEF OrderInv

LEMMA CursorKept ==
  ASSUME PipelineInv, TypeOK', Onward, adm' = adm
  PROVE  CursorBehindTheLog'
<1> SUFFICES ASSUME NEW r \in Rows, NEW f \in FileIds, adm[<<r, f>>] # None,
                    NEW l \in 1 .. adm[<<r, f>>].line
             PROVE  Logged(r, f, l)' \/ HalfRead(r, f, l)'
  BY DEF CursorBehindTheLog, Logged, HalfRead, EventKey
<1>1. Logged(r, f, l) \/ HalfRead(r, f, l)
  BY DEF PipelineInv, CursorBehindTheLog, Logged, HalfRead, EventKey
<1> QED
  BY <1>1 DEF Onward, Logged, HalfRead, EventKey

\* The parts that only the tables of files and lines can disturb.
LEMMA TablesKept ==
  ASSUME PipelineInv, UNCHANGED <<game, servers, adm, raw>>, straddled => straddled',
         \A i \in DOMAIN log' : i \in DOMAIN log /\ KeyOf(i)' = KeyOf(i),
         stage <= 2 => sweep'.row # New /\ New \notin sweep'.todo
  PROVE  FilesInv' /\ MapsInv' /\ LinesUnderTheirMap'
<1>1. /\ UNCHANGED <<up, map, files, stage, servers, adm, raw>> /\ Files' = Files
      /\ FilesInv /\ MapsInv /\ LinesUnderTheirMap
  BY DEF game, PipelineInv, Files
<1>2. FilesInv'
  BY <1>1 DEF FilesInv
<1>3. MapsInv'
  BY <1>1 DEF MapsInv
<1>4. LinesUnderTheirMap'
  BY <1>1 DEF LinesUnderTheirMap
<1> QED
  BY <1>2, <1>3, <1>4

LEMMA SweepTyped ==
  ASSUME TypeOK, sweep' \in SweepState, faults' \in 0 .. MaxFaults, missed' \subseteq FileIds,
         straddled' \in BOOLEAN,
         UNCHANGED <<game, servers, adm, raw, log, parser, overtaken, projection, release>>
  PROVE  TypeOK'
<1>1. /\ adm \in [Rows \X FileIds -> {None} \cup [line: 0 .. MaxLines, complete: BOOLEAN]]
      /\ raw \subseteq [row: Rows, file: FileIds, line: Lines, whole: BOOLEAN]
      /\ log \in Seq(Entry) /\ overtaken \subseteq 1 .. Len(log)
  BY DEF TypeOK, IngestTypeOK
<1>2. Len(log) <= Len(log')
  <2>1. Len(log) \in Nat
    BY LogTypes
  <2> QED
    BY <2>1
<1> QED
  BY <1>1, <1>2, WorkerTyped

\* A step of the worker that leaves the log alone.
LEMMA LogRests ==
  ASSUME PipelineInv, TypeOK', fleet = "up", sweep.pc # "commit", Onward,
         UNCHANGED <<servers, log, overtaken, projection, release>>
  PROVE  LogInv' /\ OrderInv' /\ ProjectorInv'
<1>1. LogInv'
  <2>1. InFlight("ingest") = {}
    BY DEF PipelineInv, LogInv
  <2>2. \A by : InFlight(by)' = InFlight(by)
    BY DEF InFlight
  <2>3. Present' = Present /\ \A i : KeyOf(i)' = KeyOf(i)
    BY DEF Present, KeyOf
  <2> QED
    BY <2>1, <2>2, <2>3 DEF PipelineInv, LogInv
<1>2. OrderInv'
  <2>1. \A i \in DOMAIN log : KeyOf(i)' = KeyOf(i) /\ (LineEvent(i)' => LineEvent(i))
    BY DEF KeyOf, LineEvent, Present
  <2> QED
    BY <2>1, OrderKept
<1>3. ProjectorInv'
  <2>1. UNCHANGED <<cursor, folded, batch, fleet, halfBuilt>> /\ Visible' = Visible
    BY DEF projection, release, Visible
  <2> QED
    BY <2>1 DEF PipelineInv, ProjectorInv
<1> QED
  BY <1>1, <1>2, <1>3

\* A step of the sweep after which no file is in hand.
LEMMA BetweenFiles ==
  ASSUME PipelineInv, TypeOK', fleet = "up", sweep.pc # "commit", Onward,
         UNCHANGED <<servers, log, overtaken, projection, release>>,
         FilesInv', MapsInv', LinesUnderTheirMap', CursorBehindTheLog',
         sweep'.pc \in {"idle", "server", "file"}, sweep'.pc = "file" => Place'
  PROVE  PipelineInv'
<1>1. SweepInv' /\ LinesBehind'
  BY DEF SweepInv, LinesBehind, InFile, Reading
<1> QED
  BY <1>1, LogRests DEF PipelineInv

LEMMA NextServerTyped ==
  ASSUME NEW todo \in SUBSET Rows
  PROVE  /\ NextServer(todo) \in SweepState
         /\ NextServer(todo).pc \in {"idle", "server"} /\ NextServer(todo).row = None
         /\ NextServer(todo).todo = todo
<1>1. Idle \in SweepState /\ Idle.pc = "idle" /\ Idle.row = None /\ Idle.todo = {}
  BY IngestAssumption DEF Idle, SweepState, Rows
<1>2. CASE todo = {}
  BY <1>1, <1>2 DEF NextServer
<1>3. CASE todo # {}
  BY <1>1, <1>3 DEF NextServer, SweepState
<1> QED
  BY <1>2, <1>3

LEMMA NextFileTyped ==
  ASSUME TypeOK, sweep.file \in 1 .. sweep.listed,
         NEW budget \in 0 .. BackfillBudget, NEW caughtUp \in BOOLEAN
  PROVE  LET next == NextFile(budget, caughtUp)
         IN  /\ next \in SweepState /\ next.pc \in {"idle", "server", "file"}
             /\ next.todo = sweep.todo /\ next.row \in {None, sweep.row}
             /\ next.pc = "file" => /\ sweep.file < sweep.listed
                                    /\ next.row = sweep.row /\ next.listed = sweep.listed
                                    /\ next.file = sweep.file + 1
                                    /\ next.budget = budget /\ next.caughtUp = caughtUp
<1>1. /\ sweep \in SweepState /\ sweep.todo \in SUBSET Rows
      /\ sweep.file \in 0 .. MaxFiles /\ sweep.listed \in 0 .. MaxFiles
      /\ MaxFiles \in Nat /\ MaxLines \in Nat /\ BackfillBudget \in Nat
  BY SweepTypes, IngestAssumption
<1>2. CASE sweep.file = sweep.listed
  <2>1. NextFile(budget, caughtUp) = NextServer(sweep.todo)
    BY <1>2 DEF NextFile
  <2>2. "file" \notin {"idle", "server"}
    OBVIOUS
  <2> QED
    BY <1>1, <2>1, <2>2, NextServerTyped
<1>3. CASE sweep.file # sweep.listed
  <2> DEFINE next == [sweep EXCEPT !.pc = "file", !.file = sweep.file + 1, !.budget = budget,
                     !.caughtUp = caughtUp, !.whole = 0, !.torn = FALSE, !.line = 0]
  <2>1. NextFile(budget, caughtUp) = next
    BY <1>3 DEF NextFile
  <2>2. sweep.file < sweep.listed /\ sweep.file + 1 \in 0 .. MaxFiles
    <3> DEFINE n == sweep.file
               m == sweep.listed
    <3>1. n \in 1 .. m /\ m \in 0 .. MaxFiles /\ n # m /\ MaxFiles \in Nat
      BY <1>1, <1>3
    <3> HIDE DEF n, m
    <3>2. n < m /\ n + 1 \in 0 .. MaxFiles
      BY <3>1
    <3> QED
      BY <3>2 DEF n, m
  <2>3. next \in SweepState
    <3>1. 0 \in 0 .. MaxLines /\ 0 \in 0 .. MaxLines + 1
      BY <1>1
    <3> QED
      BY <1>1, <2>2, <3>1 DEF SweepState
  <2>4. /\ next.pc = "file" /\ next.todo = sweep.todo /\ next.row = sweep.row
        /\ next.listed = sweep.listed /\ next.file = sweep.file + 1
        /\ next.budget = budget /\ next.caughtUp = caughtUp
    BY <1>1 DEF SweepState
  <2> HIDE DEF next
  <2> QED
    BY <2>1, <2>2, <2>3, <2>4
<1> QED
  BY <1>2, <1>3

\* The place of the next file, once the one in hand is not to be read again or the
\* budget is spent.
LEMMA NextPlace ==
  ASSUME PipelineInv, TypeOK', Onward, UNCHANGED <<game, servers, straddled>>, Reading,
         NEW r \in Rows, r = sweep.row, NEW n, n = sweep.file, NEW listed, listed = sweep.listed,
         NEW budget \in 0 .. BackfillBudget, NEW caughtUp \in BOOLEAN,
         sweep' = NextFile(budget, caughtUp), sweep'.pc = "file",
         \A f \in 1 .. n - 1 : Gone(r, f) \/ (budget = 0 /\ ~caughtUp),
         Gone(r, n)' \/ (budget = 0 /\ ~caughtUp),
         \A f \in FileIds : Closed(r, f)' => f < listed
  PROVE  Place'
<1>1. /\ TypeOK /\ Place /\ listed \in Files /\ n \in 1 .. listed
      /\ straddled \/ \A f \in 1 .. listed : f < servers[r].from \/ files[f].map = r
  BY DEF PipelineInv, SweepInv, Place
<1>2. /\ sweep'.row = r /\ sweep'.listed = listed /\ sweep'.file = n + 1 /\ n < listed
      /\ sweep'.budget = budget /\ sweep'.caughtUp = caughtUp
  <2>1. sweep.file \in 1 .. sweep.listed
    BY <1>1
  <2> QED
    BY <1>1, <2>1, NextFileTyped
<1>3. Files' = Files /\ files' = files /\ listed \in 1 .. MaxFiles /\ MaxFiles \in Nat
  BY <1>1, RowTypes, FileTypes DEF game, Files, PipelineInv, FilesInv
<1>4. \A f \in 1 .. n : Gone(r, f)' \/ (budget = 0 /\ ~caughtUp)
  <2> SUFFICES ASSUME NEW f \in 1 .. n PROVE Gone(r, f)' \/ (budget = 0 /\ ~caughtUp)
    OBVIOUS
  <2>1. CASE f = n
    BY <2>1
  <2>2. CASE f # n
    <3>1. f \in 1 .. n - 1 /\ f \in FileIds
      BY <1>1, <1>3, <2>2 DEF FileIds
    <3> QED
      BY <1>1, <3>1, StillRead
  <2> QED
    BY <2>1, <2>2
<1>5. \A f \in 1 .. n + 1 - 1 : Gone(r, f)' \/ (budget = 0 /\ ~caughtUp)
  BY <1>1, <1>3, <1>4
<1>6. straddled' \/ \A f \in 1 .. listed : f < servers'[r].from \/ files'[f].map = r
  BY <1>1, <1>3
<1>7. \A f \in 1 .. n + 1 - 1 : Gone(sweep.row, f)' <=> Gone(r, f)'
  BY <1>2 DEF Gone, Closed
<1>8. \A f : Closed(sweep.row, f)' <=> Closed(r, f)'
  BY <1>2 DEF Closed
<1> QED
  BY <1>1, <1>2, <1>3, <1>5, <1>6, <1>7, <1>8 DEF Place

-----------------------------------------------------------------------------
\* The sweep's moves between files.

LEMMA StartSweepStep ==
  ASSUME PipelineInv, StartSweep, fleet = "up", UNCHANGED <<projection, release>>
  PROVE  PipelineInv'
<1> DEFINE todo == {r \in Rows : servers[r].active}
<1>1. /\ UNCHANGED <<game, servers, adm, raw, log, parser, faults, missed, overtaken, straddled>>
      /\ sweep.pc = "idle" /\ sweep' = NextServer(todo) /\ todo \in SUBSET Rows
      /\ TypeOK /\ MapsInv
  BY DEF StartSweep, PipelineInv
<1>2. /\ sweep' \in SweepState /\ sweep'.pc \in {"idle", "server"} /\ sweep'.row = None
      /\ sweep'.todo = todo
  <2> HIDE DEF todo
  <2> QED
    BY <1>1, NextServerTyped
<1>3. TypeOK'
  <2>1. faults \in 0 .. MaxFaults /\ missed \subseteq FileIds /\ straddled \in BOOLEAN
    BY <1>1 DEF TypeOK, IngestTypeOK
  <2> QED
    BY <1>1, <1>2, <2>1, SweepTyped
<1>4. Onward
  BY <1>1, Unread
<1>5. stage <= 2 => sweep'.row # New /\ New \notin sweep'.todo
  BY <1>1, <1>2, IngestAssumption, RowTypes DEF MapsInv, Rows
<1>6. \A i \in DOMAIN log' : i \in DOMAIN log /\ KeyOf(i)' = KeyOf(i)
  BY <1>1 DEF KeyOf
<1>7. FilesInv' /\ MapsInv' /\ LinesUnderTheirMap' /\ CursorBehindTheLog'
  BY <1>1, <1>3, <1>4, <1>5, <1>6, TablesKept, CursorKept
<1> QED
  BY <1>1, <1>2, <1>3, <1>4, <1>7, BetweenFiles

LEMMA ListingFailsStep ==
  ASSUME PipelineInv, NEW r \in Rows, ListingFails(r), fleet = "up",
         UNCHANGED <<projection, release>>
  PROVE  PipelineInv'
<1> DEFINE todo == sweep.todo \ {r}
<1>1. /\ UNCHANGED <<game, servers, adm, raw, log, parser, missed, overtaken, straddled>>
      /\ sweep.pc = "server" /\ sweep' = NextServer(todo) /\ todo \in SUBSET Rows
      /\ faults < MaxFaults /\ faults' = faults + 1
      /\ TypeOK /\ MapsInv
  BY SweepTypes DEF ListingFails, PipelineInv
<1>2. /\ sweep' \in SweepState /\ sweep'.pc \in {"idle", "server"} /\ sweep'.row = None
      /\ sweep'.todo = todo
  <2> HIDE DEF todo
  <2> QED
    BY <1>1, NextServerTyped
<1>0. faults' \in 0 .. MaxFaults
  <2>1. faults \in 0 .. MaxFaults /\ MaxFaults \in Nat
    BY <1>1, IngestAssumption DEF TypeOK, IngestTypeOK
  <2> QED
    BY <1>1, <2>1
<1>3. TypeOK'
  <2>1. missed \subseteq FileIds /\ straddled \in BOOLEAN
    BY <1>1 DEF TypeOK, IngestTypeOK
  <2> QED
    BY <1>0, <1>1, <1>2, <2>1, SweepTyped
<1>4. Onward
  BY <1>1, Unread
<1>5. stage <= 2 => sweep'.row # New /\ New \notin sweep'.todo
  BY <1>1, <1>2, IngestAssumption DEF MapsInv
<1>6. \A i \in DOMAIN log' : i \in DOMAIN log /\ KeyOf(i)' = KeyOf(i)
  BY <1>1 DEF KeyOf
<1>7. FilesInv' /\ MapsInv' /\ LinesUnderTheirMap' /\ CursorBehindTheLog'
  BY <1>1, <1>3, <1>4, <1>5, <1>6, TablesKept, CursorKept
<1> QED
  BY <1>1, <1>2, <1>3, <1>4, <1>7, BetweenFiles

LEMMA ListFilesStep ==
  ASSUME PipelineInv, NEW r \in Rows, ListFiles(r), fleet = "up",
         UNCHANGED <<projection, release>>
  PROVE  PipelineInv'
<1>1. /\ UNCHANGED <<game, servers, adm, raw, log, parser, faults, missed, overtaken>>
      /\ sweep.pc = "server" /\ r \in sweep.todo
      /\ straddled' = (straddled \/ ~servers[r].active)
      /\ TypeOK /\ MapsInv /\ FilesInv
  BY DEF ListFiles, PipelineInv
<1>2. /\ sweep'.pc = "file" /\ sweep'.todo = sweep.todo \ {r} /\ sweep'.row = r
      /\ sweep'.listed = Len(files) /\ sweep'.file = 1
  BY DEF ListFiles, Idle
<1>3. /\ Len(files) \in 1 .. MaxFiles /\ MaxFiles \in Nat /\ Files = 1 .. Len(files)
      /\ sweep.todo \subseteq Rows
  BY <1>1, SweepTypes, IngestAssumption DEF FilesInv, Files
<1>4. sweep' \in SweepState
  <2>1. /\ 1 \in 0 .. MaxFiles /\ BackfillBudget \in 0 .. BackfillBudget /\ 0 \in 0 .. MaxLines
        /\ 0 \in 0 .. MaxLines + 1
    BY <1>3, IngestAssumption
  <2>2. sweep' = [pc |-> "file", todo |-> sweep.todo \ {r}, row |-> r, listed |-> Len(files),
                  file |-> 1, budget |-> BackfillBudget, caughtUp |-> TRUE, whole |-> 0,
                  torn |-> FALSE, line |-> 0, sub |-> 0]
    BY DEF ListFiles, Idle
  <2> QED
    BY <1>3, <2>1, <2>2 DEF SweepState
<1>5. TypeOK'
  <2>1. straddled' \in BOOLEAN
    BY <1>1
  <2> QED
    BY <1>1, <1>4, <2>1, SweepTyped DEF TypeOK, IngestTypeOK
<1>6. Onward
  BY <1>1, Unread
<1>7. stage <= 2 => sweep'.row # New /\ New \notin sweep'.todo
  BY <1>1, <1>2 DEF MapsInv
<1>8. \A i \in DOMAIN log' : i \in DOMAIN log /\ KeyOf(i)' = KeyOf(i)
  BY <1>1 DEF KeyOf
<1>9. FilesInv' /\ MapsInv' /\ LinesUnderTheirMap' /\ CursorBehindTheLog'
  BY <1>1, <1>5, <1>6, <1>7, <1>8, TablesKept, CursorKept
<1>10. Place'
  <2>1. \A f \in FileIds : Closed(r, f) => f < Len(files)
    BY <1>1 DEF FilesInv, Closed
  <2>2. ASSUME servers[r].active, NEW f \in Files
        PROVE  f < servers[r].from \/ files[f].map = r
    <3>1. CASE r = Old
      BY <1>1, <2>2, <3>1, RowTypes DEF MapsInv
    <3>2. CASE r = New
      <4>1. stage = 3 \/ stage = 4
        BY <1>1, <2>2, <3>2, RowTypes DEF MapsInv
      <4>2. servers[New].from \in Nat
        BY <1>1, RowTypes DEF Rows
      <4> QED
        BY <1>1, <1>3, <2>2, <3>2, <4>1, <4>2 DEF MapsInv
    <3> QED
      BY <3>1, <3>2 DEF Rows
  <2>3. Files' = Files /\ files' = files
    BY <1>1 DEF game, Files
  <2>4. \A f : Closed(sweep.row, f)' <=> Closed(r, f)
    BY <1>1, <1>2 DEF Closed
  <2>5. straddled' \/ \A f \in 1 .. Len(files) : f < servers'[r].from \/ files'[f].map = r
    <3>1. CASE servers[r].active
      BY <1>1, <1>3, <2>2, <2>3, <3>1
    <3>2. CASE ~servers[r].active
      BY <1>1, <3>2
    <3> QED
      BY <3>1, <3>2
  <2>6. /\ Len(files) \in Files' /\ 1 \in 1 .. Len(files) /\ 1 .. 1 - 1 = {}
        /\ \A f \in FileIds : Closed(sweep.row, f)' => f < Len(files)
    <3>1. \A f \in FileIds : Closed(sweep.row, f)' => f < Len(files)
      BY <1>1, <2>1, <2>4 DEF Closed
    <3> QED
      BY <1>3, <2>3, <3>1
  <2> QED
    <3>1. \A f \in 1 .. sweep'.file - 1 : FALSE
      BY <1>2, <2>6
    <3>2. straddled' \/ \A f \in 1 .. sweep'.listed :
                           f < servers'[sweep'.row].from \/ files'[f].map = sweep'.row
      BY <1>2, <2>5
    <3>3. \A f \in FileIds : Closed(sweep.row, f)' => f < sweep'.listed
      BY <1>2, <2>6
    <3> QED
      BY <1>2, <2>6, <3>1, <3>2, <3>3 DEF Place
<1> QED
  BY <1>1, <1>2, <1>5, <1>6, <1>9, <1>10, BetweenFiles

LEMMA PassOverStep ==
  ASSUME PipelineInv, PassOver, fleet = "up", UNCHANGED <<projection, release>>
  PROVE  PipelineInv'
<1> DEFINE r == sweep.row
           n == sweep.file
           caughtUp == sweep.caughtUp /\ Done(n)
<1>1. /\ UNCHANGED <<game, servers, adm, raw, log, parser, faults, missed, overtaken, straddled>>
      /\ sweep.pc = "file" /\ ~Wanted(n)
      /\ TypeOK /\ MapsInv /\ Place
  BY DEF PassOver, PipelineInv, SweepInv, Reading
<1>2. /\ sweep' = NextFile(sweep.budget, caughtUp)
      /\ caughtUp \in BOOLEAN /\ sweep.budget \in 0 .. BackfillBudget
      /\ sweep.caughtUp \in BOOLEAN
  BY <1>1, SweepTypes DEF PassOver, Done, BeforeCutoff, Newest
<1>3. /\ sweep' \in SweepState /\ sweep'.pc \in {"idle", "server", "file"}
      /\ sweep'.todo = sweep.todo /\ sweep'.row \in {None, sweep.row}
      /\ sweep'.pc = "file" => sweep.file < sweep.listed
  <2>1. sweep.file \in 1 .. sweep.listed
    BY <1>1 DEF Place
  <2> HIDE DEF caughtUp
  <2> QED
    BY <1>1, <1>2, <2>1, NextFileTyped
<1>4. TypeOK'
  BY <1>1, <1>3, SweepTyped DEF TypeOK, IngestTypeOK
<1>5. Onward
  BY <1>1, Unread
<1>6. stage <= 2 => sweep'.row # New /\ New \notin sweep'.todo
  BY <1>1, <1>3, IngestAssumption DEF MapsInv
<1>7. \A i \in DOMAIN log' : i \in DOMAIN log /\ KeyOf(i)' = KeyOf(i)
  BY <1>1 DEF KeyOf
<1>8. FilesInv' /\ MapsInv' /\ LinesUnderTheirMap' /\ CursorBehindTheLog'
  BY <1>1, <1>4, <1>5, <1>6, <1>7, TablesKept, CursorKept
<1>9. ASSUME sweep'.pc = "file" PROVE Place'
  <2>1. /\ r \in Rows /\ n # sweep.listed /\ n \in FileIds
        /\ \A f \in 1 .. n - 1 : Gone(r, f) \/ (sweep.budget = 0 /\ ~sweep.caughtUp)
        /\ \A f \in FileIds : Closed(r, f) => f < sweep.listed
    <3>1. sweep.file \in 1 .. sweep.listed /\ sweep.listed \in 0 .. MaxFiles /\ MaxFiles \in Nat
      BY <1>1, SweepTypes, IngestAssumption DEF Place
    <3> QED
      BY <1>1, <1>3, <1>9, <3>1 DEF Place, FileIds
  <2>2. Gone(r, n) \/ (sweep.budget = 0 /\ ~caughtUp)
    BY <1>1, <2>1 DEF Wanted, Done, OverBudget, Newest, BeforeCutoff, Row, Gone, Closed
  <2>4. \A x \in Rows : x = r => \A f : (Gone(x, f)' <=> Gone(x, f)) /\ (Closed(x, f)' <=> Closed(x, f))
    BY <1>1 DEF Gone, Closed
  <2> PICK x \in Rows : x = r
    BY <2>1
  <2> PICK m : m = n
    OBVIOUS
  <2> PICK listed : listed = sweep.listed
    OBVIOUS
  <2>5. /\ \A f \in 1 .. m - 1 : Gone(x, f) \/ (sweep.budget = 0 /\ ~caughtUp)
        /\ Gone(x, m)' \/ (sweep.budget = 0 /\ ~caughtUp)
        /\ \A f \in FileIds : Closed(x, f)' => f < listed
    BY <2>1, <2>2, <2>4
  <2>6. Reading
    BY <1>1 DEF Reading
  <2> HIDE DEF caughtUp
  <2> PICK b \in 0 .. BackfillBudget : b = sweep.budget
    BY <1>2
  <2> PICK c \in BOOLEAN : c = caughtUp
    BY <1>2
  <2>7. sweep' = NextFile(b, c)
    BY <1>2
  <2>8. /\ \A f \in 1 .. m - 1 : Gone(x, f) \/ (b = 0 /\ ~c)
        /\ Gone(x, m)' \/ (b = 0 /\ ~c)
    BY <2>5
  <2> QED
    BY <1>1, <1>4, <1>5, <1>9, <2>5, <2>6, <2>7, <2>8, NextPlace
<1> QED
  BY <1>1, <1>3, <1>4, <1>5, <1>8, <1>9, BetweenFiles

LEMMA DownloadFailsStep ==
  ASSUME PipelineInv, DownloadFails, fleet = "up", UNCHANGED <<projection, release>>
  PROVE  PipelineInv'
<1> DEFINE r == sweep.row
           n == sweep.file
           budget == BudgetAfter(n)
<1>1. /\ UNCHANGED <<game, servers, adm, raw, log, parser, overtaken, straddled>>
      /\ sweep.pc = "file" /\ Wanted(n) /\ missed' = missed \cup {n}
      /\ sweep' = NextFile(budget, FALSE) /\ faults < MaxFaults /\ faults' = faults + 1
      /\ TypeOK /\ MapsInv /\ Place
  BY DEF DownloadFails, PipelineInv, SweepInv, Reading
<1>2. /\ n \in 1 .. sweep.listed /\ n \in FileIds /\ sweep.budget \in 0 .. BackfillBudget
      /\ BackfillBudget \in Nat
  <2>1. sweep.file \in 1 .. sweep.listed /\ sweep.listed \in 0 .. MaxFiles /\ MaxFiles \in Nat
    BY <1>1, SweepTypes, IngestAssumption DEF Place
  <2> QED
    BY <1>1, <2>1, SweepTypes, IngestAssumption DEF FileIds
<1>3. budget \in 0 .. BackfillBudget /\ (~Newest(n) => sweep.budget # 0)
  BY <1>1, <1>2 DEF BudgetAfter, Wanted, OverBudget
<1>4. /\ sweep' \in SweepState /\ sweep'.pc \in {"idle", "server", "file"}
      /\ sweep'.todo = sweep.todo /\ sweep'.row \in {None, sweep.row}
      /\ sweep'.pc = "file" => sweep.file < sweep.listed
  <2> HIDE DEF budget
  <2> QED
    BY <1>1, <1>2, <1>3, NextFileTyped
<1>5. TypeOK'
  <2>1. faults' \in 0 .. MaxFaults
    <3>1. faults \in 0 .. MaxFaults /\ MaxFaults \in Nat
      BY <1>1, IngestAssumption DEF TypeOK, IngestTypeOK
    <3> QED
      BY <1>1, <3>1
  <2>2. missed' \subseteq FileIds
    BY <1>1, <1>2, RowTypes
  <2> QED
    BY <1>1, <1>4, <2>1, <2>2, SweepTyped DEF TypeOK, IngestTypeOK
<1>6. Onward
  <2>1. \A x \in Rows, f \in FileIds : adm[<<x, f>>] # None => adm[<<x, f>>].line \in Nat
    BY <1>1, RowTypes
  <2>2. Visible' = Visible /\ \A i : KeyOf(i)' = KeyOf(i)
    BY <1>1 DEF Visible, KeyOf
  <2> QED
    BY <1>1, <2>1, <2>2 DEF Onward
<1>7. stage <= 2 => sweep'.row # New /\ New \notin sweep'.todo
  BY <1>1, <1>4, IngestAssumption DEF MapsInv
<1>8. \A i \in DOMAIN log' : i \in DOMAIN log /\ KeyOf(i)' = KeyOf(i)
  BY <1>1 DEF KeyOf
<1>9. FilesInv' /\ MapsInv' /\ LinesUnderTheirMap' /\ CursorBehindTheLog'
  BY <1>1, <1>5, <1>6, <1>7, <1>8, TablesKept, CursorKept
<1>10. ASSUME sweep'.pc = "file" PROVE Place'
  <2>1. /\ r \in Rows /\ sweep.budget # 0
        /\ \A f \in 1 .. n - 1 : Gone(r, f) \/ sweep.budget = 0
        /\ \A f \in FileIds : Closed(r, f) => f < sweep.listed
    <3>1. sweep.file # sweep.listed
      <4>1. sweep.file < sweep.listed /\ sweep.file \in Nat
        BY <1>2, <1>4, <1>10 DEF FileIds
      <4> QED
        BY <4>1
    <3>2. sweep.budget # 0
      BY <1>3, <3>1 DEF Newest
    <3> QED
      BY <1>1, <3>2 DEF Place
  <2>2. \A x \in Rows, f \in FileIds : Closed(x, f)' <=> Closed(x, f)
    BY <1>1 DEF Closed
  <2> PICK x \in Rows : x = r
    BY <2>1
  <2> PICK m : m = n
    OBVIOUS
  <2> PICK listed : listed = sweep.listed
    OBVIOUS
  <2>3. \A f \in 1 .. m - 1 : Gone(x, f)
    BY <2>1
  <2>4. Gone(x, m)'
    BY <1>1 DEF Gone
  <2>5. \A f \in FileIds : Closed(x, f)' => f < listed
    BY <2>1, <2>2
  <2>6. Reading
    BY <1>1 DEF Reading
  <2> HIDE DEF budget
  <2> PICK b \in 0 .. BackfillBudget : b = budget
    BY <1>3
  <2> PICK c \in BOOLEAN : c = FALSE
    OBVIOUS
  <2>7. sweep' = NextFile(b, c)
    BY <1>1
  <2> QED
    BY <1>1, <1>5, <1>6, <1>10, <2>3, <2>4, <2>5, <2>6, <2>7, NextPlace
<1> QED
  BY <1>1, <1>4, <1>5, <1>6, <1>9, <1>10, BetweenFiles

LEMMA SaveCursorStep ==
  ASSUME PipelineInv, SaveCursor, fleet = "up", UNCHANGED <<projection, release>>
  PROVE  PipelineInv'
<1> DEFINE r == sweep.row
           n == sweep.file
           saved == [line |-> Total, complete |-> ~Newest(n)]
<1>1. /\ UNCHANGED <<game, servers, raw, log, parser, faults, missed, overtaken, straddled>>
      /\ sweep.pc = "line" /\ sweep.line > Total
      /\ adm' = [adm EXCEPT ![<<r, n>>] = saved]
      /\ sweep' = NextFile(sweep.budget, sweep.caughtUp)
      /\ TypeOK /\ MapsInv /\ FilesInv /\ Place /\ InHand /\ LinesBehind /\ CursorBehindTheLog
  BY DEF SaveCursor, PipelineInv, SweepInv, Reading, InFile
<1>2. /\ n \in 1 .. sweep.listed /\ n \in FileIds /\ r \in Rows /\ <<r, n>> \in Rows \X FileIds
      /\ sweep.budget \in 0 .. BackfillBudget /\ sweep.caughtUp \in BOOLEAN
      /\ sweep.listed \in 1 .. Len(files) /\ Len(files) \in Nat
  <2>1. sweep.file \in 1 .. sweep.listed /\ sweep.listed \in 0 .. MaxFiles /\ MaxFiles \in Nat
    BY <1>1, SweepTypes, IngestAssumption DEF Place
  <2> QED
    BY <1>1, <2>1, SweepTypes, FileTypes DEF FileIds, Place
<1>3. /\ sweep' \in SweepState /\ sweep'.pc \in {"idle", "server", "file"}
      /\ sweep'.todo = sweep.todo /\ sweep'.row \in {None, sweep.row}
      /\ sweep'.pc = "file" => sweep.file < sweep.listed
  BY <1>1, <1>2, NextFileTyped
<1>4. /\ Total \in 0 .. MaxLines /\ sweep.line = Total + 1
      /\ Total <= files[n].whole + (IF files[n].torn THEN 1 ELSE 0)
  <2>1. /\ sweep.line \in Nat /\ sweep.line <= Total + 1 /\ sweep.whole \in 0 .. MaxLines
        /\ Total \in Nat /\ MaxLines \in Nat
        /\ Total = IF sweep.torn THEN sweep.whole + 1 ELSE sweep.whole
    BY <1>1, SweepTypes, RowTypes DEF InHand, Total
  <2>2. /\ sweep.whole <= files[n].whole
        /\ sweep.torn => /\ sweep.whole < MaxLines
                         /\ sweep.whole < files[n].whole \/ files[n].torn
    BY <1>1 DEF InHand
  <2>3. files[n].whole \in Nat
    BY <1>1, <1>2, FileTypes, IngestAssumption DEF Files
  <2> QED
    BY <1>1, <2>1, <2>2, <2>3
<1>5. /\ adm' \in [Rows \X FileIds -> {None} \cup [line: 0 .. MaxLines, complete: BOOLEAN]]
      /\ \A x \in Rows, f \in FileIds :
           adm'[<<x, f>>] = IF x = r /\ f = n THEN saved ELSE adm[<<x, f>>]
  <2>1. adm \in [Rows \X FileIds -> {None} \cup [line: 0 .. MaxLines, complete: BOOLEAN]]
    BY <1>1 DEF TypeOK, IngestTypeOK
  <2>2. saved \in [line: 0 .. MaxLines, complete: BOOLEAN]
    <3>1. Newest(n) \in BOOLEAN
      BY DEF Newest
    <3> QED
      BY <1>4, <3>1
  <2> HIDE DEF saved
  <2> QED
    BY <1>1, <1>2, <2>1, <2>2
<1>6. saved.line = Total /\ (saved.complete <=> n # sweep.listed) /\ saved # None
  <2>1. saved.line = Total /\ (saved.complete <=> n # sweep.listed)
    BY DEF Newest
  <2>2. saved \in [line: 0 .. MaxLines, complete: BOOLEAN]
    <3>1. Newest(n) \in BOOLEAN
      BY DEF Newest
    <3> QED
      BY <1>4, <3>1
  <2> QED
    BY <2>1, <2>2, IngestAssumption
<1>7. TypeOK'
  <2>1. /\ raw \subseteq [row: Rows, file: FileIds, line: Lines, whole: BOOLEAN]
        /\ log \in Seq(Entry) /\ faults \in 0 .. MaxFaults /\ missed \subseteq FileIds
        /\ overtaken \subseteq 1 .. Len(log) /\ straddled \in BOOLEAN /\ Len(log) \in Nat
    BY <1>1, LogTypes DEF TypeOK, IngestTypeOK
  <2> QED
    BY <1>1, <1>3, <1>5, <2>1, WorkerTyped
<1>8. Onward
  <2>1. \A x \in Rows, f \in FileIds : adm[<<x, f>>] # None => adm[<<x, f>>].line \in Nat
    BY <1>1, RowTypes
  <2>2. Visible' = Visible /\ \A i : KeyOf(i)' = KeyOf(i)
    BY <1>1 DEF Visible, KeyOf
  <2>3. /\ adm[<<r, n>>].line < sweep.line /\ ~adm[<<r, n>>].complete /\ adm[<<r, n>>] # None
    BY <1>1 DEF InHand, Row
  <2>4. adm[<<r, n>>].line <= saved.line
    BY <1>2, <1>4, <1>6, <2>1, <2>3
  <2> HIDE DEF saved
  <2>5. \A x \in Rows, f \in FileIds : adm[<<x, f>>] # None =>
          /\ adm'[<<x, f>>] # None
          /\ adm[<<x, f>>].line <= adm'[<<x, f>>].line
          /\ adm[<<x, f>>].complete => adm'[<<x, f>>].complete
    BY <1>5, <1>6, <2>1, <2>3, <2>4
  <2> QED
    BY <1>1, <2>2, <2>5 DEF Onward
<1>9. FilesInv'
  <2> HIDE DEF saved
  <2>1. ASSUME NEW x \in Rows, NEW f \in FileIds, adm'[<<x, f>>] # None
        PROVE  /\ f \in Files
               /\ adm'[<<x, f>>].line <= files[f].whole + (IF files[f].torn THEN 1 ELSE 0)
               /\ adm'[<<x, f>>].complete => f < Len(files)
    <3>1. CASE x = r /\ f = n
      <4>1. n \in Files /\ (n # sweep.listed => n < Len(files))
        BY <1>2 DEF Files
      <4> QED
        BY <1>4, <1>5, <1>6, <3>1, <4>1
    <3>2. CASE ~(x = r /\ f = n)
      BY <1>1, <1>5, <2>1, <3>2 DEF FilesInv
    <3> QED
      BY <3>1, <3>2
  <2>2. files' = files /\ raw' = raw /\ Files' = Files
    BY <1>1 DEF game, Files
  <2> QED
    BY <1>1, <2>1, <2>2 DEF FilesInv
<1>10. MapsInv' /\ LinesUnderTheirMap'
  <2>1. stage <= 2 => sweep'.row # New /\ New \notin sweep'.todo
    BY <1>1, <1>3, IngestAssumption DEF MapsInv
  <2>2. UNCHANGED <<map, files, stage, servers, raw, log, straddled>> /\ Files' = Files
    BY <1>1 DEF game, Files
  <2>3. \A i : KeyOf(i)' = KeyOf(i)
    BY <1>1 DEF KeyOf
  <2> QED
    BY <1>1, <2>1, <2>2, <2>3 DEF MapsInv, LinesUnderTheirMap, PipelineInv
<1>11. CursorBehindTheLog'
  <2> HIDE DEF saved
  <2> SUFFICES ASSUME NEW x \in Rows, NEW f \in FileIds, adm'[<<x, f>>] # None,
                      NEW l \in 1 .. adm'[<<x, f>>].line
               PROVE  Logged(x, f, l) \/ HalfRead(x, f, l)
    BY <1>1 DEF CursorBehindTheLog, Logged, HalfRead, EventKey, Visible, KeyOf
  <2>1. \A y \in Rows, g \in FileIds : adm[<<y, g>>] # None =>
          \A m \in 1 .. adm[<<y, g>>].line : Logged(y, g, m) \/ HalfRead(y, g, m)
    BY <1>1 DEF CursorBehindTheLog, Logged, HalfRead, EventKey
  <2>2. CASE x = r /\ f = n
    <3>1. l \in 1 .. Total /\ l \in 1 .. sweep.line - 1
      BY <1>4, <1>5, <1>6, <2>2
    <3>2. Passed(r, n, l) => l \in 1 .. adm[<<r, n>>].line /\ adm[<<r, n>>] # None
      BY <1>1, <1>2, <3>1, RowTypes DEF Passed
    <3>3. Passed(r, n, l) \/ Logged(r, n, l) \/ HalfRead(r, n, l)
      BY <1>1, <3>1 DEF LinesBehind, InFile
    <3> QED
      BY <1>2, <2>1, <2>2, <3>2, <3>3
  <2>3. CASE ~(x = r /\ f = n)
    BY <1>5, <2>1, <2>3
  <2> QED
    BY <2>2, <2>3
<1>12. ASSUME sweep'.pc = "file" PROVE Place'
  <2>1. /\ n < sweep.listed /\ n # sweep.listed
        /\ \A f \in 1 .. n - 1 : Gone(r, f)
        /\ \A f \in FileIds : Closed(r, f) => f < sweep.listed
    <3>1. n < sweep.listed /\ n \in Nat
      BY <1>2, <1>3, <1>12 DEF FileIds
    <3>2. sweep.pc # "file"
      BY <1>1
    <3> QED
      BY <1>1, <3>1, <3>2 DEF Place
  <2> PICK x \in Rows : x = r
    BY <1>2
  <2> PICK m : m = n
    OBVIOUS
  <2> PICK listed : listed = sweep.listed
    OBVIOUS
  <2> HIDE DEF saved
  <2>2. \A f \in 1 .. m - 1 : Gone(x, f)
    BY <2>1
  <2>3. Gone(x, m)'
    BY <1>2, <1>5, <1>6, <2>1 DEF Gone, Closed
  <2>4. \A f \in FileIds : Closed(x, f)' => f < listed
    BY <1>5, <2>1 DEF Closed
  <2>5. Reading
    BY <1>1 DEF Reading
  <2> PICK b \in 0 .. BackfillBudget : b = sweep.budget
    BY <1>2
  <2> PICK c \in BOOLEAN : c = sweep.caughtUp
    BY <1>2
  <2>6. sweep' = NextFile(b, c)
    BY <1>1
  <2> QED
    BY <1>1, <1>7, <1>8, <1>12, <2>2, <2>3, <2>4, <2>5, <2>6, NextPlace
<1> QED
  BY <1>1, <1>3, <1>7, <1>8, <1>9, <1>10, <1>11, <1>12, BetweenFiles

-----------------------------------------------------------------------------
\* A file in hand.

LEMMA LeastOfTwo ==
  ASSUME NEW a \in Nat, NEW b \in Nat, a <= b
  PROVE  Min({a, b}) = a
  BY DEF Min

LEMMA DownloadStep ==
  ASSUME PipelineInv, Download, fleet = "up", UNCHANGED <<projection, release>>
  PROVE  PipelineInv'
<1> DEFINE r == sweep.row
           n == sweep.file
           saved == IF Row(n) = None THEN 0 ELSE Row(n).line
           total == files[n].whole + (IF files[n].torn THEN 1 ELSE 0)
           fresh == [line |-> 0, complete |-> FALSE]
<1>1. /\ UNCHANGED <<game, servers, raw, log, parser, faults, missed, overtaken, straddled>>
      /\ sweep.pc = "file" /\ Wanted(n)
      /\ adm' = IF Row(n) = None THEN [adm EXCEPT ![<<r, n>>] = fresh] ELSE adm
      /\ sweep' = [sweep EXCEPT !.pc = "line", !.budget = BudgetAfter(n),
                                !.whole = files[n].whole, !.torn = files[n].torn,
                                !.line = FirstLine(saved, total)]
      /\ TypeOK /\ MapsInv /\ FilesInv /\ Place /\ CursorBehindTheLog
  BY DEF Download, PipelineInv, SweepInv, Reading
<1>2. /\ n \in 1 .. sweep.listed /\ n \in FileIds /\ r \in Rows /\ <<r, n>> \in Rows \X FileIds
      /\ sweep.budget \in 0 .. BackfillBudget /\ sweep.caughtUp \in BOOLEAN
      /\ sweep.listed \in 1 .. Len(files) /\ Len(files) \in Nat /\ n \in Files
      /\ MaxLines \in Nat /\ BackfillBudget \in Nat
  <2>1. sweep.file \in 1 .. sweep.listed /\ sweep.listed \in 0 .. MaxFiles /\ MaxFiles \in Nat
    BY <1>1, SweepTypes, IngestAssumption DEF Place
  <2> QED
    BY <1>1, <2>1, SweepTypes, FileTypes, IngestAssumption DEF FileIds, Place
<1>3. /\ files[n].whole \in 0 .. MaxLines /\ files[n].torn \in BOOLEAN
      /\ files[n].torn => files[n].whole < MaxLines
  BY <1>1, <1>2, FileTypes DEF FilesInv
<1>4. saved \in 0 .. MaxLines /\ total \in 0 .. MaxLines /\ saved <= total
  <2>1. total \in 0 .. MaxLines
    BY <1>2, <1>3
  <2>2. Row(n) # None => Row(n).line \in 0 .. MaxLines /\ Row(n).line <= total
    BY <1>1, <1>2, RowTypes DEF FilesInv, Row
  <2> QED
    BY <1>2, <2>1, <2>2
<1>5. FirstLine(saved, total) = saved + 1
  <2> HIDE DEF saved, total
  <2> QED
    BY <1>4, LeastOfTwo DEF FirstLine
<1>6. BudgetAfter(n) \in 0 .. BackfillBudget
  BY <1>1, <1>2 DEF BudgetAfter, Wanted, OverBudget
<1>7. /\ sweep' \in SweepState /\ sweep'.pc = "line" /\ sweep'.row = r /\ sweep'.listed = sweep.listed
      /\ sweep'.file = n /\ sweep'.todo = sweep.todo
      /\ sweep'.whole = files[n].whole /\ sweep'.torn = files[n].torn /\ sweep'.line = saved + 1
  <2>1. sweep \in SweepState /\ saved + 1 \in 0 .. MaxLines + 1
    BY <1>1, <1>2, <1>4, SweepTypes
  <2> HIDE DEF saved, total
  <2> QED
    BY <1>1, <1>3, <1>5, <1>6, <2>1 DEF SweepState
<1>8. /\ adm' \in [Rows \X FileIds -> {None} \cup [line: 0 .. MaxLines, complete: BOOLEAN]]
      /\ \A x \in Rows, f \in FileIds :
           adm'[<<x, f>>] = IF x = r /\ f = n /\ Row(n) = None THEN fresh ELSE adm[<<x, f>>]
      /\ fresh # None /\ fresh.line = 0 /\ ~fresh.complete
  <2>1. adm \in [Rows \X FileIds -> {None} \cup [line: 0 .. MaxLines, complete: BOOLEAN]]
    BY <1>1 DEF TypeOK, IngestTypeOK
  <2>2. fresh \in [line: 0 .. MaxLines, complete: BOOLEAN] /\ fresh.line = 0 /\ ~fresh.complete
    BY <1>2
  <2> HIDE DEF fresh
  <2> QED
    BY <1>1, <1>2, <2>1, <2>2, IngestAssumption
<1>9. TypeOK'
  <2>1. /\ raw \subseteq [row: Rows, file: FileIds, line: Lines, whole: BOOLEAN]
        /\ log \in Seq(Entry) /\ faults \in 0 .. MaxFaults /\ missed \subseteq FileIds
        /\ overtaken \subseteq 1 .. Len(log) /\ straddled \in BOOLEAN /\ Len(log) \in Nat
    BY <1>1, LogTypes DEF TypeOK, IngestTypeOK
  <2> QED
    BY <1>1, <1>7, <1>8, <2>1, WorkerTyped
<1> HIDE DEF fresh
<1>10. Onward
  <2>1. \A x \in Rows, f \in FileIds : adm[<<x, f>>] # None => adm[<<x, f>>].line \in Nat
    BY <1>1, RowTypes
  <2>2. Visible' = Visible /\ \A i : KeyOf(i)' = KeyOf(i)
    BY <1>1 DEF Visible, KeyOf
  <2>3. \A x \in Rows, f \in FileIds : adm[<<x, f>>] # None => adm'[<<x, f>>] = adm[<<x, f>>]
    BY <1>8 DEF Row
  <2> QED
    BY <1>1, <2>1, <2>2, <2>3 DEF Onward
<1>11. UNCHANGED <<up, map, files, stage>> /\ Files' = Files /\ \A i : KeyOf(i)' = KeyOf(i)
  BY <1>1 DEF game, Files, KeyOf
<1>12. FilesInv'
  <2>1. \A x \in Rows, f \in FileIds : adm'[<<x, f>>] # None =>
          /\ f \in Files
          /\ adm'[<<x, f>>].line <= files[f].whole + (IF files[f].torn THEN 1 ELSE 0)
          /\ adm'[<<x, f>>].complete => f < Len(files)
    BY <1>1, <1>2, <1>4, <1>8 DEF FilesInv
  <2> QED
    BY <1>1, <1>11, <2>1 DEF FilesInv
<1>13. MapsInv' /\ LinesUnderTheirMap'
  BY <1>1, <1>7, <1>11 DEF MapsInv, LinesUnderTheirMap, PipelineInv
<1>14. CursorBehindTheLog'
  <2> SUFFICES ASSUME NEW x \in Rows, NEW f \in FileIds, adm'[<<x, f>>] # None,
                      NEW l \in 1 .. adm'[<<x, f>>].line
               PROVE  Logged(x, f, l) \/ HalfRead(x, f, l)
    BY <1>1 DEF CursorBehindTheLog, Logged, HalfRead, EventKey, Visible, KeyOf
  <2>1. adm'[<<x, f>>] = adm[<<x, f>>]
    BY <1>8
  <2> QED
    BY <1>1, <2>1 DEF CursorBehindTheLog, Logged, HalfRead, EventKey
<1>15. Place'
  <2>1. \A f \in 1 .. n - 1 : Gone(r, f)
    BY <1>1 DEF Place, Wanted, OverBudget
  <2>2. \A f \in 1 .. n - 1 : f \in FileIds
    BY <1>2, IngestAssumption DEF FileIds
  <2>3. \A f \in FileIds : Closed(r, f) <=> Closed(sweep.row, f)'
    BY <1>1, <1>2, <1>7, <1>8 DEF Closed, Row
  <2>4. \A f \in 1 .. n - 1 : Gone(sweep.row, f)'
    BY <1>1, <1>7, <2>1, <2>2, <2>3 DEF Gone
  <2> QED
    BY <1>1, <1>2, <1>7, <1>11, <2>3, <2>4 DEF Place
<1>16. /\ adm'[<<r, n>>] # None /\ ~adm'[<<r, n>>].complete /\ adm'[<<r, n>>].line = saved
       /\ ~BeforeCutoff(n)
  <2>1. Row(n) # None => ~Row(n).complete
    BY <1>1, <1>2 DEF Wanted, Done, Newest, Place, Closed, Row
  <2> QED
    BY <1>1, <1>2, <1>8, <2>1 DEF Row, Wanted, Done
<1>17. InHand'
  <2>1. Total' = total
    BY <1>7 DEF Total
  <2>2. ~BeforeCutoff(sweep.file)' /\ Row(sweep.file)' = adm'[<<r, n>>]
    BY <1>1, <1>7, <1>16 DEF BeforeCutoff, Row
  <2>3. saved < saved + 1 /\ saved + 1 <= total + 1 /\ files[n].whole <= files[n].whole
    BY <1>2, <1>3, <1>4
  <2>4. \A x \in raw : x.whole /\ x.file = n => x.line <= files[n].whole
    BY <1>1 DEF FilesInv
  <2> HIDE DEF saved, total
  <2> QED
    BY <1>1, <1>3, <1>7, <1>11, <1>16, <2>1, <2>2, <2>3, <2>4 DEF InHand
<1>18. SweepInv' /\ LinesBehind'
  <2>1. \A l \in 1 .. saved : Passed(sweep.row, sweep.file, l)'
    BY <1>7, <1>16 DEF Passed
  <2>2. saved \in Nat
    BY <1>4
  <2> HIDE DEF saved, total
  <2>3. LinesBehind'
    <3>1. sweep'.line - 1 = saved
      BY <1>7, <2>2
    <3>2. \A l \in 1 .. sweep'.line - 1 : Passed(sweep.row, sweep.file, l)'
      BY <2>1, <3>1
    <3> QED
      BY <3>2 DEF LinesBehind
  <2> QED
    BY <1>7, <1>15, <1>17, <2>3 DEF SweepInv
<1> QED
  BY <1>1, <1>9, <1>10, <1>12, <1>13, <1>14, <1>18, LogRests DEF PipelineInv

LEMMA EventsOfALine ==
  /\ 0 \in Subs <=> IsWhole
  /\ Subs \subseteq 0 .. 1
  /\ \A sub : sub \in Subs => IsWhole
  BY DEF Subs

\* From an event to the next, or to the next line.
LEMMA NextEventTyped ==
  ASSUME TypeOK, sweep.line <= Total, Total <= MaxLines, NEW sub
  PROVE  LET next == NextEvent(sub)
         IN  /\ next \in SweepState
             /\ next.row = sweep.row /\ next.listed = sweep.listed /\ next.file = sweep.file
             /\ next.todo = sweep.todo /\ next.whole = sweep.whole /\ next.torn = sweep.torn
             /\ \/ next.pc = "event" /\ sub \in Subs /\ next.sub = sub /\ next.line = sweep.line
                \/ next.pc = "line" /\ sub \notin Subs /\ next.line = sweep.line + 1
<1>1. sweep \in SweepState /\ sweep.line \in Nat /\ Total \in {sweep.whole, sweep.whole + 1}
      /\ sweep.whole \in 0 .. MaxLines /\ MaxLines \in Nat
  BY SweepTypes, IngestAssumption
<1>2. CASE sub \in Subs
  <2>1. NextEvent(sub) = [sweep EXCEPT !.pc = "event", !.sub = sub] /\ sub \in 0 .. 1
    BY <1>2, EventsOfALine DEF NextEvent
  <2> QED
    BY <1>1, <1>2, <2>1 DEF SweepState
<1>3. CASE sub \notin Subs
  <2>1. NextEvent(sub) = [sweep EXCEPT !.pc = "line", !.line = sweep.line + 1, !.sub = 0]
    BY <1>3 DEF NextEvent
  <2>2. sweep.line + 1 \in 0 .. MaxLines + 1 /\ 0 \in 0 .. 1
    BY <1>1
  <2> QED
    BY <1>1, <1>3, <2>1, <2>2 DEF SweepState
<1> QED
  BY <1>2, <1>3

\* What is known of the line in hand.
LEMMA LineInHand ==
  ASSUME PipelineInv, InFile
  PROVE  /\ TypeOK /\ FilesInv /\ MapsInv /\ SweepInv /\ Place /\ InHand /\ LinesBehind
         /\ sweep.row \in Rows /\ sweep.file \in FileIds /\ sweep.file \in Files
         /\ sweep.line \in Nat \ {0} /\ Total <= MaxLines /\ Total \in Nat
         /\ sweep.whole \in Nat /\ sweep.whole <= files[sweep.file].whole
         /\ files[sweep.file].whole \in Nat
<1>1. /\ TypeOK /\ FilesInv /\ MapsInv /\ SweepInv /\ Place /\ InHand /\ LinesBehind
  BY DEF PipelineInv, SweepInv, Reading, InFile
<1>2. sweep.row \in Rows /\ sweep.file \in FileIds /\ sweep.file \in Files
  <2>1. /\ sweep.file \in 1 .. sweep.listed /\ sweep.listed \in 0 .. MaxFiles /\ MaxFiles \in Nat
        /\ sweep.listed \in 1 .. Len(files) /\ Len(files) \in Nat /\ Files = 1 .. Len(files)
    BY <1>1, SweepTypes, FileTypes, IngestAssumption DEF Place
  <2> QED
    BY <1>1, <2>1 DEF Place, FileIds
<1>3. sweep.line \in Nat \ {0}
  <2>1. Row(sweep.file) # None => Row(sweep.file).line \in Nat
    BY <1>1, <1>2, RowTypes DEF Row
  <2>2. sweep.line \in Nat
    BY <1>1, SweepTypes
  <2> QED
    BY <1>1, <2>1, <2>2 DEF InHand
<1>4. Total <= MaxLines /\ Total \in Nat /\ sweep.whole \in Nat
  <2>1. sweep.whole \in 0 .. MaxLines /\ MaxLines \in Nat
    BY <1>1, SweepTypes, IngestAssumption
  <2> QED
    BY <1>1, <2>1 DEF InHand, Total
<1>5. files[sweep.file].whole \in Nat /\ sweep.whole <= files[sweep.file].whole
  BY <1>1, <1>2, FileTypes, IngestAssumption DEF InHand
<1> QED
  BY <1>1, <1>2, <1>3, <1>4, <1>5

\* The same file stays in hand, and its lines come past one by one.
LEMMA FileKept ==
  ASSUME PipelineInv, TypeOK', Onward, InFile, UNCHANGED <<game, servers, adm, straddled>>,
         sweep'.row = sweep.row, sweep'.listed = sweep.listed, sweep'.file = sweep.file,
         sweep'.whole = sweep.whole, sweep'.torn = sweep.torn,
         \A x \in raw' : \/ x \in raw
                         \/ x.line <= sweep.whole
                         \/ ~x.whole,
         NEW r \in Rows, r = sweep.row, NEW n \in FileIds, n = sweep.file,
         NEW l, l = sweep.line,
         \/ sweep'.line = l
         \/ sweep'.line = l + 1 /\ l <= Total
              /\ \/ l <= sweep.whole /\ Logged(r, n, l)'
                 \/ l > sweep.whole /\ HalfRead(r, n, l)'
  PROVE  Place' /\ InHand' /\ LinesBehind'
<1>1. /\ TypeOK /\ Place /\ InHand /\ LinesBehind
      /\ l \in Nat \ {0} /\ Total \in Nat /\ n \in Files
      /\ UNCHANGED <<up, map, files, stage>> /\ Files' = Files
  BY LineInHand DEF game, Files
<1>2. Place'
  <2>1. \A f \in 1 .. n - 1 : Gone(r, f) /\ f \in FileIds
    BY <1>1, IngestAssumption DEF Place, InFile, FileIds
  <2>2. \A f \in 1 .. n - 1 : Gone(r, f)'
    BY <1>1, <2>1, StillRead
  <2>3. \A f : (Gone(sweep.row, f)' <=> Gone(r, f)') /\ (Closed(sweep.row, f)' <=> Closed(r, f))
    BY DEF Gone, Closed
  <2> QED
    BY <1>1, <2>2, <2>3 DEF Place
<1>3. Total' = Total
  BY DEF Total
<1>4. InHand'
  <2>1. Row(sweep.file)' = Row(sweep.file) /\ (BeforeCutoff(sweep.file)' <=> BeforeCutoff(sweep.file))
    BY DEF Row, BeforeCutoff
  <2>2. Row(sweep.file).line \in Nat
    BY <1>1, RowTypes DEF InHand, Row
  <2>3. Row(sweep.file).line < sweep'.line /\ sweep'.line <= Total + 1
    BY <1>1, <2>2 DEF InHand
  <2>4. \A x \in raw' : x.row = r /\ x.file = n /\ x.whole => x.line <= sweep.whole
    BY <1>1 DEF InHand
  <2> QED
    BY <1>1, <1>3, <2>1, <2>3, <2>4 DEF InHand
<1>5. LinesBehind'
  <2>1. \A m \in 1 .. l - 1 : \/ Passed(r, n, m)
                              \/ m <= sweep.whole /\ Logged(r, n, m)
                              \/ m > sweep.whole /\ HalfRead(r, n, m)
    BY <1>1 DEF LinesBehind
  <2>2. \A m \in 1 .. l - 1 : \/ Passed(r, n, m)'
                              \/ m <= sweep.whole /\ Logged(r, n, m)'
                              \/ m > sweep.whole /\ HalfRead(r, n, m)'
    <3>1. \A m \in 1 .. l - 1 : m \in Nat
      BY <1>1
    <3> QED
      BY <1>1, <2>1, <3>1, StillRead
  <2>3. \A m \in 1 .. sweep'.line - 1 : m \in 1 .. l - 1 \/ (m = l /\ sweep'.line = l + 1)
    BY <1>1
  <2>4. \A m \in 1 .. sweep'.line - 1 : \/ Passed(r, n, m)'
                                        \/ m <= sweep.whole /\ Logged(r, n, m)'
                                        \/ m > sweep.whole /\ HalfRead(r, n, m)'
    BY <1>1, <2>2, <2>3
  <2>5. \A m : /\ Passed(sweep.row, sweep.file, m)' <=> Passed(r, n, m)'
               /\ Logged(sweep.row, sweep.file, m)' <=> Logged(r, n, m)'
               /\ HalfRead(sweep.row, sweep.file, m)' <=> HalfRead(r, n, m)'
    BY DEF Passed, Logged, HalfRead, EventKey
  <2> QED
    BY <2>4, <2>5 DEF LinesBehind
<1> QED
  BY <1>2, <1>4, <1>5

LEMMA CaptureLineStep ==
  ASSUME PipelineInv, CaptureLine, fleet = "up", UNCHANGED <<projection, release>>
  PROVE  PipelineInv'
<1> DEFINE r == sweep.row
           n == sweep.file
           l == sweep.line
           new == [row |-> r, file |-> n, line |-> l, whole |-> IsWhole]
<1>1. /\ UNCHANGED <<game, servers, adm, log, parser, faults, missed, overtaken, straddled>>
      /\ sweep.pc = "line" /\ l <= Total
      /\ raw' = IF Captured(r, n, l) THEN raw ELSE raw \cup {new}
      /\ sweep' = NextEvent(0)
      /\ InFile
  BY DEF CaptureLine, InFile
<1>2. /\ TypeOK /\ FilesInv /\ MapsInv /\ SweepInv /\ Place /\ InHand /\ LinesBehind
      /\ r \in Rows /\ n \in FileIds /\ n \in Files
      /\ l \in Nat \ {0} /\ Total <= MaxLines /\ Total \in Nat
      /\ sweep.whole \in Nat /\ sweep.whole <= files[n].whole /\ files[n].whole \in Nat
  BY <1>1, LineInHand
<1>3. /\ sweep' \in SweepState
      /\ sweep'.row = r /\ sweep'.listed = sweep.listed /\ sweep'.file = n
      /\ sweep'.todo = sweep.todo /\ sweep'.whole = sweep.whole /\ sweep'.torn = sweep.torn
      /\ \/ sweep'.pc = "event" /\ IsWhole /\ sweep'.sub = 0 /\ sweep'.line = l
         \/ sweep'.pc = "line" /\ ~IsWhole /\ sweep'.line = l + 1
  BY <1>1, <1>2, NextEventTyped, EventsOfALine
<1>4. /\ new \in [row: Rows, file: FileIds, line: Lines, whole: BOOLEAN]
      /\ new.row = r /\ new.file = n /\ new.line = l /\ (new.whole <=> l <= sweep.whole)
  <2>1. l \in Lines /\ IsWhole \in BOOLEAN /\ (IsWhole <=> l <= sweep.whole)
    BY <1>1, <1>2, IngestAssumption DEF Lines, IsWhole
  <2> QED
    BY <1>2, <2>1
<1> HIDE DEF new
<1>5. \A x \in raw' : x \in raw \/ x = new
  BY <1>1
<1>6. TypeOK'
  <2>1. /\ adm \in [Rows \X FileIds -> {None} \cup [line: 0 .. MaxLines, complete: BOOLEAN]]
        /\ raw \subseteq [row: Rows, file: FileIds, line: Lines, whole: BOOLEAN]
        /\ log \in Seq(Entry) /\ faults \in 0 .. MaxFaults /\ missed \subseteq FileIds
        /\ overtaken \subseteq 1 .. Len(log) /\ straddled \in BOOLEAN /\ Len(log) \in Nat
    BY <1>2, LogTypes DEF TypeOK, IngestTypeOK
  <2>2. raw' \subseteq [row: Rows, file: FileIds, line: Lines, whole: BOOLEAN]
    BY <1>4, <1>5, <2>1
  <2> QED
    BY <1>1, <1>2, <1>3, <2>1, <2>2, WorkerTyped
<1>7. Onward
  <2>1. \A x \in Rows, f \in FileIds : adm[<<x, f>>] # None => adm[<<x, f>>].line \in Nat
    BY <1>2, RowTypes
  <2>2. Visible' = Visible /\ \A i : KeyOf(i)' = KeyOf(i)
    BY <1>1 DEF Visible, KeyOf
  <2>3. raw \subseteq raw'
    BY <1>1
  <2> QED
    BY <1>1, <2>1, <2>2, <2>3 DEF Onward
<1>8. UNCHANGED <<up, map, files, stage>> /\ Files' = Files /\ \A i : KeyOf(i)' = KeyOf(i)
  BY <1>1 DEF game, Files, KeyOf
<1>9. FilesInv'
  <2>1. \A x \in raw' : x.file \in Files /\ (x.whole => x.line <= files[x.file].whole)
    BY <1>2, <1>4, <1>5 DEF FilesInv
  <2> QED
    BY <1>1, <1>2, <1>8, <2>1 DEF FilesInv
<1>10. MapsInv'
  <2>1. stage <= 2 => sweep'.row # New /\ New \notin sweep'.todo /\ \A x \in raw' : x.row # New
    BY <1>2, <1>3, <1>4, <1>5 DEF MapsInv
  <2> QED
    BY <1>1, <1>2, <1>8, <2>1 DEF MapsInv
<1>11. LinesUnderTheirMap'
  <2>1. straddled \/ files[n].map = r
    <3>1. n \in 1 .. sweep.listed /\ ~(n < servers[r].from)
      BY <1>2 DEF Place, InHand, BeforeCutoff
    <3> QED
      BY <1>2, <3>1 DEF Place
  <2> QED
    BY <1>1, <1>4, <1>5, <1>8, <2>1 DEF LinesUnderTheirMap, PipelineInv
<1>12. CursorBehindTheLog'
  BY <1>1, <1>6, <1>7, CursorKept
<1>13. \E x \in raw' : x.row = r /\ x.file = n /\ x.line = l /\ (~x.whole \/ IsWhole)
  <2>1. CASE Captured(r, n, l)
    <3>1. PICK x \in raw : x.row = r /\ x.file = n /\ x.line = l
      BY <2>1 DEF Captured
    <3>2. x.whole => x.line <= sweep.whole
      BY <1>2, <3>1 DEF InHand
    <3> QED
      BY <1>1, <2>1, <3>1, <3>2 DEF IsWhole
  <2>2. CASE ~Captured(r, n, l)
    <3>1. new \in raw'
      BY <1>1, <2>2
    <3> QED
      BY <1>4, <3>1 DEF IsWhole
  <2> QED
    BY <2>1, <2>2
<1>14. SweepInv' /\ LinesBehind'
  <2> PICK x \in Rows, m \in FileIds, k \in Nat : x = r /\ m = n /\ k = l
    BY <1>2
  <2>1. sweep'.pc = "line" => ~IsWhole /\ k > sweep.whole /\ HalfRead(x, m, k)'
    BY <1>2, <1>3, <1>13 DEF IsWhole, HalfRead
  <2>2. \A y \in raw' : y \in raw \/ y.line <= sweep.whole \/ ~y.whole
    BY <1>4, <1>5
  <2>3. \/ sweep'.line = k
        \/ /\ sweep'.line = k + 1 /\ k <= Total
           /\ \/ k <= sweep.whole /\ Logged(x, m, k)'
              \/ k > sweep.whole /\ HalfRead(x, m, k)'
    BY <1>1, <1>3, <2>1
  <2>4. Place' /\ InHand' /\ LinesBehind'
    BY <1>1, <1>3, <1>6, <1>7, <2>2, <2>3, FileKept
  <2>5. sweep'.pc = "event" => sweep'.sub = 0 /\ 1 <= sweep'.line /\ sweep'.line <= sweep'.whole
    BY <1>2, <1>3 DEF IsWhole
  <2> QED
    BY <1>3, <2>4, <2>5 DEF SweepInv, IsWhole
<1> QED
  BY <1>1, <1>6, <1>7, <1>9, <1>10, <1>11, <1>12, <1>14, LogRests DEF PipelineInv

-----------------------------------------------------------------------------
\* The log: an insert takes the next id, a transaction ends.

LEMMA Appended ==
  ASSUME PipelineInv, NEW key \in Keys, NEW by \in {"ingest", "backfill"},
         Indexed(key) = {}, InFlight(by) = {}, by = "backfill" => key.sub = 1,
         log' = Append(log, [key |-> key, by |-> by, state |-> "open"]),
         UNCHANGED <<adm, raw, missed, overtaken>>, NEW last, last = Len(log) + 1
  PROVE  /\ Onward /\ log' \in Seq(Entry) /\ Len(log) \in Nat /\ Len(log') = last
         /\ DOMAIN log' = 1 .. last /\ DOMAIN log = 1 .. Len(log)
         /\ \A i \in DOMAIN log : log'[i] = log[i] /\ KeyOf(i)' = KeyOf(i)
         /\ KeyOf(last)' = key /\ log'[last].state = "open" /\ log'[last].by = by
         /\ Visible' = Visible
         /\ \A b : InFlight(b)' = IF b = by THEN {last} ELSE InFlight(b)
         /\ \A i, j \in Present' : KeyOf(i)' = KeyOf(j)' => i = j
         /\ \A i \in DOMAIN log' : log'[i].by = "backfill" => (KeyOf(i).sub)' = 1
         /\ \A i, j \in DOMAIN log' :
              i < j /\ log'[i].state = "open" /\ log'[j].state = "in" => i \in overtaken'
<1> DEFINE e == [key |-> key, by |-> by, state |-> "open"]
<1>1. e \in Entry /\ e.key = key /\ e.by = by /\ e.state = "open"
  <2>1. "open" \in {"open", "in", "void"}
    OBVIOUS
  <2>2. e \in Entry
    BY <2>1 DEF Entry
  <2>3. e.key = key /\ e.by = by /\ e.state = "open"
    OBVIOUS
  <2> QED
    BY <2>2, <2>3
<1>2. log \in Seq(Entry) /\ TypeOK /\ LogInv
  BY DEF PipelineInv, TypeOK, IngestTypeOK
<1> HIDE DEF e
<1>3. /\ log' \in Seq(Entry) /\ Len(log) \in Nat /\ Len(log') = last
      /\ DOMAIN log = 1 .. Len(log) /\ DOMAIN log' = 1 .. last
      /\ \A i \in DOMAIN log : log'[i] = log[i] /\ KeyOf(i)' = KeyOf(i)
      /\ log'[last] = e
      /\ Visible' = Visible
  <2>1. log' = Append(log, e)
    BY DEF e
  <2> QED
    BY <1>1, <1>2, <2>1, LogAppended
<1>4. last \notin DOMAIN log /\ \A i \in DOMAIN log' : i \in DOMAIN log \/ i = last
  BY <1>3
<1>5. KeyOf(last)' = key /\ log'[last].state = "open" /\ log'[last].by = by
  BY <1>1, <1>3 DEF KeyOf
<1>6. Onward
  <2>1. \A x \in Rows, f \in FileIds : adm[<<x, f>>] # None => adm[<<x, f>>].line \in Nat
    BY <1>2, RowTypes
  <2>2. \A i \in Visible : KeyOf(i)' = KeyOf(i)
    BY <1>3 DEF Visible
  <2> QED
    BY <1>3, <2>1, <2>2 DEF Onward
<1>7. \A b : InFlight(b)' = IF b = by THEN {last} ELSE InFlight(b)
  <2>1. \A i \in DOMAIN log' : i \in DOMAIN log \/ (i = last /\ log'[i] = e)
    BY <1>3, <1>4
  <2> QED
    BY <1>1, <1>3, <1>4, <2>1 DEF InFlight
<1>8. \A i, j \in Present' : KeyOf(i)' = KeyOf(j)' => i = j
  <2>1. \A i \in Present' : (i \in Present /\ KeyOf(i)' = KeyOf(i) /\ KeyOf(i) # key) \/ i = last
    <3>1. \A i \in Present : KeyOf(i) # key
      BY DEF Indexed, Present, KeyOf
    <3> QED
      BY <1>3, <1>4, <3>1 DEF Present
  <2>2. \A i, j \in Present : KeyOf(i) = KeyOf(j) => i = j
    BY <1>2 DEF LogInv
  <2> QED
    BY <1>5, <2>1, <2>2
<1>9. \A i \in DOMAIN log' : log'[i].by = "backfill" => (KeyOf(i).sub)' = 1
  <2>1. \A i \in DOMAIN log : log[i].by = "backfill" => KeyOf(i).sub = 1
    BY <1>2 DEF LogInv
  <2> QED
    BY <1>3, <1>4, <1>5, <2>1
<1>10. \A i, j \in DOMAIN log' :
         i < j /\ log'[i].state = "open" /\ log'[j].state = "in" => i \in overtaken'
  <2> SUFFICES ASSUME NEW i \in DOMAIN log', NEW j \in DOMAIN log', i < j,
                      log'[i].state = "open", log'[j].state = "in"
               PROVE  i \in overtaken
    OBVIOUS
  <2>1. j # last
    BY <1>5
  <2>2. j \in DOMAIN log /\ i \in DOMAIN log
    BY <1>3, <1>4, <2>1
  <2> QED
    BY <1>2, <1>3, <2>2 DEF LogInv
<1> QED
  BY <1>3, <1>5, <1>6, <1>7, <1>8, <1>9, <1>10

\* One writer's transaction commits or aborts.
Ended(by, to) ==
  /\ log' = [i \in DOMAIN log |->
               IF i \in InFlight(by) THEN [log[i] EXCEPT !.state = to] ELSE log[i]]
  /\ overtaken \subseteq overtaken' /\ overtaken' \subseteq overtaken \cup DOMAIN log
  /\ to = "in" =>
       {i \in DOMAIN log \ InFlight(by) :
          log[i].state = "open" /\ \E j \in InFlight(by) : i < j} \subseteq overtaken'

LEMMA CommittedEnds ==
  ASSUME NEW by, Committed(by)
  PROVE  Ended(by, "in")
<1>1. overtaken' = overtaken \cup {i \in DOMAIN log \ InFlight(by) :
                        log[i].state = "open" /\ \E j \in InFlight(by) : i < j}
  BY DEF Committed
<1>2. log' = [i \in DOMAIN log |->
                 IF i \in InFlight(by) THEN [log[i] EXCEPT !.state = "in"] ELSE log[i]]
  BY DEF Committed
<1> QED
  BY <1>1, <1>2 DEF Ended

LEMMA Settled ==
  ASSUME PipelineInv, NEW by, NEW to \in {"in", "void"}, Ended(by, to),
         UNCHANGED <<adm, raw, missed>>
  PROVE  /\ Onward /\ log' \in Seq(Entry) /\ Len(log') = Len(log) /\ Len(log) \in Nat
         /\ DOMAIN log' = DOMAIN log /\ DOMAIN log = 1 .. Len(log)
         /\ \A i \in DOMAIN log : /\ KeyOf(i)' = KeyOf(i) /\ (LineEvent(i)' => LineEvent(i))
                                  /\ log'[i].state = IF i \in InFlight(by) THEN to ELSE log[i].state
                                  /\ log'[i].by = log[i].by
         /\ InFlight(by)' = {} /\ \A b : b # by => InFlight(b)' = InFlight(b)
         /\ \A i, j \in Present' : KeyOf(i)' = KeyOf(j)' => i = j
         /\ \A i \in DOMAIN log' : log'[i].by = "backfill" => (KeyOf(i).sub)' = 1
         /\ \A i, j \in DOMAIN log' :
              i < j /\ log'[i].state = "open" /\ log'[j].state = "in" => i \in overtaken'
         /\ \A i \in Visible', j \in Visible : i < j => i \in Visible \/ i \in overtaken'
<1>0. /\ log' = [i \in DOMAIN log |->
                   IF i \in InFlight(by) THEN [log[i] EXCEPT !.state = to] ELSE log[i]]
      /\ overtaken \subseteq overtaken'
      /\ to = "in" =>
           {i \in DOMAIN log \ InFlight(by) :
              log[i].state = "open" /\ \E j \in InFlight(by) : i < j} \subseteq overtaken'
  BY DEF Ended
<1>1. log \in Seq(Entry) /\ TypeOK /\ LogInv
  BY DEF PipelineInv, TypeOK, IngestTypeOK
<1>2. /\ log' \in Seq(Entry) /\ Len(log) \in Nat /\ Len(log') = Len(log)
      /\ DOMAIN log = 1 .. Len(log) /\ DOMAIN log' = DOMAIN log
      /\ \A i \in DOMAIN log :
           /\ KeyOf(i)' = KeyOf(i) /\ log'[i].by = log[i].by
           /\ log'[i].state = IF i \in InFlight(by) THEN to ELSE log[i].state
      /\ Visible \subseteq Visible'
      /\ Visible' \subseteq Visible \cup InFlight(by)
  BY <1>0, <1>1, LogSettled
<1>3. Onward
  <2>1. \A x \in Rows, f \in FileIds : adm[<<x, f>>] # None => adm[<<x, f>>].line \in Nat
    BY <1>1, RowTypes
  <2>2. \A i \in Visible : KeyOf(i)' = KeyOf(i)
    BY <1>2 DEF Visible
  <2> QED
    BY <1>2, <2>1, <2>2 DEF Onward
<1>4. Present' \subseteq Present /\ \A i \in DOMAIN log : LineEvent(i)' => LineEvent(i)
  <2>1. Present' \subseteq Present
    BY <1>2 DEF Present, InFlight
  <2> QED
    BY <1>2, <2>1 DEF LineEvent
<1>5. InFlight(by)' = {} /\ \A b : b # by => InFlight(b)' = InFlight(b)
  <2>1. \A i \in DOMAIN log : i \in InFlight(by) <=> (log[i].by = by /\ log[i].state = "open")
    BY DEF InFlight
  <2>2. InFlight(by)' = {}
    BY <1>2, <2>1 DEF InFlight
  <2>3. ASSUME NEW b, b # by PROVE InFlight(b)' = InFlight(b)
    BY <1>2, <2>1, <2>3 DEF InFlight
  <2> QED
    BY <2>2, <2>3
<1>6. \A i, j \in Present' : KeyOf(i)' = KeyOf(j)' => i = j
  BY <1>1, <1>2, <1>4 DEF LogInv, Present
<1>7. \A i \in DOMAIN log' : log'[i].by = "backfill" => (KeyOf(i).sub)' = 1
  BY <1>1, <1>2 DEF LogInv
<1>8. \A i, j \in DOMAIN log' :
        i < j /\ log'[i].state = "open" /\ log'[j].state = "in" => i \in overtaken'
  <2> SUFFICES ASSUME NEW i \in DOMAIN log, NEW j \in DOMAIN log, i < j,
                      log'[i].state = "open", log'[j].state = "in"
               PROVE  i \in overtaken'
    BY <1>2
  <2>1. i \notin InFlight(by) /\ log[i].state = "open"
    BY <1>2
  <2>2. CASE j \in InFlight(by)
    BY <1>0, <1>2, <2>1, <2>2
  <2>3. CASE j \notin InFlight(by)
    BY <1>0, <1>1, <1>2, <2>1, <2>3 DEF LogInv
  <2> QED
    BY <2>2, <2>3
<1>9. \A i \in Visible', j \in Visible : i < j => i \in Visible \/ i \in overtaken'
  <2> SUFFICES ASSUME NEW i \in InFlight(by), NEW j \in Visible, i < j PROVE i \in overtaken
    BY <1>0, <1>2
  <2> QED
    BY <1>1 DEF LogInv, InFlight, Visible
<1> QED
  BY <1>2, <1>3, <1>4, <1>5, <1>6, <1>7, <1>8, <1>9

-----------------------------------------------------------------------------
\* The event in hand.

LEMMA EventInHand ==
  ASSUME PipelineInv, sweep.pc \in {"event", "commit"}
  PROVE  /\ InFile /\ KeyInHand \in Keys /\ IsWhole /\ sweep.line <= Total
         /\ sweep.row \in Rows /\ sweep.file \in FileIds /\ sweep.line \in Lines
         /\ sweep.sub \in 0 .. 1 /\ sweep.line \in Nat
<1>1. InFile
  BY DEF InFile
<1>2. /\ sweep.row \in Rows /\ sweep.file \in FileIds /\ sweep.line \in Nat \ {0}
      /\ IsWhole /\ TypeOK /\ Total \in Nat /\ Total <= MaxLines
  BY <1>1, LineInHand DEF SweepInv
<1>3. sweep.whole \in 0 .. MaxLines /\ sweep.sub \in 0 .. 1 /\ Total \in {sweep.whole, sweep.whole + 1}
  BY <1>2, SweepTypes
<1>4. sweep.line \in Lines /\ sweep.line <= Total
  BY <1>2, <1>3, IngestAssumption DEF IsWhole, Lines
<1>5. KeyInHand \in Keys
  BY <1>2, <1>3, <1>4 DEF KeyInHand, Keys
<1> QED
  BY <1>1, <1>2, <1>3, <1>4, <1>5

LEMMA ProjectorRests ==
  ASSUME ProjectorInv, fleet = "up", Visible' = Visible, overtaken \subseteq overtaken',
         UNCHANGED <<projection, release>>
  PROVE  ProjectorInv'
<1>1. UNCHANGED <<cursor, folded, batch, fleet, halfBuilt>>
  BY DEF projection, release
<1> QED
  BY <1>1 DEF ProjectorInv

\* Where an event that is not in the log yet belongs: behind all of its row.
LEMMA NewEventInOrder ==
  ASSUME PipelineInv, sweep.pc = "event", sweep.sub = 0, Indexed(KeyInHand) = {},
         NEW r, r = sweep.row, NEW n, n = sweep.file, NEW l, l = sweep.line
  PROVE  /\ \A i \in DOMAIN log : LineEvent(i) /\ KeyOf(i).row = r =>
              \/ KeyOf(i).file < n
              \/ KeyOf(i).file = n /\ KeyOf(i).line < l
              \/ KeyOf(i).file # n /\ n \in missed
         /\ \A m \in 1 .. l - 1 : Logged(r, n, m) \/ Passed(r, n, m)
         /\ \A f \in 1 .. n - 1 : Gone(r, f)
<1>1. /\ TypeOK /\ InHand /\ Place /\ LinesBehind /\ OrderInv /\ InFile
      /\ r \in Rows /\ n \in FileIds /\ l \in Nat /\ l <= sweep.whole /\ sweep.whole \in Nat
  BY EventInHand, LineInHand DEF PipelineInv, IsWhole
<1>2. \A f \in 1 .. n - 1 : Gone(r, f)
  BY <1>1 DEF Place
<1>3. \A m \in 1 .. l - 1 : Logged(r, n, m) \/ Passed(r, n, m)
  BY <1>1 DEF LinesBehind
<1>4. ~Gone(r, n) \/ n \in missed
  BY <1>1 DEF InHand, Gone, Closed, BeforeCutoff, Row
<1>5. ~Logged(r, n, l) /\ ~Passed(r, n, l)
  <2>1. ~Passed(r, n, l)
    <3>1. adm[<<r, n>>].line \in Nat /\ adm[<<r, n>>].line < l
      BY <1>1, RowTypes DEF InHand, Row
    <3> QED
      BY <1>1, <3>1 DEF Passed
  <2>2. EventKey(r, n, l) = KeyInHand
    BY DEF EventKey, KeyInHand
  <2>3. \A i \in Visible : KeyOf(i) = KeyInHand => i \in Indexed(KeyInHand)
    BY DEF Visible, Indexed, KeyOf
  <2> QED
    BY <2>1, <2>2, <2>3 DEF Logged
<1>6. ASSUME NEW i \in DOMAIN log, LineEvent(i), KeyOf(i).row = r
      PROVE  \/ KeyOf(i).file < n
             \/ KeyOf(i).file = n /\ KeyOf(i).line < l
             \/ KeyOf(i).file # n /\ n \in missed
  <2>1. /\ KeyOf(i) \in Keys /\ KeyOf(i).file \in Nat /\ KeyOf(i).line \in Nat /\ n \in Nat
        /\ 1 <= n /\ 1 <= l
    <3>1. KeyOf(i) \in Keys
      BY <1>1, LogTypes
    <3> QED
      BY <1>1, <3>1, LineInHand DEF Keys, FileIds, Lines
  <2>2. CASE KeyOf(i).file = n
    <3>1. KeyOf(i).line # l
      <4>1. KeyOf(i).line = l => KeyOf(i) = KeyInHand
        BY <1>6, <2>1, <2>2 DEF KeyInHand, Keys, LineEvent
      <4>2. KeyOf(i) # KeyInHand
        BY <1>6 DEF LineEvent, Present, Indexed, KeyOf
      <4> QED
        BY <4>1, <4>2
    <3>2. ~(l < KeyOf(i).line)
      <4>1. l < KeyOf(i).line => l \in 1 .. KeyOf(i).line - 1
        BY <1>1, <2>1
      <4> QED
        BY <1>1, <1>5, <1>6, <2>2, <4>1 DEF OrderInv
    <3> QED
      BY <1>1, <2>1, <2>2, <3>1, <3>2
  <2>3. CASE KeyOf(i).file > n
    <3>1. n \in 1 .. KeyOf(i).file - 1
      BY <2>1, <2>3
    <3>2. Gone(r, n)
      BY <1>1, <1>6, <3>1 DEF OrderInv
    <3> QED
      BY <1>4, <2>1, <2>3, <3>2
  <2> QED
    BY <2>1, <2>2, <2>3
<1> QED
  BY <1>2, <1>3, <1>6

LEMMA InsertEventStep ==
  ASSUME PipelineInv, InsertEvent, fleet = "up", UNCHANGED <<projection, release>>
  PROVE  PipelineInv'
<1>1. /\ UNCHANGED <<game, servers, adm, raw, parser, faults, missed, overtaken, straddled>>
      /\ sweep.pc = "event" /\ sweep' = [sweep EXCEPT !.pc = "commit"]
      /\ \A i \in Indexed(KeyInHand) : log[i].state = "in"
      /\ log' = IF Indexed(KeyInHand) # {} THEN log
                ELSE Append(log, [key |-> KeyInHand, by |-> "ingest", state |-> "open"])
      /\ TypeOK /\ LogInv /\ MapsInv /\ SweepInv /\ OrderInv /\ ProjectorInv
  BY DEF InsertEvent, Inserted, PipelineInv
<1>2. /\ InFile /\ KeyInHand \in Keys /\ IsWhole /\ sweep.line <= Total
      /\ sweep.row \in Rows /\ sweep.file \in FileIds /\ sweep.line \in Nat /\ sweep.sub \in 0 .. 1
      /\ 1 <= sweep.line
  BY <1>1, EventInHand DEF SweepInv
<1>3. /\ sweep' \in SweepState /\ sweep'.pc = "commit" /\ sweep'.row = sweep.row
      /\ sweep'.listed = sweep.listed /\ sweep'.file = sweep.file /\ sweep'.todo = sweep.todo
      /\ sweep'.whole = sweep.whole /\ sweep'.torn = sweep.torn /\ sweep'.line = sweep.line
      /\ sweep'.sub = sweep.sub
  BY <1>1, SweepTypes DEF SweepState
<1>4. KeyInHand' = KeyInHand /\ IsWhole' = IsWhole
  BY <1>3 DEF KeyInHand, IsWhole
<1>5. InFlight("ingest") = {} /\ log \in Seq(Entry) /\ Len(log) \in Nat /\ DOMAIN log = 1 .. Len(log)
  BY <1>1, LogTypes DEF LogInv, TypeOK, IngestTypeOK
<1> PICK r \in Rows, n \in FileIds, l \in Nat, key \in Keys :
      r = sweep.row /\ n = sweep.file /\ l = sweep.line /\ key = KeyInHand
  BY <1>2
<1> PICK last : last = Len(log) + 1
  OBVIOUS
<1>6. /\ key.row = r /\ key.file = n /\ key.line = l /\ key.sub = sweep.sub
  BY DEF KeyInHand
<1>7. \A i \in DOMAIN log : log'[i] = log[i] /\ KeyOf(i)' = KeyOf(i)
  <2>1. CASE Indexed(key) # {}
    BY <1>1, <2>1 DEF KeyOf
  <2>2. CASE Indexed(key) = {}
    BY <1>1, <1>5, <2>2, Appended
  <2> QED
    BY <2>1, <2>2
<1>8. /\ log' \in Seq(Entry) /\ Len(log) <= Len(log') /\ Visible' = Visible /\ Onward
      /\ \A i \in DOMAIN log' : \/ i \in DOMAIN log
                                \/ /\ i = last /\ KeyOf(i)' = key /\ log'[i].state = "open"
                                   /\ log'[i].by = "ingest" /\ Indexed(key) = {}
      /\ DOMAIN log \subseteq DOMAIN log'
      /\ Indexed(key) = {} => last \in DOMAIN log'
  <2>1. CASE Indexed(key) # {}
    <3>1. Onward /\ log' = log
      BY <1>1, <2>1, Unread
    <3>2. Visible' = Visible
      BY <3>1 DEF Visible
    <3> QED
      BY <1>5, <2>1, <3>1, <3>2
  <2>2. CASE Indexed(key) = {}
    <3>1. /\ Onward /\ log' \in Seq(Entry) /\ Len(log') = last
          /\ DOMAIN log' = 1 .. last /\ DOMAIN log = 1 .. Len(log)
          /\ KeyOf(last)' = key /\ log'[last].state = "open" /\ log'[last].by = "ingest"
          /\ Visible' = Visible
      BY <1>1, <1>5, <2>2, Appended
    <3> QED
      BY <1>5, <2>2, <3>1
  <2> QED
    BY <2>1, <2>2
<1>9. LogInv'
  <2>1. CASE Indexed(key) # {}
    <3>1. log' = log
      BY <1>1, <2>1
    <3>2. Present' = Present /\ (\A b : InFlight(b)' = InFlight(b)) /\ overtaken' = overtaken
      BY <1>1, <3>1 DEF Present, InFlight
    <3> QED
      <4>1. \A i : KeyOf(i)' = KeyOf(i)
        BY <3>1 DEF KeyOf
      <4>2. LogInv
        BY <1>1
      <4> QED
        BY <1>5, <3>1, <3>2, <4>1, <4>2 DEF LogInv
  <2>2. CASE Indexed(key) = {}
    <3>1. /\ KeyOf(last)' = key
          /\ \A b : InFlight(b)' = IF b = "ingest" THEN {last} ELSE InFlight(b)
          /\ \A i, j \in Present' : KeyOf(i)' = KeyOf(j)' => i = j
          /\ \A i \in DOMAIN log' : log'[i].by = "backfill" => (KeyOf(i).sub)' = 1
          /\ \A i, j \in DOMAIN log' :
               i < j /\ log'[i].state = "open" /\ log'[j].state = "in" => i \in overtaken'
      BY <1>1, <1>5, <2>2, Appended
    <3>2. \A i \in InFlight("ingest")' : sweep'.pc = "commit" /\ KeyOf(i)' = KeyInHand'
      BY <1>3, <1>4, <3>1
    <3>3. \A i, j \in InFlight("backfill")' : i = j
      BY <1>1, <3>1 DEF LogInv
    <3> QED
      BY <3>1, <3>2, <3>3 DEF LogInv
  <2> QED
    BY <2>1, <2>2
<1>10. TypeOK'
  <2>1. /\ adm \in [Rows \X FileIds -> {None} \cup [line: 0 .. MaxLines, complete: BOOLEAN]]
        /\ raw \subseteq [row: Rows, file: FileIds, line: Lines, whole: BOOLEAN]
        /\ faults \in 0 .. MaxFaults /\ missed \subseteq FileIds
        /\ overtaken \subseteq 1 .. Len(log) /\ straddled \in BOOLEAN
    BY <1>1 DEF TypeOK, IngestTypeOK
  <2>2. Len(log') \in Nat
    BY <1>8, LenProperties
  <2>3. overtaken' \subseteq 1 .. Len(log')
    BY <1>1, <1>5, <1>8, <2>1, <2>2
  <2> QED
    BY <1>1, <1>3, <1>8, <2>1, <2>3, WorkerTyped
<1>11. FilesInv' /\ LinesUnderTheirMap' /\ MapsInv'
  <2>1. UNCHANGED <<up, map, files, stage, servers, adm, raw, straddled>> /\ Files' = Files
    BY <1>1 DEF game, Files
  <2>2. stage <= 2 => \A i \in DOMAIN log' : (KeyOf(i).row)' # New
    BY <1>1, <1>6, <1>7, <1>8 DEF MapsInv
  <2>3. FilesInv' /\ LinesUnderTheirMap'
    BY <2>1 DEF PipelineInv, FilesInv, LinesUnderTheirMap
  <2> QED
    BY <1>1, <1>3, <2>1, <2>2, <2>3 DEF MapsInv
<1>12. CursorBehindTheLog' /\ ProjectorInv'
  BY <1>1, <1>8, <1>10, CursorKept, ProjectorRests
<1>13. SweepInv' /\ LinesBehind'
  <2>1. Place' /\ InHand' /\ LinesBehind'
    BY <1>1, <1>2, <1>3, <1>8, <1>10, FileKept
  <2>2. sweep'.sub = 1 => Logged(sweep.row, sweep.file, sweep.line)'
    <3>1. sweep.sub = 1 => Logged(r, n, l)
      BY <1>1 DEF SweepInv
    <3>2. Logged(r, n, l) => Logged(r, n, l)'
      BY <1>1, <1>8, <1>10, StillRead
    <3> QED
      BY <1>3, <3>1, <3>2 DEF Logged, EventKey
  <2>3. \E i \in DOMAIN log' : /\ KeyOf(i)' = key
                               /\ \/ log'[i].state = "in"
                                  \/ log'[i].state = "open" /\ log'[i].by = "ingest"
    <3>1. CASE Indexed(key) # {}
      <4>1. PICK i \in DOMAIN log : log[i].key = key /\ log[i].state = "in"
        BY <1>1, <3>1 DEF Indexed
      <4> QED
        BY <1>7, <1>8, <4>1 DEF KeyOf
    <3>2. CASE Indexed(key) = {}
      <4>1. last \in DOMAIN log' /\ last \notin DOMAIN log
        BY <1>5, <1>8, <3>2
      <4> QED
        BY <1>8, <4>1
    <3> QED
      BY <3>1, <3>2
  <2>4. 1 <= sweep'.line /\ IsWhole'
    BY <1>2, <1>3, <1>4
  <2> QED
    BY <1>3, <1>4, <2>1, <2>2, <2>3, <2>4 DEF SweepInv
<1>14. OrderInv'
  <2>1. CASE Indexed(key) # {}
    <3>1. log' = log
      BY <1>1, <2>1
    <3>2. \A i \in DOMAIN log : KeyOf(i)' = KeyOf(i) /\ (LineEvent(i)' => LineEvent(i))
      BY <1>7, <3>1 DEF LineEvent, Present
    <3> QED
      BY <1>1, <1>8, <1>10, <3>1, <3>2, OrderKept
  <2>2. CASE Indexed(key) = {}
    <3>1. ASSUME sweep.sub = 0
          PROVE  /\ \A i \in DOMAIN log : LineEvent(i) /\ KeyOf(i).row = r =>
                      \/ KeyOf(i).file < n
                      \/ KeyOf(i).file = n /\ KeyOf(i).line < l
                      \/ KeyOf(i).file # n /\ n \in missed
                 /\ \A m \in 1 .. l - 1 : Logged(r, n, m)' \/ Passed(r, n, m)'
                 /\ \A f \in 1 .. n - 1 : Gone(r, f)'
      <4>1. /\ \A m \in 1 .. l - 1 : Logged(r, n, m) \/ Passed(r, n, m)
            /\ \A f \in 1 .. n - 1 : Gone(r, f)
            /\ \A i \in DOMAIN log : LineEvent(i) /\ KeyOf(i).row = r =>
                      \/ KeyOf(i).file < n
                      \/ KeyOf(i).file = n /\ KeyOf(i).line < l
                      \/ KeyOf(i).file # n /\ n \in missed
        BY <1>1, <2>2, <3>1, NewEventInOrder
      <4>2. (\A m \in 1 .. l - 1 : m \in Nat) /\ (\A f \in 1 .. n - 1 : f \in FileIds)
        BY IngestAssumption DEF FileIds
      <4> QED
        BY <1>1, <1>8, <1>10, <4>1, <4>2, StillRead
    <3>2. \A i \in DOMAIN log : LineEvent(i)' => LineEvent(i)
      BY <1>7, <1>8 DEF LineEvent, Present
    <3>3. \A i \in DOMAIN log : i < last
      BY <1>5
    <3>4. /\ \A i, j \in DOMAIN log :
               /\ LineEvent(i)' /\ LineEvent(j)' /\ i < j /\ (KeyOf(i).row)' = (KeyOf(j).row)'
               => \/ (KeyOf(i).file < KeyOf(j).file)'
                  \/ (KeyOf(i).file = KeyOf(j).file /\ KeyOf(i).line < KeyOf(j).line)'
                  \/ (KeyOf(i).file # KeyOf(j).file /\ KeyOf(j).file \in missed)'
          /\ \A i \in DOMAIN log : LineEvent(i)' =>
               /\ \A m \in 1 .. (KeyOf(i).line)' - 1 :
                    \/ Logged(KeyOf(i).row, KeyOf(i).file, m)'
                    \/ Passed(KeyOf(i).row, KeyOf(i).file, m)'
               /\ \A f \in 1 .. (KeyOf(i).file)' - 1 : Gone(KeyOf(i).row, f)'
      BY <1>1, <1>7, <1>8, <1>10, <3>2, OldOrder
    <3>5. \A i \in DOMAIN log' : i \in DOMAIN log \/ (i = last /\ KeyOf(i)' = key)
      BY <1>8
    <3>6. \A i, j \in DOMAIN log' :
               /\ LineEvent(i)' /\ LineEvent(j)' /\ i < j /\ (KeyOf(i).row)' = (KeyOf(j).row)'
               => \/ (KeyOf(i).file < KeyOf(j).file)'
                  \/ (KeyOf(i).file = KeyOf(j).file /\ KeyOf(i).line < KeyOf(j).line)'
                  \/ (KeyOf(i).file # KeyOf(j).file /\ KeyOf(j).file \in missed)'
      <4> SUFFICES ASSUME NEW i \in DOMAIN log', NEW j \in DOMAIN log', LineEvent(i)', LineEvent(j)',
                          i < j, (KeyOf(i).row)' = (KeyOf(j).row)'
                   PROVE  \/ (KeyOf(i).file < KeyOf(j).file)'
                          \/ (KeyOf(i).file = KeyOf(j).file /\ KeyOf(i).line < KeyOf(j).line)'
                          \/ (KeyOf(i).file # KeyOf(j).file /\ KeyOf(j).file \in missed)'
        OBVIOUS
      <4>1. i \in DOMAIN log
        BY <1>5, <3>3, <3>5
      <4>2. CASE j \in DOMAIN log
        BY <3>4, <4>1, <4>2
      <4>3. CASE j = last /\ KeyOf(j)' = key
        <5>1. sweep.sub = 0
          BY <1>6, <4>3 DEF LineEvent
        <5>2. KeyOf(i)' = KeyOf(i) /\ LineEvent(i) /\ KeyOf(i).row = r
          BY <1>6, <1>7, <3>2, <4>1, <4>3
        <5> QED
          BY <1>1, <1>6, <3>1, <4>1, <4>3, <5>1, <5>2
      <4> QED
        BY <3>5, <4>2, <4>3
    <3>7. ASSUME NEW i \in DOMAIN log', LineEvent(i)'
          PROVE  /\ \A m \in 1 .. (KeyOf(i).line)' - 1 :
                      \/ Logged(KeyOf(i).row, KeyOf(i).file, m)'
                      \/ Passed(KeyOf(i).row, KeyOf(i).file, m)'
                 /\ \A f \in 1 .. (KeyOf(i).file)' - 1 : Gone(KeyOf(i).row, f)'
      <4>1. CASE i \in DOMAIN log
        BY <3>4, <3>7, <4>1
      <4>2. CASE KeyOf(i)' = key
        <5>1. sweep.sub = 0 /\ (KeyOf(i).row)' = r /\ (KeyOf(i).file)' = n /\ (KeyOf(i).line)' = l
          BY <1>6, <3>7, <4>2 DEF LineEvent
        <5>2. \A m : /\ Logged(KeyOf(i).row, KeyOf(i).file, m)' <=> Logged(r, n, m)'
                     /\ Passed(KeyOf(i).row, KeyOf(i).file, m)' <=> Passed(r, n, m)'
                     /\ Gone(KeyOf(i).row, m)' <=> Gone(r, m)'
          BY <5>1 DEF Logged, Passed, Gone, Closed, EventKey
        <5> QED
          BY <3>1, <5>1, <5>2
      <4> QED
        BY <3>5, <3>7, <4>1, <4>2
    <3> QED
      BY <3>6, <3>7 DEF OrderInv
  <2> QED
    BY <2>1, <2>2
<1> QED
  BY <1>9, <1>10, <1>11, <1>12, <1>13, <1>14 DEF PipelineInv

\* The projector is not disturbed by what becomes visible: behind its cursor that is
\* overtaken.
LEMMA ProjectorSettles ==
  ASSUME PipelineInv, Visible \subseteq Visible', Visible' \subseteq Nat \ {0},
         overtaken \subseteq overtaken',
         \A i \in Visible', j \in Visible : i < j => i \in Visible \/ i \in overtaken',
         cursor' = cursor, folded' = folded, halfBuilt' = halfBuilt,
         batch' = batch \/ batch' = None,
         fleet' = fleet \/ (fleet = "up" /\ fleet' = "down"),
         fleet' # "up" => sweep'.pc = "idle" /\ (fleet = "up" => batch' = None)
  PROVE  ProjectorInv'
<1>1. ProjectorInv /\ TypeOK /\ cursor \in Nat /\ Visible \subseteq Nat /\ Len(log) \in Nat
  <2>1. TypeOK /\ ProjectorInv
    BY DEF PipelineInv
  <2> QED
    BY <2>1, LogTypes DEF TypeOK, Visible
<1>2. /\ cursor # 0 => cursor \in Visible'
      /\ \A m \in DOMAIN folded : folded[m] \in Visible' /\ folded[m] <= cursor
      /\ \A m, n \in DOMAIN folded : m < n => folded[m] < folded[n]
  BY <1>1 DEF ProjectorInv
<1>3. fleet' # "up" => batch' = None /\ sweep'.pc = "idle"
  BY <1>1 DEF ProjectorInv
<1>4. /\ fleet' \in {"truncated", "reset"} => folded = <<>>
      /\ fleet' = "reset" => cursor = 0 /\ ~halfBuilt
  BY <1>1 DEF ProjectorInv
<1>5. ASSUME batch' # None
      PROVE  /\ \A i \in batch' : i \in Visible' /\ cursor < i
             /\ \A i \in Visible', j \in batch' : cursor < i /\ i <= j => i \in batch' \cup overtaken'
  <2>1. batch' = batch /\ batch # None
    BY <1>5
  <2>2. \A i \in batch : i \in Visible /\ cursor < i
    BY <1>1, <2>1 DEF ProjectorInv
  <2>3. ASSUME NEW i \in Visible', NEW j \in batch, cursor < i, i <= j
        PROVE  i \in batch \cup overtaken'
    <3>1. CASE i \in Visible
      BY <1>1, <2>1, <2>3, <3>1 DEF ProjectorInv
    <3>2. CASE i \notin Visible
      <4>1. j \in Visible /\ j \in Nat /\ i # j
        BY <1>1, <2>2, <2>3, <3>2
      <4>2. i \in Nat
        BY <2>3
      <4> QED
        BY <2>3, <3>2, <4>1, <4>2
    <3> QED
      BY <3>1, <3>2
  <2> QED
    BY <2>1, <2>2, <2>3
<1>6. ASSUME fleet' \in {"up", "down"}, ~halfBuilt, NEW i \in Visible', i <= cursor
      PROVE  i \in ToSet(folded) \cup overtaken'
  <2>1. CASE i \in Visible
    <3>1. fleet \in {"up", "down"}
      BY <1>6
    <3> QED
      BY <1>1, <1>6, <2>1, <3>1 DEF ProjectorInv
  <2>2. CASE i \notin Visible
    <3>1. cursor # 0 /\ i \in Nat
      BY <1>1, <1>6
    <3>2. cursor \in Visible /\ i # cursor
      BY <1>1, <2>2, <3>1 DEF ProjectorInv
    <3>3. i < cursor
      BY <1>1, <1>6, <3>1, <3>2
    <3> QED
      BY <2>2, <3>2, <3>3
  <2> QED
    BY <2>1, <2>2
<1> QED
  BY <1>2, <1>3, <1>4, <1>5, <1>6 DEF ProjectorInv

\* The tables and the order of the log, when a transaction of the log ends.
LEMMA TablesSettle ==
  ASSUME PipelineInv, TypeOK', Onward, UNCHANGED <<game, servers, adm, raw, straddled>>,
         DOMAIN log' = DOMAIN log,
         \A i \in DOMAIN log : KeyOf(i)' = KeyOf(i) /\ (LineEvent(i)' => LineEvent(i)),
         sweep'.row \in {None, sweep.row}, sweep'.todo \subseteq sweep.todo
  PROVE  FilesInv' /\ MapsInv' /\ LinesUnderTheirMap' /\ CursorBehindTheLog' /\ OrderInv'
<1>1. stage <= 2 => sweep'.row # New /\ New \notin sweep'.todo
  BY IngestAssumption DEF PipelineInv, MapsInv
<1>2. CursorBehindTheLog' /\ OrderInv'
  BY CursorKept, OrderKept
<1>3. FilesInv' /\ MapsInv' /\ LinesUnderTheirMap'
  BY <1>1, TablesKept
<1> QED
  BY <1>2, <1>3

LEMMA CommitEventStep ==
  ASSUME PipelineInv, CommitEvent, fleet = "up", UNCHANGED <<projection, release>>
  PROVE  PipelineInv'
<1>1. /\ UNCHANGED <<game, servers, adm, raw, parser, faults, missed, straddled>>
      /\ sweep.pc = "commit" /\ sweep' = NextEvent(sweep.sub + 1)
      /\ log' = [i \in DOMAIN log |->
                   IF i \in InFlight("ingest") THEN [log[i] EXCEPT !.state = "in"] ELSE log[i]]
      /\ overtaken' = overtaken \cup {i \in DOMAIN log \ InFlight("ingest") :
                        log[i].state = "open" /\ \E j \in InFlight("ingest") : i < j}
      /\ TypeOK /\ LogInv /\ SweepInv /\ Ended("ingest", "in")
  BY CommittedEnds DEF CommitEvent, Committed, PipelineInv
<1>2. /\ InFile /\ KeyInHand \in Keys /\ IsWhole /\ sweep.line <= Total
      /\ sweep.row \in Rows /\ sweep.file \in FileIds /\ sweep.line \in Nat /\ sweep.sub \in 0 .. 1
      /\ 1 <= sweep.line
  BY <1>1, EventInHand DEF SweepInv
<1>3. /\ Onward /\ log' \in Seq(Entry) /\ Len(log') = Len(log) /\ Len(log) \in Nat
      /\ DOMAIN log' = DOMAIN log /\ DOMAIN log = 1 .. Len(log)
      /\ \A i \in DOMAIN log :
           /\ KeyOf(i)' = KeyOf(i) /\ (LineEvent(i)' => LineEvent(i))
           /\ log'[i].state = IF i \in InFlight("ingest") THEN "in" ELSE log[i].state
      /\ InFlight("ingest")' = {} /\ InFlight("backfill")' = InFlight("backfill")
      /\ \A i, j \in Present' : KeyOf(i)' = KeyOf(j)' => i = j
      /\ \A i \in DOMAIN log' : log'[i].by = "backfill" => (KeyOf(i).sub)' = 1
      /\ \A i, j \in DOMAIN log' :
           i < j /\ log'[i].state = "open" /\ log'[j].state = "in" => i \in overtaken'
      /\ \A i \in Visible', j \in Visible : i < j => i \in Visible \/ i \in overtaken'
  BY <1>1, Settled
<1>4. /\ sweep' \in SweepState
      /\ sweep'.row = sweep.row /\ sweep'.listed = sweep.listed /\ sweep'.file = sweep.file
      /\ sweep'.todo = sweep.todo /\ sweep'.whole = sweep.whole /\ sweep'.torn = sweep.torn
      /\ \/ sweep'.pc = "event" /\ sweep.sub + 1 \in Subs /\ sweep'.sub = sweep.sub + 1
              /\ sweep'.line = sweep.line
         \/ sweep'.pc = "line" /\ sweep'.line = sweep.line + 1
  <2>1. Total <= MaxLines
    BY <1>2, LineInHand
  <2> QED
    BY <1>1, <1>2, <2>1, NextEventTyped
<1>5. TypeOK'
  <2>1. /\ adm \in [Rows \X FileIds -> {None} \cup [line: 0 .. MaxLines, complete: BOOLEAN]]
        /\ raw \subseteq [row: Rows, file: FileIds, line: Lines, whole: BOOLEAN]
        /\ faults \in 0 .. MaxFaults /\ missed \subseteq FileIds
        /\ overtaken \subseteq 1 .. Len(log) /\ straddled \in BOOLEAN
    BY <1>1 DEF TypeOK, IngestTypeOK
  <2>2. overtaken' \subseteq 1 .. Len(log') /\ Len(log) <= Len(log')
    BY <1>1, <1>3, <2>1
  <2> QED
    BY <1>1, <1>3, <1>4, <2>1, <2>2, WorkerTyped
<1>6. FilesInv' /\ MapsInv' /\ LinesUnderTheirMap' /\ CursorBehindTheLog' /\ OrderInv'
  BY <1>1, <1>3, <1>4, <1>5, TablesSettle
<1>7. LogInv'
  BY <1>1, <1>3 DEF LogInv
<1>8. ProjectorInv'
  <2>1. Visible \subseteq Visible' /\ overtaken \subseteq overtaken'
    BY <1>1, <1>3 DEF Onward
  <2>2. Visible' \subseteq Nat \ {0}
    BY <1>3 DEF Visible
  <2> QED
    BY <1>3, <2>1, <2>2, ProjectorSettles DEF projection, release
<1> PICK r \in Rows, n \in FileIds, l \in Nat : r = sweep.row /\ n = sweep.file /\ l = sweep.line
  BY <1>2
<1>9. Logged(r, n, l)'
  <2>1. CASE sweep.sub = 1
    <3>1. Logged(r, n, l)
      BY <1>1, <2>1 DEF SweepInv
    <3> QED
      BY <1>1, <1>3, <1>5, <3>1, StillRead
  <2>2. CASE sweep.sub = 0
    <3>1. PICK i \in DOMAIN log : /\ KeyOf(i) = KeyInHand
                                  /\ \/ log[i].state = "in"
                                     \/ log[i].state = "open" /\ log[i].by = "ingest"
      BY <1>1 DEF SweepInv
    <3>2. i \in Visible'
      BY <1>3, <3>1 DEF Visible, InFlight
    <3>3. KeyOf(i)' = EventKey(r, n, l)
      BY <1>3, <2>2, <3>1 DEF KeyInHand, EventKey
    <3> QED
      BY <3>2, <3>3 DEF Logged, EventKey
  <2> QED
    BY <1>2, <2>1, <2>2
<1>10. SweepInv' /\ LinesBehind'
  <2>1. \/ sweep'.line = l
        \/ /\ sweep'.line = l + 1 /\ l <= Total
           /\ \/ l <= sweep.whole /\ Logged(r, n, l)'
              \/ l > sweep.whole /\ HalfRead(r, n, l)'
    BY <1>2, <1>4, <1>9 DEF IsWhole
  <2>2. Place' /\ InHand' /\ LinesBehind'
    BY <1>1, <1>2, <1>3, <1>4, <1>5, <2>1, FileKept
  <2>3. sweep'.pc = "event" => /\ 1 <= sweep'.line /\ IsWhole'
                               /\ Logged(sweep.row, sweep.file, sweep.line)'
    BY <1>2, <1>4, <1>9 DEF IsWhole, Logged, EventKey
  <2> QED
    BY <1>4, <2>2, <2>3 DEF SweepInv
<1> QED
  BY <1>5, <1>6, <1>7, <1>8, <1>10 DEF PipelineInv

\* The worker dies, by itself or for a deploy.
LEMMA KilledStep ==
  ASSUME PipelineInv, Killed, UNCHANGED <<game, servers, adm, raw, missed, parser, straddled>>,
         faults < MaxFaults, faults' = faults + 1, cursor' = cursor, folded' = folded,
         halfBuilt' = halfBuilt, batch' = batch \/ batch' = None,
         \/ fleet' = fleet /\ fleet = "up"
         \/ fleet = "up" /\ fleet' = "down" /\ batch' = None
  PROVE  PipelineInv'
<1>1. TypeOK /\ LogInv
  BY DEF PipelineInv
<1>2. \E to \in {"in", "void"} : Ended("ingest", to)
  <2>1. CASE Committed("ingest")
    BY <2>1, CommittedEnds
  <2>2. CASE /\ log' = [i \in DOMAIN log |->
                     IF i \in InFlight("ingest") THEN [log[i] EXCEPT !.state = "void"]
                     ELSE log[i]]
             /\ UNCHANGED overtaken
    <3>1. "void" # "in"
      OBVIOUS
    <3>2. Ended("ingest", "void")
      BY <2>2, <3>1 DEF Ended
    <3> QED
      BY <3>2
  <2> QED
    BY <2>1, <2>2 DEF Killed
<1>3. PICK to \in {"in", "void"} : Ended("ingest", to)
  BY <1>2
<1>4. /\ Onward /\ log' \in Seq(Entry) /\ Len(log') = Len(log) /\ Len(log) \in Nat
      /\ DOMAIN log' = DOMAIN log /\ DOMAIN log = 1 .. Len(log)
      /\ \A i \in DOMAIN log : KeyOf(i)' = KeyOf(i) /\ (LineEvent(i)' => LineEvent(i))
      /\ InFlight("ingest")' = {} /\ InFlight("backfill")' = InFlight("backfill")
      /\ \A i, j \in Present' : KeyOf(i)' = KeyOf(j)' => i = j
      /\ \A i \in DOMAIN log' : log'[i].by = "backfill" => (KeyOf(i).sub)' = 1
      /\ \A i, j \in DOMAIN log' :
           i < j /\ log'[i].state = "open" /\ log'[j].state = "in" => i \in overtaken'
      /\ \A i \in Visible', j \in Visible : i < j => i \in Visible \/ i \in overtaken'
  BY <1>3, Settled
<1>5. sweep' = Idle /\ sweep' \in SweepState /\ sweep'.pc = "idle" /\ sweep'.row = None
      /\ sweep'.todo = {}
  BY IngestAssumption DEF Killed, Idle, SweepState
<1>6. TypeOK'
  <2>1. /\ adm \in [Rows \X FileIds -> {None} \cup [line: 0 .. MaxLines, complete: BOOLEAN]]
        /\ raw \subseteq [row: Rows, file: FileIds, line: Lines, whole: BOOLEAN]
        /\ faults \in 0 .. MaxFaults /\ missed \subseteq FileIds /\ MaxFaults \in Nat
        /\ overtaken \subseteq 1 .. Len(log) /\ straddled \in BOOLEAN
    BY <1>1, IngestAssumption DEF TypeOK, IngestTypeOK
  <2>2. overtaken' \subseteq 1 .. Len(log') /\ faults' \in 0 .. MaxFaults
    BY <1>3, <1>4, <2>1 DEF Ended
  <2>3. UNCHANGED <<up, map, files, stage, servers, adm, raw, missed, parser, straddled>>
    BY DEF game
  <2>4. IngestTypeOK'
    BY <1>1, <1>4, <1>5, <2>2, <2>3 DEF TypeOK, IngestTypeOK
  <2>5. /\ cursor' \in 0 .. Len(log') /\ folded' \in Seq(1 .. Len(log'))
        /\ halfBuilt' \in BOOLEAN /\ fleet' \in {"up", "down", "truncated", "reset"}
        /\ batch' \in {None} \cup ((SUBSET (1 .. Len(log'))) \ {{}})
    BY <1>1, <1>4 DEF TypeOK
  <2> QED
    BY <2>4, <2>5 DEF TypeOK
<1>7. FilesInv' /\ MapsInv' /\ LinesUnderTheirMap' /\ CursorBehindTheLog' /\ OrderInv'
  BY <1>4, <1>5, <1>6, TablesSettle
<1>8. LogInv'
  BY <1>1, <1>4 DEF LogInv
<1>9. ProjectorInv'
  <2>1. Visible \subseteq Visible' /\ overtaken \subseteq overtaken'
    BY <1>3, <1>4 DEF Onward, Ended
  <2>2. Visible' \subseteq Nat \ {0}
    BY <1>4 DEF Visible
  <2>3. fleet' # "up" => sweep'.pc = "idle" /\ batch' = None
    BY <1>5
  <2> QED
    BY <1>4, <2>1, <2>2, <2>3, ProjectorSettles
<1>10. SweepInv' /\ LinesBehind'
  BY <1>5 DEF SweepInv, LinesBehind, InFile, Reading
<1> QED
  BY <1>6, <1>7, <1>8, <1>9, <1>10 DEF PipelineInv

-----------------------------------------------------------------------------
\* The backfill appends beside the worker.

LEMMA SweepKept ==
  ASSUME PipelineInv, TypeOK', Onward,
         UNCHANGED <<game, servers, adm, raw, sweep, missed, straddled>>,
         DOMAIN log \subseteq DOMAIN log',
         \A i \in DOMAIN log :
           /\ KeyOf(i)' = KeyOf(i)
           /\ log[i].state = "in" => log'[i].state = "in"
           /\ log[i].by = "ingest" /\ log[i].state = "open"
              => log'[i].by = "ingest" /\ log'[i].state = "open"
  PROVE  SweepInv' /\ LinesBehind'
<1>1. /\ UNCHANGED <<up, map, files, stage, servers, adm, raw, sweep, missed, straddled>>
      /\ Files' = Files /\ SweepInv /\ TypeOK
  BY DEF game, Files, PipelineInv
<1>2. Place => Place'
  BY <1>1 DEF Place, Gone, Closed
<1>3. InHand => InHand'
  BY <1>1 DEF InHand, BeforeCutoff, Row, Total
<1>4. sweep.pc \in {"event", "commit"} /\ sweep.sub = 1 =>
        Logged(sweep.row, sweep.file, sweep.line)'
  BY <1>1 DEF SweepInv, Onward, Logged, EventKey
<1>5. sweep.pc = "commit" =>
        \E i \in DOMAIN log' : /\ KeyOf(i)' = KeyInHand
                               /\ \/ log'[i].state = "in"
                                  \/ log'[i].state = "open" /\ log'[i].by = "ingest"
  BY <1>1 DEF SweepInv
<1>6. KeyInHand' = KeyInHand /\ IsWhole' = IsWhole /\ InFile' = InFile /\ Reading' = Reading
  BY <1>1 DEF KeyInHand, IsWhole, InFile, Reading
<1>7. SweepInv'
  BY <1>1, <1>2, <1>3, <1>4, <1>5, <1>6 DEF SweepInv
<1>8. LinesBehind'
  <2> SUFFICES ASSUME InFile, NEW l \in 1 .. sweep.line - 1
               PROVE  \/ Passed(sweep.row, sweep.file, l)'
                      \/ l <= sweep.whole /\ Logged(sweep.row, sweep.file, l)'
                      \/ l > sweep.whole /\ HalfRead(sweep.row, sweep.file, l)'
    BY <1>1, <1>6 DEF LinesBehind
  <2>1. /\ Passed(sweep.row, sweep.file, l) => Passed(sweep.row, sweep.file, l)'
        /\ HalfRead(sweep.row, sweep.file, l) => HalfRead(sweep.row, sweep.file, l)'
        /\ Logged(sweep.row, sweep.file, l) => Logged(sweep.row, sweep.file, l)'
    BY <1>1 DEF Passed, HalfRead, Onward, Logged, EventKey
  <2> QED
    BY <2>1 DEF PipelineInv, LinesBehind
<1> QED
  BY <1>7, <1>8

LEMMA BackfillInsertStep ==
  ASSUME PipelineInv, BackfillInsert
  PROVE  PipelineInv'
<1>1. /\ UNCHANGED <<game, servers, adm, raw, sweep, missed, overtaken, parser, faults,
                     straddled, projection, release>>
      /\ InFlight("backfill") = {} /\ TypeOK /\ LogInv /\ MapsInv
  BY DEF BackfillInsert, PipelineInv
<1>2. PICK key \in Keys : /\ key.sub = 1 /\ Indexed(key) = {}
                          /\ stage <= 2 => key.row # New
                          /\ log' = Append(log, [key |-> key, by |-> "backfill", state |-> "open"])
  <2>1. PICK x \in raw :
          LET key == [row |-> x.row, file |-> x.file, line |-> x.line, sub |-> 1]
          IN  Indexed(key) = {} /\ Inserted(key, "backfill")
    BY DEF BackfillInsert
  <2>2. x.row \in Rows /\ x.file \in FileIds /\ x.line \in Lines
    BY <1>1, RowTypes DEF Lines
  <2>3. stage <= 2 => x.row # New
    BY <1>1 DEF MapsInv
  <2>4. [row |-> x.row, file |-> x.file, line |-> x.line, sub |-> 1] \in Keys
    BY <2>2 DEF Keys
  <2> QED
    BY <2>1, <2>3, <2>4 DEF Inserted
<1> PICK last : last = Len(log) + 1
  OBVIOUS
<1>3. /\ Onward /\ log' \in Seq(Entry) /\ Len(log) \in Nat /\ Len(log') = last
      /\ DOMAIN log' = 1 .. last /\ DOMAIN log = 1 .. Len(log)
      /\ \A i \in DOMAIN log : log'[i] = log[i] /\ KeyOf(i)' = KeyOf(i)
      /\ KeyOf(last)' = key /\ log'[last].state = "open" /\ log'[last].by = "backfill"
      /\ Visible' = Visible
      /\ \A b : InFlight(b)' = IF b = "backfill" THEN {last} ELSE InFlight(b)
      /\ \A i, j \in Present' : KeyOf(i)' = KeyOf(j)' => i = j
      /\ \A i \in DOMAIN log' : log'[i].by = "backfill" => (KeyOf(i).sub)' = 1
      /\ \A i, j \in DOMAIN log' :
           i < j /\ log'[i].state = "open" /\ log'[j].state = "in" => i \in overtaken'
  BY <1>1, <1>2, Appended
<1>4. \A i \in DOMAIN log' : i \in DOMAIN log \/ i = last
  BY <1>3
<1>5. TypeOK'
  <2>1. /\ adm \in [Rows \X FileIds -> {None} \cup [line: 0 .. MaxLines, complete: BOOLEAN]]
        /\ raw \subseteq [row: Rows, file: FileIds, line: Lines, whole: BOOLEAN]
        /\ faults \in 0 .. MaxFaults /\ missed \subseteq FileIds /\ sweep \in SweepState
        /\ overtaken \subseteq 1 .. Len(log) /\ straddled \in BOOLEAN
    BY <1>1 DEF TypeOK, IngestTypeOK
  <2>2. overtaken' \subseteq 1 .. Len(log') /\ Len(log) <= Len(log')
    BY <1>1, <1>3, <2>1
  <2> QED
    BY <1>1, <1>3, <2>1, <2>2, WorkerTyped
<1>6. SweepInv' /\ LinesBehind'
  BY <1>1, <1>3, <1>5, SweepKept
<1>7. LogInv'
  <2>1. \A i \in InFlight("ingest")' : sweep'.pc = "commit" /\ KeyOf(i)' = KeyInHand'
    <3>1. InFlight("ingest")' = InFlight("ingest") /\ KeyInHand' = KeyInHand
      BY <1>1, <1>3 DEF KeyInHand
    <3>2. InFlight("ingest") \subseteq DOMAIN log
      BY DEF InFlight
    <3> QED
      BY <1>1, <1>3, <3>1, <3>2 DEF LogInv
  <2>2. \A i, j \in InFlight("backfill")' : i = j
    BY <1>3
  <2> QED
    BY <1>3, <2>1, <2>2 DEF LogInv
<1>8. FilesInv' /\ MapsInv' /\ LinesUnderTheirMap' /\ CursorBehindTheLog'
  <2>1. UNCHANGED <<up, map, files, stage, servers, adm, raw, sweep, straddled>> /\ Files' = Files
    BY <1>1 DEF game, Files
  <2>2. stage <= 2 => \A i \in DOMAIN log' : (KeyOf(i).row)' # New
    BY <1>1, <1>2, <1>3, <1>4 DEF MapsInv
  <2>3. FilesInv' /\ LinesUnderTheirMap'
    BY <2>1 DEF PipelineInv, FilesInv, LinesUnderTheirMap
  <2>4. MapsInv'
    BY <1>1, <2>1, <2>2 DEF MapsInv
  <2> QED
    BY <1>1, <1>3, <1>5, <2>3, <2>4, CursorKept
<1>9. OrderInv'
  <2>1. \A i \in DOMAIN log : KeyOf(i)' = KeyOf(i) /\ (LineEvent(i)' => LineEvent(i))
    BY <1>3 DEF LineEvent, Present
  <2>2. \A i \in DOMAIN log' : LineEvent(i)' => i \in DOMAIN log
    BY <1>2, <1>3, <1>4 DEF LineEvent
  <2> QED
    BY <1>1, <1>3, <1>5, <2>1, <2>2, OldOrder DEF OrderInv
<1>10. ProjectorInv'
  <2>1. UNCHANGED <<cursor, folded, batch, fleet, halfBuilt, overtaken, sweep>>
    BY <1>1 DEF projection, release
  <2> QED
    BY <1>3, <2>1 DEF PipelineInv, ProjectorInv
<1> QED
  BY <1>5, <1>6, <1>7, <1>8, <1>9, <1>10 DEF PipelineInv

LEMMA BackfillCommitStep ==
  ASSUME PipelineInv, BackfillCommit
  PROVE  PipelineInv'
<1>1. /\ UNCHANGED <<game, servers, adm, raw, sweep, missed, parser, faults, straddled,
                     projection, release>>
      /\ TypeOK /\ LogInv /\ ProjectorInv
      /\ Ended("backfill", "in")
  BY CommittedEnds DEF BackfillCommit, PipelineInv
<1>2. /\ Onward /\ log' \in Seq(Entry) /\ Len(log') = Len(log) /\ Len(log) \in Nat
      /\ DOMAIN log' = DOMAIN log /\ DOMAIN log = 1 .. Len(log)
      /\ \A i \in DOMAIN log :
           /\ KeyOf(i)' = KeyOf(i) /\ (LineEvent(i)' => LineEvent(i))
           /\ log'[i].state = IF i \in InFlight("backfill") THEN "in" ELSE log[i].state
           /\ log'[i].by = log[i].by
      /\ InFlight("backfill")' = {} /\ InFlight("ingest")' = InFlight("ingest")
      /\ \A i, j \in Present' : KeyOf(i)' = KeyOf(j)' => i = j
      /\ \A i \in DOMAIN log' : log'[i].by = "backfill" => (KeyOf(i).sub)' = 1
      /\ \A i, j \in DOMAIN log' :
           i < j /\ log'[i].state = "open" /\ log'[j].state = "in" => i \in overtaken'
      /\ \A i \in Visible', j \in Visible : i < j => i \in Visible \/ i \in overtaken'
  BY <1>1, Settled
<1>3. TypeOK'
  <2>1. /\ adm \in [Rows \X FileIds -> {None} \cup [line: 0 .. MaxLines, complete: BOOLEAN]]
        /\ raw \subseteq [row: Rows, file: FileIds, line: Lines, whole: BOOLEAN]
        /\ faults \in 0 .. MaxFaults /\ missed \subseteq FileIds /\ sweep \in SweepState
        /\ overtaken \subseteq 1 .. Len(log) /\ straddled \in BOOLEAN
    BY <1>1 DEF TypeOK, IngestTypeOK
  <2>2. overtaken' \subseteq 1 .. Len(log') /\ Len(log) <= Len(log')
    BY <1>1, <1>2, <2>1 DEF Ended
  <2> QED
    BY <1>1, <1>2, <2>1, <2>2, WorkerTyped
<1>4. FilesInv' /\ MapsInv' /\ LinesUnderTheirMap' /\ CursorBehindTheLog' /\ OrderInv'
  BY <1>1, <1>2, <1>3, TablesSettle
<1>5. SweepInv' /\ LinesBehind'
  <2>1. \A i \in DOMAIN log :
           /\ log[i].state = "in" => log'[i].state = "in"
           /\ log[i].by = "ingest" /\ log[i].state = "open"
              => log'[i].by = "ingest" /\ log'[i].state = "open"
    BY <1>2 DEF InFlight
  <2> QED
    BY <1>1, <1>2, <1>3, <2>1, SweepKept
<1>6. LogInv'
  <2>1. \A i \in InFlight("ingest")' : sweep'.pc = "commit" /\ KeyOf(i)' = KeyInHand'
    <3>1. KeyInHand' = KeyInHand /\ InFlight("ingest") \subseteq DOMAIN log
      BY <1>1 DEF KeyInHand, InFlight
    <3> QED
      BY <1>1, <1>2, <3>1 DEF LogInv
  <2> QED
    BY <1>2, <2>1 DEF LogInv
<1>7. ProjectorInv'
  <2>1. Visible \subseteq Visible' /\ overtaken \subseteq overtaken'
    BY <1>1, <1>2 DEF Onward, Ended
  <2>2. Visible' \subseteq Nat \ {0}
    BY <1>2 DEF Visible
  <2>3. UNCHANGED <<cursor, folded, batch, fleet, halfBuilt, sweep>>
    BY <1>1 DEF projection, release
  <2>4. fleet' # "up" => sweep'.pc = "idle" /\ (fleet = "up" => batch' = None)
    BY <1>1, <2>3 DEF ProjectorInv
  <2> QED
    BY <1>2, <2>1, <2>2, <2>3, <2>4, ProjectorSettles
<1> QED
  BY <1>3, <1>4, <1>5, <1>6, <1>7 DEF PipelineInv

-----------------------------------------------------------------------------
\* The projector and the deploy script leave the log to the worker.

LEMMA WorkRests ==
  ASSUME PipelineInv, UNCHANGED <<game, servers, worker, straddled>>
  PROVE  /\ FilesInv' /\ MapsInv' /\ LinesUnderTheirMap' /\ SweepInv' /\ LinesBehind'
         /\ CursorBehindTheLog' /\ LogInv' /\ OrderInv'
<1>1. /\ UNCHANGED <<up, map, files, stage, servers, adm, raw, log, sweep, missed, overtaken,
                     straddled>>
      /\ Files' = Files /\ Visible' = Visible /\ Present' = Present
      /\ (\A by : InFlight(by)' = InFlight(by)) /\ (\A i : KeyOf(i)' = KeyOf(i))
  BY DEF game, worker, Files, Visible, Present, InFlight, KeyOf
<1>2. \A r, f, l : /\ Logged(r, f, l)' = Logged(r, f, l)
                   /\ HalfRead(r, f, l)' = HalfRead(r, f, l)
                   /\ Passed(r, f, l)' = Passed(r, f, l)
                   /\ Gone(r, f)' = Gone(r, f) /\ Closed(r, f)' = Closed(r, f)
  BY <1>1 DEF Logged, HalfRead, Passed, Gone, Closed
<1>3. FilesInv' /\ MapsInv' /\ LinesUnderTheirMap'
  BY <1>1 DEF PipelineInv, FilesInv, MapsInv, LinesUnderTheirMap
<1>4. SweepInv' /\ LinesBehind'
  <2>1. /\ KeyInHand' = KeyInHand /\ IsWhole' = IsWhole /\ InFile' = InFile
        /\ Reading' = Reading /\ Total' = Total
    BY <1>1 DEF KeyInHand, IsWhole, InFile, Reading, Total
  <2>2. Place => Place'
    BY <1>1, <1>2 DEF Place
  <2>3. InHand => InHand'
    BY <1>1, <2>1 DEF InHand, BeforeCutoff, Row
  <2>4. Logged(sweep.row, sweep.file, sweep.line)' = Logged(sweep.row, sweep.file, sweep.line)
    BY <1>1 DEF Logged
  <2>5. SweepInv'
    BY <1>1, <2>1, <2>2, <2>3, <2>4 DEF PipelineInv, SweepInv
  <2>6. LinesBehind'
    BY <1>1, <2>1 DEF PipelineInv, LinesBehind, Passed, Logged, HalfRead
  <2> QED
    BY <2>5, <2>6
<1>5. CursorBehindTheLog'
  BY <1>1 DEF PipelineInv, CursorBehindTheLog
<1>6. LogInv'
  <2>1. KeyInHand' = KeyInHand
    BY <1>1 DEF KeyInHand
  <2> QED
    BY <1>1, <2>1 DEF PipelineInv, LogInv
<1>7. OrderInv'
  <2>1. \A i : LineEvent(i)' <=> LineEvent(i)
    BY <1>1 DEF LineEvent
  <2>2. /\ \A i, l : /\ Logged(KeyOf(i).row, KeyOf(i).file, l) =>
                          Logged(KeyOf(i).row, KeyOf(i).file, l)'
                     /\ Passed(KeyOf(i).row, KeyOf(i).file, l) =>
                          Passed(KeyOf(i).row, KeyOf(i).file, l)'
        /\ \A i, f : Gone(KeyOf(i).row, f) => Gone(KeyOf(i).row, f)'
    BY <1>1 DEF Logged, Passed, Gone, Closed
  <2> QED
    BY <1>1, <2>1, <2>2 DEF PipelineInv, OrderInv
<1> QED
  BY <1>3, <1>4, <1>5, <1>6, <1>7

LEMMA EventBatchIsNext ==
  ASSUME TypeOK
  PROVE  /\ EventBatch \subseteq 1 .. Len(log)
         /\ \A i \in EventBatch : i \in Visible /\ cursor < i
         /\ \A i \in Visible, j \in EventBatch : cursor < i /\ i <= j => i \in EventBatch
<1> DEFINE beyond == {i \in Visible : i > cursor}
           UpTo(j) == {i \in beyond : i <= j}
<1>1. Len(log) \in Nat /\ Visible \subseteq 1 .. Len(log) /\ cursor \in Nat
  BY LogTypes DEF Visible, TypeOK
<1>2. EventBatch = {i \in beyond : Cardinality(UpTo(i)) <= BatchSize}
  BY DEF EventBatch
<1>3. \A j : IsFiniteSet(UpTo(j)) /\ Cardinality(UpTo(j)) \in Nat
  <2>1. IsFiniteSet(1 .. Len(log))
    BY <1>1, FS_Interval
  <2> SUFFICES ASSUME NEW j PROVE IsFiniteSet(UpTo(j)) /\ Cardinality(UpTo(j)) \in Nat
    OBVIOUS
  <2>2. UpTo(j) \in SUBSET (1 .. Len(log))
    BY <1>1
  <2> HIDE DEF UpTo
  <2>3. IsFiniteSet(UpTo(j))
    BY <2>1, <2>2, FS_Subset
  <2> QED
    BY <2>3, FS_CardinalityType
<1>4. ASSUME NEW i \in beyond, NEW j \in beyond, i <= j, Cardinality(UpTo(j)) <= BatchSize
      PROVE  Cardinality(UpTo(i)) <= BatchSize
  <2>1. UpTo(i) \in SUBSET UpTo(j)
    <3>1. i \in Nat /\ j \in Nat /\ \A k \in beyond : k \in Nat
      BY <1>1
    <3>2. \A k \in beyond : k <= i => k <= j
      BY <1>4, <3>1
    <3> QED
      BY <3>2
  <2>2. Cardinality(UpTo(i)) <= Cardinality(UpTo(j))
    <3> HIDE DEF UpTo
    <3> QED
      BY <1>3, <2>1, FS_Subset
  <2>3. Cardinality(UpTo(i)) \in Nat /\ Cardinality(UpTo(j)) \in Nat /\ BatchSize \in Nat
    <3> HIDE DEF UpTo
    <3> QED
      BY <1>3, BatchAssumption
  <2> HIDE DEF UpTo
  <2> QED
    BY <1>4, <2>2, <2>3
<1> HIDE DEF UpTo
<1> QED
  BY <1>1, <1>2, <1>4

LEMMA ReadBatchStep ==
  ASSUME PipelineInv, ReadBatch
  PROVE  PipelineInv'
<1>1. /\ UNCHANGED <<ingestVars, cursor, folded, release>> /\ TypeOK /\ ProjectorInv
      /\ fleet = "up" /\ EventBatch # {} /\ batch' = EventBatch
  BY DEF ReadBatch, PipelineInv
<1>2. UNCHANGED <<game, servers, worker, straddled, parser, faults, cursor, folded, fleet, halfBuilt>>
  BY <1>1 DEF ingestVars, release
<1>3. /\ EventBatch \subseteq 1 .. Len(log)
      /\ \A i \in EventBatch : i \in Visible /\ cursor < i
      /\ \A i \in Visible, j \in EventBatch : cursor < i /\ i <= j => i \in EventBatch
  BY <1>1, EventBatchIsNext
<1>4. TypeOK'
  <2>1. batch' \in {None} \cup ((SUBSET (1 .. Len(log))) \ {{}}) /\ log' = log
    BY <1>1, <1>2, <1>3 DEF worker
  <2> QED
    BY <1>1, <1>2, <2>1 DEF TypeOK, IngestTypeOK, game, worker
<1>5. ProjectorInv'
  <2>1. Visible' = Visible /\ overtaken' = overtaken /\ sweep' = sweep
    BY <1>2 DEF worker, Visible
  <2>2. /\ \A i \in batch' : i \in Visible /\ cursor < i
        /\ \A i \in Visible, j \in batch' : cursor < i /\ i <= j => i \in batch' \cup overtaken
    BY <1>1, <1>3
  <2>3. /\ cursor # 0 => cursor \in Visible
        /\ \A m \in DOMAIN folded : folded[m] \in Visible /\ folded[m] <= cursor
        /\ \A m, n \in DOMAIN folded : m < n => folded[m] < folded[n]
        /\ ~halfBuilt => \A i \in Visible : i <= cursor => i \in ToSet(folded) \cup overtaken
    BY <1>1 DEF ProjectorInv
  <2>4. /\ UNCHANGED <<cursor, folded, fleet, halfBuilt, overtaken>> /\ Visible' = Visible
        /\ fleet = "up"
    BY <1>1, <1>2, <2>1
  <2> QED
    BY <2>2, <2>3, <2>4 DEF ProjectorInv
<1> QED
  BY <1>2, <1>4, <1>5, WorkRests DEF PipelineInv

LEMMA BatchFailsStep ==
  ASSUME PipelineInv, BatchFails
  PROVE  PipelineInv'
<1>1. /\ UNCHANGED <<game, servers, worker, parser, straddled, cursor, folded, release>>
      /\ faults < MaxFaults /\ faults' = faults + 1 /\ batch' = None
      /\ TypeOK /\ ProjectorInv
  BY DEF BatchFails, PipelineInv
<1>2. UNCHANGED <<up, map, files, stage, adm, raw, log, sweep, missed, overtaken, fleet, halfBuilt>>
  BY <1>1 DEF game, worker, release
<1>3. TypeOK'
  <2>1. faults' \in 0 .. MaxFaults
    BY <1>1, IngestAssumption DEF TypeOK, IngestTypeOK
  <2> QED
    BY <1>1, <1>2, <2>1 DEF TypeOK, IngestTypeOK
<1>4. ProjectorInv'
  <2>1. Visible' = Visible
    BY <1>2 DEF Visible
  <2> QED
    BY <1>1, <1>2, <2>1 DEF ProjectorInv
<1> QED
  BY <1>1, <1>3, <1>4, WorkRests DEF PipelineInv

\* The deploy script.
LEMMA DeploySteps ==
  ASSUME PipelineInv, Truncate \/ ResetCursor \/ StartFleet \/ DeployFails
  PROVE  PipelineInv'
<1>1. TypeOK /\ ProjectorInv /\ fleet # "up" /\ batch = None /\ sweep.pc = "idle"
  BY DEF PipelineInv, ProjectorInv, Truncate, ResetCursor, StartFleet, DeployFails
<1>2. UNCHANGED <<game, servers, worker, straddled, faults, batch>> /\ parser' \in {"old", "new"}
  BY <1>1 DEF TypeOK, IngestTypeOK, Truncate, ResetCursor, StartFleet, DeployFails, ingestVars,
              projection
<1>3. UNCHANGED <<up, map, files, stage, adm, raw, log, sweep, missed, overtaken>>
      /\ Visible' = Visible
  BY <1>2 DEF game, worker, Visible
<1>4. /\ cursor' \in 0 .. Len(log) /\ folded' \in Seq(1 .. Len(log))
      /\ fleet' \in {"up", "down", "truncated", "reset"} /\ halfBuilt' \in BOOLEAN
  <2>1. Len(log) \in Nat /\ cursor \in 0 .. Len(log) /\ folded \in Seq(1 .. Len(log))
        /\ halfBuilt \in BOOLEAN
    BY <1>1, LogTypes DEF TypeOK
  <2> DEFINE Ids == 1 .. Len(log)
  <2>7. 0 \in 0 .. Len(log)
    BY <2>1
  <2>2. <<>> \in Seq(Ids)
    <3> HIDE DEF Ids
    <3> QED
      OBVIOUS
  <2>3. CASE Truncate
    BY <2>1, <2>2, <2>3 DEF Truncate
  <2>4. CASE ResetCursor
    BY <2>1, <2>4, <2>7 DEF ResetCursor
  <2>5. CASE StartFleet
    BY <2>1, <2>5 DEF StartFleet, projection
  <2>6. CASE DeployFails
    BY <2>1, <2>6 DEF DeployFails, projection
  <2> QED
    BY <2>3, <2>4, <2>5, <2>6
<1>5. TypeOK'
  BY <1>1, <1>2, <1>3, <1>4 DEF TypeOK, IngestTypeOK
<1>6. Visible \subseteq Nat \ {0} /\ cursor \in Nat
  BY <1>1, LogTypes DEF Visible, TypeOK
<1>7. ProjectorInv'
  <2>1. CASE Truncate
    BY <1>1, <1>3, <1>6, <2>1 DEF Truncate, ProjectorInv
  <2>2. CASE ResetCursor
    <3>1. folded = <<>>
      BY <1>1, <2>2 DEF ResetCursor, ProjectorInv
    <3> QED
      BY <1>1, <1>3, <2>2, <3>1 DEF ResetCursor, ProjectorInv
  <2>3. CASE StartFleet
    <3>1. fleet = "reset" => \A i \in Visible : ~(i <= cursor)
      BY <1>1, <1>6 DEF ProjectorInv
    <3> QED
      BY <1>1, <1>3, <2>3, <3>1 DEF StartFleet, projection, ProjectorInv
  <2>4. CASE DeployFails
    <3>1. fleet = "reset" => \A i \in Visible : ~(i <= cursor)
      BY <1>1, <1>6 DEF ProjectorInv
    <3>2. fleet \in {"down", "truncated", "reset"}
      BY <1>1 DEF TypeOK
    <3>3. /\ fleet' = "up" /\ UNCHANGED <<cursor, folded, batch>>
          /\ halfBuilt' = (halfBuilt \/ fleet = "truncated")
      BY <2>4 DEF DeployFails, projection
    <3>4. ~halfBuilt' => ~halfBuilt /\ fleet # "truncated"
      BY <3>3
    <3> QED
      BY <1>1, <1>3, <3>1, <3>2, <3>3, <3>4 DEF ProjectorInv
  <2> QED
    BY <2>1, <2>2, <2>3, <2>4
<1> QED
  BY <1>2, <1>5, <1>7, WorkRests DEF PipelineInv

-----------------------------------------------------------------------------
\* A batch is folded: the cursor comes to its greatest id, and the tables take its
\* ids in their order.

LEMMA GreatestOfIds ==
  ASSUME NEW n \in Nat, NEW S \in SUBSET (1 .. n), S # {}
  PROVE  Max(S) \in S /\ \A x \in S : x <= Max(S)
<1> DEFINE T == {x .. n : x \in S}
<1>1. T \subseteq FiniteSubsetsOf(Nat) /\ T # {}
  <2>1. \A x \in S : x .. n \subseteq Nat /\ IsFiniteSet(x .. n)
    <3>1. \A x \in S : x \in Int /\ x .. n \subseteq Nat
      OBVIOUS
    <3> QED
      BY <3>1, FS_Interval
  <2> QED
    BY <2>1 DEF FiniteSubsetsOf
<1>2. PICK i \in T : \A j \in T : ~(<<j, i>> \in StrictSubsetOrdering(Nat))
  BY <1>1, FS_StrictSubsetOrderingWellFounded, WFMin
<1>3. PICK m \in S : i = m .. n
  OBVIOUS
<1>4. ASSUME NEW x \in S PROVE m >= x
  <2>1. <<x .. n, m .. n>> \notin StrictSubsetOrdering(Nat)
    BY <1>2, <1>3
  <2>2. x .. n \in SUBSET Nat /\ m .. n \in SUBSET Nat
    OBVIOUS
  <2>3. ~(x .. n \subseteq m .. n /\ x .. n # m .. n)
    BY <2>1, <2>2 DEF StrictSubsetOrdering
  <2> QED
    BY <2>3
<1>5. PICK g \in S : g = Max(S) /\ \A x \in S : g >= x
  BY <1>4 DEF Max
<1>6. g \in Nat /\ \A x \in S : x \in Nat
  OBVIOUS
<1> QED
  BY <1>5, <1>6

LEMMA BatchInOrder ==
  ASSUME PipelineInv, FoldBatch
  PROVE  /\ cursor' \in batch /\ cursor' = Max(batch) /\ \A i \in batch : i <= cursor'
         /\ \E order \in Seq(batch) :
              /\ folded' = folded \o order /\ order # <<>> /\ ToSet(order) = batch
              /\ \A m, n \in DOMAIN order : m < n => order[m] < order[n]
<1>1. /\ TypeOK /\ batch # {} /\ batch \in SUBSET (1 .. Len(log)) /\ Len(log) \in Nat
      /\ cursor' = Max(batch)
  <2>1. batch # None /\ TypeOK /\ cursor' = Max(batch)
    BY DEF FoldBatch, PipelineInv
  <2> QED
    BY <2>1, LogTypes DEF TypeOK
<1>2. Max(batch) \in batch /\ \A i \in batch : i <= Max(batch)
  BY <1>1, GreatestOfIds
<1>3. IsFiniteSet(batch) /\ Cardinality(batch) \in Nat
  <2>1. IsFiniteSet(1 .. Len(log))
    BY <1>1, FS_Interval
  <2>2. IsFiniteSet(batch)
    BY <1>1, <2>1, FS_Subset
  <2> QED
    BY <2>2, FS_CardinalityType
<1>4. PICK order \in SetToSeqs(batch) :
        /\ \A m, n \in DOMAIN order : m < n => order[m] < order[n]
        /\ folded' = folded \o order
  BY DEF FoldBatch
<1> DEFINE D == 1 .. Cardinality(batch)
<1>5. order \in [D -> batch] /\ \A i, j \in D : i # j => order[i] # order[j]
  BY <1>4 DEF SetToSeqs
<1>6. order \in Injection(D, batch)
  BY <1>5 DEF Injection, IsInjective
<1>7. Cardinality(D) = Cardinality(batch)
  <2>1. 1 \in Int /\ Cardinality(batch) \in Int
    BY <1>3
  <2>2. Cardinality(1 .. Cardinality(batch)) =
          IF 1 > Cardinality(batch) THEN 0 ELSE Cardinality(batch) - 1 + 1
    BY <2>1, FS_Interval
  <2> QED
    BY <1>3, <2>2
<1>8. order \in Surjection(D, batch)
  <2> HIDE DEF D
  <2> QED
    BY <1>3, <1>6, <1>7, FS_Injection
<1>9. ToSet(order) = batch
  BY <1>5, <1>8 DEF ToSet, Surjection
<1>10. order \in Seq(batch)
  BY <1>3, <1>5, SeqDef
<1>11. order # <<>>
  BY <1>1, <1>9 DEF ToSet
<1> QED
  BY <1>1, <1>2, <1>4, <1>9, <1>10, <1>11

LEMMA FoldBatchStep ==
  ASSUME PipelineInv, FoldBatch
  PROVE  PipelineInv'
<1>1. /\ UNCHANGED <<ingestVars, release>> /\ TypeOK /\ ProjectorInv /\ LogInv
      /\ fleet = "up" /\ batch # None /\ batch' = None
  BY DEF FoldBatch, PipelineInv
<1>2. /\ UNCHANGED <<game, servers, worker, straddled, parser, faults, fleet, halfBuilt>>
      /\ UNCHANGED <<log, overtaken, sweep>> /\ Visible' = Visible
  BY <1>1 DEF ingestVars, release, worker, Visible
<1>3. PICK order \in Seq(batch) :
        /\ folded' = folded \o order /\ ToSet(order) = batch
        /\ \A m, n \in DOMAIN order : m < n => order[m] < order[n]
  BY BatchInOrder
<1>4. /\ cursor' \in batch /\ \A i \in batch : i <= cursor'
      /\ batch \in SUBSET (1 .. Len(log)) /\ Len(log) \in Nat /\ cursor \in Nat
      /\ folded \in Seq(1 .. Len(log))
  <2>1. batch \in SUBSET (1 .. Len(log)) /\ cursor \in Nat
    BY <1>1, LogTypes DEF TypeOK
  <2> QED
    BY <1>1, <2>1, BatchInOrder, LogTypes DEF TypeOK
<1>5. /\ Len(folded) \in Nat /\ Len(order) \in Nat /\ DOMAIN folded = 1 .. Len(folded)
      /\ DOMAIN order = 1 .. Len(order)
      /\ folded' \in Seq(1 .. Len(log)) /\ Len(folded') = Len(folded) + Len(order)
      /\ DOMAIN folded' = 1 .. Len(folded')
      /\ \A m \in DOMAIN folded' :
           folded'[m] = IF m <= Len(folded) THEN folded[m] ELSE order[m - Len(folded)]
  <2> DEFINE Ids == 1 .. Len(log)
  <2>1. folded \in Seq(Ids) /\ order \in Seq(Ids)
    <3>1. batch \subseteq Ids
      BY <1>4
    <3> HIDE DEF Ids
    <3>2. order \in Seq(Ids)
      BY <3>1
    <3> QED
      BY <1>4, <3>2 DEF Ids
  <2> HIDE DEF Ids
  <2>2. /\ folded \o order \in Seq(Ids) /\ Len(folded \o order) = Len(folded) + Len(order)
        /\ \A m \in 1 .. Len(folded) + Len(order) :
             (folded \o order)[m] = IF m <= Len(folded) THEN folded[m]
                                    ELSE order[m - Len(folded)]
    BY <2>1, ConcatProperties
  <2>3. /\ Len(folded) \in Nat /\ Len(order) \in Nat /\ DOMAIN folded = 1 .. Len(folded)
        /\ DOMAIN order = 1 .. Len(order)
    BY <2>1, LenProperties
  <2>4. DOMAIN folded' = 1 .. Len(folded')
    BY <1>3, <2>2, LenProperties
  <2> QED
    BY <1>3, <2>2, <2>3, <2>4 DEF Ids
<1>6. /\ \A m \in DOMAIN folded : folded[m] \in Visible /\ folded[m] <= cursor
      /\ \A m, n \in DOMAIN folded : m < n => folded[m] < folded[n]
      /\ \A i \in batch : i \in Visible /\ cursor < i
      /\ \A i \in Visible, j \in batch : cursor < i /\ i <= j => i \in batch \cup overtaken
      /\ ~halfBuilt => \A i \in Visible : i <= cursor => i \in ToSet(folded) \cup overtaken
      /\ Visible \subseteq Nat
  <2>1. Visible \subseteq Nat
    BY <1>1, LogTypes DEF Visible
  <2> QED
    BY <1>1, <2>1 DEF ProjectorInv
<1>7. \A m \in DOMAIN order : order[m] \in batch
  BY <1>3, <1>5, ElementOfSeq
<1>8. TypeOK'
  <2>1. cursor' \in 0 .. Len(log)
    BY <1>4
  <2> QED
    BY <1>1, <1>2, <1>5, <2>1 DEF TypeOK, IngestTypeOK, game, worker
<1>9. \A m \in DOMAIN folded' : folded'[m] \in Visible /\ folded'[m] <= cursor'
  <2> SUFFICES ASSUME NEW m \in DOMAIN folded'
               PROVE  folded'[m] \in Visible /\ folded'[m] <= cursor'
    OBVIOUS
  <2>1. CASE m <= Len(folded)
    <3>1. m \in DOMAIN folded /\ folded'[m] = folded[m]
      BY <1>5, <2>1
    <3>2. folded[m] \in Visible /\ folded[m] <= cursor /\ cursor < cursor'
      BY <1>4, <1>6, <3>1
    <3>3. folded[m] \in Nat /\ cursor' \in Nat
      BY <1>4, <1>6, <3>2
    <3> QED
      BY <1>4, <3>1, <3>2, <3>3
  <2>2. CASE ~(m <= Len(folded))
    <3>1. m - Len(folded) \in DOMAIN order /\ folded'[m] = order[m - Len(folded)]
      BY <1>5, <2>2
    <3> QED
      BY <1>4, <1>6, <1>7, <3>1
  <2> QED
    BY <2>1, <2>2
<1>10. \A m, n \in DOMAIN folded' : m < n => folded'[m] < folded'[n]
  <2> SUFFICES ASSUME NEW m \in DOMAIN folded', NEW n \in DOMAIN folded', m < n
               PROVE  folded'[m] < folded'[n]
    OBVIOUS
  <2>0. m \in Nat /\ n \in Nat
    BY <1>5
  <2>1. CASE n <= Len(folded)
    <3>1. m \in DOMAIN folded /\ n \in DOMAIN folded /\ folded'[m] = folded[m]
          /\ folded'[n] = folded[n]
      BY <1>5, <2>0, <2>1
    <3> QED
      BY <1>6, <3>1
  <2>2. CASE m <= Len(folded) /\ ~(n <= Len(folded))
    <3>1. m \in DOMAIN folded /\ folded'[m] = folded[m]
          /\ n - Len(folded) \in DOMAIN order /\ folded'[n] = order[n - Len(folded)]
      BY <1>5, <2>0, <2>2
    <3>2. /\ folded[m] \in Nat /\ folded[m] <= cursor
          /\ order[n - Len(folded)] \in Nat /\ cursor < order[n - Len(folded)]
      BY <1>6, <1>7, <3>1
    <3> QED
      BY <1>4, <3>1, <3>2
  <2>3. CASE ~(m <= Len(folded))
    <3>1. /\ m - Len(folded) \in DOMAIN order /\ folded'[m] = order[m - Len(folded)]
          /\ n - Len(folded) \in DOMAIN order /\ folded'[n] = order[n - Len(folded)]
          /\ m - Len(folded) < n - Len(folded)
      BY <1>5, <2>0, <2>3
    <3> QED
      BY <1>3, <3>1
  <2> QED
    BY <2>0, <2>1, <2>2, <2>3
<1>11. ~halfBuilt => \A i \in Visible : i <= cursor' => i \in ToSet(folded') \cup overtaken
  <2> SUFFICES ASSUME ~halfBuilt, NEW i \in Visible, i <= cursor', i \notin overtaken
               PROVE  i \in ToSet(folded')
    OBVIOUS
  <2>1. CASE i <= cursor
    <3>1. PICK m \in DOMAIN folded : folded[m] = i
      BY <1>6, <2>1 DEF ToSet
    <3>2. m \in DOMAIN folded' /\ folded'[m] = i
      BY <1>5, <3>1
    <3> QED
      BY <3>2 DEF ToSet
  <2>2. CASE ~(i <= cursor)
    <3>1. i \in batch
      <4>1. cursor < i
        BY <1>4, <1>6, <2>2
      <4> QED
        BY <1>4, <1>6, <4>1
    <3>2. PICK m \in DOMAIN order : order[m] = i
      BY <1>3, <3>1 DEF ToSet
    <3>3. Len(folded) + m \in DOMAIN folded' /\ folded'[Len(folded) + m] = i
      BY <1>5, <3>2
    <3> QED
      BY <3>3 DEF ToSet
  <2> QED
    BY <2>1, <2>2
<1>12. ProjectorInv'
  <2>1. cursor' \in Visible /\ UNCHANGED <<fleet, halfBuilt, overtaken>>
    BY <1>2, <1>4, <1>6
  <2> QED
    BY <1>1, <1>2, <1>9, <1>10, <1>11, <2>1 DEF ProjectorInv
<1> QED
  BY <1>2, <1>8, <1>12, WorkRests DEF PipelineInv

-----------------------------------------------------------------------------
\* Every step keeps the invariant.

LEMMA IngestSteps ==
  ASSUME PipelineInv, fleet = "up", IngestStep \/ IngestFault, UNCHANGED <<projection, release>>
  PROVE  PipelineInv'
<1>1. CASE StartSweep
  BY <1>1, StartSweepStep
<1>2. CASE PassOver
  BY <1>2, PassOverStep
<1>3. CASE Download
  BY <1>3, DownloadStep
<1>4. CASE \E r \in Rows : ListFiles(r)
  BY <1>4, ListFilesStep
<1>5. CASE CaptureLine
  BY <1>5, CaptureLineStep
<1>6. CASE InsertEvent
  BY <1>6, InsertEventStep
<1>7. CASE CommitEvent
  BY <1>7, CommitEventStep
<1>8. CASE SaveCursor
  BY <1>8, SaveCursorStep
<1>9. CASE \E r \in Rows : ListingFails(r)
  BY <1>9, ListingFailsStep
<1>10. CASE DownloadFails
  BY <1>10, DownloadFailsStep
<1>11. CASE IngestCrash
  <2>1. /\ Killed /\ UNCHANGED <<game, servers, adm, raw, missed, parser, straddled>>
        /\ faults < MaxFaults /\ faults' = faults + 1
    BY <1>11 DEF IngestCrash
  <2>2. UNCHANGED <<cursor, folded, batch, fleet, halfBuilt>>
    BY DEF projection, release
  <2> QED
    BY <2>1, <2>2, KilledStep
<1> QED
  BY <1>1, <1>2, <1>3, <1>4, <1>5, <1>6, <1>7, <1>8, <1>9, <1>10, <1>11
     DEF IngestStep, IngestFault

LEMMA OperateSteps ==
  ASSUME PipelineInv, Operate, UNCHANGED <<projection, release>>
  PROVE  PipelineInv'
<1>1. CASE \E f \in FileIds : WriteLine(f) \/ WriteHalf(f)
  BY <1>1, WriteSteps
<1>2. CASE Reboot
  BY <1>2, RebootStep
<1>3. CASE StepCutover
  BY <1>3, CutoverStep
<1> QED
  BY <1>1, <1>2, <1>3 DEF Operate

LEMMA StutterStep ==
  ASSUME PipelineInv, UNCHANGED vars
  PROVE  PipelineInv'
<1>1. /\ UNCHANGED <<game, servers, worker, straddled, parser, faults, cursor, folded, batch,
                     fleet, halfBuilt>>
      /\ TypeOK /\ ProjectorInv
  BY DEF vars, ingestVars, projection, release, PipelineInv
<1>2. TypeOK'
  BY <1>1 DEF TypeOK, IngestTypeOK, game, worker
<1>3. ProjectorInv'
  <2>1. UNCHANGED <<log, overtaken, sweep>> /\ Visible' = Visible
    BY <1>1 DEF worker, Visible
  <2> QED
    BY <1>1, <2>1 DEF ProjectorInv
<1> QED
  BY <1>1, <1>2, <1>3, WorkRests DEF PipelineInv

LEMMA NextStep ==
  ASSUME PipelineInv, [Next]_vars
  PROVE  PipelineInv'
<1>1. CASE Ingest
  BY <1>1, IngestSteps DEF Ingest
<1>2. CASE Project
  BY <1>2, ReadBatchStep, FoldBatchStep DEF Project
<1>3. CASE Deploy \/ DeployFails
  BY <1>3, DeploySteps DEF Deploy
<1>4. CASE BackfillCommit
  BY <1>4, BackfillCommitStep
<1>5. CASE fleet = "up" /\ IngestFault /\ UNCHANGED <<projection, release>>
  BY <1>5, IngestSteps
<1>6. CASE Operate /\ UNCHANGED <<projection, release>>
  BY <1>6, OperateSteps
<1>7. CASE BatchFails
  BY <1>7, BatchFailsStep
<1>8. CASE StopFleet
  <2>1. /\ Killed /\ UNCHANGED <<game, servers, adm, raw, missed, parser, straddled>>
        /\ faults < MaxFaults /\ faults' = faults + 1
        /\ fleet = "up" /\ fleet' = "down" /\ batch' = None
        /\ cursor' = cursor /\ folded' = folded /\ halfBuilt' = halfBuilt
    BY <1>8 DEF StopFleet
  <2> QED
    BY <2>1, KilledStep
<1>9. CASE BackfillInsert
  BY <1>9, BackfillInsertStep
<1>10. CASE UNCHANGED vars
  BY <1>10, StutterStep
<1> QED
  BY <1>1, <1>2, <1>3, <1>4, <1>5, <1>6, <1>7, <1>8, <1>9, <1>10 DEF Next

-----------------------------------------------------------------------------
\* The theorems.

\* What holds together throughout: how far each file has been read, what is in flight,
\* and what the tables hold, in any order of the steps of the worker, the projector,
\* the deploy script, the backfill and the operator, and through any crash.
THEOREM PipelineInvariant == Spec => []PipelineInv
<1>1. Init => PipelineInv
  BY InitInv
<1>2. PipelineInv /\ [Next]_vars => PipelineInv'
  BY NextStep
<1> QED
  BY <1>1, <1>2, PTL DEF Spec

\* Every variable keeps its type: no cursor leaves its file, no id its log.
THEOREM PipelineTypeCorrect == Spec => []TypeOK
<1>1. PipelineInv => TypeOK
  BY DEF PipelineInv
<1> QED
  BY <1>1, PipelineInvariant, PTL

\* Events enter the log oldest file first, and a map's lines under its own row
\* (apps/ingest-worker/src/tick.ts; the fold relies on the first).
THEOREM LogInOrder == Spec => []FilesInOrder
<1>1. PipelineInv => FilesInOrder
  <2> SUFFICES ASSUME PipelineInv PROVE FilesInOrder
    OBVIOUS
  <2>1. TypeOK /\ OrderInv /\ LinesUnderTheirMap
    BY DEF PipelineInv
  <2>2. OldestFirst
    <3> SUFFICES ASSUME NEW i \in Visible, NEW j \in Visible, i < j,
                        KeyOf(i).sub = 0, KeyOf(j).sub = 0, KeyOf(i).row = KeyOf(j).row
                 PROVE  Before(i, j) \/ KeyOf(j).file \in missed
      BY DEF OldestFirst
    <3>1. i \in DOMAIN log /\ j \in DOMAIN log /\ LineEvent(i) /\ LineEvent(j)
      BY DEF Visible, LineEvent, Present
    <3> QED
      BY <2>1, <3>1 DEF OrderInv, Before
  <2> QED
    BY <2>1, <2>2 DEF FilesInOrder
<1> QED
  BY <1>1, PipelineInvariant, PTL

\* Neither the cursor of a file nor the cursor of the log ever runs ahead of what it
\* stands for, whatever crashed, was deployed or was backfilled in between, but for
\* the two cases that the property names.
THEOREM NothingIsSkipped == Spec => []NothingSkipped
<1>1. PipelineInv => NothingSkipped
  BY DEF PipelineInv, ProjectorInv, NothingSkipped, NothingBehindTheCursor
<1> QED
  BY <1>1, PipelineInvariant, PTL

-----------------------------------------------------------------------------
\* The log and the tables implement the promise of LineLog, step by step.

Shown == UNCHANGED <<PublishedEvents, FoldedEvents>>

LEMMA EventsOfTheTables ==
  ASSUME PipelineInv
  PROVE  /\ Len(folded) \in Nat /\ DOMAIN folded = 1 .. Len(folded)
         /\ FoldedEvents \in Seq(Keys) /\ Len(FoldedEvents) = Len(folded)
         /\ DOMAIN FoldedEvents = 1 .. Len(folded)
         /\ \A n \in DOMAIN folded : /\ FoldedEvents[n] = KeyOf(folded[n])
                                     /\ folded[n] \in Visible /\ folded[n] \in DOMAIN log
<1>1. TypeOK /\ ProjectorInv
  BY DEF PipelineInv
<1>2. Len(folded) \in Nat /\ DOMAIN folded = 1 .. Len(folded)
  <2> DEFINE Ids == 1 .. Len(log)
  <2>1. folded \in Seq(Ids)
    BY <1>1 DEF TypeOK
  <2> HIDE DEF Ids
  <2> QED
    BY <2>1, LenProperties
<1>3. \A n \in DOMAIN folded : folded[n] \in Visible /\ folded[n] \in DOMAIN log
  BY <1>1 DEF ProjectorInv, Visible
<1>4. FoldedEvents \in [1 .. Len(folded) -> Keys]
  BY <1>1, <1>2, <1>3, LogTypes DEF FoldedEvents
<1>5. FoldedEvents \in Seq(Keys)
  BY <1>2, <1>4, SeqDef
<1>6. Len(FoldedEvents) \in Nat /\ DOMAIN FoldedEvents = 1 .. Len(FoldedEvents)
  BY <1>5, LenProperties
<1>7. Len(FoldedEvents) = Len(folded)
  BY <1>2, <1>4, <1>6
<1> QED
  BY <1>2, <1>3, <1>4, <1>5, <1>7 DEF FoldedEvents

LEMMA TablesStand ==
  ASSUME PipelineInv, folded' = folded, \A i \in DOMAIN log : KeyOf(i)' = KeyOf(i)
  PROVE  FoldedEvents' = FoldedEvents
<1> PICK Names : Names = [i \in DOMAIN log |-> KeyOf(i)]
  OBVIOUS
<1>1. \A n \in DOMAIN folded : folded[n] \in DOMAIN log
  BY EventsOfTheTables
<1>2. FoldedEvents = [n \in DOMAIN folded |-> Names[folded[n]]]
  BY <1>1 DEF FoldedEvents
<1>3. FoldedEvents' = [n \in DOMAIN folded |-> Names[folded[n]]]
  <2>1. \A n \in DOMAIN folded : KeyOf(folded[n])' = Names[folded[n]]
    <3> SUFFICES ASSUME NEW n \in DOMAIN folded PROVE KeyOf(folded[n])' = Names[folded[n]]
      OBVIOUS
    <3>1. PICK i \in DOMAIN log : i = folded[n]
      BY <1>1
    <3>2. KeyOf(folded[n])' = log'[i].key
      BY <3>1 DEF KeyOf
    <3>3. log'[i].key = KeyOf(i)
      <4>1. KeyOf(i)' = log'[i].key
        BY DEF KeyOf
      <4> QED
        BY <4>1
    <3> QED
      BY <3>1, <3>2, <3>3
  <2> QED
    BY <2>1 DEF FoldedEvents
<1> QED
  BY <1>2, <1>3

LEMMA StreamRests ==
  ASSUME PipelineInv, folded' = folded, Visible' = Visible,
         \A i \in DOMAIN log : KeyOf(i)' = KeyOf(i)
  PROVE  Shown
<1>1. PublishedEvents' = PublishedEvents
  <2>1. Visible \subseteq DOMAIN log
    BY DEF Visible
  <2> QED
    BY <2>1 DEF PublishedEvents
<1> QED
  BY <1>1, TablesStand DEF Shown

LEMMA SettlingPublishes ==
  ASSUME PipelineInv, NEW by \in {"ingest", "backfill"}, NEW to \in {"in", "void"}, Ended(by, to),
         UNCHANGED <<adm, raw, missed>>, folded' = folded
  PROVE  Promise!Publish \/ Shown
<1>1. /\ DOMAIN log' = DOMAIN log
      /\ \A i \in DOMAIN log : /\ KeyOf(i)' = KeyOf(i)
                               /\ log'[i].state = IF i \in InFlight(by) THEN to ELSE log[i].state
  BY Settled
<1>2. FoldedEvents' = FoldedEvents
  BY <1>1, TablesStand
<1>3. \A i, j \in InFlight(by) : i = j
  <2>1. LogInv
    BY DEF PipelineInv
  <2>2. CASE by = "backfill"
    BY <2>1, <2>2 DEF LogInv
  <2>3. CASE by = "ingest"
    <3>1. InFlight(by) \subseteq Present
      BY DEF InFlight, Present
    <3> QED
      BY <2>1, <2>3, <3>1 DEF LogInv
  <2> QED
    BY <2>2, <2>3
<1>4. CASE to = "void" \/ InFlight(by) = {}
  <2>1. Visible' = Visible
    BY <1>1, <1>4 DEF Visible, InFlight
  <2> QED
    BY <1>1, <2>1, StreamRests
<1>5. CASE to = "in" /\ InFlight(by) # {}
  <2>1. PICK i \in DOMAIN log : i \in InFlight(by) /\ InFlight(by) = {i}
    BY <1>3, <1>5 DEF InFlight
  <2>2. Visible' = Visible \cup {i}
    BY <1>1, <1>5, <2>1 DEF Visible
  <2>3. KeyOf(i) \in Keys
    BY LogTypes DEF PipelineInv
  <2>4. KeyOf(i) \notin PublishedEvents
    <3> SUFFICES ASSUME NEW j \in Visible, KeyOf(j) = KeyOf(i) PROVE FALSE
      BY DEF PublishedEvents
    <3>1. i \in Present /\ j \in Present /\ i # j
      BY <2>1 DEF InFlight, Visible, Present
    <3> QED
      BY <3>1 DEF PipelineInv, LogInv
  <2>5. PublishedEvents' = PublishedEvents \cup {KeyOf(i)}
    <3>1. \A j \in Visible : KeyOf(j)' = KeyOf(j)
      BY <1>1 DEF Visible
    <3> QED
      BY <1>1, <2>2, <3>1 DEF PublishedEvents
  <2> QED
    BY <1>2, <2>3, <2>4, <2>5 DEF Promise!Publish
<1> QED
  BY <1>4, <1>5

TablesNamed ==
  /\ Len(folded) \in Nat /\ DOMAIN folded = 1 .. Len(folded)
  /\ FoldedEvents \in Seq(Keys) /\ Len(FoldedEvents) = Len(folded)
  /\ DOMAIN FoldedEvents = 1 .. Len(folded)
  /\ \A n \in DOMAIN folded : FoldedEvents[n] = KeyOf(folded[n]) /\ folded[n] \in Visible

LEMMA TablesAreNamed == PipelineInv => TablesNamed
  BY EventsOfTheTables DEF TablesNamed

\* What is in the tables is in the log, once, and in the order of its lines.
LinesInOrder ==
  /\ IsInjective(FoldedEvents)
  /\ ToSet(FoldedEvents) \subseteq PublishedEvents
  /\ Promise!InLineOrder(FoldedEvents)

LEMMA TablesInOrder == PipelineInv => LinesInOrder
<1> SUFFICES ASSUME PipelineInv PROVE LinesInOrder
  OBVIOUS
<1>1. TypeOK /\ ProjectorInv /\ LogInv /\ OrderInv
  BY DEF PipelineInv
<1>2. /\ Len(folded) \in Nat /\ DOMAIN folded = 1 .. Len(folded)
      /\ DOMAIN FoldedEvents = 1 .. Len(folded)
      /\ \A n \in DOMAIN folded : /\ FoldedEvents[n] = KeyOf(folded[n])
                                  /\ folded[n] \in Visible /\ folded[n] \in DOMAIN log
  BY EventsOfTheTables
<1>3. \A n \in DOMAIN folded : folded[n] \in Present
  BY <1>2 DEF Visible, Present
<1>4. \A m, n \in DOMAIN folded : m < n => folded[m] < folded[n]
  BY <1>1 DEF ProjectorInv
<1>5. \A n \in DOMAIN folded : folded[n] \in Nat
  BY <1>1, <1>2, LogTypes
<1>6. IsInjective(FoldedEvents)
  <2> SUFFICES ASSUME NEW m \in DOMAIN folded, NEW n \in DOMAIN folded,
                      KeyOf(folded[m]) = KeyOf(folded[n])
               PROVE  m = n
    BY <1>2 DEF IsInjective
  <2>1. folded[m] = folded[n]
    BY <1>1, <1>3 DEF LogInv
  <2>2. ~(m < n) /\ ~(n < m)
    BY <1>4, <1>5, <2>1
  <2> QED
    BY <1>2, <2>2
<1>7. ToSet(FoldedEvents) \subseteq PublishedEvents
  BY <1>2 DEF ToSet, PublishedEvents
<1>8. Promise!InLineOrder(FoldedEvents)
  <2> SUFFICES ASSUME NEW m \in DOMAIN folded, NEW n \in DOMAIN folded, m < n,
                      KeyOf(folded[m]).sub = 0, KeyOf(folded[n]).sub = 0,
                      KeyOf(folded[m]).row = KeyOf(folded[n]).row,
                      KeyOf(folded[m]).file = KeyOf(folded[n]).file
               PROVE  KeyOf(folded[m]).line < KeyOf(folded[n]).line
    BY <1>2 DEF Promise!InLineOrder
  <2>1. LineEvent(folded[m]) /\ LineEvent(folded[n]) /\ folded[m] < folded[n]
    BY <1>3, <1>4 DEF LineEvent
  <2>2. KeyOf(folded[n]).file \in Nat
    <3>1. KeyOf(folded[n]) \in Keys
      BY <1>1, <1>2, LogTypes
    <3> QED
      BY <3>1 DEF Keys, FileIds
  <2>3. \/ KeyOf(folded[m]).file < KeyOf(folded[n]).file
        \/ KeyOf(folded[m]).file = KeyOf(folded[n]).file /\ KeyOf(folded[m]).line < KeyOf(folded[n]).line
        \/ KeyOf(folded[m]).file # KeyOf(folded[n]).file /\ KeyOf(folded[n]).file \in missed
    BY <1>1, <1>2, <2>1 DEF OrderInv
  <2> QED
    BY <2>2, <2>3
<1> QED
  BY <1>6, <1>7, <1>8 DEF LinesInOrder

LEMMA FoldBatchFolds ==
  ASSUME PipelineInv, PipelineInv', FoldBatch
  PROVE  Promise!Fold
<1>1. log' = log /\ Visible' = Visible
  BY DEF FoldBatch, ingestVars, worker, Visible
<1>2. (\A i : KeyOf(i)' = KeyOf(i)) /\ PublishedEvents' = PublishedEvents
  BY <1>1 DEF KeyOf, PublishedEvents
<1> PICK order \in Seq(batch) : folded' = folded \o order /\ order # <<>>
  BY BatchInOrder
<1>3. TablesNamed /\ TablesNamed' /\ LinesInOrder'
  BY TablesAreNamed, TablesInOrder, PTL
<1>4. /\ Len(folded') = Len(folded) + Len(order) /\ Len(order) \in Nat \ {0}
      /\ \A n \in 1 .. Len(folded) : folded'[n] = folded[n]
  <2> DEFINE Ids == 1 .. Len(log)
  <2>1. folded \in Seq(Ids) /\ order \in Seq(Ids)
    <3>1. batch \subseteq Ids /\ folded \in Seq(Ids)
      BY BatchInOrder DEF PipelineInv, TypeOK, FoldBatch
    <3> HIDE DEF Ids
    <3> QED
      BY <3>1
  <2> HIDE DEF Ids
  <2>2. /\ Len(folded \o order) = Len(folded) + Len(order)
        /\ \A n \in 1 .. Len(folded) + Len(order) :
             (folded \o order)[n] = IF n <= Len(folded) THEN folded[n] ELSE order[n - Len(folded)]
    BY <2>1, ConcatProperties
  <2>3. Len(order) \in Nat /\ Len(folded) \in Nat /\ Len(order) # 0
    BY <2>1, LenProperties, EmptySeq
  <2> QED
    BY <2>2, <2>3
<1> DEFINE old == FoldedEvents
           new == FoldedEvents'
<1>5. /\ old \in Seq(Keys) /\ new \in Seq(Keys) /\ Len(old) \in Nat /\ Len(new) \in Nat
      /\ Len(old) < Len(new) /\ \A n \in 1 .. Len(old) : new[n] = old[n]
  <2>1. /\ old \in Seq(Keys) /\ Len(old) = Len(folded) /\ Len(folded) \in Nat
        /\ \A n \in 1 .. Len(folded) : old[n] = KeyOf(folded[n])
    BY <1>3 DEF TablesNamed
  <2>2. /\ new \in Seq(Keys) /\ Len(new) = Len(folded')
        /\ \A n \in 1 .. Len(folded') : new[n] = KeyOf(folded'[n])
    BY <1>2, <1>3 DEF TablesNamed
  <2> HIDE DEF old, new
  <2> QED
    BY <1>4, <2>1, <2>2
<1>6. IsStrictPrefix(old, new)
  <2> HIDE DEF old, new
  <2>1. SubSeq(old, 1, Len(old)) = SubSeq(new, 1, Len(old))
    <3>1. \A n \in 1 .. Len(old) : old[n] \in Keys /\ new[n] \in Keys
      BY <1>5, ElementOfSeq
    <3>2. /\ Len(SubSeq(old, 1, Len(old))) = Len(old)
          /\ Len(SubSeq(new, 1, Len(old))) = Len(old)
          /\ SubSeq(old, 1, Len(old)) \in Seq(Keys) /\ SubSeq(new, 1, Len(old)) \in Seq(Keys)
          /\ \A n \in 1 .. Len(old) : /\ SubSeq(old, 1, Len(old))[n] = old[n]
                                      /\ SubSeq(new, 1, Len(old))[n] = new[n]
      BY <1>5, <3>1, SubSeqProperties
    <3> QED
      BY <1>5, <3>2, SeqEqual
  <2>2. old # new
    BY <1>5
  <2> QED
    BY <1>5, <2>1, <2>2 DEF IsStrictPrefix, IsPrefix
<1>7. IsInjective(new) /\ ToSet(new) \subseteq PublishedEvents /\ Promise!InLineOrder(new)
  BY <1>2, <1>3 DEF LinesInOrder
<1>8. /\ Promise!IsStrictPrefix(old, new) /\ Promise!IsInjective(new)
      /\ Promise!ToSet(new) \subseteq PublishedEvents
  <2> HIDE DEF old, new
  <2>1. Promise!IsStrictPrefix(old, new)
    BY <1>6 DEF IsStrictPrefix, IsPrefix, Promise!IsStrictPrefix, Promise!IsPrefix
  <2>2. Promise!IsInjective(new) /\ Promise!ToSet(new) \subseteq PublishedEvents
    BY <1>7 DEF IsInjective, ToSet, Promise!IsInjective, Promise!ToSet
  <2> QED
    BY <2>1, <2>2
<1> QED
  BY <1>2, <1>7, <1>8 DEF Promise!Fold

\* A step that leaves the log and the tables as they are.
LEMMA NothingShown ==
  ASSUME PipelineInv, folded' = folded, log' = log
  PROVE  Shown
<1>1. Visible' = Visible /\ \A i \in DOMAIN log : KeyOf(i)' = KeyOf(i)
  BY DEF Visible, KeyOf
<1> QED
  BY <1>1, StreamRests

LEMMA KilledShows ==
  ASSUME PipelineInv, Killed, UNCHANGED <<adm, raw, missed>>, folded' = folded
  PROVE  Promise!Publish \/ Shown
<1>1. CASE Committed("ingest")
  BY <1>1, CommittedEnds, SettlingPublishes
<1>2. CASE /\ log' = [i \in DOMAIN log |->
                     IF i \in InFlight("ingest") THEN [log[i] EXCEPT !.state = "void"] ELSE log[i]]
           /\ UNCHANGED overtaken
  <2>1. Ended("ingest", "void")
    BY <1>2 DEF Ended
  <2> QED
    BY <2>1, SettlingPublishes
<1> QED
  BY <1>1, <1>2 DEF Killed

LEMMA IngestShows ==
  ASSUME PipelineInv, fleet = "up", IngestStep \/ IngestFault, folded' = folded
  PROVE  Promise!Publish \/ Shown
<1>1. CASE InsertEvent
  <2>1. /\ UNCHANGED <<adm, raw, missed, overtaken>> /\ sweep.pc = "event"
        /\ log' = IF Indexed(KeyInHand) # {} THEN log
                  ELSE Append(log, [key |-> KeyInHand, by |-> "ingest", state |-> "open"])
    BY <1>1 DEF InsertEvent, Inserted
  <2>2. KeyInHand \in Keys /\ InFlight("ingest") = {}
    BY <2>1, EventInHand DEF PipelineInv, LogInv
  <2> PICK last : last = Len(log) + 1
    OBVIOUS
  <2>3. CASE Indexed(KeyInHand) = {}
    <3>1. Visible' = Visible /\ \A i \in DOMAIN log : KeyOf(i)' = KeyOf(i)
      <4> PICK key \in Keys : key = KeyInHand
        BY <2>2
      <4> QED
        BY <2>1, <2>2, <2>3, Appended
    <3> QED
      BY <3>1, StreamRests
  <2>4. CASE Indexed(KeyInHand) # {}
    BY <2>1, <2>4, NothingShown
  <2> QED
    BY <2>3, <2>4
<1>2. CASE CommitEvent
  <2>1. Ended("ingest", "in") /\ UNCHANGED <<adm, raw, missed>>
    BY <1>2, CommittedEnds DEF CommitEvent
  <2> QED
    BY <2>1, SettlingPublishes
<1>3. CASE IngestCrash
  <2>1. Killed /\ UNCHANGED <<adm, raw, missed>>
    BY <1>3 DEF IngestCrash
  <2> QED
    BY <2>1, KilledShows
<1>4. CASE ~(InsertEvent \/ CommitEvent \/ IngestCrash)
  <2>1. log' = log
    BY <1>4 DEF IngestStep, IngestFault, StartSweep, PassOver, Download, ListFiles, CaptureLine,
                SaveCursor, ListingFails, DownloadFails
  <2> QED
    BY <2>1, NothingShown
<1> QED
  BY <1>1, <1>2, <1>3, <1>4

LEMMA StepKeepsThePromise ==
  ASSUME PipelineInv, PipelineInv', [Next]_vars
  PROVE  Promise!Publish \/ Promise!Fold \/ Promise!Empty \/ Shown
<1>1. CASE Ingest
  <2>1. fleet = "up" /\ IngestStep /\ folded' = folded
    BY <1>1 DEF Ingest, projection
  <2> QED
    BY <2>1, IngestShows
<1>2. CASE fleet = "up" /\ IngestFault /\ UNCHANGED <<projection, release>>
  <2>1. folded' = folded
    BY <1>2 DEF projection
  <2> QED
    BY <1>2, <2>1, IngestShows
<1>3. CASE FoldBatch
  BY <1>3, FoldBatchFolds
<1>4. CASE ReadBatch \/ ResetCursor \/ StartFleet \/ DeployFails \/ BatchFails \/ UNCHANGED vars
  <2>1. log' = log /\ folded' = folded
    BY <1>4 DEF ReadBatch, ResetCursor, StartFleet, DeployFails, BatchFails, vars, ingestVars,
                worker, projection
  <2> QED
    BY <2>1, NothingShown
<1>5. CASE Operate /\ UNCHANGED <<projection, release>>
  <2>1. folded' = folded /\ log' = log
    BY <1>5 DEF Operate, WriteLine, WriteHalf, Reboot, StepCutover, worker, projection
  <2> QED
    BY <2>1, NothingShown
<1>6. CASE Truncate
  <2>1. folded' = <<>> /\ log' = log
    BY <1>6 DEF Truncate, ingestVars, worker
  <2>2. FoldedEvents' = <<>>
    BY <2>1 DEF FoldedEvents
  <2>3. PublishedEvents' = PublishedEvents
    BY <2>1 DEF PublishedEvents, Visible, KeyOf
  <2> QED
    BY <2>2, <2>3 DEF Promise!Empty
<1>7. CASE StopFleet
  <2>1. Killed /\ UNCHANGED <<adm, raw, missed>> /\ folded' = folded
    BY <1>7 DEF StopFleet
  <2> QED
    BY <2>1, KilledShows
<1>8. CASE BackfillInsert
  <2>1. /\ UNCHANGED <<adm, raw, missed, overtaken>> /\ InFlight("backfill") = {}
        /\ folded' = folded
    BY <1>8 DEF BackfillInsert, projection
  <2>2. PICK key \in Keys : /\ key.sub = 1 /\ Indexed(key) = {}
                            /\ log' = Append(log, [key |-> key, by |-> "backfill", state |-> "open"])
    <3>1. PICK x \in raw :
            LET key == [row |-> x.row, file |-> x.file, line |-> x.line, sub |-> 1]
            IN  Indexed(key) = {} /\ Inserted(key, "backfill")
      BY <1>8 DEF BackfillInsert
    <3>2. x.row \in Rows /\ x.file \in FileIds /\ x.line \in Lines
      BY RowTypes DEF Lines, PipelineInv
    <3>3. [row |-> x.row, file |-> x.file, line |-> x.line, sub |-> 1] \in Keys
      BY <3>2 DEF Keys
    <3> QED
      BY <3>1, <3>3 DEF Inserted
  <2> PICK last : last = Len(log) + 1
    OBVIOUS
  <2>3. Visible' = Visible /\ \A i \in DOMAIN log : KeyOf(i)' = KeyOf(i)
    BY <2>1, <2>2, Appended
  <2> QED
    BY <2>1, <2>3, StreamRests
<1>9. CASE BackfillCommit
  <2>1. Ended("backfill", "in") /\ UNCHANGED <<adm, raw, missed>> /\ folded' = folded
    BY <1>9, CommittedEnds DEF BackfillCommit, projection
  <2> QED
    BY <2>1, SettlingPublishes
<1> QED
  BY <1>1, <1>2, <1>3, <1>4, <1>5, <1>6, <1>7, <1>8, <1>9 DEF Next, Project, Deploy

\* The refinement: the event log publishes each event once, and the tables fold
\* published events only, each at most once and those of a file in the order of its
\* lines, through every crash, deploy, rebuild and backfill.
THEOREM PromiseKept == Spec => KeepsThePromise
<1>1. Init => Promise!Init
  <2> SUFFICES ASSUME Init PROVE Promise!Init
    OBVIOUS
  <2>1. log = <<>> /\ folded = <<>>
    BY DEF Init, IngestInit
  <2> QED
    BY <2>1 DEF Promise!Init, PublishedEvents, FoldedEvents, Visible
<1>2. PipelineInv /\ PipelineInv' /\ [Next]_vars =>
        [Promise!Publish \/ Promise!Fold \/ Promise!Empty]_(Promise!lineLogVars)
  BY StepKeepsThePromise DEF Shown, Promise!lineLogVars
<1> QED
  BY <1>1, <1>2, PipelineInvariant, PTL DEF Spec, KeepsThePromise, Promise!Spec

=============================================================================
