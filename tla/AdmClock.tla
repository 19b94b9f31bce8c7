------------------------------ MODULE AdmClock ------------------------------
(***************************************************************************)
(* How a log line gets its time (packages/adm-parser).  A line carries the *)
(* second of the day only; the day comes from the file's header and the    *)
(* midnights counted since, and the host's clock is corrected by an offset *)
(* derived from the file listing.  Pure functions over small days:         *)
(* DaySeconds and Quarter stand for 86400 and 900.                         *)
(***************************************************************************)
LOCAL INSTANCE Integers
LOCAL INSTANCE Sequences
LOCAL INSTANCE FiniteSets
LOCAL INSTANCE FiniteSetsExt

CONSTANTS
  DaySeconds,   \* seconds of a day
  Quarter,      \* the step of a time zone
  MaxGap        \* bound: the longest silence between two lines, under half a day

ASSUME ClockAssumption ==
  /\ DaySeconds \in Nat \ {0} /\ Quarter \in Nat \ {0}
  /\ MaxGap \in Nat /\ 2 * MaxGap < DaySeconds

SecondOf(time) == time % DaySeconds
DayOf(time) == time - SecondOf(time)

-----------------------------------------------------------------------------
\* More than half a day back is the next day; less is a line out of order.
Midnight(last, sec) == last - sec > DaySeconds \div 2

\* The day and the second the walk has reached after n lines of secs.  A file
\* opens with its header, which gives both; without one the day is the file's,
\* and no line before the first tells a midnight.
Walk(start, header, secs) ==
  LET at[n \in 0 .. Len(secs)] ==
        IF n = 0 THEN [day |-> DayOf(start),
                       last |-> IF header THEN SecondOf(start) ELSE 0]
        ELSE [day |-> IF Midnight(at[n - 1].last, secs[n])
                      THEN at[n - 1].day + DaySeconds ELSE at[n - 1].day,
              last |-> secs[n]]
  IN  at

AssignTimestamps(start, header, secs) ==
  [n \in DOMAIN secs |-> Walk(start, header, secs)[n].day + secs[n]]

-----------------------------------------------------------------------------
\* JavaScript's Math.round: halves go up.
RoundToQuarter(ms) == ((2 * ms + Quarter) \div (2 * Quarter)) * Quarter

\* The candidates are what listing gives a name time and a modification time;
\* without one the stored offset stays.
DeriveClockOffset(listing, stored) ==
  LET dated == {f \in listing : f.modified > 0}
  IN  IF dated = {} THEN stored
      ELSE RoundToQuarter(Min({f.modified - f.started : f \in dated}))

-----------------------------------------------------------------------------
\* Properties of the functions, over every input within the bounds.

\* Lines that really were written at times, none more than MaxGap after the one
\* before, some a second out of order: as long as none falls back before a
\* midnight already told, and a file without a header starts on its own day, the
\* seconds of the day alone bring the times back.
TimestampsFollowTheClock ==
  \A start \in 0 .. DaySeconds - 1, header \in BOOLEAN,
     gaps \in [1 .. 3 -> -1 .. MaxGap] :
    LET time[n \in 0 .. 3] == IF n = 0 THEN start ELSE time[n - 1] + gaps[n]
        secs == [n \in 1 .. 3 |-> SecondOf(time[n])]
    IN  /\ \A n \in 1 .. 3 : DayOf(time[n - 1]) <= DayOf(time[n])
        /\ header \/ DayOf(time[1]) = DayOf(start)
        => AssignTimestamps(start, header, secs) = [n \in 1 .. 3 |-> time[n]]

\* Files are modified when they were started or later, and Nitrado leaves the
\* time of some of them out: as long as one file was started less than half a
\* quarter before its time was taken, the derived offset is the zone's, and with
\* no time at all the stored one is kept.
OffsetIsTheZone ==
  \A zone \in {- Quarter, 0, Quarter} :
    \A age \in [1 .. 2 -> 0 .. 2 * Quarter], given \in SUBSET (1 .. 2) :
      LET listing == {[started |-> 10 * Quarter * n,
                       modified |-> IF n \in given
                                    THEN 10 * Quarter * n + zone + age[n] ELSE 0] :
                      n \in 1 .. 2}
      IN  (given = {} \/ \E n \in given : 2 * age[n] < Quarter)
            => DeriveClockOffset(listing, zone) = zone

\* TLC evaluates both on every input within the bounds before it starts.
ASSUME ClockIsRight == TimestampsFollowTheClock /\ OffsetIsTheZone

=============================================================================
