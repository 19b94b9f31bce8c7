------------------------------- MODULE LineLog ------------------------------
(***************************************************************************)
(* What the event log and its projector promise together: every event is   *)
(* published once, and the tables have folded some published events, each  *)
(* at most once and those of one file in the order of its lines.  The      *)
(* tables may be emptied and folded again from the start.                  *)
(***************************************************************************)
EXTENDS Integers, Sequences, SequencesExt

CONSTANT Keys   \* of records with the fields row, file, line and sub

VARIABLES
  stream,   \* the events published
  view      \* the events folded since the tables were last emptied

lineLogVars == <<stream, view>>

\* Events appended later to lines already read (sub-index 1) have no place in
\* the order of their file.
InLineOrder(folded) ==
  \A i, j \in DOMAIN folded :
    /\ i < j /\ folded[i].sub = 0 /\ folded[j].sub = 0
    /\ folded[i].row = folded[j].row /\ folded[i].file = folded[j].file
    => folded[i].line < folded[j].line

Init == stream = {} /\ view = <<>>

Publish ==
  /\ \E key \in Keys \ stream : stream' = stream \cup {key}
  /\ UNCHANGED view

Fold ==
  /\ UNCHANGED stream
  /\ IsStrictPrefix(view, view')
  /\ IsInjective(view') /\ ToSet(view') \subseteq stream
  /\ InLineOrder(view')

Empty == view' = <<>> /\ UNCHANGED stream

Spec == Init /\ [][Publish \/ Fold \/ Empty]_lineLogVars

=============================================================================
