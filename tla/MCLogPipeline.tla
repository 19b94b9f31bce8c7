---------------------------- MODULE MCLogPipeline ---------------------------
(***************************************************************************)
(* An instance of LogPipeline for TLC, and the functions of AdmClock over  *)
(* small days.                                                             *)
(***************************************************************************)
EXTENDS LogPipeline, AdmClock

\* The unconscious line.
FaintLine == <<1, 1>>

=============================================================================
