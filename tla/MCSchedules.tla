---------------------------- MODULE MCSchedules -----------------------------
(***************************************************************************)
(* Schedules on small instances.  Runs, callers of StartRun and workers    *)
(* are interchangeable, which the safety runs use as symmetry.             *)
(***************************************************************************)
EXTENDS Schedules, TLC

Symmetry == Permutations(Runs) \cup Permutations(Starters) \cup Permutations(Workers)
=============================================================================
