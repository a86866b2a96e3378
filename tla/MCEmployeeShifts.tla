-------------------------- MODULE MCEmployeeShifts --------------------------
(***************************************************************************)
(* EmployeeShifts on small instances.  Runs, callers of StartShift and     *)
(* workers are interchangeable, which the safety runs use as symmetry.     *)
(***************************************************************************)
EXTENDS EmployeeShifts, TLC

Symmetry == Permutations(Runs) \cup Permutations(Starters) \cup Permutations(Workers)
=============================================================================
