----------------------------- MODULE RowTenure -----------------------------
(***************************************************************************)
(* What a row with a current_agent_run_id promises, whatever goes on       *)
(* around it: it is taken only when it is free, for one run at a time, and *)
(* no run has it twice.  The rows of ai_employees and of scheduled goals   *)
(* are shown to implement this.                                            *)
(***************************************************************************)
CONSTANTS Runs, NoRun

VARIABLES holder,   \* the run the row is held for, or NoRun
          past      \* the runs it has been held for

Init == holder = NoRun /\ past = {}

Take(r) ==
  /\ holder = NoRun /\ r \notin past
  /\ holder' = r /\ past' = past \cup {r}

Leave == holder # NoRun /\ holder' = NoRun /\ UNCHANGED past

Next == Leave \/ \E r \in Runs : Take(r)

Spec == Init /\ [][Next]_<<holder, past>>
=============================================================================
