------------------------------ MODULE RunLife -------------------------------
(***************************************************************************)
(* Agent runs as the packages that start them see them: employees and      *)
(* schedules spawn a run, remember its id, and are called back (AfterRun)  *)
(* when agents.Worker has handled a job of it.                             *)
(*                                                                         *)
(* A run is here its status and whether its result says that the goal of   *)
(* the employee is complete.  The store methods of a run are atomic in     *)
(* this module: what becomes of them when they are not is the subject of   *)
(* AgentRuns.                                                              *)
(***************************************************************************)
EXTENDS Integers, FiniteSets

CONSTANTS Runs,         \* ids of the runs that may be spawned
          NoRun,        \* current_agent_run_id = NULL
          Workers,      \* goroutines in agents.Worker.HandleJob
          GoalTool,     \* the runs are given the complete_goal tool
          UserActs,     \* what users do in this instance
          MaxActs,      \* bound: requests of users
          MaxErrors,    \* bound: store calls that fail
          MaxCrashes    \* bound: goroutines that die half-way

ASSUME NoRunAssumption == NoRun \notin Runs
ASSUME BoundAssumption == MaxActs \in Nat /\ MaxErrors \in Nat /\ MaxCrashes \in Nat
ASSUME GoalToolAssumption == GoalTool \in BOOLEAN

VARIABLES run,      \* run[r]: "none" before Spawn, then its status
          goalDone, \* runs whose result has employee_goal_complete
          jobs,     \* runs with an agent_run job in the queue
          spent     \* how much of each bound is used up

Ended == {"succeeded", "failed", "cancelled"}
Working == {"queued", "running"}
RunStatus == {"none", "waiting_for_user"} \cup Ended \cup Working

Terminal(status) == status \in Ended
Open(r) == run[r] \in Working \cup {"waiting_for_user"}
Unspawned == {r \in Runs : run[r] = "none"}

RunTypeOK ==
  /\ run \in [Runs -> RunStatus]
  /\ goalDone \subseteq Runs
  /\ jobs \subseteq Runs
  /\ spent \in [acts : 0..MaxActs, errors : 0..MaxErrors, crashes : 0..MaxCrashes]

RunInit ==
  /\ run = [r \in Runs |-> "none"]
  /\ goalDone = {}
  /\ jobs = {}
  /\ spent = [acts |-> 0, errors |-> 0, crashes |-> 0]

SetRun(r, status) == run' = [run EXCEPT ![r] = status]

Act(name) == name \in UserActs /\ spent.acts < MaxActs /\ spent' = [spent EXCEPT !.acts = @ + 1]
Error == spent.errors < MaxErrors /\ spent' = [spent EXCEPT !.errors = @ + 1]
CrashOne == spent.crashes < MaxCrashes /\ spent' = [spent EXCEPT !.crashes = @ + 1]

-----------------------------------------------------------------------------
(* What users do to a run.  Each leaves the caller of AfterRun out. *)

\* Handler.Cancel: any open run.
CancelRun(r) ==
  /\ Act("cancel_run")
  /\ Open(r)
  /\ SetRun(r, "cancelled")
  /\ UNCHANGED <<goalDone, jobs>>

\* Handler.Finish: an open run succeeds, with the result it had.
FinishRun(r) ==
  /\ Act("finish_run")
  /\ Open(r)
  /\ SetRun(r, "succeeded")
  /\ UNCHANGED <<goalDone, jobs>>

\* Handler.Redirect of a run that is not running: queued again, with a job.
Reply(r) ==
  /\ Act("reply")
  /\ run[r] \in {"waiting_for_user", "queued", "succeeded", "failed"}
  /\ SetRun(r, "queued")
  /\ jobs' = jobs \cup {r}
  /\ UNCHANGED goalDone

-----------------------------------------------------------------------------
(* How the harness leaves a run.  An answer replaces the result, a question  *)
(* replaces it too, a failure keeps it; a run that is no longer running is  *)
(* left as it is.                                                           *)

Harness(r) ==
  \/ /\ run[r] # "running"
     /\ UNCHANGED <<run, goalDone>>
  \/ /\ run[r] = "running"
     /\ \/ /\ SetRun(r, "succeeded")
           /\ \/ goalDone' = goalDone \ {r}
              \/ GoalTool /\ goalDone' = goalDone \cup {r}
        \/ SetRun(r, "waiting_for_user") /\ goalDone' = goalDone \ {r}
        \/ SetRun(r, "failed") /\ UNCHANGED goalDone
=============================================================================
