--------------------------- MODULE EmployeeShifts ---------------------------
(***************************************************************************)
(* One AI employee (internal/employees): a row of ai_employees that is     *)
(* worked on in shifts, each an agent run.                                 *)
(*                                                                         *)
(* StartShift is called by the scheduler of every replica, by the handler  *)
(* of employee_shift jobs and by the Resume handler (Hire is the scheduler *)
(* on a row that has just been created).  It spawns the run before it      *)
(* claims the row, so that the run may be over when the claim arrives, and *)
(* the loser of a race has a run to cancel.  AfterAgentRun, called by the  *)
(* worker that handled a job of a run, frees the row and sets the time of  *)
(* the next shift.  One action is one round trip.                          *)
(***************************************************************************)
EXTENDS RunLife

CONSTANTS Starters,     \* goroutines that may be in StartShift
          Continuous,   \* cadence_minutes = 0
          MaxAttempts   \* attempts of an employee_shift job

ASSUME CadenceAssumption == Continuous \in BOOLEAN
ASSUME AttemptsAssumption == MaxAttempts \in Nat \ {0}

VARIABLES emp,       \* the ai_employees row
          starter,   \* starter[s]: program counter and locals of StartShift
          worker,    \* worker[w]: program counter and locals of HandleJob and AfterAgentRun
          shiftJobs, \* employee_shift jobs that are not finished
          claimed,   \* history: the runs the row was claimed for
          letGo      \* history: the runs the row does not stand for (LetGo)

vars == <<run, goalDone, jobs, spent, emp, starter, worker, shiftJobs, claimed, letGo>>

-----------------------------------------------------------------------------
(* State *)

Status == {"active", "paused", "completed", "archived"}

\* next_shift_at: NULL, in the future, or due.
Next_shift_at == {"null", "later", "due"}

Employee == [status : Status, current : Runs \cup {NoRun}, shiftCount : Nat, next : Next_shift_at]

Hired == [status |-> "active", current |-> NoRun, shiftCount |-> 0, next |-> "due"]

\* A job is named by the shift number in its dedupe_key.
ShiftJob == [number : Nat, status : {"later", "pending", "running"}, attempts : 0..MaxAttempts]

\* A run is let go when a user opens it again, or completes the row while it
\* is current, or when it has come to rest before the row is claimed for it:
\* the row then says nothing about it, and it has no part in the row's promises.
Held == claimed \ letGo
LetGo(runs) == letGo' = letGo \cup (runs \ {NoRun})
Hold(r) == claimed' = claimed \cup {r} /\ LetGo(IF run[r] \in Working THEN {} ELSE {r})

IdleStarter == [pc |-> "idle", by |-> "scheduler", number |-> 0, seen |-> Hired, run |-> NoRun]
IdleWorker == [pc |-> "idle", run |-> NoRun, status |-> "none", goal |-> FALSE, seen |-> Hired]

Starter == [pc : {"idle", "create", "enqueue", "claim", "cancel"},
            by : {"scheduler", "job", "resume"}, number : Nat,
            seen : Employee, run : Runs \cup {NoRun}]
Worker == [pc : {"idle", "work", "fresh", "empGet", "clear", "patch", "enqueue"},
           run : Runs \cup {NoRun}, status : RunStatus, goal : BOOLEAN, seen : Employee]

\* Every step of one goroutine leaves the others alone.
StarterAt(s, pc) == starter' = [starter EXCEPT ![s].pc = pc]
WorkerDone(w) == worker' = [worker EXCEPT ![w] = IdleWorker]
WorkerAt(w, pc) == IF pc = "idle" THEN WorkerDone(w) ELSE worker' = [worker EXCEPT ![w].pc = pc]

Init ==
  /\ RunInit
  /\ emp = Hired
  /\ starter = [s \in Starters |-> IdleStarter]
  /\ worker = [w \in Workers |-> IdleWorker]
  /\ shiftJobs = {}
  /\ claimed = {}
  /\ letGo = {}

-----------------------------------------------------------------------------
(* employee_shift jobs *)

\* A job of this name that is still outstanding is kept.
WithShiftJob(number) ==
  IF \E j \in shiftJobs : j.number = number THEN shiftJobs
  ELSE shiftJobs \cup {[number |-> number, status |-> "later", attempts |-> 0]}

\* Fail puts the job back behind a delay until its attempts are used up.
Retried(j) ==
  IF j.attempts + 1 < MaxAttempts
  THEN {[j EXCEPT !.status = "later", !.attempts = @ + 1]} ELSE {}

HeldJob(s) == {j \in shiftJobs : starter[s].by = "job" /\ j.number = starter[s].number}

\* StartShift returns: a job is completed, or fails with the error.
Return(s, ok) ==
  /\ starter' = [starter EXCEPT ![s] = IdleStarter]
  /\ shiftJobs' = (shiftJobs \ HeldJob(s)) \cup
                  (IF ok THEN {} ELSE UNION {Retried(j) : j \in HeldJob(s)})

\* run_after passes.
JobDue ==
  /\ \E j \in shiftJobs :
       /\ j.status = "later"
       /\ shiftJobs' = (shiftJobs \ {j}) \cup {[j EXCEPT !.status = "pending"]}
  /\ UNCHANGED <<run, goalDone, jobs, spent, emp, starter, worker, claimed, letGo>>

\* next_shift_at passes.
ShiftDue ==
  /\ emp.next = "later"
  /\ emp' = [emp EXCEPT !.next = "due"]
  /\ UNCHANGED <<run, goalDone, jobs, spent, starter, worker, shiftJobs, claimed, letGo>>

-----------------------------------------------------------------------------
(* StartShift and its callers *)

\* StartShift refuses a row that is not active or is already working.
Startable(row) == row.status = "active" /\ row.current = NoRun

Start(s, by, number, row) ==
  starter' = [starter EXCEPT ![s] =
    [IdleStarter EXCEPT !.pc = "create", !.by = by, !.number = number, !.seen = row]]

\* Scheduler.tick: a row of ListDueActive.
ListDueActive(s) ==
  /\ starter[s].pc = "idle" /\ Unspawned # {}
  /\ Startable(emp) /\ emp.next = "due"
  /\ Start(s, "scheduler", 0, emp)
  /\ UNCHANGED <<run, goalDone, jobs, spent, emp, worker, shiftJobs, claimed, letGo>>

\* HandleShiftJob: nothing to do unless the row can be worked on.
HandleShiftJob(s) ==
  /\ starter[s].pc = "idle" /\ Unspawned # {}
  /\ \E j \in shiftJobs :
       /\ j.status = "pending"
       /\ \/ /\ ~Startable(emp)
             /\ shiftJobs' = shiftJobs \ {j}
             /\ UNCHANGED starter
          \/ /\ Startable(emp)
             /\ shiftJobs' = (shiftJobs \ {j}) \cup {[j EXCEPT !.status = "running"]}
             /\ Start(s, "job", j.number, emp)
  /\ UNCHANGED <<run, goalDone, jobs, spent, emp, worker, claimed, letGo>>

\* Handler.Resume: active and due at once, and started unless it is working.
Resume(s) ==
  /\ Act("resume")
  /\ starter[s].pc = "idle"
  /\ emp' = [emp EXCEPT !.status = "active", !.next = "due"]
  /\ IF emp.current = NoRun THEN Start(s, "resume", 0, emp') ELSE UNCHANGED starter
  /\ UNCHANGED <<run, goalDone, jobs, worker, shiftJobs, claimed, letGo>>

\* Spawner.Spawn, first round trip: the run is created ...
Create(s) ==
  /\ starter[s].pc = "create"
  /\ \/ /\ \E r \in Unspawned :
             /\ SetRun(r, "queued")
             /\ starter' = [starter EXCEPT ![s].pc = "enqueue", ![s].run = r]
        /\ UNCHANGED <<spent, shiftJobs>>
     \/ Error /\ Return(s, FALSE) /\ UNCHANGED run
  /\ UNCHANGED <<goalDone, jobs, emp, worker, claimed, letGo>>

\* ... and the second: its job, of which a failure is only logged.
Enqueue(s) ==
  /\ starter[s].pc = "enqueue"
  /\ \/ jobs' = jobs \cup {starter[s].run} /\ UNCHANGED spent
     \/ Error /\ UNCHANGED jobs
  /\ StarterAt(s, "claim")
  /\ UNCHANGED <<run, goalDone, emp, worker, shiftJobs, claimed, letGo>>

\* ClaimForShift: one PATCH with the expected status and no current run in its
\* filter; the shift number comes from the row StartShift was given.
Claimed(s) ==
  [emp EXCEPT !.current = starter[s].run, !.shiftCount = starter[s].seen.shiftCount + 1, !.next = "null"]

\* Slip: the filter on current_agent_run_id is left out.
ClaimForShift_Unfiltered(s) ==
  /\ starter[s].pc = "claim"
  /\ \/ /\ emp.status = "active"
        /\ emp' = Claimed(s) /\ Hold(starter[s].run)
        /\ Return(s, TRUE)
        /\ UNCHANGED spent
     \/ /\ emp.status # "active" /\ StarterAt(s, "cancel")
        /\ UNCHANGED <<spent, emp, claimed, letGo, shiftJobs>>
  /\ UNCHANGED <<run, goalDone, jobs, worker>>

ClaimForShift(s) ==
  /\ starter[s].pc = "claim"
  /\ \/ /\ Startable(emp)
        /\ emp' = Claimed(s) /\ Hold(starter[s].run)
        /\ Return(s, TRUE)
        /\ UNCHANGED spent
     \/ /\ Startable(emp)                  \* applied, but the answer is lost
        /\ emp' = Claimed(s) /\ Hold(starter[s].run)
        /\ Error /\ StarterAt(s, "cancel")
        /\ UNCHANGED shiftJobs
     \/ /\ ~Startable(emp)                 \* employee_claim_conflict
        /\ StarterAt(s, "cancel")
        /\ UNCHANGED <<emp, claimed, letGo, shiftJobs, spent>>
     \/ /\ Error                           \* the call fails
        /\ StarterAt(s, "cancel")
        /\ UNCHANGED <<emp, claimed, letGo, shiftJobs>>
  /\ UNCHANGED <<run, goalDone, jobs, worker>>

\* The orphaned run is cancelled best-effort.
CancelOrphan(s) ==
  /\ starter[s].pc = "cancel"
  /\ \/ /\ IF Open(starter[s].run) THEN SetRun(starter[s].run, "cancelled") ELSE UNCHANGED run
        /\ UNCHANGED spent
     \/ Error /\ UNCHANGED run
  /\ Return(s, FALSE)
  /\ UNCHANGED <<goalDone, jobs, emp, worker, claimed, letGo>>

-----------------------------------------------------------------------------
(* agents.Worker.HandleJob and its AfterRun hook *)

\* Slip: the job of an ended run is finished without the hook.
HandleJob_SkipsEnded(w) ==
  /\ worker[w].pc = "idle"
  /\ \E r \in jobs :
       /\ jobs' = jobs \ {r}
       /\ IF run[r] \notin Working THEN UNCHANGED <<run, worker>>
          ELSE /\ worker' = [worker EXCEPT ![w] = [IdleWorker EXCEPT !.pc = "work", !.run = r]]
               /\ SetRun(r, "running")
  /\ UNCHANGED <<goalDone, spent, emp, starter, shiftJobs, claimed, letGo>>

\* The job is taken and the run read: an ended or waiting run goes straight to
\* AfterRun, any other is worked on.
HandleJob(w) ==
  /\ worker[w].pc = "idle"
  /\ \E r \in jobs :
       /\ jobs' = jobs \ {r}
       /\ \/ /\ run[r] \notin Working
             /\ worker' = [worker EXCEPT ![w] = [IdleWorker EXCEPT
                  !.pc = "empGet", !.run = r, !.status = run[r], !.goal = r \in goalDone]]
             /\ UNCHANGED run
          \/ /\ run[r] \in Working
             /\ worker' = [worker EXCEPT ![w] = [IdleWorker EXCEPT !.pc = "work", !.run = r]]
             /\ SetRun(r, "running")
  /\ UNCHANGED <<goalDone, spent, emp, starter, shiftJobs, claimed, letGo>>

RunHarness(w) ==
  /\ worker[w].pc = "work"
  /\ Harness(worker[w].run)
  /\ WorkerAt(w, "fresh")
  /\ UNCHANGED <<jobs, spent, emp, starter, shiftJobs, claimed, letGo>>

\* The run is read again for AfterRun; when that fails, AfterRun is given the
\* queued run of the beginning and returns at once.
ReadFresh(w) ==
  /\ worker[w].pc = "fresh"
  /\ LET r == worker[w].run
     IN \/ /\ run[r] \notin Working
           /\ worker' = [worker EXCEPT ![w].pc = "empGet", ![w].status = run[r], ![w].goal = r \in goalDone]
           /\ UNCHANGED spent
        \/ /\ run[r] \in Working
           /\ WorkerDone(w)
           /\ UNCHANGED spent
        \/ Error /\ WorkerDone(w)
  /\ UNCHANGED <<run, goalDone, jobs, emp, starter, shiftJobs, claimed, letGo>>

\* AfterAgentRun: a waiting run ends here ("Stay paused on shifts").
AfterClear(w) == IF worker[w].status = "waiting_for_user" THEN "idle" ELSE "patch"

\* Slip: a run that is not the current one is of no interest; one whose AfterRun
\* died between the Clear and the patch is then never followed by another.
GetEmployee_OnlyCurrent(w) ==
  /\ worker[w].pc = "empGet"
  /\ IF emp.current = worker[w].run
     THEN worker' = [worker EXCEPT ![w].seen = emp, ![w].pc = "clear"]
     ELSE WorkerDone(w)
  /\ UNCHANGED <<spent, run, goalDone, jobs, emp, starter, shiftJobs, claimed, letGo>>

GetEmployee(w) ==
  /\ worker[w].pc = "empGet"
  /\ \/ /\ emp.current = worker[w].run
        /\ worker' = [worker EXCEPT ![w].seen = emp, ![w].pc = "clear"]
        /\ UNCHANGED spent
     \/ /\ emp.current # worker[w].run /\ AfterClear(w) = "patch"
        /\ worker' = [worker EXCEPT ![w].seen = emp, ![w].pc = "patch"]
        /\ UNCHANGED spent
     \/ /\ emp.current # worker[w].run /\ AfterClear(w) = "idle"
        /\ WorkerDone(w)
        /\ UNCHANGED spent
     \/ Error /\ WorkerDone(w)
  /\ UNCHANGED <<run, goalDone, jobs, emp, starter, shiftJobs, claimed, letGo>>

\* ClearCurrentRun: one PATCH filtered on the run; its error is ignored.
ClearCurrentRun(w) ==
  /\ worker[w].pc = "clear"
  /\ \/ /\ emp' = IF emp.current = worker[w].run THEN [emp EXCEPT !.current = NoRun] ELSE emp
        /\ UNCHANGED spent
     \/ Error /\ UNCHANGED emp
  /\ WorkerAt(w, AfterClear(w))
  /\ UNCHANGED <<run, goalDone, jobs, starter, shiftJobs, claimed, letGo>>

\* The patch that ends AfterAgentRun: completed when the goal is, nothing but
\* the summary when the row that was read is not active, else the next shift.
PatchEmployee(w) ==
  /\ worker[w].pc = "patch"
  /\ \/ /\ worker[w].goal
        /\ emp' = [emp EXCEPT !.status = "completed", !.next = "null", !.current = NoRun]
        /\ WorkerDone(w)
        /\ UNCHANGED spent
     \/ /\ ~worker[w].goal /\ worker[w].seen.status # "active"
        /\ WorkerDone(w)
        /\ UNCHANGED <<emp, spent>>
     \/ /\ ~worker[w].goal /\ worker[w].seen.status = "active"
        /\ emp' = [emp EXCEPT !.next = "later"]
        /\ WorkerAt(w, IF Continuous THEN "enqueue" ELSE "idle")
        /\ UNCHANGED spent
     \/ Error /\ WorkerDone(w) /\ UNCHANGED emp
  /\ UNCHANGED <<run, goalDone, jobs, starter, shiftJobs, claimed, letGo>>

\* A continuous employee is started by a job after the cooldown.
EnqueueShift(w) ==
  /\ worker[w].pc = "enqueue"
  /\ \/ shiftJobs' = WithShiftJob(worker[w].seen.shiftCount + 1) /\ UNCHANGED spent
     \/ Error /\ UNCHANGED shiftJobs
  /\ WorkerDone(w)
  /\ UNCHANGED <<run, goalDone, jobs, emp, starter, claimed, letGo>>

-----------------------------------------------------------------------------
(* Users and crashes *)

\* Handler.Pause, Handler.Archive, and the status of Handler.Update.
SetStatus(status) ==
  /\ Act(status)
  /\ emp' = [emp EXCEPT !.status = status,
               !.next = IF status = "active" THEN @ ELSE "null",
               !.current = IF status = "completed" THEN NoRun ELSE @]
  /\ LetGo(IF status = "completed" THEN {emp.current} ELSE {})
  /\ UNCHANGED <<run, goalDone, jobs, starter, worker, shiftJobs, claimed>>

UserRun ==
  /\ \E r \in Runs :
       \/ (CancelRun(r) \/ FinishRun(r)) /\ LetGo({})
       \/ Reply(r) /\ LetGo({r})
  /\ UNCHANGED <<emp, starter, worker, shiftJobs, claimed>>

\* The process dies: the lease of a job runs out and it is taken again.
CrashStarter(s) ==
  /\ starter[s].pc # "idle"
  /\ CrashOne
  /\ starter' = [starter EXCEPT ![s] = IdleStarter]
  /\ shiftJobs' = (shiftJobs \ HeldJob(s)) \cup {[j EXCEPT !.status = "pending"] : j \in HeldJob(s)}
  /\ UNCHANGED <<run, goalDone, jobs, emp, worker, claimed, letGo>>

CrashWorker(w) ==
  /\ worker[w].pc # "idle"
  /\ CrashOne
  /\ jobs' = jobs \cup {worker[w].run}
  /\ WorkerDone(w)
  /\ UNCHANGED <<run, goalDone, emp, starter, shiftJobs, claimed, letGo>>

StarterStep(s) == Create(s) \/ Enqueue(s) \/ ClaimForShift(s) \/ CancelOrphan(s)
WorkerStep(w) == \/ RunHarness(w) \/ ReadFresh(w) \/ GetEmployee(w) \/ ClearCurrentRun(w)
                 \/ PatchEmployee(w) \/ EnqueueShift(w)

Next ==
  \/ JobDue
  \/ ShiftDue
  \/ \E s \in Starters : ListDueActive(s) \/ HandleShiftJob(s) \/ Resume(s) \/ StarterStep(s) \/ CrashStarter(s)
  \/ \E w \in Workers : HandleJob(w) \/ WorkerStep(w) \/ CrashWorker(w)
  \/ \E status \in Status : SetStatus(status)
  \/ UserRun

Spec == Init /\ [][Next]_vars

\* Clocks advance, every goroutine goes on, and schedulers and workers poll.
Fairness ==
  /\ WF_vars(JobDue) /\ WF_vars(ShiftDue)
  /\ \A s \in Starters : WF_vars(StarterStep(s))
  /\ \A w \in Workers : WF_vars(WorkerStep(w))
  /\ WF_vars(\E s \in Starters : ListDueActive(s))
  /\ WF_vars(\E s \in Starters : HandleShiftJob(s))
  /\ WF_vars(\E w \in Workers : HandleJob(w))

FairSpec == Spec /\ Fairness

-----------------------------------------------------------------------------
(* Properties *)

\* The row, the runs and every goroutine stay within the code's statuses.
TypeOK ==
  /\ RunTypeOK
  /\ emp \in Employee
  /\ starter \in [Starters -> Starter]
  /\ worker \in [Workers -> Worker]
  /\ shiftJobs \subseteq ShiftJob
  /\ claimed \subseteq Runs
  /\ letGo \subseteq Runs

\* However many replicas and jobs start an employee at once, and whatever is
\* lost on the way, at most one of the shifts it was claimed for is under way:
\* the filter of ClaimForShift arbitrates runs that exist already.
OneShiftAtATime == Cardinality({r \in Held : run[r] \in Working}) <= 1

\* Somebody is going to call AfterRun for r and has not yet passed the Clear.
Attended(r) ==
  \/ r \in jobs
  \/ \E s \in Starters : starter[s].run = r /\ starter[s].pc = "enqueue"
  \/ \E w \in Workers : worker[w].run = r /\ worker[w].pc \in {"work", "fresh", "empGet", "clear"}

\* The row is never left pointing at a shift that has ended (AfterAgentRun:
\* "Clear current run pointer when this run was the active shift"): as long as
\* it points there, somebody is about to clear it.
EndedShiftIsReleased ==
  emp.current \in Held /\ Terminal(run[emp.current]) /\ spent.errors = 0 => Attended(emp.current)

\* The loser of a race cancels the run it has spawned: outside StartShift every
\* open run is one the row was claimed for.
OrphanIsCancelled ==
  spent.errors = 0 /\ spent.crashes = 0 =>
    \A r \in Runs : Open(r) /\ r \notin claimed \cup letGo => \E s \in Starters : starter[s].run = r

\* No shift is left over: neither one that lost the race for the row, nor in
\* the row one that has ended.
NoShiftIsLeft == OrphanIsCancelled /\ EndedShiftIsReleased

\* An active employee that is not working is put to work again, as long as
\* there are runs to spawn and no shift waits for the user.
WorksAgain ==
  Startable(emp) ~>
    \/ ~Startable(emp)
    \/ Unspawned = {}
    \/ \E r \in claimed : run[r] = "waiting_for_user"

\* The row is handed from shift to shift as RowTenure says: never from one run
\* straight to another, never twice to the same one, whoever spawns, claims,
\* completes or clears it at the same time (ClaimForShift: "atomically").
Tenure == INSTANCE RowTenure WITH holder <- emp.current, past <- claimed
ShiftTenure == Tenure!Spec
=============================================================================
