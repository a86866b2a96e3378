------------------------------ MODULE Schedules -----------------------------
(***************************************************************************)
(* One scheduled agent goal (internal/schedules): a row that spawns a run  *)
(* at its times, or once (cadence_minutes = 0), and delivers the result as *)
(* an intent.                                                              *)
(*                                                                         *)
(* It is started by the scheduler of every replica, by Create (a scheduler *)
(* on a new row), by RunNow and by Resume.  As with employees the run is   *)
(* spawned before the row is claimed; unlike them a waiting run keeps the  *)
(* row, and a one-shot completes when its run ends.  One action is one     *)
(* round trip.                                                             *)
(***************************************************************************)
EXTENDS RunLife

CONSTANTS Starters,   \* goroutines that may be in StartRun
          OneShots    \* which goals there are: TRUE for cadence_minutes = 0

ASSUME CadenceAssumption == OneShots \subseteq BOOLEAN

VARIABLES sch,        \* the scheduled_agent_goals row
          starter,    \* starter[s]: program counter and locals of StartRun
          worker,     \* worker[w]: program counter and locals of HandleJob and AfterAgentRun
          delivered,  \* runs whose result was put before the user
          claimed,    \* history: the runs the row was claimed for
          letGo       \* history: the runs the row does not stand for (LetGo)

vars == <<run, goalDone, jobs, spent, sch, starter, worker, delivered, claimed, letGo>>

-----------------------------------------------------------------------------
(* State *)

Status == {"active", "paused", "completed", "archived"}

\* next_run_at: NULL, in the future, or due.
Next_run_at == {"null", "later", "due"}

Schedule == [once : BOOLEAN, status : Status, current : Runs \cup {NoRun}, next : Next_run_at]
Created(once) == [once |-> once, status |-> "active", current |-> NoRun, next |-> "due"]

\* A run is let go when a user opens it again, or completes the row while it
\* is current, or when it has come to rest before the row is claimed for it:
\* the row then says nothing about it, and it has no part in the row's promises.
Held == claimed \ letGo
LetGo(runs) == letGo' = letGo \cup (runs \ {NoRun})
Hold(r) == claimed' = claimed \cup {r} /\ LetGo(IF run[r] \in Working THEN {} ELSE {r})

IdleStarter == [pc |-> "idle", run |-> NoRun]
IdleWorker == [pc |-> "idle", run |-> NoRun, status |-> "none", active |-> FALSE]

Starter == [pc : {"idle", "create", "enqueue", "claim", "cancel"},
            run : Runs \cup {NoRun}]
Worker == [pc : {"idle", "work", "fresh", "get", "clear", "deliver", "patch"},
           run : Runs \cup {NoRun}, status : RunStatus, active : BOOLEAN]

StarterAt(s, pc) == starter' = [starter EXCEPT ![s].pc = pc]
Return(s) == starter' = [starter EXCEPT ![s] = IdleStarter]
WorkerAt(w, pc) == worker' = [worker EXCEPT ![w].pc = pc]
WorkerDone(w) == worker' = [worker EXCEPT ![w] = IdleWorker]

Init ==
  /\ RunInit
  /\ \E once \in OneShots : sch = Created(once)
  /\ starter = [s \in Starters |-> IdleStarter]
  /\ worker = [w \in Workers |-> IdleWorker]
  /\ delivered = {}
  /\ claimed = {}
  /\ letGo = {}

\* next_run_at passes.
RunDue ==
  /\ sch.next = "later"
  /\ sch' = [sch EXCEPT !.next = "due"]
  /\ UNCHANGED <<run, goalDone, jobs, spent, starter, worker, delivered, claimed, letGo>>

-----------------------------------------------------------------------------
(* StartRun and its callers *)

\* StartRun refuses a row that is not active or has a run.
Startable(row) == row.status = "active" /\ row.current = NoRun

\* Scheduler.tick: a row of ListDueActive.
ListDueActive(s) ==
  /\ starter[s].pc = "idle" /\ Unspawned # {}
  /\ Startable(sch) /\ sch.next = "due"
  /\ StarterAt(s, "create")
  /\ UNCHANGED <<run, goalDone, jobs, spent, sch, worker, delivered, claimed, letGo>>

\* Handler.RunNow: at any time, as long as the row can be started.
RunNow(s) ==
  /\ Act("run_now")
  /\ starter[s].pc = "idle"
  /\ Startable(sch)
  /\ StarterAt(s, "create")
  /\ UNCHANGED <<run, goalDone, jobs, sch, worker, delivered, claimed, letGo>>

\* Handler.Resume: active and due at once, and started unless it has a run.
Resume(s) ==
  /\ Act("resume")
  /\ starter[s].pc = "idle"
  /\ sch' = [sch EXCEPT !.status = "active", !.next = "due"]
  /\ IF sch.current = NoRun THEN StarterAt(s, "create") ELSE UNCHANGED starter
  /\ UNCHANGED <<run, goalDone, jobs, worker, delivered, claimed, letGo>>

\* Spawner.Spawn: the run, and then its job, of which a failure is only logged.
Create(s) ==
  /\ starter[s].pc = "create"
  /\ \/ /\ \E r \in Unspawned :
             /\ SetRun(r, "queued")
             /\ starter' = [starter EXCEPT ![s].pc = "enqueue", ![s].run = r]
        /\ UNCHANGED spent
     \/ Error /\ Return(s) /\ UNCHANGED run
  /\ UNCHANGED <<goalDone, jobs, sch, worker, delivered, claimed, letGo>>

Enqueue(s) ==
  /\ starter[s].pc = "enqueue"
  /\ \/ jobs' = jobs \cup {starter[s].run} /\ UNCHANGED spent
     \/ Error /\ UNCHANGED jobs
  /\ StarterAt(s, "claim")
  /\ UNCHANGED <<run, goalDone, sch, worker, delivered, claimed, letGo>>

Claim(s) ==
  /\ sch' = [sch EXCEPT !.current = starter[s].run, !.next = "null"]
  /\ Hold(starter[s].run)

\* Slip: an active row is claimed whether or not it has a run.
ClaimForRun_Unfiltered(s) ==
  /\ starter[s].pc = "claim"
  /\ \/ sch.status = "active" /\ Claim(s) /\ Return(s)
     \/ sch.status # "active" /\ StarterAt(s, "cancel") /\ UNCHANGED <<sch, claimed, letGo>>
  /\ UNCHANGED <<run, goalDone, jobs, spent, worker, delivered>>

\* ClaimForRun: one PATCH filtered on an active row without a run.  The answer
\* may be lost after it was applied, and the call may fail before.
ClaimForRun(s) ==
  /\ starter[s].pc = "claim"
  /\ \/ Startable(sch) /\ Claim(s) /\ Return(s) /\ UNCHANGED spent
     \/ Startable(sch) /\ Claim(s) /\ Error /\ StarterAt(s, "cancel")
     \/ ~Startable(sch) /\ StarterAt(s, "cancel") /\ UNCHANGED <<sch, claimed, letGo, spent>>
     \/ Error /\ StarterAt(s, "cancel") /\ UNCHANGED <<sch, claimed, letGo>>
  /\ UNCHANGED <<run, goalDone, jobs, worker, delivered>>

\* The run that was spawned in vain is cancelled, errors ignored.
CancelSpawned(s) ==
  /\ starter[s].pc = "cancel"
  /\ \/ /\ IF Open(starter[s].run) THEN SetRun(starter[s].run, "cancelled") ELSE UNCHANGED run
        /\ UNCHANGED spent
     \/ Error /\ UNCHANGED run
  /\ Return(s)
  /\ UNCHANGED <<goalDone, jobs, sch, worker, delivered, claimed, letGo>>

-----------------------------------------------------------------------------
(* agents.Worker.HandleJob and its AfterRun hook *)

\* Slip: the job of an ended run is finished without the hook.
HandleJob_SkipsEnded(w) ==
  /\ worker[w].pc = "idle"
  /\ \E r \in jobs :
       /\ jobs' = jobs \ {r}
       /\ IF run[r] \notin Working THEN UNCHANGED <<run, worker>>
          ELSE /\ worker' = [worker EXCEPT ![w] = [IdleWorker EXCEPT !.pc = "work", !.run = r]]
               /\ SetRun(r, "running")
  /\ UNCHANGED <<goalDone, spent, sch, starter, delivered, claimed, letGo>>

\* The job is taken and the run read: an ended or waiting run goes straight to
\* AfterRun, any other is worked on.
HandleJob(w) ==
  /\ worker[w].pc = "idle"
  /\ \E r \in jobs :
       /\ jobs' = jobs \ {r}
       /\ \/ /\ run[r] \notin Working
             /\ worker' = [worker EXCEPT ![w] =
                  [IdleWorker EXCEPT !.pc = "get", !.run = r, !.status = run[r]]]
             /\ UNCHANGED run
          \/ /\ run[r] \in Working
             /\ worker' = [worker EXCEPT ![w] = [IdleWorker EXCEPT !.pc = "work", !.run = r]]
             /\ SetRun(r, "running")
  /\ UNCHANGED <<goalDone, spent, sch, starter, delivered, claimed, letGo>>

RunHarness(w) ==
  /\ worker[w].pc = "work"
  /\ Harness(worker[w].run)
  /\ WorkerAt(w, "fresh")
  /\ UNCHANGED <<jobs, spent, sch, starter, delivered, claimed, letGo>>

\* The run is read again for AfterRun; when that fails, AfterRun is given the
\* queued run of the beginning and returns at once.
ReadFresh(w) ==
  /\ worker[w].pc = "fresh"
  /\ LET r == worker[w].run
     IN \/ /\ run[r] \notin Working
           /\ worker' = [worker EXCEPT ![w].pc = "get", ![w].status = run[r]]
           /\ UNCHANGED spent
        \/ run[r] \in Working /\ WorkerDone(w) /\ UNCHANGED spent
        \/ Error /\ WorkerDone(w)
  /\ UNCHANGED <<run, goalDone, jobs, sch, starter, delivered, claimed, letGo>>

\* Only a succeeded run has a result to deliver.
AfterClear(w) == IF worker[w].status = "succeeded" THEN "deliver" ELSE "patch"

\* AfterAgentRun reads the row; a waiting run keeps it ("so the user can open
\* and reply").
GetSchedule(w) ==
  /\ worker[w].pc = "get"
  /\ \/ /\ worker[w].status = "waiting_for_user"
        /\ WorkerDone(w)
        /\ UNCHANGED spent
     \/ /\ worker[w].status # "waiting_for_user" /\ sch.current = worker[w].run
        /\ worker' = [worker EXCEPT ![w].active = sch.status = "active", ![w].pc = "clear"]
        /\ UNCHANGED spent
     \/ /\ worker[w].status # "waiting_for_user" /\ sch.current # worker[w].run
        /\ worker' = [worker EXCEPT ![w].active = sch.status = "active", ![w].pc = AfterClear(w)]
        /\ UNCHANGED spent
     \/ Error /\ WorkerDone(w)
  /\ UNCHANGED <<run, goalDone, jobs, sch, starter, delivered, claimed, letGo>>

\* ClearCurrentRun: one PATCH filtered on the run; its error is ignored.
ClearCurrentRun(w) ==
  /\ worker[w].pc = "clear"
  /\ \/ /\ sch' = IF sch.current = worker[w].run THEN [sch EXCEPT !.current = NoRun] ELSE sch
        /\ UNCHANGED spent
     \/ Error /\ UNCHANGED sch
  /\ WorkerAt(w, AfterClear(w))
  /\ UNCHANGED <<run, goalDone, jobs, starter, delivered, claimed, letGo>>

\* deliverResult: the open agent_result intent of this run, created once.
DeliverResult(w) ==
  /\ worker[w].pc = "deliver"
  /\ \/ delivered' = delivered \cup {worker[w].run} /\ UNCHANGED spent
     \/ Error /\ UNCHANGED delivered
  /\ WorkerAt(w, "patch")
  /\ UNCHANGED <<run, goalDone, jobs, sch, starter, claimed, letGo>>

\* The patch that ends AfterAgentRun: nothing but the summary when the row that
\* was read is not active; a one-shot completes, any other is scheduled again.
PatchSchedule(w) ==
  /\ worker[w].pc = "patch"
  /\ \/ /\ ~worker[w].active
        /\ UNCHANGED <<sch, spent>>
     \/ /\ worker[w].active
        /\ sch' = IF sch.once
                  THEN [sch EXCEPT !.status = "completed", !.next = "null", !.current = NoRun]
                  ELSE [sch EXCEPT !.next = "later"]
        /\ UNCHANGED spent
     \/ Error /\ UNCHANGED sch
  /\ WorkerDone(w)
  /\ UNCHANGED <<run, goalDone, jobs, starter, delivered, claimed, letGo>>

-----------------------------------------------------------------------------
(* Users and crashes *)

\* Handler.Pause, Handler.Archive, and the status of Handler.Update.
SetStatus(status) ==
  /\ Act(status)
  /\ sch' = [sch EXCEPT !.status = status,
               !.next = IF status = "active" THEN @ ELSE "null",
               !.current = IF status = "completed" THEN NoRun ELSE @]
  /\ LetGo(IF status = "completed" THEN {sch.current} ELSE {})
  /\ UNCHANGED <<run, goalDone, jobs, starter, worker, delivered, claimed>>

UserRun ==
  /\ \E r \in Runs :
       \/ (CancelRun(r) \/ FinishRun(r)) /\ LetGo({})
       \/ Reply(r) /\ LetGo({r})
  /\ UNCHANGED <<sch, starter, worker, delivered, claimed>>

\* The process dies: whatever StartRun has begun is left, the lease of a job
\* runs out and the job is taken again.
CrashStarter(s) ==
  /\ starter[s].pc # "idle"
  /\ CrashOne
  /\ Return(s)
  /\ UNCHANGED <<run, goalDone, jobs, sch, worker, delivered, claimed, letGo>>

CrashWorker(w) ==
  /\ worker[w].pc # "idle"
  /\ CrashOne
  /\ jobs' = jobs \cup {worker[w].run}
  /\ WorkerDone(w)
  /\ UNCHANGED <<run, goalDone, sch, starter, delivered, claimed, letGo>>

StarterStep(s) == Create(s) \/ Enqueue(s) \/ ClaimForRun(s) \/ CancelSpawned(s)
WorkerStep(w) == \/ RunHarness(w) \/ ReadFresh(w) \/ GetSchedule(w) \/ ClearCurrentRun(w)
                 \/ DeliverResult(w) \/ PatchSchedule(w)

Next ==
  \/ RunDue
  \/ \E s \in Starters : ListDueActive(s) \/ RunNow(s) \/ Resume(s) \/ StarterStep(s) \/ CrashStarter(s)
  \/ \E w \in Workers : HandleJob(w) \/ WorkerStep(w) \/ CrashWorker(w)
  \/ \E status \in Status : SetStatus(status)
  \/ UserRun

Spec == Init /\ [][Next]_vars

\* The clock advances, every goroutine goes on, and scheduler and workers poll.
Fairness ==
  /\ WF_vars(RunDue)
  /\ \A s \in Starters : WF_vars(StarterStep(s))
  /\ \A w \in Workers : WF_vars(WorkerStep(w))
  /\ WF_vars(\E s \in Starters : ListDueActive(s))
  /\ WF_vars(\E w \in Workers : HandleJob(w))

FairSpec == Spec /\ Fairness

-----------------------------------------------------------------------------
(* Properties *)

\* The row, the runs and every goroutine stay within the code's statuses.
TypeOK ==
  /\ RunTypeOK
  /\ sch \in Schedule
  /\ starter \in [Starters -> Starter]
  /\ worker \in [Workers -> Worker]
  /\ delivered \subseteq Runs
  /\ claimed \subseteq Runs
  /\ letGo \subseteq Runs

\* However many callers start the goal at once, and whatever is lost on the
\* way, at most one of the runs it was claimed for is open: waiting runs keep
\* the row, so they count.
OneOpenRun == Cardinality({r \in Held : Open(r)}) <= 1

\* AfterAgentRun on a waiting run: "Keep current_agent_run_id so the user can
\* open and reply."  Only users take a waiting run off its schedule.
WaitingKeepsRow == \A r \in Held : run[r] = "waiting_for_user" => sch.current = r

\* The result of a run that succeeded reaches the user, although the process
\* may die anywhere in AfterAgentRun.
ResultIsDelivered == \A r \in Runs : run[r] = "succeeded" ~> r \in delivered

\* A recurring goal that has no run gets one, as long as there are runs to spawn.
RunsAgain == Startable(sch) ~> ~Startable(sch) \/ Unspawned = {}

\* The row is handed from run to run as RowTenure says: never from one run
\* straight to another, never twice to the same one, whoever spawns, claims,
\* completes or clears it at the same time.
Tenure == INSTANCE RowTenure WITH holder <- sch.current, past <- claimed
RunTenure == Tenure!Spec
=============================================================================
