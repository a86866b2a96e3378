------------------------ MODULE EmployeeShiftsProofs ------------------------
(***************************************************************************)
(* Theorems about EmployeeShifts, for every number of runs, callers and    *)
(* workers and every bound: types, the implementation of RowTenure, for    *)
(* employees that cannot complete their own goal one shift at a time, and  *)
(* that no shift is left over.                                             *)
(***************************************************************************)
EXTENDS EmployeeShifts, FiniteSetTheorems, TLAPS

-----------------------------------------------------------------------------
(* Types *)

LEMMA RowTypes ==
  /\ NoRun \in Runs \cup {NoRun}
  /\ Hired \in Employee
  /\ IdleStarter \in Starter
  /\ IdleWorker \in Worker
  BY DEF Hired, Employee, Status, Next_shift_at, IdleStarter, Starter, IdleWorker, Worker, RunStatus

LEMMA SpentTyped ==
  ASSUME RunTypeOK, (\E name : Act(name)) \/ Error \/ CrashOne \/ UNCHANGED spent
  PROVE  spent' \in [acts : 0..MaxActs, errors : 0..MaxErrors, crashes : 0..MaxCrashes]
  BY BoundAssumption DEF RunTypeOK, Act, Error, CrashOne

LEMMA SetRunTyped ==
  ASSUME RunTypeOK, NEW r \in Runs, NEW status \in RunStatus, SetRun(r, status)
  PROVE  run' \in [Runs -> RunStatus]
  BY DEF RunTypeOK, SetRun

LEMMA StatusTyped == Working \cup Ended \cup {"waiting_for_user"} \subseteq RunStatus
  BY DEF Working, Ended, RunStatus

\* What a job of an employee becomes is a job.
LEMMA JobsTyped ==
  ASSUME TypeOK, NEW j \in shiftJobs
  PROVE  /\ [j EXCEPT !.status = "pending"] \in ShiftJob
         /\ [j EXCEPT !.status = "running"] \in ShiftJob
         /\ Retried(j) \subseteq ShiftJob
  <1>1. /\ j = [number |-> j.number, status |-> j.status, attempts |-> j.attempts]
        /\ j.number \in Nat /\ j.attempts \in 0..MaxAttempts
    BY DEF TypeOK, ShiftJob
  <1>2. \A status \in {"later", "pending", "running"} : [j EXCEPT !.status = status] \in ShiftJob
    BY <1>1 DEF ShiftJob
  <1>3. ASSUME j.attempts + 1 < MaxAttempts
        PROVE  [j EXCEPT !.status = "later", !.attempts = j.attempts + 1] \in ShiftJob
    <2>1. j.attempts + 1 \in 0..MaxAttempts
      BY <1>1, <1>3, AttemptsAssumption
    <2>2. QED
      BY <1>1, <2>1 DEF ShiftJob
  <1>4. QED
    BY <1>2, <1>3 DEF Retried

LEMMA ReturnTyped ==
  ASSUME TypeOK, NEW s \in Starters, NEW ok \in BOOLEAN, Return(s, ok)
  PROVE  starter' \in [Starters -> Starter] /\ shiftJobs' \subseteq ShiftJob
  <1>1. starter' \in [Starters -> Starter]
    BY RowTypes DEF TypeOK, Return
  <1>2. HeldJob(s) \subseteq shiftJobs
    BY DEF HeldJob
  <1>3. \A j \in HeldJob(s) : Retried(j) \subseteq ShiftJob
    BY <1>2, JobsTyped
  <1>4. UNION {Retried(j) : j \in HeldJob(s)} \subseteq ShiftJob
    BY <1>3
  <1>5. shiftJobs' \subseteq ShiftJob
    BY <1>4 DEF TypeOK, Return
  <1>6. QED
    BY <1>1, <1>5

LEMMA StarterAtTyped ==
  ASSUME TypeOK, NEW s \in Starters,
         NEW pc \in {"idle", "create", "enqueue", "claim", "cancel"}, StarterAt(s, pc)
  PROVE  starter' \in [Starters -> Starter]
  BY DEF TypeOK, StarterAt, Starter

LEMMA StartTyped ==
  ASSUME TypeOK, NEW s \in Starters, NEW by \in {"scheduler", "job", "resume"}, NEW n \in Nat,
         NEW row \in Employee, Start(s, by, n, row)
  PROVE  starter' \in [Starters -> Starter]
  BY RowTypes DEF TypeOK, Start, Starter, IdleStarter

LEMMA WorkerTyped ==
  ASSUME TypeOK, NEW w \in Workers,
         \/ WorkerDone(w)
         \/ \E pc \in {"idle", "fresh", "clear", "patch", "enqueue"} : WorkerAt(w, pc)
  PROVE  worker' \in [Workers -> Worker]
  BY RowTypes DEF TypeOK, WorkerDone, WorkerAt, Worker

LEMMA HarnessTyped ==
  ASSUME RunTypeOK, NEW r \in Runs, Harness(r)
  PROVE  run' \in [Runs -> RunStatus] /\ goalDone' \subseteq Runs
  <1>1. CASE UNCHANGED <<run, goalDone>>
    BY <1>1 DEF RunTypeOK
  <1>2. CASE \E status \in {"succeeded", "waiting_for_user", "failed"} : SetRun(r, status)
    <2>1. run' \in [Runs -> RunStatus]
      BY <1>2, SetRunTyped DEF RunStatus, Ended
    <2>2. goalDone' \subseteq Runs
      BY DEF Harness, RunTypeOK
    <2>3. QED
      BY <2>1, <2>2
  <1>3. QED
    BY <1>1, <1>2 DEF Harness

\* A worker about to read the row knows how its run was left.
LEMMA FreshTyped ==
  ASSUME NEW rec \in Worker, NEW r \in Runs, NEW status \in RunStatus, NEW goal, goal \in BOOLEAN
  PROVE  /\ [rec EXCEPT !.pc = "empGet", !.status = status, !.goal = goal] \in Worker
         /\ [rec EXCEPT !.pc = "empGet", !.run = r, !.status = status, !.goal = goal] \in Worker
  BY Zenon DEF Worker

-----------------------------------------------------------------------------
(* Types, one step per action.  What a goroutine does to its run is typed    *)
(* only because it has one: TypeOK is inductive together with Spawned.       *)

\* A caller past Spawn has a run; until it has claimed or cancelled it, it is
\* its own and the row has not been claimed for it.
OwnRun(s) ==
  starter[s].pc \in {"enqueue", "claim", "cancel"} =>
    /\ starter[s].run \in Runs /\ run[starter[s].run] # "none"
    /\ starter[s].pc # "cancel" =>
         /\ starter[s].run \notin claimed
         /\ \A t \in Starters \ {s} : starter[t].pc \in {"enqueue", "claim"} => starter[t].run # starter[s].run

HasRun(w) == worker[w].pc # "idle" => worker[w].run \in Runs /\ run[worker[w].run] # "none"

Spawned ==
  /\ \A s \in Starters : OwnRun(s)
  /\ \A w \in Workers : HasRun(w)
  /\ \A r \in jobs \cup claimed : run[r] # "none"

LEMMA StarterTypeStep ==
  ASSUME TypeOK, Spawned, NEW s \in Starters,
         ListDueActive(s) \/ HandleShiftJob(s) \/ Resume(s) \/ StarterStep(s) \/ CrashStarter(s)
  PROVE  TypeOK'
  <1> USE DEF TypeOK, RunTypeOK
  <1>1. CASE ListDueActive(s)
    BY <1>1, StartTyped DEF ListDueActive
  <1>2. CASE HandleShiftJob(s)
    <2>1. PICK j \in shiftJobs :
             \/ shiftJobs' = shiftJobs \ {j} /\ UNCHANGED starter
             \/ /\ shiftJobs' = (shiftJobs \ {j}) \cup {[j EXCEPT !.status = "running"]}
                /\ Start(s, "job", j.number, emp)
      BY <1>2 DEF HandleShiftJob
    <2>2. j.number \in Nat
      BY DEF ShiftJob
    <2>3. shiftJobs' \subseteq ShiftJob
      BY <2>1, JobsTyped
    <2>4. starter' \in [Starters -> Starter]
      BY <2>1, <2>2, StartTyped
    <2>5. QED
      BY <1>2, <2>3, <2>4 DEF HandleShiftJob
  <1>3. CASE Resume(s)
    <2>1. emp' \in Employee
      BY <1>3 DEF Resume, Employee, Status, Next_shift_at
    <2>2. starter' \in [Starters -> Starter]
      BY <1>3, <2>1, StartTyped DEF Resume
    <2>3. QED
      BY <1>3, <2>1, <2>2, SpentTyped DEF Resume
  <1>4. CASE Create(s)
    <2>1. CASE \E r \in Unspawned :
                  /\ SetRun(r, "queued")
                  /\ starter' = [starter EXCEPT ![s].pc = "enqueue", ![s].run = r]
                  /\ UNCHANGED <<spent, shiftJobs>>
      <3>1. PICK r \in Runs : /\ SetRun(r, "queued")
                              /\ starter' = [starter EXCEPT ![s].pc = "enqueue", ![s].run = r]
        BY <2>1 DEF Unspawned
      <3>2. run' \in [Runs -> RunStatus]
        BY <3>1, SetRunTyped DEF RunStatus, Working
      <3> DEFINE next == [starter[s] EXCEPT !.pc = "enqueue", !.run = r]
      <3>3. next \in Starter
        BY DEF Starter
      <3>4. starter' = [starter EXCEPT ![s] = next]
        BY <3>1
      <3> HIDE DEF next
      <3>5. starter' \in [Starters -> Starter]
        BY <3>3, <3>4
      <3>6. QED
        BY <1>4, <2>1, <3>2, <3>5 DEF Create
    <2>2. CASE Error /\ Return(s, FALSE) /\ UNCHANGED run
      BY <1>4, <2>2, SpentTyped, ReturnTyped DEF Create
    <2>3. QED
      BY <1>4, <2>1, <2>2 DEF Create
  <1>5. CASE Enqueue(s)
    <2>1. jobs' \subseteq Runs
      BY <1>5 DEF Enqueue, Spawned, HasRun, OwnRun
    <2>2. QED
      BY <1>5, <2>1, SpentTyped, StarterAtTyped DEF Enqueue
  <1>6. CASE ClaimForShift(s)
    <2>1. Claimed(s) \in Employee
      <3>1. starter[s].run \in Runs /\ starter[s].seen.shiftCount + 1 \in Nat
        BY <1>6 DEF ClaimForShift, Spawned, HasRun, OwnRun, Starter, Employee
      <3>2. QED
        BY <3>1 DEF Claimed, Employee, Next_shift_at
    <2>r. starter[s].run \in Runs
      BY <1>6 DEF ClaimForShift, Spawned, OwnRun
    <2>2. emp' \in Employee /\ claimed' \subseteq Runs /\ letGo' \subseteq Runs
      BY <1>6, <2>1, <2>r DEF ClaimForShift, Hold, LetGo
    <2>3. spent' \in [acts : 0..MaxActs, errors : 0..MaxErrors, crashes : 0..MaxCrashes]
      BY <1>6, SpentTyped DEF ClaimForShift
    <2>4. starter' \in [Starters -> Starter] /\ shiftJobs' \subseteq ShiftJob
      BY <1>6, ReturnTyped, StarterAtTyped DEF ClaimForShift
    <2>5. QED
      BY <1>6, <2>2, <2>3, <2>4 DEF ClaimForShift
  <1>7. CASE CancelOrphan(s)
    <2>1. run' \in [Runs -> RunStatus]
      <3>1. starter[s].run \in Runs
        BY <1>7 DEF CancelOrphan, Spawned, HasRun, OwnRun
      <3>2. "cancelled" \in RunStatus
        BY DEF RunStatus, Ended
      <3>3. QED
        BY <1>7, <3>1, <3>2, SetRunTyped DEF CancelOrphan
    <2>2. QED
      BY <1>7, <2>1, SpentTyped, ReturnTyped DEF CancelOrphan
  <1>8. CASE CrashStarter(s)
    <2>1. \A j \in HeldJob(s) : [j EXCEPT !.status = "pending"] \in ShiftJob
      BY JobsTyped DEF HeldJob
    <2>2. shiftJobs' \subseteq ShiftJob
      BY <1>8, <2>1 DEF CrashStarter
    <2>3. starter' \in [Starters -> Starter]
      BY <1>8, RowTypes DEF CrashStarter
    <2>4. QED
      BY <1>8, <2>2, <2>3, SpentTyped DEF CrashStarter
  <1>9. QED
    BY <1>1, <1>2, <1>3, <1>4, <1>5, <1>6, <1>7, <1>8 DEF StarterStep

LEMMA WorkerTypeStep ==
  ASSUME TypeOK, Spawned, NEW w \in Workers,
         HandleJob(w) \/ WorkerStep(w) \/ CrashWorker(w)
  PROVE  TypeOK'
  <1> USE DEF TypeOK, RunTypeOK
  <1>1. CASE HandleJob(w)
    <2>1. PICK r \in jobs :
             /\ jobs' = jobs \ {r}
             /\ \/ /\ worker' = [worker EXCEPT ![w] = [IdleWorker EXCEPT
                         !.pc = "empGet", !.run = r, !.status = run[r], !.goal = r \in goalDone]]
                   /\ UNCHANGED run
                \/ /\ worker' = [worker EXCEPT ![w] = [IdleWorker EXCEPT !.pc = "work", !.run = r]]
                   /\ SetRun(r, "running")
      BY <1>1 DEF HandleJob
    <2>2. [IdleWorker EXCEPT !.pc = "work", !.run = r] \in Worker
      BY RowTypes DEF Worker
    <2>g. (r \in goalDone) \in BOOLEAN
      OBVIOUS
    <2> DEFINE fresh == [IdleWorker EXCEPT !.pc = "empGet", !.run = r, !.status = run[r], !.goal = r \in goalDone]
    <2>f. fresh \in Worker
      BY RowTypes, FreshTyped, <2>g, run[r] \in RunStatus, Zenon
    <2>c. \/ worker' = [worker EXCEPT ![w] = fresh]
          \/ worker' = [worker EXCEPT ![w] = [IdleWorker EXCEPT !.pc = "work", !.run = r]]
      BY <2>1
    <2> HIDE DEF fresh
    <2>3. worker' \in [Workers -> Worker]
      BY <2>2, <2>f, <2>c
    <2>4. run' \in [Runs -> RunStatus]
      BY <2>1, SetRunTyped DEF RunStatus, Working
    <2>5. QED
      BY <1>1, <2>1, <2>3, <2>4 DEF HandleJob
  <1>2. CASE RunHarness(w)
    BY <1>2, HarnessTyped, WorkerTyped DEF RunHarness, Spawned, HasRun, OwnRun
  <1>3. CASE ReadFresh(w)
    <2>1. worker' \in [Workers -> Worker]
      <3>1. CASE worker' = [worker EXCEPT ![w].pc = "empGet", ![w].status = run[worker[w].run],
                                          ![w].goal = worker[w].run \in goalDone]
        <4> DEFINE next == [worker[w] EXCEPT !.pc = "empGet", !.status = run[worker[w].run],
                                             !.goal = worker[w].run \in goalDone]
        <4>1. worker[w].run \in Runs
          BY <1>3 DEF ReadFresh, Spawned, HasRun, OwnRun
        <4>g. (worker[w].run \in goalDone) \in BOOLEAN /\ run[worker[w].run] \in RunStatus
          BY <4>1
        <4>2. next \in Worker
          BY <4>1, <4>g, FreshTyped, worker[w] \in Worker, Zenon
        <4>3. worker' = [worker EXCEPT ![w] = next]
          BY <3>1
        <4> HIDE DEF next
        <4>4. QED
          BY <4>2, <4>3
      <3>2. CASE WorkerDone(w)
        BY <3>2, WorkerTyped
      <3>3. QED
        BY <1>3, <3>1, <3>2 DEF ReadFresh
    <2>2. QED
      BY <1>3, <2>1, SpentTyped DEF ReadFresh
  <1>4. CASE GetEmployee(w)
    <2>1. worker' \in [Workers -> Worker]
      <3>1. CASE \E pc \in {"clear", "patch"} :
                   worker' = [worker EXCEPT ![w].seen = emp, ![w].pc = pc]
        <4>1. PICK pc \in {"clear", "patch"} :
                worker' = [worker EXCEPT ![w].seen = emp, ![w].pc = pc]
          BY <3>1
        <4> DEFINE next == [worker[w] EXCEPT !.seen = emp, !.pc = pc]
        <4>2. next \in Worker
          BY DEF Worker
        <4>3. worker' = [worker EXCEPT ![w] = next]
          BY <4>1
        <4> HIDE DEF next
        <4>4. QED
          BY <4>2, <4>3
      <3>2. CASE WorkerDone(w)
        BY <3>2, WorkerTyped
      <3>3. QED
        BY <1>4, <3>1, <3>2 DEF GetEmployee
    <2>2. QED
      BY <1>4, <2>1, SpentTyped DEF GetEmployee
  <1>5. CASE ClearCurrentRun(w)
    <2>1. AfterClear(w) \in {"idle", "patch"}
      BY DEF AfterClear
    <2>2. emp' \in Employee
      BY <1>5 DEF ClearCurrentRun, Employee
    <2>3. QED
      BY <1>5, <2>1, <2>2, WorkerTyped, SpentTyped DEF ClearCurrentRun
  <1>6. CASE PatchEmployee(w)
    <2>1. emp' \in Employee
      BY <1>6 DEF PatchEmployee, Employee, Status, Next_shift_at
    <2>2. worker' \in [Workers -> Worker]
      BY <1>6, WorkerTyped DEF PatchEmployee
    <2>3. QED
      BY <1>6, <2>1, <2>2, SpentTyped DEF PatchEmployee
  <1>7. CASE EnqueueShift(w)
    <2>1. WithShiftJob(worker[w].seen.shiftCount + 1) \subseteq ShiftJob
      <3>1. worker[w].seen.shiftCount + 1 \in Nat
        BY DEF Worker, Employee
      <3>2. [number |-> worker[w].seen.shiftCount + 1, status |-> "later", attempts |-> 0] \in ShiftJob
        BY <3>1, AttemptsAssumption DEF ShiftJob
      <3>3. QED
        BY <3>2 DEF WithShiftJob
    <2>2. QED
      BY <1>7, <2>1, WorkerTyped, SpentTyped DEF EnqueueShift
  <1>8. CASE CrashWorker(w)
    BY <1>8, WorkerTyped, SpentTyped DEF CrashWorker, Spawned, HasRun, OwnRun
  <1>9. QED
    BY <1>1, <1>2, <1>3, <1>4, <1>5, <1>6, <1>7, <1>8 DEF WorkerStep

LEMMA OtherTypeStep ==
  ASSUME TypeOK,
         JobDue \/ ShiftDue \/ UserRun \/ \E status \in Status : SetStatus(status)
  PROVE  TypeOK'
  <1> USE DEF TypeOK, RunTypeOK
  <1>1. CASE JobDue
    BY <1>1, JobsTyped DEF JobDue
  <1>2. CASE ShiftDue
    BY <1>2 DEF ShiftDue, Employee, Next_shift_at
  <1>3. CASE UserRun
    <2>1. PICK r \in Runs : /\ CancelRun(r) \/ FinishRun(r) \/ Reply(r)
                            /\ LetGo({}) \/ LetGo({r})
      BY <1>3 DEF UserRun
    <2>2. run' \in [Runs -> RunStatus]
      BY <2>1, SetRunTyped DEF CancelRun, FinishRun, Reply, RunStatus, Ended, Working
    <2>3. spent' \in [acts : 0..MaxActs, errors : 0..MaxErrors, crashes : 0..MaxCrashes]
      BY <2>1, SpentTyped DEF CancelRun, FinishRun, Reply
    <2>4. QED
      BY <1>3, <2>1, <2>2, <2>3 DEF UserRun, CancelRun, FinishRun, Reply, LetGo
  <1>4. ASSUME NEW status \in Status, SetStatus(status)
        PROVE  TypeOK'
    <2>1. emp' \in Employee
      BY <1>4 DEF SetStatus, Employee, Next_shift_at
    <2>2. letGo' \subseteq Runs
      BY <1>4 DEF SetStatus, LetGo, Employee
    <2>3. QED
      BY <1>4, <2>1, <2>2, SpentTyped DEF SetStatus
  <1>5. QED
    BY <1>1, <1>2, <1>3, <1>4

LEMMA TypeInit == Init => TypeOK
  BY RowTypes, BoundAssumption DEF Init, RunInit, TypeOK, RunTypeOK, RunStatus

LEMMA TypeStep == TypeOK /\ Spawned /\ [Next]_vars => TypeOK'
  <1> SUFFICES ASSUME TypeOK, Spawned, [Next]_vars
               PROVE  TypeOK'
    OBVIOUS
  <1>1. CASE UNCHANGED vars
    BY <1>1 DEF vars, TypeOK, RunTypeOK
  <1>2. CASE Next
    BY <1>2, StarterTypeStep, WorkerTypeStep, OtherTypeStep DEF Next
  <1>3. QED
    BY <1>1, <1>2

-----------------------------------------------------------------------------
(* Spawned is inductive *)

\* A run that has been created stays created.
LEMMA RunsStay ==
  ASSUME TypeOK, Spawned, [Next]_vars, NEW r \in Runs, run[r] # "none"
  PROVE  run'[r] # "none"
  <1> USE DEF TypeOK, RunTypeOK
  <1>1. CASE run' = run
    BY <1>1
  <1>2. ASSUME NEW q \in Runs, NEW status \in RunStatus \ {"none"}, SetRun(q, status)
        PROVE  run'[r] # "none"
    BY <1>2 DEF SetRun
  <1>3. ASSUME NEW s \in Starters, Create(s) \/ CancelOrphan(s)
        PROVE  run'[r] # "none"
    BY <1>1, <1>2, <1>3, StatusTyped DEF Create, CancelOrphan, Spawned, HasRun, OwnRun,
       RunStatus, Working, Ended, Unspawned
  <1>4. ASSUME NEW w \in Workers, HandleJob(w) \/ RunHarness(w)
        PROVE  run'[r] # "none"
    BY <1>1, <1>2, <1>4 DEF HandleJob, RunHarness, Harness, Spawned, HasRun, OwnRun, RunStatus, Working, Ended
  <1>5. CASE UserRun
    BY <1>2, <1>5 DEF UserRun, CancelRun, FinishRun, Reply, RunStatus, Working, Ended
  <1>6. CASE JobDue \/ ShiftDue \/ UNCHANGED vars \/ \E status \in Status : SetStatus(status)
    BY <1>6 DEF JobDue, ShiftDue, vars, SetStatus
  <1>7. ASSUME NEW s \in Starters, ListDueActive(s) \/ HandleShiftJob(s) \/ Resume(s) \/ Enqueue(s)
                                   \/ ClaimForShift(s) \/ CrashStarter(s)
        PROVE  run' = run
    BY <1>7 DEF ListDueActive, HandleShiftJob, Resume, Enqueue, ClaimForShift, CrashStarter
  <1>8. ASSUME NEW w \in Workers, \/ ReadFresh(w) \/ GetEmployee(w) \/ ClearCurrentRun(w)
                                  \/ PatchEmployee(w) \/ EnqueueShift(w) \/ CrashWorker(w)
        PROVE  run' = run
    BY <1>8 DEF ReadFresh, GetEmployee, ClearCurrentRun, PatchEmployee, EnqueueShift, CrashWorker
  <1>9. QED
    BY <1>1, <1>3, <1>4, <1>5, <1>6, <1>7, <1>8 DEF Next, StarterStep, WorkerStep

LEMMA StarterSpawnedStep ==
  ASSUME TypeOK, Spawned, [Next]_vars, NEW s \in Starters,
         ListDueActive(s) \/ HandleShiftJob(s) \/ Resume(s) \/ StarterStep(s) \/ CrashStarter(s)
  PROVE  Spawned'
  <1> USE DEF TypeOK, RunTypeOK
  <1>w. worker' = worker
    BY DEF ListDueActive, HandleShiftJob, Resume, StarterStep, CrashStarter, Create, Enqueue, ClaimForShift,
           CancelOrphan
  <1>1. \A w \in Workers : HasRun(w)'
    BY <1>w, RunsStay DEF HasRun, Spawned, OwnRun
  <1>2. ASSUME \A t \in Starters \ {s} : starter'[t] = starter[t],
               \/ starter'[s].pc \in {"idle", "create"}
               \/ starter'[s].pc = "cancel" /\ starter'[s].run = starter[s].run,
               starter'[s].pc = "cancel" => starter[s].pc = "claim",
               \/ UNCHANGED claimed
               \/ claimed' = claimed \cup {starter[s].run} /\ starter[s].pc = "claim",
               UNCHANGED jobs
        PROVE  Spawned'
    <2>1. \A t \in Starters : OwnRun(t)'
      BY <1>2, RunsStay DEF OwnRun, Spawned, HasRun
    <2>2. \A r \in jobs' \cup claimed' : run'[r] # "none"
      BY <1>2, RunsStay DEF Spawned, HasRun, OwnRun
    <2>3. QED
      BY <1>1, <2>1, <2>2 DEF Spawned, OwnRun, HasRun
  <1>3. CASE ListDueActive(s) \/ HandleShiftJob(s) \/ Resume(s)
    <2>1. UNCHANGED <<jobs, claimed>>
      BY <1>3 DEF ListDueActive, HandleShiftJob, Resume
    <2>2. CASE UNCHANGED starter
      <3>1. Spawned'
        BY <1>1, <2>1, <2>2, RunsStay DEF Spawned, OwnRun, HasRun
      <3>2. QED
        BY <3>1
    <2>3. CASE \E by, number, row : Start(s, by, number, row)
      <3>1. starter'[s].pc = "create" /\ \A t \in Starters \ {s} : starter'[t] = starter[t]
        BY <2>3 DEF Start, IdleStarter
      <3>2. QED
        BY <1>2, <2>1, <3>1, Zenon
    <2>4. QED
      BY <1>3, <2>2, <2>3 DEF ListDueActive, HandleShiftJob, Resume
  <1>4. CASE Create(s)
    <2>1. UNCHANGED <<jobs, claimed>>
      BY <1>4 DEF Create
    <2>2. CASE Return(s, FALSE)
      <3>1. starter'[s].pc = "idle" /\ \A t \in Starters \ {s} : starter'[t] = starter[t]
        BY <2>2 DEF Return, IdleStarter
      <3>2. QED
        BY <1>2, <2>1, <3>1, Zenon
    <2>3. CASE \E r \in Unspawned :
                 SetRun(r, "queued") /\ starter' = [starter EXCEPT ![s].pc = "enqueue", ![s].run = r]
      <3>1. PICK r \in Unspawned :
              SetRun(r, "queued") /\ starter' = [starter EXCEPT ![s].pc = "enqueue", ![s].run = r]
        BY <2>3
      <3>2. /\ r \in Runs /\ run[r] = "none" /\ run'[r] = "queued"
            /\ starter'[s].pc = "enqueue" /\ starter'[s].run = r
            /\ \A t \in Starters \ {s} : starter'[t] = starter[t]
        BY <3>1 DEF Unspawned, SetRun, Starter
      <3>3. /\ r \notin claimed
            /\ \A t \in Starters : starter[t].pc \in {"enqueue", "claim", "cancel"} => starter[t].run # r
        BY <3>2 DEF Spawned, HasRun, OwnRun
      <3>4. \A t \in Starters : OwnRun(t)'
        BY <2>1, <3>2, <3>3, RunsStay DEF OwnRun, Spawned, HasRun
      <3>5. \A q \in jobs' \cup claimed' : run'[q] # "none"
        BY <2>1, RunsStay DEF Spawned, HasRun, OwnRun
      <3>6. QED
        BY <1>1, <3>4, <3>5 DEF Spawned, OwnRun, HasRun
    <2>4. QED
      BY <1>4, <2>2, <2>3 DEF Create
  <1>5. CASE Enqueue(s)
    <2>1. /\ starter[s].pc = "enqueue" /\ starter'[s].pc = "claim" /\ starter'[s].run = starter[s].run
          /\ \A t \in Starters \ {s} : starter'[t] = starter[t]
          /\ claimed' = claimed /\ jobs' \subseteq jobs \cup {starter[s].run}
      BY <1>5 DEF Enqueue, StarterAt, Starter
    <2>2. \A t \in Starters : OwnRun(t)'
      BY <2>1, RunsStay DEF OwnRun, Spawned, HasRun
    <2>3. \A q \in jobs' \cup claimed' : run'[q] # "none"
      BY <2>1, RunsStay DEF Spawned, HasRun, OwnRun
    <2>4. QED
      BY <1>1, <2>2, <2>3 DEF Spawned, OwnRun, HasRun
  <1>6. CASE ClaimForShift(s)
    <2>1. /\ starter[s].pc = "claim" /\ UNCHANGED jobs
          /\ claimed' = claimed \/ claimed' = claimed \cup {starter[s].run}
          /\ StarterAt(s, "cancel") \/ Return(s, TRUE)
      BY <1>6 DEF ClaimForShift, Hold
    <2>2. /\ \/ starter'[s].pc = "idle"
             \/ starter'[s].pc = "cancel" /\ starter'[s].run = starter[s].run
          /\ \A t \in Starters \ {s} : starter'[t] = starter[t]
      BY <2>1 DEF StarterAt, Return, IdleStarter, Starter
    <2>3. QED
      BY <1>2, <2>1, <2>2, Zenon
  <1>7. CASE CancelOrphan(s) \/ CrashStarter(s)
    <2>1. UNCHANGED <<jobs, claimed>> /\ starter' = [starter EXCEPT ![s] = IdleStarter]
      BY <1>7 DEF CancelOrphan, CrashStarter, Return
    <2>2. starter'[s].pc = "idle" /\ \A t \in Starters \ {s} : starter'[t] = starter[t]
      BY <2>1 DEF IdleStarter
    <2>3. QED
      BY <1>2, <2>1, <2>2, Zenon
  <1>8. QED
    BY <1>3, <1>4, <1>5, <1>6, <1>7 DEF StarterStep

LEMMA WorkerSpawnedStep ==
  ASSUME TypeOK, Spawned, [Next]_vars, NEW w \in Workers,
         HandleJob(w) \/ WorkerStep(w) \/ CrashWorker(w)
  PROVE  Spawned'
  <1> USE DEF TypeOK, RunTypeOK
  <1>1. UNCHANGED <<starter, claimed>>
    BY DEF HandleJob, WorkerStep, CrashWorker, RunHarness, ReadFresh, GetEmployee, ClearCurrentRun,
           PatchEmployee, EnqueueShift
  <1>2. \A s \in Starters : OwnRun(s)'
    BY <1>1, RunsStay DEF OwnRun, Spawned, HasRun
  <1>3. /\ \A r \in jobs' : run[r] # "none"
        /\ \A v \in Workers \ {w} : worker'[v] = worker[v]
        /\ \/ worker'[w].pc = "idle"
           \/ worker'[w].run = worker[w].run /\ worker[w].pc # "idle"
           \/ worker'[w].run \in jobs
    <2>1. CASE HandleJob(w)
      <3>1. \A r \in jobs : run[r] # "none"
        BY DEF Spawned
      <3>0. PICK r \in jobs :
              \/ worker' = [worker EXCEPT ![w] = [IdleWorker EXCEPT
                   !.pc = "empGet", !.run = r, !.status = run[r], !.goal = r \in goalDone]]
              \/ worker' = [worker EXCEPT ![w] = [IdleWorker EXCEPT !.pc = "work", !.run = r]]
        BY <2>1, Zenon DEF HandleJob
      <3>2. worker'[w].run = r
        BY <3>0 DEF IdleWorker
      <3>3. jobs' \subseteq jobs /\ \A v \in Workers \ {w} : worker'[v] = worker[v]
        BY <2>1 DEF HandleJob
      <3>4. QED
        BY <3>1, <3>2, <3>3
    <2>2. CASE CrashWorker(w)
      BY <2>2 DEF CrashWorker, Spawned, HasRun, OwnRun, WorkerDone, IdleWorker
    <2>3. CASE WorkerStep(w)
      <3>1. jobs' = jobs /\ worker[w].pc # "idle"
        BY <2>3 DEF WorkerStep, RunHarness, ReadFresh, GetEmployee, ClearCurrentRun, PatchEmployee, EnqueueShift
      <3>2. CASE ReadFresh(w) \/ GetEmployee(w)
        BY <3>1, <3>2 DEF ReadFresh, GetEmployee, WorkerDone, IdleWorker, Spawned, HasRun, OwnRun, Worker
      <3>3. CASE \E pc : WorkerAt(w, pc)
        BY <3>1, <3>3 DEF WorkerAt, WorkerDone, IdleWorker,
             Spawned, HasRun, OwnRun, Worker
      <3>4. CASE PatchEmployee(w) \/ EnqueueShift(w)
        BY <3>1, <3>4 DEF PatchEmployee, EnqueueShift, WorkerAt, WorkerDone, IdleWorker,
             Spawned, HasRun, OwnRun, Worker
      <3>5. QED
        BY <2>3, <3>2, <3>3, <3>4 DEF WorkerStep, RunHarness, ClearCurrentRun
    <2>4. QED
      BY <2>1, <2>2, <2>3
  <1>4. \A v \in Workers : HasRun(v)'
    <2>1. \A v \in Workers \ {w} : HasRun(v)'
      BY <1>3, RunsStay DEF HasRun, Spawned, OwnRun
    <2>2. HasRun(w)'
      <3>1. \A r \in jobs : r \in Runs /\ run[r] # "none"
        BY DEF Spawned, HasRun, OwnRun
      <3>2. QED
        BY <1>3, <3>1, RunsStay DEF HasRun, Spawned, OwnRun
    <2>3. QED
      BY <2>1, <2>2
  <1>5. \A r \in jobs' \cup claimed' : run'[r] # "none"
    <2>1. TypeOK'
      BY WorkerTypeStep
    <2>2. \A r \in jobs' \cup claimed' : r \in Runs /\ run[r] # "none"
      BY <1>1, <1>3, <2>1 DEF Spawned, HasRun, OwnRun
    <2>3. QED
      BY <2>2, RunsStay
  <1>6. QED
    BY <1>2, <1>4, <1>5 DEF Spawned, OwnRun, HasRun

LEMMA SpawnedStep == TypeOK /\ Spawned /\ [Next]_vars => Spawned'
  <1> SUFFICES ASSUME TypeOK, Spawned, [Next]_vars
               PROVE  Spawned'
    OBVIOUS
  <1> USE DEF TypeOK, RunTypeOK
  <1>1. CASE JobDue \/ ShiftDue \/ UserRun \/ UNCHANGED vars \/ \E status \in Status : SetStatus(status)
    <2>1. UNCHANGED <<starter, worker, claimed>>
      BY <1>1 DEF JobDue, ShiftDue, UserRun, vars, SetStatus
    <2>2. \A r \in jobs' : r \in Runs /\ run'[r] # "none"
      <3>1. CASE jobs' = jobs
        BY <3>1, RunsStay DEF Spawned, HasRun, OwnRun
      <3>2. CASE \E r \in Runs : Reply(r)
        <4>1. PICK r \in Runs : Reply(r)
          BY <3>2
        <4>2. jobs' = jobs \cup {r} /\ run'[r] = "queued"
          BY <4>1 DEF Reply, SetRun
        <4>3. QED
          BY <4>2, RunsStay DEF Spawned, HasRun, OwnRun
      <3>3. QED
        BY <1>1, <3>1, <3>2 DEF JobDue, ShiftDue, UserRun, vars, SetStatus, CancelRun, FinishRun
    <2>3. \A s \in Starters : OwnRun(s)'
      BY <2>1, RunsStay DEF OwnRun, Spawned, HasRun
    <2>4. \A w \in Workers : HasRun(w)'
      BY <2>1, RunsStay DEF HasRun, Spawned, OwnRun
    <2>5. \A r \in claimed' : run'[r] # "none"
      BY <2>1, RunsStay DEF Spawned, HasRun, OwnRun
    <2>6. QED
      BY <2>2, <2>3, <2>4, <2>5 DEF Spawned, OwnRun, HasRun
  <1>2. QED
    BY <1>1, StarterSpawnedStep, WorkerSpawnedStep DEF Next

LEMMA Inductive == Spec => [](TypeOK /\ Spawned)
  <1>1. Init => TypeOK /\ Spawned
    BY TypeInit DEF Init, RunInit, Spawned, HasRun, OwnRun, IdleStarter, IdleWorker
  <1>2. TypeOK /\ Spawned /\ [Next]_vars => (TypeOK /\ Spawned)'
    BY TypeStep, SpawnedStep
  <1>3. QED
    BY <1>1, <1>2, PTL DEF Spec

\* The row, the runs, the jobs and every goroutine stay within the code's
\* statuses and bounds, whatever users do, fails or crashes.
THEOREM TypeCorrect == Spec => []TypeOK
  BY Inductive, PTL

-----------------------------------------------------------------------------
(* The row implements RowTenure *)

LEMMA TenureStep ==
  ASSUME TypeOK, Spawned, [Next]_vars
  PROVE  [Tenure!Next]_<<emp.current, claimed>>
  <1> USE DEF TypeOK, RunTypeOK
  <1>1. CASE UNCHANGED claimed /\ emp'.current \in {emp.current, NoRun}
    BY <1>1 DEF Tenure!Next, Tenure!Leave
  <1>2. ASSUME NEW s \in Starters, starter[s].pc = "claim", Startable(emp),
               emp' = Claimed(s), Hold(starter[s].run)
        PROVE  Tenure!Next
    <2>1. starter[s].run \in Runs /\ starter[s].run \notin claimed
      BY <1>2 DEF Spawned, HasRun, OwnRun
    <2>2. emp'.current = starter[s].run /\ claimed' = claimed \cup {starter[s].run} /\ emp.current = NoRun
      BY <1>2 DEF Claimed, Hold, Startable, Employee
    <2>3. Tenure!Take(starter[s].run)
      BY <2>1, <2>2 DEF Tenure!Take
    <2>4. QED
      BY <2>1, <2>3 DEF Tenure!Next
  <1>3. CASE UNCHANGED <<emp, claimed>>
    BY <1>1, <1>3
  <1>4. ASSUME NEW s \in Starters,
               ListDueActive(s) \/ HandleShiftJob(s) \/ Resume(s) \/ StarterStep(s) \/ CrashStarter(s)
        PROVE  [Tenure!Next]_<<emp.current, claimed>>
    <2>1. CASE Resume(s)
      BY <1>1, <2>1 DEF Resume, Employee
    <2>2. CASE ClaimForShift(s)
      BY <1>2, <1>3, <2>2 DEF ClaimForShift
    <2>3. QED
      BY <1>3, <1>4, <2>1, <2>2 DEF ListDueActive, HandleShiftJob, StarterStep, CrashStarter, Create,
         Enqueue, CancelOrphan
  <1>5. ASSUME NEW w \in Workers, HandleJob(w) \/ WorkerStep(w) \/ CrashWorker(w)
        PROVE  [Tenure!Next]_<<emp.current, claimed>>
    <2>1. CASE ClearCurrentRun(w)
      BY <1>1, <2>1 DEF ClearCurrentRun, Employee
    <2>2. CASE PatchEmployee(w)
      BY <1>1, <2>2 DEF PatchEmployee, Employee
    <2>3. QED
      BY <1>3, <1>5, <2>1, <2>2 DEF HandleJob, WorkerStep, CrashWorker, RunHarness, ReadFresh, GetEmployee,
         EnqueueShift
  <1>6. CASE ShiftDue \/ \E status \in Status : SetStatus(status)
    BY <1>1, <1>6 DEF ShiftDue, SetStatus, Employee
  <1>7. CASE JobDue \/ UserRun \/ UNCHANGED vars
    BY <1>3, <1>7 DEF JobDue, UserRun, vars
  <1>8. QED
    BY <1>4, <1>5, <1>6, <1>7 DEF Next

\* However many callers start, clear, complete and pause an employee at once, the
\* row goes to one run at a time and to none of them twice (ClaimForShift).
THEOREM ImplementsTenure == Spec => ShiftTenure
  <1>1. Init => Tenure!Init
    BY DEF Init, Hired, Tenure!Init
  <1>2. QED
    BY <1>1, Inductive, TenureStep, PTL DEF Spec, ShiftTenure, Tenure!Spec

-----------------------------------------------------------------------------
(* One shift at a time, for employees without the complete_goal tool: with    *)
(* it the run of a lost race that is worked on all the same may complete the  *)
(* goal and take the row from the shift that holds it.                        *)

Reporting(w) == worker[w].pc \in {"empGet", "clear", "patch", "enqueue"}

\* The row points at the shift that is under way, and nobody is about to clear
\* it: a run that AfterAgentRun is called for works again only on a reply.
Standing ==
  /\ \A r \in Held : run[r] \in Working => emp.current = r
  /\ \A w \in Workers : Reporting(w) /\ run[worker[w].run] \in Working => worker[w].run \in letGo
  /\ goalDone = {} /\ \A w \in Workers : ~worker[w].goal

LEMMA StandingInit == Init => Standing
  BY DEF Init, RunInit, Standing, Held, Reporting, IdleWorker

\* A step that neither takes the row from a run nor sets one to work.
LEMMA StandingKept ==
  ASSUME TypeOK, Spawned, Standing,
         UNCHANGED <<claimed, goalDone>>, letGo \subseteq letGo', letGo' \subseteq Runs,
         emp'.current = emp.current,
         \A r \in Runs : run'[r] \in Working => run[r] \in Working \/ r \in letGo' \/ run[r] = "none",
         \A w \in Workers : \/ worker'[w] = worker[w]
                            \/ ~Reporting(w)' /\ ~worker'[w].goal
                            \/ /\ worker'[w].run = worker[w].run /\ ~worker'[w].goal
                               /\ Reporting(w) \/ run'[worker[w].run] \notin Working
                            \/ run'[worker'[w].run] \notin Working /\ ~worker'[w].goal
  PROVE  Standing'
  <1> USE DEF TypeOK, RunTypeOK
  <1>1. \A r \in Held' : run'[r] \in Working => emp'.current = r
    <2> SUFFICES ASSUME NEW r \in claimed, r \notin letGo', run'[r] \in Working
                 PROVE  emp.current = r
      BY DEF Held
    <2>1. r \in Held /\ run[r] # "none" /\ r \in Runs
      BY DEF Held, Spawned, HasRun, OwnRun
    <2>2. QED
      BY <2>1 DEF Standing
  <1>2. ASSUME NEW w \in Workers, Reporting(w)', run'[worker'[w].run] \in Working
        PROVE  worker'[w].run \in letGo'
    <2>1. worker'[w].run = worker[w].run /\ Reporting(w)
      BY <1>2 DEF Reporting
    <2>2. worker[w].run \in Runs /\ run[worker[w].run] # "none"
      BY <2>1 DEF Spawned, HasRun, OwnRun, Reporting
    <2>3. QED
      BY <1>2, <2>1, <2>2 DEF Standing
  <1>3. goalDone' = {} /\ \A w \in Workers : ~worker'[w].goal
    BY DEF Standing
  <1>4. QED
    BY <1>1, <1>2, <1>3 DEF Standing

LEMMA StarterStandingStep ==
  ASSUME TypeOK, TypeOK', Spawned, Standing, NEW s \in Starters,
         ListDueActive(s) \/ HandleShiftJob(s) \/ Resume(s) \/ StarterStep(s) \/ CrashStarter(s)
  PROVE  Standing'
  <1> USE DEF TypeOK, RunTypeOK
  <1>1. UNCHANGED <<worker, goalDone>>
    BY DEF ListDueActive, HandleShiftJob, Resume, StarterStep, CrashStarter, Create, Enqueue, ClaimForShift,
           CancelOrphan
  <1>2. CASE UNCHANGED <<run, claimed, letGo>> /\ emp'.current = emp.current
    BY <1>1, <1>2, StandingKept
  <1>3. CASE Create(s) \/ CancelOrphan(s)
    <2>1. UNCHANGED <<claimed, letGo, emp>>
      BY <1>3 DEF Create, CancelOrphan
    <2>2. \A r \in Runs : run'[r] \in Working => run[r] \in Working \/ run[r] = "none"
      BY <1>3 DEF Create, CancelOrphan, SetRun, Unspawned, Working
    <2>3. QED
      BY <1>1, <2>1, <2>2, StandingKept
  <1>4. ASSUME starter[s].pc = "claim", Startable(emp), emp' = Claimed(s), Hold(starter[s].run), run' = run
        PROVE  Standing'
    <2>1. /\ emp.current = NoRun /\ emp'.current = starter[s].run
          /\ claimed' = claimed \cup {starter[s].run} /\ letGo \subseteq letGo'
      BY <1>4 DEF Startable, Claimed, Hold, LetGo, Employee
    <2>2. \A r \in Held : run[r] \notin Working
      BY <2>1, NoRunAssumption DEF Standing, Held
    <2>3. \A r \in Held' : run'[r] \in Working => emp'.current = r
      BY <1>4, <2>1, <2>2 DEF Held
    <2>4. QED
      BY <1>1, <1>4, <2>1, <2>3 DEF Standing, Reporting
  <1>5. CASE ClaimForShift(s)
    BY <1>2, <1>4, <1>5 DEF ClaimForShift
  <1>6. CASE Resume(s)
    BY <1>2, <1>6 DEF Resume, Employee
  <1>7. QED
    BY <1>2, <1>3, <1>5, <1>6 DEF ListDueActive, HandleShiftJob, StarterStep, CrashStarter, Enqueue

LEMMA WorkerStandingStep ==
  ASSUME GoalTool = FALSE, TypeOK, TypeOK', Spawned, Standing, NEW w \in Workers,
         HandleJob(w) \/ WorkerStep(w) \/ CrashWorker(w)
  PROVE  Standing'
  <1> USE DEF TypeOK, RunTypeOK
  <1>1. UNCHANGED <<claimed, letGo>>
    BY DEF HandleJob, WorkerStep, CrashWorker, RunHarness, ReadFresh, GetEmployee, ClearCurrentRun,
           PatchEmployee, EnqueueShift
  <1>2. \A v \in Workers \ {w} : worker'[v] = worker[v]
    BY DEF HandleJob, WorkerStep, CrashWorker, RunHarness, ReadFresh, GetEmployee, ClearCurrentRun,
           PatchEmployee, EnqueueShift, WorkerAt, WorkerDone
  <1>3. CASE HandleJob(w)
    <2>1. UNCHANGED <<emp, goalDone>>
      BY <1>3 DEF HandleJob
    <2>2. PICK r \in jobs :
            \/ /\ run[r] \notin Working /\ run' = run
               /\ worker' = [worker EXCEPT ![w] = [IdleWorker EXCEPT
                    !.pc = "empGet", !.run = r, !.status = run[r], !.goal = r \in goalDone]]
            \/ /\ run[r] \in Working /\ SetRun(r, "running")
               /\ worker' = [worker EXCEPT ![w] = [IdleWorker EXCEPT !.pc = "work", !.run = r]]
      BY <1>3, Zenon DEF HandleJob
    <2>3. \A q \in Runs : run'[q] \in Working => run[q] \in Working
      BY <2>2 DEF SetRun
    <2>4. (r \in goalDone) = FALSE
      BY DEF Standing
    <2>a. \/ /\ run[r] \notin Working /\ run' = run
             /\ worker'[w] = [IdleWorker EXCEPT !.pc = "empGet", !.run = r, !.status = run[r], !.goal = FALSE]
          \/ worker'[w] = [IdleWorker EXCEPT !.pc = "work", !.run = r]
      BY <2>2, <2>4, Zenon
    <2>5. \/ ~Reporting(w)' /\ ~worker'[w].goal
          \/ run'[worker'[w].run] \notin Working /\ ~worker'[w].goal
      BY <2>a DEF Reporting, IdleWorker
    <2>6. QED
      BY <1>1, <1>2, <2>1, <2>3, <2>5, StandingKept
  <1>4. CASE RunHarness(w)
    <2>1. emp' = emp /\ worker'[w].pc = "fresh" /\ worker'[w].goal = worker[w].goal
      BY <1>4 DEF RunHarness, WorkerAt, Worker
    <2>2. goalDone' = goalDone /\ \A q \in Runs : run'[q] \in Working => run[q] \in Working
      BY <1>4 DEF RunHarness, Harness, SetRun, Standing, Working
    <2>3. ~Reporting(w)' /\ ~worker'[w].goal
      BY <2>1 DEF Reporting, Standing
    <2>4. QED
      BY <1>1, <1>2, <2>1, <2>2, <2>3, StandingKept
  <1>5. ASSUME UNCHANGED <<run, goalDone>>,
               \/ worker'[w] = IdleWorker
               \/ Reporting(w) /\ worker'[w].run = worker[w].run /\ worker'[w].goal = worker[w].goal
               \/ run[worker'[w].run] \notin Working /\ worker'[w].goal = FALSE,
               emp'.current = emp.current
        PROVE  Standing'
    <2>1. \/ ~Reporting(w)' /\ ~worker'[w].goal
          \/ worker'[w].run = worker[w].run /\ ~worker'[w].goal /\ Reporting(w)
          \/ run'[worker'[w].run] \notin Working /\ ~worker'[w].goal
      BY <1>5 DEF Reporting, IdleWorker, Standing
    <2>2. QED
      BY <1>1, <1>2, <1>5, <2>1, StandingKept
  <1>6. CASE ReadFresh(w)
    <2>1. CASE run[worker[w].run] \notin Working /\ worker' = [worker EXCEPT ![w].pc = "empGet",
                 ![w].status = run[worker[w].run], ![w].goal = worker[w].run \in goalDone]
      <3>1. (worker[w].run \in goalDone) = FALSE
        BY DEF Standing
      <3>2. worker'[w].run = worker[w].run /\ worker'[w].goal = FALSE
        BY <2>1, <3>1 DEF Worker
      <3>3. QED
        BY <1>5, <1>6, <2>1, <3>2 DEF ReadFresh
    <2>2. CASE WorkerDone(w)
      BY <1>5, <1>6, <2>2 DEF ReadFresh, WorkerDone
    <2>3. QED
      BY <1>6, <2>1, <2>2 DEF ReadFresh
  <1>7. CASE GetEmployee(w)
    <2>1. UNCHANGED <<run, goalDone, emp>> /\ Reporting(w)
      BY <1>7 DEF GetEmployee, Reporting
    <2>2. \/ worker'[w] = IdleWorker
          \/ worker'[w].run = worker[w].run /\ worker'[w].goal = worker[w].goal
      BY <1>7 DEF GetEmployee, WorkerDone, Worker
    <2>3. QED
      BY <1>5, <2>1, <2>2
  <1>8. CASE PatchEmployee(w)
    <2>1. UNCHANGED <<run, goalDone>> /\ emp'.current = emp.current
      BY <1>8 DEF PatchEmployee, Standing, Employee
    <2>2. \/ worker'[w] = IdleWorker
          \/ Reporting(w) /\ worker'[w].run = worker[w].run /\ worker'[w].goal = worker[w].goal
      BY <1>8 DEF PatchEmployee, WorkerDone, WorkerAt, Reporting, Worker
    <2>3. QED
      BY <1>5, <2>1, <2>2
  <1>9. CASE EnqueueShift(w) \/ CrashWorker(w)
    BY <1>5, <1>9 DEF EnqueueShift, CrashWorker, WorkerDone
  <1>10. CASE ClearCurrentRun(w)
    <2>1. /\ UNCHANGED <<run, goalDone>> /\ Reporting(w)
          /\ emp'.current = emp.current \/ emp.current = worker[w].run
      BY <1>10 DEF ClearCurrentRun, Employee, Reporting
    <2>2. \/ worker'[w] = IdleWorker
          \/ worker'[w].run = worker[w].run /\ worker'[w].goal = worker[w].goal
      BY <1>10 DEF ClearCurrentRun, WorkerAt, WorkerDone, Worker
    <2>3. CASE emp'.current = emp.current
      BY <1>5, <2>1, <2>2, <2>3
    <2>4. CASE emp.current = worker[w].run
      <3>1. \A r \in Held' : run'[r] \in Working => emp'.current = r
        BY <1>1, <2>1, <2>4 DEF Standing, Held
      <3>2. \A v \in Workers : Reporting(v)' /\ run'[worker'[v].run] \in Working => worker'[v].run \in letGo'
        BY <1>1, <1>2, <2>1, <2>2 DEF Standing, Reporting, IdleWorker
      <3>3. goalDone' = {} /\ \A v \in Workers : ~worker'[v].goal
        BY <1>2, <2>1, <2>2 DEF Standing, IdleWorker
      <3>4. QED
        BY <3>1, <3>2, <3>3 DEF Standing
    <2>5. QED
      BY <2>1, <2>3, <2>4
  <1>11. QED
    BY <1>3, <1>4, <1>6, <1>7, <1>8, <1>9, <1>10 DEF WorkerStep

LEMMA StandingStep ==
  ASSUME GoalTool = FALSE, TypeOK, TypeOK', Spawned, Standing, [Next]_vars
  PROVE  Standing'
  <1> USE DEF TypeOK, RunTypeOK
  <1>1. CASE JobDue \/ ShiftDue \/ UNCHANGED vars
    <2>1. UNCHANGED <<run, goalDone, worker, claimed, letGo>> /\ emp'.current = emp.current
      BY <1>1 DEF JobDue, ShiftDue, vars, Employee
    <2>2. QED
      BY <2>1, StandingKept
  <1>2. CASE UserRun
    <2>1. UNCHANGED <<emp, goalDone, worker, claimed>> /\ letGo \subseteq letGo'
      BY <1>2 DEF UserRun, CancelRun, FinishRun, Reply, LetGo
    <2>2. \A r \in Runs : run'[r] \in Working => run[r] \in Working \/ r \in letGo'
      BY <1>2, NoRunAssumption DEF UserRun, CancelRun, FinishRun, Reply, LetGo, SetRun, Working
    <2>3. QED
      BY <2>1, <2>2, StandingKept
  <1>3. ASSUME NEW status \in Status, SetStatus(status)
        PROVE  Standing'
    <2>1. UNCHANGED <<run, goalDone, worker, claimed>> /\ letGo \subseteq letGo'
      BY <1>3 DEF SetStatus, LetGo
    <2>2. \A r \in Held' : run'[r] \in Working => emp'.current = r
      BY <1>3, <2>1, NoRunAssumption DEF Standing, Held, SetStatus, LetGo, Employee
    <2>3. QED
      BY <2>1, <2>2 DEF Standing, Reporting
  <1>4. QED
    BY <1>1, <1>2, <1>3, StarterStandingStep, WorkerStandingStep DEF Next

\* Whatever races, fails, crashes or is cancelled, an employee without the
\* complete_goal tool has at most one shift under way (ClaimForShift).
THEOREM OneShift == ASSUME GoalTool = FALSE PROVE Spec => []OneShiftAtATime
  <1>1. TypeOK /\ Standing => OneShiftAtATime
    <2> SUFFICES ASSUME TypeOK, Standing PROVE OneShiftAtATime
      OBVIOUS
    <2>1. {r \in Held : run[r] \in Working} \subseteq {emp.current}
      BY DEF Standing
    <2>2. /\ IsFiniteSet({emp.current}) /\ Cardinality({emp.current}) = 1
      BY FS_Singleton
    <2>3. Cardinality({r \in Held : run[r] \in Working}) <= 1
      BY <2>1, <2>2, FS_Subset
    <2>4. QED
      BY <2>3 DEF OneShiftAtATime
  <1>2. TypeOK /\ TypeOK' /\ Spawned /\ Standing /\ [Next]_vars => Standing'
    BY StandingStep
  <1>3. QED
    BY <1>1, <1>2, StandingInit, Inductive, PTL DEF Spec

-----------------------------------------------------------------------------
(* No shift is left over.  First what one step may do to a run, a worker and  *)
(* a caller of StartShift.                                                    *)

\* Errors and crashes are only ever counted up.
LEMMA FaultsCount ==
  ASSUME TypeOK, [Next]_vars
  PROVE  spent.errors <= spent'.errors /\ spent.crashes <= spent'.crashes
  <1> USE DEF TypeOK, RunTypeOK
  <1>1. CASE UNCHANGED spent
    BY <1>1
  <1>2. CASE (\E name : Act(name)) \/ Error \/ CrashOne
    BY <1>2 DEF Act, Error, CrashOne
  <1>3. UNCHANGED spent \/ (\E name : Act(name)) \/ Error \/ CrashOne
    <2>1. ASSUME NEW s \in Starters,
                 ListDueActive(s) \/ HandleShiftJob(s) \/ Resume(s) \/ StarterStep(s) \/ CrashStarter(s)
          PROVE  UNCHANGED spent \/ (\E name : Act(name)) \/ Error \/ CrashOne
      BY <2>1 DEF ListDueActive, HandleShiftJob, Resume, StarterStep, CrashStarter, Create, Enqueue,
         ClaimForShift, CancelOrphan
    <2>2. ASSUME NEW w \in Workers, HandleJob(w) \/ WorkerStep(w) \/ CrashWorker(w)
          PROVE  UNCHANGED spent \/ Error \/ CrashOne
      BY <2>2 DEF HandleJob, WorkerStep, CrashWorker, RunHarness, ReadFresh, GetEmployee, ClearCurrentRun,
         PatchEmployee, EnqueueShift
    <2>3. CASE JobDue \/ ShiftDue \/ UserRun \/ UNCHANGED vars \/ \E status \in Status : SetStatus(status)
      BY <2>3 DEF JobDue, ShiftDue, UserRun, CancelRun, FinishRun, Reply, SetStatus, vars
    <2>4. QED
      BY <2>1, <2>2, <2>3 DEF Next
  <1>4. QED
    BY <1>1, <1>2, <1>3

LEMMA LetGoGrows ==
  ASSUME TypeOK, [Next]_vars
  PROVE  letGo \subseteq letGo'
  <1>1. ASSUME NEW s \in Starters,
               ListDueActive(s) \/ HandleShiftJob(s) \/ Resume(s) \/ StarterStep(s) \/ CrashStarter(s)
        PROVE  letGo \subseteq letGo'
    BY <1>1 DEF ListDueActive, HandleShiftJob, Resume, StarterStep, CrashStarter, Create, Enqueue,
       ClaimForShift, CancelOrphan, Hold, LetGo
  <1>2. ASSUME NEW w \in Workers, HandleJob(w) \/ WorkerStep(w) \/ CrashWorker(w)
        PROVE  letGo \subseteq letGo'
    BY <1>2 DEF HandleJob, WorkerStep, CrashWorker, RunHarness, ReadFresh, GetEmployee, ClearCurrentRun,
       PatchEmployee, EnqueueShift
  <1>3. CASE JobDue \/ ShiftDue \/ UserRun \/ UNCHANGED vars \/ \E status \in Status : SetStatus(status)
    BY <1>3 DEF JobDue, ShiftDue, UserRun, CancelRun, FinishRun, Reply, SetStatus, LetGo, vars
  <1>4. QED
    BY <1>1, <1>2, <1>3 DEF Next

LEMMA SetRunAt ==
  ASSUME RunTypeOK, NEW r \in Runs, NEW q, NEW status, SetRun(q, status)
  PROVE  run'[r] = IF r = q THEN status ELSE run[r]
  BY DEF RunTypeOK, SetRun

\* A run that is let go apart, a run opens only by being spawned, and is set to
\* work again only while it works.
LEMMA RunMoves ==
  ASSUME TypeOK, Spawned, [Next]_vars, NEW r \in Runs, r \notin letGo'
  PROVE  \/ run'[r] = run[r]
         \/ run[r] = "none" /\ \E s \in Starters : starter'[s].run = r
         \/ run[r] \in Working /\ run'[r] = "running"
         \/ ~Open(r)'
         \/ run[r] = "running" /\ run'[r] = "waiting_for_user"
  <1> USE DEF TypeOK, RunTypeOK
  <1>1. CASE run' = run
    BY <1>1
  <1>2. ASSUME NEW s \in Starters, Create(s)
        PROVE  \/ run'[r] = run[r]
               \/ run[r] = "none" /\ \E t \in Starters : starter'[t].run = r
    <2>1. CASE run' = run
      BY <2>1
    <2>2. CASE \E q \in Unspawned :
                 SetRun(q, "queued") /\ starter' = [starter EXCEPT ![s].pc = "enqueue", ![s].run = q]
      <3>1. PICK q \in Unspawned :
              SetRun(q, "queued") /\ starter' = [starter EXCEPT ![s].pc = "enqueue", ![s].run = q]
        BY <2>2
      <3>2. run[q] = "none" /\ starter'[s].run = q
        BY <3>1 DEF Unspawned, Starter
      <3>3. CASE q = r
        BY <3>2, <3>3
      <3>4. CASE q # r
        BY <3>1, <3>4 DEF SetRun
      <3>5. QED
        BY <3>3, <3>4
    <2>3. QED
      BY <1>2, <2>1, <2>2 DEF Create
  <1>3. ASSUME NEW s \in Starters, CancelOrphan(s)
        PROVE  run'[r] = run[r] \/ ~Open(r)'
    BY <1>3 DEF CancelOrphan, SetRun, Open, Working
  <1>4. ASSUME NEW w \in Workers, HandleJob(w)
        PROVE  run'[r] = run[r] \/ (run[r] \in Working /\ run'[r] = "running")
    <2>1. PICK q \in jobs :
            \/ /\ run[q] \notin Working
               /\ worker' = [worker EXCEPT ![w] = [IdleWorker EXCEPT
                    !.pc = "empGet", !.run = q, !.status = run[q], !.goal = q \in goalDone]]
               /\ UNCHANGED run
            \/ /\ run[q] \in Working
               /\ worker' = [worker EXCEPT ![w] = [IdleWorker EXCEPT !.pc = "work", !.run = q]]
               /\ SetRun(q, "running")
      BY <1>4, Zenon DEF HandleJob
    <2>2. run' = run \/ (run[q] \in Working /\ SetRun(q, "running"))
      BY <2>1, Zenon
    <2>3. QED
      BY <2>2 DEF SetRun
  <1>5. ASSUME NEW w \in Workers, RunHarness(w)
        PROVE  run'[r] = run[r] \/ ~Open(r)' \/ (run[r] = "running" /\ run'[r] = "waiting_for_user")
    <2>1. \/ run' = run
          \/ /\ run[worker[w].run] = "running"
             /\ \E status \in {"succeeded", "waiting_for_user", "failed"} : SetRun(worker[w].run, status)
      BY <1>5 DEF RunHarness, Harness
    <2>2. CASE \E status \in {"succeeded", "waiting_for_user", "failed"} : SetRun(worker[w].run, status)
      BY <2>1, <2>2, SetRunAt DEF SetRun, Open, Working
    <2>3. QED
      BY <2>1, <2>2
  <1>6. CASE UserRun
    BY <1>6, NoRunAssumption DEF UserRun, CancelRun, FinishRun, Reply, SetRun, LetGo, Open, Working
  <1>7. CASE JobDue \/ ShiftDue \/ UNCHANGED vars \/ \E status \in Status : SetStatus(status)
    BY <1>1, <1>7 DEF JobDue, ShiftDue, vars, SetStatus
  <1>8. ASSUME NEW s \in Starters, ListDueActive(s) \/ HandleShiftJob(s) \/ Resume(s) \/ Enqueue(s)
                                   \/ ClaimForShift(s) \/ CrashStarter(s)
        PROVE  run' = run
    BY <1>8 DEF ListDueActive, HandleShiftJob, Resume, Enqueue, ClaimForShift, CrashStarter
  <1>9. ASSUME NEW w \in Workers, \/ ReadFresh(w) \/ GetEmployee(w) \/ ClearCurrentRun(w)
                                  \/ PatchEmployee(w) \/ EnqueueShift(w) \/ CrashWorker(w)
        PROVE  run' = run
    BY <1>9 DEF ReadFresh, GetEmployee, ClearCurrentRun, PatchEmployee, EnqueueShift, CrashWorker
  <1>10. QED
    BY <1>1, <1>2, <1>3, <1>4, <1>5, <1>6, <1>7, <1>8, <1>9 DEF Next, StarterStep, WorkerStep

\* What one step may do to a worker.
WorkerMove(w) ==
  \/ worker'[w] = worker[w]
  \/ worker'[w].pc = "idle"
  \/ worker'[w].pc = "work" /\ worker'[w].run \in jobs /\ run'[worker'[w].run] = "running"
  \/ worker'[w].pc = "empGet" /\ worker'[w].run \in jobs /\ run'[worker'[w].run] \notin Working
  \/ /\ worker[w].pc = "work" /\ worker'[w].pc = "fresh" /\ worker'[w].run = worker[w].run
     /\ \/ run[worker[w].run] # "running" /\ run' = run
        \/ run'[worker[w].run] \notin Working
  \/ /\ worker[w].pc = "fresh" /\ worker'[w].pc = "empGet" /\ worker'[w].run = worker[w].run
     /\ run' = run /\ run[worker[w].run] \notin Working
  \/ Reporting(w) /\ Reporting(w)' /\ worker'[w].run = worker[w].run /\ run' = run

LEMMA WorkerMoves ==
  ASSUME TypeOK, Spawned, [Next]_vars, NEW w \in Workers
  PROVE  WorkerMove(w)
  <1> USE DEF TypeOK, RunTypeOK, WorkerMove
  <1>1. CASE worker'[w] = worker[w]
    BY <1>1
  <1>2. CASE worker' = [worker EXCEPT ![w] = IdleWorker]
    <2>1. worker'[w].pc = "idle"
      BY <1>2 DEF IdleWorker
    <2>2. QED
      BY <2>1
  <1>3. CASE HandleJob(w)
    <2>1. PICK q \in jobs :
            \/ /\ run[q] \notin Working
               /\ worker' = [worker EXCEPT ![w] = [IdleWorker EXCEPT
                    !.pc = "empGet", !.run = q, !.status = run[q], !.goal = q \in goalDone]]
               /\ UNCHANGED run
            \/ /\ run[q] \in Working
               /\ worker' = [worker EXCEPT ![w] = [IdleWorker EXCEPT !.pc = "work", !.run = q]]
               /\ SetRun(q, "running")
      BY <1>3, Zenon DEF HandleJob
    <2>2. CASE /\ run[q] \notin Working
               /\ worker' = [worker EXCEPT ![w] = [IdleWorker EXCEPT
                    !.pc = "empGet", !.run = q, !.status = run[q], !.goal = q \in goalDone]]
               /\ run' = run
      <3> DEFINE fresh == [IdleWorker EXCEPT !.pc = "empGet", !.run = q, !.status = run[q], !.goal = q \in goalDone]
      <3>1. fresh.pc = "empGet" /\ fresh.run = q
        BY Zenon DEF IdleWorker
      <3>2. worker'[w] = fresh
        BY <2>2, Zenon
      <3> HIDE DEF fresh
      <3>3. worker'[w].pc = "empGet" /\ worker'[w].run = q /\ run'[q] \notin Working
        BY <2>2, <3>1, <3>2, Zenon
      <3>4. QED
        BY <3>3, Zenon
    <2>3. CASE /\ run[q] \in Working
               /\ worker' = [worker EXCEPT ![w] = [IdleWorker EXCEPT !.pc = "work", !.run = q]]
               /\ SetRun(q, "running")
      <3>1. worker'[w].pc = "work" /\ worker'[w].run = q /\ run'[q] = "running"
        BY <2>3 DEF IdleWorker, SetRun
      <3>2. QED
        BY <3>1, Zenon
    <2>4. QED
      BY <2>1, <2>2, <2>3, Zenon
  <1>4. CASE RunHarness(w)
    <2>1. worker'[w].pc = "fresh" /\ worker'[w].run = worker[w].run /\ worker[w].pc = "work"
      BY <1>4 DEF RunHarness, WorkerAt, Worker
    <2>2. worker[w].run \in Runs
      BY <2>1 DEF Spawned, HasRun
    <2>3. \/ run[worker[w].run] # "running" /\ run' = run
          \/ run'[worker[w].run] \notin Working
      BY <1>4, <2>2 DEF RunHarness, Harness, SetRun, Working
    <2>4. QED
      BY <2>1, <2>3, Zenon
  <1>5. CASE ReadFresh(w)
    <2>1. \/ /\ run[worker[w].run] \notin Working
             /\ worker' = [worker EXCEPT ![w].pc = "empGet", ![w].status = run[worker[w].run],
                                         ![w].goal = worker[w].run \in goalDone]
          \/ worker' = [worker EXCEPT ![w] = IdleWorker]
      BY <1>5, Zenon DEF ReadFresh, WorkerDone
    <2>2. ASSUME worker' = [worker EXCEPT ![w].pc = "empGet", ![w].status = run[worker[w].run],
                                         ![w].goal = worker[w].run \in goalDone]
          PROVE  worker'[w].pc = "empGet" /\ worker'[w].run = worker[w].run
      <3> DEFINE next == [worker[w] EXCEPT !.pc = "empGet", !.status = run[worker[w].run],
                                           !.goal = worker[w].run \in goalDone]
      <3>1. worker' = [worker EXCEPT ![w] = next]
        BY <2>2
      <3>2. next.pc = "empGet" /\ next.run = worker[w].run
        <4>1. worker[w] \in Worker
          OBVIOUS
        <4>2. QED
          BY <4>1, Zenon DEF Worker
      <3> HIDE DEF next
      <3>3. QED
        BY <3>1, <3>2
    <2>3. worker[w].pc = "fresh" /\ run' = run
      BY <1>5 DEF ReadFresh
    <2>4. QED
      BY <1>2, <2>1, <2>2, <2>3, Zenon
  <1>6. CASE GetEmployee(w) \/ ClearCurrentRun(w) \/ PatchEmployee(w)
    <2>1. Reporting(w) /\ run' = run
      BY <1>6 DEF GetEmployee, ClearCurrentRun, PatchEmployee, Reporting
    <2>2. \/ worker' = [worker EXCEPT ![w] = IdleWorker]
          \/ Reporting(w)' /\ worker'[w].run = worker[w].run
      BY <1>6 DEF GetEmployee, ClearCurrentRun, PatchEmployee, Reporting, WorkerAt, WorkerDone, AfterClear, Worker
    <2>3. QED
      BY <1>2, <2>1, <2>2, Zenon
  <1>7. CASE EnqueueShift(w) \/ CrashWorker(w)
    BY <1>2, <1>7 DEF EnqueueShift, CrashWorker, WorkerDone
  <1>8. ASSUME NEW v \in Workers \ {w}, HandleJob(v) \/ WorkerStep(v) \/ CrashWorker(v)
        PROVE  worker'[w] = worker[w]
    BY <1>8 DEF HandleJob, WorkerStep, CrashWorker, RunHarness, ReadFresh, GetEmployee, ClearCurrentRun,
           PatchEmployee, EnqueueShift, WorkerAt, WorkerDone
  <1>9. ASSUME NEW s \in Starters,
               ListDueActive(s) \/ HandleShiftJob(s) \/ Resume(s) \/ StarterStep(s) \/ CrashStarter(s)
        PROVE  worker' = worker
    BY <1>9 DEF ListDueActive, HandleShiftJob, Resume, StarterStep, CrashStarter, Create, Enqueue,
       ClaimForShift, CancelOrphan
  <1>10. CASE JobDue \/ ShiftDue \/ UserRun \/ UNCHANGED vars \/ \E status \in Status : SetStatus(status)
    BY <1>1, <1>10 DEF JobDue, ShiftDue, UserRun, SetStatus, vars
  <1> HIDE DEF WorkerMove
  <1>11. QED
    BY <1>1, <1>3, <1>4, <1>5, <1>6, <1>7, <1>8, <1>9, <1>10 DEF Next, WorkerStep

\* What one step may do to a caller of StartShift.
StarterMove(s) ==
  \/ starter'[s] = starter[s]
  \/ /\ starter'[s].pc = "idle" /\ starter'[s].run = NoRun
     /\ \/ starter[s].pc = "create"
        \/ starter[s].pc = "claim" /\ starter[s].run \in claimed'
        \/ starter[s].pc = "cancel" /\ run'[starter[s].run] \notin Working \cup {"waiting_for_user"}
        \/ spent'.errors # 0 \/ spent'.crashes # 0
  \/ starter[s].pc = "idle" /\ starter'[s].pc = "create" /\ starter'[s].run = NoRun
  \/ starter[s].pc = "create" /\ starter'[s].pc = "enqueue" /\ starter'[s].run \in Unspawned
  \/ /\ starter[s].pc = "enqueue" /\ starter'[s].pc = "claim" /\ starter'[s].run = starter[s].run
     /\ starter[s].run \in jobs' \/ spent'.errors # 0
  \/ starter[s].pc = "claim" /\ starter'[s].pc = "cancel" /\ starter'[s].run = starter[s].run

LEMMA StarterMoves ==
  ASSUME TypeOK, Spawned, [Next]_vars, NEW s \in Starters
  PROVE  StarterMove(s)
  <1> USE DEF TypeOK, RunTypeOK, StarterMove
  <1>e. ASSUME Error
        PROVE  spent'.errors # 0
    BY <1>e DEF Error
  <1>c. ASSUME CrashOne
        PROVE  spent'.crashes # 0
    BY <1>c DEF CrashOne
  <1>1. CASE starter'[s] = starter[s]
    BY <1>1
  <1>2. CASE CancelOrphan(s) \/ CrashStarter(s)
    <2>1. starter'[s].pc = "idle" /\ starter'[s].run = NoRun
      BY <1>2 DEF CancelOrphan, CrashStarter, Return, IdleStarter
    <2>2. CASE CrashStarter(s)
      BY <1>c, <2>1, <2>2 DEF CrashStarter
    <2>3. CASE CancelOrphan(s)
      <3>1. starter[s].pc = "cancel" /\ starter[s].run \in Runs
        BY <2>3 DEF CancelOrphan, Spawned, OwnRun
      <3>2. run'[starter[s].run] \notin Working \cup {"waiting_for_user"} \/ Error
        BY <2>3, <3>1 DEF CancelOrphan, Open, SetRun, Working
      <3>3. QED
        BY <1>e, <2>1, <3>1, <3>2
    <2>4. QED
      BY <1>2, <2>2, <2>3
  <1>3. CASE ListDueActive(s) \/ HandleShiftJob(s) \/ Resume(s)
    <2>1. starter[s].pc = "idle"
      BY <1>3 DEF ListDueActive, HandleShiftJob, Resume
    <2>2. CASE UNCHANGED starter
      BY <1>1, <2>2
    <2>3. CASE \E by, number, row : Start(s, by, number, row)
      <3>1. starter'[s].pc = "create" /\ starter'[s].run = NoRun
        BY <2>3 DEF Start, IdleStarter
      <3>2. QED
        BY <2>1, <3>1
    <2>4. QED
      BY <1>3, <2>2, <2>3 DEF ListDueActive, HandleShiftJob, Resume
  <1>4. CASE Create(s)
    <2>1. starter[s].pc = "create"
      BY <1>4 DEF Create
    <2>2. CASE Return(s, FALSE)
      <3>1. starter'[s].pc = "idle" /\ starter'[s].run = NoRun
        BY <2>2 DEF Return, IdleStarter
      <3>2. QED
        BY <2>1, <3>1
    <2>3. CASE \E r \in Unspawned : starter' = [starter EXCEPT ![s].pc = "enqueue", ![s].run = r]
      <3>1. starter'[s].pc = "enqueue" /\ starter'[s].run \in Unspawned
        BY <2>3 DEF Starter
      <3>2. QED
        BY <2>1, <3>1
    <2>4. QED
      BY <1>4, <2>2, <2>3 DEF Create
  <1>5. CASE Enqueue(s)
    <2>1. starter[s].pc = "enqueue" /\ starter'[s].pc = "claim" /\ starter'[s].run = starter[s].run
      BY <1>5 DEF Enqueue, StarterAt, Starter
    <2>2. starter[s].run \in jobs' \/ spent'.errors # 0
      BY <1>5, <1>e DEF Enqueue
    <2>3. QED
      BY <2>1, <2>2
  <1>6. CASE ClaimForShift(s)
    <2>1. CASE Return(s, TRUE)
      <3>1. starter'[s].pc = "idle" /\ starter'[s].run = NoRun
        BY <2>1 DEF Return, IdleStarter
      <3>2. starter[s].pc = "claim" /\ starter[s].run \in claimed'
        <4>1. CASE Hold(starter[s].run)
          BY <1>6, <4>1 DEF ClaimForShift, Hold
        <4>2. CASE StarterAt(s, "cancel")
          <5>1. starter'[s].pc = "cancel"
            BY <4>2 DEF StarterAt, Starter
          <5>2. QED
            BY <3>1, <5>1
        <4>3. QED
          BY <1>6, <4>1, <4>2 DEF ClaimForShift
      <3>3. QED
        BY <3>1, <3>2
    <2>2. CASE StarterAt(s, "cancel")
      <3>1. starter[s].pc = "claim" /\ starter'[s].pc = "cancel" /\ starter'[s].run = starter[s].run
        BY <1>6, <2>2 DEF ClaimForShift, StarterAt, Starter
      <3>2. QED
        BY <3>1
    <2>3. QED
      BY <1>6, <2>1, <2>2 DEF ClaimForShift
  <1>8. ASSUME NEW t \in Starters \ {s},
               ListDueActive(t) \/ HandleShiftJob(t) \/ Resume(t) \/ StarterStep(t) \/ CrashStarter(t)
        PROVE  starter'[s] = starter[s]
    BY <1>8 DEF ListDueActive, HandleShiftJob, Resume, StarterStep, CrashStarter, Create, Enqueue,
       ClaimForShift, CancelOrphan, Start, StarterAt, Return
  <1>9. ASSUME NEW w \in Workers, HandleJob(w) \/ WorkerStep(w) \/ CrashWorker(w)
        PROVE  starter' = starter
    BY <1>9 DEF HandleJob, WorkerStep, CrashWorker, RunHarness, ReadFresh, GetEmployee, ClearCurrentRun,
       PatchEmployee, EnqueueShift
  <1>10. CASE JobDue \/ ShiftDue \/ UserRun \/ UNCHANGED vars \/ \E status \in Status : SetStatus(status)
    BY <1>1, <1>10 DEF JobDue, ShiftDue, UserRun, SetStatus, vars
  <1> HIDE DEF StarterMove
  <1>11. QED
    BY <1>1, <1>2, <1>3, <1>4, <1>5, <1>6, <1>8, <1>9, <1>10 DEF Next, StarterStep

\* The row comes to stand for a run only when its caller claims it, and then
\* that run is either at work or let go.
LEMMA ClaimMoves ==
  ASSUME TypeOK, Spawned, [Next]_vars, NEW r \in claimed', emp'.current = r, r \notin letGo'
  PROVE  \/ r \in claimed /\ emp.current = r
         \/ /\ run[r] \in Working
            /\ \E s \in Starters : starter[s].pc = "claim" /\ starter[s].run = r
  <1> USE DEF TypeOK, RunTypeOK
  <1>1. r \in Runs /\ r # NoRun
    <2>1. TypeOK'
      BY TypeStep
    <2>2. QED
      BY <2>1, NoRunAssumption
  <1>2. CASE UNCHANGED claimed /\ emp'.current \in {emp.current, NoRun}
    BY <1>1, <1>2
  <1>3. ASSUME NEW s \in Starters, starter[s].pc = "claim", emp' = Claimed(s), Hold(starter[s].run), run' = run
        PROVE  /\ run[r] \in Working
               /\ \E t \in Starters : starter[t].pc = "claim" /\ starter[t].run = r
    <2>1. starter[s].run = r
      BY <1>3 DEF Claimed, Employee
    <2>2. run[r] \in Working
      BY <1>1, <1>3, <2>1 DEF Hold, LetGo
    <2>3. QED
      BY <1>3, <2>1, <2>2
  <1>4. ASSUME NEW s \in Starters,
               ListDueActive(s) \/ HandleShiftJob(s) \/ Resume(s) \/ StarterStep(s) \/ CrashStarter(s)
        PROVE  \/ UNCHANGED claimed /\ emp'.current \in {emp.current, NoRun}
               \/ /\ run[r] \in Working
                  /\ \E t \in Starters : starter[t].pc = "claim" /\ starter[t].run = r
    <2>1. CASE Resume(s)
      BY <2>1 DEF Resume, Employee
    <2>2. CASE ClaimForShift(s)
      BY <1>3, <2>2 DEF ClaimForShift
    <2>3. QED
      BY <1>4, <2>1, <2>2 DEF ListDueActive, HandleShiftJob, StarterStep, CrashStarter, Create,
         Enqueue, CancelOrphan
  <1>5. ASSUME NEW w \in Workers, HandleJob(w) \/ WorkerStep(w) \/ CrashWorker(w)
        PROVE  UNCHANGED claimed /\ emp'.current \in {emp.current, NoRun}
    BY <1>5 DEF HandleJob, WorkerStep, CrashWorker, RunHarness, ReadFresh, GetEmployee,
       ClearCurrentRun, PatchEmployee, EnqueueShift, Employee
  <1>6. CASE ShiftDue \/ JobDue \/ UserRun \/ UNCHANGED vars \/ \E status \in Status : SetStatus(status)
    BY <1>2, <1>6 DEF ShiftDue, JobDue, UserRun, vars, SetStatus, Employee
  <1>7. QED
    BY <1>2, <1>4, <1>5, <1>6 DEF Next

\* Who a run is attended by is followed by the next one who attends it; it is
\* let down only by a caller that dies, by a worker that finds it at work when
\* it should be over, and by one that leaves a row that is not its own.
LEMMA AttendanceEnds ==
  ASSUME TypeOK, Spawned, [Next]_vars, NEW r \in Runs, Attended(r), spent'.errors = 0
  PROVE  \/ Attended(r)'
         \/ \E s \in Starters : /\ starter[s].pc = "enqueue" /\ starter[s].run = r
                                /\ starter'[s].pc = "idle"
         \/ \E w \in Workers : /\ worker[w].pc = "fresh" /\ worker[w].run = r
                               /\ run[r] \in Working
         \/ \E w \in Workers : /\ worker[w].pc \in {"empGet", "clear"} /\ worker[w].run = r
                               /\ emp'.current # r
  <1> USE DEF TypeOK, RunTypeOK
  <1>e. ~Error
    BY DEF Error
  <1>1. CASE r \in jobs
    <2>1. CASE r \in jobs'
      BY <2>1 DEF Attended
    <2>2. CASE r \notin jobs'
      <3>1. PICK w \in Workers : HandleJob(w)
        BY <1>1, <2>2 DEF Next, vars, JobDue, ShiftDue, UserRun, CancelRun, FinishRun, Reply, SetStatus,
           ListDueActive, HandleShiftJob, Resume, StarterStep, CrashStarter, Create, Enqueue, ClaimForShift,
           CancelOrphan, WorkerStep, CrashWorker, RunHarness, ReadFresh, GetEmployee, ClearCurrentRun,
           PatchEmployee, EnqueueShift
      <3>2. PICK q \in jobs : /\ jobs' = jobs \ {q}
                              /\ worker'[w].run = q /\ worker'[w].pc \in {"work", "empGet"}
        <4>1. PICK q \in jobs :
                /\ jobs' = jobs \ {q}
                /\ \/ worker' = [worker EXCEPT ![w] = [IdleWorker EXCEPT
                        !.pc = "empGet", !.run = q, !.status = run[q], !.goal = q \in goalDone]]
                   \/ worker' = [worker EXCEPT ![w] = [IdleWorker EXCEPT !.pc = "work", !.run = q]]
          BY <3>1, Zenon DEF HandleJob
        <4>2. \/ worker'[w] = [IdleWorker EXCEPT
                    !.pc = "empGet", !.run = q, !.status = run[q], !.goal = q \in goalDone]
              \/ worker'[w] = [IdleWorker EXCEPT !.pc = "work", !.run = q]
          BY <4>1, Zenon
        <4>3. worker'[w].run = q /\ worker'[w].pc \in {"work", "empGet"}
          BY <4>2, Zenon DEF IdleWorker
        <4>4. QED
          BY <4>1, <4>3, Zenon
      <3>3. q = r
        BY <1>1, <2>2, <3>2
      <3>4. QED
        BY <3>2, <3>3 DEF Attended
    <2>3. QED
      BY <2>1, <2>2
  <1>2. ASSUME NEW s \in Starters, starter[s].pc = "enqueue", starter[s].run = r
        PROVE  Attended(r)' \/ starter'[s].pc = "idle"
    <2>1. \/ starter'[s] = starter[s]
          \/ starter'[s].pc = "idle"
          \/ r \in jobs'
      BY <1>2, StarterMoves DEF StarterMove
    <2>2. QED
      BY <1>2, <2>1 DEF Attended
  <1>3. ASSUME NEW w \in Workers, worker[w].pc \in {"work", "fresh", "empGet", "clear"}, worker[w].run = r
        PROVE  \/ Attended(r)'
               \/ worker[w].pc = "fresh" /\ run[r] \in Working
               \/ worker[w].pc \in {"empGet", "clear"} /\ emp'.current # r
    <2>1. CASE worker'[w] = worker[w]
      BY <1>3, <2>1 DEF Attended
    <2>2. CASE CrashWorker(w)
      BY <1>3, <2>2 DEF CrashWorker, Attended
    <2>3. CASE RunHarness(w)
      <3>1. worker'[w].pc = "fresh" /\ worker'[w].run = r
        BY <1>3, <2>3 DEF RunHarness, WorkerAt, Worker
      <3>2. QED
        BY <3>1 DEF Attended
    <2>4. CASE ReadFresh(w)
      <3>1. CASE run[r] \in Working
        BY <2>4, <3>1 DEF ReadFresh
      <3>2. CASE run[r] \notin Working
        <4>1. worker' = [worker EXCEPT ![w].pc = "empGet", ![w].status = run[r], ![w].goal = r \in goalDone]
          BY <1>3, <1>e, <2>4, <3>2, Zenon DEF ReadFresh
        <4> DEFINE next == [worker[w] EXCEPT !.pc = "empGet", !.status = run[r], !.goal = r \in goalDone]
        <4>2. worker'[w] = next
          BY <4>1
        <4>3. next.pc = "empGet" /\ next.run = worker[w].run
          <5>1. worker[w] \in Worker
            OBVIOUS
          <5>2. QED
            BY <5>1, Zenon DEF Worker
        <4> HIDE DEF next
        <4>4. worker'[w].pc = "empGet" /\ worker'[w].run = r
          BY <1>3, <4>2, <4>3
        <4>5. QED
          BY <4>4 DEF Attended
      <3>3. QED
        BY <3>1, <3>2
    <2>5. CASE GetEmployee(w)
      <3>1. CASE emp.current # r
        BY <2>5, <3>1 DEF GetEmployee
      <3>2. CASE emp.current = r
        <4>1. worker' = [worker EXCEPT ![w].seen = emp, ![w].pc = "clear"]
          BY <1>3, <1>e, <2>5, <3>2 DEF GetEmployee
        <4>2. worker'[w].pc = "clear" /\ worker'[w].run = r
          BY <1>3, <4>1 DEF Worker
        <4>3. QED
          BY <4>2 DEF Attended
      <3>3. QED
        BY <3>1, <3>2
    <2>6. CASE ClearCurrentRun(w)
      BY <1>3, <1>e, <2>6, NoRunAssumption DEF ClearCurrentRun, Employee
    <2>7. CASE HandleJob(w) \/ PatchEmployee(w) \/ EnqueueShift(w)
      BY <1>3, <2>7 DEF HandleJob, PatchEmployee, EnqueueShift
    <2>8. ASSUME NEW v \in Workers \ {w}, HandleJob(v) \/ WorkerStep(v) \/ CrashWorker(v)
          PROVE  worker'[w] = worker[w]
      BY <2>8 DEF HandleJob, WorkerStep, CrashWorker, RunHarness, ReadFresh, GetEmployee, ClearCurrentRun,
             PatchEmployee, EnqueueShift, WorkerAt, WorkerDone
    <2>9. ASSUME NEW s \in Starters,
                 ListDueActive(s) \/ HandleShiftJob(s) \/ Resume(s) \/ StarterStep(s) \/ CrashStarter(s)
          PROVE  worker' = worker
      BY <2>9 DEF ListDueActive, HandleShiftJob, Resume, StarterStep, CrashStarter, Create, Enqueue,
         ClaimForShift, CancelOrphan
    <2>10. CASE JobDue \/ ShiftDue \/ UserRun \/ UNCHANGED vars \/ \E status \in Status : SetStatus(status)
      BY <2>1, <2>10 DEF JobDue, ShiftDue, UserRun, SetStatus, vars
    <2>11. QED
      BY <2>1, <2>2, <2>3, <2>4, <2>5, <2>6, <2>7, <2>8, <2>9, <2>10 DEF Next, WorkerStep
  <1>4. QED
    BY <1>1, <1>2, <1>3 DEF Attended

\* The inductive invariant.  A worker that has left the harness has left its run
\* at rest; a caller that has spawned nothing names no run; and while no call has
\* failed, a run at work that is about to be claimed, and the shift the row stands
\* for, whether it is over or not, are attended by somebody.
Behind ==
  \A w \in Workers :
    \/ worker[w].pc = "work" /\ run[worker[w].run] = "queued"
    \/ (worker[w].pc = "fresh" \/ Reporting(w)) /\ run[worker[w].run] \in Working
    => worker[w].run \in letGo

NoneYet == \A s \in Starters : starter[s].pc \in {"idle", "create"} => starter[s].run = NoRun

AboutToClaim(s, r) == starter[s].pc \in {"enqueue", "claim"} /\ starter[s].run = r

Tended ==
  spent.errors = 0 =>
    \A r \in Runs \ letGo :
      \/ r \in claimed /\ emp.current = r
      \/ run[r] \in Working /\ \E s \in Starters : AboutToClaim(s, r)
      => Attended(r)

LEMMA LeftInit == Init => Behind /\ NoneYet /\ Tended /\ OrphanIsCancelled
  BY DEF Init, RunInit, Behind, NoneYet, Tended, AboutToClaim, OrphanIsCancelled, Open, Working, Reporting,
     IdleWorker, IdleStarter, Hired

LEMMA StepBehind ==
  ASSUME TypeOK, Spawned, [Next]_vars, Behind
  PROVE  Behind'
  <1> USE DEF TypeOK, RunTypeOK
  <1> SUFFICES ASSUME NEW w \in Workers, worker'[w].run \notin letGo'
               PROVE  /\ ~(worker'[w].pc = "work" /\ run'[worker'[w].run] = "queued")
                      /\ ~((worker'[w].pc = "fresh" \/ Reporting(w)') /\ run'[worker'[w].run] \in Working)
    BY DEF Behind
  <1>1. CASE worker'[w].run = worker[w].run /\ worker[w].pc # "idle"
    <2> DEFINE r == worker[w].run
    <2>1. r \in Runs /\ run[r] # "none" /\ r \notin letGo' /\ r \notin letGo
      BY <1>1, LetGoGrows DEF Spawned, HasRun
    <2>2. \/ run'[r] = run[r]
          \/ run[r] \in Working /\ run'[r] = "running"
          \/ run'[r] \notin Working
      <3>1. \/ run'[r] = run[r]
            \/ run[r] = "none" /\ \E s \in Starters : starter'[s].run = r
            \/ run[r] \in Working /\ run'[r] = "running"
            \/ run'[r] \notin Working
        BY <2>1, RunMoves DEF Open, Working
      <3>2. QED
        BY <2>1, <3>1
    <2> HIDE DEF r
    <2>3. /\ ~(worker[w].pc = "work" /\ run[r] = "queued")
          /\ ~((worker[w].pc = "fresh" \/ Reporting(w)) /\ run[r] \in Working)
      BY <2>1 DEF r, Behind
    <2>4. WorkerMove(w)
      BY WorkerMoves
    <2>5. CASE worker'[w] = worker[w]
      BY <2>2, <2>3, <2>5 DEF Reporting, Working, r
    <2>6. CASE worker'[w].pc = "idle"
      BY <2>6 DEF Reporting
    <2>7. CASE worker'[w].pc = "work" /\ worker'[w].run \in jobs /\ run'[worker'[w].run] = "running"
      BY <2>7 DEF Reporting
    <2>8. CASE worker'[w].pc = "empGet" /\ run'[worker'[w].run] \notin Working
      BY <2>8 DEF Reporting
    <2>9. CASE /\ worker[w].pc = "work" /\ worker'[w].pc = "fresh" /\ worker'[w].run = worker[w].run
               /\ \/ run[worker[w].run] # "running" /\ run' = run
                  \/ run'[worker[w].run] \notin Working
      BY <2>3, <2>9 DEF Reporting, Working, r
    <2>10. CASE /\ worker[w].pc = "fresh" /\ worker'[w].pc = "empGet" /\ worker'[w].run = worker[w].run
                /\ run' = run /\ run[worker[w].run] \notin Working
      BY <2>10
    <2>11. CASE Reporting(w) /\ Reporting(w)' /\ worker'[w].run = worker[w].run /\ run' = run
      BY <2>3, <2>11 DEF Reporting, r
    <2>12. QED
      BY <2>4, <2>5, <2>6, <2>7, <2>8, <2>9, <2>10, <2>11 DEF WorkerMove
  <1>2. CASE ~(worker'[w].run = worker[w].run /\ worker[w].pc # "idle")
    <2>1. WorkerMove(w)
      BY WorkerMoves
    <2>2. \/ worker'[w].pc = "idle"
          \/ worker'[w].pc = "work" /\ run'[worker'[w].run] = "running"
          \/ worker'[w].pc = "empGet" /\ run'[worker'[w].run] \notin Working
      BY <1>2, <2>1 DEF WorkerMove, Reporting
    <2>3. QED
      BY <2>2 DEF Reporting
  <1>3. QED
    BY <1>1, <1>2

LEMMA StepNoneYet ==
  ASSUME TypeOK, Spawned, [Next]_vars, NoneYet
  PROVE  NoneYet'
  BY StarterMoves DEF StarterMove, NoneYet

LEMMA StepTended ==
  ASSUME TypeOK, Spawned, [Next]_vars, Behind, Tended
  PROVE  Tended'
  <1> SUFFICES ASSUME spent'.errors = 0, NEW r \in Runs, r \notin letGo',
                      \/ r \in claimed' /\ emp'.current = r
                      \/ run'[r] \in Working /\ \E s \in Starters : AboutToClaim(s, r)'
               PROVE  Attended(r)'
    BY DEF Tended
  <1>1. spent.errors = 0 /\ r \notin letGo
    BY FaultsCount, LetGoGrows DEF TypeOK, RunTypeOK
  <1>2. \A w \in Workers : worker[w].run = r =>
          ~((worker[w].pc = "fresh" \/ Reporting(w)) /\ run[r] \in Working)
    BY <1>1 DEF Behind
  <1>3. CASE r \in claimed' /\ emp'.current = r
    <2>1. Attended(r) /\ \A s \in Starters : ~(starter[s].pc = "enqueue" /\ starter[s].run = r)
      <3>1. CASE r \in claimed /\ emp.current = r
        BY <1>1, <3>1 DEF Tended, Spawned, OwnRun
      <3>2. ASSUME run[r] \in Working, NEW s \in Starters, starter[s].pc = "claim", starter[s].run = r
            PROVE  Attended(r) /\ \A t \in Starters : ~(starter[t].pc = "enqueue" /\ starter[t].run = r)
        <4>1. Attended(r)
          BY <1>1, <3>2 DEF Tended, AboutToClaim
        <4>2. QED
          BY <3>2, <4>1 DEF Spawned, OwnRun
      <3>3. QED
        BY <1>3, <3>1, <3>2, ClaimMoves
    <2>2. \A w \in Workers : ~(worker[w].pc = "fresh" /\ worker[w].run = r /\ run[r] \in Working)
      BY <1>2
    <2>3. QED
      BY <1>3, <2>1, <2>2, AttendanceEnds
  <1>4. ASSUME run'[r] \in Working, NEW s \in Starters, AboutToClaim(s, r)'
        PROVE  Attended(r)'
    <2>1. CASE starter'[s].pc = "enqueue"
      BY <1>4, <2>1 DEF AboutToClaim, Attended
    <2>2. CASE starter'[s].pc = "claim"
      <3>1. starter[s].pc \in {"enqueue", "claim"} /\ starter[s].run = r
        BY <1>4, <2>2, StarterMoves DEF AboutToClaim, StarterMove
      <3>2. run[r] # "none" /\ \A t \in Starters \ {s} : ~(starter[t].pc = "enqueue" /\ starter[t].run = r)
        BY <3>1 DEF Spawned, OwnRun
      <3>3. run[r] \in Working
        BY <1>4, <3>2, RunMoves DEF Open, Working
      <3>4. Attended(r)
        BY <1>1, <3>1, <3>3 DEF Tended, AboutToClaim
      <3>5. \A t \in Starters : ~(starter[t].pc = "enqueue" /\ starter[t].run = r /\ starter'[t].pc = "idle")
        BY <2>2, <3>2
      <3>6. \A w \in Workers : /\ ~(worker[w].pc = "fresh" /\ worker[w].run = r /\ run[r] \in Working)
                               /\ ~(worker[w].pc \in {"empGet", "clear"} /\ worker[w].run = r)
        BY <1>2, <3>3 DEF Reporting
      <3>7. QED
        BY <3>4, <3>5, <3>6, AttendanceEnds
    <2>3. QED
      BY <1>4, <2>1, <2>2 DEF AboutToClaim
  <1>5. QED
    BY <1>3, <1>4

LEMMA StepOrphan ==
  ASSUME TypeOK, TypeOK', Spawned, [Next]_vars, NoneYet, OrphanIsCancelled
  PROVE  OrphanIsCancelled'
  <1> SUFFICES ASSUME spent'.errors = 0, spent'.crashes = 0,
                      NEW r \in Runs, Open(r)', r \notin claimed', r \notin letGo'
               PROVE  \E s \in Starters : starter'[s].run = r
    BY DEF OrphanIsCancelled
  <1>1. spent.errors = 0 /\ spent.crashes = 0
    BY FaultsCount DEF TypeOK, RunTypeOK
  <1>2. r \notin letGo /\ r \notin claimed /\ r # NoRun
    <2>1. claimed \subseteq claimed'
      BY TenureStep DEF Tenure!Next, Tenure!Take, Tenure!Leave
    <2>2. QED
      BY <2>1, LetGoGrows, NoRunAssumption
  <1>3. CASE run[r] = "none" /\ \E s \in Starters : starter'[s].run = r
    BY <1>3
  <1>4. CASE Open(r)
    <2>1. PICK s \in Starters : starter[s].run = r
      BY <1>1, <1>2, <1>4 DEF OrphanIsCancelled
    <2>2. starter[s].pc \notin {"idle", "create"}
      BY <1>2, <2>1 DEF NoneYet
    <2>3. run'[r] \in Working \cup {"waiting_for_user"}
      BY DEF Open
    <2>4. starter'[s].run = r
      BY <2>1, <2>2, <2>3, StarterMoves DEF StarterMove
    <2>5. QED
      BY <2>4
  <1>5. Open(r) \/ (run[r] = "none" /\ \E s \in Starters : starter'[s].run = r)
    BY RunMoves DEF Open, Working
  <1>6. QED
    BY <1>3, <1>4, <1>5

\* While no call has failed and nobody has died, the run of a lost race is open
\* only as long as its caller has yet to cancel it; and whoever dies, as long as
\* no call has failed, the row points at an ended shift only while somebody is
\* about to clear it (StartShift, AfterAgentRun).
THEOREM NoShiftLeft == Spec => []NoShiftIsLeft
  <1>1. TypeOK /\ Tended => EndedShiftIsReleased
    BY DEF Tended, EndedShiftIsReleased, Held, TypeOK
  <1>2. TypeOK /\ TypeOK' /\ Spawned /\ [Next]_vars /\ Behind /\ NoneYet /\ Tended /\ OrphanIsCancelled
          => (Behind /\ NoneYet /\ Tended /\ OrphanIsCancelled)'
    BY StepBehind, StepNoneYet, StepTended, StepOrphan
  <1>3. TypeOK /\ Tended /\ OrphanIsCancelled => NoShiftIsLeft
    BY <1>1 DEF NoShiftIsLeft
  <1>4. QED
    BY <1>2, <1>3, LeftInit, Inductive, PTL DEF Spec
=============================================================================
