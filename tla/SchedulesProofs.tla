--------------------------- MODULE SchedulesProofs --------------------------
(***************************************************************************)
(* Theorems about Schedules, for every number of runs, callers and workers *)
(* and every bound: types, the implementation of RowTenure, and, for       *)
(* recurring goals, one open run at a time that keeps the row.             *)
(***************************************************************************)
EXTENDS Schedules, FiniteSetTheorems, TLAPS

-----------------------------------------------------------------------------
(* Types *)

LEMMA RowTypes ==
  /\ NoRun \in Runs \cup {NoRun}
  /\ \A once \in OneShots : Created(once) \in Schedule
  /\ IdleStarter \in Starter
  /\ IdleWorker \in Worker
  BY CadenceAssumption DEF Created, Schedule, Status, Next_run_at, IdleStarter, Starter, IdleWorker, Worker,
     RunStatus

LEMMA SpentTyped ==
  ASSUME RunTypeOK, (\E name : Act(name)) \/ Error \/ CrashOne \/ UNCHANGED spent
  PROVE  spent' \in [acts : 0..MaxActs, errors : 0..MaxErrors, crashes : 0..MaxCrashes]
  BY BoundAssumption DEF RunTypeOK, Act, Error, CrashOne

LEMMA SetRunTyped ==
  ASSUME RunTypeOK, NEW r \in Runs, NEW status \in RunStatus, SetRun(r, status)
  PROVE  run' \in [Runs -> RunStatus]
  BY DEF RunTypeOK, SetRun

LEMMA StarterTyped ==
  ASSUME TypeOK, NEW s \in Starters,
         \/ Return(s)
         \/ \E pc \in {"idle", "create", "enqueue", "claim", "cancel"} : StarterAt(s, pc)
  PROVE  starter' \in [Starters -> Starter]
  BY RowTypes DEF TypeOK, Return, StarterAt, Starter

LEMMA WorkerTyped ==
  ASSUME TypeOK, NEW w \in Workers,
         \/ WorkerDone(w)
         \/ \E pc \in {"fresh", "deliver", "patch"} : WorkerAt(w, pc)
  PROVE  worker' \in [Workers -> Worker]
  BY RowTypes DEF TypeOK, WorkerDone, WorkerAt, Worker

\* A worker that has read the row knows whether it was active.
LEMMA ReadTyped ==
  ASSUME NEW rec \in Worker, NEW active, active \in BOOLEAN, NEW pc \in {"clear", "deliver", "patch"}
  PROVE  [rec EXCEPT !.active = active, !.pc = pc] \in Worker
  BY Zenon DEF Worker

LEMMA HarnessTyped ==
  ASSUME RunTypeOK, NEW r \in Runs, Harness(r)
  PROVE  run' \in [Runs -> RunStatus] /\ goalDone' \subseteq Runs
  <1>1. CASE UNCHANGED <<run, goalDone>>
    BY <1>1 DEF RunTypeOK
  <1>2. CASE \E status \in {"succeeded", "waiting_for_user", "failed"} : SetRun(r, status)
    <2>1. run' \in [Runs -> RunStatus]
      BY <1>2, SetRunTyped DEF RunStatus, Ended
    <2>2. goalDone' \subseteq Runs
      BY DEF Harness, RunTypeOK
    <2>3. QED
      BY <2>1, <2>2
  <1>3. QED
    BY <1>1, <1>2 DEF Harness

-----------------------------------------------------------------------------
(* Spawned: what a goroutine does to its run is typed only because it has    *)
(* one, so that TypeOK is inductive together with this.                      *)

\* A caller past Spawn has a run; until it has claimed or cancelled it, it is
\* its own and the row has not been claimed for it.
OwnRun(s) ==
  starter[s].pc \in {"enqueue", "claim", "cancel"} =>
    /\ starter[s].run \in Runs /\ run[starter[s].run] # "none"
    /\ starter[s].pc # "cancel" =>
         /\ starter[s].run \notin claimed
         /\ \A t \in Starters \ {s} : starter[t].pc \in {"enqueue", "claim"} => starter[t].run # starter[s].run

HasRun(w) == worker[w].pc # "idle" => worker[w].run \in Runs /\ run[worker[w].run] # "none"

Spawned ==
  /\ \A s \in Starters : OwnRun(s)
  /\ \A w \in Workers : HasRun(w)
  /\ \A r \in jobs \cup claimed : run[r] # "none"

LEMMA StarterTypeStep ==
  ASSUME TypeOK, Spawned, NEW s \in Starters,
         ListDueActive(s) \/ RunNow(s) \/ Resume(s) \/ StarterStep(s) \/ CrashStarter(s)
  PROVE  TypeOK'
  <1> USE DEF TypeOK, RunTypeOK
  <1>1. CASE ListDueActive(s) \/ RunNow(s) \/ CrashStarter(s)
    BY <1>1, StarterTyped, SpentTyped DEF ListDueActive, RunNow, CrashStarter
  <1>2. CASE Resume(s)
    <2>1. sch' \in Schedule
      BY <1>2 DEF Resume, Schedule, Status, Next_run_at
    <2>2. starter' \in [Starters -> Starter]
      BY <1>2, StarterTyped DEF Resume
    <2>3. QED
      BY <1>2, <2>1, <2>2, SpentTyped DEF Resume
  <1>3. CASE Create(s)
    <2>1. CASE \E r \in Unspawned :
                  SetRun(r, "queued") /\ starter' = [starter EXCEPT ![s].pc = "enqueue", ![s].run = r]
      <3>1. PICK r \in Runs : /\ SetRun(r, "queued")
                              /\ starter' = [starter EXCEPT ![s].pc = "enqueue", ![s].run = r]
        BY <2>1 DEF Unspawned
      <3>2. run' \in [Runs -> RunStatus]
        BY <3>1, SetRunTyped DEF RunStatus, Working
      <3> DEFINE next == [starter[s] EXCEPT !.pc = "enqueue", !.run = r]
      <3>3. next \in Starter
        BY DEF Starter
      <3>4. starter' = [starter EXCEPT ![s] = next]
        BY <3>1
      <3> HIDE DEF next
      <3>5. starter' \in [Starters -> Starter]
        BY <3>3, <3>4
      <3>6. QED
        BY <1>3, <3>2, <3>5, SpentTyped DEF Create
    <2>2. CASE Return(s) /\ UNCHANGED run
      BY <1>3, <2>2, SpentTyped, StarterTyped DEF Create
    <2>3. QED
      BY <1>3, <2>1, <2>2 DEF Create
  <1>4. CASE Enqueue(s)
    <2>1. jobs' \subseteq Runs
      BY <1>4 DEF Enqueue, Spawned, OwnRun
    <2>2. QED
      BY <1>4, <2>1, SpentTyped, StarterTyped DEF Enqueue
  <1>5. CASE ClaimForRun(s)
    <2>1. starter[s].run \in Runs
      BY <1>5 DEF ClaimForRun, Spawned, OwnRun
    <2>2. sch' \in Schedule /\ claimed' \subseteq Runs /\ letGo' \subseteq Runs
      BY <1>5, <2>1 DEF ClaimForRun, Claim, Hold, LetGo, Schedule, Next_run_at
    <2>3. QED
      BY <1>5, <2>2, SpentTyped, StarterTyped DEF ClaimForRun
  <1>6. CASE CancelSpawned(s)
    <2>1. run' \in [Runs -> RunStatus]
      <3>1. starter[s].run \in Runs /\ "cancelled" \in RunStatus
        BY <1>6 DEF CancelSpawned, Spawned, OwnRun, RunStatus, Ended
      <3>2. QED
        BY <1>6, <3>1, SetRunTyped DEF CancelSpawned
    <2>2. QED
      BY <1>6, <2>1, SpentTyped, StarterTyped DEF CancelSpawned
  <1>7. QED
    BY <1>1, <1>2, <1>3, <1>4, <1>5, <1>6 DEF StarterStep

LEMMA WorkerTypeStep ==
  ASSUME TypeOK, Spawned, NEW w \in Workers,
         HandleJob(w) \/ WorkerStep(w) \/ CrashWorker(w)
  PROVE  TypeOK'
  <1> USE DEF TypeOK, RunTypeOK
  <1>1. CASE HandleJob(w)
    <2>1. PICK r \in jobs :
             /\ jobs' = jobs \ {r}
             /\ \/ /\ worker' = [worker EXCEPT ![w] =
                        [IdleWorker EXCEPT !.pc = "get", !.run = r, !.status = run[r]]]
                   /\ UNCHANGED run
                \/ /\ worker' = [worker EXCEPT ![w] = [IdleWorker EXCEPT !.pc = "work", !.run = r]]
                   /\ SetRun(r, "running")
      BY <1>1 DEF HandleJob
    <2>2. /\ [IdleWorker EXCEPT !.pc = "get", !.run = r, !.status = run[r]] \in Worker
          /\ [IdleWorker EXCEPT !.pc = "work", !.run = r] \in Worker
      BY RowTypes DEF Worker
    <2>3. worker' \in [Workers -> Worker]
      BY <2>1, <2>2
    <2>4. run' \in [Runs -> RunStatus]
      BY <2>1, SetRunTyped DEF RunStatus, Working
    <2>5. QED
      BY <1>1, <2>1, <2>3, <2>4 DEF HandleJob
  <1>2. CASE RunHarness(w)
    BY <1>2, HarnessTyped, WorkerTyped DEF RunHarness, Spawned, HasRun
  <1>3. CASE ReadFresh(w)
    <2>1. worker' \in [Workers -> Worker]
      <3>1. CASE worker' = [worker EXCEPT ![w].pc = "get", ![w].status = run[worker[w].run]]
        <4> DEFINE next == [worker[w] EXCEPT !.pc = "get", !.status = run[worker[w].run]]
        <4>1. worker[w].run \in Runs
          BY <1>3 DEF ReadFresh, Spawned, HasRun
        <4>2. next \in Worker
          BY <4>1 DEF Worker
        <4>3. worker' = [worker EXCEPT ![w] = next]
          BY <3>1
        <4> HIDE DEF next
        <4>4. QED
          BY <4>2, <4>3
      <3>2. CASE WorkerDone(w)
        BY <3>2, WorkerTyped
      <3>3. QED
        BY <1>3, <3>1, <3>2 DEF ReadFresh
    <2>2. QED
      BY <1>3, <2>1, SpentTyped DEF ReadFresh
  <1>4. CASE GetSchedule(w)
    <2>1. worker' \in [Workers -> Worker]
      <3>1. CASE \E pc \in {"clear", "deliver", "patch"} :
                   worker' = [worker EXCEPT ![w].active = sch.status = "active", ![w].pc = pc]
        <4>1. PICK pc \in {"clear", "deliver", "patch"} :
                worker' = [worker EXCEPT ![w].active = sch.status = "active", ![w].pc = pc]
          BY <3>1, Zenon
        <4> DEFINE next == [worker[w] EXCEPT !.active = sch.status = "active", !.pc = pc]
        <4>g. (sch.status = "active") \in BOOLEAN /\ worker[w] \in Worker
          OBVIOUS
        <4>2. next \in Worker
          BY <4>g, ReadTyped, Zenon
        <4>3. worker' = [worker EXCEPT ![w] = next]
          BY <4>1
        <4> HIDE DEF next
        <4>4. QED
          BY <4>2, <4>3
      <3>2. CASE WorkerDone(w)
        BY <3>2, WorkerTyped
      <3>3. AfterClear(w) \in {"clear", "deliver", "patch"}
        BY DEF AfterClear
      <3>4. QED
        BY <1>4, <3>1, <3>2, <3>3, Zenon DEF GetSchedule
    <2>2. QED
      BY <1>4, <2>1, SpentTyped DEF GetSchedule
  <1>5. CASE ClearCurrentRun(w)
    <2>1. AfterClear(w) \in {"deliver", "patch"}
      BY DEF AfterClear
    <2>2. sch' \in Schedule
      BY <1>5 DEF ClearCurrentRun, Schedule
    <2>3. QED
      BY <1>5, <2>1, <2>2, WorkerTyped, SpentTyped DEF ClearCurrentRun
  <1>6. CASE DeliverResult(w)
    <2>1. delivered' \subseteq Runs
      BY <1>6 DEF DeliverResult, Spawned, HasRun
    <2>2. QED
      BY <1>6, <2>1, WorkerTyped, SpentTyped DEF DeliverResult
  <1>7. CASE PatchSchedule(w)
    <2>1. sch' \in Schedule
      BY <1>7 DEF PatchSchedule, Schedule, Status, Next_run_at
    <2>2. QED
      BY <1>7, <2>1, WorkerTyped, SpentTyped DEF PatchSchedule
  <1>8. CASE CrashWorker(w)
    BY <1>8, WorkerTyped, SpentTyped DEF CrashWorker, Spawned, HasRun
  <1>9. QED
    BY <1>1, <1>2, <1>3, <1>4, <1>5, <1>6, <1>7, <1>8 DEF WorkerStep

LEMMA OtherTypeStep ==
  ASSUME TypeOK,
         RunDue \/ UserRun \/ \E status \in Status : SetStatus(status)
  PROVE  TypeOK'
  <1> USE DEF TypeOK, RunTypeOK
  <1>1. CASE RunDue
    BY <1>1 DEF RunDue, Schedule, Next_run_at
  <1>2. CASE UserRun
    <2>1. PICK r \in Runs : /\ CancelRun(r) \/ FinishRun(r) \/ Reply(r)
                            /\ LetGo({}) \/ LetGo({r})
      BY <1>2 DEF UserRun
    <2>2. run' \in [Runs -> RunStatus]
      BY <2>1, SetRunTyped DEF CancelRun, FinishRun, Reply, RunStatus, Ended, Working
    <2>3. spent' \in [acts : 0..MaxActs, errors : 0..MaxErrors, crashes : 0..MaxCrashes]
      BY <2>1, SpentTyped DEF CancelRun, FinishRun, Reply
    <2>4. QED
      BY <1>2, <2>1, <2>2, <2>3 DEF UserRun, CancelRun, FinishRun, Reply, LetGo
  <1>3. ASSUME NEW status \in Status, SetStatus(status)
        PROVE  TypeOK'
    <2>1. sch' \in Schedule
      BY <1>3 DEF SetStatus, Schedule, Next_run_at
    <2>2. letGo' \subseteq Runs
      BY <1>3 DEF SetStatus, LetGo, Schedule
    <2>3. QED
      BY <1>3, <2>1, <2>2, SpentTyped DEF SetStatus
  <1>4. QED
    BY <1>1, <1>2, <1>3

LEMMA TypeInit == Init => TypeOK
  BY RowTypes, BoundAssumption DEF Init, RunInit, TypeOK, RunTypeOK, RunStatus

LEMMA TypeStep == TypeOK /\ Spawned /\ [Next]_vars => TypeOK'
  <1> SUFFICES ASSUME TypeOK, Spawned, [Next]_vars
               PROVE  TypeOK'
    OBVIOUS
  <1>1. CASE UNCHANGED vars
    BY <1>1 DEF vars, TypeOK, RunTypeOK
  <1>2. CASE Next
    BY <1>2, StarterTypeStep, WorkerTypeStep, OtherTypeStep DEF Next
  <1>3. QED
    BY <1>1, <1>2

-----------------------------------------------------------------------------
(* Spawned is inductive *)

\* A run that has been created stays created.
LEMMA RunsStay ==
  ASSUME TypeOK, Spawned, [Next]_vars, NEW r \in Runs, run[r] # "none"
  PROVE  run'[r] # "none"
  <1> USE DEF TypeOK, RunTypeOK
  <1>1. CASE run' = run
    BY <1>1
  <1>2. ASSUME NEW q \in Runs, NEW status \in RunStatus \ {"none"}, SetRun(q, status)
        PROVE  run'[r] # "none"
    BY <1>2 DEF SetRun
  <1>3. ASSUME NEW s \in Starters, Create(s) \/ CancelSpawned(s)
        PROVE  run'[r] # "none"
    BY <1>1, <1>2, <1>3 DEF Create, CancelSpawned, HasRun, OwnRun, Spawned, RunStatus, Working, Ended, Unspawned
  <1>4. ASSUME NEW w \in Workers, HandleJob(w) \/ RunHarness(w)
        PROVE  run'[r] # "none"
    BY <1>1, <1>2, <1>4 DEF HandleJob, RunHarness, Harness, Spawned, HasRun, OwnRun, RunStatus, Working, Ended
  <1>5. CASE UserRun
    BY <1>2, <1>5 DEF UserRun, CancelRun, FinishRun, Reply, RunStatus, Working, Ended
  <1>6. CASE RunDue \/ UNCHANGED vars \/ \E status \in Status : SetStatus(status)
    BY <1>6 DEF RunDue, vars, SetStatus
  <1>7. ASSUME NEW s \in Starters, ListDueActive(s) \/ RunNow(s) \/ Resume(s) \/ Enqueue(s)
                                   \/ ClaimForRun(s) \/ CrashStarter(s)
        PROVE  run' = run
    BY <1>7 DEF ListDueActive, RunNow, Resume, Enqueue, ClaimForRun, CrashStarter
  <1>8. ASSUME NEW w \in Workers, \/ ReadFresh(w) \/ GetSchedule(w) \/ ClearCurrentRun(w)
                                  \/ PatchSchedule(w) \/ DeliverResult(w) \/ CrashWorker(w)
        PROVE  run' = run
    BY <1>8 DEF ReadFresh, GetSchedule, ClearCurrentRun, PatchSchedule, DeliverResult, CrashWorker
  <1>9. QED
    BY <1>1, <1>3, <1>4, <1>5, <1>6, <1>7, <1>8 DEF Next, StarterStep, WorkerStep

LEMMA StarterSpawnedStep ==
  ASSUME TypeOK, Spawned, [Next]_vars, NEW s \in Starters,
         ListDueActive(s) \/ RunNow(s) \/ Resume(s) \/ StarterStep(s) \/ CrashStarter(s)
  PROVE  Spawned'
  <1> USE DEF TypeOK, RunTypeOK
  <1>w. worker' = worker
    BY DEF ListDueActive, RunNow, Resume, StarterStep, CrashStarter, Create, Enqueue, ClaimForRun,
           CancelSpawned, HasRun, OwnRun
  <1>1. \A w \in Workers : HasRun(w)'
    BY <1>w, RunsStay DEF HasRun, Spawned, OwnRun
  <1>2. ASSUME \A t \in Starters \ {s} : starter'[t] = starter[t],
               \/ starter'[s].pc \in {"idle", "create"}
               \/ starter'[s].pc = "cancel" /\ starter'[s].run = starter[s].run,
               starter'[s].pc = "cancel" => starter[s].pc = "claim",
               \/ UNCHANGED claimed
               \/ claimed' = claimed \cup {starter[s].run} /\ starter[s].pc = "claim",
               UNCHANGED jobs
        PROVE  Spawned'
    <2>1. \A t \in Starters : OwnRun(t)'
      BY <1>2, RunsStay DEF Spawned, HasRun, OwnRun
    <2>2. \A r \in jobs' \cup claimed' : run'[r] # "none"
      BY <1>2, RunsStay DEF Spawned, HasRun, OwnRun
    <2>3. QED
      BY <1>1, <2>1, <2>2 DEF Spawned, OwnRun, HasRun
  <1>3. CASE ListDueActive(s) \/ RunNow(s) \/ Resume(s)
    <2>1. UNCHANGED <<jobs, claimed>>
      BY <1>3 DEF ListDueActive, RunNow, Resume
    <2>2. CASE UNCHANGED starter
      <3>1. Spawned'
        BY <1>1, <2>1, <2>2, RunsStay DEF Spawned, OwnRun, HasRun
      <3>2. QED
        BY <3>1
    <2>3. CASE StarterAt(s, "create")
      <3>1. starter'[s].pc = "create" /\ \A t \in Starters \ {s} : starter'[t] = starter[t]
        BY <2>3 DEF StarterAt, Starter
      <3>2. QED
        BY <1>2, <2>1, <3>1, Zenon
    <2>4. QED
      BY <1>3, <2>2, <2>3 DEF ListDueActive, RunNow, Resume
  <1>4. CASE Create(s)
    <2>1. UNCHANGED <<jobs, claimed>>
      BY <1>4 DEF Create
    <2>2. CASE Return(s)
      <3>1. starter'[s].pc = "idle" /\ \A t \in Starters \ {s} : starter'[t] = starter[t]
        BY <2>2 DEF Return, IdleStarter
      <3>2. QED
        BY <1>2, <2>1, <3>1, Zenon
    <2>3. CASE \E r \in Unspawned :
                 SetRun(r, "queued") /\ starter' = [starter EXCEPT ![s].pc = "enqueue", ![s].run = r]
      <3>1. PICK r \in Unspawned :
              SetRun(r, "queued") /\ starter' = [starter EXCEPT ![s].pc = "enqueue", ![s].run = r]
        BY <2>3
      <3>2. /\ r \in Runs /\ run[r] = "none" /\ run'[r] = "queued"
            /\ starter'[s].pc = "enqueue" /\ starter'[s].run = r
            /\ \A t \in Starters \ {s} : starter'[t] = starter[t]
        BY <3>1 DEF Unspawned, SetRun, Starter
      <3>3. /\ r \notin claimed
            /\ \A t \in Starters : starter[t].pc \in {"enqueue", "claim", "cancel"} => starter[t].run # r
        BY <3>2 DEF Spawned, HasRun, OwnRun
      <3>4. \A t \in Starters : OwnRun(t)'
        BY <2>1, <3>2, <3>3, RunsStay DEF Spawned, HasRun, OwnRun
      <3>5. \A q \in jobs' \cup claimed' : run'[q] # "none"
        BY <2>1, RunsStay DEF Spawned, HasRun, OwnRun
      <3>6. QED
        BY <1>1, <3>4, <3>5 DEF Spawned, OwnRun, HasRun
    <2>4. QED
      BY <1>4, <2>2, <2>3 DEF Create
  <1>5. CASE Enqueue(s)
    <2>1. /\ starter[s].pc = "enqueue" /\ starter'[s].pc = "claim" /\ starter'[s].run = starter[s].run
          /\ \A t \in Starters \ {s} : starter'[t] = starter[t]
          /\ claimed' = claimed /\ jobs' \subseteq jobs \cup {starter[s].run}
      BY <1>5 DEF Enqueue, StarterAt, Starter
    <2>2. \A t \in Starters : OwnRun(t)'
      BY <2>1, RunsStay DEF Spawned, HasRun, OwnRun
    <2>3. \A q \in jobs' \cup claimed' : run'[q] # "none"
      BY <2>1, RunsStay DEF Spawned, HasRun, OwnRun
    <2>4. QED
      BY <1>1, <2>2, <2>3 DEF Spawned, OwnRun, HasRun
  <1>6. CASE ClaimForRun(s)
    <2>1. /\ starter[s].pc = "claim" /\ UNCHANGED jobs
          /\ claimed' = claimed \/ claimed' = claimed \cup {starter[s].run}
          /\ StarterAt(s, "cancel") \/ Return(s)
      BY <1>6 DEF ClaimForRun, Claim, Hold
    <2>2. /\ \/ starter'[s].pc = "idle"
             \/ starter'[s].pc = "cancel" /\ starter'[s].run = starter[s].run
          /\ \A t \in Starters \ {s} : starter'[t] = starter[t]
      BY <2>1 DEF StarterAt, Return, IdleStarter, Starter
    <2>3. QED
      BY <1>2, <2>1, <2>2, Zenon
  <1>7. CASE CancelSpawned(s) \/ CrashStarter(s)
    <2>1. UNCHANGED <<jobs, claimed>> /\ starter' = [starter EXCEPT ![s] = IdleStarter]
      BY <1>7 DEF CancelSpawned, HasRun, OwnRun, CrashStarter, Return
    <2>2. starter'[s].pc = "idle" /\ \A t \in Starters \ {s} : starter'[t] = starter[t]
      BY <2>1 DEF IdleStarter
    <2>3. QED
      BY <1>2, <2>1, <2>2, Zenon
  <1>8. QED
    BY <1>3, <1>4, <1>5, <1>6, <1>7 DEF StarterStep

LEMMA WorkerSpawnedStep ==
  ASSUME TypeOK, Spawned, [Next]_vars, NEW w \in Workers,
         HandleJob(w) \/ WorkerStep(w) \/ CrashWorker(w)
  PROVE  Spawned'
  <1> USE DEF TypeOK, RunTypeOK
  <1>1. UNCHANGED <<starter, claimed>>
    BY DEF HandleJob, WorkerStep, CrashWorker, RunHarness, ReadFresh, GetSchedule, ClearCurrentRun,
           PatchSchedule, DeliverResult
  <1>2. \A s \in Starters : OwnRun(s)'
    BY <1>1, RunsStay DEF Spawned, HasRun, OwnRun
  <1>3. /\ \A r \in jobs' : run[r] # "none"
        /\ \A v \in Workers \ {w} : worker'[v] = worker[v]
        /\ \/ worker'[w].pc = "idle"
           \/ worker'[w].run = worker[w].run /\ worker[w].pc # "idle"
           \/ worker'[w].run \in jobs
    <2>1. CASE HandleJob(w)
      <3>1. \A r \in jobs : run[r] # "none"
        BY DEF Spawned
      <3>2. PICK r \in jobs :
              \/ worker' = [worker EXCEPT ![w] = [IdleWorker EXCEPT !.pc = "get", !.run = r, !.status = run[r]]]
              \/ worker' = [worker EXCEPT ![w] = [IdleWorker EXCEPT !.pc = "work", !.run = r]]
        BY <2>1, Zenon DEF HandleJob
      <3>3. worker'[w].run = r
        BY <3>2 DEF IdleWorker
      <3>4. jobs' \subseteq jobs /\ \A v \in Workers \ {w} : worker'[v] = worker[v]
        BY <2>1 DEF HandleJob
      <3>5. QED
        BY <3>1, <3>2, <3>3, <3>4
    <2>2. CASE CrashWorker(w)
      BY <2>2 DEF CrashWorker, Spawned, HasRun, OwnRun, WorkerDone, IdleWorker
    <2>3. CASE WorkerStep(w)
      <3>1. jobs' = jobs /\ worker[w].pc # "idle"
        BY <2>3 DEF WorkerStep, RunHarness, ReadFresh, GetSchedule, ClearCurrentRun, PatchSchedule, DeliverResult
      <3>2. CASE ReadFresh(w) \/ GetSchedule(w)
        BY <3>1, <3>2 DEF ReadFresh, GetSchedule, WorkerDone, IdleWorker, Spawned, HasRun, OwnRun, Worker
      <3>3. CASE \E pc : WorkerAt(w, pc)
        BY <3>1, <3>3 DEF WorkerAt, WorkerDone, IdleWorker,
             Spawned, HasRun, OwnRun, Worker
      <3>4. CASE PatchSchedule(w) \/ DeliverResult(w)
        BY <3>1, <3>4 DEF PatchSchedule, DeliverResult, WorkerAt, WorkerDone, IdleWorker,
             Spawned, HasRun, OwnRun, Worker
      <3>5. QED
        BY <2>3, <3>2, <3>3, <3>4 DEF WorkerStep, RunHarness, ClearCurrentRun
    <2>4. QED
      BY <2>1, <2>2, <2>3
  <1>4. \A v \in Workers : HasRun(v)'
    <2>1. \A v \in Workers \ {w} : HasRun(v)'
      BY <1>3, RunsStay DEF HasRun, Spawned, OwnRun
    <2>2. HasRun(w)'
      <3>1. \A r \in jobs : r \in Runs /\ run[r] # "none"
        BY DEF Spawned, HasRun, OwnRun
      <3>2. QED
        BY <1>3, <3>1, RunsStay DEF HasRun, Spawned, OwnRun
    <2>3. QED
      BY <2>1, <2>2
  <1>5. \A r \in jobs' \cup claimed' : run'[r] # "none"
    <2>1. TypeOK'
      BY WorkerTypeStep
    <2>2. \A r \in jobs' \cup claimed' : r \in Runs /\ run[r] # "none"
      BY <1>1, <1>3, <2>1 DEF Spawned, HasRun, OwnRun
    <2>3. QED
      BY <2>2, RunsStay
  <1>6. QED
    BY <1>2, <1>4, <1>5 DEF Spawned, OwnRun, HasRun

LEMMA SpawnedStep == TypeOK /\ Spawned /\ [Next]_vars => Spawned'
  <1> SUFFICES ASSUME TypeOK, Spawned, [Next]_vars
               PROVE  Spawned'
    OBVIOUS
  <1> USE DEF TypeOK, RunTypeOK
  <1>1. CASE RunDue \/ UserRun \/ UNCHANGED vars \/ \E status \in Status : SetStatus(status)
    <2>1. UNCHANGED <<starter, worker, claimed>>
      BY <1>1 DEF RunDue, UserRun, vars, SetStatus
    <2>2. \A r \in jobs' : r \in Runs /\ run'[r] # "none"
      <3>1. CASE jobs' = jobs
        BY <3>1, RunsStay DEF Spawned, HasRun, OwnRun
      <3>2. CASE \E r \in Runs : Reply(r)
        <4>1. PICK r \in Runs : Reply(r)
          BY <3>2
        <4>2. jobs' = jobs \cup {r} /\ run'[r] = "queued"
          BY <4>1 DEF Reply, SetRun
        <4>3. QED
          BY <4>2, RunsStay DEF Spawned, HasRun, OwnRun
      <3>3. QED
        BY <1>1, <3>1, <3>2 DEF RunDue, UserRun, vars, SetStatus, CancelRun, FinishRun
    <2>3. \A s \in Starters : OwnRun(s)'
      BY <2>1, RunsStay DEF Spawned, HasRun, OwnRun
    <2>4. \A w \in Workers : HasRun(w)'
      BY <2>1, RunsStay DEF HasRun, Spawned, OwnRun
    <2>5. \A r \in claimed' : run'[r] # "none"
      BY <2>1, RunsStay DEF Spawned, HasRun, OwnRun
    <2>6. QED
      BY <2>2, <2>3, <2>4, <2>5 DEF Spawned, OwnRun, HasRun
  <1>2. QED
    BY <1>1, StarterSpawnedStep, WorkerSpawnedStep DEF Next

LEMMA Inductive == Spec => [](TypeOK /\ Spawned)
  <1>1. Init => TypeOK /\ Spawned
    BY TypeInit DEF Init, RunInit, Spawned, OwnRun, HasRun, IdleStarter, IdleWorker
  <1>2. TypeOK /\ Spawned /\ [Next]_vars => (TypeOK /\ Spawned)'
    BY TypeStep, SpawnedStep
  <1>3. QED
    BY <1>1, <1>2, PTL DEF Spec

\* The row, the runs, the jobs and every goroutine stay within the code's
\* statuses and bounds, whatever users do, fails or crashes.
THEOREM TypeCorrect == Spec => []TypeOK
  BY Inductive, PTL

-----------------------------------------------------------------------------
(* The row implements RowTenure *)

LEMMA TenureStep ==
  ASSUME TypeOK, Spawned, [Next]_vars
  PROVE  [Tenure!Next]_<<sch.current, claimed>>
  <1> USE DEF TypeOK, RunTypeOK
  <1>1. CASE UNCHANGED claimed /\ sch'.current \in {sch.current, NoRun}
    BY <1>1 DEF Tenure!Next, Tenure!Leave
  <1>2. ASSUME NEW s \in Starters, starter[s].pc = "claim", Startable(sch), Claim(s)
        PROVE  Tenure!Next
    <2>1. starter[s].run \in Runs /\ starter[s].run \notin claimed
      BY <1>2 DEF Spawned, OwnRun
    <2>2. sch'.current = starter[s].run /\ claimed' = claimed \cup {starter[s].run} /\ sch.current = NoRun
      BY <1>2 DEF Claim, Hold, Startable, Schedule
    <2>3. Tenure!Take(starter[s].run)
      BY <2>1, <2>2 DEF Tenure!Take
    <2>4. QED
      BY <2>1, <2>3 DEF Tenure!Next
  <1>3. CASE UNCHANGED <<sch, claimed>>
    BY <1>1, <1>3
  <1>4. ASSUME NEW s \in Starters,
               ListDueActive(s) \/ RunNow(s) \/ Resume(s) \/ StarterStep(s) \/ CrashStarter(s)
        PROVE  [Tenure!Next]_<<sch.current, claimed>>
    <2>1. CASE Resume(s)
      BY <1>1, <2>1 DEF Resume, Schedule
    <2>2. CASE ClaimForRun(s)
      BY <1>2, <1>3, <2>2 DEF ClaimForRun
    <2>3. QED
      BY <1>3, <1>4, <2>1, <2>2 DEF ListDueActive, RunNow, StarterStep, CrashStarter, Create,
         Enqueue, CancelSpawned
  <1>5. ASSUME NEW w \in Workers, HandleJob(w) \/ WorkerStep(w) \/ CrashWorker(w)
        PROVE  [Tenure!Next]_<<sch.current, claimed>>
    <2>1. CASE ClearCurrentRun(w)
      BY <1>1, <2>1 DEF ClearCurrentRun, Schedule
    <2>2. CASE PatchSchedule(w)
      BY <1>1, <2>2 DEF PatchSchedule, Schedule
    <2>3. QED
      BY <1>3, <1>5, <2>1, <2>2 DEF HandleJob, WorkerStep, CrashWorker, RunHarness, ReadFresh, GetSchedule,
         DeliverResult
  <1>6. CASE RunDue \/ \E status \in Status : SetStatus(status)
    BY <1>1, <1>6 DEF RunDue, SetStatus, Schedule
  <1>7. CASE UserRun \/ UNCHANGED vars
    BY <1>3, <1>7 DEF UserRun, vars
  <1>8. QED
    BY <1>4, <1>5, <1>6, <1>7 DEF Next

\* However many callers start, clear, complete and pause a goal at once, the row
\* goes to one run at a time and to none of them twice (ClaimForRun).
THEOREM ImplementsTenure == Spec => RunTenure
  <1>1. Init => Tenure!Init
    BY DEF Init, Created, Tenure!Init
  <1>2. QED
    BY <1>1, Inductive, TenureStep, PTL DEF Spec, RunTenure, Tenure!Spec

-----------------------------------------------------------------------------
(* One open run that keeps the row, for recurring goals: a one-shot is        *)
(* completed, and takes the row from the run that holds it, by the run of a   *)
(* lost race.                                                                 *)

\* AfterAgentRun is at work on the row on behalf of w's run.
Reporting(w) ==
  \/ worker[w].pc \in {"clear", "deliver", "patch"}
  \/ worker[w].pc = "get" /\ worker[w].status # "waiting_for_user"

\* The row points at the run that is open, and nobody is about to clear it: a
\* run that AfterAgentRun is called for, other than a waiting one, is open
\* again only after a reply.
Standing ==
  /\ \A r \in Held : Open(r) => sch.current = r
  /\ \A w \in Workers : Reporting(w) /\ Open(worker[w].run) => worker[w].run \in letGo
  /\ sch.once = FALSE

LEMMA StandingInit ==
  ASSUME TRUE \notin OneShots, Init
  PROVE  Standing
  <1>1. PICK once \in OneShots : sch = Created(once)
    BY DEF Init
  <1>2. once = FALSE
    BY CadenceAssumption
  <1>3. sch.once = FALSE
    BY <1>1, <1>2 DEF Created
  <1>4. QED
    BY <1>3 DEF Init, RunInit, Standing, Held, Reporting, IdleWorker

\* A step that neither takes the row from a run nor opens one.
LEMMA StandingKept ==
  ASSUME TypeOK, Spawned, Standing,
         UNCHANGED claimed, letGo \subseteq letGo', letGo' \subseteq Runs,
         sch'.current = sch.current, sch'.once = sch.once,
         \A r \in Runs : Open(r)' => \/ Open(r) \/ r \in letGo' \/ run[r] = "none",
         \A w \in Workers : \/ worker'[w] = worker[w]
                            \/ ~Reporting(w)'
                            \/ worker'[w].run = worker[w].run /\ Reporting(w)
                            \/ ~Open(worker[w].run)'
  PROVE  Standing'
  <1> USE DEF TypeOK, RunTypeOK
  <1>1. \A r \in Held' : Open(r)' => sch'.current = r
    <2> SUFFICES ASSUME NEW r \in claimed, r \notin letGo', Open(r)'
                 PROVE  sch.current = r
      BY DEF Held
    <2>1. r \in Held /\ run[r] # "none" /\ r \in Runs
      BY DEF Held, Spawned
    <2>2. QED
      BY <2>1 DEF Standing
  <1>2. ASSUME NEW w \in Workers, Reporting(w)', Open(worker[w].run)'
        PROVE  worker'[w].run \in letGo'
    <2>1. worker'[w].run = worker[w].run /\ Reporting(w)
      BY <1>2 DEF Reporting
    <2>2. worker[w].run \in Runs /\ run[worker[w].run] # "none"
      BY <2>1 DEF Spawned, HasRun, Reporting
    <2>3. Open(worker[w].run) \/ worker[w].run \in letGo'
      BY <1>2, <2>1, <2>2 DEF Open
    <2>4. QED
      BY <2>1, <2>3 DEF Standing
  <1>3. QED
    BY <1>1, <1>2 DEF Standing, Open

LEMMA StarterStandingStep ==
  ASSUME TypeOK, TypeOK', Spawned, Standing, NEW s \in Starters,
         ListDueActive(s) \/ RunNow(s) \/ Resume(s) \/ StarterStep(s) \/ CrashStarter(s)
  PROVE  Standing'
  <1> USE DEF TypeOK, RunTypeOK
  <1>1. worker' = worker
    BY DEF ListDueActive, RunNow, Resume, StarterStep, CrashStarter, Create, Enqueue, ClaimForRun,
           CancelSpawned
  <1>2. CASE UNCHANGED <<run, claimed, letGo>> /\ sch'.current = sch.current /\ sch'.once = sch.once
    BY <1>1, <1>2, StandingKept DEF Open
  <1>3. CASE Create(s) \/ CancelSpawned(s)
    <2>1. UNCHANGED <<claimed, letGo, sch>>
      BY <1>3 DEF Create, CancelSpawned
    <2>2. \A r \in Runs : Open(r)' => Open(r) \/ run[r] = "none"
      BY <1>3 DEF Create, CancelSpawned, SetRun, Unspawned, Open, Working
    <2>3. QED
      BY <1>1, <2>1, <2>2, StandingKept
  <1>4. ASSUME starter[s].pc = "claim", Startable(sch), Claim(s), run' = run
        PROVE  Standing'
    <2>1. /\ sch.current = NoRun /\ sch'.current = starter[s].run /\ sch'.once = sch.once
          /\ claimed' = claimed \cup {starter[s].run} /\ letGo \subseteq letGo'
      BY <1>4 DEF Startable, Claim, Hold, LetGo, Schedule
    <2>2. \A r \in Held : ~Open(r)
      BY <2>1, NoRunAssumption DEF Standing, Held
    <2>3. \A r \in Held' : Open(r)' => sch'.current = r
      BY <1>4, <2>1, <2>2 DEF Held, Open
    <2>4. QED
      BY <1>1, <1>4, <2>1, <2>3 DEF Standing, Reporting, Open
  <1>5. CASE ClaimForRun(s)
    BY <1>2, <1>4, <1>5 DEF ClaimForRun
  <1>6. CASE Resume(s)
    BY <1>2, <1>6 DEF Resume, Schedule
  <1>7. QED
    BY <1>2, <1>3, <1>5, <1>6 DEF ListDueActive, RunNow, StarterStep, CrashStarter, Enqueue

LEMMA WorkerStandingStep ==
  ASSUME TypeOK, TypeOK', Spawned, Standing, NEW w \in Workers,
         HandleJob(w) \/ WorkerStep(w) \/ CrashWorker(w)
  PROVE  Standing'
  <1> USE DEF TypeOK, RunTypeOK
  <1>1. UNCHANGED <<claimed, letGo>>
    BY DEF HandleJob, WorkerStep, CrashWorker, RunHarness, ReadFresh, GetSchedule, ClearCurrentRun,
           PatchSchedule, DeliverResult
  <1>2. \A v \in Workers \ {w} : worker'[v] = worker[v]
    BY DEF HandleJob, WorkerStep, CrashWorker, RunHarness, ReadFresh, GetSchedule, ClearCurrentRun,
           PatchSchedule, DeliverResult, WorkerAt, WorkerDone
  <1>3. CASE HandleJob(w)
    <2>1. sch' = sch
      BY <1>3 DEF HandleJob
    <2>2. PICK r \in jobs :
            \/ /\ run[r] \notin Working /\ run' = run
               /\ worker' = [worker EXCEPT ![w] =
                    [IdleWorker EXCEPT !.pc = "get", !.run = r, !.status = run[r]]]
            \/ /\ run[r] \in Working /\ SetRun(r, "running")
               /\ worker' = [worker EXCEPT ![w] = [IdleWorker EXCEPT !.pc = "work", !.run = r]]
      BY <1>3, Zenon DEF HandleJob
    <2>3. \A q \in Runs : Open(q)' => Open(q)
      BY <2>2 DEF SetRun, Open
    <2>a. \/ /\ run[r] \notin Working /\ run' = run
             /\ worker'[w].pc = "get" /\ worker'[w].run = r /\ worker'[w].status = run[r]
          \/ worker'[w].pc = "work"
      <3>1. CASE /\ run[r] \notin Working /\ run' = run
                 /\ worker' = [worker EXCEPT ![w] =
                      [IdleWorker EXCEPT !.pc = "get", !.run = r, !.status = run[r]]]
        BY <3>1 DEF IdleWorker
      <3>2. CASE worker' = [worker EXCEPT ![w] = [IdleWorker EXCEPT !.pc = "work", !.run = r]]
        BY <3>2 DEF IdleWorker
      <3>3. QED
        BY <2>2, <3>1, <3>2
    <2>4. ~Reporting(w)' \/ ~Open(worker[w].run)'
      BY <2>a DEF Reporting, Open
    <2>5. QED
      BY <1>1, <1>2, <2>1, <2>3, <2>4, StandingKept
  <1>4. CASE RunHarness(w)
    <2>1. sch' = sch /\ worker'[w].pc = "fresh"
      BY <1>4 DEF RunHarness, WorkerAt, Worker
    <2>2. \A q \in Runs : Open(q)' => Open(q)
      BY <1>4 DEF RunHarness, Harness, SetRun, Open, Working
    <2>3. ~Reporting(w)'
      BY <2>1 DEF Reporting
    <2>4. QED
      BY <1>1, <1>2, <2>1, <2>2, <2>3, StandingKept
  <1>5. ASSUME run' = run,
               \/ worker'[w] = IdleWorker
               \/ Reporting(w) /\ worker'[w].run = worker[w].run,
               sch'.current = sch.current, sch'.once = sch.once
        PROVE  Standing'
    <2>1. ~Reporting(w)' \/ (worker'[w].run = worker[w].run /\ Reporting(w))
      BY <1>5 DEF Reporting, IdleWorker
    <2>2. QED
      BY <1>1, <1>2, <1>5, <2>1, StandingKept DEF Open
  <1>6. CASE ReadFresh(w)
    <2>1. UNCHANGED <<run, sch>>
      BY <1>6 DEF ReadFresh
    <2>2. CASE /\ run[worker[w].run] \notin Working
               /\ worker' = [worker EXCEPT ![w].pc = "get", ![w].status = run[worker[w].run]]
      <3>1. ~Reporting(w)' \/ ~Open(worker[w].run)'
        BY <2>1, <2>2 DEF Reporting, Open, Worker
      <3>2. QED
        BY <1>1, <1>2, <2>1, <3>1, StandingKept DEF Open
    <2>3. CASE WorkerDone(w)
      BY <1>5, <2>1, <2>3 DEF WorkerDone
    <2>4. QED
      BY <1>6, <2>2, <2>3 DEF ReadFresh
  <1>7. CASE GetSchedule(w)
    <2>1. UNCHANGED <<run, sch>>
      BY <1>7 DEF GetSchedule
    <2>2. \/ worker'[w] = IdleWorker
          \/ Reporting(w) /\ worker'[w].run = worker[w].run
      BY <1>7 DEF GetSchedule, WorkerDone, Reporting, Worker
    <2>3. QED
      BY <1>5, <2>1, <2>2
  <1>8. CASE DeliverResult(w) \/ PatchSchedule(w) \/ CrashWorker(w)
    <2>1. run' = run /\ sch'.current = sch.current /\ sch'.once = sch.once
      BY <1>8 DEF DeliverResult, PatchSchedule, CrashWorker, Standing, Schedule
    <2>2. \/ worker'[w] = IdleWorker
          \/ Reporting(w) /\ worker'[w].run = worker[w].run
      BY <1>8 DEF DeliverResult, PatchSchedule, CrashWorker, WorkerAt, WorkerDone, Reporting, Worker
    <2>3. QED
      BY <1>5, <2>1, <2>2
  <1>9. CASE ClearCurrentRun(w)
    <2>1. /\ run' = run /\ Reporting(w) /\ sch'.once = sch.once
          /\ worker'[w].run = worker[w].run
          /\ sch'.current = sch.current \/ sch.current = worker[w].run
      BY <1>9 DEF ClearCurrentRun, WorkerAt, Worker, Schedule, Reporting
    <2>2. CASE sch'.current = sch.current
      BY <1>5, <2>1, <2>2
    <2>3. CASE sch.current = worker[w].run
      <3>1. \A r \in Held' : Open(r)' => sch'.current = r
        BY <1>1, <2>1, <2>3 DEF Standing, Held, Open
      <3>2. \A v \in Workers : Reporting(v)' /\ Open(worker[v].run)' => worker'[v].run \in letGo'
        BY <1>1, <1>2, <2>1 DEF Standing, Reporting, Open
      <3>3. QED
        BY <2>1, <3>1, <3>2 DEF Standing
    <2>4. QED
      BY <2>1, <2>2, <2>3
  <1>10. QED
    BY <1>3, <1>4, <1>6, <1>7, <1>8, <1>9 DEF WorkerStep

LEMMA StandingStep ==
  ASSUME TypeOK, TypeOK', Spawned, Standing, [Next]_vars
  PROVE  Standing'
  <1> USE DEF TypeOK, RunTypeOK
  <1>1. CASE RunDue \/ UNCHANGED vars
    <2>1. UNCHANGED <<run, worker, claimed, letGo>> /\ sch'.current = sch.current /\ sch'.once = sch.once
      BY <1>1 DEF RunDue, vars, Schedule
    <2>2. QED
      BY <2>1, StandingKept DEF Open
  <1>2. CASE UserRun
    <2>1. UNCHANGED <<sch, worker, claimed>> /\ letGo \subseteq letGo'
      BY <1>2 DEF UserRun, CancelRun, FinishRun, Reply, LetGo
    <2>2. \A r \in Runs : Open(r)' => Open(r) \/ r \in letGo'
      BY <1>2, NoRunAssumption DEF UserRun, CancelRun, FinishRun, Reply, LetGo, SetRun, Open, Working
    <2>3. QED
      BY <2>1, <2>2, StandingKept
  <1>3. ASSUME NEW status \in Status, SetStatus(status)
        PROVE  Standing'
    <2>1. UNCHANGED <<run, worker, claimed>> /\ letGo \subseteq letGo' /\ sch'.once = sch.once
      BY <1>3 DEF SetStatus, LetGo, Schedule
    <2>2. \A r \in Held' : Open(r)' => sch'.current = r
      BY <1>3, <2>1, NoRunAssumption DEF Standing, Held, SetStatus, LetGo, Schedule, Open
    <2>3. QED
      BY <2>1, <2>2 DEF Standing, Reporting, Open
  <1>4. QED
    BY <1>1, <1>2, <1>3, StarterStandingStep, WorkerStandingStep DEF Next

LEMMA Stands == ASSUME TRUE \notin OneShots PROVE Spec => [](TypeOK /\ Standing)
  <1>1. TypeOK /\ TypeOK' /\ Spawned /\ Standing /\ [Next]_vars => Standing'
    BY StandingStep
  <1>2. Init => Standing
    BY StandingInit
  <1>3. QED
    BY <1>1, <1>2, Inductive, PTL DEF Spec

\* Whatever races, fails, crashes or is cancelled, a recurring goal has at most
\* one open run (ClaimForRun).
THEOREM OneRun == ASSUME TRUE \notin OneShots PROVE Spec => []OneOpenRun
  <1>1. TypeOK /\ Standing => OneOpenRun
    <2> SUFFICES ASSUME TypeOK, Standing PROVE OneOpenRun
      OBVIOUS
    <2>1. {r \in Held : Open(r)} \subseteq {sch.current}
      BY DEF Standing
    <2>2. /\ IsFiniteSet({sch.current}) /\ Cardinality({sch.current}) = 1
      BY FS_Singleton
    <2>3. Cardinality({r \in Held : Open(r)}) <= 1
      BY <2>1, <2>2, FS_Subset
    <2>4. QED
      BY <2>3 DEF OneOpenRun
  <1>2. QED
    BY <1>1, Stands, PTL

\* A run of a recurring goal that waits for the user keeps the row until the user
\* takes it off its schedule (AfterAgentRun).
THEOREM WaitingKeeps == ASSUME TRUE \notin OneShots PROVE Spec => []WaitingKeepsRow
  <1>1. TypeOK /\ Standing => WaitingKeepsRow
    BY DEF Standing, WaitingKeepsRow, Open
  <1>2. QED
    BY <1>1, Stands, PTL
=============================================================================
