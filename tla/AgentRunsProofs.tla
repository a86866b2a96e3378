-------------------------- MODULE AgentRunsProofs ---------------------------
(***************************************************************************)
(* For any number of workers, requests and texts and any bounds: AgentRuns *)
(* is type correct, its timeline has no holes, and step_count names a step *)
(* that exists.  The last two are not inductive alone: they rest on every  *)
(* counter that an actor carries into an AppendStep being at most one past *)
(* a step that is already there.                                           *)
(***************************************************************************)
EXTENDS AgentRuns, TLAPS

\* seq names a step of the timeline, or the empty beginning of it.
Reached(seq) == seq = 0 \/ seq \in DOMAIN steps

WorkerCounter(w) ==
  /\ worker[w].pc = "insert" => worker[w].seq >= 1 /\ Reached(worker[w].seq - 1)
  /\ worker[w].pc = "count" => worker[w].seq \in DOMAIN steps
  \* fail() goes on to Finish although its step may not have been inserted.
  /\ worker[w].pc \notin {"insert", "count", "finRead", "finWrite"} => Reached(worker[w].seq)

RequestCounter(u) ==
  /\ request[u].pc = "doneInsert" => request[u].seq >= 1 /\ Reached(request[u].seq - 1)
  /\ request[u].pc = "doneCount" => request[u].seq \in DOMAIN steps

WorkerCounters == \A w \in Workers : WorkerCounter(w)
RequestCounters == \A u \in Requests : RequestCounter(u)

Timeline == TimelineGapFree /\ StepCountNamesAStep /\ WorkerCounters /\ RequestCounters

IInv == TypeOK /\ Timeline

-----------------------------------------------------------------------------
(* Helpers: what the moves of an actor leave in its locals *)

LEMMA GotoTyped ==
  ASSUME TypeOK, NEW w \in Workers, NEW pc \in WorkerPc, Goto(w, pc)
  PROVE  worker' \in [Workers -> WorkerState]
  BY DEF TypeOK, Goto, WorkerState

LEMMA StopTyped ==
  ASSUME TypeOK, NEW w \in Workers, Stop(w)
  PROVE  worker' \in [Workers -> WorkerState]
  BY DEF TypeOK, Stop, WorkerState, IdleWorker, WorkerPc, StepKind, Plan, ToolPlan, Key

LEMMA InsertLocals ==
  ASSUME NEW me \in WorkerState, NEW seq \in Nat, NEW kind \in StepKind,
         NEW msg \in Messages \cup {NoMessage}
  PROVE  [me EXCEPT !.pc = "insert", !.seq = seq, !.kind = kind, !.msg = msg] \in WorkerState
  BY DEF WorkerState, WorkerPc

LEMMA NextCallLocals ==
  ASSUME NEW me \in WorkerState, NEW seq \in Nat, NEW plan \in Plan, NEW calls \in Nat
  PROVE  [me EXCEPT !.pc = "insert", !.seq = seq, !.kind = "tool_call", !.plan = plan,
                    !.calls = calls] \in WorkerState
  BY DEF WorkerState, WorkerPc, StepKind

LEMMA LocalsTyped ==
  ASSUME TypeOK, NEW w \in Workers
  PROVE  /\ worker \in [Workers -> WorkerState] /\ worker[w] \in WorkerState
         /\ worker[w].seq \in Nat /\ worker[w].seq + 1 \in Nat
         /\ worker[w].rounds + 1 \in Nat /\ worker[w].calls \in Nat
         /\ worker[w].calls > 1 => worker[w].calls - 1 \in Nat
  BY DEF TypeOK, WorkerState

LEMMA AppendTyped ==
  ASSUME TypeOK, NEW w \in Workers, NEW kind \in StepKind,
         NEW msg \in Messages \cup {NoMessage}, Append(w, kind, msg)
  PROVE  worker' \in [Workers -> WorkerState]
  <1> DEFINE next == [worker[w] EXCEPT !.pc = "insert", !.seq = worker[w].seq + 1,
                                       !.kind = kind, !.msg = msg]
  <1>1. next \in WorkerState
    BY LocalsTyped, InsertLocals
  <1>2. worker' = [worker EXCEPT ![w] = next]
    BY DEF Append
  <1> HIDE DEF next
  <1>3. QED
    BY <1>1, <1>2, LocalsTyped

LEMMA LoopTyped ==
  ASSUME TypeOK, NEW w \in Workers, NEW rounds \in Nat, Loop(w, rounds)
  PROVE  worker' \in [Workers -> WorkerState]
  BY DEF TypeOK, Loop, WorkerState, IdleWorker, WorkerPc, StepKind, Plan, ToolPlan, Key

LEMMA ProceedTyped ==
  ASSUME TypeOK, NEW w \in Workers, Proceed(w)
  PROVE  worker' \in [Workers -> WorkerState]
  <1> DEFINE me == worker[w]
  <1>1. CASE /\ me.kind = "tool_result" /\ me.plan # "finish" /\ me.calls > 1
             /\ \E plan \in ToolPlan :
                  worker' = [worker EXCEPT ![w] = [@ EXCEPT !.pc = "insert",
                    !.seq = worker[w].seq + 1, !.kind = "tool_call", !.plan = plan,
                    !.calls = me.calls - 1]]
    <2>1. PICK plan \in ToolPlan : worker' = [worker EXCEPT ![w] = [worker[w] EXCEPT
             !.pc = "insert", !.seq = worker[w].seq + 1, !.kind = "tool_call",
             !.plan = plan, !.calls = worker[w].calls - 1]]
      BY <1>1
    <2> DEFINE next == [worker[w] EXCEPT !.pc = "insert", !.seq = worker[w].seq + 1,
             !.kind = "tool_call", !.plan = plan, !.calls = worker[w].calls - 1]
    <2>2. plan \in Plan
      BY DEF Plan
    <2>3. next \in WorkerState
      BY <1>1, <2>2, LocalsTyped, NextCallLocals
    <2> HIDE DEF next
    <2>4. worker' = [worker EXCEPT ![w] = next]
      BY <2>1 DEF next
    <2>5. QED
      BY <2>3, <2>4, LocalsTyped
  <1>2. CASE \E pc \in {"clear", "succeed", "ledger", "tool", "waitRead", "finRead"} :
               Goto(w, pc)
    BY <1>2, GotoTyped DEF WorkerPc
  <1>3. CASE \E kind \in {"approval_request", "tool_call"} : Append(w, kind, NoMessage)
    BY <1>3, AppendTyped DEF StepKind
  <1>4. CASE \E rounds \in {0, me.rounds + 1} : Loop(w, rounds)
    BY <1>4, LoopTyped, LocalsTyped
  <1>5. QED
    BY <1>1, <1>2, <1>3, <1>4 DEF Proceed

LEMMA GotoRTyped ==
  ASSUME TypeOK, NEW u \in Requests, NEW pc \in RequestPc, GotoR(u, pc),
         request[u].pc # "enqueue"
  PROVE  request' \in [Requests -> RequestState]
  <1>1. [request[u] EXCEPT !.pc = pc] \in RequestState
    BY DEF TypeOK, RequestState, RequestLocals
  <1>2. QED
    BY <1>1 DEF TypeOK, GotoR

LEMMA EndTyped ==
  ASSUME TypeOK, NEW u \in Requests, End(u)
  PROVE  request' \in [Requests -> RequestState]
  <1>1. IdleRequest \in RequestState
    BY DEF RequestState, RequestLocals, IdleRequest, RequestPc, Key
  <1>2. QED
    BY <1>1 DEF TypeOK, End

LEMMA SpendTyped ==
  ASSUME TypeOK, NEW what \in {"requests", "errors", "lapses", "disconnects"}, NEW bound, Spend(what, bound)
  PROVE  spent' \in [{"requests", "errors", "lapses", "disconnects"} -> Nat]
  BY DEF TypeOK, Spend

LEMMA PatchesTyped ==
  ASSUME NEW r \in Row
  PROVE  /\ \A owner \in Owners : HeartbeatPatch(r, owner) \in Row
         /\ \A seq \in Nat : StepCountPatch(r, seq) \in Row
         /\ \A msg \in Messages \cup {NoMessage} : RedirectPatch(r, msg) \in Row
         /\ CancelPatch(r) \in Row /\ WaitPatch(r) \in Row /\ RequeuePatch(r) \in Row
         /\ \A status \in Status, result \in Result : FinishPatch(r, status, result) \in Row
  <1> USE DEF Row, Status, TerminalStatus, Result
  <1>1. \A owner \in Owners : HeartbeatPatch(r, owner) \in Row
    BY DEF HeartbeatPatch
  <1>2. \A seq \in Nat : StepCountPatch(r, seq) \in Row
    BY DEF StepCountPatch
  <1>3. \A msg \in Messages \cup {NoMessage} : RedirectPatch(r, msg) \in Row
    BY DEF RedirectPatch
  <1>4. CancelPatch(r) \in Row /\ WaitPatch(r) \in Row /\ RequeuePatch(r) \in Row
    BY DEF CancelPatch, WaitPatch, RequeuePatch
  <1>5. \A status \in Status, result \in Result : FinishPatch(r, status, result) \in Row
    <2> TAKE status \in Status, result \in Result
    <2> DEFINE kept == IF status = "failed" THEN r.result ELSE result
    <2>1. kept \in Result
      OBVIOUS
    <2> HIDE DEF kept
    <2>2. [r EXCEPT !.status = status, !.owner = NoOwner, !.redirect = NoMessage,
                    !.result = kept] \in Row
      BY <2>1
    <2>3. QED
      BY <2>2 DEF FinishPatch, kept
  <1>6. QED
    BY <1>1, <1>2, <1>3, <1>4, <1>5

LEMMA JobsTyped ==
  ASSUME TypeOK, NEW key \in Key
  PROVE  /\ Enqueued(key) \subseteq Job /\ Completed(key) \subseteq Job
         /\ Failed(key) \subseteq Job
         /\ \A j \in jobs : /\ WithStatus(j, "running") \subseteq Job
                           /\ WithStatus(j, "lapsed") \subseteq Job
  <1>1. jobs \subseteq Job
    BY DEF TypeOK
  <1>2. Enqueued(key) \subseteq Job
    BY <1>1, BoundsAssumption DEF Enqueued, Job
  <1>3. Completed(key) \subseteq Job
    BY <1>1 DEF Completed
  <1>4. Failed(key) \subseteq Job
    <2>1. \A i \in Job : i.attempts + 1 < MaxAttempts => i.attempts + 1 \in 0..MaxAttempts
      BY BoundsAssumption DEF Job
    <2>2. \A i \in Job, n \in 0..MaxAttempts :
             [i EXCEPT !.status = "pending", !.attempts = n] \in Job
      BY DEF Job
    <2>3. ASSUME NEW i \in jobs, i.attempts + 1 < MaxAttempts
          PROVE  [i EXCEPT !.status = "pending", !.attempts = i.attempts + 1] \in Job
      BY <1>1, <2>1, <2>2, <2>3
    <2>4. QED
      BY <1>1, <2>3 DEF Failed
  <1>5. \A j \in jobs : /\ WithStatus(j, "running") \subseteq Job
                       /\ WithStatus(j, "lapsed") \subseteq Job
    BY <1>1 DEF WithStatus, Job
  <1>6. QED
    BY <1>2, <1>3, <1>4, <1>5

LEMMA DecidersTyped ==
  ASSUME NEW a
  PROVE  Deciders(a) \subseteq Workers \cup Requests
  BY DEF Deciders

-----------------------------------------------------------------------------
(* Type correctness *)

LEMMA InitTyped == Init => TypeOK
  <1> SUFFICES ASSUME Init PROVE TypeOK
    OBVIOUS
  <1>1. row \in Row
    BY DEF Init, NewRow, Row, Status, Result
  <1>2. worker \in [Workers -> WorkerState]
    BY DEF Init, WorkerState, IdleWorker, WorkerPc, StepKind, Plan, ToolPlan, Key
  <1>3. request \in [Requests -> RequestState]
    <2>1. /\ IdleRequest \in RequestState
          /\ [IdleRequest EXCEPT !.pc = "enqueue", !.seq = SpawnKey] \in RequestState
      BY DEF RequestState, RequestLocals, IdleRequest, RequestPc, Key
    <2>2. QED
      BY <2>1 DEF Init
  <1>4. QED
    BY <1>1, <1>2, <1>3 DEF Init, TypeOK

LEMMA ClaimsTyped ==
  ASSUME TypeOK, NEW w \in Workers,
         Claim(w) \/ Crash(w) \/ Complete(w) \/ Abort(w)
  PROVE  TypeOK'
  <1>0. worker[w].key \in Key /\ IdleWorker \in WorkerState
    BY DEF TypeOK, WorkerState, IdleWorker, WorkerPc, StepKind, Plan, ToolPlan, Key, SpawnKey
  <1>1. CASE Claim(w)
    <2>1. PICK j \in jobs : /\ jobs' = WithStatus(j, "running")
                            /\ worker' = [worker EXCEPT ![w] =
                                 [IdleWorker EXCEPT !.pc = "get", !.key = j.key]]
      BY <1>1 DEF Claim
    <2>2. [IdleWorker EXCEPT !.pc = "get", !.key = j.key] \in WorkerState
      BY <1>0 DEF TypeOK, WorkerState, WorkerPc, Job
    <2>3. worker' \in [Workers -> WorkerState]
      BY <2>1, <2>2 DEF TypeOK
    <2>4. jobs' \subseteq Job
      BY <1>0, <2>1, JobsTyped
    <2>5. QED
      BY <1>1, <2>3, <2>4 DEF Claim, TypeOK, history
  <1>2. CASE Crash(w)
    <2>1. worker' \in [Workers -> WorkerState]
      BY <1>0, <1>2 DEF Crash, TypeOK
    <2>2. jobs' \subseteq Job
      BY <1>2 DEF Crash, TypeOK, Job
    <2>3. spent' \in [{"requests", "errors", "lapses", "disconnects"} -> Nat]
      BY <1>2, SpendTyped DEF Crash
    <2>4. QED
      BY <1>2, <2>1, <2>2, <2>3 DEF Crash, TypeOK
  <1>3. CASE Complete(w)
    <2>1. worker' \in [Workers -> WorkerState] /\ jobs' \subseteq Job
      BY <1>0, <1>3, JobsTyped DEF Complete, TypeOK
    <2>2. QED
      BY <1>3, <2>1 DEF Complete, TypeOK, history
  <1>4. CASE Abort(w)
    <2>1. worker' \in [Workers -> WorkerState] /\ jobs' \subseteq Job
      BY <1>0, <1>4, JobsTyped DEF Abort, TypeOK
    <2>2. spent' \in [{"requests", "errors", "lapses", "disconnects"} -> Nat]
      BY <1>4, SpendTyped DEF Abort
    <2>3. QED
      BY <1>4, <2>1, <2>2 DEF Abort, TypeOK
  <1>5. QED
    BY <1>1, <1>2, <1>3, <1>4

LEMMA LapseTyped == ASSUME TypeOK, Lapse PROVE TypeOK'
  <1>1. jobs' \subseteq Job
    BY JobsTyped DEF Lapse, Key
  <1>2. spent' \in [{"requests", "errors", "lapses", "disconnects"} -> Nat]
    BY SpendTyped DEF Lapse
  <1>3. QED
    BY <1>1, <1>2 DEF Lapse, TypeOK, history

\* The actions of run() change the row by a patch, the timeline by one step and
\* the locals of w by one of the moves above.
LEMMA HarnessTyped ==
  ASSUME TypeOK, NEW w \in Workers,
         \/ GetRun(w) \/ HeartbeatRead(w) \/ HeartbeatWrite(w) \/ Bootstrap(w)
         \/ InsertStep(w) \/ CountStep(w) \/ LoopGet(w) \/ ClearRedirect(w) \/ CallLLM(w)
         \/ AfterLLM(w) \/ RecordRequest(w) \/ HandleTool(w) \/ WaitRead(w) \/ WaitWrite(w)
         \/ Succeed(w) \/ Fail(w) \/ FinishRead(w) \/ FinishWrite(w)
  PROVE  TypeOK'
  <1> DEFINE Spent == [{"requests", "errors", "lapses", "disconnects"} -> Nat]
  <1>0. row \in Row /\ worker[w] \in WorkerState /\ worker[w].seq \in Nat
        /\ worker[w].msg \in Messages \cup {NoMessage} /\ row.redirect \in Messages \cup {NoMessage}
    BY DEF TypeOK, WorkerState, Row
  <1>1. CASE GetRun(w)
    <2>1. worker' \in [Workers -> WorkerState]
      BY <1>1, GotoTyped, StopTyped DEF GetRun, WorkerPc
    <2>2. QED
      BY <1>1, <2>1 DEF GetRun, TypeOK, history
  <1>2. CASE HeartbeatRead(w)
    <2>1. worker' \in [Workers -> WorkerState]
      BY <1>2, GotoTyped DEF HeartbeatRead, AfterHeartbeat, WorkerPc
    <2>2. QED
      BY <1>2, <2>1 DEF HeartbeatRead, TypeOK, history
  <1>3. CASE HeartbeatWrite(w)
    <2>1. worker' \in [Workers -> WorkerState]
      BY <1>3, GotoTyped DEF HeartbeatWrite, AfterHeartbeat, WorkerPc
    <2>2. row' \in Row
      BY <1>0, <1>3, OwnerAssumption, PatchesTyped DEF HeartbeatWrite
    <2>3. QED
      BY <1>3, <2>1, <2>2 DEF HeartbeatWrite, TypeOK
  <1>4. CASE Bootstrap(w)
    <2>1. worker' \in [Workers -> WorkerState] /\ spent' \in Spent
      <3>1. CASE Spend("errors", MaxErrors) /\ Goto(w, "fail")
        BY <3>1, GotoTyped, SpendTyped DEF WorkerPc
      <3>2. CASE /\ UNCHANGED spent
                 /\ \E seq \in {0} \cup DOMAIN steps : worker' = [worker EXCEPT ![w] =
                      [@ EXCEPT !.pc = "insert", !.seq = seq + 1, !.kind = "status",
                                !.msg = NoMessage]]
        <4>1. PICK seq \in {0} \cup DOMAIN steps : worker' = [worker EXCEPT ![w] =
                 [worker[w] EXCEPT !.pc = "insert", !.seq = seq + 1, !.kind = "status",
                                   !.msg = NoMessage]]
          BY <3>2
        <4> DEFINE next == [worker[w] EXCEPT !.pc = "insert", !.seq = seq + 1,
                                             !.kind = "status", !.msg = NoMessage]
        <4>2. seq + 1 \in Nat /\ "status" \in StepKind
          BY DEF TypeOK, StepKind
        <4>3. next \in WorkerState
          BY <1>0, <4>2, InsertLocals
        <4> HIDE DEF next
        <4>4. worker' = [worker EXCEPT ![w] = next]
          BY <4>1 DEF next
        <4>5. QED
          BY <3>2, <4>3, <4>4 DEF TypeOK
      <3>3. QED
        BY <1>4, <3>1, <3>2 DEF Bootstrap
    <2>2. QED
      BY <1>4, <2>1 DEF Bootstrap, TypeOK, history
  <1>5. CASE InsertStep(w)
    <2>1. worker' \in [Workers -> WorkerState] /\ spent' \in Spent
      BY <1>5, GotoTyped, ProceedTyped, SpendTyped DEF InsertStep, WorkerPc, TypeOK
    <2>2. steps' = steps \/ steps' = WithStep(steps, worker[w].seq, worker[w].msg)
      BY <1>5 DEF InsertStep
    <2>3. /\ DOMAIN steps' \subseteq Nat
          /\ \A n \in DOMAIN steps' : steps'[n] \in Messages \cup {NoMessage}
      BY <1>0, <2>2 DEF WithStep, TypeOK
    <2>4. QED
      BY <1>5, <2>1, <2>3 DEF InsertStep, TypeOK, history
  <1>6. CASE CountStep(w)
    <2>1. worker' \in [Workers -> WorkerState] /\ spent' \in Spent
      BY <1>6, ProceedTyped, SpendTyped DEF CountStep, TypeOK
    <2>2. row' \in Row
      BY <1>0, <1>6, PatchesTyped DEF CountStep
    <2>3. QED
      BY <1>6, <2>1, <2>2 DEF CountStep, TypeOK, history
  <1>7. CASE LoopGet(w)
    <2>1. worker' \in [Workers -> WorkerState]
      BY <1>0, <1>7, GotoTyped, StopTyped, AppendTyped DEF LoopGet, WorkerPc, StepKind
    <2>2. QED
      BY <1>7, <2>1 DEF LoopGet, TypeOK, history
  <1>8. CASE ClearRedirect(w)
    <2>1. [worker[w] EXCEPT !.pc = "hbRead", !.msg = NoMessage] \in WorkerState
      BY <1>0 DEF WorkerState, WorkerPc
    <2>2. worker' \in [Workers -> WorkerState] /\ spent' \in Spent
      BY <1>8, <2>1, SpendTyped DEF ClearRedirect, TypeOK
    <2>3. row' \in Row
      BY <1>0, <1>8, PatchesTyped DEF ClearRedirect
    <2>4. QED
      BY <1>8, <2>2, <2>3 DEF ClearRedirect, TypeOK, history
  <1>9. CASE CallLLM(w)
    <2>1. worker' \in [Workers -> WorkerState]
      <3>1. CASE Goto(w, "fail")
        BY <3>1, GotoTyped DEF WorkerPc
      <3>2. CASE \E plan \in Plan, calls \in 1..MaxCalls : worker' = [worker EXCEPT ![w] =
                   [@ EXCEPT !.pc = "afterLLM", !.plan = plan, !.calls = calls]]
        <4>1. \A plan \in Plan, calls \in Nat :
                [worker[w] EXCEPT !.pc = "afterLLM", !.plan = plan, !.calls = calls]
                  \in WorkerState
          BY <1>0 DEF WorkerState, WorkerPc
        <4>2. PICK plan \in Plan, calls \in 1..MaxCalls :
                 worker' = [worker EXCEPT ![w] = [worker[w] EXCEPT
                              !.pc = "afterLLM", !.plan = plan, !.calls = calls]]
          BY <3>2
        <4>3. calls \in Nat
          BY BoundsAssumption
        <4>4. QED
          BY <4>1, <4>2, <4>3 DEF TypeOK
      <3>3. QED
        BY <1>9, <3>1, <3>2 DEF CallLLM
    <2>2. QED
      BY <1>9, <2>1 DEF CallLLM, TypeOK, history
  <1>10. CASE AfterLLM(w)
    <2>1. worker' \in [Workers -> WorkerState]
      BY <1>10, StopTyped, AppendTyped DEF AfterLLM, StepKind
    <2>2. QED
      BY <1>10, <2>1 DEF AfterLLM, TypeOK, history
  <1>11. CASE RecordRequest(w)
    <2>1. worker' \in [Workers -> WorkerState] /\ spent' \in Spent /\ ledger' \in BOOLEAN
      BY <1>11, AppendTyped, SpendTyped DEF RecordRequest, StepKind, TypeOK
    <2>2. QED
      BY <1>11, <2>1 DEF RecordRequest, TypeOK, history
  <1>12. CASE HandleTool(w)
    <2>1. worker' \in [Workers -> WorkerState]
      BY <1>12, AppendTyped DEF HandleTool, StepKind
    <2>2. QED
      BY <1>12, <2>1 DEF HandleTool, TypeOK, history
  <1>13. CASE WaitRead(w)
    <2>1. worker' \in [Workers -> WorkerState]
      BY <1>13, GotoTyped, StopTyped DEF WaitRead, WorkerPc
    <2>2. QED
      BY <1>13, <2>1 DEF WaitRead, TypeOK, history
  <1>14. CASE WaitWrite(w)
    <2>1. worker' \in [Workers -> WorkerState] /\ row' \in Row
      BY <1>0, <1>14, StopTyped, PatchesTyped DEF WaitWrite
    <2>2. QED
      BY <1>14, <2>1 DEF WaitWrite, TypeOK
  <1>15. CASE Succeed(w)
    <2>1. worker' \in [Workers -> WorkerState]
      BY <1>15, GotoTyped, StopTyped DEF Succeed, WorkerPc
    <2>2. QED
      BY <1>15, <2>1 DEF Succeed, TypeOK, history
  <1>16. CASE Fail(w)
    <2>1. worker' \in [Workers -> WorkerState]
      BY <1>16, AppendTyped, StopTyped DEF Fail, StepKind
    <2>2. QED
      BY <1>16, <2>1 DEF Fail, TypeOK, history
  <1>17. CASE FinishRead(w)
    <2>1. worker' \in [Workers -> WorkerState]
      BY <1>17, GotoTyped, StopTyped DEF FinishRead, WorkerPc
    <2>2. QED
      BY <1>17, <2>1 DEF FinishRead, TypeOK, history
  <1>18. CASE FinishWrite(w)
    <2>1. {"failed", "succeeded"} \subseteq Status /\ "answer" \in Result
      BY DEF Status, TerminalStatus, Result
    <2>2. worker' \in [Workers -> WorkerState] /\ row' \in Row
      BY <1>0, <1>18, <2>1, StopTyped, PatchesTyped DEF FinishWrite
    <2>3. stale' \subseteq Workers \cup Requests
      BY <1>18, DecidersTyped DEF FinishWrite
    <2>4. QED
      BY <1>18, <2>2, <2>3 DEF FinishWrite, TypeOK
  <1>19. QED
    BY <1>1, <1>2, <1>3, <1>4, <1>5, <1>6, <1>7, <1>8, <1>9, <1>10, <1>11, <1>12,
       <1>13, <1>14, <1>15, <1>16, <1>17, <1>18

\* The first action of a handler.
LEMMA StartTyped ==
  ASSUME TypeOK, NEW u \in Requests, NEW pc \in RequestPc \ {"enqueue"},
         NEW msg \in Messages \cup {NoMessage}, Start(u, pc, msg)
  PROVE  /\ request' \in [Requests -> RequestState] /\ used' \subseteq Messages
         /\ spent' \in [{"requests", "errors", "lapses", "disconnects"} -> Nat]
  <1>1. [IdleRequest EXCEPT !.pc = pc, !.msg = msg] \in RequestState
    BY DEF RequestState, RequestLocals, IdleRequest, Key
  <1>2. request' \in [Requests -> RequestState]
    BY <1>1 DEF Start, TypeOK
  <1>3. used' \subseteq Messages
    BY DEF Start, TypeOK
  <1>4. QED
    BY <1>2, <1>3, SpendTyped DEF Start

LEMMA UserTyped ==
  ASSUME TypeOK, NEW u \in Requests, UserAction(u) \/ Disconnect(u)
  PROVE  TypeOK'
  <1>1. CASE PostCancel(u)
    BY <1>1, StartTyped DEF PostCancel, RequestPc, TypeOK, history
  <1>2. CASE PostFinish(u)
    BY <1>2, StartTyped DEF PostFinish, RequestPc, TypeOK, history
  <1>3. CASE PostRedirect(u)
    BY <1>3, StartTyped DEF PostRedirect, RequestPc, TypeOK, history
  <1>4. CASE SettleApproval(u)
    BY <1>4, StartTyped DEF SettleApproval, RequestPc, TypeOK, history
  <1>5. CASE Disconnect(u)
    <2>1. /\ request' \in [Requests -> RequestState]
          /\ spent' \in [{"requests", "errors", "lapses", "disconnects"} -> Nat]
      BY <1>5, EndTyped, SpendTyped DEF Disconnect
    <2>2. QED
      BY <1>5, <2>1 DEF Disconnect, TypeOK
  <1>6. QED
    BY <1>1, <1>2, <1>3, <1>4, <1>5 DEF UserAction

LEMMA HandlerTyped ==
  ASSUME TypeOK, NEW u \in Requests, RequestStep(u)
  PROVE  TypeOK'
  <1> DEFINE Spent == [{"requests", "errors", "lapses", "disconnects"} -> Nat]
  <1>0. /\ row \in Row /\ row.stepCount \in Nat /\ row.stepCount + 1 \in Nat
        /\ request \in [Requests -> RequestState] /\ request[u] \in RequestState
        /\ request[u].msg \in Messages \cup {NoMessage} /\ request[u].seq \in Key
        /\ request[u].pc # "enqueue" => request[u].seq \in Nat
    BY DEF TypeOK, RequestState, RequestLocals, Row
  <1>1. CASE CancelRead(u)
    <2>1. request' \in [Requests -> RequestState]
      BY <1>1, GotoRTyped, EndTyped DEF CancelRead, RequestPc
    <2>2. QED
      BY <1>1, <2>1 DEF CancelRead, TypeOK, history
  <1>2. CASE CancelWrite(u)
    <2>1. request' \in [Requests -> RequestState] /\ row' \in Row
      BY <1>0, <1>2, EndTyped, PatchesTyped DEF CancelWrite
    <2>2. QED
      BY <1>2, <2>1, DecidersTyped DEF CancelWrite, TypeOK
  <1>3. CASE DoneRead(u)
    <2>1. \A seq \in Nat : [request[u] EXCEPT !.pc = "doneInsert", !.seq = seq] \in RequestState
      BY <1>0 DEF RequestState, RequestLocals, RequestPc, Key
    <2>2. request' \in [Requests -> RequestState]
      BY <1>0, <1>3, <2>1, EndTyped DEF DoneRead
    <2>3. QED
      BY <1>3, <2>2 DEF DoneRead, TypeOK, history
  <1>4. CASE DoneInsert(u)
    <2>1. request' \in [Requests -> RequestState] /\ spent' \in Spent
      BY <1>4, GotoRTyped, SpendTyped DEF DoneInsert, RequestPc, TypeOK
    <2>2. steps' = steps \/ steps' = WithStep(steps, request[u].seq, NoMessage)
      BY <1>4 DEF DoneInsert
    <2>3. /\ DOMAIN steps' \subseteq Nat
          /\ \A n \in DOMAIN steps' : steps'[n] \in Messages \cup {NoMessage}
      BY <1>0, <1>4, <2>2 DEF DoneInsert, WithStep, TypeOK
    <2>4. QED
      BY <1>4, <2>1, <2>3 DEF DoneInsert, TypeOK, history
  <1>5. CASE DoneCount(u)
    <2>1. request' \in [Requests -> RequestState] /\ spent' \in Spent
      BY <1>5, GotoRTyped, SpendTyped DEF DoneCount, RequestPc, TypeOK
    <2>2. row' \in Row
      BY <1>0, <1>5, PatchesTyped DEF DoneCount
    <2>3. QED
      BY <1>5, <2>1, <2>2 DEF DoneCount, TypeOK, history
  <1>6. CASE DoneFinishRead(u)
    <2>1. request' \in [Requests -> RequestState]
      BY <1>6, GotoRTyped, EndTyped DEF DoneFinishRead, RequestPc
    <2>2. QED
      BY <1>6, <2>1 DEF DoneFinishRead, TypeOK, history
  <1>7. CASE DoneFinishWrite(u)
    <2>1. "succeeded" \in Status /\ "closed_by_user" \in Result
      BY DEF Status, TerminalStatus, Result
    <2>2. request' \in [Requests -> RequestState] /\ row' \in Row
      BY <1>0, <1>7, <2>1, EndTyped, PatchesTyped DEF DoneFinishWrite
    <2>3. QED
      BY <1>7, <2>2, DecidersTyped DEF DoneFinishWrite, TypeOK
  <1>8. CASE SetRedirectRead(u)
    <2>1. request' \in [Requests -> RequestState]
      BY <1>8, GotoRTyped, EndTyped DEF SetRedirectRead, RequestPc
    <2>2. QED
      BY <1>8, <2>1 DEF SetRedirectRead, TypeOK, history
  <1>9. CASE SetRedirectWrite(u)
    <2> DEFINE settled(resume) == [request[u] EXCEPT !.pc = "settle", !.msg = NoMessage,
                                                     !.resume = resume]
    <2> DEFINE resumes == row.status \in {"waiting_for_user", "succeeded", "failed", "queued"}
    <2>1. settled(TRUE) \in RequestState /\ settled(FALSE) \in RequestState
      BY <1>0, <1>9 DEF SetRedirectWrite, RequestState, RequestLocals, RequestPc
    <2>2. resumes \in BOOLEAN
      OBVIOUS
    <2>3. /\ request' = [request EXCEPT ![u] = settled(resumes)]
          /\ replies' = IF resumes THEN {request[u].msg} ELSE {}
      BY <1>9, Zenon DEF SetRedirectWrite
    <2> HIDE DEF settled, resumes
    <2>4. request' \in [Requests -> RequestState]
      BY <1>0, <2>1, <2>2, <2>3
    <2>5. row' \in Row
      BY <1>0, <1>9, PatchesTyped DEF SetRedirectWrite
    <2>6. replies' \subseteq Messages \cup {NoMessage}
      BY <1>0, <2>3 DEF TypeOK, RequestState, RequestLocals
    <2>7. QED
      BY <1>9, <2>4, <2>5, <2>6 DEF SetRedirectWrite, TypeOK
  <1>10. CASE SettleLedger(u)
    <2>1. request' \in [Requests -> RequestState]
      BY <1>10, GotoRTyped, EndTyped DEF SettleLedger, RequestPc
    <2>2. QED
      BY <1>10, <2>1 DEF SettleLedger, TypeOK, history
  <1>11. CASE ResumeRead(u)
    <2>1. request' \in [Requests -> RequestState]
      BY <1>11, GotoRTyped, EndTyped DEF ResumeRead, RequestPc
    <2>2. QED
      BY <1>11, <2>1 DEF ResumeRead, TypeOK, history
  <1>12. CASE ResumeSetRead(u)
    <2>1. request' \in [Requests -> RequestState]
      BY <1>12, GotoRTyped DEF ResumeSetRead, RequestPc
    <2>2. QED
      BY <1>12, <2>1 DEF ResumeSetRead, TypeOK, history
  <1>13. CASE ResumeSetWrite(u)
    <2>1. request' \in [Requests -> RequestState] /\ row' \in Row
      BY <1>0, <1>13, GotoRTyped, PatchesTyped DEF ResumeSetWrite, RequestPc
    <2>2. replies' \subseteq Messages \cup {NoMessage}
      BY <1>0, <1>13 DEF ResumeSetWrite, TypeOK, RequestState, RequestLocals
    <2>3. QED
      BY <1>13, <2>1, <2>2 DEF ResumeSetWrite, TypeOK
  <1>14. CASE Requeue(u)
    <2>1. [request[u] EXCEPT !.pc = "enqueue", !.seq = row.stepCount] \in RequestState
      BY <1>0 DEF RequestState, RequestLocals, RequestPc, Key
    <2>2. request' \in [Requests -> RequestState] /\ row' \in Row
      BY <1>0, <1>14, <2>1, PatchesTyped DEF Requeue
    <2>3. QED
      BY <1>14, <2>2 DEF Requeue, TypeOK
  <1>15. CASE EnqueueJob(u)
    <2>1. /\ request' \in [Requests -> RequestState] /\ jobs' \subseteq Job
          /\ spent' \in Spent
      BY <1>0, <1>15, EndTyped, JobsTyped, SpendTyped DEF EnqueueJob, TypeOK
    <2>2. QED
      BY <1>15, <2>1 DEF EnqueueJob, TypeOK, history
  <1>16. QED
    BY <1>1, <1>2, <1>3, <1>4, <1>5, <1>6, <1>7, <1>8, <1>9, <1>10, <1>11, <1>12,
       <1>13, <1>14, <1>15 DEF RequestStep

LEMMA StepTyped == TypeOK /\ [Next]_vars => TypeOK'
  <1> SUFFICES ASSUME TypeOK, [Next]_vars PROVE TypeOK'
    OBVIOUS
  <1>1. ASSUME NEW w \in Workers, WorkerStep(w) \/ Crash(w) \/ Abort(w)
        PROVE  TypeOK'
    BY <1>1, ClaimsTyped, HarnessTyped DEF WorkerStep
  <1>2. ASSUME NEW u \in Requests, RequestStep(u) \/ UserAction(u) \/ Disconnect(u)
        PROVE  TypeOK'
    BY <1>2, HandlerTyped, UserTyped
  <1>3. CASE UNCHANGED vars
    BY <1>3 DEF TypeOK, vars
  <1>4. QED
    BY <1>1, <1>2, <1>3, LapseTyped DEF Next

\* Every run, job, counter, and goroutine stays within the statuses, columns
\* and program points of the code, however many of them there are.
THEOREM TypeCorrect == Spec => []TypeOK
  BY InitTyped, StepTyped, PTL DEF Spec

-----------------------------------------------------------------------------
(* The timeline.  An actor is free to move as long as the counter it carries *)
(* stays at, or one past, a step that is there; steps are never removed.     *)

NoStepRemoved == DOMAIN steps \subseteq DOMAIN steps'

LEMMA GotoCounts ==
  ASSUME TypeOK, WorkerCounters, NEW w \in Workers, NEW pc, Goto(w, pc), NoStepRemoved,
         pc \notin {"insert", "count"},
         pc \in {"finRead", "finWrite"} \/ Reached(worker[w].seq)
  PROVE  WorkerCounters'
  <1>1. \A v \in Workers : worker'[v] = IF v = w THEN [worker[w] EXCEPT !.pc = pc] ELSE worker[v]
    BY DEF TypeOK, Goto
  <1>2. \A v \in Workers : worker'[v].seq = worker[v].seq /\ (v # w => worker'[v].pc = worker[v].pc)
    BY <1>1 DEF TypeOK, WorkerState
  <1>3. worker'[w].pc = pc
    BY <1>1 DEF TypeOK, WorkerState
  <1>4. QED
    BY <1>2, <1>3 DEF WorkerCounters, WorkerCounter, Reached, NoStepRemoved

\* Any move that leaves w with a counter of the timeline.
LEMMA MoveCounts ==
  ASSUME TypeOK, WorkerCounters, NEW w \in Workers, NEW next,
         worker' = [worker EXCEPT ![w] = next], NoStepRemoved,
         \/ next.pc = "insert" /\ next.seq >= 1 /\ Reached(next.seq - 1)
         \/ next.pc # "insert" /\ Reached(next.seq) /\ (next.pc = "count" => next.seq # 0)
  PROVE  WorkerCounters'
  <1>1. \A v \in Workers : worker'[v] = IF v = w THEN next ELSE worker[v]
    BY DEF TypeOK
  <1>2. QED
    BY <1>1 DEF WorkerCounters, WorkerCounter, Reached, NoStepRemoved

LEMMA AppendCounts ==
  ASSUME TypeOK, WorkerCounters, NEW w \in Workers, NEW kind, NEW msg, Append(w, kind, msg),
         NoStepRemoved, Reached(worker[w].seq)
  PROVE  WorkerCounters'
  <1> DEFINE next == [worker[w] EXCEPT !.pc = "insert", !.seq = worker[w].seq + 1,
                                       !.kind = kind, !.msg = msg]
  <1>1. next.pc = "insert" /\ next.seq = worker[w].seq + 1
    BY LocalsTyped DEF WorkerState
  <1>2. next.seq >= 1 /\ next.seq - 1 = worker[w].seq
    BY <1>1, LocalsTyped
  <1>3. worker' = [worker EXCEPT ![w] = next]
    BY DEF Append
  <1> HIDE DEF next
  <1>4. QED
    BY <1>1, <1>2, <1>3, MoveCounts

LEMMA RestCounts ==
  ASSUME TypeOK, WorkerCounters, NEW w \in Workers, NoStepRemoved,
         Stop(w) \/ worker' = [worker EXCEPT ![w] = IdleWorker]
  PROVE  WorkerCounters'
  <1>1. CASE Stop(w)
    <2>1. worker' = [worker EXCEPT ![w] = [IdleWorker EXCEPT !.pc = "complete",
                                                             !.key = worker[w].key]]
      BY <1>1 DEF Stop
    <2>2. QED
      BY <2>1, MoveCounts DEF IdleWorker, Reached
  <1>2. CASE worker' = [worker EXCEPT ![w] = IdleWorker]
    BY <1>2, MoveCounts DEF IdleWorker, Reached
  <1>3. QED
    BY <1>1, <1>2

\* Proceed is taken when the step of w is in the timeline, or when fail() has
\* given it up.
LEMMA ProceedCounts ==
  ASSUME TypeOK, WorkerCounters, NEW w \in Workers, Proceed(w), NoStepRemoved,
         worker[w].kind = "error" \/ Reached(worker[w].seq)
  PROVE  WorkerCounters'
  <1> DEFINE me == worker[w]
  <1>1. CASE me.kind = "error"
    <2>1. Goto(w, "finRead")
      BY <1>1 DEF Proceed
    <2>2. QED
      BY <2>1, GotoCounts
  <1>2. CASE Reached(me.seq) /\ \E pc \in {"clear", "succeed", "ledger", "tool", "waitRead",
                                           "finRead"} : Goto(w, pc)
    BY <1>2, GotoCounts
  <1>3. CASE Reached(me.seq) /\ \E kind \in {"approval_request", "tool_call"} :
                                   Append(w, kind, NoMessage)
    BY <1>3, AppendCounts
  <1>4. CASE Reached(me.seq) /\ \E rounds \in {0, me.rounds + 1} : Loop(w, rounds)
    <2>1. PICK rounds : Loop(w, rounds)
      BY <1>4
    <2> DEFINE next == [IdleWorker EXCEPT !.pc = "loop", !.key = worker[w].key,
                          !.seq = worker[w].seq, !.rounds = rounds, !.begun = TRUE]
    <2>2. next.pc = "loop" /\ next.seq = worker[w].seq /\ worker' = [worker EXCEPT ![w] = next]
      BY <2>1 DEF Loop, IdleWorker
    <2> HIDE DEF next
    <2>3. QED
      BY <1>4, <2>2, MoveCounts
  <1>5. CASE /\ Reached(me.seq) /\ me.calls > 1
             /\ \E plan \in ToolPlan :
                  worker' = [worker EXCEPT ![w] = [@ EXCEPT !.pc = "insert",
                    !.seq = worker[w].seq + 1, !.kind = "tool_call", !.plan = plan,
                    !.calls = me.calls - 1]]
    <2>1. PICK plan \in ToolPlan : worker' = [worker EXCEPT ![w] = [worker[w] EXCEPT
             !.pc = "insert", !.seq = worker[w].seq + 1, !.kind = "tool_call",
             !.plan = plan, !.calls = worker[w].calls - 1]]
      BY <1>5
    <2> DEFINE next == [worker[w] EXCEPT !.pc = "insert", !.seq = worker[w].seq + 1,
             !.kind = "tool_call", !.plan = plan, !.calls = worker[w].calls - 1]
    <2>2. next.pc = "insert" /\ next.seq = worker[w].seq + 1
      BY LocalsTyped DEF WorkerState
    <2>3. next.seq >= 1 /\ next.seq - 1 = worker[w].seq
      BY <2>2, LocalsTyped
    <2>4. worker' = [worker EXCEPT ![w] = next]
      BY <2>1
    <2> HIDE DEF next
    <2>5. QED
      BY <1>5, <2>2, <2>3, <2>4, MoveCounts
  <1>6. QED
    BY <1>1, <1>2, <1>3, <1>4, <1>5 DEF Proceed

\* Steps are inserted at a seq an actor has counted to.
LEMMA InsertKeepsGapFree ==
  ASSUME TypeOK, TimelineGapFree, NEW seq \in Nat, NEW msg, seq >= 1, Reached(seq - 1),
         steps' = WithStep(steps, seq, msg)
  PROVE  TimelineGapFree' /\ NoStepRemoved /\ seq \in DOMAIN steps'
  BY DEF TypeOK, TimelineGapFree, WithStep, NoStepRemoved, Reached

LEMMA RequestsRest ==
  ASSUME RequestCounters, NoStepRemoved, UNCHANGED request
  PROVE  RequestCounters'
  BY DEF RequestCounters, RequestCounter, Reached, NoStepRemoved

LEMMA WorkersRest ==
  ASSUME WorkerCounters, NoStepRemoved, UNCHANGED worker
  PROVE  WorkerCounters'
  BY DEF WorkerCounters, WorkerCounter, Reached, NoStepRemoved

LEMMA CountNames ==
  ASSUME StepCountNamesAStep, NoStepRemoved,
         row'.stepCount = row.stepCount \/ row'.stepCount \in DOMAIN steps'
  PROVE  StepCountNamesAStep'
  BY DEF StepCountNamesAStep, NoStepRemoved

\* No patch but that of step_count writes the column.
LEMMA PatchesKeepCount ==
  ASSUME NEW r \in Row, NEW o, NEW m, NEW s, NEW q
  PROVE  /\ HeartbeatPatch(r, o).stepCount = r.stepCount
         /\ RedirectPatch(r, m).stepCount = r.stepCount
         /\ CancelPatch(r).stepCount = r.stepCount
         /\ FinishPatch(r, s, q).stepCount = r.stepCount
         /\ WaitPatch(r).stepCount = r.stepCount
         /\ RequeuePatch(r).stepCount = r.stepCount
         /\ \A n \in Nat : StepCountPatch(r, n).stepCount = n
  BY DEF Row, HeartbeatPatch, RedirectPatch, CancelPatch, FinishPatch, WaitPatch,
         RequeuePatch, StepCountPatch

\* Every action of a worker but AppendStep's two leaves the timeline and
\* step_count alone, and its counter with it.
Quiet(w) ==
  \/ Claim(w) \/ GetRun(w) \/ HeartbeatRead(w) \/ HeartbeatWrite(w) \/ Bootstrap(w)
  \/ LoopGet(w) \/ ClearRedirect(w) \/ CallLLM(w) \/ AfterLLM(w) \/ RecordRequest(w)
  \/ HandleTool(w) \/ WaitRead(w) \/ WaitWrite(w) \/ Succeed(w) \/ Fail(w) \/ FinishRead(w)
  \/ FinishWrite(w) \/ Complete(w) \/ Crash(w) \/ Abort(w)

LEMMA QuietCounts ==
  ASSUME TypeOK, WorkerCounters, NEW w \in Workers, Quiet(w)
  PROVE  /\ UNCHANGED steps
         /\ row'.stepCount = row.stepCount
         /\ WorkerCounters'
  <1>0. row \in Row /\ WorkerCounter(w)
    BY DEF TypeOK, WorkerCounters
  <1>1. UNCHANGED steps
    BY DEF Quiet, Claim, GetRun, HeartbeatRead, HeartbeatWrite, Bootstrap, LoopGet, ClearRedirect, CallLLM, AfterLLM, RecordRequest, HandleTool, WaitRead, WaitWrite, Succeed, Fail, FinishRead, FinishWrite, Complete, Crash, Abort
  <1>2. row'.stepCount = row.stepCount
    <2>1. CASE HeartbeatWrite(w) \/ ClearRedirect(w)
      BY <1>0, <2>1, PatchesKeepCount DEF HeartbeatWrite, ClearRedirect
    <2>2. CASE WaitWrite(w) \/ FinishWrite(w)
      <3>1. row' = WaitPatch(row) \/ \E status : row' = FinishPatch(row, status, "answer")
        BY <2>2, Zenon DEF WaitWrite, FinishWrite
      <3>2. QED
        BY <1>0, <3>1, PatchesKeepCount
    <2>3. CASE ~(HeartbeatWrite(w) \/ ClearRedirect(w) \/ WaitWrite(w) \/ FinishWrite(w))
      <3>1. row' = row
        BY <2>3 DEF Quiet, Claim, GetRun, HeartbeatRead, Bootstrap, LoopGet, CallLLM,
           AfterLLM, RecordRequest, HandleTool, WaitRead, Succeed, Fail, FinishRead,
           Complete, Crash, Abort
      <3>2. QED
        BY <3>1
    <2>4. QED
      BY <2>1, <2>2, <2>3
  <1>3. NoStepRemoved
    BY <1>1 DEF NoStepRemoved
  <1>4. CASE Claim(w)
    <2>1. PICK key : worker' = [worker EXCEPT ![w] = [IdleWorker EXCEPT !.pc = "get", !.key = key]]
      BY <1>4 DEF Claim
    <2>2. QED
      BY <1>1, <1>2, <1>3, <2>1, MoveCounts DEF IdleWorker, Reached
  <1>5. CASE Crash(w) \/ Complete(w) \/ Abort(w)
    BY <1>1, <1>2, <1>3, <1>5, RestCounts DEF Crash, Complete, Abort
  <1>6. CASE Bootstrap(w)
    <2>1. CASE Goto(w, "fail")
      BY <1>0, <1>1, <1>2, <1>3, <1>6, <2>1, GotoCounts DEF Bootstrap, WorkerCounter
    <2>2. CASE \E seq \in {0} \cup DOMAIN steps : worker' = [worker EXCEPT ![w] =
                 [@ EXCEPT !.pc = "insert", !.seq = seq + 1, !.kind = "status", !.msg = NoMessage]]
      <3>1. PICK seq \in {0} \cup DOMAIN steps : worker' = [worker EXCEPT ![w] =
               [worker[w] EXCEPT !.pc = "insert", !.seq = seq + 1, !.kind = "status",
                                 !.msg = NoMessage]]
        BY <2>2
      <3> DEFINE next == [worker[w] EXCEPT !.pc = "insert", !.seq = seq + 1,
                                           !.kind = "status", !.msg = NoMessage]
      <3>2. next.pc = "insert" /\ next.seq = seq + 1
        BY LocalsTyped DEF WorkerState
      <3>3. next.seq >= 1 /\ next.seq - 1 = seq
        BY <3>2 DEF TypeOK
      <3>4. worker' = [worker EXCEPT ![w] = next]
        BY <3>1
      <3> HIDE DEF next
      <3>5. QED
        BY <1>1, <1>2, <1>3, <3>2, <3>3, <3>4, MoveCounts DEF Reached
    <2>3. QED
      BY <1>6, <2>1, <2>2 DEF Bootstrap
  <1>7. CASE ClearRedirect(w)
    <2> DEFINE next == [worker[w] EXCEPT !.pc = "hbRead", !.msg = NoMessage]
    <2>1. next.pc = "hbRead" /\ next.seq = worker[w].seq
      BY LocalsTyped DEF WorkerState
    <2>2. worker' = [worker EXCEPT ![w] = next] /\ Reached(worker[w].seq)
      BY <1>0, <1>7 DEF ClearRedirect, WorkerCounter
    <2> HIDE DEF next
    <2>3. QED
      BY <1>1, <1>2, <1>3, <2>1, <2>2, MoveCounts
  <1>8. CASE CallLLM(w)
    <2>1. CASE Goto(w, "fail")
      BY <1>0, <1>1, <1>2, <1>3, <1>8, <2>1, GotoCounts DEF CallLLM, WorkerCounter
    <2>2. CASE \E plan, calls : worker' = [worker EXCEPT ![w] =
                 [@ EXCEPT !.pc = "afterLLM", !.plan = plan, !.calls = calls]]
      <3>1. PICK plan, calls : worker' = [worker EXCEPT ![w] = [worker[w] EXCEPT
               !.pc = "afterLLM", !.plan = plan, !.calls = calls]]
        BY <2>2
      <3> DEFINE next == [worker[w] EXCEPT !.pc = "afterLLM", !.plan = plan, !.calls = calls]
      <3>2. next.pc = "afterLLM" /\ next.seq = worker[w].seq
        BY LocalsTyped DEF WorkerState
      <3>3. worker' = [worker EXCEPT ![w] = next] /\ Reached(worker[w].seq)
        BY <1>0, <1>8, <3>1 DEF CallLLM, WorkerCounter
      <3> HIDE DEF next
      <3>4. QED
        BY <1>1, <1>2, <1>3, <3>2, <3>3, MoveCounts
    <2>3. QED
      BY <1>8, <2>1, <2>2 DEF CallLLM
  <1>9. CASE WaitWrite(w) \/ FinishWrite(w)
    BY <1>1, <1>2, <1>3, <1>9, RestCounts DEF WaitWrite, FinishWrite
  <1>10. CASE \/ GetRun(w) \/ HeartbeatRead(w) \/ HeartbeatWrite(w) \/ LoopGet(w) \/ AfterLLM(w)
              \/ WaitRead(w) \/ Succeed(w) \/ Fail(w) \/ FinishRead(w)
              \/ RecordRequest(w) \/ HandleTool(w)
    <2>1. worker[w].pc = "finRead" \/ Reached(worker[w].seq)
      BY <1>0, <1>10 DEF GetRun, HeartbeatRead, HeartbeatWrite, LoopGet, AfterLLM, WaitRead,
         Succeed, Fail, FinishRead, RecordRequest, HandleTool, WorkerCounter
    <2>2. \/ Stop(w)
          \/ Reached(worker[w].seq) /\ \E kind, msg : Append(w, kind, msg)
          \/ /\ \E pc \in {"hbRead", "list", "llm", "hbWrite", "fail", "waitWrite", "finRead",
                           "finWrite"} :
                   Goto(w, pc) /\ (pc \in {"finRead", "finWrite"} \/ Reached(worker[w].seq))
      BY <1>10, <2>1, Zenon DEF GetRun, HeartbeatRead, HeartbeatWrite, LoopGet, AfterLLM, WaitRead,
         Succeed, Fail, FinishRead, RecordRequest, HandleTool, AfterHeartbeat
    <2>3. QED
      BY <1>1, <1>2, <1>3, <2>2, GotoCounts, AppendCounts, RestCounts
  <1>11. QED
    BY <1>4, <1>5, <1>6, <1>7, <1>8, <1>9, <1>10 DEF Quiet

LEMMA HarnessKeepsTimeline ==
  ASSUME IInv, NEW w \in Workers, WorkerStep(w) \/ Crash(w) \/ Abort(w)
  PROVE  Timeline'
  <1>0. /\ TypeOK /\ TimelineGapFree /\ StepCountNamesAStep
        /\ WorkerCounters /\ RequestCounters /\ WorkerCounter(w)
        /\ row \in Row /\ worker[w].seq \in Nat
    BY LocalsTyped DEF IInv, Timeline, WorkerCounters, TypeOK
  \* All but InsertStep leave the timeline as it is, all but CountStep the count.
  <1>1. SUFFICES ASSUME UNCHANGED request
                 PROVE  NoStepRemoved /\ TimelineGapFree' /\ WorkerCounters'
                          /\ (row'.stepCount = row.stepCount \/ row'.stepCount \in DOMAIN steps')
    <2>1. UNCHANGED request
      BY DEF WorkerStep, Claim, GetRun, HeartbeatRead, HeartbeatWrite, Bootstrap, InsertStep,
             CountStep, LoopGet, ClearRedirect, CallLLM, AfterLLM, RecordRequest, HandleTool,
             WaitRead, WaitWrite, Succeed, Fail, FinishRead, FinishWrite, Complete, Crash, Abort
    <2>2. QED
      BY <1>0, <1>1, <2>1, RequestsRest, CountNames DEF Timeline
  <1>2. CASE InsertStep(w)
    <2>1. row' = row /\ worker[w].pc = "insert"
      BY <1>2 DEF InsertStep
    <2>2. worker[w].seq >= 1 /\ Reached(worker[w].seq - 1)
      BY <1>0, <2>1 DEF WorkerCounter
    <2>3. CASE steps' = WithStep(steps, worker[w].seq, worker[w].msg) /\ Goto(w, "count")
      <3>1. TimelineGapFree' /\ NoStepRemoved /\ worker[w].seq \in DOMAIN steps'
        BY <1>0, <2>2, <2>3, InsertKeepsGapFree
      <3>2. \A v \in Workers : /\ worker'[v].seq = worker[v].seq
                               /\ worker'[v].pc = IF v = w THEN "count" ELSE worker[v].pc
        BY <1>0, <2>3 DEF TypeOK, WorkerState, Goto
      <3>3. WorkerCounters'
        BY <1>0, <3>1, <3>2 DEF WorkerCounters, WorkerCounter, Reached, NoStepRemoved
      <3>4. QED
        BY <2>1, <3>1, <3>3
    <2>4. CASE steps' = steps /\ Proceed(w)
               /\ (Taken(steps, worker[w].seq) \/ worker[w].kind = "error")
      <3>1. NoStepRemoved /\ TimelineGapFree'
        BY <1>0, <2>4 DEF NoStepRemoved, TimelineGapFree
      <3>2. WorkerCounters'
        BY <1>0, <2>4, <3>1, ProceedCounts DEF Taken, Reached
      <3>3. QED
        BY <2>1, <3>1, <3>2
    <2>5. QED
      BY <1>2, <2>3, <2>4 DEF InsertStep
  <1>3. CASE CountStep(w)
    <2>1. /\ NoStepRemoved /\ TimelineGapFree' /\ worker[w].seq \in DOMAIN steps
          /\ DOMAIN steps' = DOMAIN steps
      BY <1>0, <1>3 DEF CountStep, WorkerCounter, NoStepRemoved, TimelineGapFree
    <2>2. row'.stepCount = row.stepCount \/ row'.stepCount \in DOMAIN steps'
      BY <1>0, <1>3, <2>1, PatchesKeepCount DEF CountStep
    <2>3. WorkerCounters'
      BY <1>0, <1>3, <2>1, ProceedCounts DEF CountStep, Reached
    <2>4. QED
      BY <2>1, <2>2, <2>3
  <1>4. CASE Quiet(w)
    BY <1>0, <1>4, QuietCounts DEF NoStepRemoved, TimelineGapFree
  <1>5. QED
    BY <1>2, <1>3, <1>4 DEF Quiet, WorkerStep

LEMMA HandlerKeepsTimeline ==
  ASSUME IInv, NEW u \in Requests, RequestStep(u) \/ UserAction(u) \/ Disconnect(u)
  PROVE  Timeline'
  <1>0. /\ TypeOK /\ TimelineGapFree /\ StepCountNamesAStep
        /\ WorkerCounters /\ RequestCounters /\ RequestCounter(u)
        /\ row \in Row /\ request \in [Requests -> RequestState]
    BY DEF IInv, Timeline, RequestCounters, TypeOK
  <1>w. UNCHANGED worker
    BY DEF RequestStep, UserAction, PostCancel, PostFinish, PostRedirect, SettleApproval,
           Disconnect, CancelRead, CancelWrite, DoneRead, DoneInsert, DoneCount,
           DoneFinishRead, DoneFinishWrite, SetRedirectRead, SetRedirectWrite, SettleLedger,
           ResumeRead, ResumeSetRead, ResumeSetWrite, Requeue, EnqueueJob
  \* The other handlers keep their counters.
  <1>others. ASSUME NoStepRemoved, RequestCounter(u)',
                    \A v \in Requests \ {u} : request'[v] = request[v]
             PROVE  WorkerCounters' /\ RequestCounters'
    <2>1. \A v \in Requests \ {u} : RequestCounter(v)'
      BY <1>0, <1>others DEF RequestCounters, RequestCounter, Reached, NoStepRemoved
    <2>2. QED
      BY <1>0, <1>w, <1>others, <2>1, WorkersRest DEF RequestCounters
  <1>1. CASE DoneInsert(u)
    <2>1. /\ request[u].pc = "doneInsert" /\ request[u].seq \in Nat
          /\ request[u].seq >= 1 /\ Reached(request[u].seq - 1)
      BY <1>0, <1>1 DEF DoneInsert, RequestCounter, RequestState
    <2>2. CASE steps' = WithStep(steps, request[u].seq, NoMessage) /\ GotoR(u, "doneCount")
      <3>1. TimelineGapFree' /\ NoStepRemoved /\ request[u].seq \in DOMAIN steps'
        BY <1>0, <2>1, <2>2, InsertKeepsGapFree
      <3>2. RequestCounter(u)' /\ \A v \in Requests \ {u} : request'[v] = request[v]
        BY <1>0, <2>2, <3>1 DEF GotoR, RequestCounter, RequestState, RequestLocals
      <3>3. QED
        BY <1>0, <1>1, <1>others, <3>1, <3>2, CountNames DEF DoneInsert, Timeline
    <2>3. CASE steps' = steps /\ GotoR(u, "doneFinRead")
      <3>1. TimelineGapFree' /\ NoStepRemoved
        BY <1>0, <2>3 DEF NoStepRemoved, TimelineGapFree
      <3>2. RequestCounter(u)' /\ \A v \in Requests \ {u} : request'[v] = request[v]
        BY <1>0, <2>3 DEF GotoR, RequestCounter, RequestState, RequestLocals
      <3>3. QED
        BY <1>0, <1>1, <1>others, <3>1, <3>2, CountNames DEF DoneInsert, Timeline
    <2>4. QED
      BY <1>1, <2>2, <2>3 DEF DoneInsert
  <1>2. CASE DoneCount(u)
    <2>1. /\ NoStepRemoved /\ TimelineGapFree' /\ DOMAIN steps' = DOMAIN steps
          /\ request[u].seq \in DOMAIN steps /\ request[u].seq \in Nat
      BY <1>0, <1>2 DEF DoneCount, RequestCounter, RequestState, NoStepRemoved, TimelineGapFree
    <2>2. row'.stepCount = row.stepCount \/ row'.stepCount \in DOMAIN steps'
      BY <1>0, <1>2, <2>1, PatchesKeepCount DEF DoneCount
    <2>3. RequestCounter(u)' /\ \A v \in Requests \ {u} : request'[v] = request[v]
      BY <1>0, <1>2 DEF DoneCount, GotoR, RequestCounter, RequestState, RequestLocals
    <2>4. QED
      BY <1>0, <1>others, <2>1, <2>2, <2>3, CountNames DEF Timeline
  <1>3. CASE DoneRead(u)
    <2>1. NoStepRemoved /\ TimelineGapFree' /\ row' = row
      BY <1>0, <1>3 DEF DoneRead, NoStepRemoved, TimelineGapFree
    <2>2. CASE End(u)
      <3>1. RequestCounter(u)' /\ \A v \in Requests \ {u} : request'[v] = request[v]
        BY <1>0, <2>2 DEF End, IdleRequest, RequestCounter
      <3>2. QED
        BY <1>0, <1>others, <2>1, <3>1, CountNames DEF Timeline
    <2>3. CASE request' = [request EXCEPT ![u] =
                 [@ EXCEPT !.pc = "doneInsert", !.seq = row.stepCount + 1]]
      <3>1. /\ request'[u].pc = "doneInsert" /\ request'[u].seq = row.stepCount + 1
            /\ \A v \in Requests \ {u} : request'[v] = request[v]
        BY <1>0, <2>3 DEF RequestState, RequestLocals
      <3>2. request'[u].seq >= 1 /\ request'[u].seq - 1 = row.stepCount
        BY <1>0, <3>1 DEF Row
      <3>3. row.stepCount = 0 \/ row.stepCount \in DOMAIN steps'
        BY <1>0, <2>1 DEF StepCountNamesAStep, NoStepRemoved
      <3>4. RequestCounter(u)'
        BY <3>1, <3>2, <3>3 DEF RequestCounter, Reached
      <3>5. QED
        BY <1>0, <1>others, <2>1, <3>1, <3>4, CountNames DEF Timeline
    <2>4. QED
      BY <1>3, <2>2, <2>3 DEF DoneRead
  <1>4. CASE ~(DoneRead(u) \/ DoneInsert(u) \/ DoneCount(u))
    <2>1. steps' = steps
      BY <1>4 DEF RequestStep, UserAction, PostCancel, PostFinish, PostRedirect, SettleApproval,
           Disconnect, CancelRead, CancelWrite, DoneFinishRead, DoneFinishWrite,
           SetRedirectRead, SetRedirectWrite, SettleLedger, ResumeRead, ResumeSetRead,
           ResumeSetWrite, Requeue, EnqueueJob
    <2>2. NoStepRemoved /\ TimelineGapFree'
      BY <1>0, <2>1 DEF NoStepRemoved, TimelineGapFree
    <2>3. row'.stepCount = row.stepCount
      <3>1. CASE CancelWrite(u) \/ Requeue(u)
        BY <1>0, <3>1, PatchesKeepCount DEF CancelWrite, Requeue
      <3>2. CASE SetRedirectWrite(u) \/ ResumeSetWrite(u)
        BY <1>0, <3>2, PatchesKeepCount DEF SetRedirectWrite, ResumeSetWrite
      <3>3. CASE DoneFinishWrite(u)
        BY <1>0, <3>3, PatchesKeepCount DEF DoneFinishWrite
      <3>4. CASE ~(CancelWrite(u) \/ Requeue(u) \/ SetRedirectWrite(u) \/ ResumeSetWrite(u)
                   \/ DoneFinishWrite(u))
        <4>1. row' = row
          BY <1>4, <3>4 DEF RequestStep, UserAction, PostCancel, PostFinish, PostRedirect,
             SettleApproval, Disconnect, CancelRead, DoneFinishRead, SetRedirectRead,
             SettleLedger, ResumeRead, ResumeSetRead, EnqueueJob
        <4>2. QED
          BY <4>1
      <3>5. QED
        BY <3>1, <3>2, <3>3, <3>4
    <2>4. RequestCounter(u)' /\ \A v \in Requests \ {u} : request'[v] = request[v]
      <3>1. CASE UserAction(u) \/ Disconnect(u) \/ EnqueueJob(u) \/ CancelWrite(u) \/ DoneFinishWrite(u)
        <4>1. End(u) \/ \E pc \in {"cancelRead", "doneRead", "setRead", "resRead"} :
                           \E msg : Start(u, pc, msg)
          BY <3>1, Zenon DEF UserAction, PostCancel, PostFinish, PostRedirect, SettleApproval,
             Disconnect, EnqueueJob, CancelWrite, DoneFinishWrite
        <4>2. CASE End(u)
          BY <1>0, <4>2 DEF End, IdleRequest, RequestCounter
        <4>3. ASSUME NEW pc \in {"cancelRead", "doneRead", "setRead", "resRead"}, NEW msg,
                     Start(u, pc, msg)
              PROVE  RequestCounter(u)' /\ \A v \in Requests \ {u} : request'[v] = request[v]
          <5>1. /\ request'[u].pc = pc
                /\ \A v \in Requests \ {u} : request'[v] = request[v]
            BY <1>0, <4>3 DEF Start, IdleRequest
          <5>2. QED
            BY <5>1 DEF RequestCounter
        <4>4. QED
          BY <4>1, <4>2, <4>3
      <3>2. CASE \/ CancelRead(u) \/ DoneFinishRead(u) \/ SetRedirectRead(u) \/ SettleLedger(u)
                 \/ ResumeRead(u) \/ ResumeSetRead(u) \/ ResumeSetWrite(u)
        <4>1. \/ End(u)
              \/ \E pc \in {"cancelWrite", "doneFinWrite", "setWrite", "resRead", "requeue",
                            "resSetRead", "resSetWrite"} : GotoR(u, pc)
          BY <3>2, Zenon DEF CancelRead, DoneFinishRead, SetRedirectRead, SettleLedger,
             ResumeRead, ResumeSetRead, ResumeSetWrite
        <4>2. QED
          BY <1>0, <4>1 DEF End, GotoR, IdleRequest, RequestCounter, RequestState, RequestLocals
      <3>3. CASE SetRedirectWrite(u)
        <4>1. PICK resume : request' = [request EXCEPT ![u] = [request[u] EXCEPT
                 !.pc = "settle", !.msg = NoMessage, !.resume = resume]]
          BY <3>3, Zenon DEF SetRedirectWrite
        <4>2. QED
          BY <1>0, <4>1 DEF RequestCounter, RequestState, RequestLocals
      <3>4. CASE Requeue(u)
        BY <1>0, <3>4 DEF Requeue, RequestCounter, RequestState, RequestLocals
      <3>5. QED
        BY <1>4, <3>1, <3>2, <3>3, <3>4 DEF RequestStep
    <2>5. QED
      BY <1>0, <1>others, <2>2, <2>3, <2>4, CountNames DEF Timeline
  <1>5. QED
    BY <1>1, <1>2, <1>3, <1>4

LEMMA InitTimeline == Init => Timeline
  BY DEF Init, Timeline, TimelineGapFree, StepCountNamesAStep, NewRow, WorkerCounters,
         WorkerCounter, IdleWorker, RequestCounters, RequestCounter, IdleRequest, Reached

LEMMA StepTimeline == IInv /\ [Next]_vars => IInv'
  <1> SUFFICES ASSUME IInv, [Next]_vars PROVE IInv'
    OBVIOUS
  <1>1. TypeOK'
    BY StepTyped DEF IInv
  <1>2. CASE \E w \in Workers : WorkerStep(w) \/ Crash(w) \/ Abort(w)
    BY <1>1, <1>2, HarnessKeepsTimeline DEF IInv
  <1>3. CASE \E u \in Requests : RequestStep(u) \/ UserAction(u) \/ Disconnect(u)
    BY <1>1, <1>3, HandlerKeepsTimeline DEF IInv
  <1>4. CASE Lapse \/ UNCHANGED vars
    <2>1. UNCHANGED <<row, steps, worker, request>>
      BY <1>4 DEF Lapse, vars
    <2>2. Timeline'
      BY <2>1 DEF IInv, Timeline, TimelineGapFree, StepCountNamesAStep, WorkerCounters,
         WorkerCounter, RequestCounters, RequestCounter, Reached
    <2>3. QED
      BY <1>1, <2>2 DEF IInv
  <1>5. QED
    BY <1>2, <1>3, <1>4 DEF Next

LEMMA Inductive == Spec => []IInv
  <1>1. Init => IInv
    BY InitTyped, InitTimeline DEF IInv
  <1>2. QED
    BY <1>1, StepTimeline, PTL DEF Spec

\* Whatever harnesses and handlers append to a run's timeline, in whatever order
\* and with whatever stale counter, AppendStep never leaves a hole in its seqs.
THEOREM TimelineHasNoHoles == Spec => []TimelineGapFree
  <1>1. IInv => TimelineGapFree
    BY DEF IInv, Timeline
  <1>2. QED
    BY <1>1, Inductive, PTL

\* The step_count that MarkFinished counts on and that names the resume job is
\* 0 or the seq of a step that exists, whichever of the patches comes last.
THEOREM StepCountIsAStep == Spec => []StepCountNamesAStep
  <1>1. IInv => StepCountNamesAStep
    BY DEF IInv, Timeline
  <1>2. QED
    BY <1>1, Inductive, PTL

-----------------------------------------------------------------------------
(* A closed run: who may still reopen it.  Inductive is that every actor    *)
(* which has decided before the close is among the stale ones.              *)

\* A write of the status is the next thing a does, whatever the row says then.
MayReopen(a) ==
  \/ a \in Workers /\ worker[a].pc \in {"hbWrite", "waitWrite", "finWrite"}
  \/ a \in Requests /\ request[a].pc \in {"cancelWrite", "doneFinWrite"}
  \/ /\ a \in Requests /\ request[a].pc \in {"resSetRead", "resSetWrite", "requeue"}
     /\ row.status \in {"cancelled", "expired"}

CloseInv == Terminal(row) => \A a \in Workers \cup Requests : MayReopen(a) => a \in stale

\* What the actions of a worker between Claim and Complete have in common.
Working(w) ==
  \/ GetRun(w) \/ HeartbeatRead(w) \/ HeartbeatWrite(w) \/ Bootstrap(w)
  \/ InsertStep(w) \/ CountStep(w) \/ LoopGet(w) \/ ClearRedirect(w) \/ CallLLM(w)
  \/ AfterLLM(w) \/ RecordRequest(w) \/ HandleTool(w) \/ WaitRead(w) \/ WaitWrite(w)
  \/ Succeed(w) \/ Fail(w) \/ FinishRead(w) \/ FinishWrite(w)

\* w goes to pc with the job it holds, and nobody else moves.
Moves(w, pc) ==
  /\ worker'[w].pc = pc /\ worker'[w].key = worker[w].key
  /\ \A v \in Workers \ {w} : worker'[v] = worker[v]

Open == {"queued", "running"}
Writes == {"hbWrite", "waitWrite", "finWrite"}
Plain == WorkerPc \ (Writes \cup {"idle", "complete"})

LEMMA GotoMoves ==
  ASSUME TypeOK, NEW w \in Workers, NEW pc, Goto(w, pc)
  PROVE  Moves(w, pc)
  BY DEF TypeOK, Goto, Moves, WorkerState

LEMMA StopMoves ==
  ASSUME TypeOK, NEW w \in Workers, Stop(w)
  PROVE  Moves(w, "complete")
  BY DEF TypeOK, Stop, Moves, WorkerState, IdleWorker

LEMMA AppendMoves ==
  ASSUME TypeOK, NEW w \in Workers, NEW kind, NEW msg, Append(w, kind, msg)
  PROVE  Moves(w, "insert")
  BY DEF TypeOK, Append, Moves, WorkerState

LEMMA LoopMoves ==
  ASSUME TypeOK, NEW w \in Workers, NEW rounds, Loop(w, rounds)
  PROVE  Moves(w, "loop")
  BY DEF TypeOK, Loop, Moves, WorkerState, IdleWorker

LEMMA ProceedMoves ==
  ASSUME TypeOK, NEW w \in Workers, Proceed(w)
  PROVE  \E pc \in Plain : Moves(w, pc)
  <1> DEFINE me == worker[w]
  <1>0. {"clear", "succeed", "ledger", "tool", "waitRead", "finRead", "insert", "loop"} \subseteq Plain
    BY DEF Plain, WorkerPc, Writes
  <1>1. CASE /\ me.calls > 1
             /\ \E plan \in ToolPlan :
                  worker' = [worker EXCEPT ![w] = [@ EXCEPT !.pc = "insert",
                    !.seq = worker[w].seq + 1, !.kind = "tool_call", !.plan = plan,
                    !.calls = me.calls - 1]]
    <2>1. Moves(w, "insert")
      BY <1>1 DEF TypeOK, WorkerState, Moves
    <2>2. QED
      BY <1>0, <2>1
  <1>2. CASE \E pc \in {"clear", "succeed", "ledger", "tool", "waitRead", "finRead"} :
               Goto(w, pc)
    BY <1>0, <1>2, GotoMoves
  <1>3. CASE \E kind \in {"approval_request", "tool_call"} : Append(w, kind, NoMessage)
    BY <1>0, <1>3, AppendMoves
  <1>4. CASE \E rounds \in {0, me.rounds + 1} : Loop(w, rounds)
    BY <1>0, <1>4, LoopMoves
  <1>5. QED
    BY <1>1, <1>2, <1>3, <1>4 DEF Proceed

\* The status is written by a worker that had come to write it, and a worker
\* comes to write it, or stops, by what it has just read.
LEMMA WorkingMoves ==
  ASSUME TypeOK, NEW w \in Workers, Working(w)
  PROVE  /\ UNCHANGED <<jobs, request, swallowed>>
         /\ worker[w].pc \notin {"idle", "complete"}
         /\ \/ /\ row'.status = row.status /\ stale' = stale
               /\ \/ \E pc \in Plain : Moves(w, pc)
                  \/ row.status \notin Open /\ Moves(w, "complete")
                  \/ ~Terminal(row) /\ \E pc \in Writes : Moves(w, pc)
            \/ /\ worker[w].pc = "hbWrite" /\ row'.status = "running"
               /\ \E pc \in Plain : Moves(w, pc)
            \/ /\ worker[w].pc = "waitWrite" /\ row'.status = "waiting_for_user"
               /\ Moves(w, "complete")
            \/ /\ worker[w].pc = "finWrite" /\ row'.status \in {"failed", "succeeded"}
               /\ Moves(w, "complete") /\ stale' = Deciders(w)
  <1>1. UNCHANGED <<jobs, request, swallowed>> /\ worker[w].pc \notin {"idle", "complete"}
    BY DEF Working, GetRun, HeartbeatRead, HeartbeatWrite, Bootstrap, InsertStep, CountStep,
       LoopGet, ClearRedirect, CallLLM, AfterLLM, RecordRequest, HandleTool, WaitRead,
       WaitWrite, Succeed, Fail, FinishRead, FinishWrite, history
  <1>2. row \in Row /\ {"waiting_for_user"} \cup TerminalStatus \subseteq Status
        /\ \A x \in {"waiting_for_user"} \cup TerminalStatus : x \notin Open
    BY DEF TypeOK, Status, TerminalStatus, Open
  <1>3. /\ {"hbRead", "list", "insert", "count", "loop", "clear", "llm", "afterLLM", "ledger",
            "tool", "waitRead", "succeed", "fail", "finRead"} \subseteq Plain
        /\ {"hbWrite", "waitWrite", "finWrite"} \subseteq Writes
    BY DEF Plain, Writes, WorkerPc
  <1>4. CASE GetRun(w) \/ HeartbeatRead(w) \/ WaitRead(w) \/ Succeed(w) \/ Fail(w) \/ FinishRead(w)
             \/ AfterLLM(w) \/ LoopGet(w)
    <2>1. row' = row /\ stale' = stale
      BY <1>4 DEF GetRun, HeartbeatRead, WaitRead, Succeed, Fail, FinishRead, AfterLLM, LoopGet,
         history
    <2>2. \/ \E pc \in {"hbRead", "list", "llm", "finRead", "fail"} : Goto(w, pc)
          \/ \E kind, msg : Append(w, kind, msg)
          \/ row.status \in {"waiting_for_user"} \cup TerminalStatus /\ Stop(w)
          \/ ~Terminal(row) /\ \E pc \in {"hbWrite", "waitWrite", "finWrite"} : Goto(w, pc)
      BY <1>4, Zenon DEF GetRun, HeartbeatRead, WaitRead, Succeed, Fail, FinishRead, AfterLLM,
         LoopGet, AfterHeartbeat, Terminal
    <2>3. \/ \E pc \in Plain : Moves(w, pc)
          \/ row.status \notin Open /\ Moves(w, "complete")
          \/ ~Terminal(row) /\ \E pc \in Writes : Moves(w, pc)
      BY <1>2, <1>3, <2>2, GotoMoves, AppendMoves, StopMoves
    <2>4. QED
      BY <1>1, <2>1, <2>3
  <1>5. CASE RecordRequest(w) \/ HandleTool(w)
    <2>1. row' = row /\ stale' = stale /\ \E kind, msg : Append(w, kind, msg)
      BY <1>5 DEF RecordRequest, HandleTool, history
    <2>2. QED
      BY <1>1, <1>3, <2>1, AppendMoves
  <1>6. CASE Bootstrap(w) \/ ClearRedirect(w) \/ CallLLM(w)
    <2>1. row'.status = row.status /\ stale' = stale
      BY <1>2, <1>6 DEF Bootstrap, ClearRedirect, CallLLM, RedirectPatch, Row, history
    <2>2. Moves(w, "insert") \/ Moves(w, "fail") \/ Moves(w, "hbRead") \/ Moves(w, "afterLLM")
      <3>1. CASE Goto(w, "fail")
        BY <3>1, GotoMoves
      <3>2. ASSUME NEW seq, worker' = [worker EXCEPT ![w] = [@ EXCEPT !.pc = "insert",
                     !.seq = seq, !.kind = "status", !.msg = NoMessage]]
            PROVE  Moves(w, "insert")
        BY <3>2 DEF TypeOK, WorkerState, Moves
      <3>3. ASSUME worker' = [worker EXCEPT ![w] = [@ EXCEPT !.pc = "hbRead", !.msg = NoMessage]]
            PROVE  Moves(w, "hbRead")
        BY <3>3 DEF TypeOK, WorkerState, Moves
      <3>4. ASSUME NEW plan, NEW calls, worker' = [worker EXCEPT ![w] =
                     [@ EXCEPT !.pc = "afterLLM", !.plan = plan, !.calls = calls]]
            PROVE  Moves(w, "afterLLM")
        BY <3>4 DEF TypeOK, WorkerState, Moves
      <3>5. QED
        BY <1>6, <3>1, <3>2, <3>3, <3>4, Zenon DEF Bootstrap, ClearRedirect, CallLLM
    <2>3. QED
      BY <1>1, <1>3, <2>1, <2>2
  <1>7. CASE InsertStep(w) \/ CountStep(w)
    <2>1. row'.status = row.status /\ stale' = stale
      BY <1>2, <1>7 DEF InsertStep, CountStep, StepCountPatch, Row, history
    <2>2. \E pc \in Plain : Moves(w, pc)
      BY <1>3, <1>7, GotoMoves, ProceedMoves DEF InsertStep, CountStep
    <2>3. QED
      BY <1>1, <2>1, <2>2
  <1>8. CASE HeartbeatWrite(w)
    <2>1. worker[w].pc = "hbWrite" /\ row'.status = "running"
      BY <1>2, <1>8 DEF HeartbeatWrite, HeartbeatPatch, Row
    <2>2. Moves(w, "llm") \/ Moves(w, "list")
      BY <1>8, GotoMoves DEF HeartbeatWrite, AfterHeartbeat
    <2>3. QED
      BY <1>1, <1>3, <2>1, <2>2
  <1>9. CASE WaitWrite(w)
    <2>1. worker[w].pc = "waitWrite" /\ row'.status = "waiting_for_user" /\ Moves(w, "complete")
      BY <1>2, <1>9, StopMoves DEF WaitWrite, WaitPatch, Row
    <2>2. QED
      BY <1>1, <2>1
  <1>10. CASE FinishWrite(w)
    <2>1. /\ worker[w].pc = "finWrite" /\ row'.status \in {"failed", "succeeded"}
          /\ Moves(w, "complete") /\ stale' = Deciders(w)
      BY <1>2, <1>10, StopMoves DEF FinishWrite, FinishPatch, Row
    <2>2. QED
      BY <1>1, <2>1
  <1>11. QED
    BY <1>4, <1>5, <1>6, <1>7, <1>8, <1>9, <1>10 DEF Working

\* The same of a handler: the status is written by one that had come to write it.
Claims == {"cancelWrite", "doneFinWrite"}
Resumes == {"resSetRead", "resSetWrite", "requeue"}

HandlerMoves(u, pc) ==
  request'[u].pc = pc /\ \A v \in Requests \ {u} : request'[v] = request[v]

LEMMA RequestMoves ==
  ASSUME TypeOK, NEW u \in Requests, RequestStep(u) \/ UserAction(u) \/ Disconnect(u)
  PROVE  /\ UNCHANGED worker
         /\ \/ /\ row'.status = row.status /\ stale' = stale
               /\ \/ \E pc \in RequestPc \ (Claims \cup Resumes) : HandlerMoves(u, pc)
                  \/ ~Terminal(row) /\ \E pc \in Claims : HandlerMoves(u, pc)
                  \/ /\ row.status \notin {"cancelled", "expired"} \/ request[u].pc \in Resumes
                     /\ \E pc \in Resumes : HandlerMoves(u, pc)
            \/ /\ row'.status = row.status /\ stale' = stale \ {u}
               /\ HandlerMoves(u, "idle")
            \/ /\ request[u].pc \in Claims /\ row'.status \in {"cancelled", "succeeded"}
               /\ HandlerMoves(u, "idle") /\ stale' = Deciders(u)
            \/ /\ request[u].pc = "requeue" /\ row'.status = "queued"
               /\ HandlerMoves(u, "enqueue")
  <1>0. /\ row \in Row /\ request \in [Requests -> RequestState] /\ request[u] \in RequestLocals
        /\ {"cancelled", "succeeded", "queued"} \subseteq Status
    BY DEF TypeOK, RequestState, Status, TerminalStatus
  <1>p. /\ {"idle", "cancelRead", "doneRead", "doneInsert", "doneCount", "doneFinRead", "setRead",
            "setWrite", "settle", "resRead"} \subseteq RequestPc \ (Claims \cup Resumes)
        /\ {"cancelWrite", "doneFinWrite"} \subseteq Claims
        /\ {"resSetRead", "resSetWrite", "requeue"} \subseteq Resumes
    BY DEF RequestPc, Claims, Resumes
  <1>g. \A pc : GotoR(u, pc) => HandlerMoves(u, pc)
    BY <1>0 DEF GotoR, HandlerMoves, RequestLocals
  <1>e. End(u) => HandlerMoves(u, "idle")
    BY <1>0 DEF End, HandlerMoves, IdleRequest
  <1>s. \A pc, msg : Start(u, pc, msg) => HandlerMoves(u, pc)
    BY <1>0 DEF Start, HandlerMoves, IdleRequest
  <1>w. UNCHANGED worker
    BY DEF RequestStep, UserAction, PostCancel, PostFinish, PostRedirect, SettleApproval,
           Disconnect, CancelRead, CancelWrite, DoneRead, DoneInsert, DoneCount,
           DoneFinishRead, DoneFinishWrite, SetRedirectRead, SetRedirectWrite, SettleLedger,
           ResumeRead, ResumeSetRead, ResumeSetWrite, Requeue, EnqueueJob
  <1>1. CASE UserAction(u)
    <2>1. row' = row /\ stale' = stale
      BY <1>1 DEF UserAction, PostCancel, PostFinish, PostRedirect, SettleApproval, history
    <2>2. \E pc \in {"cancelRead", "doneRead", "setRead", "resRead"} : HandlerMoves(u, pc)
      BY <1>1, <1>s DEF UserAction, PostCancel, PostFinish, PostRedirect, SettleApproval
    <2>3. QED
      BY <1>p, <1>w, <2>1, <2>2
  <1>2. CASE Disconnect(u)
    BY <1>2, <1>e, <1>w DEF Disconnect
  <1>3. CASE CancelRead(u) \/ DoneFinishRead(u)
    <2>1. row' = row /\ stale' = stale
      BY <1>3 DEF CancelRead, DoneFinishRead, history
    <2>2. \/ HandlerMoves(u, "idle")
          \/ ~Terminal(row) /\ \E pc \in Claims : HandlerMoves(u, pc)
      BY <1>3, <1>p, <1>g, <1>e DEF CancelRead, DoneFinishRead
    <2>3. QED
      BY <1>p, <1>w, <2>1, <2>2
  <1>4. CASE CancelWrite(u)
    <2>1. row'.status = "cancelled"
      BY <1>0, <1>4 DEF CancelWrite, CancelPatch, Row
    <2>2. QED
      BY <1>4, <1>p, <1>w, <1>e, <2>1 DEF CancelWrite
  <1>5. CASE DoneFinishWrite(u)
    <2>1. row'.status = "succeeded"
      BY <1>0, <1>5 DEF DoneFinishWrite, FinishPatch, Row
    <2>2. QED
      BY <1>5, <1>p, <1>w, <1>e, <2>1 DEF DoneFinishWrite
  <1>6. CASE Requeue(u)
    <2>1. row'.status = "queued"
      BY <1>0, <1>6 DEF Requeue, RequeuePatch, Row
    <2>2. HandlerMoves(u, "enqueue")
      BY <1>0, <1>6 DEF Requeue, HandlerMoves, RequestLocals
    <2>3. QED
      BY <1>6, <1>w, <2>1, <2>2 DEF Requeue
  <1>7. CASE ResumeRead(u) \/ ResumeSetRead(u) \/ ResumeSetWrite(u)
    <2>1. row'.status = row.status /\ stale' = stale
      BY <1>0, <1>7 DEF ResumeRead, ResumeSetRead, ResumeSetWrite, RedirectPatch, Row, history
    <2>2. \/ HandlerMoves(u, "idle")
          \/ /\ row.status \notin {"cancelled", "expired"} \/ request[u].pc \in Resumes
             /\ \E pc \in Resumes : HandlerMoves(u, pc)
      BY <1>7, <1>p, <1>g, <1>e DEF ResumeRead, ResumeSetRead, ResumeSetWrite
    <2>3. QED
      BY <1>p, <1>w, <2>1, <2>2
  <1>8. CASE SetRedirectRead(u) \/ SettleLedger(u) \/ EnqueueJob(u) \/ DoneInsert(u)
    <2>1. row' = row /\ stale' = stale
      BY <1>8 DEF SetRedirectRead, SettleLedger, EnqueueJob, DoneInsert, history
    <2>2. \E pc \in {"idle", "setWrite", "resRead", "doneCount", "doneFinRead"} : HandlerMoves(u, pc)
      BY <1>8, <1>g, <1>e DEF SetRedirectRead, SettleLedger, EnqueueJob, DoneInsert
    <2>3. QED
      BY <1>p, <1>w, <2>1, <2>2
  <1>9. CASE DoneRead(u)
    <2>1. row' = row /\ stale' = stale
      BY <1>9 DEF DoneRead, history
    <2>2. HandlerMoves(u, "idle") \/ HandlerMoves(u, "doneInsert")
      BY <1>0, <1>9, <1>e DEF DoneRead, HandlerMoves, RequestLocals
    <2>3. QED
      BY <1>p, <1>w, <2>1, <2>2
  <1>10. CASE DoneCount(u)
    <2>1. row'.status = row.status /\ stale' = stale
      BY <1>0, <1>10 DEF DoneCount, StepCountPatch, Row, history
    <2>2. HandlerMoves(u, "doneFinRead")
      BY <1>10, <1>g DEF DoneCount
    <2>3. QED
      BY <1>p, <1>w, <2>1, <2>2
  <1>11. CASE SetRedirectWrite(u)
    <2>1. row'.status = row.status /\ stale' = stale
      BY <1>0, <1>11 DEF SetRedirectWrite, RedirectPatch, Row
    <2>2. HandlerMoves(u, "settle")
      <3>1. PICK resume : request' = [request EXCEPT ![u] = [request[u] EXCEPT
               !.pc = "settle", !.msg = NoMessage, !.resume = resume]]
        BY <1>11, Zenon DEF SetRedirectWrite
      <3>2. QED
        BY <1>0, <3>1 DEF HandlerMoves, RequestLocals
    <2>3. QED
      BY <1>p, <1>w, <2>1, <2>2
  <1>12. QED
    BY <1>1, <1>2, <1>3, <1>4, <1>5, <1>6, <1>7, <1>8, <1>9, <1>10, <1>11 DEF RequestStep

\* Claim, Crash, Abort and Complete leave the row alone and w out of run().
LEMMA ClaimMoves ==
  ASSUME TypeOK, NEW w \in Workers, Claim(w) \/ Crash(w) \/ Abort(w) \/ Complete(w)
  PROVE  /\ UNCHANGED <<row, request, swallowed>>
         /\ stale' = stale \/ stale' = stale \ {w}
         /\ worker'[w].pc \in {"idle", "get"}
         /\ \A v \in Workers \ {w} : worker'[v] = worker[v]
  <1>1. /\ UNCHANGED <<row, request, swallowed>>
        /\ stale' = stale \/ stale' = stale \ {w}
    BY DEF Claim, Crash, Abort, Complete, history
  <1>2. CASE Claim(w)
    <2>1. PICK j \in jobs : worker' = [worker EXCEPT ![w] = [IdleWorker EXCEPT !.pc = "get", !.key = j.key]]
      BY <1>2 DEF Claim
    <2>2. [IdleWorker EXCEPT !.pc = "get", !.key = j.key].pc = "get"
      BY DEF IdleWorker
    <2>3. QED
      BY <1>1, <2>1, <2>2 DEF TypeOK
  <1>3. CASE Crash(w) \/ Abort(w) \/ Complete(w)
    <2>1. worker' = [worker EXCEPT ![w] = IdleWorker] /\ IdleWorker.pc = "idle"
      BY <1>3 DEF Crash, Abort, Complete, IdleWorker
    <2>2. QED
      BY <1>1, <2>1 DEF TypeOK
  <1>4. QED
    BY <1>2, <1>3

LEMMA DecidersDecide ==
  ASSUME NEW a \in Workers \cup Requests, NEW b \in (Workers \cup Requests) \ {a}, MayReopen(b)
  PROVE  b \in Deciders(a)
  BY DEF MayReopen, Deciders, Deciding

LEMMA StepCloses == TypeOK /\ CloseInv /\ [Next]_vars => CloseInv'
  <1> SUFFICES ASSUME TypeOK, CloseInv, [Next]_vars, Terminal(row)',
                      NEW a \in Workers \cup Requests, MayReopen(a)'
               PROVE  a \in stale'
    BY DEF CloseInv
  <1> USE ActorsAssumption
  <1>0. /\ row'.status \in TerminalStatus
        /\ \A x \in {"running", "queued", "waiting_for_user"} : x \notin TerminalStatus
    BY DEF Terminal, TerminalStatus
  <1>1. ASSUME row'.status = row.status, MayReopen(a) PROVE a \in stale
    BY <1>1 DEF CloseInv, Terminal
  <1>2. CASE \E w \in Workers : Working(w)
    <2>1. PICK w \in Workers : Working(w)
      BY <1>2
    <2>2. /\ \A v \in Workers \ {w} : worker'[v] = worker[v]
          /\ request' = request
      BY <2>1, WorkingMoves DEF Moves
    <2>3. CASE a # w
      <3>1. CASE row'.status = row.status /\ stale' = stale
        BY <1>1, <2>2, <2>3, <3>1 DEF MayReopen
      <3>2. CASE stale' = Deciders(w)
        <4>1. row'.status \in {"failed", "succeeded"} \/ row'.status = row.status
          BY <2>1, <1>0, WorkingMoves
        <4>2. MayReopen(a)
          BY <2>2, <2>3, <4>1 DEF MayReopen
        <4>3. QED
          BY <2>3, <3>2, <4>2, DecidersDecide
      <3>3. QED
        BY <1>0, <2>1, <3>1, <3>2, WorkingMoves
    <2>4. CASE a = w
      <3>1. worker'[w].pc \in Writes
        BY <2>4 DEF MayReopen, Writes
      <3>2. ~Terminal(row) /\ row'.status = row.status
        BY <2>1, <3>1, WorkingMoves DEF Moves, Plain, Writes
      <3>3. QED
        BY <3>2 DEF Terminal
    <2>5. QED
      BY <2>3, <2>4
  <1>3. CASE \E w \in Workers : Claim(w) \/ Crash(w) \/ Abort(w) \/ Complete(w)
    <2>1. PICK w \in Workers : Claim(w) \/ Crash(w) \/ Abort(w) \/ Complete(w)
      BY <1>3
    <2>2. a # w /\ MayReopen(a)
      BY <2>1, ClaimMoves DEF MayReopen
    <2>3. QED
      BY <1>1, <2>1, <2>2, ClaimMoves
  <1>4. CASE \E u \in Requests : RequestStep(u) \/ UserAction(u) \/ Disconnect(u)
    <2>1. PICK u \in Requests : RequestStep(u) \/ UserAction(u) \/ Disconnect(u)
      BY <1>4
    <2>2. worker' = worker /\ \A v \in Requests \ {u} : request'[v] = request[v]
      BY <2>1, RequestMoves DEF HandlerMoves
    <2>3. CASE a # u
      <3>1. CASE row'.status = row.status /\ (stale' = stale \/ stale' = stale \ {u})
        BY <1>1, <2>2, <2>3, <3>1 DEF MayReopen
      <3>2. CASE stale' = Deciders(u) /\ row'.status \in {"cancelled", "succeeded"}
        <4>1. a \in (Workers \cup Requests) \ {u} /\ Deciding(a)
          BY <2>2, <2>3 DEF MayReopen, Deciding
        <4>2. QED
          BY <3>2, <4>1 DEF Deciders
      <3>3. QED
        BY <1>0, <2>1, <3>1, <3>2, RequestMoves
    <2>4. CASE a = u
      <3>1. \/ request'[u].pc \in Claims
            \/ request'[u].pc \in Resumes /\ row'.status \in {"cancelled", "expired"}
        BY <2>4 DEF MayReopen, Claims, Resumes
      <3>2. /\ row'.status = row.status /\ stale' = stale
            /\ \/ ~Terminal(row)
               \/ row.status \notin {"cancelled", "expired"}
               \/ request[u].pc \in Resumes
        BY <2>1, <3>1, <1>0, RequestMoves DEF HandlerMoves, Claims, Resumes
      <3>3. Terminal(row)
        BY <3>2 DEF Terminal
      <3>4. MayReopen(u)
        BY <2>1, <3>1, <3>2, <3>3, RequestMoves DEF HandlerMoves, Claims, Resumes, MayReopen
      <3>5. QED
        BY <1>1, <2>4, <3>2, <3>4
    <2>5. QED
      BY <2>3, <2>4
  <1>5. CASE Lapse \/ UNCHANGED vars
    <2>1. UNCHANGED <<row, worker, request, stale>>
      BY <1>5 DEF Lapse, vars, history
    <2>2. QED
      BY <1>1, <2>1 DEF MayReopen
  <1>6. QED
    BY <1>2, <1>3, <1>4, <1>5 DEF Next, WorkerStep, Working

\* However cancel, finish, reply and the harness's own writes interleave, what
\* closed a run is undone only by an actor that had decided before the close, or
\* by the reply that reopens a finished run.
THEOREM CloseIsFinal == Spec => CloseBindsLaterReaders
  <1>1. Init => CloseInv
    BY DEF Init, NewRow, CloseInv, Terminal, TerminalStatus
  <1>2. ASSUME TypeOK, CloseInv, [Next]_vars, Terminal(row), row'.status # row.status
        PROVE  \/ \E a \in stale : MovedW(a) \/ MovedR(a)
               \/ /\ row.status \in {"succeeded", "failed"}
                  /\ \E u \in Requests : request[u].pc = "requeue" /\ MovedR(u)
    <2>1. CASE \E w \in Workers : WorkerStep(w) \/ Crash(w) \/ Abort(w)
      <3>1. PICK w \in Workers : Working(w)
        BY <1>2, <2>1, ClaimMoves DEF WorkerStep, Working
      <3>2. worker[w].pc \in {"hbWrite", "waitWrite", "finWrite"}
        BY <1>2, <3>1, WorkingMoves
      <3>3. worker'[w].pc # worker[w].pc
        BY <1>2, <3>1, <3>2, WorkingMoves DEF Moves, Plain, Writes
      <3>4. w \in stale
        BY <1>2, <3>2 DEF CloseInv, MayReopen
      <3>5. QED
        BY <3>3, <3>4 DEF MovedW
    <2>2. CASE \E u \in Requests : RequestStep(u) \/ UserAction(u) \/ Disconnect(u)
      <3>1. PICK u \in Requests : RequestStep(u) \/ UserAction(u) \/ Disconnect(u)
        BY <2>2
      <3>2. /\ request[u].pc \in Claims \cup {"requeue"}
            /\ request'[u].pc \in {"idle", "enqueue"}
        BY <1>2, <3>1, RequestMoves DEF HandlerMoves
      <3>3. MovedR(u)
        BY <3>2 DEF MovedR, Claims
      <3>4. CASE request[u].pc \in Claims \/ row.status \in {"cancelled", "expired"}
        <4>1. u \in stale
          BY <1>2, <3>2, <3>4 DEF CloseInv, MayReopen, Claims
        <4>2. QED
          BY <3>3, <4>1
      <3>5. CASE request[u].pc = "requeue" /\ row.status \in {"succeeded", "failed"}
        BY <3>3, <3>5
      <3>6. QED
        BY <1>2, <3>2, <3>4, <3>5 DEF Terminal, TerminalStatus
    <2>3. CASE Lapse \/ UNCHANGED vars
      BY <1>2, <2>3 DEF Lapse, vars
    <2>4. QED
      BY <1>2, <2>1, <2>2, <2>3 DEF Next
  <1>3. TypeOK /\ CloseInv /\ [Next]_vars =>
          [Terminal(row) /\ row'.status # row.status
             => \/ \E a \in stale : MovedW(a) \/ MovedR(a)
                \/ /\ row.status \in {"succeeded", "failed"}
                   /\ \E u \in Requests : request[u].pc = "requeue" /\ MovedR(u)]_vars
    BY <1>2
  <1>4. QED
    BY <1>1, <1>3, StepCloses, TypeCorrect, PTL DEF Spec, CloseBindsLaterReaders

-----------------------------------------------------------------------------
(* Who carries an open run.  Inductive is more than OpenRunIsCarried says:  *)
(* a claimed job always has its worker, and a run that is open has a job    *)
(* nobody has claimed yet, a worker inside run(), or a handler at Enqueue.  *)

Calm == Faultless /\ spent.disconnects = 0

JobsAreHeld ==
  \A j \in jobs : \/ j.status = "pending"
                  \/ /\ j.status = "running"
                     /\ \E w \in Workers : worker[w].key = j.key /\ worker[w].pc # "idle"

Carried ==
  ~swallowed /\ row.status \in Open =>
    \/ \E j \in jobs : j.status = "pending"
    \/ \E w \in Workers : worker[w].pc \notin {"idle", "complete"}
    \/ \E u \in Requests : request[u].pc = "enqueue"

CarryInv == Calm => JobsAreHeld /\ Carried

\* Faults are counted, and a count never goes back.
LEMMA FaultsSpend ==
  ASSUME TypeOK, NEW what \in {"errors", "lapses", "disconnects"}, NEW bound, Spend(what, bound)
  PROVE  ~Calm'
  BY DEF TypeOK, Spend, Calm, Faultless

LEMMA RequestsSpend ==
  ASSUME TypeOK, NEW bound, Spend("requests", bound), Calm'
  PROVE  Calm
  BY DEF TypeOK, Spend, Calm, Faultless

\* Only the actions below spend a fault; a step without one was calm before.
LEMMA CalmBefore ==
  ASSUME TypeOK, [Next]_vars, Calm'
  PROVE  /\ Calm
         /\ \A w \in Workers : ~Crash(w) /\ ~Abort(w)
         /\ \A u \in Requests : ~Disconnect(u)
         /\ ~Lapse
  <1>1. /\ \A w \in Workers : ~Crash(w) /\ ~Abort(w)
        /\ \A u \in Requests : ~Disconnect(u)
        /\ ~Lapse
    BY FaultsSpend DEF Crash, Abort, Disconnect, Lapse
  <1>2. CASE UNCHANGED spent
    BY <1>1, <1>2 DEF Calm, Faultless
  <1>3. CASE \E u \in Requests : UserAction(u)
    BY <1>1, <1>3, RequestsSpend DEF UserAction, PostCancel, PostFinish, PostRedirect, SettleApproval, Start
  <1>4. CASE \E w \in Workers : WorkerStep(w)
    <2>1. spent' = spent
      BY <1>4, FaultsSpend DEF WorkerStep, Claim, GetRun, HeartbeatRead, HeartbeatWrite,
         Bootstrap, InsertStep, CountStep, LoopGet, ClearRedirect, CallLLM, AfterLLM,
         RecordRequest, HandleTool, WaitRead, WaitWrite, Succeed, Fail, FinishRead,
         FinishWrite, Complete
    <2>2. QED
      BY <1>1, <1>2, <2>1
  <1>5. CASE \E u \in Requests : RequestStep(u)
    <2>1. spent' = spent
      BY <1>5, FaultsSpend DEF RequestStep, CancelRead, CancelWrite, DoneRead, DoneInsert,
         DoneCount, DoneFinishRead, DoneFinishWrite, SetRedirectRead, SetRedirectWrite,
         SettleLedger, ResumeRead, ResumeSetRead, ResumeSetWrite, Requeue, EnqueueJob
    <2>2. QED
      BY <1>1, <1>2, <2>1
  <1>6. QED
    BY <1>1, <1>2, <1>3, <1>4, <1>5 DEF Next, vars

LEMMA StepCarries == TypeOK /\ CarryInv /\ [Next]_vars => CarryInv'
  <1> SUFFICES ASSUME TypeOK, JobsAreHeld, Carried, [Next]_vars, Calm',
                      \A w \in Workers : ~Crash(w) /\ ~Abort(w),
                      \A u \in Requests : ~Disconnect(u), ~Lapse
               PROVE  JobsAreHeld' /\ Carried'
    BY CalmBefore DEF CarryInv
  <1>1. CASE \E w \in Workers : Working(w)
    <2>1. PICK w \in Workers : Working(w)
      BY <1>1
    <2>2. /\ UNCHANGED <<jobs, request, swallowed>>
          /\ worker'[w].key = worker[w].key /\ worker'[w].pc # "idle"
          /\ \A v \in Workers \ {w} : worker'[v] = worker[v]
      BY <2>1, WorkingMoves DEF Moves, Plain, Writes
    <2>3. worker'[w].pc = "complete" => row'.status \notin Open
      BY <2>1, WorkingMoves DEF Moves, Plain, Writes, Open
    <2>4. JobsAreHeld'
      BY <2>2 DEF JobsAreHeld
    <2>5. QED
      BY <2>2, <2>3, <2>4 DEF Carried
  <1>2. CASE \E w \in Workers : Claim(w)
    <2>1. PICK w \in Workers : Claim(w)
      BY <1>2
    <2>2. PICK j \in jobs : /\ j.status \in {"pending", "lapsed"}
                            /\ jobs' = (jobs \ {j}) \cup {[j EXCEPT !.status = "running"]}
                            /\ worker' = [worker EXCEPT ![w] =
                                 [IdleWorker EXCEPT !.pc = "get", !.key = j.key]]
      BY <2>1 DEF Claim, WithStatus
    <2>3. /\ worker'[w].pc = "get" /\ worker'[w].key = j.key /\ worker[w].pc = "idle"
          /\ \A v \in Workers \ {w} : worker'[v] = worker[v]
          /\ [j EXCEPT !.status = "running"].status = "running"
          /\ [j EXCEPT !.status = "running"].key = j.key
      BY <2>1, <2>2 DEF TypeOK, Claim, IdleWorker, Job
    <2>4. ASSUME NEW i \in jobs, i.status # "pending"
          PROVE  i.status = "running" /\ \E v \in Workers : worker'[v].key = i.key /\ worker'[v].pc # "idle"
      BY <2>3, <2>4 DEF JobsAreHeld
    <2>5. JobsAreHeld'
      BY <2>2, <2>3, <2>4 DEF JobsAreHeld
    <2>6. worker'[w].pc \notin {"idle", "complete"}
      BY <2>3
    <2>7. QED
      BY <2>5, <2>6 DEF Carried
  <1>3. CASE \E w \in Workers : Complete(w)
    <2>1. PICK w \in Workers : Complete(w)
      BY <1>3
    <2>2. /\ UNCHANGED <<row, request, swallowed>>
          /\ jobs' = {j \in jobs : ~(j.key = worker[w].key /\ j.status # "pending")}
          /\ worker[w].pc = "complete"
          /\ \A v \in Workers \ {w} : worker'[v] = worker[v]
      BY <2>1 DEF TypeOK, Complete, Completed, history
    <2>3. JobsAreHeld'
      BY <2>2 DEF JobsAreHeld
    <2>4. QED
      BY <2>2, <2>3 DEF Carried
  <1>4. CASE \E u \in Requests : EnqueueJob(u)
    <2>1. PICK u \in Requests : EnqueueJob(u)
      BY <1>4
    <2> DEFINE key == request[u].seq
    <2>2. UNCHANGED <<row, worker>>
      BY <2>1 DEF EnqueueJob
    <2>3. CASE jobs' = jobs /\ Outstanding(key) /\ swallowed' = (swallowed \/ Swallows(key))
      <3>1. JobsAreHeld'
        BY <2>2, <2>3 DEF JobsAreHeld
      <3>2. \/ \E j \in jobs : j.status = "pending"
            \/ \E w \in Workers : worker[w].pc \notin {"idle", "complete"}
            \/ Swallows(key)
        BY <2>3 DEF Swallows, JobsAreHeld
      <3>3. QED
        BY <2>2, <2>3, <3>1, <3>2 DEF Carried
    <2>4. CASE jobs' = jobs \cup {[key |-> key, status |-> "pending", attempts |-> 0]}
      <3> DEFINE new == [key |-> key, status |-> "pending", attempts |-> 0]
      <3>0. new.status = "pending" /\ jobs' = jobs \cup {new}
        BY <2>4
      <3> HIDE DEF new
      <3>1. \E j \in jobs' : j.status = "pending"
        BY <3>0
      <3>2. \A j \in jobs' : j \in jobs \/ j.status = "pending"
        BY <3>0
      <3>3. JobsAreHeld'
        <4> SUFFICES ASSUME NEW j \in jobs', j.status # "pending"
                     PROVE  j.status = "running" /\ \E w \in Workers : worker'[w].key = j.key /\ worker'[w].pc # "idle"
          BY DEF JobsAreHeld
        <4>1. j \in jobs
          BY <3>2
        <4>2. QED
          BY <2>2, <4>1 DEF JobsAreHeld
      <3>4. QED
        BY <3>1, <3>3 DEF Carried
    <2>5. ~Spend("disconnects", MaxDisconnects)
      BY FaultsSpend
    <2>6. QED
      BY <2>1, <2>3, <2>4, <2>5 DEF EnqueueJob, Enqueued
  <1>5. CASE \E u \in Requests : UserAction(u) \/ (RequestStep(u) /\ ~EnqueueJob(u))
    <2>1. PICK u \in Requests : UserAction(u) \/ (RequestStep(u) /\ ~EnqueueJob(u))
      BY <1>5
    <2>2. /\ UNCHANGED <<jobs, swallowed>> /\ request[u].pc # "enqueue"
      BY <2>1 DEF UserAction, PostCancel, PostFinish, PostRedirect, SettleApproval, Start,
           RequestStep, CancelRead, CancelWrite, DoneRead, DoneInsert, DoneCount,
           DoneFinishRead, DoneFinishWrite, SetRedirectRead, SetRedirectWrite, SettleLedger,
           ResumeRead, ResumeSetRead, ResumeSetWrite, Requeue, history
    <2>3. /\ worker' = worker
          /\ \A v \in Requests \ {u} : request'[v] = request[v]
          /\ row'.status \in Open => row'.status = row.status \/ request'[u].pc = "enqueue"
      BY <2>1, RequestMoves DEF HandlerMoves, Open
    <2>4. QED
      BY <2>2, <2>3 DEF JobsAreHeld, Carried
  <1>6. CASE UNCHANGED vars
    BY <1>6 DEF vars, JobsAreHeld, Carried
  <1>7. QED
    BY <1>1, <1>2, <1>3, <1>4, <1>5, <1>6 DEF Next, WorkerStep, Working

\* Without a fault, a queued or running run always has a job, a worker or a handler
\* that will carry it on, unless the dedupe_key of a resume was held by a job whose
\* worker had already left the run.
THEOREM OpenRunHasItsCarrier == Spec => []OpenRunIsCarried
  <1>1. Init => CarryInv
    <2> SUFFICES ASSUME Init PROVE JobsAreHeld /\ Carried
      BY DEF CarryInv
    <2>1. \E u \in Requests : request[u].pc = "enqueue"
      BY DEF Init, IdleRequest
    <2>2. QED
      BY <2>1 DEF Init, JobsAreHeld, Carried
  <1>2. CarryInv => OpenRunIsCarried
    BY DEF CarryInv, Calm, JobsAreHeld, Carried, OpenRunIsCarried, Open
  <1>3. QED
    BY <1>1, <1>2, StepCarries, TypeCorrect, PTL DEF Spec
=============================================================================
