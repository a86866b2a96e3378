----------------------------- MODULE AgentRuns ------------------------------
(***************************************************************************)
(* The life of one cloud agent run: the background job that starts it, the *)
(* harness loop (internal/agents/harness.go) that works on it, and the     *)
(* HTTP handlers (internal/agents/handler.go, ResumeAfterApproval in       *)
(* spawner.go) with which the user cancels, finishes, answers or approves. *)
(*                                                                         *)
(* Harness goroutines and request goroutines share nothing but the row and *)
(* the timeline of AgentStore, and every store method is a read and then a *)
(* write: each round trip is one action, so a method is interrupted by     *)
(* anyone between the two.  What the row says is never locked, and no      *)
(* write depends on the version that was read.                             *)
(***************************************************************************)
EXTENDS AgentStore

CONSTANTS Workers,        \* goroutines of jobs.Worker that may hold a job of this run
          Requests,       \* goroutines of HTTP requests on this run
          WorkerOwner,    \* Harness.WorkerID, the same in every replica
          MaxCalls,       \* bound: tool calls in one reply of the model
          MaxRounds,      \* Budgets.MaxSteps: turns of the loop per execution
          ListLimit,      \* the 500 of bootstrapMessages
          MaxAttempts,    \* attempts of a job before dead_letter
          MaxRequests,    \* bound: requests the users make
          MaxErrors,      \* bound: store calls that fail
          MaxLapses,      \* bound: crashes and leases that run out
          MaxDisconnects, \* bound: requests that end half-way
          MaxMixed        \* bound: faults beside more than one request

ASSUME BoundsAssumption ==
  /\ MaxCalls \in Nat \ {0} /\ MaxRounds \in Nat \ {0} /\ ListLimit \in Nat \ {0} /\ MaxAttempts \in Nat \ {0}
  /\ MaxRequests \in Nat /\ MaxErrors \in Nat
  /\ MaxLapses \in Nat /\ MaxDisconnects \in Nat /\ MaxMixed \in Nat
ASSUME OwnerAssumption == WorkerOwner \in Owners
ASSUME ActorsAssumption == Workers \cap Requests = {}

VARIABLES row,       \* the agent_runs row
          steps,     \* agent_steps: seq -> message, NoMessage for every other kind
          ledger,    \* an agent_approval action_run is proposed for this run
          jobs,      \* background_jobs of this run that are not finished
          worker,    \* worker[w]: program counter and locals of HandleJob and run()
          request,   \* request[u]: program counter and locals of a handler
          used,      \* texts sent so far; each is sent once
          spent,     \* how much of each bound is used up
          closed,    \* history: how the user closed the run, "no" while it is open
          replies,   \* history: the text stored last, if its handler then resumes the run,
                     \* until a harness records that the run has failed
          stale,     \* history: actors about to write what they decided before a close
          swallowed  \* history: a resume found its dedupe_key held by a job that nobody works on

vars == <<row, steps, ledger, jobs, worker, request, used, spent,
          closed, replies, stale, swallowed>>
history == <<closed, replies, stale, swallowed>>

-----------------------------------------------------------------------------
(* Jobs.  The queue is a service: it hands a job to one worker at a time    *)
(* until its lease runs out, and a second job with the dedupe_key of one    *)
(* that is still outstanding is not created.                                *)

SpawnKey == -1                          \* "agent_run:<id>"
Key == Nat \cup {SpawnKey}              \* n stands for "agent_run_resume:<id>:<n>"
Job == [key : Key, status : {"pending", "running", "lapsed"}, attempts : 0..MaxAttempts]

Outstanding(key) == \E j \in jobs : j.key = key

\* Slip: one outstanding job per run instead of one per dedupe_key.
Enqueued_OncePerRun(key) ==
  IF jobs # {} THEN jobs ELSE {[key |-> key, status |-> "pending", attempts |-> 0]}

Enqueued(key) ==
  IF Outstanding(key) THEN jobs
  ELSE jobs \cup {[key |-> key, status |-> "pending", attempts |-> 0]}

WithStatus(j, status) == (jobs \ {j}) \cup {[j EXCEPT !.status = status]}

\* CompleteJob succeeds for whoever carries the worker id, and every replica
\* carries the same one.
Completed(key) == {j \in jobs : ~(j.key = key /\ j.status # "pending")}

\* FailJob: back to pending until the attempts are used up.
Failed(key) ==
  {j \in jobs : ~(j.key = key /\ j.status # "pending")} \cup
  {[j EXCEPT !.status = "pending", !.attempts = @ + 1] :
     j \in {i \in jobs : i.key = key /\ i.status # "pending" /\ i.attempts + 1 < MaxAttempts}}

-----------------------------------------------------------------------------
(* Actors *)

WorkerPc == {"idle", "get", "hbRead", "hbWrite", "list", "insert", "count", "loop",
             "clear", "llm", "afterLLM", "ledger", "tool", "waitRead", "waitWrite",
             "succeed", "fail", "finRead", "finWrite", "complete"}

RequestPc == {"idle", "cancelRead", "cancelWrite", "doneRead", "doneInsert", "doneCount",
              "doneFinRead", "doneFinWrite", "setRead", "setWrite", "settle",
              "resRead", "resSetRead", "resSetWrite", "requeue", "enqueue"}

StepKind == {"status", "user_message", "thought", "tool_call", "approval_request",
             "tool_result", "error"}

\* What the model decided in this turn: a final answer, a question in plain
\* text, ask_user, request_approval, another tool, or a tool that finishes.
ToolPlan == {"ask", "approve", "tool", "finish"}
Plan == ToolPlan \cup {"answer", "clarify"}

IdleWorker == [pc |-> "idle", key |-> SpawnKey, seq |-> 0, kind |-> "status",
               plan |-> "answer", msg |-> NoMessage, calls |-> 1, rounds |-> 0,
               begun |-> FALSE]
IdleRequest == [pc |-> "idle", msg |-> NoMessage, seq |-> 0, resume |-> FALSE]

WorkerState == [pc : WorkerPc, key : Key, seq : Nat, kind : StepKind, plan : Plan,
                msg : Messages \cup {NoMessage}, calls : Nat, rounds : Nat, begun : BOOLEAN]
RequestLocals == [pc : RequestPc, msg : Messages \cup {NoMessage}, seq : Key, resume : BOOLEAN]
RequestState == {me \in RequestLocals : me.pc # "enqueue" => me.seq \in Nat}

\* A write of the status that an earlier read has already decided.
Deciding(a) ==
  \/ a \in Workers /\ worker[a].pc \in {"hbWrite", "waitWrite", "finWrite"}
  \/ a \in Requests /\ request[a].pc \in
       {"cancelWrite", "doneFinWrite", "resSetRead", "resSetWrite", "requeue"}

\* Every step that closes the run notes who is still to write an older decision.
Deciders(self) == {a \in (Workers \cup Requests) \ {self} : Deciding(a)}

Goto(w, pc) == worker' = [worker EXCEPT ![w].pc = pc]
GotoR(u, pc) == request' = [request EXCEPT ![u].pc = pc]

\* run() has returned without an error: what is left is to complete the job.
Stop(w) ==
  worker' = [worker EXCEPT ![w] = [IdleWorker EXCEPT !.pc = "complete",
                                                           !.key = worker[w].key]]

\* The next AppendStep of w: seq++ and then the INSERT.
Append(w, kind, msg) ==
  worker' = [worker EXCEPT ![w] =
    [@ EXCEPT !.pc = "insert", !.seq = worker[w].seq + 1, !.kind = kind, !.msg = msg]]

Spend(what, bound) ==
  /\ spent[what] < bound
  /\ spent' = [spent EXCEPT ![what] = @ + 1]
  /\ spent'.requests > 1 => spent'.errors + spent'.lapses + spent'.disconnects <= MaxMixed

Init ==
  /\ row = NewRow
  /\ steps = [n \in {} |-> NoMessage]
  /\ ledger = FALSE
  /\ jobs = {}
  /\ worker = [w \in Workers |-> IdleWorker]
  \* Spawn has created the row and is about to enqueue its job.
  /\ \E u \in Requests :
       request = [r \in Requests |->
                    IF r = u THEN [IdleRequest EXCEPT !.pc = "enqueue", !.seq = SpawnKey]
                             ELSE IdleRequest]
  /\ used = {}
  /\ spent = [what \in {"requests", "errors", "lapses", "disconnects"} |-> 0]
  /\ closed = "no"
  /\ replies = {}
  /\ stale = {}
  /\ swallowed = FALSE

-----------------------------------------------------------------------------
(* jobs.Worker: claims and what happens to a claim *)

Claim(w) ==
  /\ worker[w].pc = "idle"
  /\ \E j \in jobs :
       /\ j.status \in {"pending", "lapsed"}
       /\ jobs' = WithStatus(j, "running")
       /\ worker' = [worker EXCEPT ![w] = [IdleWorker EXCEPT !.pc = "get", !.key = j.key]]
  /\ UNCHANGED <<row, steps, ledger, request, used, spent, history>>

\* The lease of a claim runs out while its handler is still at work.
Lapse ==
  /\ \E j \in jobs : j.status = "running" /\ jobs' = WithStatus(j, "lapsed")
  /\ Spend("lapses", MaxLapses)
  /\ UNCHANGED <<row, steps, ledger, worker, request, used, history>>

\* The process of w dies; the claim is left to its lease.
Crash(w) ==
  /\ worker[w].pc # "idle"
  /\ Spend("lapses", MaxLapses)
  /\ worker' = [worker EXCEPT ![w] = IdleWorker]
  /\ jobs' = {IF j.key = worker[w].key /\ j.status = "running"
                THEN [j EXCEPT !.status = "lapsed"] ELSE j : j \in jobs}
  /\ stale' = stale \ {w}
  /\ UNCHANGED <<row, steps, ledger, request, used, closed, replies, swallowed>>

Complete(w) ==
  /\ worker[w].pc = "complete"
  /\ jobs' = Completed(worker[w].key)
  /\ worker' = [worker EXCEPT ![w] = IdleWorker]
  /\ UNCHANGED <<row, steps, ledger, request, used, spent, history>>

\* A store call fails or the job's context ends: run() returns the error with
\* the row as it is, and the job is retried.
Abort(w) ==
  /\ worker[w].pc \notin {"idle", "complete"}
  /\ Spend("errors", MaxErrors)
  /\ jobs' = Failed(worker[w].key)
  /\ worker' = [worker EXCEPT ![w] = IdleWorker]
  /\ stale' = stale \ {w}
  /\ UNCHANGED <<row, steps, ledger, request, used, closed, replies, swallowed>>

-----------------------------------------------------------------------------
(* Worker.HandleJob and Harness.run *)

\* HandleJob's Get.  A queued or running run is started whoever works on it.
GetRun(w) ==
  /\ worker[w].pc = "get"
  /\ IF Terminal(row) \/ row.status = "waiting_for_user" THEN Stop(w) ELSE Goto(w, "hbRead")
  /\ UNCHANGED <<row, steps, ledger, jobs, request, used, spent, history>>

AfterHeartbeat(w) == IF worker[w].begun THEN "llm" ELSE "list"

\* Slip: Heartbeat revives a run without looking whether it is closed.
HeartbeatRead_Unguarded(w) ==
  /\ worker[w].pc = "hbRead"
  /\ Goto(w, "hbWrite")
  /\ UNCHANGED <<row, steps, ledger, jobs, request, used, spent, history>>

\* Heartbeat answers a terminal run without patching it and without an error,
\* so that run() goes on either way.
HeartbeatRead(w) ==
  /\ worker[w].pc = "hbRead"
  /\ Goto(w, IF Terminal(row) THEN AfterHeartbeat(w) ELSE "hbWrite")
  /\ UNCHANGED <<row, steps, ledger, jobs, request, used, spent, history>>

HeartbeatWrite(w) ==
  /\ worker[w].pc = "hbWrite"
  /\ row' = HeartbeatPatch(row, WorkerOwner)
  /\ Goto(w, AfterHeartbeat(w))
  /\ stale' = stale \ {w}
  /\ UNCHANGED <<steps, ledger, jobs, request, used, spent, closed, replies, swallowed>>

\* Slip: seq is advanced before and after the transcript is built.
Bootstrap_TwiceAdvanced(w) ==
  /\ worker[w].pc = "list"
  /\ \E seq \in {0} \cup DOMAIN steps :
       /\ \A n \in DOMAIN steps : n <= seq
       /\ worker' = [worker EXCEPT ![w] =
            [@ EXCEPT !.pc = "insert", !.seq = seq + 2, !.kind = "status", !.msg = NoMessage]]
  /\ UNCHANGED <<row, steps, ledger, jobs, request, used, spent, history>>

\* bootstrapMessages continues from the last step it was given; a run whose
\* steps cannot be listed is failed.
Bootstrap(w) ==
  /\ worker[w].pc = "list"
  /\ \/ LET listed == Listed(steps, ListLimit) IN
        /\ \E seq \in {0} \cup DOMAIN steps :
             /\ \A n \in listed : n <= seq
             /\ seq \in listed \/ listed = {}
             /\ worker' = [worker EXCEPT ![w] = [@ EXCEPT !.pc = "insert",
                             !.seq = seq + 1, !.kind = "status", !.msg = NoMessage]]
        /\ UNCHANGED spent
     \/ Spend("errors", MaxErrors) /\ Goto(w, "fail")
  /\ UNCHANGED <<row, steps, ledger, jobs, request, used, history>>

\* The head of the loop for the given turn; what the last turn decided is over.
Loop(w, rounds) ==
  worker' = [worker EXCEPT ![w] = [IdleWorker EXCEPT !.pc = "loop", !.key = worker[w].key,
               !.seq = worker[w].seq, !.rounds = rounds, !.begun = TRUE]]

\* What run() does after AppendStep returned: its place depends only on the
\* step it appended and on what the model had decided.
Proceed(w) ==
  LET me == worker[w] IN
  \/ /\ me.kind = "status"
     /\ Loop(w, 0)
  \/ me.kind = "user_message" /\ Goto(w, "clear")
  \/ me.kind = "thought" /\ me.plan = "answer" /\ Goto(w, "succeed")
  \/ me.kind = "thought" /\ me.plan = "clarify" /\ Append(w, "approval_request", NoMessage)
  \/ me.kind = "thought" /\ me.plan \in ToolPlan /\ Append(w, "tool_call", NoMessage)
  \/ me.kind = "tool_call" /\ me.plan = "approve" /\ Goto(w, "ledger")
  \/ me.kind = "tool_call" /\ me.plan = "ask" /\ Append(w, "approval_request", NoMessage)
  \/ me.kind = "tool_call" /\ me.plan \in {"tool", "finish"} /\ Goto(w, "tool")
  \/ me.kind = "approval_request" /\ Goto(w, "waitRead")
  \/ me.kind = "tool_result" /\ me.plan = "finish" /\ Goto(w, "succeed")
  \/ /\ me.kind = "tool_result" /\ me.plan # "finish" /\ me.calls > 1
     /\ \E plan \in ToolPlan :          \* the next call of the same reply
          worker' = [worker EXCEPT ![w] = [@ EXCEPT !.pc = "insert", !.seq = worker[w].seq + 1,
                       !.kind = "tool_call", !.plan = plan, !.calls = me.calls - 1]]
  \/ /\ me.kind = "tool_result" /\ me.plan # "finish" /\ me.calls <= 1
     /\ Loop(w, me.rounds + 1)
  \/ me.kind = "error" /\ Goto(w, "finRead")

\* AppendStep's INSERT.  A taken seq is no error: the row already there is
\* returned and the step of this harness is not recorded.
InsertStep(w) ==
  /\ worker[w].pc = "insert"
  /\ \/ /\ ~Taken(steps, worker[w].seq)
        /\ steps' = WithStep(steps, worker[w].seq, worker[w].msg)
        /\ Goto(w, "count")
        /\ UNCHANGED spent
     \/ /\ Taken(steps, worker[w].seq)
        /\ Proceed(w)
        /\ UNCHANGED <<steps, spent>>
     \/ /\ worker[w].kind = "error"       \* fail() ignores the error of its step
        /\ Spend("errors", MaxErrors)
        /\ Proceed(w)
        /\ UNCHANGED steps
  /\ UNCHANGED <<row, ledger, jobs, request, used, history>>

\* AppendStep's PATCH of step_count, whose error is ignored.
CountStep(w) ==
  /\ worker[w].pc = "count"
  /\ \/ row' = StepCountPatch(row, worker[w].seq) /\ UNCHANGED spent
     \/ Spend("errors", MaxErrors) /\ UNCHANGED row
  /\ Proceed(w)
  /\ UNCHANGED <<steps, ledger, jobs, request, used, history>>

\* The head of the loop: stop on a closed run, fail on a used-up budget, take
\* the redirect.  MaxRounds is used up, or the wall clock of 20 minutes has run
\* out, which it cannot have before the first turn.
LoopGet(w) ==
  /\ worker[w].pc = "loop"
  /\ \/ worker[w].rounds >= 1 /\ Goto(w, "fail")
     \/ /\ worker[w].rounds < MaxRounds
        /\ Terminal(row)
        /\ Stop(w)
     \/ /\ worker[w].rounds < MaxRounds
        /\ ~Terminal(row)
        /\ IF row.redirect # NoMessage THEN Append(w, "user_message", row.redirect)
                                       ELSE Goto(w, "hbRead")
  /\ UNCHANGED <<row, steps, ledger, jobs, request, used, spent, history>>

\* The PATCH redirect_pending = NULL after the step; its error is ignored.
ClearRedirect(w) ==
  /\ worker[w].pc = "clear"
  /\ \/ row' = RedirectPatch(row, NoMessage) /\ UNCHANGED spent
     \/ Spend("errors", MaxErrors) /\ UNCHANGED row
  /\ worker' = [worker EXCEPT ![w] = [@ EXCEPT !.pc = "hbRead", !.msg = NoMessage]]
  /\ UNCHANGED <<steps, ledger, jobs, request, used, history>>

\* The model answers, or the call fails.
CallLLM(w) ==
  /\ worker[w].pc = "llm"
  /\ \/ \E plan \in Plan, calls \in 1..MaxCalls :
          /\ plan \in {"answer", "clarify"} => calls = 1
          /\ worker' = [worker EXCEPT ![w] =
               [@ EXCEPT !.pc = "afterLLM", !.plan = plan, !.calls = calls]]
     \/ Goto(w, "fail")
  /\ UNCHANGED <<row, steps, ledger, jobs, request, used, spent, history>>

\* closed(), then the first step of the turn.  A reply with tool calls may
\* carry a text, which is appended before them.
AfterLLM(w) ==
  /\ worker[w].pc = "afterLLM"
  /\ \/ Terminal(row) /\ Stop(w)
     \/ ~Terminal(row) /\ Append(w, "thought", NoMessage)
     \/ /\ ~Terminal(row)
        /\ worker[w].plan \in ToolPlan
        /\ Append(w, "tool_call", NoMessage)
  /\ UNCHANGED <<row, steps, ledger, jobs, request, used, spent, history>>

\* RecordRequest: a proposed action_run; an error is only logged.
RecordRequest(w) ==
  /\ worker[w].pc = "ledger"
  /\ \/ ledger' = TRUE /\ UNCHANGED spent
     \/ Spend("errors", MaxErrors) /\ UNCHANGED ledger
  /\ Append(w, "approval_request", NoMessage)
  /\ UNCHANGED <<row, steps, jobs, request, used, history>>

HandleTool(w) ==
  /\ worker[w].pc = "tool"
  /\ Append(w, "tool_result", NoMessage)
  /\ UNCHANGED <<row, steps, ledger, jobs, request, used, spent, history>>

WaitRead(w) ==
  /\ worker[w].pc = "waitRead"
  /\ IF Terminal(row) THEN Stop(w) ELSE Goto(w, "waitWrite")
  /\ UNCHANGED <<row, steps, ledger, jobs, request, used, spent, history>>

WaitWrite(w) ==
  /\ worker[w].pc = "waitWrite"
  /\ row' = WaitPatch(row)
  /\ Stop(w)
  /\ stale' = stale \ {w}
  /\ UNCHANGED <<steps, ledger, jobs, request, used, spent, closed, replies, swallowed>>

\* succeed(): closed() and then Finish.
Succeed(w) ==
  /\ worker[w].pc = "succeed"
  /\ IF Terminal(row) THEN Stop(w) ELSE Goto(w, "finRead")
  /\ UNCHANGED <<row, steps, ledger, jobs, request, used, spent, history>>

\* fail(): closed(), an error step, and then Finish.
Fail(w) ==
  /\ worker[w].pc = "fail"
  /\ IF Terminal(row) THEN Stop(w) ELSE Append(w, "error", NoMessage)
  /\ UNCHANGED <<row, steps, ledger, jobs, request, used, spent, history>>

FinishRead(w) ==
  /\ worker[w].pc = "finRead"
  /\ IF Terminal(row) THEN Stop(w) ELSE Goto(w, "finWrite")
  /\ UNCHANGED <<row, steps, ledger, jobs, request, used, spent, history>>

FinishWrite(w) ==
  /\ worker[w].pc = "finWrite"
  /\ row' = FinishPatch(row, IF worker[w].kind = "error" THEN "failed" ELSE "succeeded", "answer")
  /\ replies' = IF worker[w].kind = "error" THEN {} ELSE replies
  /\ Stop(w)
  /\ stale' = Deciders(w)
  /\ UNCHANGED <<steps, ledger, jobs, request, used, spent, closed, swallowed>>

-----------------------------------------------------------------------------
(* HTTP handlers.  The first action of each takes one of the bounded        *)
(* requests; a text is sent at most once, so that it identifies the reply.  *)

Start(u, pc, msg) ==
  /\ request[u].pc = "idle"
  /\ Spend("requests", MaxRequests)
  /\ request' = [request EXCEPT ![u] = [IdleRequest EXCEPT !.pc = pc, !.msg = msg]]
  /\ used' = IF msg = NoMessage THEN used ELSE used \cup {msg}

End(u) == request' = [request EXCEPT ![u] = IdleRequest]

PostCancel(u) ==
  /\ Start(u, "cancelRead", NoMessage)
  /\ UNCHANGED <<row, steps, ledger, jobs, worker, history>>

PostFinish(u) ==
  /\ Start(u, "doneRead", NoMessage)
  /\ UNCHANGED <<row, steps, ledger, jobs, worker, history>>

PostRedirect(u) ==
  /\ \E msg \in Messages \ used : Start(u, "setRead", msg)
  /\ UNCHANGED <<row, steps, ledger, jobs, worker, history>>

\* Confirming or cancelling the proposed approval in the actions inbox settles
\* it there and resumes the run with "Approved." or "Denied.".
SettleApproval(u) ==
  /\ ledger
  /\ ledger' = FALSE
  /\ \E msg \in Messages \ used : Start(u, "resRead", msg)
  /\ UNCHANGED <<row, steps, jobs, worker, history>>

\* The client goes away or a store call fails: what is left of the handler
\* is not done.
Disconnect(u) ==
  /\ request[u].pc # "idle"
  /\ Spend("disconnects", MaxDisconnects)
  /\ End(u)
  /\ stale' = stale \ {u}
  /\ UNCHANGED <<row, steps, ledger, jobs, worker, used, closed, replies, swallowed>>

(* AgentsStore.Cancel *)
CancelRead(u) ==
  /\ request[u].pc = "cancelRead"
  /\ IF Terminal(row) THEN End(u) ELSE GotoR(u, "cancelWrite")
  /\ UNCHANGED <<row, steps, ledger, jobs, worker, used, spent, history>>

CancelWrite(u) ==
  /\ request[u].pc = "cancelWrite"
  /\ row' = CancelPatch(row)
  /\ closed' = "cancelled"
  /\ stale' = Deciders(u)
  /\ End(u)
  /\ UNCHANGED <<steps, ledger, jobs, worker, used, spent, replies, swallowed>>

(* AgentsStore.MarkFinished: a status step, whose error is ignored, and Finish *)
DoneRead(u) ==
  /\ request[u].pc = "doneRead"
  /\ IF Terminal(row)
       THEN End(u)
       ELSE request' = [request EXCEPT ![u] =
                          [@ EXCEPT !.pc = "doneInsert", !.seq = row.stepCount + 1]]
  /\ UNCHANGED <<row, steps, ledger, jobs, worker, used, spent, history>>

DoneInsert(u) ==
  /\ request[u].pc = "doneInsert"
  /\ \/ /\ ~Taken(steps, request[u].seq)
        /\ steps' = WithStep(steps, request[u].seq, NoMessage)
        /\ GotoR(u, "doneCount")
        /\ UNCHANGED spent
     \/ /\ Taken(steps, request[u].seq)
        /\ GotoR(u, "doneFinRead")
        /\ UNCHANGED <<steps, spent>>
     \/ /\ Spend("errors", MaxErrors)
        /\ GotoR(u, "doneFinRead")
        /\ UNCHANGED steps
  /\ UNCHANGED <<row, ledger, jobs, worker, used, history>>

DoneCount(u) ==
  /\ request[u].pc = "doneCount"
  /\ \/ row' = StepCountPatch(row, request[u].seq) /\ UNCHANGED spent
     \/ Spend("errors", MaxErrors) /\ UNCHANGED row
  /\ GotoR(u, "doneFinRead")
  /\ UNCHANGED <<steps, ledger, jobs, worker, used, history>>

DoneFinishRead(u) ==
  /\ request[u].pc = "doneFinRead"
  /\ IF Terminal(row) THEN End(u) ELSE GotoR(u, "doneFinWrite")
  /\ UNCHANGED <<row, steps, ledger, jobs, worker, used, spent, history>>

DoneFinishWrite(u) ==
  /\ request[u].pc = "doneFinWrite"
  /\ row' = FinishPatch(row, "succeeded", "closed_by_user")
  /\ closed' = "finished"
  /\ stale' = Deciders(u)
  /\ End(u)
  /\ UNCHANGED <<steps, ledger, jobs, worker, used, spent, replies, swallowed>>

(* Handler.Redirect: SetRedirect, the approval ledger, and the resume of a   *)
(* run that was not running when the text was stored.                       *)
SetRedirectRead(u) ==
  /\ request[u].pc = "setRead"
  /\ IF Redirectable(row) THEN GotoR(u, "setWrite") ELSE End(u)
  /\ UNCHANGED <<row, steps, ledger, jobs, worker, used, spent, history>>

SetRedirectWrite(u) ==
  /\ request[u].pc = "setWrite"
  /\ row' = RedirectPatch(row, request[u].msg)
  /\ LET resume == row.status \in {"waiting_for_user", "succeeded", "failed", "queued"} IN
       /\ request' = [request EXCEPT ![u] =
                        [@ EXCEPT !.pc = "settle", !.msg = NoMessage, !.resume = resume]]
       /\ replies' = IF resume THEN {request[u].msg} ELSE {}
  /\ UNCHANGED <<steps, ledger, jobs, worker, used, spent, closed, stale, swallowed>>

SettleLedger(u) ==
  /\ request[u].pc = "settle"
  /\ ledger' = FALSE
  /\ IF request[u].resume THEN GotoR(u, "resRead") ELSE End(u)
  /\ UNCHANGED <<row, steps, jobs, worker, used, spent, history>>

(* ResumeAfterApproval *)
ResumeRead(u) ==
  /\ request[u].pc = "resRead"
  /\ \/ /\ row.status \in {"waiting_for_user", "queued", "succeeded", "failed"}
        /\ GotoR(u, IF request[u].msg = NoMessage THEN "requeue" ELSE "resSetRead")
     \/ /\ row.status \in {"running", "cancelled", "expired"}
        /\ End(u)
  /\ UNCHANGED <<row, steps, ledger, jobs, worker, used, spent, history>>

\* The SetRedirect of the note; its error is ignored.
ResumeSetRead(u) ==
  /\ request[u].pc = "resSetRead"
  /\ GotoR(u, IF Redirectable(row) THEN "resSetWrite" ELSE "requeue")
  /\ UNCHANGED <<row, steps, ledger, jobs, worker, used, spent, history>>

ResumeSetWrite(u) ==
  /\ request[u].pc = "resSetWrite"
  /\ row' = RedirectPatch(row, request[u].msg)
  /\ replies' = {request[u].msg}
  /\ GotoR(u, "requeue")
  /\ UNCHANGED <<steps, ledger, jobs, worker, used, spent, closed, stale, swallowed>>

Requeue(u) ==
  /\ request[u].pc = "requeue"
  /\ row' = RequeuePatch(row)
  /\ closed' = IF closed = "finished" THEN "no" ELSE closed
  /\ stale' = stale \ {u}
  /\ request' = [request EXCEPT ![u] = [@ EXCEPT !.pc = "enqueue", !.seq = row.stepCount]]
  /\ UNCHANGED <<steps, ledger, jobs, worker, used, spent, replies, swallowed>>

\* The job of this key is still outstanding, but its worker has already found
\* the run closed or waiting: it will only complete the job.
Swallows(key) ==
  /\ Outstanding(key) /\ \A j \in jobs : j.key = key => j.status = "running"
  /\ \A w \in Workers : worker[w].key = key => worker[w].pc \in {"idle", "complete"}

\* Enqueue of the job, by Spawn or by a resume; an error is only logged or
\* ignored.
EnqueueJob(u) ==
  /\ request[u].pc = "enqueue"
  /\ \/ /\ jobs' = Enqueued(request[u].seq)
        /\ swallowed' = (swallowed \/ Swallows(request[u].seq))
        /\ UNCHANGED spent
     \/ Spend("disconnects", MaxDisconnects) /\ UNCHANGED <<jobs, swallowed>>
  /\ End(u)
  /\ UNCHANGED <<row, steps, ledger, worker, used, closed, replies, stale>>

-----------------------------------------------------------------------------
\* One step of the goroutine of w, faults aside.
WorkerStep(w) ==
  \/ Claim(w) \/ GetRun(w) \/ HeartbeatRead(w) \/ HeartbeatWrite(w) \/ Bootstrap(w)
  \/ InsertStep(w) \/ CountStep(w) \/ LoopGet(w) \/ ClearRedirect(w) \/ CallLLM(w)
  \/ AfterLLM(w) \/ RecordRequest(w) \/ HandleTool(w) \/ WaitRead(w) \/ WaitWrite(w)
  \/ Succeed(w) \/ Fail(w) \/ FinishRead(w) \/ FinishWrite(w) \/ Complete(w)

\* One step of a handler that has begun.
RequestStep(u) ==
  \/ CancelRead(u) \/ CancelWrite(u) \/ DoneRead(u) \/ DoneInsert(u) \/ DoneCount(u)
  \/ DoneFinishRead(u) \/ DoneFinishWrite(u) \/ SetRedirectRead(u) \/ SetRedirectWrite(u)
  \/ SettleLedger(u) \/ ResumeRead(u) \/ ResumeSetRead(u) \/ ResumeSetWrite(u)
  \/ Requeue(u) \/ EnqueueJob(u)

UserAction(u) ==
  PostCancel(u) \/ PostFinish(u) \/ PostRedirect(u) \/ SettleApproval(u)

Next ==
  \/ \E w \in Workers : WorkerStep(w) \/ Crash(w) \/ Abort(w)
  \/ \E u \in Requests : RequestStep(u) \/ UserAction(u) \/ Disconnect(u)
  \/ Lapse

Spec == Init /\ [][Next]_vars

\* Goroutines that are able to run do run, and the queue keeps being polled;
\* nobody has to send a request, and no fault has to happen.
Fairness ==
  /\ \A w \in Workers : WF_vars(WorkerStep(w))
  /\ \A u \in Requests : WF_vars(RequestStep(u))

FairSpec == Spec /\ Fairness

-----------------------------------------------------------------------------
TypeOK ==
  /\ row \in Row
  /\ DOMAIN steps \subseteq Nat /\ \A n \in DOMAIN steps : steps[n] \in Messages \cup {NoMessage}
  /\ ledger \in BOOLEAN
  /\ jobs \subseteq Job
  /\ worker \in [Workers -> WorkerState]
  /\ request \in [Requests -> RequestState]
  /\ used \subseteq Messages
  /\ spent \in [{"requests", "errors", "lapses", "disconnects"} -> Nat]
  /\ closed \in {"no", "cancelled", "finished"}
  /\ replies \subseteq Messages \cup {NoMessage}
  /\ stale \subseteq Workers \cup Requests
  /\ swallowed \in BOOLEAN

\* The timeline has no holes: whichever harnesses and handlers append to it,
\* with whatever counter they carry, the seqs are 1..n.  (AppendStep takes the
\* seq from its caller: a harness counts on from the steps it was shown,
\* MarkFinished from step_count, and a taken seq is swallowed.)
TimelineGapFree ==
  \A n \in DOMAIN steps : n >= 1 /\ (n > 1 => n - 1 \in DOMAIN steps)

\* step_count never names a step that does not exist, although it is patched
\* after the insert and by several actors in any order.
StepCountNamesAStep == row.stepCount = 0 \/ row.stepCount \in DOMAIN steps

InTimeline(msg) == \E n \in DOMAIN steps : steps[n] = msg

\* No store call has failed, no process died and no lease ran out so far.
Faultless == spent.errors = 0 /\ spent.lapses = 0

\* A run that is to be worked on has somebody to work on it: a job that is not
\* finished, a worker, or a handler about to enqueue.  (A request that ends after
\* its write, or an enqueue that fails, does leave a queued run to nobody; so does,
\* without any fault, a resume whose job is swallowed by a job of the same step_count
\* that is about to be completed.)
OpenRunIsCarried ==
  Faultless /\ spent.disconnects = 0 /\ ~swallowed /\ row.status \in {"queued", "running"} =>
    \/ jobs # {}
    \/ \E w \in Workers : worker[w].pc \notin {"idle", "complete"}
    \/ \E u \in Requests : request[u].pc = "enqueue"

\* A closed run is changed only by a reply that reopens it or by an actor that
\* had decided to write before it was closed: whoever reads the run after the
\* close leaves it closed.
MovedW(a) == a \in Workers /\ worker'[a].pc # worker[a].pc
MovedR(a) == a \in Requests /\ request'[a].pc # request[a].pc
CloseBindsLaterReaders ==
  [][Terminal(row) /\ row'.status # row.status
       => \/ \E a \in stale : MovedW(a) \/ MovedR(a)
          \/ /\ row.status \in {"succeeded", "failed"}
             /\ \E u \in Requests : request[u].pc = "requeue" /\ MovedR(u)]_vars

\* A reply to a run that was not running is put before the model, though calls fail,
\* leases run out and processes die - unless the user closes the run, replaces the reply
\* by another, or is told that the run has failed; or its job was swallowed.  (This is
\* about faults: a Finish that loses its race may still take the seq of the reply's step.)
ResumedReplyIsRead ==
  \A msg \in Messages :
    msg \in replies ~> InTimeline(msg) \/ closed # "no" \/ swallowed \/ msg \notin replies

=============================================================================
