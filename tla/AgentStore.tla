----------------------------- MODULE AgentStore -----------------------------
(***************************************************************************)
(* One row of agent_runs and its timeline agent_steps, as the methods of   *)
(* AgentsStore (internal/storage/agents_store.go) read and write them.     *)
(*                                                                         *)
(* Nearly every method is a SELECT followed by an unconditional PATCH: two *)
(* round trips to PostgREST with nothing in between that holds the row.    *)
(* This module therefore states only what one round trip does: a guard is  *)
(* a predicate on the row that was read, a patch is a function from the    *)
(* row as it is when the PATCH arrives.  The modules that EXTEND this one  *)
(* decide who performs them and how they interleave.                       *)
(***************************************************************************)
EXTENDS Integers, FiniteSets

CONSTANTS Messages,     \* texts a user may send to a run
          NoMessage,    \* redirect_pending = NULL, or a step that carries none
          Owners,       \* worker ids written to lease_owner
          NoOwner       \* lease_owner = NULL

ASSUME NoMessageAssumption == NoMessage \notin Messages
ASSUME NoOwnerAssumption == NoOwner \notin Owners

-----------------------------------------------------------------------------
(* Rows *)

TerminalStatus == {"succeeded", "failed", "cancelled", "expired"}

Status == TerminalStatus \cup {"queued", "running", "waiting_for_user"}

\* What the result column says: nothing yet, the harness's summary, a question
\* for the user, or the user's own "Marked finished".
Result == {"none", "answer", "question", "closed_by_user"}

Row == [status : Status, redirect : Messages \cup {NoMessage},
        stepCount : Nat, owner : Owners \cup {NoOwner}, result : Result]

\* Create: a new run is queued with an empty timeline.
NewRow == [status |-> "queued", redirect |-> NoMessage, stepCount |-> 0,
           owner |-> NoOwner, result |-> "none"]

Terminal(row) == row.status \in TerminalStatus

\* The statuses SetRedirect accepts a message in.
Redirectable(row) ==
  row.status \in {"queued", "running", "waiting_for_user", "succeeded", "failed"}

-----------------------------------------------------------------------------
(* Patches: what one PATCH leaves in the row *)

HeartbeatPatch(row, owner) == [row EXCEPT !.status = "running", !.owner = owner]

StepCountPatch(row, seq) == [row EXCEPT !.stepCount = seq]

RedirectPatch(row, msg) == [row EXCEPT !.redirect = msg]

\* Cancel leaves the lease columns alone.
CancelPatch(row) == [row EXCEPT !.status = "cancelled", !.redirect = NoMessage]

\* Finish drops the lease and any reply still pending; a failure carries no
\* result, so the previous one stays.
FinishPatch(row, status, result) ==
  [row EXCEPT !.status = status, !.owner = NoOwner, !.redirect = NoMessage,
              !.result = IF status = "failed" THEN row.result ELSE result]

\* WaitForUser keeps a reply that is already pending.
WaitPatch(row) ==
  [row EXCEPT !.status = "waiting_for_user", !.owner = NoOwner, !.result = "question"]

\* Slip: Requeue resets the pending reply with the rest of the row.
RequeuePatch_DropsReply(row) ==
  [row EXCEPT !.status = "queued", !.owner = NoOwner, !.redirect = NoMessage]

\* Requeue has no guard of its own.
RequeuePatch(row) == [row EXCEPT !.status = "queued", !.owner = NoOwner]

-----------------------------------------------------------------------------
(* The timeline: a partial function from seq to the message of the step, so *)
(* that the unique index on (agent_run_id, seq) is the function itself.     *)

Taken(steps, seq) == seq \in DOMAIN steps

WithStep(steps, seq, msg) ==
  [n \in DOMAIN steps \cup {seq} |-> IF n = seq THEN msg ELSE steps[n]]

\* ListSteps(afterSeq = 0, limit): the first limit rows in seq order.
Listed(steps, limit) ==
  {n \in DOMAIN steps : Cardinality({m \in DOMAIN steps : m <= n}) <= limit}
=============================================================================
