----------------------------- MODULE ActionRuns -----------------------------
(***************************************************************************)
(* The inbox: intents extracted from what the user writes and says         *)
(* (internal/intents), the action runs proposed for them, and the user's   *)
(* confirm, cancel and dismiss (internal/actions, storage/actions_store). *)
(* A confirmed run has an effect outside the database - an email, an event *)
(* in a calendar - or creates a reminder (module Reminders).               *)
(*                                                                         *)
(* A handler reads the row, decides, and patches by id, several times; the *)
(* only filtered writes are the unique index of open intents and the two   *)
(* PATCHes of proposed runs.  One action is one round trip.                *)
(***************************************************************************)
EXTENDS Reminders

CONSTANTS Intents, NoIntent,   \* ids of intents
          Runs, NoRun,         \* ids of action_runs
          Kinds,               \* kinds the extractor may find in the source
          Extractors,          \* servers with an extraction queue
          Requests,            \* goroutines of confirm, cancel and dismiss
          Passes,              \* bound: extractions of the source on each server
          MaxKinds             \* bound: intents one extraction may find

ASSUME InboxKinds == Kinds \subseteq {"propose_reminder", "send_email", "research", "unmatched"}
ASSUME InboxAssumption == NoIntent \notin Intents /\ NoRun \notin Runs /\ Passes \in Nat
ASSUME InboxBounds == MaxKinds \in Nat \ {0}
ASSUME InboxActors == Extractors \cap Requests = {}

VARIABLES intent,    \* the intents table: all of one source
          action,    \* the action_runs table; error is NULL, one that isRetryableIntegrationError names, or another
          go,        \* go[g]: program counter and locals of a goroutine
          queue,     \* queue[x]: extractions waiting in the chain of the source
          effects,   \* history: how often the effect of a run has happened
          spawned,   \* history: how many cloud agents an intent has started
          contested, \* history: runs two goroutines were confirming at once
          stale      \* history: <<g, r>>: g had read r when r was settled

inboxRows == <<intent, action>>
history == <<effects, spawned, contested, stale>>
vars == <<remVars, acts, faults, intent, action, go, queue, history>>

-----------------------------------------------------------------------------
Goroutines == Extractors \cup Requests

NoAction == [status |-> "none", error |-> "none", kind |-> "none", intent |-> NoIntent]
NoIntentRow == [status |-> "none", kind |-> "none"]
Idle == [pc |-> "idle", run |-> NoRun, intent |-> NoIntent, kinds |-> {}, outcome |-> "none"]

Init ==
  /\ RemindersInit
  /\ intent = [i \in Intents |-> NoIntentRow]
  /\ action = [r \in Runs |-> NoAction]
  /\ go = [g \in Goroutines |-> Idle]
  /\ queue = [x \in Extractors |-> Passes]
  /\ effects = [r \in Runs |-> 0] /\ spawned = [i \in Intents |-> 0]
  /\ contested = {} /\ stale = {}

At(g, pc) == go' = [go EXCEPT ![g].pc = pc]
Done(g) == go' = [go EXCEPT ![g] = Idle]
Forget(g) == stale' = {p \in stale : p[1] # g}

SetRun(r, status, error) == action' = [action EXCEPT ![r] = [@ EXCEPT !.status = status, !.error = error]]

\* Nothing more is promised to happen to a settled run.
Settled(row) == row.status \in {"succeeded", "cancelled"} \/ (row.status = "failed" /\ row.error = "other")

\* Goroutines that have read r and may still act on it.
Readers(r) == {g \in Goroutines : go[g].run = r /\ go[g].pc \notin {"idle", "acted"}}
MarkStale(r, g) == stale' = {p \in stale : p[1] # g} \cup ((Readers(r) \ {g}) \X {r})

-----------------------------------------------------------------------------
(* Extractor.ExtractFromSource and Matcher.MatchIntent.  The chain of the    *)
(* source makes the extractions of one server follow one another; another   *)
(* server has a chain of its own.                                           *)

Extract(x) ==
  /\ go[x].pc = "idle" /\ queue[x] > 0
  /\ queue' = [queue EXCEPT ![x] = @ - 1]
  /\ \E kinds \in SUBSET Kinds :
       /\ kinds # {} /\ Cardinality(kinds) <= MaxKinds
       /\ go' = [go EXCEPT ![x] = [@ EXCEPT !.pc = "find", !.kinds = kinds]]
  /\ UNCHANGED <<remVars, acts, faults, inboxRows, history>>

\* The loop goes on with the next kind, or ends.
NextKind(x, kind) ==
  LET rest == go[x].kinds \ {kind} IN
    go' = [go EXCEPT ![x] = IF rest = {} THEN Idle ELSE [Idle EXCEPT !.pc = "find", !.kinds = rest]]

\* The kind the loop is at.
Current(x) == CHOOSE k \in go[x].kinds : TRUE

OpenIntent(kind) == \E i \in Intents : intent[i].status = "open" /\ intent[i].kind = kind

FindOpenIntent(x) ==
  /\ go[x].pc = "find"
  /\ IF OpenIntent(Current(x)) THEN NextKind(x, Current(x)) ELSE At(x, "create")
  /\ UNCHANGED <<remVars, acts, faults, inboxRows, queue, history>>

\* The insert fails on the unique index of open intents, or succeeds.
CreateIntent(x) ==
  /\ go[x].pc = "create"
  /\ IF OpenIntent(Current(x))
       THEN At(x, "findAgain") /\ UNCHANGED intent
       ELSE \E i \in Intents :
              /\ intent[i].status = "none"
              /\ intent' = [intent EXCEPT ![i] = [status |-> "open", kind |-> Current(x)]]
              /\ go' = [go EXCEPT ![x] = [@ EXCEPT !.pc = "match", !.intent = i]]
  /\ UNCHANGED <<remVars, acts, faults, action, queue, history>>

\* Found or not, the intent is not this goroutine's to match.
FindAgain(x) ==
  /\ go[x].pc = "findAgain"
  /\ NextKind(x, Current(x))
  /\ UNCHANGED <<remVars, acts, faults, inboxRows, queue, history>>

\* FindActiveRunForIntent; the kind decides what is proposed.
Active(row) == row.status \in {"proposed", "confirmed", "running"}

MatchIntent(x) ==
  /\ go[x].pc = "match"
  /\ IF \/ \E r \in Runs : action[r].intent = go[x].intent /\ Active(action[r])
        \/ Current(x) = "unmatched"
       THEN NextKind(x, Current(x))
       ELSE At(x, IF Current(x) = "research" THEN "spawn" ELSE "propose")
  /\ UNCHANGED <<remVars, acts, faults, inboxRows, queue, history>>

SpawnFromIntent(x) ==
  /\ go[x].pc = "spawn"
  /\ spawned' = [spawned EXCEPT ![go[x].intent] = @ + 1]
  /\ NextKind(x, Current(x))
  /\ UNCHANGED <<remVars, acts, faults, inboxRows, queue, effects, contested, stale>>

\* CreateActionRun does not look at the intent again.
CreateActionRun(x) ==
  /\ go[x].pc = "propose"
  /\ \E r \in Runs :
       /\ action[r].status = "none"
       /\ action' = [action EXCEPT ![r] = [status |-> "proposed", error |-> "none",
                                           kind |-> Current(x), intent |-> go[x].intent]]
  /\ NextKind(x, Current(x))
  /\ UNCHANGED <<remVars, acts, faults, intent, queue, history>>

\* The approval ledger of an agent run: a proposal without an intent.
RecordRequest ==
  /\ \A r \in Runs : action[r].kind # "agent_approval"
  /\ Act
  /\ \E r \in Runs :
       /\ action[r].status = "none"
       /\ action' = [action EXCEPT ![r] = [NoAction EXCEPT !.status = "proposed", !.kind = "agent_approval"]]
  /\ UNCHANGED <<remVars, faults, intent, go, queue, history>>

-----------------------------------------------------------------------------
(* Executor.ConfirmAndExecute *)

\* Slip: whatever has an error may be tried again.
Confirmable_AnyFailure(row) == row.status \in {"proposed", "confirmed", "failed"}

Confirmable(row) ==
  row.status \in {"proposed", "confirmed"} \/ (row.status = "failed" /\ row.error = "retryable")

Confirming(r) == {g \in Goroutines : go[g].run = r /\ go[g].pc \in
                    {"confirm", "start", "effect", "similar", "insert", "record"}}

ConfirmRead(u) ==
  /\ go[u].pc = "idle"
  /\ Act
  /\ \E r \in Runs :
       /\ Confirmable(action[r])
       /\ go' = [go EXCEPT ![u] = [@ EXCEPT !.run = r,
                   !.pc = IF action[r].status = "confirmed" THEN "start" ELSE "confirm"]]
       /\ contested' = IF Confirming(r) # {} THEN contested \cup {r} ELSE contested
  /\ UNCHANGED <<remVars, faults, inboxRows, queue, effects, spawned, stale>>

ConfirmWrite(u) ==
  /\ go[u].pc = "confirm"
  /\ SetRun(go[u].run, "confirmed", "none")
  /\ At(u, "start")
  /\ UNCHANGED <<remVars, acts, faults, intent, queue, history>>

\* execute: the PATCH to running, by id.
Start(u) ==
  /\ go[u].pc = "start"
  /\ SetRun(go[u].run, "running", action[go[u].run].error)
  /\ At(u, IF action[go[u].run].kind = "propose_reminder" THEN "similar" ELSE "effect")
  /\ UNCHANGED <<remVars, acts, faults, intent, queue, history>>

Happens(r) == effects' = [effects EXCEPT ![r] = @ + 1]
Ends(u, outcome) == go' = [go EXCEPT ![u] = [@ EXCEPT !.pc = "record", !.outcome = outcome]]

\* An integration or a builtin.  The errors that are called retryable are
\* raised before the effect; after another error nobody knows.
Effect(u) ==
  /\ go[u].pc = "effect"
  /\ \/ Ends(u, "ok") /\ Happens(go[u].run)
     \/ action[go[u].run].kind = "send_email" /\ Ends(u, "retryable") /\ UNCHANGED effects
     \/ Ends(u, "other") /\ (Happens(go[u].run) \/ UNCHANGED effects)
  /\ UNCHANGED <<remVars, acts, faults, inboxRows, queue, spawned, contested, stale>>

\* Reminders.CreateFromAction: no timezone is retryable, a similar reminder
\* is as good as a new one.
EffectSimilar(u) ==
  /\ go[u].pc = "similar"
  /\ \/ Ends(u, "retryable") /\ UNCHANGED effects
     \/ \E t \in Topics : IF Similar(t) # {} THEN Ends(u, "ok") /\ UNCHANGED effects
                          ELSE At(u, "insert") /\ UNCHANGED effects
  /\ UNCHANGED <<remVars, acts, faults, inboxRows, queue, spawned, contested, stale>>

EffectInsert(u) ==
  /\ go[u].pc = "insert"
  /\ \E i \in Reminders, t \in Topics : Created(i, t)
  /\ Happens(go[u].run)
  /\ Ends(u, "ok")
  /\ UNCHANGED <<caller, tick, acts, faults, inboxRows, queue, spawned, contested, stale>>

\* What the user sees of the outcome.
StatusAfter(outcome) ==
  CASE outcome = "ok" -> "succeeded" [] outcome = "retryable" -> "proposed" [] outcome = "other" -> "failed"

\* Slip: every failure leaves the proposal for another try.
Record_AlwaysRetry(u) ==
  /\ go[u].pc = "record"
  /\ SetRun(go[u].run, IF go[u].outcome = "ok" THEN "succeeded" ELSE "proposed",
            IF go[u].outcome = "ok" THEN "none" ELSE go[u].outcome)
  /\ IF go[u].outcome = "ok" THEN At(u, "acted") /\ MarkStale(go[u].run, u)
                             ELSE Done(u) /\ Forget(u)
  /\ UNCHANGED <<remVars, acts, faults, intent, queue, effects, spawned, contested>>

\* The PATCH of the outcome, by id.
Record(u) ==
  /\ go[u].pc = "record"
  /\ SetRun(go[u].run, StatusAfter(go[u].outcome),
            IF go[u].outcome = "ok" THEN "none" ELSE go[u].outcome)
  /\ IF go[u].outcome = "ok" THEN At(u, "acted") ELSE Done(u)
  /\ IF go[u].outcome = "retryable" THEN Forget(u) ELSE MarkStale(go[u].run, u)
  /\ UNCHANGED <<remVars, acts, faults, intent, queue, effects, spawned, contested>>

\* MarkIntentActed; its error is ignored.
MarkIntentActed(u) ==
  /\ go[u].pc = "acted"
  /\ LET i == action[go[u].run].intent IN
       intent' = IF i = NoIntent THEN intent ELSE [intent EXCEPT ![i].status = "acted"]
  /\ Done(u) /\ Forget(u)
  /\ UNCHANGED <<remVars, acts, faults, action, queue, effects, spawned, contested>>

-----------------------------------------------------------------------------
(* Executor.Cancel, DismissIntent, SettleProposedForAgentRun *)

CancelRead(u) ==
  /\ go[u].pc = "idle"
  /\ Act
  /\ \E r \in Runs :
       /\ action[r].status \in {"proposed", "confirmed"}
       /\ go' = [go EXCEPT ![u] = [@ EXCEPT !.pc = "cancel", !.run = r]]
  /\ UNCHANGED <<remVars, faults, inboxRows, queue, history>>

CancelWrite(u) ==
  /\ go[u].pc = "cancel"
  /\ SetRun(go[u].run, "cancelled", action[go[u].run].error)
  /\ MarkStale(go[u].run, u)
  /\ Done(u)
  /\ UNCHANGED <<remVars, acts, faults, intent, queue, effects, spawned, contested>>

DismissRead(u) ==
  /\ go[u].pc = "idle"
  /\ Act
  /\ \E i \in Intents :
       /\ intent[i].status = "open"
       /\ go' = [go EXCEPT ![u] = [@ EXCEPT !.pc = "dismiss", !.intent = i]]
  /\ UNCHANGED <<remVars, faults, inboxRows, queue, history>>

DismissWrite(u) ==
  /\ go[u].pc = "dismiss"
  /\ intent' = [intent EXCEPT ![go[u].intent].status = "dismissed"]
  /\ At(u, "dismissRuns")
  /\ UNCHANGED <<remVars, acts, faults, action, queue, history>>

\* The rows a filtered PATCH changes: the proposed ones of those given.
SettleProposed(rows, status) ==
  LET hit == {r \in rows : action[r].status = "proposed"} IN
    /\ action' = [r \in Runs |-> IF r \in hit THEN [action[r] EXCEPT !.status = status] ELSE action[r]]
    /\ stale' = stale \cup UNION {Readers(r) \X {r} : r \in hit}

DismissRuns(u) ==
  /\ go[u].pc = "dismissRuns"
  /\ SettleProposed({r \in Runs : action[r].intent = go[u].intent}, "cancelled")
  /\ Done(u)
  /\ UNCHANGED <<remVars, acts, faults, intent, queue, effects, spawned, contested>>

\* A reply in the agent's own thread settles the approval it asked for.
SettleApproval ==
  /\ \E r \in Runs : action[r].kind = "agent_approval" /\ action[r].status = "proposed"
  /\ Act
  /\ \E status \in {"succeeded", "cancelled"} :
       SettleProposed({r \in Runs : action[r].kind = "agent_approval"}, status)
  /\ UNCHANGED <<remVars, faults, intent, go, queue, effects, spawned, contested>>

\* A store call fails, the client of a request goes away, or the server dies.
\* An extractor goes on with the next kind, a handler is over.
Abandon(g) ==
  /\ go[g].pc # "idle"
  /\ Fault
  /\ IF g \in Extractors THEN NextKind(g, Current(g)) ELSE Done(g)
  /\ Forget(g)
  /\ UNCHANGED <<remVars, acts, inboxRows, queue, effects, spawned, contested>>

-----------------------------------------------------------------------------
ExtractorStep(x) ==
  \/ Extract(x) \/ FindOpenIntent(x) \/ CreateIntent(x) \/ FindAgain(x)
  \/ MatchIntent(x) \/ SpawnFromIntent(x) \/ CreateActionRun(x)

RequestStep(u) ==
  \/ ConfirmWrite(u) \/ Start(u) \/ Effect(u) \/ EffectSimilar(u) \/ EffectInsert(u)
  \/ Record(u) \/ MarkIntentActed(u) \/ CancelWrite(u) \/ DismissWrite(u) \/ DismissRuns(u)

InboxNext ==
  \/ \E x \in Extractors : ExtractorStep(x) \/ Abandon(x)
  \/ \E u \in Requests : \/ ConfirmRead(u) \/ CancelRead(u) \/ DismissRead(u)
                         \/ RequestStep(u) \/ Abandon(u)
  \/ RecordRequest \/ SettleApproval

Next ==
  \/ InboxNext
  \/ RemindersNext /\ UNCHANGED <<intent, action, go, queue, history>>

Spec == Init /\ [][Next]_vars

-----------------------------------------------------------------------------
\* What is proposed takes effect once: however often the user confirms, retries
\* after an error, cancels or goes away, unless two confirms of a run overlap,
\* its email is sent once; and however many extractions race for a source, an
\* intent has one action run or one cloud agent.
EffectOnce ==
  /\ \A r \in Runs : r \in contested \/ effects[r] <= 1
  /\ \A i \in Intents : Cardinality({r \in Runs : action[r].intent = i}) + spawned[i] <= 1

\* A settled run is final for everybody who reads it from then on: its status
\* and its effect can change only through a goroutine that read it before.
SettledBindsLaterReaders ==
  [][\A r \in Runs :
       Settled(action[r]) /\ (action'[r] # action[r] \/ effects'[r] # effects[r])
         => \E g \in Goroutines : <<g, r>> \in stale /\ go'[g] # go[g]]_vars
=============================================================================
