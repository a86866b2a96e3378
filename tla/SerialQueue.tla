---------------------------- MODULE SerialQueue ----------------------------
(***************************************************************************)
(* The queues in memory that serialize work by key: intent extraction by   *)
(* source (internal/intents/queue.go), knowledge compilation by user       *)
(* (internal/knowledge/queue.go) and note indexing by note                 *)
(* (internal/notes/index_queue.go), one program three times.  Each job is  *)
(* a goroutine that waits for the channel of the job before it; the map    *)
(* chains holds the last job of each key.                                  *)
(***************************************************************************)
EXTENDS Naturals

CONSTANTS Jobs, Keys, NoJob, NoKey

ASSUME QueueAssumption == NoJob \notin Jobs /\ NoKey \notin Keys

VARIABLES
  chains,    \* key -> the last job enqueued for it, NoJob when there is none
  jobs,      \* job -> its program counter, key and prev
  turn,      \* history: job -> its place in the order of enqueueing
  enqueued   \* history: jobs enqueued so far

queueVars == <<chains, jobs, turn, enqueued>>

QueueInit ==
  /\ chains = [k \in Keys |-> NoJob]
  /\ jobs = [j \in Jobs |-> [pc |-> "new", key |-> NoKey, prev |-> NoJob]]
  /\ turn = [j \in Jobs |-> 0]
  /\ enqueued = 0

Closed(j) == jobs[j].pc \in {"closed", "gone"}
GotoJ(j, pc) == jobs' = [jobs EXCEPT ![j].pc = pc]

(* enqueue, under the mutex *)
EnqueueJob(j, k) ==
  /\ jobs[j].pc = "new"
  /\ jobs' = [jobs EXCEPT ![j] = [pc |-> "waiting", key |-> k, prev |-> chains[k]]]
  /\ chains' = [chains EXCEPT ![k] = j]
  /\ turn' = [turn EXCEPT ![j] = enqueued]
  /\ enqueued' = enqueued + 1

(* <-prev; the debounce is part of the work *)
BeginJob(j) ==
  /\ jobs[j].pc = "waiting"
  /\ jobs[j].prev # NoJob => Closed(jobs[j].prev)
  /\ GotoJ(j, "working")
  /\ UNCHANGED <<chains, turn, enqueued>>

(* the work is over, well or not: close(done) *)
CloseJob(j) ==
  /\ jobs[j].pc = "working"
  /\ GotoJ(j, "closed")
  /\ UNCHANGED <<chains, turn, enqueued>>

\* Slip: the key is deleted whoever is last.
Unchained_Always(j) == [chains EXCEPT ![jobs[j].key] = NoJob]

Unchained(j) ==
  IF chains[jobs[j].key] = j THEN [chains EXCEPT ![jobs[j].key] = NoJob] ELSE chains

LeaveChain(j) ==
  /\ jobs[j].pc = "closed"
  /\ chains' = Unchained(j)
  /\ GotoJ(j, "gone")
  /\ UNCHANGED <<turn, enqueued>>

QueueNext ==
  \E j \in Jobs :
    (\E k \in Keys : EnqueueJob(j, k)) \/ BeginJob(j) \/ CloseJob(j) \/ LeaveChain(j)

QueueSpec == QueueInit /\ [][QueueNext]_queueVars

-----------------------------------------------------------------------------
Enqueued(j) == jobs[j].pc # "new"
Before(i, j) == Enqueued(i) /\ jobs[i].key = jobs[j].key /\ turn[i] < turn[j]

\* The jobs of a key run one at a time and in the order they were enqueued, with
\* a queue that forgets a key as soon as its last job is through: whoever is
\* enqueued while that job is between its close and its delete waits on a closed
\* channel and becomes the last job the delete must spare.
InOrder ==
  \A i, j \in Jobs : jobs[j].pc \in {"working", "closed", "gone"} /\ Before(i, j) => Closed(i)
=============================================================================
