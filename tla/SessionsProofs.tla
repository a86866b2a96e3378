--------------------------- MODULE SessionsProofs ---------------------------
(***************************************************************************)
(* Theorems about the parts of the server that serve one request or one    *)
(* session at a time: the serial queues, shared links, error reports, the  *)
(* dictated session and the chat turn; what is stored of a text session,   *)
(* and what becomes of what is said in a voice session; and what a device  *)
(* may do to the runs assigned to it.                                      *)
(***************************************************************************)
EXTENDS Shares, ErrorReports, SerialQueue, Dictation, ChatTurn, LiveVoice, LocalRuns,
        SequenceTheorems, FiniteSetTheorems, WellFoundedInduction, TLAPS

-----------------------------------------------------------------------------
(* SerialQueue works off the jobs of a key one at a time and in order, for   *)
(* every set of jobs and keys.  The argument: the map knows the last job of  *)
(* a key until that job has closed its channel, so that a job without a      *)
(* predecessor has only closed jobs before it, and any other has its         *)
(* predecessor as the last of those before it.                               *)

Job == [pc : {"new", "waiting", "working", "closed", "gone"},
        key : Keys \cup {NoKey}, prev : Jobs \cup {NoJob}]

\* The map, the goroutines and the history have their types; a job that has been
\* enqueued has a key (intents, knowledge and notes Queue).
QueueTypeOK ==
  /\ chains \in [Keys -> Jobs \cup {NoJob}]
  /\ jobs \in [Jobs -> Job]
  /\ turn \in [Jobs -> Nat]
  /\ enqueued \in Nat
  /\ \A j \in Jobs : Enqueued(j) => jobs[j].key \in Keys

\* No two jobs were enqueued at once, the mutex sees to that.
TurnsDiffer ==
  \A i \in Jobs : Enqueued(i) =>
    /\ turn[i] < enqueued
    /\ \A j \in Jobs : Enqueued(j) /\ i # j => turn[i] # turn[j]

\* What the map says of a key: its last job, or that all its jobs are closed.
ChainEnds ==
  \A k \in Keys :
    /\ chains[k] = NoJob => \A i \in Jobs : Enqueued(i) /\ jobs[i].key = k => Closed(i)
    /\ chains[k] # NoJob =>
         /\ Enqueued(chains[k]) /\ jobs[chains[k]].key = k
         /\ \A i \in Jobs : Enqueued(i) /\ jobs[i].key = k => turn[i] <= turn[chains[k]]

\* What a job waits for: nothing if all before it are closed, else the last of them.
PrevIsLast ==
  \A j \in Jobs : Enqueued(j) =>
    /\ jobs[j].prev = NoJob => \A i \in Jobs : Before(i, j) => Closed(i)
    /\ jobs[j].prev # NoJob =>
         Before(jobs[j].prev, j) /\ \A i \in Jobs : Before(i, j) => turn[i] <= turn[jobs[j].prev]

QueueInv == QueueTypeOK /\ TurnsDiffer /\ ChainEnds /\ PrevIsLast /\ InOrder

-----------------------------------------------------------------------------
LEMMA QueueInitially == QueueInit => QueueInv
  BY QueueAssumption DEF QueueInit, QueueInv, QueueTypeOK, TurnsDiffer, ChainEnds, PrevIsLast, InOrder,
     Job, Enqueued, Before, Closed

\* Enqueueing: the new job comes after all others of its key.
LEMMA EnqueueKeeps ==
  ASSUME QueueInv, NEW j \in Jobs, NEW k \in Keys, EnqueueJob(j, k)
  PROVE  QueueInv'
  <1> USE DEF QueueInv
  <1>1. /\ \A i \in Jobs \ {j} : jobs'[i] = jobs[i] /\ turn'[i] = turn[i]
        /\ jobs'[j] = [pc |-> "waiting", key |-> k, prev |-> chains[k]] /\ turn'[j] = enqueued
        /\ jobs[j].pc = "new" /\ enqueued' = enqueued + 1
        /\ \A m \in Keys : chains'[m] = IF m = k THEN j ELSE chains[m]
    BY DEF EnqueueJob, QueueTypeOK
  <1>2. QueueTypeOK'
    <2>1. chains[k] \in Jobs \cup {NoJob}
      BY DEF QueueTypeOK
    <2>2. [pc |-> "waiting", key |-> k, prev |-> chains[k]] \in Job
      BY <2>1 DEF Job
    <2>3. QED
      BY <2>2, <1>1 DEF QueueTypeOK, EnqueueJob, Enqueued
  <1>3. TurnsDiffer'
    BY <1>1 DEF TurnsDiffer, Enqueued, QueueTypeOK
  <1>4. ChainEnds'
    <2> SUFFICES ASSUME NEW m \in Keys
                 PROVE  /\ chains'[m] = NoJob => \A i \in Jobs : Enqueued(i)' /\ jobs'[i].key = m => Closed(i)'
                        /\ chains'[m] # NoJob =>
                             /\ Enqueued(chains[m])' /\ jobs'[chains'[m]].key = m
                             /\ \A i \in Jobs : Enqueued(i)' /\ jobs'[i].key = m => turn'[i] <= turn'[chains'[m]]
      BY DEF ChainEnds
    <2>1. CASE m = k
      BY <2>1, <1>1, QueueAssumption DEF Enqueued, TurnsDiffer, QueueTypeOK
    <2>2. CASE m # k
      BY <2>2, <1>1 DEF ChainEnds, Enqueued, Closed, QueueTypeOK
    <2>3. QED
      BY <2>1, <2>2
  <1>5. \A i \in Jobs : Before(i, j)' <=> i # j /\ Enqueued(i) /\ jobs[i].key = k
    BY <1>1 DEF Before, Enqueued, TurnsDiffer, QueueTypeOK
  <1>6. \A i, m \in Jobs : m # j => (Before(i, m)' <=> i # j /\ Before(i, m)) \/ ~Enqueued(m)
    BY <1>1 DEF Before, Enqueued, TurnsDiffer, QueueTypeOK
  <1>7. \A i \in Jobs : Closed(i)' <=> Closed(i)
    BY <1>1 DEF Closed
  <1>8. PrevIsLast'
    <2> SUFFICES ASSUME NEW m \in Jobs, Enqueued(m)'
                 PROVE  /\ jobs'[m].prev = NoJob => \A i \in Jobs : Before(i, m)' => Closed(i)'
                        /\ jobs'[m].prev # NoJob =>
                             /\ Before(jobs[m].prev, m)'
                             /\ \A i \in Jobs : Before(i, m)' => turn'[i] <= turn'[jobs'[m].prev]
      BY DEF PrevIsLast
    <2>1. CASE m = j
      <3>1. chains[k] \in Jobs \cup {NoJob} /\ chains[k] # j
        BY <1>1, QueueAssumption DEF QueueTypeOK, ChainEnds, Enqueued
      <3>2. QED
        BY <2>1, <3>1, <1>1, <1>5, <1>7 DEF ChainEnds, QueueTypeOK
    <2>2. CASE m # j
      <3>1. Enqueued(m) /\ jobs'[m] = jobs[m] /\ jobs[m].prev \in Jobs \cup {NoJob}
        BY <2>2, <1>1 DEF Enqueued, QueueTypeOK, Job
      <3>2. jobs[m].prev # NoJob => Before(jobs[m].prev, m) /\ jobs[m].prev # j
        BY <3>1, <1>1 DEF PrevIsLast, Before, Enqueued
      <3>3. QED
        BY <2>2, <3>1, <3>2, <1>1, <1>6, <1>7 DEF PrevIsLast, Before
    <2>3. QED
      BY <2>1, <2>2
  <1>9. InOrder'
    BY <1>1, <1>6, <1>7 DEF InOrder, Enqueued
  <1>10. QED
    BY <1>2, <1>3, <1>4, <1>8, <1>9

\* The other steps move one job on and leave the order as it is.
LEMMA GotoKeeps ==
  ASSUME QueueInv, NEW j \in Jobs, NEW pc \in {"working", "closed", "gone"},
         jobs[j].pc \in {"waiting", "working", "closed"}, GotoJ(j, pc), UNCHANGED <<turn, enqueued>>,
         Closed(j) => pc = "gone"
  PROVE  /\ jobs' \in [Jobs -> Job]
         /\ \A i \in Jobs : Closed(i) => Closed(i)'
         /\ \A i \in Jobs : jobs'[i].key = jobs[i].key /\ jobs'[i].prev = jobs[i].prev /\ (Enqueued(i)' <=> Enqueued(i))
         /\ \A i, m \in Jobs : Before(i, m)' <=> Before(i, m)
         /\ \A i \in Jobs : i # j => jobs'[i] = jobs[i]
         /\ jobs'[j].pc = pc
         /\ TurnsDiffer' /\ PrevIsLast'
  <1> USE DEF QueueInv
  <1>1. jobs' = [jobs EXCEPT ![j].pc = pc] /\ jobs \in [Jobs -> Job]
    BY DEF GotoJ, QueueTypeOK
  <1>2. jobs' \in [Jobs -> Job] /\ (\A i \in Jobs : i # j => jobs'[i] = jobs[i]) /\ jobs'[j].pc = pc
    BY <1>1 DEF Job
  <1>3. \A i \in Jobs : jobs'[i].key = jobs[i].key /\ jobs'[i].prev = jobs[i].prev /\ (Enqueued(i)' <=> Enqueued(i))
    BY <1>1 DEF Job, Enqueued
  <1>4. \A i \in Jobs : Closed(i) => Closed(i)'
    BY <1>2 DEF Closed
  <1>5. \A i, m \in Jobs : Before(i, m)' <=> Before(i, m)
    BY <1>3 DEF Before
  <1>6. TurnsDiffer'
    BY <1>3 DEF TurnsDiffer
  <1>7. PrevIsLast'
    <2> SUFFICES ASSUME NEW m \in Jobs, Enqueued(m)'
                 PROVE  /\ jobs'[m].prev = NoJob => \A i \in Jobs : Before(i, m)' => Closed(i)'
                        /\ jobs'[m].prev # NoJob =>
                             /\ Before(jobs[m].prev, m)'
                             /\ \A i \in Jobs : Before(i, m)' => turn'[i] <= turn'[jobs'[m].prev]
      BY DEF PrevIsLast
    <2>1. Enqueued(m) /\ jobs'[m].prev = jobs[m].prev /\ jobs[m].prev \in Jobs \cup {NoJob}
      BY <1>3, <1>1 DEF Job
    <2>2. QED
      BY <2>1, <1>4, <1>5 DEF PrevIsLast
  <1>8. QED
    BY <1>2, <1>3, <1>4, <1>5, <1>6, <1>7

\* A job begins when all before it are closed: its predecessor, and those before that one.
LEMMA BeginKeeps ==
  ASSUME QueueInv, NEW j \in Jobs, BeginJob(j)
  PROVE  QueueInv'
  <1> USE DEF QueueInv
  <1>1. jobs[j].pc = "waiting" /\ GotoJ(j, "working") /\ UNCHANGED <<chains, turn, enqueued>>
    BY DEF BeginJob
  <1>2. /\ jobs' \in [Jobs -> Job]
        /\ \A i \in Jobs : Closed(i) => Closed(i)'
        /\ \A i \in Jobs : jobs'[i].key = jobs[i].key /\ jobs'[i].prev = jobs[i].prev /\ (Enqueued(i)' <=> Enqueued(i))
        /\ \A i, m \in Jobs : Before(i, m)' <=> Before(i, m)
        /\ \A i \in Jobs : i # j => jobs'[i] = jobs[i]
        /\ TurnsDiffer' /\ PrevIsLast'
    BY <1>1, GotoKeeps DEF Closed
  <1>3. QueueTypeOK'
    BY <1>1, <1>2 DEF QueueTypeOK
  <1>4. ChainEnds'
    BY <1>1, <1>2 DEF ChainEnds, QueueTypeOK
  <1>5. \A i \in Jobs : Before(i, j) => Closed(i)
    <2> SUFFICES ASSUME NEW i \in Jobs, Before(i, j)
                 PROVE  Closed(i)
      OBVIOUS
    <2>1. Enqueued(j) /\ jobs[j].prev \in Jobs \cup {NoJob}
      BY <1>1 DEF Enqueued, QueueTypeOK, Job
    <2>2. CASE jobs[j].prev = NoJob
      BY <2>1, <2>2 DEF PrevIsLast
    <2>3. CASE jobs[j].prev # NoJob
      <3> DEFINE p == jobs[j].prev
      <3>1. p \in Jobs /\ Closed(p) /\ Before(p, j) /\ turn[i] <= turn[p]
        BY <2>1, <2>3 DEF PrevIsLast, BeginJob
      <3>2. i = p \/ turn[i] # turn[p]
        BY <3>1 DEF TurnsDiffer, Before
      <3>3. CASE i = p
        BY <3>1, <3>3
      <3>4. CASE turn[i] # turn[p]
        <4>1. Before(i, p)
          BY <3>1, <3>4 DEF Before, QueueTypeOK
        <4>2. QED
          BY <4>1, <3>1 DEF InOrder, Closed
      <3>5. QED
        BY <3>2, <3>3, <3>4
    <2>4. QED
      BY <2>2, <2>3
  <1>6. InOrder'
    <2> SUFFICES ASSUME NEW i \in Jobs, NEW m \in Jobs,
                        jobs'[m].pc \in {"working", "closed", "gone"}, Before(i, m)'
                 PROVE  Closed(i)'
      BY DEF InOrder
    <2>1. CASE m = j
      BY <2>1, <1>2, <1>5
    <2>2. CASE m # j
      BY <2>2, <1>2 DEF InOrder
    <2>3. QED
      BY <2>1, <2>2
  <1>7. QED
    BY <1>2, <1>3, <1>4, <1>6

LEMMA CloseJobKeeps ==
  ASSUME QueueInv, NEW j \in Jobs, CloseJob(j)
  PROVE  QueueInv'
  <1> USE DEF QueueInv
  <1>1. jobs[j].pc = "working" /\ GotoJ(j, "closed") /\ UNCHANGED <<chains, turn, enqueued>>
    BY DEF CloseJob
  <1>2. /\ jobs' \in [Jobs -> Job]
        /\ \A i \in Jobs : Closed(i) => Closed(i)'
        /\ \A i \in Jobs : jobs'[i].key = jobs[i].key /\ jobs'[i].prev = jobs[i].prev /\ (Enqueued(i)' <=> Enqueued(i))
        /\ \A i, m \in Jobs : Before(i, m)' <=> Before(i, m)
        /\ \A i \in Jobs : i # j => jobs'[i] = jobs[i]
        /\ TurnsDiffer' /\ PrevIsLast'
    BY <1>1, GotoKeeps DEF Closed
  <1>3. QueueTypeOK'
    BY <1>1, <1>2 DEF QueueTypeOK
  <1>4. ChainEnds'
    BY <1>1, <1>2 DEF ChainEnds, QueueTypeOK
  <1>5. InOrder'
    BY <1>1, <1>2 DEF InOrder
  <1>6. QED
    BY <1>2, <1>3, <1>4, <1>5

\* A job deletes its key only if no later one has put itself there.
LEMMA LeaveKeeps ==
  ASSUME QueueInv, NEW j \in Jobs, LeaveChain(j)
  PROVE  QueueInv'
  <1> USE DEF QueueInv
  <1>1. jobs[j].pc = "closed" /\ GotoJ(j, "gone") /\ UNCHANGED <<turn, enqueued>> /\ chains' = Unchained(j)
    BY DEF LeaveChain
  <1>2. /\ jobs' \in [Jobs -> Job]
        /\ \A i \in Jobs : Closed(i) => Closed(i)'
        /\ \A i \in Jobs : jobs'[i].key = jobs[i].key /\ jobs'[i].prev = jobs[i].prev /\ (Enqueued(i)' <=> Enqueued(i))
        /\ \A i, m \in Jobs : Before(i, m)' <=> Before(i, m)
        /\ \A i \in Jobs : i # j => jobs'[i] = jobs[i]
        /\ TurnsDiffer' /\ PrevIsLast'
    BY <1>1, GotoKeeps DEF Closed
  <1>3. jobs[j].key \in Keys /\ \A k \in Keys : chains'[k] = chains[k] \/ (chains[k] = j /\ chains'[k] = NoJob)
    BY <1>1 DEF Unchained, QueueTypeOK, Enqueued
  <1>4. QueueTypeOK'
    BY <1>1, <1>2, <1>3 DEF QueueTypeOK, Unchained
  <1>5. ChainEnds'
    <2> SUFFICES ASSUME NEW k \in Keys
                 PROVE  /\ chains'[k] = NoJob => \A i \in Jobs : Enqueued(i)' /\ jobs'[i].key = k => Closed(i)'
                        /\ chains'[k] # NoJob =>
                             /\ Enqueued(chains[k])' /\ jobs'[chains'[k]].key = k
                             /\ \A i \in Jobs : Enqueued(i)' /\ jobs'[i].key = k => turn'[i] <= turn'[chains'[k]]
      BY DEF ChainEnds
    <2>1. CASE chains'[k] = chains[k]
      BY <2>1, <1>1, <1>2 DEF ChainEnds, QueueTypeOK
    <2>2. CASE chains[k] = j /\ chains'[k] = NoJob
      <3>1. ASSUME NEW i \in Jobs, Enqueued(i), jobs[i].key = k PROVE Closed(i)
        <4>1. turn[i] <= turn[j] /\ Enqueued(j) /\ jobs[j].key = k
          BY <2>2, <3>1, QueueAssumption DEF ChainEnds
        <4>2. i = j \/ Before(i, j)
          BY <4>1, <3>1 DEF Before, TurnsDiffer, QueueTypeOK
        <4>3. QED
          BY <4>2, <1>1 DEF InOrder, Closed
      <3>2. QED
        BY <3>1, <2>2, <1>2
    <2>3. QED
      BY <2>1, <2>2, <1>3
  <1>6. InOrder'
    BY <1>1, <1>2 DEF InOrder
  <1>7. QED
    BY <1>2, <1>4, <1>5, <1>6

\* The jobs of one key never overlap and never overtake one another, however
\* many are enqueued and whenever (InOrder, the chains of the three queues).
THEOREM Serialized == QueueSpec => []InOrder
  <1>1. QueueInv /\ [QueueNext]_queueVars => QueueInv'
    <2> SUFFICES ASSUME QueueInv, [QueueNext]_queueVars
                 PROVE  QueueInv'
      OBVIOUS
    <2>1. CASE QueueNext
      BY <2>1, EnqueueKeeps, BeginKeeps, CloseJobKeeps, LeaveKeeps DEF QueueNext
    <2>2. CASE UNCHANGED queueVars
      BY <2>2 DEF queueVars, QueueInv, QueueTypeOK, TurnsDiffer, ChainEnds, PrevIsLast, InOrder, Enqueued, Before, Closed
    <2>3. QED
      BY <2>1, <2>2
  <1>2. QueueInv => InOrder
    BY DEF QueueInv
  <1>3. QED
    BY QueueInitially, <1>1, <1>2, PTL DEF QueueSpec

-----------------------------------------------------------------------------
(* Shares: what is handed to any number of sharers is the one link that      *)
(* works, however many revoke it, view it or lose their answers meanwhile.   *)

Link == Sharers \cup {"none"}

SharesTypeOK ==
  /\ links \in [Sharers -> {"none", "active", "revoked"}]
  /\ subject \in {"owned", "gone"}
  /\ sharer \in [Sharers -> [pc : {"idle", "look", "reread", "insert", "handed", "refused"}, link : Link]]
  /\ revoker \in [Revokers -> {"idle", "patch", "revoked", "refused"}]
  /\ viewer \in [Viewers -> [pc : {"idle", "load", "turns", "shown", "missing"}, link : Link, after : SUBSET Revokers]]
  /\ losses \in 0..MaxLosses
  /\ patches \in [Sharers -> Nat]
  /\ \A u \in Sharers : sharer[u].pc = "handed" => sharer[u].link \in Sharers

OneActive == \A s, t \in Active : s = t

HandedWorks ==
  \A u \in Sharers : sharer[u].pc = "handed" /\ patches[u] = 0 => links[sharer[u].link] = "active"

SharesInv == SharesTypeOK /\ OneActive /\ HandedWorks

-----------------------------------------------------------------------------
LEMMA SharesInitially == SharesInit => SharesInv
  BY SharesAssumption DEF SharesInit, SharesInv, SharesTypeOK, OneActive, HandedWorks, Active, Link

LEMMA SharersKeep ==
  ASSUME SharesInv, NEW u \in Sharers, OwnsShared(u) \/ LookForShare(u) \/ InsertShare(u) \/ ShareFails(u)
  PROVE  SharesInv'
  <1> USE DEF SharesInv
  <1>1. CASE OwnsShared(u)
    BY <1>1 DEF OwnsShared, GotoS, SharesTypeOK, OneActive, HandedWorks, Active
  <1>2. CASE LookForShare(u)
    <2>1. CASE \E t \in ActiveShares : Handed(u, t)
      <3>1. PICK t \in Active : Handed(u, t)
        BY <2>1 DEF ActiveShares
      <3>2. t \in Sharers /\ links[t] = "active"
        BY DEF Active
      <3>3. QED
        BY <1>2, <3>1, <3>2 DEF LookForShare, Handed, SharesTypeOK, OneActive, HandedWorks, Active, Link
    <2>2. CASE \E pc \in {"insert", "refused"} : GotoS(u, pc)
      BY <1>2, <2>2 DEF LookForShare, GotoS, SharesTypeOK, OneActive, HandedWorks, Active
    <2>3. QED
      BY <1>2, <2>1, <2>2 DEF LookForShare
  <1>3. CASE InsertShare(u)
    <2>1. CASE Active = {} /\ links' = [links EXCEPT ![u] = "active"]
      <3>1. OneActive' /\ SharesTypeOK!1'
        BY <2>1 DEF OneActive, Active, SharesTypeOK
      <3>2. CASE Handed(u, u) /\ UNCHANGED losses
        BY <1>3, <2>1, <3>1, <3>2 DEF InsertShare, Handed, SharesTypeOK, HandedWorks, Link
      <3>3. CASE GotoS(u, "reread") /\ Lose
        BY <1>3, <2>1, <3>1, <3>3, SharesAssumption DEF InsertShare, GotoS, Lose, SharesTypeOK, HandedWorks
      <3>4. (Handed(u, u) /\ UNCHANGED losses) \/ (GotoS(u, "reread") /\ Lose)
        <4>1. links[u] # "active"
          BY <2>1 DEF Active
        <4>2. links' # links
          BY <2>1, <4>1 DEF SharesTypeOK
        <4>3. QED
          BY <1>3, <4>2 DEF InsertShare
      <3>5. QED
        BY <3>2, <3>3, <3>4
    <2>2. CASE GotoS(u, "reread") /\ UNCHANGED <<links, losses>>
      BY <1>3, <2>2 DEF InsertShare, GotoS, SharesTypeOK, OneActive, HandedWorks, Active
    <2>3. QED
      BY <1>3, <2>1, <2>2 DEF InsertShare
  <1>4. CASE ShareFails(u)
    BY <1>4, SharesAssumption DEF ShareFails, GotoS, Lose, SharesTypeOK, OneActive, HandedWorks, Active
  <1>5. QED
    BY <1>1, <1>2, <1>3, <1>4

\* A revoke reaches every row, and counts for every sharer under way.
LEMMA RevokesKeep ==
  ASSUME SharesInv, links' = RevokedLinks, patches' = [s \in Sharers |-> patches[s] + 1], UNCHANGED sharer
  PROVE  /\ links' \in [Sharers -> {"none", "active", "revoked"}] /\ patches' \in [Sharers -> Nat]
         /\ OneActive' /\ HandedWorks'
  BY DEF SharesInv, SharesTypeOK, RevokedLinks, OneActive, HandedWorks, Active

LEMMA RevokersKeep ==
  ASSUME SharesInv,
         (\E u \in Revokers : OwnsRevoked(u) \/ RevokeShare(u) \/ RevokeFails(u)) \/ DeleteShared
  PROVE  SharesInv'
  <1> USE DEF SharesInv
  <1>1. ASSUME NEW u \in Revokers, OwnsRevoked(u) PROVE SharesInv'
    BY <1>1 DEF OwnsRevoked, SharesTypeOK, OneActive, HandedWorks, Active
  <1>2. ASSUME NEW u \in Revokers, RevokeShare(u) PROVE SharesInv'
    BY <1>2, RevokesKeep, SharesAssumption DEF RevokeShare, Lose, SharesTypeOK
  <1>3. ASSUME NEW u \in Revokers, RevokeFails(u) PROVE SharesInv'
    BY <1>3, SharesAssumption DEF RevokeFails, Lose, SharesTypeOK, OneActive, HandedWorks, Active
  <1>4. CASE DeleteShared
    BY <1>4, RevokesKeep DEF DeleteShared, SharesTypeOK
  <1>5. QED
    BY <1>1, <1>2, <1>3, <1>4

LEMMA ViewersKeep ==
  ASSUME SharesInv, NEW v \in Viewers, OpenLink(v) \/ LoadShared(v)
  PROVE  SharesInv'
  <1> USE DEF SharesInv
  <1>1. /\ UNCHANGED <<links, subject, sharer, revoker, patches>>
        /\ UNCHANGED losses \/ Lose
    BY DEF OpenLink, LoadShared
  <1>2. losses' \in 0..MaxLosses
    BY <1>1, SharesAssumption DEF Lose, SharesTypeOK
  <1>3. viewer' \in [Viewers -> [pc : {"idle", "load", "turns", "shown", "missing"}, link : Link, after : SUBSET Revokers]]
    <2>1. CASE OpenLink(v)
      <3>1. PICK u \in Sharers : sharer[u].pc = "handed" /\
              LET t == sharer[u].link IN
              viewer' = [viewer EXCEPT ![v] =
                [pc |-> IF links[t] = "active" THEN "load" ELSE "missing", link |-> t,
                 after |-> {r \in Revokers : revoker[r] = "revoked"}]]
        BY <2>1 DEF OpenLink
      <3>2. sharer[u].link \in Link
        BY DEF SharesTypeOK
      <3>3. QED
        BY <3>1, <3>2 DEF SharesTypeOK
    <2>2. CASE LoadShared(v)
      <3>1. PICK pc \in {"shown", "turns", "missing"} : viewer' = [viewer EXCEPT ![v].pc = pc]
        BY <2>2 DEF LoadShared
      <3>2. QED
        BY <3>1 DEF SharesTypeOK
    <2>3. QED
      BY <2>1, <2>2
  <1>4. QED
    BY <1>1, <1>2, <1>3 DEF SharesTypeOK, OneActive, HandedWorks, Active

LEMMA AtMostOne == SharesInv => LinkWorks
  <1> SUFFICES ASSUME SharesInv
               PROVE  Cardinality(Active) <= 1
    BY DEF SharesInv, LinkWorks, HandedWorks
  <1>1. CASE Active = {}
    BY <1>1, FS_EmptySet
  <1>2. CASE Active # {}
    <2>1. PICK t : Active = {t}
      BY <1>2 DEF SharesInv, OneActive
    <2>2. Cardinality({t}) = 1
      BY FS_Singleton
    <2>3. QED
      BY <2>1, <2>2
  <1>3. QED
    BY <1>1, <1>2

\* Whoever is handed a link is handed the active one, and there is at most one,
\* for any number of requests and lost answers (LinkWorks, CreateShare).
THEOREM HandedLinkWorks == SharesSpec => []LinkWorks
  <1>1. SharesInv /\ [SharesNext]_shareVars => SharesInv'
    <2> SUFFICES ASSUME SharesInv, [SharesNext]_shareVars
                 PROVE  SharesInv'
      OBVIOUS
    <2>1. CASE SharesNext
      BY <2>1, SharersKeep, RevokersKeep, ViewersKeep DEF SharesNext
    <2>2. CASE UNCHANGED shareVars
      BY <2>2 DEF shareVars, SharesInv, SharesTypeOK, OneActive, HandedWorks, Active
    <2>3. QED
      BY <2>1, <2>2
  <1>2. QED
    BY SharesInitially, <1>1, AtMostOne, PTL DEF SharesSpec

-----------------------------------------------------------------------------
(* ErrorReports: one open issue per error, for any number of fingerprints    *)
(* and reports and any bounds on the queue and the caps.  The argument:      *)
(* while the listing counts as fresh and saw everything, every open issue is *)
(* in the map; so a goroutine that is about to open one knows that there is  *)
(* none.                                                                     *)

Issue == [fp : Prints, open : BOOLEAN]
Reporter == [pc : {"boot", "wait", "list", "create", "comment"}, fp : Prints \cup {"none"}, blind : BOOLEAN]

ReportsTypeOK ==
  /\ reports \in Seq(Prints) /\ worker \in Reporter
  /\ issues \in [Prints -> Nat] /\ tracker \in Seq(Issue)
  /\ {fresh, blind} \subseteq BOOLEAN
  /\ worker.pc \in {"list", "create", "comment"} => worker.fp \in Prints

\* What the map knows while its listing counts as fresh and was whole.
Tracked ==
  fresh /\ ~blind => \A n \in OpenIssues : issues[tracker[n].fp] > 0 \/ tracker[n].fp \in doubled

\* What the goroutine knows that is about to open an issue.
Unopened ==
  worker.pc = "create" /\ ~worker.blind => \A n \in OpenIssues : tracker[n].fp = worker.fp => worker.fp \in doubled

ReportsInv == ReportsTypeOK /\ Tracked /\ Unopened /\ OneOpenIssue

LEMMA ReportsInitially == ReportsInit => ReportsInv
  <1> SUFFICES ASSUME ReportsInit
               PROVE  ReportsInv
    OBVIOUS
  <1>1. /\ Booting \in Reporter /\ Booting.pc = "boot"
    BY DEF Booting, Waiting, Reporter
  <1>2. tracker = <<>> /\ reports = <<>> /\ OpenIssues = {}
    BY DEF ReportsInit, OpenIssues
  <1>3. reports \in Seq(Prints) /\ tracker \in Seq(Issue)
    BY <1>2, EmptySeq
  <1>4. issues \in [Prints -> Nat] /\ worker \in Reporter /\ worker.pc = "boot" /\ fresh = FALSE /\ blind = FALSE
    BY <1>1 DEF ReportsInit
  <1>5. ReportsTypeOK
    BY <1>3, <1>4 DEF ReportsTypeOK
  <1>6. QED
    BY <1>2, <1>4, <1>5 DEF ReportsInv, Tracked, Unopened, OneOpenIssue

\* A set of numbers has a least one.
LEMMA LeastOf ==
  ASSUME NEW S \in SUBSET Nat, S # {}
  PROVE  \E n \in S : \A m \in S : n <= m
  <1>1. PICK n \in S : \A m \in S : ~(<<m, n>> \in OpToRel(<, Nat))
    BY NatLessThanWellFounded, WFMin
  <1>2. \A m \in S : ~(m < n)
    BY <1>1 DEF OpToRel
  <1>3. QED
    BY <1>2

LEMMA WaitingReporter == Waiting \in Reporter /\ Waiting.pc = "wait"
  BY DEF Waiting, Reporter

LEMMA BootingReporter == Booting \in Reporter /\ Booting.pc = "boot"
  BY DEF Booting, Waiting, Reporter

\* An open issue is one of the tracker's.
LEMMA AnOpenIssue ==
  ASSUME ReportsTypeOK, NEW n \in OpenIssues
  PROVE  n \in Nat \ {0} /\ n \in 1..Len(tracker) /\ tracker[n] \in Issue /\ tracker[n].fp \in Prints
  <1>1. n \in 1..Len(tracker) /\ Len(tracker) \in Nat
    BY DEF OpenIssues, ReportsTypeOK
  <1>2. tracker[n] \in Issue
    BY <1>1, ElementOfSeq DEF ReportsTypeOK
  <1>3. QED
    BY <1>1, <1>2 DEF Issue

-----------------------------------------------------------------------------
(* The steps *)

\* The tracker, the map and the goroutine are left alone, or the goroutine ends
\* up where it opens nothing.
LEMMA NothingOpened ==
  ASSUME ReportsInv, UNCHANGED <<issues, tracker, doubled>>, reports' \in Seq(Prints), worker' \in Reporter,
         \/ worker' = worker
         \/ worker'.pc \in {"boot", "wait"}
         \/ worker'.pc = "comment" /\ worker'.fp \in Prints,
         \/ UNCHANGED <<fresh, blind>>
         \/ fresh' = FALSE /\ blind' = FALSE
  PROVE  ReportsInv'
  <1> USE DEF ReportsInv
  <1>1. ReportsTypeOK'
    BY DEF ReportsTypeOK
  <1>2. OpenIssues' = OpenIssues /\ Tracked' /\ OneOpenIssue'
    BY DEF OpenIssues, Tracked, OneOpenIssue
  <1>3. Unopened'
    BY <1>2 DEF Unopened
  <1>4. QED
    BY <1>1, <1>2, <1>3

LEMMA ReportKeeps ==
  ASSUME ReportsInv, NEW p \in Prints, ReportError(p) \/ CooldownEnds(p)
  PROVE  ReportsInv'
  <1>1. reports' \in Seq(Prints)
    <2>1. reports \in Seq(Prints) /\ Append(reports, p) \in Seq(Prints)
      BY AppendProperties DEF ReportsInv, ReportsTypeOK
    <2>2. reports' = reports \/ reports' = Append(reports, p)
      BY DEF ReportError, CooldownEnds
    <2>3. QED
      BY <2>1, <2>2
  <1>2. UNCHANGED <<issues, tracker, doubled, worker, fresh, blind>> /\ worker \in Reporter
    BY DEF ReportsInv, ReportsTypeOK, ReportError, CooldownEnds
  <1>3. QED
    BY <1>1, <1>2, NothingOpened

LEMMA QuietStepKeeps ==
  ASSUME ReportsInv, DropReport \/ CreateFails \/ CommentOnIssue \/ ListAges \/ HourEnds
  PROVE  ReportsInv'
  <1>1. reports' \in Seq(Prints) /\ worker \in Reporter
    BY DEF ReportsInv, ReportsTypeOK, DropReport, CreateFails, CommentOnIssue, ListAges, HourEnds
  <1>2. UNCHANGED <<issues, tracker, doubled>> /\ worker' \in {worker, Waiting}
    BY DEF DropReport, CreateFails, CommentOnIssue, ListAges, HourEnds
  <1>3. UNCHANGED <<fresh, blind>> \/ (fresh' = FALSE /\ blind' = FALSE)
    BY DEF DropReport, CreateFails, CommentOnIssue, ListAges, HourEnds
  <1>4. QED
    BY <1>1, <1>2, <1>3, WaitingReporter, NothingOpened

\* Of a known fingerprint the goroutine comments; of an unknown one it opens an
\* issue at once only if the listing is fresh.
LEMMA TakeKeeps ==
  ASSUME ReportsInv, TakeReport
  PROVE  ReportsInv'
  <1> USE DEF ReportsInv
  <1> DEFINE p == Head(reports)
             pc == IF issues[p] > 0 THEN "comment" ELSE IF Unlisted THEN "list" ELSE "create"
  <1>1. p \in Prints /\ Tail(reports) \in Seq(Prints)
    BY HeadTailProperties DEF TakeReport, ReportsTypeOK
  <1>2. worker' = [pc |-> pc, fp |-> p, blind |-> blind] /\ UNCHANGED <<issues, fresh, tracker, blind, doubled>>
    BY DEF TakeReport, Known
  <1>3. pc \in {"comment", "list", "create"} /\ blind \in BOOLEAN
    BY DEF ReportsTypeOK
  <1>4. ReportsTypeOK'
    <2> HIDE DEF p, pc
    <2>1. worker' \in Reporter /\ worker'.fp \in Prints
      BY <1>1, <1>2, <1>3 DEF Reporter
    <2>2. QED
      BY <1>1, <1>2, <2>1 DEF TakeReport, ReportsTypeOK, p
  <1>5. OpenIssues' = OpenIssues /\ Tracked' /\ OneOpenIssue'
    BY <1>2 DEF OpenIssues, Tracked, OneOpenIssue
  <1>6. Unopened'
    <2> SUFFICES ASSUME worker'.pc = "create", ~worker'.blind, NEW n \in OpenIssues, tracker[n].fp = p
                 PROVE  p \in doubled
      BY <1>2, <1>5 DEF Unopened
    <2>1. ~(issues[p] > 0) /\ fresh /\ ~blind
      BY <1>2 DEF Unlisted
    <2>2. QED
      BY <2>1 DEF Tracked
  <1>7. QED
    BY <1>4, <1>5, <1>6

\* A listing that was whole leaves no open issue out of the map.
LEMMA RefreshKeeps ==
  ASSUME ReportsInv, RefreshIssues
  PROVE  ReportsInv'
  <1> USE DEF ReportsInv
  <1> DEFINE Of(p) == {n \in Listed : tracker[n].fp = p}
             First(p) == CHOOSE n \in Of(p) : \A m \in Of(p) : n <= m
  <1>1. UNCHANGED <<reports, tracker, doubled>> /\ fresh' = TRUE /\ OpenIssues' = OpenIssues /\ OneOpenIssue'
    BY DEF RefreshIssues, OpenIssues, OneOpenIssue
  <1>2. ASSUME NEW p \in Prints, Of(p) # {} PROVE First(p) \in Of(p) /\ First(p) \in Nat \ {0}
    <2>1. Of(p) \in SUBSET Nat /\ Of(p) \in SUBSET (Nat \ {0})
      BY AnOpenIssue DEF Listed
    <2> HIDE DEF Of
    <2>2. \E n \in Of(p) : \A m \in Of(p) : n <= m
      BY <1>2, <2>1, LeastOf
    <2>3. QED
      BY <2>1, <2>2
  <1>3. /\ issues' \in [Prints -> Nat] /\ blind' \in BOOLEAN
        /\ ~blind' => \A n \in OpenIssues : issues'[tracker[n].fp] > 0
    <2>1. CASE /\ issues' = [p \in Prints |-> IF Of(p) = {} THEN issues[p] ELSE First(p)]
               /\ blind' = (Listed # OpenIssues)
      <3>1. \A p \in Prints : issues'[p] \in Nat /\ (Of(p) # {} => issues'[p] > 0)
        <4> HIDE DEF Of, First
        <4>1. ASSUME NEW p \in Prints PROVE issues'[p] = IF Of(p) = {} THEN issues[p] ELSE First(p)
          BY <2>1
        <4>2. QED
          BY <4>1, <1>2 DEF ReportsTypeOK
      <3>2. issues' \in [Prints -> Nat]
        <4> HIDE DEF Of, First
        <4>1. QED
          BY <2>1, <3>1
      <3>3. ASSUME ~blind', NEW n \in OpenIssues PROVE issues'[tracker[n].fp] > 0
        <4>1. n \in Of(tracker[n].fp) /\ tracker[n].fp \in Prints
          BY <2>1, <3>3, AnOpenIssue
        <4>2. QED
          BY <3>1, <4>1
      <3>4. QED
        BY <2>1, <3>2, <3>3
    <2>2. CASE blind' = TRUE /\ UNCHANGED issues
      BY <2>2 DEF ReportsTypeOK
    <2>3. QED
      BY <2>1, <2>2 DEF RefreshIssues
  <1>4. Tracked'
    BY <1>1, <1>3 DEF Tracked
  <1>5. /\ worker' \in Reporter
        /\ worker'.pc \in {"list", "create", "comment"} => worker'.fp \in Prints
        /\ worker'.pc = "create" => worker'.blind = blind' /\ ~(issues'[worker'.fp] > 0)
    <2>1. CASE worker.pc = "boot"
      BY <2>1, WaitingReporter DEF RefreshIssues
    <2>2. CASE worker.pc = "list"
      <3> DEFINE pc == IF issues'[worker.fp] > 0 THEN "comment" ELSE "create"
      <3>1. worker' = [worker EXCEPT !.pc = pc, !.blind = blind']
        BY <2>2 DEF RefreshIssues
      <3>2. pc \in {"comment", "create"} /\ worker \in Reporter /\ worker.fp \in Prints
        BY <2>2 DEF ReportsTypeOK
      <3>3. worker' \in Reporter /\ worker'.pc = pc /\ worker'.fp = worker.fp /\ worker'.blind = blind'
        <4> HIDE DEF pc
        <4>1. QED
          BY <1>3, <3>1, <3>2 DEF Reporter
      <3>4. QED
        BY <3>2, <3>3
    <2>3. QED
      BY <2>1, <2>2 DEF RefreshIssues
  <1>6. Unopened'
    BY <1>1, <1>3, <1>5 DEF Unopened
  <1>7. ReportsTypeOK'
    BY <1>1, <1>3, <1>5 DEF ReportsTypeOK
  <1>8. QED
    BY <1>1, <1>4, <1>6, <1>7

\* The one step that opens an issue.
LEMMA CreateKeeps ==
  ASSUME ReportsInv, CreateIssue
  PROVE  ReportsInv'
  <1> USE DEF ReportsInv
  <1> DEFINE new == Len(tracker) + 1
             issue == [fp |-> worker.fp, open |-> TRUE]
  <1>1. worker.pc = "create" /\ worker.fp \in Prints /\ tracker \in Seq(Issue) /\ Len(tracker) \in Nat
    BY DEF CreateIssue, ReportsTypeOK
  <1>2. /\ tracker' = Append(tracker, issue) /\ issue \in Issue
        /\ worker' = Waiting /\ UNCHANGED <<reports, fresh, blind>>
    BY <1>1 DEF CreateIssue, Issue
  <1>3. /\ tracker' \in Seq(Issue) /\ Len(tracker') = new /\ tracker'[new] = issue
        /\ \A n \in 1..Len(tracker) : tracker'[n] = tracker[n]
    BY <1>1, <1>2, AppendProperties
  <1>4. OpenIssues' = OpenIssues \cup {new}
    <2>1. DOMAIN tracker = 1..Len(tracker) /\ DOMAIN tracker' = 1..new
      BY <1>1, <1>3
    <2>2. 1..new = 1..Len(tracker) \cup {new} /\ issue.open
      BY <1>1
    <2>3. QED
      BY <1>3, <2>1, <2>2 DEF OpenIssues
  <1>5. /\ doubled \subseteq doubled'
        /\ worker.fp \in doubled' \/ (~worker.blind /\ issues' = [issues EXCEPT ![worker.fp] = new])
        /\ issues' \in [Prints -> Nat]
        /\ \A p \in Prints : issues[p] > 0 => issues'[p] > 0
    <2>1. CASE /\ issues' = [issues EXCEPT ![worker.fp] = new]
               /\ doubled' = IF worker.blind THEN doubled \cup {worker.fp} ELSE doubled
      BY <2>1, <1>1 DEF ReportsTypeOK
    <2>2. CASE doubled' = doubled \cup {worker.fp} /\ UNCHANGED issues
      BY <2>2 DEF ReportsTypeOK
    <2>3. QED
      BY <2>1, <2>2 DEF CreateIssue
  <1>6. ReportsTypeOK'
    BY <1>2, <1>3, <1>5, WaitingReporter DEF ReportsTypeOK
  <1>7. ASSUME NEW n \in OpenIssues PROVE n # new /\ tracker'[n] = tracker[n] /\ tracker[n].fp \in Prints
    BY <1>1, <1>3, AnOpenIssue
  <1>8. Tracked'
    <2> SUFFICES ASSUME fresh, ~blind, NEW n \in OpenIssues'
                 PROVE  issues'[tracker'[n].fp] > 0 \/ tracker'[n].fp \in doubled'
      BY <1>2 DEF Tracked
    <2>1. CASE n \in OpenIssues
      BY <2>1, <1>5, <1>7 DEF Tracked
    <2>2. CASE n = new
      BY <2>2, <1>1, <1>3, <1>5 DEF ReportsTypeOK
    <2>3. QED
      BY <1>4, <2>1, <2>2
  <1>9. ASSUME NEW n \in OpenIssues, tracker[n].fp = worker.fp PROVE worker.fp \in doubled'
    BY <1>1, <1>5, <1>9 DEF Unopened
  <1>10. OneOpenIssue'
    <2> SUFFICES ASSUME NEW m \in OpenIssues', NEW n \in OpenIssues', m # n, tracker'[m].fp = tracker'[n].fp
                 PROVE  tracker'[m].fp \in doubled'
      BY DEF OneOpenIssue
    <2>1. CASE m \in OpenIssues /\ n \in OpenIssues
      BY <2>1, <1>5, <1>7 DEF OneOpenIssue
    <2>2. CASE m = new /\ n \in OpenIssues
      BY <2>2, <1>3, <1>7, <1>9
    <2>3. CASE m \in OpenIssues /\ n = new
      BY <2>3, <1>3, <1>7, <1>9
    <2>4. QED
      BY <1>4, <2>1, <2>2, <2>3
  <1>11. Unopened'
    BY <1>2, WaitingReporter DEF Unopened
  <1>12. QED
    BY <1>6, <1>8, <1>10, <1>11

LEMMA CloseKeeps ==
  ASSUME ReportsInv, NEW n \in OpenIssues, CloseIssue(n)
  PROVE  ReportsInv'
  <1> USE DEF ReportsInv
  <1>1. tracker' = [tracker EXCEPT ![n].open = FALSE] /\ UNCHANGED <<reports, worker, issues, fresh, blind, doubled>>
    BY DEF CloseIssue
  <1>2. n \in 1..Len(tracker) /\ tracker[n] \in Issue /\ tracker \in Seq(Issue)
    BY AnOpenIssue DEF ReportsTypeOK
  <1>3. tracker' \in Seq(Issue)
    <2>1. [tracker[n] EXCEPT !.open = FALSE] \in Issue
      BY <1>2 DEF Issue
    <2>2. tracker' = [tracker EXCEPT ![n] = [tracker[n] EXCEPT !.open = FALSE]]
      BY <1>1
    <2>3. QED
      BY <1>2, <2>1, <2>2, ExceptSeq
  <1>4. /\ DOMAIN tracker' = DOMAIN tracker
        /\ \A m \in OpenIssues' : m \in OpenIssues /\ tracker'[m].fp = tracker[m].fp
    <2>1. DOMAIN tracker' = DOMAIN tracker
      BY <1>1
    <2>2. ASSUME NEW m \in DOMAIN tracker PROVE tracker'[m].fp = tracker[m].fp /\ (tracker'[m].open => tracker[m].open)
      <3>1. CASE m = n
        BY <3>1, <1>1, <1>2 DEF Issue
      <3>2. CASE m # n
        BY <3>2, <1>1
      <3>3. QED
        BY <3>1, <3>2
    <2>3. QED
      BY <2>1, <2>2 DEF OpenIssues
  <1>5. ReportsTypeOK'
    BY <1>1, <1>3 DEF ReportsTypeOK
  <1>6. Tracked' /\ Unopened' /\ OneOpenIssue'
    BY <1>1, <1>4 DEF Tracked, Unopened, OneOpenIssue
  <1>7. QED
    BY <1>5, <1>6

LEMMA RestartKeeps ==
  ASSUME ReportsInv, RestartReporter
  PROVE  ReportsInv'
  <1> USE DEF ReportsInv
  <1>1. /\ reports' = <<>> /\ worker' = Booting /\ issues' = [p \in Prints |-> 0]
        /\ fresh' = FALSE /\ blind' = FALSE /\ UNCHANGED <<tracker, doubled>>
    BY DEF RestartReporter
  <1>2. ReportsTypeOK'
    <2>1. reports' \in Seq(Prints) /\ tracker' \in Seq(Issue)
      BY <1>1, EmptySeq DEF ReportsTypeOK
    <2>2. issues' \in [Prints -> Nat]
      BY <1>1
    <2>3. QED
      BY <1>1, <2>1, <2>2, BootingReporter DEF ReportsTypeOK
  <1>3. Tracked' /\ Unopened' /\ OneOpenIssue'
    BY <1>1, BootingReporter DEF Tracked, Unopened, OneOpenIssue, OpenIssues
  <1>4. QED
    BY <1>2, <1>3

LEMMA ReportsStep ==
  ASSUME ReportsInv, [ReportsNext]_reportVars
  PROVE  ReportsInv'
  <1>1. CASE UNCHANGED reportVars
    <2>1. UNCHANGED <<issues, tracker, doubled, worker, fresh, blind, reports>>
      BY <1>1 DEF reportVars
    <2>2. reports' \in Seq(Prints) /\ worker' \in Reporter
      BY <2>1 DEF ReportsInv, ReportsTypeOK
    <2>3. QED
      BY <2>1, <2>2, NothingOpened
  <1>2. CASE ReportsNext
    BY <1>2, ReportKeeps, QuietStepKeeps, TakeKeeps, RefreshKeeps, CreateKeeps, CloseKeeps, RestartKeeps DEF ReportsNext
  <1>3. QED
    BY <1>1, <1>2

-----------------------------------------------------------------------------

\* A recurring error is one open issue (errreport/reporter.go), for any number of
\* errors, restarts, failed calls and closed issues and every size of the queue,
\* the page and the caps, unless one of the two was opened blindly or its number
\* never came back.
THEOREM OneIssuePerError == ReportsSpec => []OneOpenIssue
  <1>1. ReportsInv => OneOpenIssue
    BY DEF ReportsInv
  <1>2. QED
    BY <1>1, ReportsInitially, ReportsStep, PTL DEF ReportsSpec

-----------------------------------------------------------------------------
(* Dictation.  As long as nothing comes between a turn.end and the setting of *)
(* busy, one goroutine at a time is on its way there, and the read loop     *)
(* stands still: the audio it takes is the whole buffer, which nobody else  *)
(* has or will have.                                                        *)

Taker == [pc : {"idle", "refused", "audio", "copy", "meta", "reset", "busy", "work", "done", "failed"}, pcm : SUBSET Chunks]

DictationTypeOK ==
  /\ chunks \in SUBSET Chunks /\ meta \in BOOLEAN /\ busy \in BOOLEAN /\ loop \in Chunks \cup {None}
  /\ taker \in [Enders -> Taker]
  /\ heard \in SUBSET Chunks /\ discarded \in SUBSET Chunks /\ crossed \in BOOLEAN /\ panicked \in BOOLEAN

\* One goroutine looks at the buffer, and what it has seen there stays.
OneTakes ==
  /\ \A e, f \in Taking : e = f
  /\ Taking # {} => loop = None
  /\ \A e \in Enders :
       /\ taker[e].pc \in {"meta", "reset"} => taker[e].pcm = chunks
       /\ taker[e].pc \in {"copy", "meta", "reset"} => meta

\* What has been heard is in one place.
OnePlace ==
  /\ chunks \subseteq heard /\ loop \in heard \cup {None}
  /\ heard \subseteq chunks \cup {loop} \cup discarded \cup UNION {taker[e].pcm : e \in Enders}
  /\ \A e \in Enders :
       /\ taker[e].pcm \subseteq heard
       /\ taker[e].pc \in {"idle", "refused", "audio", "copy"} => taker[e].pcm = {}
       /\ taker[e].pc \in {"busy", "work", "done", "failed"} => taker[e].pcm \cap (chunks \cup {loop}) = {}
  /\ \A e, f \in Enders : e # f => taker[e].pcm \cap taker[f].pcm = {}

DictationInv == DictationTypeOK /\ (~crossed => OneTakes /\ OnePlace /\ ~panicked)

LEMMA DictationStarts == DictationInit => DictationInv
  <1> SUFFICES ASSUME DictationInit PROVE DictationInv
    OBVIOUS
  <1>1. taker \in [Enders -> Taker] /\ \A e \in Enders : taker[e].pc = "idle" /\ taker[e].pcm = {}
    BY DEF DictationInit, Taker
  <1>2. Taking = {}
    BY <1>1 DEF Taking
  <1>3. QED
    BY <1>1, <1>2 DEF DictationInit, DictationInv, DictationTypeOK, OneTakes, OnePlace

\* The read loop: a chunk is accepted or appended, or the session ends.
LEMMA LoopSteps ==
  ASSUME DictationInv, (\E c \in Chunks : HearChunk(c)) \/ AppendChunk \/ EndDictation
  PROVE  DictationInv'
  <1>0. DictationTypeOK /\ taker' = taker /\ Taking' = Taking /\ panicked' = panicked
    BY DEF DictationInv, HearChunk, AppendChunk, EndDictation, Taking
  <1>1. DictationTypeOK' /\ (~crossed' => ~crossed /\ Taking = {})
    BY <1>0 DEF DictationTypeOK, HearChunk, AppendChunk, EndDictation
  <1>2. SUFFICES ASSUME ~crossed' PROVE OneTakes' /\ OnePlace' /\ ~panicked'
    BY <1>1 DEF DictationInv
  <1>3. OneTakes /\ OnePlace /\ ~panicked /\ Taking = {}
    BY <1>1, <1>2 DEF DictationInv
  <1>4. \A e \in Enders : taker[e].pc \notin {"audio", "copy", "meta", "reset", "busy"}
    BY <1>3 DEF Taking
  <1>5. OneTakes'
    BY <1>0, <1>3, <1>4 DEF OneTakes
  <1>6. OnePlace'
    <2>1. ASSUME NEW c \in Chunks, HearChunk(c) PROVE OnePlace'
      <3>1. c \notin heard /\ heard' = heard \cup {c} /\ loop' = c /\ loop = None /\ UNCHANGED <<chunks, discarded, taker>>
        BY <1>0, <2>1 DEF HearChunk
      <3>2. None \notin heard
        BY <1>0, DictationAssumption DEF DictationTypeOK
      <3>3. chunks \subseteq heard' /\ loop' \in heard'
        BY <1>3, <3>1 DEF OnePlace
      <3>4. heard' \subseteq chunks' \cup {loop'} \cup discarded' \cup UNION {taker'[e].pcm : e \in Enders}
        BY <1>3, <3>1, <3>2 DEF OnePlace
      <3>5. \A e \in Enders :
              /\ taker'[e].pcm \subseteq heard'
              /\ taker'[e].pc \in {"idle", "refused", "audio", "copy"} => taker'[e].pcm = {}
              /\ taker'[e].pc \in {"busy", "work", "done", "failed"} => taker'[e].pcm \cap (chunks' \cup {loop'}) = {}
        BY <1>3, <3>1 DEF OnePlace
      <3>6. QED
        BY <1>3, <3>1, <3>3, <3>4, <3>5 DEF OnePlace
    <2>2. CASE AppendChunk
      BY <1>0, <1>3, <2>2, DictationAssumption DEF OnePlace, AppendChunk, DictationTypeOK
    <2>3. CASE EndDictation
      BY <1>0, <1>3, <2>3 DEF OnePlace, EndDictation, DictationTypeOK
    <2>4. QED
      BY <2>1, <2>2, <2>3
  <1>7. QED
    BY <1>0, <1>3, <1>5, <1>6

\* One goroutine moves from a place to another and keeps its audio.
LEMMA TakerMoves ==
  ASSUME DictationInv, NEW e \in Enders, NEW pc \in {"refused", "audio", "copy", "reset", "work", "done", "failed"},
         GotoE(e, pc), crossed' = (crossed \/ (taker[e].pc = "idle" /\ Taking # {})),
         UNCHANGED <<chunks, meta, loop, heard, discarded, panicked>>, busy' \in BOOLEAN,
         \/ taker[e].pc = "idle" /\ pc \in {"refused", "audio"} /\ loop = None
         \/ taker[e].pc = "audio" /\ (pc = "refused" \/ (pc = "copy" /\ meta))
         \/ taker[e].pc = "meta" /\ pc = "reset"
         \/ taker[e].pc = "busy" /\ pc = "work"
         \/ taker[e].pc = "work" /\ pc \in {"done", "failed"}
  PROVE  DictationInv'
  <1>0. DictationTypeOK /\ taker[e] \in Taker /\ taker \in [Enders -> Taker]
    BY DEF DictationInv, DictationTypeOK
  <1> DEFINE new == [taker[e] EXCEPT !.pc = pc]
  <1>1. new \in Taker /\ new.pc = pc /\ new.pcm = taker[e].pcm
    BY <1>0 DEF Taker
  <1>2. taker' = [taker EXCEPT ![e] = new]
    BY DEF GotoE
  <1> HIDE DEF new
  <1>3. /\ taker' \in [Enders -> Taker]
        /\ taker'[e].pc = pc /\ \A f \in Enders : taker'[f].pcm = taker[f].pcm
        /\ \A f \in Enders \ {e} : taker'[f] = taker[f]
    BY <1>0, <1>1, <1>2
  <1>4. DictationTypeOK'
    BY <1>0, <1>3 DEF DictationTypeOK
  <1>5. SUFFICES ASSUME ~crossed' PROVE OneTakes' /\ OnePlace' /\ ~panicked'
    BY <1>4 DEF DictationInv
  <1>6. OneTakes /\ OnePlace /\ ~panicked /\ (taker[e].pc = "idle" => Taking = {})
    BY <1>0, <1>5 DEF DictationInv, DictationTypeOK
  <1>7. /\ \A f \in Taking' : f \in Taking \/ (f = e /\ taker[e].pc = "idle")
        /\ e \in Taking' => e \in Taking \/ taker[e].pc = "idle"
    BY <1>3 DEF Taking
  <1>8. OneTakes'
    <2>1. \A f, g \in Taking' : f = g
      BY <1>6, <1>7 DEF OneTakes
    <2>2. Taking' # {} => loop' = None
      BY <1>6, <1>7 DEF OneTakes
    <2>3. \A f \in Enders :
            /\ taker'[f].pc \in {"meta", "reset"} => taker'[f].pcm = chunks'
            /\ taker'[f].pc \in {"copy", "meta", "reset"} => meta'
      BY <1>3, <1>6 DEF OneTakes
    <2>4. QED
      BY <2>1, <2>2, <2>3 DEF OneTakes
  <1>9. OnePlace'
    <2>1. {taker'[f].pcm : f \in Enders} = {taker[f].pcm : f \in Enders}
      BY <1>3
    <2>2. \A f \in Enders :
            /\ taker'[f].pc \in {"idle", "refused", "audio", "copy"} => taker'[f].pcm = {}
            /\ taker'[f].pc \in {"busy", "work", "done", "failed"} => taker'[f].pcm \cap (chunks \cup {loop}) = {}
      BY <1>3, <1>6 DEF OnePlace
    <2>3. QED
      BY <1>3, <1>6, <2>1, <2>2 DEF OnePlace
  <1>10. QED
    BY <1>6, <1>8, <1>9

LEMMA TakesAudio ==
  ASSUME DictationInv, NEW e \in Enders, CopyChunks(e)
  PROVE  DictationInv'
  <1>0. /\ DictationTypeOK /\ taker[e].pc = "copy" /\ taker \in [Enders -> Taker]
        /\ UNCHANGED <<chunks, meta, busy, loop, heard, discarded, crossed, panicked>>
    BY DEF DictationInv, DictationTypeOK, CopyChunks
  <1> DEFINE new == [pc |-> "meta", pcm |-> chunks]
  <1>1. new \in Taker /\ new.pc = "meta" /\ new.pcm = chunks
    BY <1>0 DEF Taker, DictationTypeOK
  <1>2. taker' = [taker EXCEPT ![e] = new]
    BY DEF CopyChunks
  <1> HIDE DEF new
  <1>3. taker' \in [Enders -> Taker] /\ taker'[e] = new /\ \A f \in Enders \ {e} : taker'[f] = taker[f]
    BY <1>0, <1>1, <1>2
  <1>4. DictationTypeOK'
    BY <1>0, <1>3 DEF DictationTypeOK
  <1>5. SUFFICES ASSUME ~crossed' PROVE OneTakes' /\ OnePlace' /\ ~panicked'
    BY <1>4 DEF DictationInv
  <1>6. OneTakes /\ OnePlace /\ ~panicked
    BY <1>0, <1>5 DEF DictationInv
  <1>7. Taking' = Taking /\ e \in Taking
    BY <1>0, <1>1, <1>3 DEF Taking
  <1>8. \A f \in Enders \ {e} : taker[f].pc \notin {"audio", "copy", "meta", "reset", "busy"} /\ loop = None
    BY <1>6, <1>7 DEF OneTakes, Taking
  <1>9. OneTakes'
    BY <1>0, <1>1, <1>3, <1>6, <1>7 DEF OneTakes
  <1>10. OnePlace'
    <2>1. taker[e].pcm = {} /\ loop = None
      BY <1>0, <1>6, <1>7 DEF OnePlace, OneTakes
    <2>2. UNION {taker[f].pcm : f \in Enders} \subseteq UNION {taker'[f].pcm : f \in Enders}
      BY <1>3, <2>1
    <2>3. \A f \in Enders \ {e} : taker[f].pcm \cap chunks = {}
      <3> TAKE f \in Enders \ {e}
      <3>1. taker[f].pc \in {"idle", "refused", "work", "done", "failed"}
        BY <1>0, <1>8 DEF Taker
      <3>2. QED
        BY <1>6, <3>1 DEF OnePlace
    <2>4. \A f \in Enders :
            /\ taker'[f].pcm \subseteq heard
            /\ taker'[f].pc \in {"idle", "refused", "audio", "copy"} => taker'[f].pcm = {}
            /\ taker'[f].pc \in {"busy", "work", "done", "failed"} => taker'[f].pcm \cap (chunks \cup {loop}) = {}
      BY <1>1, <1>3, <1>6 DEF OnePlace
    <2>5. \A f, g \in Enders : f # g => taker'[f].pcm \cap taker'[g].pcm = {}
      BY <1>1, <1>3, <1>6, <2>3 DEF OnePlace
    <2>6. QED
      BY <1>0, <1>6, <2>2, <2>4, <2>5 DEF OnePlace
  <1>11. QED
    BY <1>0, <1>6, <1>9, <1>10

LEMMA ClearsBuffer ==
  ASSUME DictationInv, NEW e \in Enders, ResetBuffer(e)
  PROVE  DictationInv'
  <1>0. /\ DictationTypeOK /\ taker[e].pc = "reset" /\ taker \in [Enders -> Taker] /\ taker[e] \in Taker
        /\ chunks' = {} /\ meta' = FALSE
        /\ UNCHANGED <<busy, loop, heard, discarded, crossed, panicked>>
    BY DEF DictationInv, DictationTypeOK, ResetBuffer, Reset
  <1> DEFINE new == [taker[e] EXCEPT !.pc = "busy"]
  <1>1. new \in Taker /\ new.pc = "busy" /\ new.pcm = taker[e].pcm
    BY <1>0 DEF Taker
  <1>2. taker' = [taker EXCEPT ![e] = new]
    BY DEF ResetBuffer, GotoE
  <1> HIDE DEF new
  <1>3. /\ taker' \in [Enders -> Taker] /\ taker'[e].pc = "busy"
        /\ \A f \in Enders : taker'[f].pcm = taker[f].pcm
        /\ \A f \in Enders \ {e} : taker'[f] = taker[f]
    BY <1>0, <1>1, <1>2
  <1>4. DictationTypeOK'
    BY <1>0, <1>3 DEF DictationTypeOK
  <1>5. SUFFICES ASSUME ~crossed' PROVE OneTakes' /\ OnePlace' /\ ~panicked'
    BY <1>4 DEF DictationInv
  <1>6. OneTakes /\ OnePlace /\ ~panicked
    BY <1>0, <1>5 DEF DictationInv
  <1>7. Taking' = Taking /\ e \in Taking
    BY <1>0, <1>3 DEF Taking
  <1>8. loop = None /\ \A f \in Enders \ {e} : taker[f].pc \notin {"audio", "copy", "meta", "reset", "busy"}
    BY <1>6, <1>7 DEF OneTakes, Taking
  <1>9. OneTakes'
    BY <1>0, <1>3, <1>6, <1>7, <1>8 DEF OneTakes
  <1>10. OnePlace'
    <2>1. {taker'[f].pcm : f \in Enders} = {taker[f].pcm : f \in Enders}
      BY <1>3
    <2>2. chunks \subseteq UNION {taker[f].pcm : f \in Enders}
      BY <1>0, <1>6 DEF OneTakes
    <2>3. \A f \in Enders : taker[f].pcm \cap {None} = {}
      BY <1>0, DictationAssumption DEF Taker
    <2>4. \A f \in Enders :
            /\ taker'[f].pcm \subseteq heard
            /\ taker'[f].pc \in {"idle", "refused", "audio", "copy"} => taker'[f].pcm = {}
            /\ taker'[f].pc \in {"busy", "work", "done", "failed"} => taker'[f].pcm \cap {loop} = {}
      BY <1>3, <1>6, <1>8, <2>3 DEF OnePlace
    <2>5. \A f, g \in Enders : f # g => taker'[f].pcm \cap taker'[g].pcm = {}
      BY <1>3, <1>6 DEF OnePlace
    <2>6. QED
      BY <1>0, <1>6, <2>1, <2>2, <2>4, <2>5 DEF OnePlace
  <1>11. QED
    BY <1>0, <1>6, <1>9, <1>10

\* A nil audioMeta: the turn that looked at it has been crossed.
LEMMA MetaStays ==
  ASSUME DictationInv, NEW e \in Enders, CopyMeta(e)
  PROVE  DictationInv'
  <1>1. CASE meta
    BY <1>1, TakerMoves DEF CopyMeta, DictationInv, DictationTypeOK
  <1>2. CASE ~meta
    <2>1. crossed
      BY <1>2 DEF DictationInv, OneTakes, CopyMeta
    <2>2. DictationTypeOK' /\ crossed'
      BY <1>2, <2>1 DEF CopyMeta, DictationInv, DictationTypeOK
    <2>3. QED
      BY <2>2 DEF DictationInv
  <1>3. QED
    BY <1>1, <1>2

LEMMA DictationSteps == DictationInv /\ [DictationNext]_dictationVars => DictationInv'
  <1> SUFFICES ASSUME DictationInv, [DictationNext]_dictationVars PROVE DictationInv'
    OBVIOUS
  <1>0. busy \in BOOLEAN /\ crossed \in BOOLEAN
    BY DEF DictationInv, DictationTypeOK
  <1>1. CASE UNCHANGED dictationVars
    BY <1>1 DEF dictationVars, DictationInv, DictationTypeOK, OneTakes, OnePlace, Taking
  <1>2. CASE (\E c \in Chunks : HearChunk(c)) \/ AppendChunk \/ EndDictation
    BY <1>2, LoopSteps
  <1>3. ASSUME NEW e \in Enders, EndTurn(e) PROVE DictationInv'
    BY <1>0, <1>3, TakerMoves DEF EndTurn
  <1>4. ASSUME NEW e \in Enders, LookForAudio(e) PROVE DictationInv'
    BY <1>0, <1>4, TakerMoves DEF LookForAudio
  <1>5. ASSUME NEW e \in Enders, SetBusy(e) PROVE DictationInv'
    BY <1>0, <1>5, TakerMoves DEF SetBusy
  <1>6. ASSUME NEW e \in Enders, FinishTurn(e) PROVE DictationInv'
    BY <1>0, <1>6, TakerMoves DEF FinishTurn
  <1>7. QED
    BY <1>1, <1>2, <1>3, <1>4, <1>5, <1>6, TakesAudio, ClearsBuffer, MetaStays DEF DictationNext

\* What a dictation hears goes to one turn, and no turn loses its buffer, as
\* long as the client keeps still from turn.end until busy is set: for any
\* number of chunks and of turns.
THEOREM HeardGoesToOneTurn == DictationSpec => []HeardOnce
  <1>1. DictationInv => HeardOnce
    BY DEF DictationInv, OnePlace, HeardOnce
  <1>2. DictationSpec => []DictationInv
    BY DictationStarts, DictationSteps, PTL DEF DictationSpec
  <1>3. QED
    BY <1>1, <1>2, PTL

-----------------------------------------------------------------------------
(* ChatTurn.  What has been streamed of the answer at hand is what the client *)
(* saw last; an attachment that was not read stops the turn before the      *)
(* model's first answer; and the messages of the loop are answers of the    *)
(* model, each with the results of its calls, the last one perhaps with     *)
(* only the first of them.                                                  *)

Text == [by : Nat, words : Nat, any : BOOLEAN]
TurnRow ==
  [pc : {"idle", "ground", "context", "round", "calls", "answered", "done", "failed"} \cup Asking,
   tools : BOOLEAN, round : Nat, asked : Nat, text : Text, calls : Seq(Tools), reply : Text]

TurnTypeOK ==
  /\ chatTurn \in TurnRow
  /\ grounder \in [Attachments -> {"none", "waiting", "reading", "read", "left", "failed"}] /\ readErr \in BOOLEAN
  /\ chatClient \in [stream : BOOLEAN, gone : BOOLEAN]
  /\ lastShown \in Text

Watched == chatClient.stream /\ ~chatClient.gone

\* The text at hand, and the reply.
TextIsShown ==
  /\ chatTurn.pc \in {"idle", "ground", "context"} => ~chatTurn.text.any
  /\ chatTurn.pc \in Asking /\ chatTurn.text.any =>
       chatTurn.text.by = chatTurn.asked /\ (Watched => lastShown = chatTurn.text)
  /\ chatTurn.text.words > 0 => chatTurn.text.any
  /\ chatTurn.pc \in {"answered", "done"} =>
       /\ Watched => Trimmed(lastShown) = Trimmed(chatTurn.reply)
       /\ chatTurn.reply = Apology \/ chatTurn.reply.by = chatTurn.asked

\* The attachments: one that was not read has been given up.
GivenUp == \E a \in Attachments : grounder[a] \notin {"none", "read"}

AttachmentsAreRead ==
  /\ chatTurn.pc = "idle" => \A a \in Attachments : grounder[a] = "none"
  /\ chatTurn.pc \notin {"idle", "ground"} => \A a \in Attachments : grounder[a] \notin {"waiting", "reading"}
  /\ chatTurn.pc \in {"idle", "ground", "context"} => chatTurn.round = 0
  /\ \A a \in Attachments : /\ grounder[a] = "failed" => readErr
                            /\ grounder[a] = "left" => readErr \/ chatClient.gone
  /\ chatTurn.pc \notin {"idle", "ground", "failed"} /\ GivenUp =>
       /\ chatClient.gone /\ chatTurn.round = 0
       /\ chatTurn.pc \in {"context", "round", "plain"} /\ ~chatTurn.text.any

ShownInv == TurnTypeOK /\ TextIsShown /\ AttachmentsAreRead

-----------------------------------------------------------------------------
(* The types *)

LEMMA Texts == NoWords \in Text /\ Apology \in Text /\ ~NoWords.any /\ NoWords.words = 0 /\ Apology.any /\ Apology.words = 1
  BY DEF NoWords, Apology, Text

LEMMA CalledAreSeqs == \A cs \in Called : cs \in Seq(Tools) /\ Len(cs) \in Nat
  <1> SUFFICES ASSUME NEW n \in 0..MaxCalls, NEW cs \in [1..n -> Tools] PROVE cs \in Seq(Tools)
    BY DEF Called
  <1>1. n \in Nat
    BY ChatTurnAssumption
  <1>2. QED
    BY <1>1, SeqDef

LEMMA TurnTypes == TurnTypeOK /\ [TurnNext]_turnVars => TurnTypeOK'
  <1> SUFFICES ASSUME TurnTypeOK, [TurnNext]_turnVars PROVE TurnTypeOK'
    OBVIOUS
  <1> USE DEF TurnTypeOK
  <1>1. CASE UNCHANGED turnVars
    BY <1>1 DEF turnVars
  <1>2. ASSUME NEW pc \in {"ground", "context", "round", "calls", "answered", "done", "failed"} \cup Asking, TurnAt(pc)
        PROVE  chatTurn' \in TurnRow
    BY <1>2 DEF TurnAt, TurnRow
  <1>3. ASSUME NEW pc \in Asking, Ask(pc)
        PROVE  chatTurn' \in TurnRow
    <2>1. chatTurn.asked + 1 \in Nat
      BY DEF TurnRow
    <2>2. QED
      BY <1>3, <2>1, Texts DEF Ask, TurnRow
  <1>4. ASSUME NEW t \in Text, Show(t)
        PROVE  lastShown' \in Text
    BY <1>4 DEF Show
  <1>5. CASE ReceiveMessage
    <2>1. chatTurn' \in TurnRow
      BY <1>2, <1>5 DEF ReceiveMessage
    <2>2. chatClient' \in [stream : BOOLEAN, gone : BOOLEAN]
      BY <1>5 DEF ReceiveMessage
    <2>3. QED
      BY <1>5, <2>1, <2>2 DEF ReceiveMessage
  <1>6. CASE HangUp
    BY <1>6 DEF HangUp
  <1>7. CASE Grounded \/ LinkFails \/ ModelFails \/ StoreTurn
    <2>1. chatTurn' \in TurnRow
      BY <1>2, <1>7 DEF Grounded, LinkFails, ModelFails, StoreTurn
    <2>2. QED
      BY <1>7, <2>1 DEF Grounded, LinkFails, ModelFails, StoreTurn
  <1>8. CASE LoadContext
    <2>1. chatTurn' \in TurnRow
      <3>1. CASE chatTurn' = [chatTurn EXCEPT !.pc = "round", !.tools = TRUE]
        BY <3>1 DEF TurnRow
      <3>2. CASE chatTurn' = [chatTurn EXCEPT !.pc = "plain", !.asked = 1]
        BY <3>2 DEF TurnRow, Asking
      <3>3. QED
        BY <1>8, <3>1, <3>2 DEF LoadContext
    <2>2. QED
      BY <1>8, <2>1 DEF LoadContext
  <1>9. CASE BeginRound
    <2>1. chatTurn' \in TurnRow
      <3>1. {"stream", "once", "close"} \subseteq Asking
        BY DEF Asking
      <3>2. TurnAt("failed") \/ \E pc \in Asking : Ask(pc)
        BY <1>9, <3>1 DEF BeginRound
      <3>3. QED
        BY <1>2, <1>3, <3>2
    <2>2. QED
      BY <1>9, <2>1 DEF BeginRound
  <1>10. CASE Chunk
    <2>1. PICK word \in {0, 1} :
            LET t == [by |-> chatTurn.asked, words |-> chatTurn.text.words + word, any |-> TRUE]
            IN  chatTurn' = [chatTurn EXCEPT !.text = t] /\ Show(t)
      BY <1>10 DEF Chunk
    <2> DEFINE t == [by |-> chatTurn.asked, words |-> chatTurn.text.words + word, any |-> TRUE]
    <2>2. t \in Text
      BY DEF TurnRow, Text
    <2> HIDE DEF t
    <2>3. chatTurn' \in TurnRow
      BY <2>1, <2>2 DEF TurnRow, t
    <2>4. lastShown' \in Text
      BY <1>4, <2>1, <2>2 DEF t
    <2>5. QED
      BY <1>10, <2>3, <2>4 DEF Chunk
  <1>11. ASSUME NEW cs \in Called, TakeCalls(cs)
         PROVE  chatTurn' \in TurnRow
    <2>1. cs \in Seq(Tools)
      BY CalledAreSeqs
    <2>2. chatTurn' = [chatTurn EXCEPT !.pc = "calls", !.calls = cs]
      BY <1>11 DEF TakeCalls
    <2>3. QED
      BY <2>1, <2>2 DEF TurnRow
  <1>12. CASE StreamEnds
    <2>1. CASE \E cs \in Called : TakeCalls(cs) /\ UNCHANGED lastShown
      BY <1>11, <1>12, <2>1 DEF StreamEnds
    <2>2. CASE chatTurn' = [chatTurn EXCEPT !.pc = "answered", !.reply = chatTurn.text] /\ UNCHANGED <<working, lastShown>>
      <3>1. chatTurn' \in TurnRow
        BY <2>2 DEF TurnRow
      <3>2. QED
        BY <1>12, <2>2, <3>1 DEF StreamEnds
    <2>3. CASE Ask("again") /\ UNCHANGED <<working, lastShown>>
      <3>1. chatTurn' \in TurnRow
        BY <1>3, <2>3 DEF Asking
      <3>2. QED
        BY <1>12, <2>3, <3>1 DEF StreamEnds
    <2>4. QED
      BY <1>12, <2>1, <2>2, <2>3 DEF StreamEnds
  <1>13. CASE CompleteOnce
    <2>1. CASE \E cs \in Called : TakeCalls(cs) /\ UNCHANGED lastShown
      BY <1>11, <1>13, <2>1 DEF CompleteOnce
    <2>2. CASE TurnAt("failed") /\ UNCHANGED <<working, lastShown>>
      <3>1. chatTurn' \in TurnRow
        BY <1>2, <2>2
      <3>2. QED
        BY <1>13, <2>2, <3>1 DEF CompleteOnce
    <2>3. CASE LET t == [by |-> chatTurn.asked, words |-> 1, any |-> TRUE]
               IN  chatTurn' = [chatTurn EXCEPT !.pc = "answered", !.reply = t] /\ Show(ShownOnce(t)) /\ UNCHANGED working
      <3> DEFINE t == [by |-> chatTurn.asked, words |-> 1, any |-> TRUE]
      <3>1. t \in Text
        BY DEF TurnRow, Text
      <3> HIDE DEF t
      <3>2. chatTurn' \in TurnRow
        BY <2>3, <3>1 DEF TurnRow, t
      <3>3. lastShown' \in Text
        BY <1>4, <2>3, <3>1 DEF t, ShownOnce
      <3>4. QED
        BY <1>13, <2>3, <3>2, <3>3 DEF CompleteOnce
    <2>4. QED
      BY <1>13, <2>1, <2>2, <2>3 DEF CompleteOnce
  <1>14. CASE AnswerCall
    <2>1. chatTurn' = chatTurn \/ chatTurn' = [chatTurn EXCEPT !.pc = "round", !.round = @ + 1, !.calls = <<>>]
      BY <1>14 DEF AnswerCall
    <2>2. chatTurn' \in TurnRow
      <3>1. chatTurn.round + 1 \in Nat /\ <<>> \in Seq(Tools)
        BY DEF TurnRow
      <3>2. QED
        BY <2>1, <3>1 DEF TurnRow
    <2>3. QED
      BY <1>14, <2>2 DEF AnswerCall
  <1>15. CASE AgainEnds
    <2>1. chatTurn' \in TurnRow
      BY <1>15 DEF AgainEnds, TurnRow
    <2>2. QED
      BY <1>15, <2>1 DEF AgainEnds
  <1>16. CASE CloseEnds
    <2>1. CASE chatTurn' = [chatTurn EXCEPT !.pc = "answered", !.reply = chatTurn.text] /\ UNCHANGED lastShown
      <3>1. chatTurn' \in TurnRow
        BY <2>1 DEF TurnRow
      <3>2. QED
        BY <1>16, <2>1, <3>1 DEF CloseEnds
    <2>2. CASE chatTurn' = [chatTurn EXCEPT !.pc = "answered", !.reply = Apology] /\ Show(Apology)
      <3>1. chatTurn' \in TurnRow
        BY <2>2, Texts DEF TurnRow
      <3>2. QED
        BY <1>4, <1>16, <2>2, <3>1, Texts DEF CloseEnds
    <2>3. QED
      BY <1>16, <2>1, <2>2 DEF CloseEnds
  <1>17. ASSUME NEW a \in Attachments, EnterReader(a) \/ ReadAttachment(a) \/ FailToRead(a)
         PROVE  TurnTypeOK'
    BY <1>17 DEF EnterReader, ReadAttachment, FailToRead
  <1>18. QED
    BY <1>1, <1>5, <1>6, <1>7, <1>8, <1>9, <1>10, <1>12, <1>13, <1>14, <1>15, <1>16, <1>17 DEF TurnNext

-----------------------------------------------------------------------------
(* What is shown *)

LEMMA ShownSteps == ShownInv /\ [TurnNext]_turnVars => ShownInv'
  <1> SUFFICES ASSUME ShownInv, [TurnNext]_turnVars PROVE TextIsShown' /\ AttachmentsAreRead'
    BY TurnTypes DEF ShownInv
  <1>0. /\ TurnTypeOK /\ TextIsShown /\ AttachmentsAreRead
        /\ chatTurn.asked \in Nat /\ chatTurn.text \in Text /\ chatTurn.round \in Nat /\ MaxRounds \in Nat \ {0}
        /\ chatTurn \in TurnRow /\ chatClient.stream \in BOOLEAN /\ chatClient.gone \in BOOLEAN
    BY ChatTurnAssumption DEF ShownInv, TurnTypeOK, TurnRow
  <1> DEFINE c == chatTurn
             d == chatTurn'
  <1>1. CASE UNCHANGED turnVars
    BY <1>0, <1>1 DEF turnVars, TextIsShown, AttachmentsAreRead, GivenUp, Watched
  <1>2. CASE ReceiveMessage
    <2>1. d.pc = "ground" /\ d.text = c.text /\ d.round = c.round /\ c.pc = "idle"
      BY <1>0, <1>2 DEF ReceiveMessage, TurnAt, TurnRow
    <2>2. TextIsShown'
      BY <1>0, <2>1 DEF TextIsShown, Asking
    <2>3. AttachmentsAreRead'
      <3>1. \A a \in Attachments : grounder'[a] \in {"waiting", "none"}
        BY <1>2 DEF ReceiveMessage
      <3>2. QED
        BY <1>0, <2>1, <3>1 DEF AttachmentsAreRead, GivenUp
    <2>4. QED
      BY <2>2, <2>3
  <1>3. CASE HangUp
    <2>1. UNCHANGED <<chatTurn, grounder, readErr, lastShown>> /\ chatClient'.gone /\ ~Watched'
      BY <1>0, <1>3 DEF HangUp, Watched, TurnTypeOK
    <2>2. QED
      BY <1>0, <2>1 DEF TextIsShown, AttachmentsAreRead, GivenUp
  <1>4. CASE \E a \in Attachments : EnterReader(a) \/ ReadAttachment(a) \/ FailToRead(a)
    <2>1. PICK a \in Attachments : EnterReader(a) \/ ReadAttachment(a) \/ FailToRead(a)
      BY <1>4
    <2>2. UNCHANGED <<chatTurn, chatClient, lastShown>> /\ grounder[a] \in {"waiting", "reading"}
      BY <2>1 DEF EnterReader, ReadAttachment, FailToRead
    <2>3. PICK s \in {"left", "reading", "read", "failed"} : grounder' = [grounder EXCEPT ![a] = s]
      BY <2>1 DEF EnterReader, ReadAttachment, FailToRead
    <2>4. /\ s = "failed" => readErr'
          /\ s = "left" => readErr \/ chatClient.gone
          /\ readErr => readErr'
      BY <1>0, <2>1, <2>3 DEF EnterReader, ReadAttachment, FailToRead, Cancelled, TurnTypeOK
    <2>5. c.pc = "ground"
      BY <1>0, <2>2 DEF AttachmentsAreRead
    <2>6. TextIsShown'
      BY <1>0, <2>2 DEF TextIsShown, Watched
    <2>7. AttachmentsAreRead'
      <3>1. \A b \in Attachments : grounder'[b] = IF b = a THEN s ELSE grounder[b]
        BY <1>0, <2>3 DEF TurnTypeOK
      <3>2. QED
        BY <1>0, <2>2, <2>4, <2>5, <3>1 DEF AttachmentsAreRead
    <2>8. QED
      BY <2>6, <2>7
  <1>5. CASE Grounded \/ LinkFails
    <2>1. /\ d.pc \in {"context", "failed"} /\ d.text = c.text /\ d.round = c.round /\ c.pc = "ground"
          /\ d.pc = "context" => ~readErr /\ \A a \in Attachments : grounder[a] \notin {"waiting", "reading"}
          /\ \A a \in Attachments : grounder[a] \notin {"waiting", "reading"}
          /\ UNCHANGED <<grounder, readErr, chatClient, lastShown>>
      BY <1>0, <1>5 DEF Grounded, LinkFails, TurnAt, TurnRow
    <2>2. TextIsShown'
      BY <1>0, <2>1 DEF TextIsShown, Asking
    <2>3. d.pc = "context" /\ GivenUp' => chatClient.gone
      BY <1>0, <2>1 DEF GivenUp, AttachmentsAreRead, TurnTypeOK
    <2>4. AttachmentsAreRead'
      BY <1>0, <2>1, <2>2, <2>3 DEF AttachmentsAreRead, TextIsShown
    <2>5. QED
      BY <2>2, <2>4
  \* Everything after the grounding leaves the attachments as they are.
  <1>6. ASSUME UNCHANGED <<grounder, readErr, chatClient>>,
               c.pc \notin {"idle", "ground", "failed"}, d.pc \notin {"idle", "ground", "context"},
               GivenUp => d.pc = "failed" \/ (d.round = 0 /\ d.pc \in {"round", "plain"} /\ ~d.text.any)
        PROVE  AttachmentsAreRead'
    BY <1>0, <1>6 DEF AttachmentsAreRead, GivenUp
  <1>7. CASE ModelFails \/ StoreTurn
    <2>1. /\ \/ d.pc = "failed" /\ c.pc \in Asking
             \/ d.pc = "done" /\ c.pc = "answered"
          /\ d.text = c.text /\ d.round = c.round /\ d.reply = c.reply /\ d.asked = c.asked
          /\ UNCHANGED <<grounder, readErr, chatClient, lastShown>>
      BY <1>0, <1>7 DEF ModelFails, StoreTurn, TurnAt, TurnRow
    <2>2. TextIsShown'
      BY <1>0, <2>1 DEF TextIsShown, Asking, Watched
    <2>3. AttachmentsAreRead'
      BY <1>0, <1>6, <2>1 DEF AttachmentsAreRead, Asking
    <2>4. QED
      BY <2>2, <2>3
  <1>8. CASE LoadContext
    <2>1. /\ c.pc = "context" /\ d.pc \in {"round", "plain"} /\ d.text = c.text /\ d.round = c.round
          /\ UNCHANGED <<grounder, readErr, chatClient, lastShown>>
      BY <1>0, <1>8 DEF LoadContext, TurnRow
    <2>2. TextIsShown'
      BY <1>0, <2>1 DEF TextIsShown
    <2>3. AttachmentsAreRead'
      BY <1>0, <1>6, <2>1 DEF AttachmentsAreRead, TextIsShown
    <2>4. QED
      BY <2>2, <2>3
  \* A question: nothing has come of its answer.
  <1>9. ASSUME NEW pc \in Asking, Ask(pc), c.pc \notin {"idle", "ground", "context", "failed"}, ~GivenUp,
               UNCHANGED <<grounder, readErr, chatClient>>
        PROVE  TextIsShown' /\ AttachmentsAreRead'
    <2>1. d.pc = pc /\ d.text = NoWords /\ d.round = c.round
      BY <1>0, <1>9 DEF Ask, TurnRow
    <2>2. TextIsShown'
      BY <1>9, <2>1, Texts DEF TextIsShown, Asking
    <2>3. AttachmentsAreRead'
      BY <1>0, <1>6, <1>9, <2>1 DEF AttachmentsAreRead, Asking
    <2>4. QED
      BY <2>2, <2>3
  <1>10. CASE BeginRound
    <2>1. CASE TurnAt("failed")
      <3>1. /\ d.pc = "failed" /\ c.pc = "round" /\ d.text = c.text
            /\ UNCHANGED <<grounder, readErr, chatClient, lastShown>>
        BY <1>0, <1>10, <2>1 DEF BeginRound, TurnAt, TurnRow
      <3>2. QED
        BY <1>0, <1>6, <3>1 DEF TextIsShown, Asking
    <2>2. ASSUME NEW pc \in {"stream", "once", "close"}, Ask(pc), ~chatClient.gone \/ c.round = MaxRounds
          PROVE  TextIsShown' /\ AttachmentsAreRead'
      <3>1. ~GivenUp
        BY <1>0, <1>10, <2>2 DEF BeginRound, AttachmentsAreRead
      <3>2. QED
        BY <1>9, <1>10, <2>2, <3>1 DEF BeginRound, Asking
    <2>3. QED
      BY <1>10, <2>1, <2>2 DEF BeginRound
  <1>11. CASE Chunk
    <2>1. PICK word \in {0, 1} :
            LET t == [by |-> chatTurn.asked, words |-> chatTurn.text.words + word, any |-> TRUE]
            IN  chatTurn' = [chatTurn EXCEPT !.text = t] /\ Show(t)
      BY <1>11 DEF Chunk
    <2> DEFINE t == [by |-> chatTurn.asked, words |-> chatTurn.text.words + word, any |-> TRUE]
    <2>2. /\ c.pc \in Asking /\ d.pc = c.pc /\ d.text = t /\ d.asked = c.asked /\ ~chatClient.gone
          /\ UNCHANGED <<grounder, readErr, chatClient>>
      BY <1>0, <1>11, <2>1 DEF Chunk, TurnRow
    <2>3. t.any /\ t.by = c.asked /\ (Watched => lastShown' = t)
      BY <2>1 DEF Show, Watched
    <2> HIDE DEF t
    <2>4. TextIsShown'
      BY <2>2, <2>3 DEF TextIsShown, Watched, Asking
    <2>5. ~GivenUp
      BY <1>0, <2>2 DEF AttachmentsAreRead, Asking
    <2>6. AttachmentsAreRead'
      BY <1>6, <2>2, <2>5 DEF Asking
    <2>7. QED
      BY <2>4, <2>6
  <1>12. ASSUME NEW cs, TakeCalls(cs), c.pc \in {"stream", "once"}, UNCHANGED <<grounder, readErr, chatClient, lastShown>>
         PROVE  TextIsShown' /\ AttachmentsAreRead'
    <2>1. d.pc = "calls" /\ d.text = c.text
      BY <1>0, <1>12 DEF TakeCalls, TurnRow
    <2>2. ~GivenUp
      BY <1>0, <1>12 DEF AttachmentsAreRead
    <2>3. QED
      BY <1>0, <1>6, <1>12, <2>1, <2>2 DEF TextIsShown, Asking
  \* The turn has its answer.
  <1>13. ASSUME NEW t \in Text, chatTurn' = [chatTurn EXCEPT !.pc = "answered", !.reply = t],
                c.pc \in Asking, UNCHANGED <<grounder, readErr, chatClient>>, ~GivenUp,
                Watched => Trimmed(lastShown') = Trimmed(t), t = Apology \/ t.by = c.asked
         PROVE  TextIsShown' /\ AttachmentsAreRead'
    <2>1. d.pc = "answered" /\ d.text = c.text /\ d.reply = t /\ d.asked = c.asked
      BY <1>0, <1>13 DEF TurnRow
    <2>2. TextIsShown'
      BY <1>0, <1>13, <2>1 DEF TextIsShown, Asking, Watched
    <2>3. AttachmentsAreRead'
      BY <1>6, <1>13, <2>1 DEF Asking
    <2>4. QED
      BY <2>2, <2>3
  <1>14. CASE StreamEnds
    <2>1. ~GivenUp /\ c.pc = "stream" /\ UNCHANGED <<grounder, readErr, chatClient>>
      BY <1>0, <1>14 DEF StreamEnds, AttachmentsAreRead
    <2>2. CASE \E cs \in Called : TakeCalls(cs) /\ UNCHANGED lastShown
      BY <1>12, <2>1, <2>2
    <2>3. CASE chatTurn.text.words > 0 /\ chatTurn' = [chatTurn EXCEPT !.pc = "answered", !.reply = chatTurn.text] /\ UNCHANGED lastShown
      <3>1. Watched => lastShown = c.text
        BY <1>0, <2>1, <2>3 DEF TextIsShown, Asking
      <3>2. c.text.by = c.asked
        BY <1>0, <2>1, <2>3 DEF TextIsShown, Asking
      <3>3. QED
        BY <1>0, <1>13, <2>1, <2>3, <3>1, <3>2 DEF Asking
    <2>4. CASE Ask("again")
      BY <1>9, <2>1, <2>4 DEF Asking
    <2>5. QED
      BY <1>14, <2>2, <2>3, <2>4 DEF StreamEnds
  <1>15. CASE CompleteOnce
    <2>1. ~GivenUp /\ c.pc = "once" /\ UNCHANGED <<grounder, readErr, chatClient>>
      BY <1>0, <1>15 DEF CompleteOnce, AttachmentsAreRead
    <2>2. CASE \E cs \in Called : TakeCalls(cs) /\ UNCHANGED lastShown
      BY <1>12, <2>1, <2>2
    <2>3. CASE TurnAt("failed") /\ UNCHANGED lastShown
      <3>1. d.pc = "failed" /\ d.text = c.text
        BY <1>0, <2>3 DEF TurnAt, TurnRow
      <3>2. QED
        BY <1>0, <1>6, <2>1, <2>3, <3>1 DEF TextIsShown, Asking
    <2> DEFINE t == [by |-> chatTurn.asked, words |-> 1, any |-> TRUE]
    <2>4. CASE chatTurn' = [chatTurn EXCEPT !.pc = "answered", !.reply = t] /\ Show(ShownOnce(t))
      <3>1. t \in Text /\ t.by = c.asked
        BY <1>0 DEF Text
      <3> HIDE DEF t
      <3>2. Watched => lastShown' = t
        BY <2>4 DEF Show, ShownOnce, Watched
      <3>3. QED
        BY <1>13, <2>1, <2>4, <3>1, <3>2 DEF Asking
    <2>5. QED
      BY <1>15, <2>2, <2>3, <2>4 DEF CompleteOnce
  <1>16. CASE AnswerCall
    <2>1. /\ c.pc = "calls" /\ d.pc \in {"calls", "round"} /\ d.text = c.text
          /\ UNCHANGED <<grounder, readErr, chatClient, lastShown>>
      BY <1>0, <1>16 DEF AnswerCall, TurnRow
    <2>2. ~GivenUp
      BY <1>0, <2>1 DEF AttachmentsAreRead
    <2>3. QED
      BY <1>0, <1>6, <2>1, <2>2 DEF TextIsShown, Asking
  <1>17. CASE AgainEnds
    <2>1. /\ c.pc \in {"again", "plain"} /\ c.text.any /\ UNCHANGED <<grounder, readErr, chatClient, lastShown>>
          /\ chatTurn' = [chatTurn EXCEPT !.pc = "answered", !.reply = chatTurn.text]
      BY <1>17 DEF AgainEnds
    <2>2. ~GivenUp
      BY <1>0, <2>1 DEF AttachmentsAreRead
    <2>3. c.text.by = c.asked /\ (Watched => lastShown = c.text)
      BY <1>0, <2>1 DEF TextIsShown, Asking
    <2>4. QED
      BY <1>0, <1>13, <2>1, <2>2, <2>3 DEF Asking
  <1>18. CASE CloseEnds
    <2>1. ~GivenUp /\ c.pc = "close" /\ UNCHANGED <<grounder, readErr, chatClient>>
      BY <1>0, <1>18 DEF CloseEnds, AttachmentsAreRead
    <2>2. CASE chatTurn.text.words > 0 /\ chatTurn' = [chatTurn EXCEPT !.pc = "answered", !.reply = chatTurn.text] /\ UNCHANGED lastShown
      <3>1. c.text.by = c.asked /\ (Watched => lastShown = c.text)
        BY <1>0, <2>1, <2>2 DEF TextIsShown, Asking
      <3>2. QED
        BY <1>0, <1>13, <2>1, <2>2, <3>1 DEF Asking
    <2>3. CASE chatTurn' = [chatTurn EXCEPT !.pc = "answered", !.reply = Apology] /\ Show(Apology)
      <3>1. Watched => lastShown' = Apology
        BY <2>3 DEF Show, Watched
      <3>2. QED
        BY <1>13, <2>1, <2>3, <3>1, Texts DEF Asking
    <2>4. QED
      BY <1>18, <2>2, <2>3 DEF CloseEnds
  <1>19. QED
    BY <1>1, <1>2, <1>3, <1>4, <1>5, <1>7, <1>8, <1>10, <1>11, <1>14, <1>15, <1>16, <1>17, <1>18 DEF TurnNext

LEMMA ShownStarts == TurnInit => ShownInv
  <1> SUFFICES ASSUME TurnInit PROVE ShownInv
    OBVIOUS
  <1>1. /\ chatTurn \in TurnRow /\ chatTurn.pc = "idle" /\ ~chatTurn.text.any /\ chatTurn.text.words = 0 /\ chatTurn.round = 0
    BY Texts DEF TurnInit, TurnRow
  <1>2. TurnTypeOK
    BY <1>1, Texts DEF TurnInit, TurnTypeOK
  <1>3. TextIsShown
    BY <1>1 DEF TextIsShown, Asking
  <1>4. AttachmentsAreRead
    BY <1>1 DEF TurnInit, AttachmentsAreRead
  <1>5. QED
    BY <1>2, <1>3, <1>4 DEF ShownInv

LEMMA ShownHolds == ShownInv => AnswerIsShown
  BY DEF ShownInv, TextIsShown, AttachmentsAreRead, GivenUp, Watched, AnswerIsShown

-----------------------------------------------------------------------------
(* The calls and their results *)

Message == [role : {"assistant"}, n : Nat] \cup [role : {"tool"}, i : Nat, tool : Tools, ran : BOOLEAN]

\* The answer of the model at p has the results of all its calls before h, and
\* the next message is another answer.
AnsweredAt(s, p, h) ==
  IF s[p].role = "assistant"
  THEN /\ p + s[p].n < h
       /\ \A i \in 1..s[p].n : s[p + i].role = "tool" /\ s[p + i].i = i
       /\ p + s[p].n + 1 = h \/ s[p + s[p].n + 1].role = "assistant"
  ELSE p > 1

AnsweredUpTo(s, h) == \A p \in 1..(h - 1) : AnsweredAt(s, p, h)

\* The last answer of the model is at h, and has the results of its first calls.
Open(s, h, n) ==
  /\ h \in 1..Len(s) /\ AnsweredUpTo(s, h)
  /\ s[h].role = "assistant" /\ s[h].n = n /\ Len(s) - h < n
  /\ \A k \in (h + 1)..Len(s) : s[k].role = "tool" /\ s[k].i = k - h

\* The results of a tool, and those of calls that were carried out.
ResultsOf(s, t) == {k \in 1..Len(s) : s[k].role = "tool" /\ s[k].tool = t}
RanOf(s, t) == {k \in 1..Len(s) : s[k].role = "tool" /\ s[k].tool = t /\ s[k].ran}

CallsInv ==
  /\ chatTurn.calls \in Seq(Tools) /\ working \in Seq(Message)
  /\ IF chatTurn.pc = "calls"
     THEN \E h \in 1..Len(working) : Open(working, h, Len(chatTurn.calls))
     ELSE AnsweredUpTo(working, Len(working) + 1)
  /\ \A t \in {"fetch", "browse"} : Cardinality(RanOf(working, t)) <= Limit(t)

\* What is added at the end leaves the answers before it alone.
LEMMA AnsweredKeeps ==
  ASSUME NEW s \in Seq(Message), NEW m \in Message, NEW h \in 1..(Len(s) + 1), AnsweredUpTo(s, h)
  PROVE  AnsweredUpTo(Append(s, m), h)
  <1> DEFINE q == Append(s, m)
  <1>1. \A k \in 1..Len(s) : q[k] = s[k]
    OBVIOUS
  <1>2. \A k \in 1..Len(s) : s[k] \in Message
    OBVIOUS
  <1> SUFFICES ASSUME NEW p \in 1..(h - 1) PROVE AnsweredAt(q, p, h)
    BY DEF AnsweredUpTo
  <1>3. q[p] = s[p] /\ AnsweredAt(s, p, h) /\ p \in Nat /\ h \in Nat /\ p \in 1..Len(s) /\ Len(s) \in Nat
    BY <1>1 DEF AnsweredUpTo
  <1> HIDE DEF q
  <1>4. CASE s[p].role = "assistant"
    <2>1. s[p].n \in Nat
      BY <1>2, <1>3, <1>4 DEF Message
    <2>2. \A i \in 1..s[p].n : p + i \in 1..Len(s)
      BY <1>3, <1>4, <2>1 DEF AnsweredAt
    <2>3. p + s[p].n + 1 = h \/ p + s[p].n + 1 \in 1..Len(s)
      BY <1>3, <1>4, <2>1 DEF AnsweredAt
    <2>4. /\ p + s[p].n < h
          /\ \A i \in 1..s[p].n : s[p + i].role = "tool" /\ s[p + i].i = i
          /\ p + s[p].n + 1 = h \/ s[p + s[p].n + 1].role = "assistant"
      BY <1>3, <1>4 DEF AnsweredAt
    <2>5. \A i \in 1..s[p].n : q[p + i] = s[p + i]
      BY <1>1, <2>2
    <2>6. p + s[p].n + 1 = h \/ q[p + s[p].n + 1] = s[p + s[p].n + 1]
      BY <1>1, <2>3
    <2>7. /\ p + q[p].n < h
          /\ \A i \in 1..q[p].n : q[p + i].role = "tool" /\ q[p + i].i = i
          /\ p + q[p].n + 1 = h \/ q[p + q[p].n + 1].role = "assistant"
      BY <1>3, <2>4, <2>5, <2>6
    <2>8. QED
      BY <1>3, <1>4, <2>7 DEF AnsweredAt
  <1>5. CASE s[p].role # "assistant"
    BY <1>3, <1>5 DEF AnsweredAt
  <1>6. QED
    BY <1>4, <1>5

\* An answer with calls opens.
LEMMA AnswerOpens ==
  ASSUME NEW s \in Seq(Message), NEW n \in Nat \ {0}, AnsweredUpTo(s, Len(s) + 1)
  PROVE  Open(Append(s, [role |-> "assistant", n |-> n]), Len(s) + 1, n)
  <1> DEFINE m == [role |-> "assistant", n |-> n]
             q == Append(s, m)
  <1>1. m \in Message /\ m.role = "assistant" /\ m.n = n
    BY DEF Message
  <1>2. Len(s) \in Nat /\ Len(q) = Len(s) + 1 /\ q[Len(s) + 1] = m
    BY <1>1
  <1>3. AnsweredUpTo(q, Len(s) + 1)
    BY <1>1, <1>2, AnsweredKeeps
  <1> HIDE DEF m, q
  <1>4. QED
    BY <1>1, <1>2, <1>3 DEF Open, m, q

\* The results so far are at the end.
LEMMA ResultsSoFar ==
  ASSUME NEW s \in Seq(Message), NEW h, NEW n \in Nat, Open(s, h, n)
  PROVE  Cardinality({k \in DOMAIN s : \A j \in k..Len(s) : s[j].role = "tool"}) = Len(s) - h
  <1> DEFINE R == {k \in DOMAIN s : \A j \in k..Len(s) : s[j].role = "tool"}
  <1>1. h \in 1..Len(s) /\ Len(s) \in Nat /\ DOMAIN s = 1..Len(s) /\ s[h].role # "tool"
    BY DEF Open
  <1>2. \A k \in 1..Len(s) : k \in R <=> k \in (h + 1)..Len(s)
    BY <1>1 DEF Open
  <1>3. R = (h + 1)..Len(s)
    BY <1>1, <1>2
  <1>4. Cardinality((h + 1)..Len(s)) = Len(s) - h
    <2>1. h + 1 \in Int /\ Len(s) \in Int
      BY <1>1
    <2>2. Cardinality((h + 1)..Len(s)) = IF h + 1 > Len(s) THEN 0 ELSE Len(s) - (h + 1) + 1
      BY <2>1, FS_Interval
    <2>3. QED
      BY <1>1, <2>2
  <1>5. QED
    BY <1>3, <1>4

\* Another result: the answer stays open, or has all of them.
LEMMA ResultGoesTo ==
  ASSUME NEW s \in Seq(Message), NEW h, NEW n \in Nat, Open(s, h, n),
         NEW m \in Message, m.role = "tool", m.i = Len(s) - h + 1
  PROVE  IF Len(s) - h + 1 < n THEN Open(Append(s, m), h, n) ELSE AnsweredUpTo(Append(s, m), Len(s) + 2)
  <1> DEFINE q == Append(s, m)
  <1>1. h \in 1..Len(s) /\ Len(s) \in Nat
    BY DEF Open
  <1>2. /\ Len(q) = Len(s) + 1 /\ q[Len(s) + 1] = m /\ \A k \in 1..Len(s) : q[k] = s[k]
    BY <1>1
  <1>3. AnsweredUpTo(q, h)
    BY <1>1, AnsweredKeeps DEF Open
  <1> HIDE DEF q
  <1>4. q[h].role = "assistant" /\ q[h].n = n /\ \A k \in (h + 1)..Len(q) : q[k].role = "tool" /\ q[k].i = k - h
    BY <1>1, <1>2 DEF Open
  <1>5. CASE Len(s) - h + 1 < n
    BY <1>1, <1>2, <1>3, <1>4, <1>5 DEF Open, q
  <1>6. CASE Len(s) - h + 1 >= n
    <2>1. n = Len(s) - h + 1
      BY <1>1, <1>6 DEF Open
    <2>2. ASSUME NEW p \in 1..(Len(s) + 1) PROVE AnsweredAt(q, p, Len(s) + 2)
      <3>1. CASE p < h
        <4>1. AnsweredAt(q, p, h) /\ p \in Nat /\ h \in Nat
          BY <1>1, <1>3, <3>1 DEF AnsweredUpTo
        <4>2. CASE q[p].role = "assistant"
          <5>1. q[p].n \in Nat
            <6>1. q[p] = s[p] /\ s[p] \in Message
              BY <1>1, <1>2, <3>1
            <6>2. QED
              BY <4>2, <6>1 DEF Message
          <5>2. QED
            BY <1>1, <1>4, <4>1, <4>2, <5>1 DEF AnsweredAt
        <4>3. CASE q[p].role # "assistant"
          BY <4>1, <4>3 DEF AnsweredAt
        <4>4. QED
          BY <4>2, <4>3
      <3>2. CASE p = h
        <4>1. \A i \in 1..n : h + i \in (h + 1)..Len(q) /\ (h + i) - h = i
          BY <1>1, <1>2, <2>1
        <4>2. h + n < Len(s) + 2 /\ h + n + 1 = Len(s) + 2
          BY <1>1, <2>1
        <4>3. \A i \in 1..n : q[h + i].role = "tool" /\ q[h + i].i = i
          BY <1>4, <4>1
        <4>4. AnsweredAt(q, h, Len(s) + 2)
          BY <1>4, <4>2, <4>3 DEF AnsweredAt
        <4>5. QED
          BY <3>2, <4>4
      <3>3. CASE p > h
        BY <1>1, <1>2, <1>4, <3>3 DEF AnsweredAt
      <3>4. QED
        BY <1>1, <3>1, <3>2, <3>3
    <2>3. Len(s) + 2 - 1 = Len(s) + 1
      BY <1>1
    <2>4. QED
      BY <1>1, <1>6, <2>2, <2>3 DEF AnsweredUpTo, q
  <1>7. QED
    BY <1>1, <1>5, <1>6

\* A tool runs only within its limit.
LEMMA WithinLimit ==
  ASSUME NEW s \in Seq(Message), NEW m \in Message, NEW t \in Tools, NEW limit \in Nat,
         Cardinality(RanOf(s, t)) <= limit,
         m.role = "tool" /\ m.tool = t /\ m.ran => Cardinality(ResultsOf(s, t)) + 1 <= limit
  PROVE  Cardinality(RanOf(Append(s, m), t)) <= limit
  <1> DEFINE q == Append(s, m)
             k == Len(s) + 1
             R == ResultsOf(s, t)
  <1>1. Len(s) \in Nat /\ Len(q) = k /\ q[k] = m /\ \A i \in 1..Len(s) : q[i] = s[i]
    OBVIOUS
  <1>2. IsFiniteSet(1..Len(s)) /\ R \subseteq 1..Len(s) /\ k \notin R
    <2>1. IsFiniteSet(1..Len(s))
      BY <1>1, FS_Interval
    <2>2. R \subseteq 1..Len(s)
      BY DEF ResultsOf
    <2>3. QED
      BY <1>1, <2>1, <2>2
  <1>3. IsFiniteSet(R)
    BY <1>2, FS_Subset
  <1> HIDE DEF q
  <1>4. CASE m.role = "tool" /\ m.tool = t /\ m.ran
    <2>1. RanOf(q, t) \subseteq R \cup {k}
      BY <1>1 DEF RanOf, ResultsOf
    <2>2. IsFiniteSet(R \cup {k}) /\ Cardinality(R \cup {k}) = Cardinality(R) + 1 /\ Cardinality(R) \in Nat
      BY <1>2, <1>3, FS_AddElement, FS_CardinalityType
    <2>3. Cardinality(RanOf(q, t)) <= Cardinality(R) + 1 /\ Cardinality(RanOf(q, t)) \in Nat
      BY <2>1, <2>2, FS_Subset, FS_CardinalityType
    <2>4. QED
      BY <1>4, <2>2, <2>3 DEF q
  <1>5. CASE ~(m.role = "tool" /\ m.tool = t /\ m.ran)
    <2>1. RanOf(q, t) = RanOf(s, t)
      BY <1>1, <1>5 DEF RanOf
    <2>2. QED
      BY <2>1 DEF q
  <1>6. QED
    BY <1>4, <1>5

LEMMA CallsStart == TurnInit => CallsInv
  <1> SUFFICES ASSUME TurnInit PROVE CallsInv
    OBVIOUS
  <1>1. working = <<>> /\ chatTurn.calls = <<>> /\ chatTurn.pc = "idle"
    BY DEF TurnInit
  <1>2. \A t \in {"fetch", "browse"} : Cardinality(RanOf(working, t)) = 0 /\ Limit(t) \in Nat
    <2>1. \A t \in {"fetch", "browse"} : RanOf(working, t) = {}
      BY <1>1 DEF RanOf
    <2>2. QED
      BY <2>1, FS_EmptySet, ChatTurnAssumption DEF Limit
  <1>3. QED
    BY <1>1, <1>2 DEF CallsInv, AnsweredUpTo

\* Nothing is called, and nothing is open.
LEMMA CallsRest ==
  ASSUME CallsInv, chatTurn.pc # "calls", UNCHANGED working, chatTurn'.pc # "calls", chatTurn'.calls = chatTurn.calls
  PROVE  CallsInv'
  BY DEF CallsInv, Limit

LEMMA CallsSteps == ShownInv /\ CallsInv /\ [TurnNext]_turnVars => CallsInv'
  <1> SUFFICES ASSUME ShownInv, CallsInv, [TurnNext]_turnVars PROVE CallsInv'
    OBVIOUS
  <1>0. chatTurn \in TurnRow /\ working \in Seq(Message) /\ MaxFetchCalls \in Nat /\ MaxBrowseCalls \in Nat
    BY ChatTurnAssumption DEF ShownInv, TurnTypeOK, CallsInv
  <1>1. CASE \/ UNCHANGED turnVars \/ HangUp
             \/ \E a \in Attachments : EnterReader(a) \/ ReadAttachment(a) \/ FailToRead(a)
    <2>1. UNCHANGED <<chatTurn, working>>
      BY <1>1 DEF turnVars, HangUp, EnterReader, ReadAttachment, FailToRead
    <2>2. QED
      BY <2>1 DEF CallsInv, Limit
  <1>2. CASE ReceiveMessage \/ Grounded \/ LinkFails \/ LoadContext \/ ModelFails \/ AgainEnds \/ CloseEnds \/ StoreTurn
    <2>1. chatTurn.pc # "calls" /\ UNCHANGED working
      BY <1>2 DEF ReceiveMessage, Grounded, LinkFails, LoadContext, ModelFails, AgainEnds, CloseEnds, StoreTurn, Asking
    <2>2. chatTurn'.pc # "calls" /\ chatTurn'.calls = chatTurn.calls
      BY <1>0, <1>2 DEF ReceiveMessage, Grounded, LinkFails, LoadContext, ModelFails, AgainEnds, CloseEnds, StoreTurn,
                        TurnAt, TurnRow
    <2>3. QED
      BY <2>1, <2>2, CallsRest
  <1>3. CASE BeginRound \/ Chunk
    <2>1. chatTurn.pc # "calls" /\ UNCHANGED working
      BY <1>3 DEF BeginRound, Chunk, Asking
    <2>2. chatTurn'.pc # "calls" /\ chatTurn'.calls = chatTurn.calls
      BY <1>0, <1>3, <2>1 DEF BeginRound, Chunk, TurnAt, Ask, TurnRow
    <2>3. QED
      BY <2>1, <2>2, CallsRest
  <1>4. ASSUME NEW cs \in Called, TakeCalls(cs), chatTurn.pc # "calls"
        PROVE  CallsInv'
    <2> DEFINE n == Len(cs)
    <2>1. cs \in Seq(Tools) /\ n \in Nat \ {0}
      BY <1>4, CalledAreSeqs DEF TakeCalls
    <2>2. chatTurn'.pc = "calls" /\ chatTurn'.calls = cs /\ working' = Append(working, CallMessage(cs))
      BY <1>0, <1>4 DEF TakeCalls, TurnRow
    <2>3. CallMessage(cs) \in Message /\ CallMessage(cs).role = "assistant" /\ CallMessage(cs) = [role |-> "assistant", n |-> n]
      BY <2>1 DEF CallMessage, Message
    <2>4. Open(working', Len(working) + 1, n) /\ working' \in Seq(Message)
      BY <1>0, <1>4, <2>1, <2>2, <2>3, AnswerOpens DEF CallsInv
    <2>5. \A t \in {"fetch", "browse"} : Cardinality(RanOf(working', t)) <= Limit(t)'
      <3> TAKE t \in {"fetch", "browse"}
      <3>1. Limit(t)' = Limit(t) /\ Limit(t) \in Nat /\ t \in Tools
        BY <1>0 DEF Limit, Tools
      <3>2. Cardinality(RanOf(Append(working, CallMessage(cs)), t)) <= Limit(t)
        BY <1>0, <2>3, <3>1, WithinLimit DEF CallsInv
      <3>3. QED
        BY <2>2, <3>1, <3>2
    <2> HIDE DEF n
    <2>6. Len(working) + 1 \in 1..Len(working')
      BY <2>4 DEF Open
    <2>7. QED
      BY <2>1, <2>2, <2>4, <2>5, <2>6 DEF CallsInv, n
  <1>5. CASE StreamEnds
    <2>1. CASE \E cs \in Called : TakeCalls(cs)
      BY <1>4, <1>5, <2>1 DEF StreamEnds
    <2>2. CASE /\ UNCHANGED working
               /\ chatTurn' = [chatTurn EXCEPT !.pc = "answered", !.reply = chatTurn.text] \/ Ask("again")
      <3>0. chatTurn.pc = "stream"
        BY <1>5 DEF StreamEnds
      <3>1. chatTurn.pc # "calls" /\ chatTurn'.pc # "calls" /\ chatTurn'.calls = chatTurn.calls
        BY <1>0, <2>2, <3>0 DEF Ask, TurnRow
      <3>2. QED
        BY <2>2, <3>1, CallsRest
    <2>3. QED
      BY <1>5, <2>1, <2>2 DEF StreamEnds
  <1>6. CASE CompleteOnce
    <2>1. CASE \E cs \in Called : TakeCalls(cs)
      BY <1>4, <1>6, <2>1 DEF CompleteOnce
    <2>2. CASE /\ UNCHANGED working
               /\ \/ TurnAt("failed")
                  \/ chatTurn' = [chatTurn EXCEPT !.pc = "answered",
                                                  !.reply = [by |-> chatTurn.asked, words |-> 1, any |-> TRUE]]
      <3>1. chatTurn.pc # "calls" /\ chatTurn'.pc # "calls" /\ chatTurn'.calls = chatTurn.calls
        BY <1>0, <1>6, <2>2 DEF CompleteOnce, TurnAt, TurnRow
      <3>2. QED
        BY <2>2, <3>1, CallsRest
    <2>3. QED
      BY <1>6, <2>1, <2>2 DEF CompleteOnce
  <1>7. CASE AnswerCall
    <2>1. chatTurn.pc = "calls" /\ chatTurn.calls \in Seq(Tools)
      BY <1>7 DEF AnswerCall, CallsInv
    <2>2. PICK h \in 1..Len(working) : Open(working, h, Len(chatTurn.calls))
      BY <2>1 DEF CallsInv
    <2> DEFINE n == Len(chatTurn.calls)
               i == Len(working) - h + 1
               t == chatTurn.calls[i]
               m == ResultMessage(i, t, ~Refused(t))
    <2>3. n \in Nat /\ i \in 1..n
      BY <1>0, <2>1, <2>2 DEF Open
    <2>4. t \in Tools
      BY <2>1, <2>3
    <2>5. i = Cardinality({k \in DOMAIN working : \A j \in k..Len(working) : working[j].role = "tool"}) + 1
      BY <1>0, <2>2, <2>3, ResultsSoFar
    <2>6. /\ working' = Append(working, m)
          /\ chatTurn' = IF i < n THEN chatTurn ELSE [chatTurn EXCEPT !.pc = "round", !.round = @ + 1, !.calls = <<>>]
      BY <1>7, <2>5 DEF AnswerCall
    <2>7. m \in Message /\ m.role = "tool" /\ m.i = i /\ m.tool = t /\ m.ran = ~Refused(t)
      BY <2>3, <2>4 DEF ResultMessage, Message
    <2> HIDE DEF m
    <2>8. working' \in Seq(Message) /\ Len(working') = Len(working) + 1
      BY <1>0, <2>6, <2>7
    <2>9. IF i < n THEN Open(working', h, n) ELSE AnsweredUpTo(working', Len(working) + 2)
      BY <1>0, <2>2, <2>3, <2>6, <2>7, ResultGoesTo
    <2>10. \A u \in {"fetch", "browse"} : Cardinality(RanOf(working', u)) <= Limit(u)'
      <3> TAKE u \in {"fetch", "browse"}
      <3>1. Limit(u)' = Limit(u) /\ Limit(u) \in Nat /\ u \in Tools /\ u # "other"
        BY <1>0 DEF Limit, Tools
      <3>2. m.tool = u /\ m.ran => Cardinality(ResultsOf(working, u)) + 1 <= Limit(u)
        <4>1. Count(u) = Cardinality(ResultsOf(working, u))
          <5>1. DOMAIN working = 1..Len(working)
            BY <1>0
          <5>2. QED
            BY <5>1 DEF Count, ResultsOf
        <4>2. IsFiniteSet(ResultsOf(working, u))
          <5>1. IsFiniteSet(1..Len(working))
            BY <1>0, FS_Interval
          <5>2. QED
            BY <5>1, FS_Subset DEF ResultsOf
        <4>3. Cardinality(ResultsOf(working, u)) \in Nat
          BY <4>2, FS_CardinalityType
        <4>4. ASSUME m.tool = u, m.ran PROVE ~(Count(u) + 1 > Limit(u))
          <5>1. ~Refused(u)
            BY <2>7, <4>4
          <5>2. QED
            BY <3>1, <5>1 DEF Refused
        <4>5. QED
          BY <3>1, <4>1, <4>3, <4>4
      <3>3. Cardinality(RanOf(working, u)) <= Limit(u)
        BY DEF CallsInv
      <3>4. QED
        BY <1>0, <2>6, <2>7, <3>1, <3>2, <3>3, WithinLimit
    <2>11. CASE i < n
      <3>1. chatTurn' = chatTurn /\ h \in 1..Len(working')
        BY <1>0, <2>6, <2>8, <2>11
      <3>2. Open(working', h, n)
        BY <2>9, <2>11
      <3> HIDE DEF i, t
      <3>3. QED
        BY <2>1, <2>8, <2>10, <3>1, <3>2 DEF CallsInv
    <2>12. CASE i >= n
      <3>1. ~(i < n)
        BY <2>3, <2>12
      <3>2. chatTurn'.pc = "round" /\ chatTurn'.calls = <<>>
        BY <1>0, <2>6, <3>1 DEF TurnRow
      <3>3. AnsweredUpTo(working', Len(working') + 1)
        <4>1. Len(working') + 1 = Len(working) + 2
          BY <1>0, <2>8
        <4>2. QED
          BY <2>9, <3>1, <4>1
      <3>4. QED
        BY <2>8, <2>10, <3>2, <3>3 DEF CallsInv
    <2>13. QED
      BY <2>3, <2>11, <2>12
  <1>8. QED
    BY <1>1, <1>2, <1>3, <1>5, <1>6, <1>7 DEF TurnNext

LEMMA CallsHold == CallsInv => CallsAreAnswered
  <1> SUFFICES ASSUME CallsInv, chatTurn.pc \in Asking
               PROVE  /\ \A p \in DOMAIN working :
                           IF working[p].role = "assistant"
                           THEN /\ p + working[p].n <= Len(working)
                                /\ \A i \in 1..working[p].n : working[p + i].role = "tool" /\ working[p + i].i = i
                                /\ p + working[p].n = Len(working) \/ working[p + working[p].n + 1].role = "assistant"
                           ELSE p > 1
                      /\ \A t \in {"fetch", "browse"} :
                           Cardinality({k \in DOMAIN working : working[k].role = "tool" /\ working[k].tool = t /\ working[k].ran}) <= Limit(t)
    BY DEF CallsAreAnswered
  <1>1. working \in Seq(Message) /\ AnsweredUpTo(working, Len(working) + 1) /\ DOMAIN working = 1..Len(working) /\ Len(working) \in Nat
    BY DEF CallsInv, Asking
  <1>2. ASSUME NEW p \in DOMAIN working
        PROVE  IF working[p].role = "assistant"
               THEN /\ p + working[p].n <= Len(working)
                    /\ \A i \in 1..working[p].n : working[p + i].role = "tool" /\ working[p + i].i = i
                    /\ p + working[p].n = Len(working) \/ working[p + working[p].n + 1].role = "assistant"
               ELSE p > 1
    <2>1. AnsweredAt(working, p, Len(working) + 1) /\ p \in Nat
      BY <1>1, <1>2 DEF AnsweredUpTo
    <2>2. working[p].role = "assistant" => working[p].n \in Nat
      BY <1>1, <1>2 DEF Message
    <2>3. QED
      BY <1>1, <2>1, <2>2 DEF AnsweredAt
  <1>3. \A t \in {"fetch", "browse"} :
          {k \in DOMAIN working : working[k].role = "tool" /\ working[k].tool = t /\ working[k].ran} = RanOf(working, t)
    BY <1>1 DEF RanOf
  <1>4. QED
    BY <1>2, <1>3 DEF CallsInv

\* RunToolLoop and the handler around it: the stored reply is what a client that
\* stayed saw last, the model had every attachment, and it is never asked with
\* a call of its own unanswered or answered twice; for any number of
\* attachments, rounds, calls and chunks, and any limits.
THEOREM TurnEndsAsShown == TurnSpec => []AnswerStands
  <1>1. TurnSpec => []ShownInv
    BY ShownStarts, ShownSteps, PTL DEF TurnSpec
  <1>2. TurnInit /\ ShownInv => CallsInv
    BY CallsStart
  <1>3. TurnSpec => []CallsInv
    BY <1>1, <1>2, CallsSteps, PTL DEF TurnSpec
  <1>4. QED
    BY <1>1, <1>3, ShownHolds, CallsHold, PTL DEF AnswerStands

-----------------------------------------------------------------------------
(* Conversations.  An index that is not torn and not about to be cut holds    *)
(* what the client shows there, or the goroutine that saves it is under way *)
(* to the one row of the session; and no other goroutine is.                *)

ConvRow == [text : BOOLEAN, title : DOMAIN Ranks, turns : [Indices -> Turns \cup {NoTurn}], ended : BOOLEAN, gone : BOOLEAN]
SaverRow == [pc : {"idle", "find", "insert", "save", "title", "llm", "over"}, conv : Nat, index : Nat]

ChatTypeOK ==
  /\ convs \in Seq(ConvRow) /\ saver \in [Turns -> SaverRow]
  /\ shown \in Seq(Turns) /\ edit \in [pc : {"idle", "find", "delete"}, from : Nat, conv : Nat]
  /\ torn \in SUBSET Nat /\ split \in BOOLEAN
  /\ edit.pc = "delete" => edit.conv \in Made

\* What the row of the session has at an index, if there is a row.
RowHas(i, t) == IF OfSession = {} THEN t = NoTurn ELSE \A c \in OfSession : convs[c].turns[i] = t

Promised(i) == i \in Indices /\ i \notin torn /\ (edit.pc = "idle" \/ i < edit.from)

AtIndex(i) ==
  /\ i < Len(shown) => (Unsaved(shown[i + 1]) /\ saver[shown[i + 1]].index = i) \/ RowHas(i, shown[i + 1])
  /\ i >= Len(shown) => RowHas(i, NoTurn)
  /\ \A t \in Turns : Unsaved(t) /\ saver[t].index = i =>
       /\ i < Len(shown) /\ shown[i + 1] = t
       /\ saver[t].pc = "save" => saver[t].conv \in OfSession

ShownAreBegun ==
  /\ \A k \in 1..Len(shown) : saver[shown[k]].pc # "idle"
  /\ edit.pc # "idle" => Len(shown) = edit.from

StoredAsShown ==
  ~split => /\ \A c, d \in OfSession : c = d
            /\ edit.pc = "delete" => edit.conv \in OfSession \/ ~Live(edit.conv)
            /\ \A i \in Nat : Promised(i) => AtIndex(i)

ChatInv == ChatTypeOK /\ ShownAreBegun /\ StoredAsShown

-----------------------------------------------------------------------------
LEMMA ChatStarts == ChatInit => ChatInv
  <1> SUFFICES ASSUME ChatInit PROVE ChatInv
    OBVIOUS
  <1>1. /\ convs = <<>> /\ shown = <<>> /\ OfSession = {} /\ edit.pc = "idle" /\ torn = {}
        /\ \A t \in Turns : saver[t].pc = "idle"
    BY DEF ChatInit, OfSession, Made, IdleSaver
  <1>2. ChatTypeOK
    <2>1. IdleSaver \in SaverRow
      BY DEF IdleSaver, SaverRow
    <2>2. convs \in Seq(ConvRow) /\ saver \in [Turns -> SaverRow] /\ shown \in Seq(Turns)
      BY <1>1, <2>1 DEF ChatInit
    <2>3. edit \in [pc : {"idle", "find", "delete"}, from : Nat, conv : Nat] /\ edit.pc # "delete" /\ torn = {} /\ split = FALSE
      BY DEF ChatInit
    <2>4. QED
      BY <2>2, <2>3 DEF ChatTypeOK
  <1>3. \A i \in Nat : AtIndex(i)
    BY <1>1 DEF AtIndex, RowHas, Unsaved
  <1>4. QED
    BY <1>1, <1>2, <1>3 DEF ChatInv, ShownAreBegun, StoredAsShown

\* The state, piece by piece.
LEMMA ChatTypes ==
  ASSUME ChatTypeOK
  PROVE  /\ Len(convs) \in Nat /\ Made = 1..Len(convs) /\ \A c \in Made : convs[c] \in ConvRow
         /\ Len(shown) \in Nat /\ \A k \in 1..Len(shown) : shown[k] \in Turns
         /\ \A t \in Turns : saver[t] \in SaverRow
         /\ edit.from \in Nat /\ edit.conv \in Nat /\ edit.pc \in {"idle", "find", "delete"}
         /\ OfSession \in SUBSET Made /\ \A c \in OfSession : Live(c)
         /\ Indices \in SUBSET Nat
  BY ConversationsAssumption DEF ChatTypeOK, Made, OfSession, Live, Indices

LEMMA SaverMoves ==
  ASSUME ChatTypeOK, NEW t \in Turns, NEW new \in SaverRow, saver' = [saver EXCEPT ![t] = new]
  PROVE  saver' \in [Turns -> SaverRow] /\ \A u \in Turns : saver'[u] = IF u = t THEN new ELSE saver[u]
  BY DEF ChatTypeOK

LEMMA GoesTo ==
  ASSUME ChatTypeOK, NEW t \in Turns, NEW pc \in {"find", "insert", "save", "title", "llm", "over"}, SaverTo(t, pc)
  PROVE  /\ saver' \in [Turns -> SaverRow]
         /\ saver'[t].pc = pc /\ saver'[t].conv = saver[t].conv /\ saver'[t].index = saver[t].index
         /\ \A u \in Turns : u # t => saver'[u] = saver[u]
  <1> DEFINE new == [saver[t] EXCEPT !.pc = pc]
  <1>1. new \in SaverRow /\ new.pc = pc /\ new.conv = saver[t].conv /\ new.index = saver[t].index
    BY DEF ChatTypeOK, SaverRow
  <1>2. saver' = [saver EXCEPT ![t] = new]
    BY DEF SaverTo
  <1> HIDE DEF new
  <1>3. QED
    BY <1>1, <1>2, SaverMoves

LEMMA RowChanges ==
  ASSUME ChatTypeOK, NEW c \in Made, NEW new \in ConvRow, convs' = [convs EXCEPT ![c] = new]
  PROVE  convs' \in Seq(ConvRow) /\ Made' = Made /\ \A d \in Made : convs'[d] = IF d = c THEN new ELSE convs[d]
  BY ChatTypes, ExceptSeq DEF ChatTypeOK, Made

\* A row keeps its turns, and it is still the row of the session.
LEMMA SameTurns ==
  ASSUME Made' = Made,
         \A c \in Made : /\ convs'[c].text = convs[c].text /\ convs'[c].gone = convs[c].gone
                         /\ convs'[c].turns = convs[c].turns
  PROVE  /\ OfSession' = OfSession
         /\ \A i \in Nat : \A v \in Turns \cup {NoTurn} : RowHas(i, v)' <=> RowHas(i, v)
         /\ \A c : Live(c)' <=> Live(c)
  <1>1. OfSession' = OfSession /\ \A c : Live(c)' <=> Live(c)
    BY DEF OfSession, Live
  <1>2. OfSession \subseteq Made
    BY DEF OfSession
  <1>3. QED
    BY <1>1, <1>2 DEF RowHas

LEMMA TitleKeepsTurns ==
  ASSUME ChatTypeOK, NEW c, NEW from, NEW title \in DOMAIN Ranks, Titled(c, from, title)
  PROVE  /\ convs' \in Seq(ConvRow) /\ Made' = Made
         /\ \A d \in Made : /\ convs'[d].text = convs[d].text /\ convs'[d].gone = convs[d].gone
                            /\ convs'[d].turns = convs[d].turns
  <1>1. CASE Live(c) /\ convs' = [convs EXCEPT ![c].title = title]
    <2> DEFINE new == [convs[c] EXCEPT !.title = title]
    <2>1. c \in Made /\ convs[c] \in ConvRow
      BY <1>1, ChatTypes DEF Live
    <2>2. new \in ConvRow /\ new.text = convs[c].text /\ new.gone = convs[c].gone /\ new.turns = convs[c].turns
      BY <2>1 DEF ConvRow
    <2>3. convs' = [convs EXCEPT ![c] = new]
      BY <1>1
    <2> HIDE DEF new
    <2>4. convs' \in Seq(ConvRow) /\ Made' = Made /\ \A d \in Made : convs'[d] = IF d = c THEN new ELSE convs[d]
      BY <2>1, <2>2, <2>3, RowChanges
    <2>5. QED
      BY <2>2, <2>4
  <1>2. CASE UNCHANGED convs
    BY <1>2 DEF ChatTypeOK, Made
  <1>3. QED
    BY <1>1, <1>2 DEF Titled

\* Steps that leave the turns and the screen alone: a goroutine moves on, or
\* gives an index up.
LEMMA TurnsStay ==
  ASSUME ChatInv, ChatTypeOK', Made' = Made,
         \A c \in Made : /\ convs'[c].text = convs[c].text /\ convs'[c].gone = convs[c].gone
                         /\ convs'[c].turns = convs[c].turns,
         UNCHANGED <<shown, edit, split>>, torn \subseteq torn',
         \A t \in Turns :
           /\ saver[t].pc # "idle" => saver'[t].pc # "idle"
           /\ Unsaved(t)' => /\ Unsaved(t) /\ saver'[t].index = saver[t].index
                             /\ saver'[t].pc = "save" => saver'[t].conv \in OfSession \/ saver'[t] = saver[t]
           /\ Unsaved(t) => Unsaved(t)' \/ split \/ \A i \in Nat : i = saver[t].index => ~Promised(i)'
  PROVE  ChatInv'
  <1>1. ChatTypeOK /\ ShownAreBegun /\ StoredAsShown
    BY DEF ChatInv
  <1>2. /\ OfSession' = OfSession /\ \A c : Live(c)' <=> Live(c)
        /\ \A i \in Nat : \A v \in Turns \cup {NoTurn} : RowHas(i, v)' <=> RowHas(i, v)
    BY SameTurns
  <1>3. ShownAreBegun'
    BY <1>1, ChatTypes DEF ShownAreBegun
  <1>4. ASSUME ~split, NEW i \in Nat, Promised(i)' PROVE AtIndex(i)'
    <2>1. Promised(i)
      BY <1>4 DEF Promised
    <2>2. AtIndex(i)
      BY <1>1, <1>4, <2>1 DEF StoredAsShown
    <2>3. i < Len(shown) => shown[i + 1] \in Turns
      BY <1>1, ChatTypes
    <2>4. ASSUME i < Len(shown)
          PROVE  (Unsaved(shown[i + 1])' /\ saver'[shown[i + 1]].index = i) \/ RowHas(i, shown[i + 1])'
      <3>1. CASE Unsaved(shown[i + 1]) /\ saver[shown[i + 1]].index = i
        <4> PICK t \in Turns : t = shown[i + 1]
          BY <2>3, <2>4
        <4>1. Unsaved(t)' /\ saver'[t].index = i
          BY <1>4, <3>1
        <4>2. QED
          BY <4>1
      <3>2. CASE RowHas(i, shown[i + 1])
        BY <1>2, <2>3, <2>4, <3>2
      <3>3. QED
        BY <2>2, <2>4, <3>1, <3>2 DEF AtIndex
    <2>5. i >= Len(shown) => RowHas(i, NoTurn)'
      BY <1>2, <2>2 DEF AtIndex
    <2>6. ASSUME NEW t \in Turns, Unsaved(t)', saver'[t].index = i
          PROVE  /\ i < Len(shown) /\ shown[i + 1] = t
                 /\ saver'[t].pc = "save" => saver'[t].conv \in OfSession
      BY <2>2, <2>6 DEF AtIndex
    <2>7. QED
      BY <1>2, <2>4, <2>5, <2>6 DEF AtIndex
  <1>5. QED
    BY <1>1, <1>2, <1>3, <1>4 DEF ChatInv, StoredAsShown

-----------------------------------------------------------------------------
(* The goroutines that save *)

LEMMA FindKeeps ==
  ASSUME ChatInv, NEW t \in Turns, Find(t)
  PROVE  ChatInv'
  <1>1. /\ ChatTypeOK /\ saver[t].pc = "find" /\ UNCHANGED <<convs, shown, edit, torn, split>>
    BY DEF ChatInv, Find
  <1>2. Made' = Made /\ Made = 1..Len(convs) /\ Len(convs) \in Nat /\ OfSession \subseteq Made
    BY <1>1, ChatTypes DEF Made
  <1>3. /\ saver' \in [Turns -> SaverRow] /\ saver'[t].index = saver[t].index
        /\ saver'[t].pc = "insert" \/ (saver'[t].pc = "save" /\ saver'[t].conv \in OfSession)
        /\ \A u \in Turns : u # t => saver'[u] = saver[u]
    <2>1. CASE SaverTo(t, "insert")
      BY <1>1, <2>1, GoesTo
    <2>2. ASSUME NEW c \in OfSession, saver' = [saver EXCEPT ![t] = [@ EXCEPT !.pc = "save", !.conv = c]]
          PROVE  /\ saver' \in [Turns -> SaverRow] /\ saver'[t].index = saver[t].index
                 /\ saver'[t].pc = "save" /\ saver'[t].conv \in OfSession
                 /\ \A u \in Turns : u # t => saver'[u] = saver[u]
      <3> DEFINE new == [saver[t] EXCEPT !.pc = "save", !.conv = c]
      <3>1. saver[t] \in SaverRow /\ c \in Nat
        BY <1>1, <1>2, <2>2, ChatTypes
      <3>2. new \in SaverRow /\ new.pc = "save" /\ new.conv = c /\ new.index = saver[t].index
        BY <3>1 DEF SaverRow
      <3>3. saver' = [saver EXCEPT ![t] = new]
        BY <2>2
      <3> HIDE DEF new
      <3>4. QED
        BY <1>1, <3>2, <3>3, SaverMoves
    <2>3. QED
      BY <2>1, <2>2 DEF Find
  <1>4. ChatTypeOK'
    BY <1>1, <1>2, <1>3 DEF ChatTypeOK
  <1>5. QED
    BY <1>1, <1>2, <1>3, <1>4, TurnsStay DEF Unsaved

LEMMA InsertKeeps ==
  ASSUME ChatInv, NEW t \in Turns, Insert(t)
  PROVE  ChatInv'
  <1> DEFINE n == Len(convs) + 1
             new == [saver[t] EXCEPT !.pc = "save", !.conv = n]
  <1>1. /\ ChatTypeOK /\ ShownAreBegun /\ StoredAsShown /\ saver[t].pc = "insert" /\ UNCHANGED <<shown, edit, torn>>
        /\ convs' = Append(convs, Row(TRUE)) /\ split' = (split \/ OfSession # {})
        /\ saver' = [saver EXCEPT ![t] = new]
    BY DEF ChatInv, Insert
  <1>2. /\ saver[t] \in SaverRow /\ n \in Nat /\ Made = 1..Len(convs) /\ Len(convs) \in Nat /\ OfSession \subseteq Made
        /\ Indices \subseteq Nat
    BY <1>1, ChatTypes
  <1>3. Row(TRUE) \in ConvRow /\ Row(TRUE).text /\ ~Row(TRUE).gone /\ \A i \in Indices : Row(TRUE).turns[i] = NoTurn
    BY DEF Row, ConvRow, Ranks
  <1>4. new \in SaverRow /\ new.pc = "save" /\ new.conv = n /\ new.index = saver[t].index
    BY <1>2 DEF SaverRow
  <1> HIDE DEF new
  <1>5. saver' \in [Turns -> SaverRow] /\ saver'[t] = new /\ \A u \in Turns : u # t => saver'[u] = saver[u]
    BY <1>1, <1>4, SaverMoves
  <1>6. /\ convs' \in Seq(ConvRow) /\ Made' = 1..n /\ convs'[n] = Row(TRUE) /\ \A c \in Made : convs'[c] = convs[c]
    <2>1. convs \in Seq(ConvRow)
      BY <1>1 DEF ChatTypeOK
    <2>2. /\ convs' \in Seq(ConvRow) /\ Len(convs') = Len(convs) + 1 /\ convs'[n] = Row(TRUE)
          /\ \A c \in 1..Len(convs) : convs'[c] = convs[c]
      <3>1. /\ Append(convs, Row(TRUE)) \in Seq(ConvRow) /\ Len(Append(convs, Row(TRUE))) = Len(convs) + 1
            /\ Append(convs, Row(TRUE))[Len(convs) + 1] = Row(TRUE)
            /\ \A c \in 1..Len(convs) : Append(convs, Row(TRUE))[c] = convs[c]
        <4> DEFINE row == Row(TRUE)
        <4>1. row \in ConvRow
          BY <1>3
        <4> HIDE DEF row
        <4>2. /\ Append(convs, row) \in Seq(ConvRow) /\ Len(Append(convs, row)) = Len(convs) + 1
              /\ Append(convs, row)[Len(convs) + 1] = row
              /\ \A c \in 1..Len(convs) : Append(convs, row)[c] = convs[c]
          BY <2>1, <4>1, AppendProperties
        <4>3. QED
          BY <4>2 DEF row
      <3>2. QED
        BY <1>1, <3>1
    <2>3. Made' = 1..Len(convs')
      BY <2>2 DEF Made
    <2>4. QED
      BY <1>2, <2>2, <2>3
  <1> HIDE DEF n
  <1>n. n = Len(convs) + 1 /\ n \notin Made
    BY <1>2 DEF n
  <1>7. ChatTypeOK'
    <2>1. \A c \in Made : c \in Made'
      BY <1>2, <1>6, <1>n
    <2>2. split' \in BOOLEAN
      BY <1>1 DEF ChatTypeOK
    <2>3. QED
      BY <1>1, <1>5, <1>6, <2>1, <2>2 DEF ChatTypeOK
  <1>8. ShownAreBegun'
    BY <1>1, <1>4, <1>5, ChatTypes DEF ShownAreBegun
  <1>9. ASSUME ~split'
        PROVE  /\ \A c, d \in OfSession' : c = d
               /\ edit.pc = "delete" => edit.conv \in OfSession' \/ ~Live(edit.conv)'
               /\ \A i \in Nat : Promised(i)' => AtIndex(i)'
    <2>1. ~split /\ OfSession = {}
      BY <1>1, <1>9 DEF ChatTypeOK
    <2>2. OfSession' = {n}
      <3>1. \A c \in Made : ~(convs'[c].text /\ ~convs'[c].gone)
        BY <1>6, <2>1 DEF OfSession
      <3>2. n \in Made' /\ \A c \in Made' : c \in Made \/ c = n
        BY <1>2, <1>6, <1>n
      <3>3. QED
        BY <1>3, <1>6, <3>1, <3>2 DEF OfSession
    <2>3. edit.pc = "delete" => ~Live(edit.conv)'
      <3>1. edit.pc = "delete" => edit.conv \in Made /\ ~Live(edit.conv)
        BY <1>1, <2>1 DEF ChatTypeOK, StoredAsShown
      <3>2. QED
        BY <1>1, <1>6, <3>1 DEF Live
    <2>4. ASSUME NEW i \in Nat, Promised(i)' PROVE AtIndex(i)'
      <3>1. Promised(i) /\ i \in Indices
        BY <1>1, <2>4 DEF Promised, Indices
      <3>2. AtIndex(i)
        BY <1>1, <2>1, <3>1 DEF StoredAsShown
      <3>3. \A v : RowHas(i, v)' <=> v = NoTurn
        BY <1>3, <1>6, <2>2, <3>1 DEF RowHas
      <3>4. \A v : RowHas(i, v) <=> v = NoTurn
        BY <2>1 DEF RowHas
      <3>5. \A u \in Turns : Unsaved(u) <=> Unsaved(u)'
        BY <1>1, <1>4, <1>5 DEF Unsaved
      <3>6. \A u \in Turns : saver'[u].index = saver[u].index
        BY <1>4, <1>5
      <3>7. i < Len(shown) => shown[i + 1] \in Turns
        BY <1>1, ChatTypes
      <3>8. \A u \in Turns : Unsaved(u)' /\ saver'[u].index = i =>
              i < Len(shown) /\ shown[i + 1] = u /\ (saver'[u].pc = "save" => saver'[u].conv \in OfSession')
        BY <1>4, <1>5, <2>1, <2>2, <3>2, <3>5, <3>6 DEF AtIndex
      <3>9. QED
        BY <1>1, <3>2, <3>3, <3>4, <3>5, <3>6, <3>7, <3>8 DEF AtIndex
    <2>5. QED
      BY <2>2, <2>3, <2>4
  <1>10. QED
    BY <1>1, <1>7, <1>8, <1>9 DEF ChatInv, StoredAsShown

LEMMA SaveKeeps ==
  ASSUME ChatInv, NEW t \in Turns, Save(t)
  PROVE  ChatInv'
  <1>1. /\ ChatTypeOK /\ ShownAreBegun /\ StoredAsShown /\ saver[t].pc = "save" /\ UNCHANGED <<shown, edit, torn, split>>
    BY DEF ChatInv, Save
  <1>2. CASE Live(saver[t].conv)
    <2> DEFINE c == saver[t].conv
               i0 == saver[t].index
               new == Upserted(convs[c], i0, t)
    <2>1. SaverTo(t, "title") /\ convs' = [convs EXCEPT ![c] = new]
      BY <1>2 DEF Save
    <2>2. c \in Made /\ convs[c] \in ConvRow /\ i0 \in Nat
      BY <1>1, <1>2, ChatTypes DEF Live, SaverRow
    <2>3. /\ new \in ConvRow /\ new.text = convs[c].text /\ new.gone = convs[c].gone
          /\ \A i \in Indices : new.turns[i] = IF i = i0 THEN t ELSE convs[c].turns[i]
      <3> DEFINE turns == [convs[c].turns EXCEPT ![i0] = t]
      <3>1. /\ turns \in [Indices -> Turns \cup {NoTurn}]
            /\ \A i \in Indices : turns[i] = IF i = i0 THEN t ELSE convs[c].turns[i]
        BY <2>2 DEF ConvRow
      <3>2. new = [convs[c] EXCEPT !.turns = turns]
        BY DEF Upserted
      <3> HIDE DEF turns, new
      <3>3. QED
        BY <2>2, <3>1, <3>2 DEF ConvRow
    <2> HIDE DEF new, c, i0
    <2>4. /\ saver' \in [Turns -> SaverRow] /\ saver'[t].pc = "title" /\ saver'[t].index = saver[t].index
          /\ \A u \in Turns : u # t => saver'[u] = saver[u]
      BY <1>1, <2>1, GoesTo
    <2>5. convs' \in Seq(ConvRow) /\ Made' = Made /\ \A d \in Made : convs'[d] = IF d = c THEN new ELSE convs[d]
      BY <1>1, <2>1, <2>2, <2>3, RowChanges
    <2>6. ChatTypeOK'
      BY <1>1, <2>4, <2>5 DEF ChatTypeOK
    <2>7. ShownAreBegun'
      BY <1>1, <2>4, ChatTypes DEF ShownAreBegun
    <2>8. OfSession' = OfSession /\ \A d : Live(d)' <=> Live(d)
      BY <2>2, <2>3, <2>5 DEF OfSession, Live
    <2>9. ASSUME ~split, NEW i \in Nat, Promised(i)' PROVE AtIndex(i)'
      <3>1. Promised(i) /\ AtIndex(i) /\ i \in Indices
        BY <1>1, <2>9 DEF Promised, StoredAsShown, Indices
      <3>2. OfSession \subseteq Made /\ \A d, e \in OfSession : d = e
        BY <1>1, <2>9, ChatTypes DEF StoredAsShown
      <3>3. i < Len(shown) => shown[i + 1] \in Turns
        <4>1. i \in Nat /\ Len(shown) \in Nat /\ \A k \in 1..Len(shown) : shown[k] \in Turns
          BY <1>1, ChatTypes
        <4>2. i < Len(shown) => i + 1 \in 1..Len(shown)
          BY <4>1
        <4>3. QED
          BY <4>1, <4>2
      <3>4. \A u \in Turns : Unsaved(u)' <=> Unsaved(u) /\ u # t
        BY <1>1, <2>4 DEF Unsaved
      <3>5. CASE i = i0
        <4>1. i < Len(shown) /\ shown[i + 1] = t /\ c \in OfSession
          BY <1>1, <3>1, <3>5 DEF AtIndex, Unsaved, i0, c
        <4>2. RowHas(i, t)'
          BY <2>3, <2>5, <2>8, <3>1, <3>2, <3>5, <4>1 DEF RowHas
        <4>3. \A u \in Turns : Unsaved(u)' /\ saver'[u].index = i => FALSE
          BY <2>4, <3>1, <3>4, <4>1 DEF AtIndex
        <4>4. QED
          BY <1>1, <4>1, <4>2, <4>3, ChatTypes DEF AtIndex
      <3>6. CASE i # i0
        <4>1. \A v : RowHas(i, v)' <=> RowHas(i, v)
          BY <2>3, <2>5, <2>8, <3>1, <3>2, <3>6 DEF RowHas
        <4>2. \A u \in Turns : saver'[u].index = i => u # t /\ saver'[u] = saver[u]
          BY <2>4, <3>6 DEF i0
        <4>3. \A u \in Turns : saver[u].index = i => u # t
          BY <3>6 DEF i0
        <4>4. i < Len(shown) => (Unsaved(shown[i + 1])' /\ saver'[shown[i + 1]].index = i) \/ RowHas(i, shown[i + 1])'
          <5>1. ASSUME i < Len(shown), Unsaved(shown[i + 1]), saver[shown[i + 1]].index = i
                PROVE  Unsaved(shown[i + 1])' /\ saver'[shown[i + 1]].index = i
            <6> PICK u \in Turns : u = shown[i + 1]
              BY <3>3, <5>1
            <6>1. u # t /\ saver'[u] = saver[u]
              BY <2>4, <4>3, <5>1
            <6>2. Unsaved(u)'
              BY <3>4, <5>1, <6>1
            <6>3. QED
              BY <1>1, <5>1, <6>1, <6>2 DEF Unsaved
          <5>2. i < Len(shown) => (Unsaved(shown[i + 1]) /\ saver[shown[i + 1]].index = i) \/ RowHas(i, shown[i + 1])
            BY <3>1 DEF AtIndex
          <5>3. QED
            BY <1>1, <4>1, <5>1, <5>2
        <4>5. QED
          BY <1>1, <2>8, <3>1, <3>4, <4>1, <4>2, <4>4 DEF AtIndex
      <3>7. QED
        BY <3>5, <3>6
    <2>10. QED
      BY <1>1, <2>6, <2>7, <2>8, <2>9 DEF ChatInv, StoredAsShown
  <1>3. CASE ~Live(saver[t].conv)
    <2>1. SaverTo(t, "over") /\ UNCHANGED convs
      BY <1>3 DEF Save
    <2>2. /\ saver' \in [Turns -> SaverRow] /\ saver'[t].pc = "over"
          /\ \A u \in Turns : u # t => saver'[u] = saver[u]
      BY <1>1, <2>1, GoesTo
    <2>3. ChatTypeOK' /\ Made' = Made
      BY <1>1, <2>1, <2>2 DEF ChatTypeOK, Made
    <2>4. ASSUME ~split, NEW i \in Nat, i = saver[t].index, Promised(i)' PROVE FALSE
      <3>1. Promised(i)
        BY <1>1, <2>4 DEF Promised, Indices
      <3>2. AtIndex(i)
        BY <1>1, <2>4, <3>1 DEF StoredAsShown
      <3>3. QED
        BY <1>1, <1>3, <2>4, <3>2, ChatTypes DEF AtIndex, Unsaved
    <2>5. QED
      BY <1>1, <2>1, <2>2, <2>3, <2>4, TurnsStay DEF Unsaved
  <1>4. QED
    BY <1>2, <1>3

\* Titles, and saves that fail.
LEMMA TitlesKeep ==
  ASSUME ChatInv, NEW t \in Turns,
         SetTitleIfEmpty(t) \/ SetLLMTitle(t) \/ SaveFails(t) \/ TitleFails(t)
  PROVE  ChatInv'
  <1>1. ChatTypeOK /\ saver[t] \in SaverRow /\ UNCHANGED <<shown, edit, split>>
    BY ChatTypes DEF ChatInv, SetTitleIfEmpty, SetLLMTitle, SaveFails, TitleFails
  <1>2. CASE SaveFails(t)
    <2>1. SaverTo(t, "over") /\ Unsaved(t) /\ torn' = torn \cup {saver[t].index} /\ UNCHANGED convs
      BY <1>2 DEF SaveFails
    <2>2. /\ saver' \in [Turns -> SaverRow] /\ saver'[t].pc = "over"
          /\ \A u \in Turns : u # t => saver'[u] = saver[u]
      BY <1>1, <2>1, GoesTo
    <2>3. ChatTypeOK' /\ Made' = Made
      BY <1>1, <2>1, <2>2 DEF ChatTypeOK, Made, SaverRow
    <2>4. \A i : i = saver[t].index => ~Promised(i)'
      BY <2>1 DEF Promised
    <2>5. QED
      BY <1>1, <2>1, <2>2, <2>3, <2>4, TurnsStay DEF Unsaved
  <1>3. CASE SetTitleIfEmpty(t) \/ SetLLMTitle(t) \/ TitleFails(t)
    <2>1. PICK pc \in {"llm", "over"} : SaverTo(t, pc)
      BY <1>3 DEF SetTitleIfEmpty, SetLLMTitle, TitleFails
    <2>2. saver[t].pc \in {"title", "llm"} /\ torn' = torn
      BY <1>3 DEF SetTitleIfEmpty, SetLLMTitle, TitleFails
    <2>3. /\ saver' \in [Turns -> SaverRow] /\ saver'[t].pc = pc
          /\ \A u \in Turns : u # t => saver'[u] = saver[u]
      BY <1>1, <2>1, GoesTo
    <2>4. \/ Titled(saver[t].conv, {"empty"}, "auto") \/ Titled(saver[t].conv, LLMTitleFrom, "llm") \/ UNCHANGED convs
      BY <1>3 DEF SetTitleIfEmpty, SetLLMTitle, TitleFails
    <2>5. /\ convs' \in Seq(ConvRow) /\ Made' = Made
          /\ \A d \in Made : /\ convs'[d].text = convs[d].text /\ convs'[d].gone = convs[d].gone
                             /\ convs'[d].turns = convs[d].turns
      <3>1. {"auto", "llm"} \subseteq DOMAIN Ranks
        BY DEF Ranks
      <3>2. CASE UNCHANGED convs
        BY <1>1, <3>2 DEF ChatTypeOK, Made
      <3>3. QED
        BY <1>1, <2>4, <3>1, <3>2, TitleKeepsTurns
    <2>6. ChatTypeOK'
      BY <1>1, <2>2, <2>3, <2>5 DEF ChatTypeOK
    <2>7. QED
      BY <1>1, <2>2, <2>3, <2>5, <2>6, TurnsStay DEF Unsaved
  <1>4. QED
    BY <1>2, <1>3

-----------------------------------------------------------------------------
(* The user, and the death of the process *)

LEMMA PostKeeps ==
  ASSUME ChatInv, NEW t \in Turns, Post(t)
  PROVE  ChatInv'
  <1> DEFINE n == Len(shown)
             new == [pc |-> "find", conv |-> 0, index |-> n]
  <1>1. /\ ChatTypeOK /\ ShownAreBegun /\ StoredAsShown /\ saver[t].pc = "idle" /\ edit.pc = "idle"
        /\ UNCHANGED <<convs, edit, torn, split>>
        /\ saver' = [saver EXCEPT ![t] = new] /\ shown' = Append(shown, t)
    BY DEF ChatInv, Post
  <1>2. n \in Nat /\ new \in SaverRow
    BY <1>1, ChatTypes DEF SaverRow
  <1>3. /\ saver' \in [Turns -> SaverRow] /\ saver'[t] = new /\ \A u \in Turns : u # t => saver'[u] = saver[u]
    BY <1>1, <1>2, SaverMoves
  <1>4. /\ shown' \in Seq(Turns) /\ Len(shown') = n + 1 /\ shown'[n + 1] = t /\ \A k \in 1..n : shown'[k] = shown[k]
    <2>1. shown \in Seq(Turns)
      BY <1>1 DEF ChatTypeOK
    <2>2. QED
      BY <1>1, <2>1, AppendProperties
  <1> HIDE DEF new
  <1>5. new.pc = "find" /\ new.index = n
    BY DEF new
  <1>6. ChatTypeOK'
    BY <1>1, <1>3, <1>4 DEF ChatTypeOK, Made
  <1>7. \A k \in 1..n : shown[k] \in Turns /\ shown[k] # t
    BY <1>1, ChatTypes DEF ShownAreBegun
  <1>8. ShownAreBegun'
    <2>1. ASSUME NEW k \in 1..(n + 1) PROVE saver'[shown'[k]].pc # "idle"
      <3>1. CASE k = n + 1
        BY <1>3, <1>4, <1>5, <3>1
      <3>2. CASE k \in 1..n
        BY <1>1, <1>3, <1>4, <1>7, <3>2 DEF ShownAreBegun
      <3>3. QED
        BY <1>2, <3>1, <3>2
    <2>2. QED
      BY <1>1, <1>4, <2>1 DEF ShownAreBegun
  <1>9. OfSession' = OfSession /\ (\A d : Live(d)' <=> Live(d)) /\ \A i, v : RowHas(i, v)' <=> RowHas(i, v)
    BY <1>1 DEF OfSession, Live, Made, RowHas
  <1>10. ASSUME ~split, NEW i \in Nat, Promised(i)' PROVE AtIndex(i)'
    <2>1. AtIndex(i)
      BY <1>1, <1>10 DEF Promised, StoredAsShown
    <2>2. \A u \in Turns : Unsaved(u)' <=> Unsaved(u) \/ u = t
      BY <1>1, <1>3, <1>5 DEF Unsaved
    <2>3. i < Len(shown') =>
             \E u \in Turns : u = shown'[i + 1] /\ ((Unsaved(u)' /\ saver'[u].index = i) \/ RowHas(i, u)')
      <3>1. CASE i < n
        <4>1. PICK u \in Turns : u = shown[i + 1] /\ u # t
          BY <1>2, <1>7, <3>1
        <4>2. (Unsaved(u) /\ saver[u].index = i) \/ RowHas(i, u)
          BY <2>1, <3>1, <4>1 DEF AtIndex
        <4>3. (Unsaved(u)' /\ saver'[u].index = i) \/ RowHas(i, u)'
          BY <1>3, <1>9, <2>2, <4>1, <4>2
        <4>4. shown'[i + 1] = shown[i + 1]
          BY <1>2, <1>4, <3>1
        <4>5. QED
          BY <4>1, <4>3, <4>4
      <3>2. CASE i = n
        <4>1. Unsaved(t)' /\ saver'[t].index = i
          BY <1>3, <1>5, <2>2, <3>2
        <4>2. QED
          BY <1>4, <3>2, <4>1
      <3>3. QED
        BY <1>2, <1>4, <3>1, <3>2
    <2>5. i >= Len(shown') => RowHas(i, NoTurn)'
      BY <1>2, <1>4, <1>9, <2>1 DEF AtIndex
    <2>6. ASSUME NEW u \in Turns, Unsaved(u)', saver'[u].index = i
          PROVE  /\ i < Len(shown') /\ shown'[i + 1] = u
                 /\ saver'[u].pc = "save" => saver'[u].conv \in OfSession'
      <3>1. CASE u = t
        BY <1>2, <1>3, <1>4, <1>5, <2>6, <3>1
      <3>2. CASE u # t
        <4>1. Unsaved(u) /\ saver[u].index = i /\ saver'[u] = saver[u]
          BY <1>3, <2>2, <2>6, <3>2
        <4>2. i < n /\ shown[i + 1] = u /\ (saver[u].pc = "save" => saver[u].conv \in OfSession)
          BY <2>1, <4>1 DEF AtIndex
        <4>3. QED
          BY <1>2, <1>4, <1>9, <4>1, <4>2
      <3>3. QED
        BY <3>1, <3>2
    <2>7. QED
      BY <2>3, <2>5, <2>6 DEF AtIndex
  <1>11. QED
    BY <1>1, <1>6, <1>8, <1>9, <1>10 DEF ChatInv, StoredAsShown

LEMMA TruncateKeeps ==
  ASSUME ChatInv, NEW n \in Indices, TruncateTurns(n)
  PROVE  ChatInv'
  <1>1. /\ ChatTypeOK /\ ShownAreBegun /\ StoredAsShown /\ edit.pc = "idle" /\ n < Len(shown)
        /\ edit' = [pc |-> "find", from |-> n, conv |-> 0] /\ shown' = SubSeq(shown, 1, n)
        /\ UNCHANGED <<convs, saver, torn, split>>
    BY DEF ChatInv, TruncateTurns
  <1>2. n \in Nat /\ Len(shown) \in Nat /\ \A k \in 1..Len(shown) : shown[k] \in Turns
    BY <1>1, ChatTypes
  <1>3. shown' \in Seq(Turns) /\ Len(shown') = n /\ \A k \in 1..n : shown'[k] = shown[k]
    <2>1. \A k \in 1..n : shown[k] \in Turns
      BY <1>1, <1>2
    <2>2. /\ SubSeq(shown, 1, n) \in Seq(Turns)
          /\ Len(SubSeq(shown, 1, n)) = IF 1 <= n THEN n - 1 + 1 ELSE 0
          /\ \A k \in 1..(n - 1 + 1) : SubSeq(shown, 1, n)[k] = shown[1 + k - 1]
      <3>1. n \in Int /\ 1 \in Int
        BY <1>2
      <3> HIDE <1>2
      <3> QED
        BY <2>1, <3>1, SubSeqProperties
    <2>3. QED
      BY <1>1, <1>2, <2>2
  <1>4. edit' \in [pc : {"idle", "find", "delete"}, from : Nat, conv : Nat] /\ edit'.pc = "find" /\ edit'.from = n
    BY <1>1, <1>2
  <1>5. ChatTypeOK'
    BY <1>1, <1>3, <1>4 DEF ChatTypeOK
  <1>6. ShownAreBegun'
    BY <1>1, <1>2, <1>3, <1>4 DEF ShownAreBegun
  <1>7. OfSession' = OfSession /\ \A i, v : RowHas(i, v)' <=> RowHas(i, v)
    BY <1>1 DEF OfSession, Made, RowHas
  <1>8. ASSUME ~split, NEW i \in Nat, Promised(i)' PROVE AtIndex(i)'
    <2>1. AtIndex(i) /\ i < n
      BY <1>1, <1>4, <1>8 DEF Promised, StoredAsShown, Indices
    <2>2. shown'[i + 1] = shown[i + 1] /\ i < Len(shown)
      BY <1>1, <1>2, <1>3, <2>1
    <2>3. QED
      BY <1>1, <1>2, <1>3, <1>7, <2>1, <2>2 DEF AtIndex, Unsaved
  <1>9. QED
    BY <1>1, <1>4, <1>5, <1>6, <1>7, <1>8 DEF ChatInv, StoredAsShown

\* What an edit cuts has one of three fates: it is torn, or there is no row, or
\* the row has nothing there; and no goroutine is on its way to put any there.
LEMMA CutIsThrough ==
  ASSUME ChatInv, ChatTypeOK', edit.pc # "idle", edit'.pc = "idle",
         UNCHANGED <<saver, shown, split>>, Made' = Made, torn' = Mended,
         \A d \in Made : convs'[d].text = convs[d].text /\ convs'[d].gone = convs[d].gone,
         ~split => \A d \in OfSession, i \in Indices :
           convs'[d].turns[i] = IF edit.pc = "delete" /\ Live(edit.conv) /\ i >= edit.from THEN NoTurn ELSE convs[d].turns[i],
         edit.pc = "find" => OfSession = {}
  PROVE  ChatInv'
  <1>1. ChatTypeOK /\ ShownAreBegun /\ StoredAsShown
    BY DEF ChatInv
  <1>2. /\ Len(shown) = edit.from /\ edit.from \in Nat /\ OfSession \subseteq Made /\ Indices \subseteq Nat
        /\ edit.pc \in {"idle", "find", "delete"}
    BY <1>1, ChatTypes DEF ShownAreBegun
  <1>3. OfSession' = OfSession
    BY DEF OfSession
  <1>4. ASSUME ~split, NEW i \in Nat, Promised(i)' PROVE AtIndex(i)'
    <2>0. i \in Indices /\ i \notin torn'
      BY <1>4 DEF Promised, Indices
    <2>1. CASE i < edit.from
      <3>1. i \notin torn
        BY <1>2, <2>0, <2>1 DEF Mended, Edited
      <3>2. AtIndex(i)
        BY <1>1, <1>4, <2>0, <2>1, <3>1 DEF Promised, StoredAsShown
      <3>3. \A v : RowHas(i, v)' <=> RowHas(i, v)
        BY <1>2, <1>3, <1>4, <2>0, <2>1 DEF RowHas
      <3>4. QED
        BY <1>3, <3>2, <3>3 DEF AtIndex, Unsaved
    <2>2. CASE i >= edit.from
      <3>1. i \in Edited /\ ~(edit.pc = "delete" /\ ~Live(edit.conv)) /\ i \notin Overtaken
        BY <2>0, <2>2 DEF Mended, Edited
      <3>2. RowHas(i, NoTurn)'
        BY <1>2, <1>3, <1>4, <2>0, <2>2, <3>1 DEF RowHas
      <3>3. \A u \in Turns : ~(Unsaved(u) /\ saver[u].index = i)
        BY <2>2, <3>1 DEF Overtaken
      <3>4. QED
        BY <1>2, <2>2, <3>2, <3>3 DEF AtIndex, Unsaved
    <2>3. QED
      BY <1>2, <2>1, <2>2
  <1>5. QED
    BY <1>1, <1>3, <1>4 DEF ChatInv, ShownAreBegun, StoredAsShown

\* There is a newest row among some.
LEMMA NewestIsOne ==
  ASSUME NEW n \in Nat, NEW S \in SUBSET (1..n), S # {}
  PROVE  Newest(S) \in S
  <1> DEFINE T == {k \in Nat : n - k \in S}
  <1>1. T # {}
    <2>1. PICK c \in S : TRUE
      OBVIOUS
    <2>2. c \in 1..n /\ n - c \in Nat /\ n - (n - c) = c
      BY <2>1
    <2>3. QED
      BY <2>1, <2>2
  <1>2. T \subseteq Nat
    OBVIOUS
  <1>3. PICK k \in T : \A l \in T : ~(<<l, k>> \in OpToRel(<, Nat))
    BY <1>1, <1>2, NatLessThanWellFounded, WFMin
  <1>4. \A l \in T : ~(l < k)
    BY <1>2, <1>3 DEF OpToRel
  <1>5. \A d \in S : d <= n - k
    <2> TAKE d \in S
    <2>1. d \in 1..n /\ n - d \in Nat /\ n - (n - d) = d
      OBVIOUS
    <2>2. n - d \in T
      BY <2>1
    <2>3. k \in Nat /\ ~(n - d < k)
      BY <1>4, <2>2
    <2>4. QED
      BY <2>1, <2>3
  <1>6. n - k \in S
    OBVIOUS
  <1>7. QED
    BY <1>5, <1>6 DEF Newest

LEMMA EditKeeps ==
  ASSUME ChatInv, FindTextByClientSession \/ DeleteTurnsFrom
  PROVE  ChatInv'
  <1>0. ChatTypeOK /\ ShownAreBegun /\ StoredAsShown
    BY DEF ChatInv
  <1>t. torn \subseteq Nat /\ Overtaken \subseteq Nat /\ Edited \subseteq Nat
    BY <1>0, ChatTypes DEF ChatTypeOK, Overtaken, Edited, SaverRow
  <1>m. Mended \in SUBSET Nat
    BY <1>t DEF Mended
  <1>1. CASE FindTextByClientSession /\ OfSession = {}
    <2>1. edit.pc = "find" /\ edit' = [edit EXCEPT !.pc = "idle"] /\ torn' = Mended /\ UNCHANGED <<convs, saver, shown, split>>
      BY <1>1 DEF FindTextByClientSession
    <2>2. edit' \in [pc : {"idle", "find", "delete"}, from : Nat, conv : Nat] /\ edit'.pc = "idle"
      BY <1>0, <2>1 DEF ChatTypeOK
    <2>3. ChatTypeOK'
      BY <1>0, <1>m, <2>1, <2>2 DEF ChatTypeOK
    <2>4. QED
      BY <1>1, <2>1, <2>2, <2>3, CutIsThrough DEF Made
  <1>2. CASE FindTextByClientSession /\ OfSession # {}
    <2> DEFINE c == Newest(OfSession)
    <2>1. edit.pc = "find" /\ edit' = [edit EXCEPT !.pc = "delete", !.conv = c] /\ UNCHANGED <<convs, saver, shown, torn, split>>
      BY <1>2 DEF FindTextByClientSession
    <2>2. c \in OfSession /\ c \in Made /\ c \in Nat
      <3>1. Len(convs) \in Nat /\ OfSession \in SUBSET (1..Len(convs))
        BY <1>0, ChatTypes DEF OfSession, Made, ChatTypeOK
      <3>2. c \in OfSession
        BY <1>2, <3>1, NewestIsOne
      <3> HIDE DEF c
      <3>3. QED
        BY <3>1, <3>2 DEF OfSession, Made
    <2> HIDE DEF c
    <2>3. /\ edit' \in [pc : {"idle", "find", "delete"}, from : Nat, conv : Nat]
          /\ edit'.pc = "delete" /\ edit'.conv = c /\ edit'.from = edit.from
      BY <1>0, <2>1, <2>2 DEF ChatTypeOK
    <2>4. ChatTypeOK'
      BY <1>0, <2>1, <2>2, <2>3 DEF ChatTypeOK, Made
    <2>5. OfSession' = OfSession /\ \A i : (Promised(i)' <=> Promised(i)) /\ (AtIndex(i)' <=> AtIndex(i))
      BY <2>1, <2>3 DEF OfSession, Made, Promised, AtIndex, RowHas, Unsaved
    <2>6. QED
      BY <1>0, <2>1, <2>2, <2>3, <2>4, <2>5 DEF ChatInv, ShownAreBegun, StoredAsShown
  <1>3. CASE DeleteTurnsFrom
    <2> DEFINE c == edit.conv
               new == [convs[c] EXCEPT !.turns = Cut(@, edit.from)]
    <2>1. /\ edit.pc = "delete" /\ edit' = [edit EXCEPT !.pc = "idle"] /\ torn' = Mended
          /\ convs' = [convs EXCEPT ![c] = new] /\ UNCHANGED <<saver, shown, split>>
      BY <1>3 DEF DeleteTurnsFrom
    <2>2. c \in Made /\ convs[c] \in ConvRow /\ edit.from \in Nat
      BY <1>0, <2>1, ChatTypes DEF ChatTypeOK
    <2>3. /\ new \in ConvRow /\ new.text = convs[c].text /\ new.gone = convs[c].gone
          /\ \A i \in Indices : new.turns[i] = IF i >= edit.from THEN NoTurn ELSE convs[c].turns[i]
      <3> DEFINE turns == Cut(convs[c].turns, edit.from)
      <3>1. /\ turns \in [Indices -> Turns \cup {NoTurn}]
            /\ \A i \in Indices : turns[i] = IF i >= edit.from THEN NoTurn ELSE convs[c].turns[i]
        BY <2>2 DEF ConvRow, Cut
      <3>2. new = [convs[c] EXCEPT !.turns = turns]
        OBVIOUS
      <3> HIDE DEF turns, new
      <3>3. QED
        BY <2>2, <3>1, <3>2 DEF ConvRow
    <2> HIDE DEF new
    <2>4. convs' \in Seq(ConvRow) /\ Made' = Made /\ \A d \in Made : convs'[d] = IF d = c THEN new ELSE convs[d]
      BY <1>0, <2>1, <2>2, <2>3, RowChanges
    <2>5. edit' \in [pc : {"idle", "find", "delete"}, from : Nat, conv : Nat] /\ edit'.pc = "idle"
      BY <1>0, <2>1 DEF ChatTypeOK
    <2>6. ChatTypeOK'
      BY <1>0, <1>m, <2>1, <2>4, <2>5 DEF ChatTypeOK
    <2>7. ASSUME ~split, NEW d \in OfSession, NEW i \in Indices
          PROVE  convs'[d].turns[i] = IF Live(c) /\ i >= edit.from THEN NoTurn ELSE convs[d].turns[i]
      <3>1. d \in Made /\ Live(d)
        BY <1>0, ChatTypes
      <3>2. CASE Live(c)
        <4>1. c = d
          BY <1>0, <2>1, <2>7, <3>2 DEF StoredAsShown
        <4>2. QED
          BY <2>3, <2>4, <3>1, <3>2, <4>1
      <3>3. CASE ~Live(c)
        BY <2>4, <3>1, <3>3
      <3>4. QED
        BY <3>2, <3>3
    <2>8. \A d \in Made : convs'[d].text = convs[d].text /\ convs'[d].gone = convs[d].gone
      BY <2>3, <2>4
    <2>9. QED
      BY <2>1, <2>4, <2>5, <2>6, <2>7, <2>8, CutIsThrough
  <1>4. QED
    BY <1>1, <1>2, <1>3

LEMMA UserKeeps ==
  ASSUME ChatInv, NEW c \in Made, UserStep(c)
  PROVE  ChatInv'
  <1>0. ChatTypeOK /\ ShownAreBegun /\ StoredAsShown /\ convs[c] \in ConvRow /\ UNCHANGED <<saver, shown, edit, split>>
    BY ChatTypes DEF ChatInv, UserStep, Rename, Delete
  <1>1. CASE Rename(c)
    <2> DEFINE new == [convs[c] EXCEPT !.title = "user"]
    <2>1. convs' = [convs EXCEPT ![c] = new] /\ torn' = torn
      BY <1>1 DEF Rename
    <2>2. new \in ConvRow /\ new.text = convs[c].text /\ new.gone = convs[c].gone /\ new.turns = convs[c].turns
      BY <1>0 DEF ConvRow, Ranks
    <2> HIDE DEF new
    <2>3. convs' \in Seq(ConvRow) /\ Made' = Made /\ \A d \in Made : convs'[d] = IF d = c THEN new ELSE convs[d]
      BY <1>0, <2>1, <2>2, RowChanges
    <2>4. ChatTypeOK'
      BY <1>0, <2>1, <2>3 DEF ChatTypeOK
    <2>5. \A d \in Made : /\ convs'[d].text = convs[d].text /\ convs'[d].gone = convs[d].gone
                          /\ convs'[d].turns = convs[d].turns
      BY <2>2, <2>3
    <2>6. \A t \in Turns : Unsaved(t)' <=> Unsaved(t)
      BY <1>0 DEF Unsaved
    <2>7. QED
      BY <1>0, <2>1, <2>3, <2>4, <2>5, <2>6, TurnsStay
  <1>2. CASE Delete(c)
    <2> DEFINE new == [convs[c] EXCEPT !.gone = TRUE, !.turns = [i \in Indices |-> NoTurn]]
    <2>1. convs' = [convs EXCEPT ![c] = new] /\ torn' = torn \cup {i \in Indices : i < Len(shown)}
      BY <1>2 DEF Delete
    <2>2. new \in ConvRow /\ new.text = convs[c].text /\ new.gone
      BY <1>0 DEF ConvRow
    <2> HIDE DEF new
    <2>3. convs' \in Seq(ConvRow) /\ Made' = Made /\ \A d \in Made : convs'[d] = IF d = c THEN new ELSE convs[d]
      BY <1>0, <2>1, <2>2, RowChanges
    <2>4. ChatTypeOK'
      <3>1. torn' \in SUBSET Nat
        BY <1>0, <2>1, ChatTypes DEF ChatTypeOK
      <3>2. QED
        BY <1>0, <2>3, <3>1 DEF ChatTypeOK
    <2>5. OfSession' = OfSession \ {c}
      BY <2>2, <2>3 DEF OfSession
    <2>6. \A d : Live(d)' <=> Live(d) /\ d # c
      BY <2>2, <2>3 DEF Live
    <2>7. OfSession \subseteq Made
      BY <1>0, ChatTypes
    <2>8. ASSUME ~split, NEW i \in Nat, Promised(i)' PROVE AtIndex(i)'
      <3>1. Promised(i) /\ ~(i < Len(shown))
        BY <1>0, <2>1, <2>8 DEF Promised, Indices
      <3>2. AtIndex(i)
        BY <1>0, <2>8, <3>1 DEF StoredAsShown
      <3>3. RowHas(i, NoTurn)
        BY <1>0, <3>1, <3>2, ChatTypes DEF AtIndex
      <3>4. RowHas(i, NoTurn)'
        BY <2>3, <2>5, <2>7, <3>3 DEF RowHas
      <3>5. \A u \in Turns : ~(Unsaved(u)' /\ saver'[u].index = i)
        BY <1>0, <3>1, <3>2 DEF AtIndex, Unsaved
      <3>6. QED
        BY <1>0, <3>1, <3>4, <3>5 DEF AtIndex
    <2>9. QED
      BY <1>0, <2>4, <2>5, <2>6, <2>8 DEF ChatInv, ShownAreBegun, StoredAsShown
  <1>3. QED
    BY <1>1, <1>2 DEF UserStep

LEMMA DeathKeeps ==
  ASSUME ChatInv, Dies
  PROVE  ChatInv'
  <1>1. /\ ChatTypeOK /\ ShownAreBegun /\ StoredAsShown /\ UNCHANGED <<convs, shown, split>>
        /\ saver' = [t \in Turns |-> IF saver[t].pc = "idle" THEN saver[t] ELSE [saver[t] EXCEPT !.pc = "over"]]
        /\ edit' = [edit EXCEPT !.pc = "idle"]
        /\ torn' = torn \cup {saver[t].index : t \in {s \in Turns : Unsaved(s)}} \cup (IF edit.pc = "idle" THEN {} ELSE Indices)
    BY DEF ChatInv, Dies, Stopped
  <1>2. ASSUME NEW t \in Turns
        PROVE  saver'[t] \in SaverRow /\ saver'[t].pc \in {"idle", "over"} /\ (saver'[t].pc = "idle" <=> saver[t].pc = "idle")
    <2>1. saver[t] \in SaverRow /\ saver'[t] = IF saver[t].pc = "idle" THEN saver[t] ELSE [saver[t] EXCEPT !.pc = "over"]
      BY <1>1, ChatTypes
    <2>2. QED
      BY <2>1 DEF SaverRow
  <1>3. saver' \in [Turns -> SaverRow]
    <2>1. saver' = [t \in Turns |-> saver'[t]]
      BY <1>1
    <2>2. QED
      BY <1>2, <2>1
  <1>4. torn' \in SUBSET Nat
    BY <1>1, ChatTypes DEF ChatTypeOK, SaverRow
  <1>5. edit' \in [pc : {"idle", "find", "delete"}, from : Nat, conv : Nat] /\ edit'.pc = "idle"
    BY <1>1 DEF ChatTypeOK
  <1>6. ChatTypeOK'
    BY <1>1, <1>3, <1>4, <1>5 DEF ChatTypeOK
  <1>7. OfSession' = OfSession /\ \A i, v : RowHas(i, v)' <=> RowHas(i, v)
    BY <1>1 DEF OfSession, Made, RowHas
  <1>8. ASSUME ~split, NEW i \in Nat, Promised(i)' PROVE AtIndex(i)'
    <2>1. i \in Indices /\ i \notin torn /\ edit.pc = "idle" /\ \A t \in Turns : Unsaved(t) => saver[t].index # i
      BY <1>1, <1>8 DEF Promised, Indices
    <2>2. AtIndex(i)
      BY <1>1, <1>8, <2>1 DEF Promised, StoredAsShown
    <2>3. \A t \in Turns : ~Unsaved(t)'
      BY <1>2 DEF Unsaved
    <2>4. i < Len(shown) => shown[i + 1] \in Turns
      BY <1>1, ChatTypes
    <2>5. i < Len(shown) => RowHas(i, shown[i + 1])
      BY <2>1, <2>2, <2>4 DEF AtIndex
    <2>6. QED
      BY <1>1, <1>7, <2>2, <2>3, <2>5 DEF AtIndex
  <1>9. QED
    BY <1>1, <1>2, <1>5, <1>6, <1>7, <1>8, ChatTypes DEF ChatInv, ShownAreBegun, StoredAsShown

LEMMA ChatSteps == ChatInv /\ [TextNext]_chatVars => ChatInv'
  <1> SUFFICES ASSUME ChatInv, [TextNext]_chatVars PROVE ChatInv'
    OBVIOUS
  <1>1. CASE UNCHANGED chatVars
    <2>1. UNCHANGED <<convs, saver, shown, edit, torn, split>>
      BY <1>1 DEF chatVars
    <2>2. ChatTypeOK' /\ Made' = Made /\ \A t \in Turns : Unsaved(t)' <=> Unsaved(t)
      BY <2>1 DEF ChatInv, ChatTypeOK, Made, Unsaved
    <2>3. QED
      BY <2>1, <2>2, TurnsStay
  <1>2. QED
    BY <1>1, PostKeeps, FindKeeps, InsertKeeps, SaveKeeps, TitlesKeep, TruncateKeeps, EditKeeps, UserKeeps, DeathKeeps
       DEF TextNext, SaverStep

\* Conversations: what is stored of a text session is, when its saves and edits
\* are through, what its client shows; for any number of turns, rows, edits,
\* deletions, failed calls and deaths of the process.
THEOREM StoreFollowsScreen == TextSpec => []StoredIsShown
  <1>1. ChatInv => StoredIsShown
    <2> SUFFICES ASSUME ChatInv, Quiet, ~split, NEW i \in Indices \ torn PROVE Stored(i) = Shown(i)
      BY DEF StoredIsShown
    <2>1. ChatTypeOK /\ StoredAsShown /\ edit.pc = "idle" /\ \A t \in Turns : ~Unsaved(t)
      BY DEF ChatInv, Quiet
    <2>2. i \in Nat /\ Promised(i)
      BY <2>1, ChatTypes DEF Promised
    <2>3. AtIndex(i)
      BY <2>1, <2>2 DEF StoredAsShown
    <2>4. i < Len(shown) => shown[i + 1] \in Turns
      BY <2>1, <2>2, ChatTypes
    <2>5. RowHas(i, Shown(i))
      BY <2>1, <2>2, <2>3, <2>4, ChatTypes DEF AtIndex, Shown
    <2>6. OfSession # {} => Newest(OfSession) \in OfSession
      BY <2>1, ChatTypes, NewestIsOne
    <2>7. QED
      BY <2>5, <2>6 DEF RowHas, Stored
  <1>2. TextSpec => []ChatInv
    BY ChatStarts, ChatSteps, PTL DEF TextSpec
  <1>3. QED
    BY <1>1, <1>2, PTL

-----------------------------------------------------------------------------
(* LiveVoice.  The argument: a piece of speech is in one place at a time, a  *)
(* builder is taken together with an index nobody else has, and who ends the *)
(* session takes its socket with it.                                         *)

LoopPcs == {"none", "loop", "recv", "check", "tool", "flush", "persist", "exit",
            "read", "dial", "create", "end", "endFlush", "endPersist", "close", "gone"}
LoopRow == [pc : LoopPcs, text : SUBSET Fragments, index : Nat, socket : BOOLEAN, leaves : BOOLEAN]
SessionRow == [started : BOOLEAN, ended : BOOLEAN, gemini : BOOLEAN, conv : Nat, index : Nat,
               user : SUBSET Fragments, asst : SUBSET Fragments, last : BOOLEAN]

VoiceTypeOK ==
  /\ convs \in Seq(ConvRow) /\ Len(convs) <= MaxConvs
  /\ saver \in [Turns -> SaverRow]
  /\ ender \in [Rows -> {"idle", "title", "turns", "set", "end", "over"}]
  /\ faults \in Nat
  /\ client \in LoopRow /\ reader \in LoopRow
  /\ session \in SessionRow
  /\ said \in [Turns -> SUBSET Fragments]
  /\ session.conv # 0 => session.conv \in Made

\* What was heard is in one place at a time.
Builder == session.user \cup session.asst
Apart ==
  /\ \A g \in Loops : Builder \cap Loop(g).text = {}
  /\ client.text \cap reader.text = {}
  /\ \A t \in Turns : /\ said[t] \cap Builder = {}
                      /\ \A g \in Loops : said[t] \cap Loop(g).text = {}
                      /\ \A u \in Turns : u # t => said[t] \cap said[u] = {}

\* Before the reader runs nothing is heard, and only a premature end comes
\* before the start.
Begun ==
  /\ \A g \in Loops : Loop(g).text # {} => Loop(g).pc \in {"persist", "endPersist"}
  /\ up /\ ~session.started => client.pc \notin {"dial", "create"} /\ reader.pc = "none" /\ gemini # "open"
  /\ client.pc \in {"dial", "create"} => reader.pc = "none" /\ (premature \/ ~session.ended)
  /\ reader.pc = "none" =>
       /\ session.conv = 0 /\ Builder = {} /\ client.text = {}
       /\ \A t \in Turns : said[t] = {}

Ending == {g \in Loops : Loop(g).pc \in {"endFlush", "endPersist", "close"}}
Ended(c) == ender[c] \in {"title", "turns", "set", "end"} \/ convs[c].ended \/ convs[c].gone

\* Who ended the session closes the socket and ends the conversation.
ReleaseInv ==
  up /\ ~premature =>
    /\ gemini = "open" => (session.gemini /\ ~session.ended) \/ \E g \in Ending : Loop(g).socket
    /\ session.ended /\ session.conv # 0 => Ending # {} \/ Ended(session.conv)

\* A text that was taken has an index of its own in the session's conversation.
Numbered ==
  /\ session.index <= MaxIndex
  /\ \A g \in Loops : Loop(g).text # {} => Loop(g).index < session.index
  /\ client.text # {} /\ reader.text # {} => client.index # reader.index
  /\ \A t \in Turns :
       /\ saver[t].pc = "idle" => said[t] = {} \/ session.conv = 0
       /\ saver[t].pc # "idle" =>
            /\ saver[t].pc \in {"save", "title", "llm", "over"} /\ said[t] # {}
            /\ session.conv # 0 /\ saver[t].conv = session.conv /\ saver[t].index < session.index
            /\ \A g \in Loops : Loop(g).text # {} => saver[t].index # Loop(g).index
            /\ \A u \in Turns : u # t /\ saver[u].pc # "idle" => saver[t].index # saver[u].index

\* What a goroutine has saved stays saved, and what the last flush left is late.
SavedStays ==
  up /\ faults = 0 /\ Live(session.conv) =>
    \A t \in Turns : saver[t].pc \in {"title", "llm", "over"} => convs[session.conv].turns[saver[t].index] = t

LeftIsLate == up /\ session.ended /\ (\A g \in Loops : Loop(g).pc # "endFlush") => Builder \subseteq late

VoiceInv == VoiceTypeOK /\ Apart /\ Begun /\ ReleaseInv /\ Numbered /\ SavedStays /\ LeftIsLate

-----------------------------------------------------------------------------
LEMMA VoiceTypes ==
  ASSUME VoiceTypeOK
  PROVE  /\ \A g \in Loops : Loop(g) \in LoopRow
         /\ \A t \in Turns : saver[t] \in SaverRow /\ said[t] \in SUBSET Fragments
         /\ Builder \in SUBSET Fragments
         /\ Len(convs) \in Nat /\ Made = 1..Len(convs) /\ \A c \in Made : convs[c] \in ConvRow /\ c \in Rows
         /\ session \in SessionRow /\ session.conv \in Nat /\ session.index \in Nat
         /\ MaxIndex \in Nat
  BY ConversationsAssumption DEF VoiceTypeOK, Loops, Loop, Builder, SessionRow, Made, Rows

\* One loop moves on and the other keeps its place.
LEMMA LoopMoves ==
  ASSUME VoiceTypeOK, NEW g \in Loops, NEW r \in LoopRow, Moves(g, r)
  PROVE  /\ client' \in LoopRow /\ reader' \in LoopRow
         /\ Loop(g)' = r /\ \A h \in Loops : h # g => Loop(h)' = Loop(h)
         /\ g = "client" => client' = r /\ reader' = reader
         /\ g = "reader" => reader' = r /\ client' = client
  BY DEF VoiceTypeOK, Moves, Loops, Loop

LEMMA GoneTo ==
  ASSUME VoiceTypeOK, NEW g \in Loops, NEW pc \in LoopPcs, Goto(g, pc)
  PROVE  \E r \in LoopRow : /\ Moves(g, r) /\ r.pc = pc /\ r.text = Loop(g).text /\ r.index = Loop(g).index
                            /\ r.socket = Loop(g).socket
  <1> DEFINE r == [Loop(g) EXCEPT !.pc = pc]
  <1>1. r \in LoopRow /\ r.pc = pc /\ r.text = Loop(g).text /\ r.index = Loop(g).index /\ r.socket = Loop(g).socket
    BY VoiceTypes DEF LoopRow
  <1>2. Moves(g, r)
    BY DEF Goto
  <1>3. QED
    BY <1>1, <1>2

\* A loop that has nothing in its hands and does not end the session moves on.
LEMMA JustMoves ==
  ASSUME VoiceInv, NEW g \in Loops, NEW r \in LoopRow, Moves(g, r),
         Loop(g).text = {}, r.text = {}, Loop(g).pc # "none", g \notin Ending,
         r.pc \notin {"none", "dial", "create", "endFlush", "endPersist", "close"},
         UNCHANGED <<session, said, premature, convs, saver, ender, up, faults, late>>,
         gemini' \in {gemini, "closed"}, g = "client" => gemini' = gemini
  PROVE  VoiceInv'
  <1>1. VoiceTypeOK /\ Apart /\ Begun /\ ReleaseInv /\ Numbered /\ SavedStays /\ LeftIsLate
    BY DEF VoiceInv
  <1>2. /\ client' \in LoopRow /\ reader' \in LoopRow
        /\ Loop(g)' = r /\ \A h \in Loops : h # g => Loop(h)' = Loop(h)
        /\ g = "client" => client' = r /\ reader' = reader
        /\ g = "reader" => reader' = r /\ client' = client
        /\ Builder' = Builder
    BY <1>1, LoopMoves DEF Builder
  <1>3. /\ client \in LoopRow /\ reader \in LoopRow /\ g \in {"client", "reader"}
        /\ g = "client" => client.text = {} /\ client.pc # "none"
        /\ g = "reader" => reader.text = {} /\ reader.pc # "none"
    BY <1>1 DEF VoiceTypeOK, Loops, Loop
  <1>4. VoiceTypeOK'
    BY <1>1, <1>2 DEF VoiceTypeOK, Made
  <1>5. Apart'
    BY <1>1, <1>2, <1>3 DEF Apart
  <1>6. Begun'
    <2>1. \A h \in Loops : Loop(h)'.text # {} => Loop(h)'.pc \in {"persist", "endPersist"}
      BY <1>1, <1>2 DEF Begun
    <2>2. up' /\ ~session'.started => client'.pc \notin {"dial", "create"} /\ reader'.pc = "none" /\ gemini' # "open"
      BY <1>1, <1>2, <1>3 DEF Begun
    <2>3. client'.pc \in {"dial", "create"} => reader'.pc = "none" /\ (premature' \/ ~session'.ended)
      BY <1>1, <1>2, <1>3 DEF Begun
    <2>4. reader'.pc = "none" =>
            session'.conv = 0 /\ Builder' = {} /\ client'.text = {} /\ \A t \in Turns : said'[t] = {}
      BY <1>1, <1>2, <1>3 DEF Begun
    <2>5. QED
      BY <2>1, <2>2, <2>3, <2>4 DEF Begun
  <1>7. Ending' = Ending
    BY <1>2 DEF Ending
  <1>8. ReleaseInv'
    <2>1. \A h \in Ending : Loop(h)' = Loop(h)
      BY <1>2 DEF Ending
    <2>2. QED
      BY <1>1, <1>7, <2>1 DEF ReleaseInv, Ended
  <1>9. Numbered'
    BY <1>1, <1>2, <1>3 DEF Numbered
  <1>10. SavedStays' /\ LeftIsLate'
    BY <1>1, <1>2 DEF SavedStays, LeftIsLate, Live, Made, Ending
  <1>11. QED
    BY <1>4, <1>5, <1>6, <1>8, <1>9, <1>10 DEF VoiceInv

LEMMA VoiceLoopSteps ==
  ASSUME VoiceInv, up, SessionEnd \/ ReaderLoop \/ ToolCall \/ TurnComplete \/ ReadFails \/ (ToolAnswer /\ session.gemini)
  PROVE  VoiceInv'
  <1>0. VoiceTypeOK /\ Begun /\ client \in LoopRow /\ reader \in LoopRow /\ Loop("client") = client /\ Loop("reader") = reader
        /\ "client" \in Loops /\ "reader" \in Loops
    BY DEF VoiceInv, VoiceTypeOK, Loops, Loop
  <1>1. CASE SessionEnd
    <2> PICK leaves \in BOOLEAN : client' = [client EXCEPT !.pc = "end", !.leaves = leaves]
      BY <1>1 DEF SessionEnd
    <2> DEFINE r == [client EXCEPT !.pc = "end", !.leaves = leaves]
    <2>1. r \in LoopRow /\ r.pc = "end" /\ r.text = client.text
      BY <1>0 DEF LoopRow, LoopPcs
    <2>2. client.pc = "read" /\ client.text = {}
      BY <1>0, <1>1 DEF SessionEnd, Begun
    <2>3. Moves("client", r)
      BY <1>1 DEF SessionEnd, Moves
    <2> HIDE DEF r
    <2>4. UNCHANGED <<gemini, session, said, premature, convs, saver, ender, up, faults, late>>
      BY <1>1 DEF SessionEnd, chatVars
    <2>5. QED
      BY <1>0, <2>1, <2>2, <2>3, <2>4, JustMoves DEF Ending
  <1>2. CASE ReaderLoop \/ ToolCall \/ TurnComplete \/ ReadFails \/ (ToolAnswer /\ session.gemini)
    <2>1. PICK pc \in {"exit", "recv", "tool", "loop", "flush", "end"} : Goto("reader", pc)
      BY <1>2 DEF ReaderLoop, ToolCall, TurnComplete, ReadFails, ToolAnswer, Received
    <2>2. reader.pc \in {"loop", "recv", "tool"}
      BY <1>2 DEF ReaderLoop, ToolCall, TurnComplete, ReadFails, ToolAnswer, Received
    <2>3. UNCHANGED <<session, said, premature, convs, saver, ender, up, faults, late>>
      BY <1>2 DEF ReaderLoop, ToolCall, TurnComplete, ReadFails, ToolAnswer, chatVars
    <2>4. gemini' \in {gemini, "closed"}
      BY <1>2 DEF ReaderLoop, ToolCall, TurnComplete, ReadFails, ToolAnswer
    <2>6. PICK r \in LoopRow : Moves("reader", r) /\ r.pc = pc /\ r.text = Loop("reader").text
      BY <1>0, <2>1, GoneTo DEF LoopPcs
    <2>7. reader.text = {}
      BY <1>0, <2>2 DEF Begun
    <2>8. QED
      BY <1>0, <2>1, <2>2, <2>3, <2>4, <2>6, <2>7, JustMoves DEF Ending
  <1>3. QED
    BY <1>1, <1>2

\* Before the reader runs there is nothing to keep apart, to number or to store.
LEMMA NothingHeard ==
  ASSUME VoiceInv, reader.pc = "none", VoiceTypeOK', client'.text = {}, reader'.text = {},
         session'.index = session.index, Builder' = Builder, UNCHANGED <<saver, said>>
  PROVE  Apart' /\ Numbered' /\ SavedStays' /\ LeftIsLate' /\ Builder' = {} /\ \A t \in Turns : said'[t] = {}
  <1>1. /\ VoiceTypeOK /\ Builder = {} /\ session.index <= MaxIndex
        /\ \A t \in Turns : said[t] = {} /\ saver[t].pc = "idle"
    BY DEF VoiceInv, Begun, Numbered
  <1>2. \A g \in Loops : Loop(g)'.text = {}
    BY DEF Loop, Loops
  <1>3. Builder' = {} /\ \A t \in Turns : said'[t] = {} /\ saver'[t].pc = "idle"
    BY <1>1
  <1>4. Apart'
    BY <1>2, <1>3 DEF Apart
  <1>5. Numbered'
    BY <1>1, <1>2, <1>3 DEF Numbered
  <1>6. SavedStays' /\ LeftIsLate'
    BY <1>3 DEF SavedStays, LeftIsLate
  <1>7. QED
    BY <1>3, <1>4, <1>5, <1>6

\* The first half of a session: start, dial, the conversation.
LEMMA ClientKeeps ==
  ASSUME VoiceInv, up, StartSession \/ DialGemini \/ CreateConversation
  PROVE  VoiceInv'
  <1>1. /\ VoiceTypeOK /\ Apart /\ Begun /\ ReleaseInv /\ Numbered /\ SavedStays /\ LeftIsLate
        /\ client \in LoopRow /\ reader \in LoopRow /\ Loop("client") = client /\ Loop("reader") = reader
        /\ Loops = {"client", "reader"} /\ session \in SessionRow
    BY DEF VoiceInv, VoiceTypeOK, Loops, Loop
  <1>2. client.pc \in {"read", "dial", "create"} /\ reader.pc = "none"
    BY <1>1 DEF StartSession, DialGemini, CreateConversation, Begun
  <1>3. client.text = {} /\ reader.text = {} /\ session.conv = 0 /\ Builder = {}
    BY <1>1, <1>2 DEF Begun
  <1>4. CASE StartSession
    <2>1. /\ session' = [session EXCEPT !.started = TRUE] /\ premature' = session.ended /\ Goto("client", "dial")
          /\ UNCHANGED <<gemini, said, convs, saver, ender, up, faults, late>> /\ client.pc = "read" /\ ~session.started
      BY <1>4 DEF StartSession, chatVars
    <2>2. PICK r \in LoopRow : Moves("client", r) /\ r.pc = "dial" /\ r.text = {}
      BY <1>1, <1>3, <2>1, GoneTo DEF LoopPcs
    <2>3. client' = r /\ reader' = reader
      BY <1>1, <2>2, LoopMoves
    <2>4. /\ session' \in SessionRow /\ session'.started /\ session'.ended = session.ended /\ session'.conv = 0
          /\ session'.index = session.index /\ Builder' = Builder
      BY <1>1, <1>3, <2>1 DEF SessionRow, Builder
    <2>5. VoiceTypeOK'
      BY <1>1, <2>1, <2>2, <2>3, <2>4 DEF VoiceTypeOK
    <2>6. Apart' /\ Numbered' /\ SavedStays' /\ LeftIsLate' /\ Builder' = {} /\ \A t \in Turns : said'[t] = {}
      BY <1>2, <1>3, <2>1, <2>2, <2>3, <2>4, <2>5, NothingHeard
    <2>7. gemini # "open"
      BY <1>1, <2>1 DEF Begun
    <2>8. Begun'
      BY <1>1, <1>2, <1>3, <2>1, <2>2, <2>3, <2>4, <2>6 DEF Begun, Loop
    <2>9. ReleaseInv'
      BY <2>1, <2>4, <2>7 DEF ReleaseInv
    <2>10. QED
      BY <2>5, <2>6, <2>8, <2>9 DEF VoiceInv
  <1>5. CASE DialGemini
    <2>1. /\ client.pc = "dial" /\ UNCHANGED <<said, premature, convs, saver, ender, up, faults, late>>
          /\ \/ gemini' = "open" /\ session' = [session EXCEPT !.gemini = TRUE] /\ Goto("client", "create")
             \/ Goto("client", "read") /\ UNCHANGED <<gemini, session>>
      BY <1>5 DEF DialGemini, chatVars
    <2>2. PICK r \in LoopRow : Moves("client", r) /\ r.pc \in {"create", "read"} /\ r.text = {}
      BY <1>1, <1>3, <2>1, GoneTo DEF LoopPcs
    <2>3. client' = r /\ reader' = reader
      BY <1>1, <2>2, LoopMoves
    <2>4. /\ session' \in SessionRow /\ session'.started = session.started /\ session'.ended = session.ended
          /\ session'.conv = 0 /\ session'.index = session.index /\ Builder' = Builder
          /\ session'.gemini \/ (gemini' = gemini /\ session' = session)
      BY <1>1, <1>3, <2>1 DEF SessionRow, Builder
    <2>5. VoiceTypeOK'
      BY <1>1, <2>1, <2>2, <2>3, <2>4 DEF VoiceTypeOK
    <2>6. Apart' /\ Numbered' /\ SavedStays' /\ LeftIsLate' /\ Builder' = {} /\ \A t \in Turns : said'[t] = {}
      BY <1>2, <1>3, <2>1, <2>2, <2>3, <2>4, <2>5, NothingHeard
    <2>7. session.started /\ (premature \/ ~session.ended)
      BY <1>1, <2>1 DEF Begun
    <2>8. Begun'
      BY <1>1, <1>2, <1>3, <2>1, <2>2, <2>3, <2>4, <2>6, <2>7 DEF Begun, Loop
    <2>9. ReleaseInv'
      <3>1. Ending = {}
        BY <1>1, <1>2, <2>1 DEF Ending
      <3>2. QED
        BY <1>1, <2>1, <2>4, <2>7, <3>1 DEF ReleaseInv
    <2>10. QED
      BY <2>5, <2>6, <2>8, <2>9 DEF VoiceInv
  <1>6. CASE CreateConversation
    <2>1. /\ client.pc = "create" /\ client' = [client EXCEPT !.pc = "read"] /\ reader' = Goroutine("loop")
          /\ UNCHANGED <<gemini, said, late, premature, saver, ender, up>>
          /\ \/ /\ Len(convs) < MaxConvs /\ convs' = Append(convs, Row(FALSE))
                /\ session' = [session EXCEPT !.conv = Len(convs) + 1] /\ UNCHANGED faults
             \/ Fault /\ UNCHANGED <<convs, session>>
      BY <1>6 DEF CreateConversation
    <2>2. client' \in LoopRow /\ client'.pc = "read" /\ client'.text = {}
      BY <1>1, <1>3, <2>1 DEF LoopRow, LoopPcs
    <2>3. reader' \in LoopRow /\ reader'.pc = "loop" /\ reader'.text = {}
      BY <2>1 DEF LoopRow, LoopPcs, Goroutine
    <2>4. /\ session' \in SessionRow /\ session'.started = session.started /\ session'.ended = session.ended
          /\ session'.index = session.index /\ Builder' = Builder /\ session'.gemini = session.gemini
      <3>1. Len(convs) + 1 \in Nat
        BY <1>1, VoiceTypes
      <3>2. QED
        BY <1>1, <2>1, <3>1 DEF SessionRow, Builder
    <2>5. /\ convs' \in Seq(ConvRow) /\ Len(convs') <= MaxConvs /\ faults' \in Nat
          /\ session'.conv # 0 => session'.conv \in Made'
      <3>1. CASE Fault /\ UNCHANGED <<convs, session>>
        <4>1. faults' \in Nat /\ convs' = convs /\ session' = session
          BY <1>1, <3>1 DEF VoiceTypeOK, Fault
        <4>2. QED
          BY <1>1, <4>1 DEF VoiceTypeOK, Made
      <3>2. CASE /\ Len(convs) < MaxConvs /\ convs' = Append(convs, Row(FALSE))
                 /\ session' = [session EXCEPT !.conv = Len(convs) + 1] /\ UNCHANGED faults
        <4> DEFINE new == Row(FALSE)
        <4>1. new \in ConvRow
          BY DEF Row, ConvRow, Ranks
        <4> HIDE DEF new
        <4>2. convs' \in Seq(ConvRow) /\ Len(convs') = Len(convs) + 1
          <5>1. convs \in Seq(ConvRow) /\ convs' = Append(convs, new)
            BY <1>1, <3>2 DEF VoiceTypeOK, new
          <5>2. QED
            BY <4>1, <5>1, AppendProperties
        <4>3. session'.conv = Len(convs) + 1
          BY <1>1, <3>2 DEF SessionRow
        <4>4. Len(convs) \in Nat /\ MaxConvs \in Nat /\ Made' = 1..Len(convs')
          BY <1>1, <4>2, VoiceTypes, ConversationsAssumption DEF Made
        <4>5. Len(convs') <= MaxConvs /\ session'.conv \in Made' /\ faults' \in Nat
          BY <1>1, <3>2, <4>2, <4>3, <4>4 DEF VoiceTypeOK
        <4>6. QED
          BY <4>2, <4>5
      <3>3. QED
        BY <2>1, <3>1, <3>2
    <2>6. VoiceTypeOK'
      BY <1>1, <2>1, <2>2, <2>3, <2>4, <2>5 DEF VoiceTypeOK
    <2>7. Apart' /\ Numbered' /\ SavedStays' /\ LeftIsLate' /\ Builder' = {} /\ \A t \in Turns : said'[t] = {}
      BY <1>2, <2>1, <2>2, <2>3, <2>4, <2>6, NothingHeard
    <2>8. session.started /\ (premature \/ ~session.ended)
      BY <1>1, <2>1 DEF Begun
    <2>9. Begun'
      BY <1>1, <2>1, <2>2, <2>3, <2>4, <2>7, <2>8 DEF Begun, Loop
    <2>10. ReleaseInv'
      <3>1. Ending = {}
        BY <1>1, <1>2, <2>1 DEF Ending
      <3>2. QED
        BY <1>1, <2>1, <2>4, <2>8, <3>1 DEF ReleaseInv
    <2>11. QED
      BY <2>6, <2>7, <2>9, <2>10 DEF VoiceInv
  <1>7. QED
    BY <1>4, <1>5, <1>6

\* What the reader hears is fresh, and late when the session has ended.
LEMMA ReaderHears ==
  ASSUME VoiceInv, NEW r \in LoopRow, Moves("reader", r), r.text = {}, reader.text = {},
         reader.pc \in {"recv", "check"}, r.pc \in {"check", "loop"}, session' \in SessionRow,
         session'.started = session.started, session'.ended = session.ended, session'.gemini = session.gemini,
         session'.conv = session.conv, session'.index = session.index,
         Builder' \subseteq Builder \cup Fresh, session.ended => Builder' \subseteq Builder \cup late', late \subseteq late',
         UNCHANGED <<gemini, said, premature, convs, saver, ender, up, faults>>
  PROVE  VoiceInv'
  <1>1. /\ VoiceTypeOK /\ Apart /\ Begun /\ ReleaseInv /\ Numbered /\ SavedStays /\ LeftIsLate
        /\ Loop("client") = client /\ Loop("reader") = reader /\ Loops = {"client", "reader"}
    BY DEF VoiceInv, Loops, Loop
  <1>2. /\ reader' = r /\ client' = client /\ Loop("client")' = client /\ Loop("reader")' = r
    BY <1>1, LoopMoves
  <1>3. VoiceTypeOK'
    BY <1>1, <1>2 DEF VoiceTypeOK, Made
  <1>4. Apart'
    <2>1. Builder' \cap client.text = {} /\ \A t \in Turns : said[t] \cap Builder' = {}
      BY <1>1 DEF Apart, Fresh
    <2>2. QED
      BY <1>1, <1>2, <2>1 DEF Apart
  <1>5. Begun'
    BY <1>1, <1>2 DEF Begun
  <1>6. Ending' = Ending /\ "reader" \notin Ending
    BY <1>1, <1>2 DEF Ending
  <1>7. ReleaseInv'
    <2>1. \A g \in Ending : Loop(g)' = Loop(g)
      BY <1>1, <1>2, <1>6 DEF Ending
    <2>2. QED
      BY <1>1, <1>6, <2>1 DEF ReleaseInv, Ended
  <1>8. Numbered'
    BY <1>1, <1>2 DEF Numbered
  <1>9. SavedStays' /\ LeftIsLate'
    BY <1>1, <1>2 DEF SavedStays, LeftIsLate, Live, Made
  <1>10. QED
    BY <1>3, <1>4, <1>5, <1>7, <1>8, <1>9 DEF VoiceInv

LEMMA HearKeeps ==
  ASSUME VoiceInv, (\E f \in Fragments : HearUser(f) \/ HearAssistant(f)) \/ CheckEcho
  PROVE  VoiceInv'
  <1>0. VoiceTypeOK /\ Begun /\ "reader" \in Loops /\ Loop("reader") = reader /\ session \in SessionRow
    BY DEF VoiceInv, VoiceTypeOK, Loops, Loop
  <1>1. Goto("reader", "check") \/ Goto("reader", "loop")
    BY DEF HearUser, HearAssistant, CheckEcho, Received
  <1>2. reader.pc \in {"recv", "check"} /\ reader.text = {}
    BY <1>0 DEF HearUser, HearAssistant, CheckEcho, Received, Begun
  <1>3. PICK r \in LoopRow : Moves("reader", r) /\ r.pc \in {"check", "loop"} /\ r.text = {}
    BY <1>0, <1>1, <1>2, GoneTo DEF LoopPcs
  <1>4. UNCHANGED <<gemini, said, premature, convs, saver, ender, up, faults>>
    BY DEF HearUser, HearAssistant, CheckEcho, chatVars
  <1>5. CASE \E f \in Fragments : HearUser(f) \/ HearAssistant(f)
    <2>1. PICK f \in Fragments : HearUser(f) \/ HearAssistant(f)
      BY <1>5
    <2>2. f \in Fresh /\ late' = IF session.ended THEN late \cup {f} ELSE late
      BY <2>1 DEF HearUser, HearAssistant
    <2>3. \/ session' = [session EXCEPT !.user = session.user \cup {f}]
          \/ session' = [session EXCEPT !.asst = session.asst \cup {f}]
      BY <2>1 DEF HearUser, HearAssistant
    <2>4. /\ session' \in SessionRow /\ Builder' = Builder \cup {f}
          /\ session'.started = session.started /\ session'.ended = session.ended /\ session'.gemini = session.gemini
          /\ session'.conv = session.conv /\ session'.index = session.index
      BY <1>0, <2>1, <2>3 DEF SessionRow, Builder
    <2>5. QED
      BY <1>2, <1>3, <1>4, <2>2, <2>4, ReaderHears
  <1>6. CASE CheckEcho
    <2>1. late' = late /\ (session' = session \/ session' = [session EXCEPT !.user = {}])
      BY <1>6 DEF CheckEcho
    <2>2. /\ session' \in SessionRow /\ Builder' \subseteq Builder
          /\ session'.started = session.started /\ session'.ended = session.ended /\ session'.gemini = session.gemini
          /\ session'.conv = session.conv /\ session'.index = session.index
      BY <1>0, <2>1 DEF SessionRow, Builder
    <2>3. QED
      BY <1>2, <1>3, <1>4, <2>1, <2>2, ReaderHears
  <1>7. QED
    BY <1>5, <1>6

-----------------------------------------------------------------------------
LEMMA EndKeeps ==
  ASSUME VoiceInv, NEW g \in Loops, EndSession(g)
  PROVE  VoiceInv'
  <1>1. /\ VoiceTypeOK /\ Apart /\ Begun /\ ReleaseInv /\ Numbered /\ SavedStays /\ LeftIsLate
        /\ Loop("client") = client /\ Loop("reader") = reader /\ Loops = {"client", "reader"} /\ session \in SessionRow
    BY DEF VoiceInv, VoiceTypeOK, Loops, Loop
  <1>2. /\ Loop(g).pc = "end" /\ UNCHANGED <<gemini, said, late, premature, convs, saver, ender, up, faults>>
    BY DEF EndSession, chatVars
  <1>3. Loop(g).text = {} /\ Loop(g) \in LoopRow /\ g \notin Ending
    BY <1>1, <1>2, VoiceTypes DEF Begun, Ending
  <1>4. CASE session.ended
    <2>1. session' = session /\ \E pc \in {"exit", "gone", "read"} : Goto(g, pc)
      BY <1>4 DEF EndSession, Return
    <2>2. PICK r \in LoopRow : Moves(g, r) /\ r.pc \in {"exit", "gone", "read"} /\ r.text = {}
      BY <1>1, <1>3, <2>1, GoneTo DEF LoopPcs
    <2>3. QED
      BY <1>2, <1>3, <2>1, <2>2, JustMoves
  <1>5. CASE ~session.ended
    <2> DEFINE r == [Loop(g) EXCEPT !.pc = "endFlush", !.socket = session.gemini]
    <2>1. session' = [session EXCEPT !.ended = TRUE, !.gemini = FALSE] /\ Moves(g, r)
      BY <1>5 DEF EndSession
    <2>2. r \in LoopRow /\ r.pc = "endFlush" /\ r.socket = session.gemini /\ r.text = {}
      BY <1>1, <1>3 DEF LoopRow, LoopPcs, SessionRow
    <2>3. /\ session' \in SessionRow /\ session'.started = session.started /\ session'.conv = session.conv
          /\ session'.index = session.index /\ Builder' = Builder
      BY <1>1, <2>1 DEF SessionRow, Builder
    <2> HIDE DEF r
    <2>4. /\ client' \in LoopRow /\ reader' \in LoopRow /\ Loop(g)' = r /\ \A h \in Loops : h # g => Loop(h)' = Loop(h)
          /\ g = "client" => client' = r /\ reader' = reader
          /\ g = "reader" => reader' = r /\ client' = client
      BY <1>1, <2>1, <2>2, LoopMoves
    <2>5. VoiceTypeOK'
      BY <1>1, <1>2, <2>3, <2>4 DEF VoiceTypeOK, Made
    <2>6. Apart'
      BY <1>1, <1>2, <1>3, <2>2, <2>3, <2>4 DEF Apart
    <2>7. Begun'
      <3>1. \A h \in Loops : Loop(h)'.text # {} => Loop(h)'.pc \in {"persist", "endPersist"}
        BY <1>1, <2>2, <2>4 DEF Begun
      <3>2. client'.pc \notin {"dial", "create"}
        BY <1>1, <1>2, <2>2, <2>4 DEF Begun
      <3>3. reader'.pc = "none" => reader.pc = "none" /\ client'.text = {}
        BY <1>1, <2>2, <2>4 DEF Begun
      <3>4. reader.pc = "none" => g = "client" /\ reader' = reader
        BY <1>1, <1>2, <2>4
      <3>5. QED
        BY <1>1, <1>2, <2>3, <3>1, <3>2, <3>3, <3>4 DEF Begun
    <2>8. g \in Ending' /\ \A h \in Ending : h \in Ending' /\ Loop(h)' = Loop(h)
      BY <1>3, <2>2, <2>4 DEF Ending
    <2>9. ReleaseInv'
      BY <1>1, <1>2, <2>2, <2>4, <2>8 DEF ReleaseInv
    <2>10. Numbered'
      BY <1>1, <1>2, <1>3, <2>2, <2>3, <2>4 DEF Numbered
    <2>11. SavedStays' /\ LeftIsLate'
      BY <1>1, <1>2, <2>2, <2>3, <2>4 DEF SavedStays, LeftIsLate, Live, Made
    <2>12. QED
      BY <2>5, <2>6, <2>7, <2>9, <2>10, <2>11 DEF VoiceInv
  <1>6. QED
    BY <1>4, <1>5

\* The flush takes all of the builder and the next index.
LEMMA FlushKeeps ==
  ASSUME VoiceInv, NEW g \in Loops, FlushTurn(g)
  PROVE  VoiceInv'
  <1>1. /\ VoiceTypeOK /\ Apart /\ Begun /\ ReleaseInv /\ Numbered /\ SavedStays /\ LeftIsLate
        /\ Loop("client") = client /\ Loop("reader") = reader /\ Loops = {"client", "reader"} /\ session \in SessionRow
    BY DEF VoiceInv, VoiceTypeOK, Loops, Loop
  <1>2. /\ Loop(g).pc \in {"flush", "endFlush"} /\ UNCHANGED <<gemini, said, premature, convs, saver, ender, up, faults>>
    BY DEF FlushTurn, chatVars
  <1>3. Loop(g).text = {} /\ Loop(g) \in LoopRow
    BY <1>1, <1>2, VoiceTypes DEF Begun
  <1>4. PICK text \in SUBSET Builder :
          /\ text = {} \/ session.index < MaxIndex
          /\ session' = Emptied(session, text)
          /\ Moves(g, [Loop(g) EXCEPT !.pc = AfterFlush(g, Loop(g).pc), !.text = text, !.index = session.index])
    BY DEF FlushTurn, Builder
  <1> DEFINE r == [Loop(g) EXCEPT !.pc = AfterFlush(g, Loop(g).pc), !.text = text, !.index = session.index]
  <1>5. /\ r.pc \in {"persist", "endPersist"} /\ (r.pc = "endPersist" <=> Loop(g).pc = "endFlush")
        /\ r \in LoopRow /\ r.text = text /\ r.index = session.index /\ r.socket = Loop(g).socket
    <2> DEFINE pc == AfterFlush(g, Loop(g).pc)
    <2>1. pc \in {"persist", "endPersist"} /\ pc \in LoopPcs /\ (pc = "endPersist" <=> Loop(g).pc = "endFlush")
      BY <1>2 DEF AfterFlush, LoopPcs
    <2>2. text \in SUBSET Fragments /\ session.index \in Nat
      BY <1>1, VoiceTypes
    <2> HIDE DEF pc
    <2>3. QED
      BY <1>3, <2>1, <2>2 DEF LoopRow, pc
  <1>6. /\ session' \in SessionRow /\ session'.started = session.started /\ session'.ended = session.ended
        /\ session'.gemini = session.gemini /\ session'.conv = session.conv
        /\ session'.index = (IF text = {} THEN session.index ELSE session.index + 1) /\ Builder' = {}
    <2> DEFINE last == (session.last \/ session.asst # {})
               next == IF text = {} THEN session.index ELSE session.index + 1
    <2>1. last \in BOOLEAN
      BY <1>1 DEF SessionRow
    <2>2. next \in Nat
      BY <1>1, VoiceTypes
    <2>3. session' = [session EXCEPT !.user = {}, !.asst = {}, !.last = last, !.index = next]
      BY <1>4 DEF Emptied
    <2> HIDE DEF last, next
    <2>4. /\ session' \in SessionRow /\ session'.started = session.started /\ session'.ended = session.ended
          /\ session'.gemini = session.gemini /\ session'.conv = session.conv
          /\ session'.index = next /\ session'.user = {} /\ session'.asst = {}
      BY <1>1, <2>1, <2>2, <2>3 DEF SessionRow
    <2>5. QED
      BY <2>4 DEF Builder, next
  <1>7. Moves(g, r)
    BY <1>4
  <1> HIDE DEF r
  <1>8. /\ client' \in LoopRow /\ reader' \in LoopRow /\ Loop(g)' = r /\ \A h \in Loops : h # g => Loop(h)' = Loop(h)
        /\ g = "client" => client' = r /\ reader' = reader
        /\ g = "reader" => reader' = r /\ client' = client
    BY <1>1, <1>5, <1>7, LoopMoves
  <1>9. VoiceTypeOK'
    BY <1>1, <1>2, <1>6, <1>8 DEF VoiceTypeOK, Made
  <1>10. Apart'
    BY <1>1, <1>2, <1>5, <1>6, <1>8 DEF Apart
  <1>11. Begun'
    <2>1. \A h \in Loops : Loop(h)'.text # {} => Loop(h)'.pc \in {"persist", "endPersist"}
      BY <1>1, <1>5, <1>8 DEF Begun
    <2>2. client'.pc \in {"dial", "create"} => client' = client /\ g = "reader"
      BY <1>1, <1>5, <1>8
    <2>3. reader.pc = "none" <=> reader'.pc = "none"
      BY <1>1, <1>2, <1>5, <1>8
    <2>4. reader.pc = "none" => g = "client" /\ client'.text = {}
      BY <1>1, <1>2, <1>5, <1>8 DEF Begun
    <2>5. QED
      BY <1>1, <1>2, <1>6, <1>8, <2>1, <2>2, <2>3, <2>4 DEF Begun
  <1>12. Ending' = Ending /\ \A h \in Loops : Loop(h)'.socket = Loop(h).socket
    BY <1>2, <1>5, <1>8 DEF Ending
  <1>13. ReleaseInv'
    <2>1. Ending \subseteq Loops
      BY DEF Ending
    <2>2. QED
      BY <1>1, <1>2, <1>6, <1>12, <2>1 DEF ReleaseInv, Ended
  <1>14. Numbered'
    <2>1. /\ session.index \in Nat /\ MaxIndex \in Nat /\ session'.index \in Nat /\ session'.index >= session.index
          /\ session'.index <= MaxIndex /\ (text # {} => session'.index > session.index)
      BY <1>1, <1>4, <1>6, VoiceTypes DEF Numbered
    <2>2. \A h \in Loops : h # g /\ Loop(h).text # {} => Loop(h).index < session.index /\ Loop(h).index \in Nat
      BY <1>1, VoiceTypes DEF Numbered, LoopRow
    <2>3. \A t \in Turns : saver[t].pc # "idle" => saver[t].index < session.index /\ saver[t].index \in Nat
      BY <1>1, VoiceTypes DEF Numbered, SaverRow
    <2>4. ASSUME NEW h \in Loops, Loop(h)'.text # {} PROVE Loop(h)'.index < session'.index
      <3>1. CASE h = g
        BY <1>5, <1>8, <2>1, <2>4, <3>1
      <3>2. CASE h # g
        BY <1>8, <2>1, <2>2, <2>4, <3>2
      <3>3. QED
        BY <3>1, <3>2
    <2>5. client'.text # {} /\ reader'.text # {} => client'.index # reader'.index
      BY <1>1, <1>5, <1>8, <2>1, <2>2
    <2>6. ASSUME NEW t \in Turns
          PROVE  /\ saver'[t].pc = "idle" => said'[t] = {} \/ session'.conv = 0
                 /\ saver'[t].pc # "idle" =>
                      /\ saver'[t].pc \in {"save", "title", "llm", "over"} /\ said'[t] # {}
                      /\ session'.conv # 0 /\ saver'[t].conv = session'.conv /\ saver'[t].index < session'.index
                      /\ \A h \in Loops : Loop(h)'.text # {} => saver'[t].index # Loop(h)'.index
                      /\ \A u \in Turns : u # t /\ saver'[u].pc # "idle" => saver'[t].index # saver'[u].index
      <3>1. CASE saver[t].pc = "idle"
        BY <1>1, <1>2, <1>6, <3>1 DEF Numbered
      <3>2. CASE saver[t].pc # "idle"
        <4>1. saver[t].index < session.index /\ saver[t].index \in Nat
          BY <2>3, <3>2
        <4>2. \A h \in Loops : Loop(h)'.text # {} => saver[t].index # Loop(h)'.index
          BY <1>1, <1>5, <1>8, <3>2, <4>1 DEF Numbered
        <4>3. QED
          BY <1>1, <1>2, <1>6, <2>1, <3>2, <4>1, <4>2 DEF Numbered
      <3>3. QED
        BY <3>1, <3>2
    <2>7. QED
      BY <2>1, <2>4, <2>5, <2>6 DEF Numbered
  <1>15. SavedStays' /\ LeftIsLate'
    BY <1>1, <1>2, <1>6 DEF SavedStays, LeftIsLate, Live, Made
  <1>16. QED
    BY <1>9, <1>10, <1>11, <1>13, <1>14, <1>15 DEF VoiceInv

LEMMA PersistKeeps ==
  ASSUME VoiceInv, NEW g \in Loops, PersistTurn(g)
  PROVE  VoiceInv'
  <1>1. /\ VoiceTypeOK /\ Apart /\ Begun /\ ReleaseInv /\ Numbered /\ SavedStays /\ LeftIsLate
        /\ Loop("client") = client /\ Loop("reader") = reader /\ Loops = {"client", "reader"}
    BY DEF VoiceInv, Loops, Loop
  <1>2. /\ Loop(g).pc \in {"persist", "endPersist"}
        /\ UNCHANGED <<gemini, session, late, premature, convs, ender, up, faults>> /\ Builder' = Builder
    BY DEF PersistTurn, Builder
  <1>3. Loop(g) \in LoopRow
    BY <1>1, VoiceTypes
  <1> DEFINE r == [Loop(g) EXCEPT !.pc = AfterFlush(g, Loop(g).pc), !.text = {}]
  <1>4. /\ r.pc \in {"loop", "close"} /\ (r.pc = "close" <=> Loop(g).pc = "endPersist")
        /\ r \in LoopRow /\ r.text = {} /\ r.socket = Loop(g).socket
    <2> DEFINE pc == AfterFlush(g, Loop(g).pc)
    <2>1. pc \in {"loop", "close"} /\ pc \in LoopPcs /\ (pc = "close" <=> Loop(g).pc = "endPersist")
      BY <1>2 DEF AfterFlush, LoopPcs
    <2> HIDE DEF pc
    <2>2. QED
      BY <1>3, <2>1 DEF LoopRow, pc
  <1>5. Moves(g, r)
    BY DEF PersistTurn
  <1> HIDE DEF r
  <1>6. /\ client' \in LoopRow /\ reader' \in LoopRow /\ Loop(g)' = r /\ \A h \in Loops : h # g => Loop(h)' = Loop(h)
        /\ g = "client" => client' = r /\ reader' = reader
        /\ g = "reader" => reader' = r /\ client' = client
    BY <1>1, <1>4, <1>5, LoopMoves
  <1>7. Ending' = Ending /\ (\A h \in Loops : Loop(h)'.socket = Loop(h).socket) /\ Ending \subseteq Loops
    BY <1>2, <1>4, <1>6 DEF Ending
  <1>8. ReleaseInv'
    BY <1>1, <1>2, <1>7 DEF ReleaseInv, Ended
  <1>9. LeftIsLate'
    BY <1>1, <1>2, <1>4, <1>6 DEF LeftIsLate
  <1>10. /\ \A h \in Loops : Loop(h)'.text # {} => Loop(h)'.pc \in {"persist", "endPersist"}
         /\ client'.pc \in {"dial", "create"} => client' = client /\ g = "reader"
         /\ reader.pc = "none" <=> reader'.pc = "none"
         /\ reader.pc = "none" => g = "client" /\ client'.text = {}
         /\ up' /\ ~session'.started => client'.pc \notin {"dial", "create"} /\ reader'.pc = "none" /\ gemini' # "open"
    BY <1>1, <1>2, <1>4, <1>6 DEF Begun
  <1>11. CASE Loop(g).text = {}
    <2>1. UNCHANGED <<said, saver>>
      BY <1>11 DEF PersistTurn
    <2>2. VoiceTypeOK'
      BY <1>1, <1>2, <1>6, <2>1 DEF VoiceTypeOK, Made
    <2>3. Apart'
      BY <1>1, <1>2, <1>4, <1>6, <2>1 DEF Apart
    <2>4. Begun'
      BY <1>1, <1>2, <1>6, <1>10, <2>1 DEF Begun
    <2>5. Numbered'
      BY <1>1, <1>2, <1>4, <1>6, <2>1 DEF Numbered
    <2>6. SavedStays'
      BY <1>1, <1>2, <2>1 DEF SavedStays, Live, Made
    <2>7. QED
      BY <1>8, <1>9, <2>2, <2>3, <2>4, <2>5, <2>6 DEF VoiceInv
  <1>12. CASE Loop(g).text # {}
    <2>1. PICK t \in Turns :
            /\ saver[t].pc = "idle" /\ said[t] = {} /\ said' = [said EXCEPT ![t] = Loop(g).text]
            /\ saver' = IF session.conv = 0 THEN saver
                          ELSE [saver EXCEPT ![t] = [pc |-> "save", conv |-> session.conv, index |-> Loop(g).index]]
      BY <1>12 DEF PersistTurn
    <2>2. /\ said' \in [Turns -> SUBSET Fragments]
          /\ said'[t] = Loop(g).text /\ \A u \in Turns : u # t => said'[u] = said[u]
      BY <1>1, <1>3, <2>1 DEF VoiceTypeOK, LoopRow
    <2>3. /\ saver' \in [Turns -> SaverRow] /\ \A u \in Turns : u # t => saver'[u] = saver[u]
          /\ session.conv = 0 => saver'[t] = saver[t]
          /\ session.conv # 0 => saver'[t].pc = "save" /\ saver'[t].conv = session.conv /\ saver'[t].index = Loop(g).index
      <3> DEFINE new == [pc |-> "save", conv |-> session.conv, index |-> Loop(g).index]
      <3>1. new \in SaverRow /\ new.pc = "save" /\ new.conv = session.conv /\ new.index = Loop(g).index
        BY <1>1, <1>3, VoiceTypes DEF SaverRow, LoopRow
      <3>2. saver' = IF session.conv = 0 THEN saver ELSE [saver EXCEPT ![t] = new]
        BY <2>1
      <3> HIDE DEF new
      <3>3. QED
        BY <1>1, <3>1, <3>2 DEF VoiceTypeOK
    <2>4. VoiceTypeOK'
      BY <1>1, <1>2, <1>6, <2>2, <2>3 DEF VoiceTypeOK, Made
    <2>5. Apart'
      <3>1. \A h \in Loops : Builder \cap Loop(h)'.text = {} /\ (h # g => Loop(h).text \cap Loop(g).text = {})
        BY <1>1, <1>4, <1>6 DEF Apart
      <3>2. client'.text \cap reader'.text = {}
        BY <1>1, <1>4, <1>6 DEF Apart
      <3>3. ASSUME NEW u \in Turns
            PROVE  /\ said'[u] \cap Builder = {}
                   /\ \A h \in Loops : said'[u] \cap Loop(h)'.text = {}
                   /\ \A v \in Turns : v # u => said'[u] \cap said'[v] = {}
        <4>1. CASE u = t
          BY <1>1, <1>4, <1>6, <2>1, <2>2, <3>1, <4>1 DEF Apart
        <4>2. CASE u # t
          BY <1>1, <1>4, <1>6, <2>1, <2>2, <3>1, <4>2 DEF Apart
        <4>3. QED
          BY <4>1, <4>2
      <3>4. QED
        BY <1>2, <3>1, <3>2, <3>3 DEF Apart
    <2>6. reader.pc # "none"
      <3>1. CASE g = "reader"
        BY <1>1, <1>2, <3>1
      <3>2. CASE g = "client"
        BY <1>1, <1>12, <3>2 DEF Begun
      <3>3. QED
        BY <1>1, <3>1, <3>2
    <2>7. Begun'
      BY <1>1, <1>2, <1>6, <1>10, <2>6 DEF Begun
    <2>8. Numbered'
      <3>1. \A h \in Loops : Loop(h)'.text # {} => h # g /\ Loop(h)' = Loop(h)
        BY <1>4, <1>6
      <3>2. /\ \A h \in Loops : Loop(h)'.text # {} => Loop(h)'.index < session'.index
            /\ client'.text # {} /\ reader'.text # {} => client'.index # reader'.index
        BY <1>1, <1>2, <1>4, <1>6, <3>1 DEF Numbered
      <3>3. \A h \in Loops : h # g /\ Loop(h).text # {} => Loop(h).index # Loop(g).index
        BY <1>1, <1>12 DEF Numbered
      <3>4. Loop(g).index < session.index /\ \A u \in Turns : saver[u].pc # "idle" => saver[u].index # Loop(g).index
        BY <1>1, <1>12 DEF Numbered
      <3>5. ASSUME NEW u \in Turns
            PROVE  /\ saver'[u].pc = "idle" => said'[u] = {} \/ session'.conv = 0
                   /\ saver'[u].pc # "idle" =>
                        /\ saver'[u].pc \in {"save", "title", "llm", "over"} /\ said'[u] # {}
                        /\ session'.conv # 0 /\ saver'[u].conv = session'.conv /\ saver'[u].index < session'.index
                        /\ \A h \in Loops : Loop(h)'.text # {} => saver'[u].index # Loop(h)'.index
                        /\ \A v \in Turns : v # u /\ saver'[v].pc # "idle" => saver'[u].index # saver'[v].index
        <4>1. CASE u = t
          <5>1. CASE session.conv = 0
            BY <1>2, <2>1, <2>3, <4>1, <5>1
          <5>2. CASE session.conv # 0
            BY <1>2, <1>12, <2>2, <2>3, <3>1, <3>3, <3>4, <4>1, <5>2
          <5>3. QED
            BY <5>1, <5>2
        <4>2. CASE u # t
          <5>1. saver'[u] = saver[u] /\ said'[u] = said[u]
            BY <2>2, <2>3, <4>2
          <5>2. CASE saver[u].pc = "idle"
            BY <1>1, <1>2, <5>1, <5>2 DEF Numbered
          <5>3. CASE saver[u].pc # "idle"
            <6>1. \A v \in Turns : v # u /\ saver'[v].pc # "idle" => saver[u].index # saver'[v].index
              BY <1>1, <2>1, <2>3, <3>4, <5>3 DEF Numbered
            <6>2. \A h \in Loops : Loop(h)'.text # {} => saver[u].index # Loop(h)'.index
              BY <1>1, <3>1, <5>3 DEF Numbered
            <6>3. QED
              BY <1>1, <1>2, <5>1, <5>3, <6>1, <6>2 DEF Numbered
          <5>4. QED
            BY <5>2, <5>3
        <4>3. QED
          BY <4>1, <4>2
      <3>6. QED
        BY <1>1, <1>2, <3>2, <3>5 DEF Numbered
    <2>9. SavedStays'
      BY <1>1, <1>2, <2>1, <2>3 DEF SavedStays, Live, Made
    <2>10. QED
      BY <1>8, <1>9, <2>4, <2>5, <2>7, <2>8, <2>9 DEF VoiceInv
  <1>13. QED
    BY <1>11, <1>12

\* Who closes has the conversation ended behind him.
LEMMA SessionCloseKeeps ==
  ASSUME VoiceInv, NEW g \in Loops, CloseSession(g)
  PROVE  VoiceInv'
  <1>1. /\ VoiceTypeOK /\ Apart /\ Begun /\ ReleaseInv /\ Numbered /\ SavedStays /\ LeftIsLate
        /\ Loop("client") = client /\ Loop("reader") = reader /\ Loops = {"client", "reader"}
    BY DEF VoiceInv, Loops, Loop
  <1>2. /\ Loop(g).pc = "close" /\ UNCHANGED <<session, said, late, premature, convs, saver, up, faults>> /\ Builder' = Builder
        /\ gemini' = IF Loop(g).socket THEN "closed" ELSE gemini
        /\ ender' = IF session.conv = 0 THEN ender ELSE [ender EXCEPT ![session.conv] = "title"]
    BY DEF CloseSession, Builder
  <1>3. Loop(g) \in LoopRow /\ Loop(g).text = {}
    BY <1>1, <1>2, VoiceTypes DEF Begun
  <1>4. PICK r \in LoopRow : Moves(g, r) /\ r.pc \in {"exit", "gone", "read"} /\ r.text = {}
    <2>1. \E pc \in {"exit", "gone", "read"} : Goto(g, pc)
      BY DEF CloseSession, Return
    <2>2. QED
      BY <1>1, <1>3, <2>1, GoneTo DEF LoopPcs
  <1>5. /\ client' \in LoopRow /\ reader' \in LoopRow /\ Loop(g)' = r /\ \A h \in Loops : h # g => Loop(h)' = Loop(h)
        /\ g = "client" => client' = r /\ reader' = reader
        /\ g = "reader" => reader' = r /\ client' = client
    BY <1>1, <1>4, LoopMoves
  <1>6. VoiceTypeOK'
    <2>1. ender' \in [Rows -> {"idle", "title", "turns", "set", "end", "over"}]
      BY <1>1, <1>2 DEF VoiceTypeOK
    <2>2. QED
      BY <1>1, <1>2, <1>5, <2>1 DEF VoiceTypeOK, Made
  <1>7. Apart'
    BY <1>1, <1>2, <1>3, <1>4, <1>5 DEF Apart
  <1>8. Begun'
    <2>1. /\ \A h \in Loops : Loop(h)'.text # {} => Loop(h)'.pc \in {"persist", "endPersist"}
          /\ client'.pc \in {"dial", "create"} => client' = client /\ g = "reader"
          /\ reader.pc = "none" <=> reader'.pc = "none"
          /\ reader.pc = "none" => g = "client" /\ client'.text = {}
      BY <1>1, <1>2, <1>3, <1>4, <1>5 DEF Begun
    <2>2. up' /\ ~session'.started => client'.pc \notin {"dial", "create"} /\ reader'.pc = "none" /\ gemini' # "open"
      BY <1>1, <1>2, <1>4, <1>5, <2>1 DEF Begun
    <2>3. QED
      BY <1>1, <1>2, <1>5, <2>1, <2>2 DEF Begun
  <1>9. ReleaseInv'
    <2>1. \A h \in Ending : h # g => h \in Ending' /\ Loop(h)' = Loop(h)
      BY <1>5 DEF Ending
    <2>2. session.conv # 0 => Ended(session.conv)'
      BY <1>1, <1>2, VoiceTypes DEF Ended, VoiceTypeOK
    <2>3. QED
      BY <1>1, <1>2, <2>1, <2>2 DEF ReleaseInv
  <1>10. Numbered'
    BY <1>1, <1>2, <1>3, <1>4, <1>5 DEF Numbered
  <1>11. SavedStays' /\ LeftIsLate'
    BY <1>1, <1>2, <1>4, <1>5 DEF SavedStays, LeftIsLate, Live, Made
  <1>12. QED
    BY <1>6, <1>7, <1>8, <1>9, <1>10, <1>11 DEF VoiceInv

\* After a death nothing runs and no goroutine has anything in its hands.
LEMMA CrashKeeps ==
  ASSUME VoiceInv, Stopped, Crashed, faults' \in Nat
  PROVE  VoiceInv'
  <1>1. /\ VoiceTypeOK /\ Apart /\ Begun /\ Numbered
        /\ UNCHANGED <<session, said, late, premature, convs>> /\ ~up' /\ Builder' = Builder
        /\ client' = Goroutine("gone") /\ reader' = Goroutine("exit")
    BY DEF VoiceInv, Crashed, Stopped, Builder
  <1>2. /\ client' \in LoopRow /\ reader' \in LoopRow /\ client'.pc = "gone" /\ reader'.pc = "exit"
        /\ client'.text = {} /\ reader'.text = {} /\ \A h \in Loops : Loop(h)'.text = {}
    BY <1>1 DEF Goroutine, LoopRow, LoopPcs, Loop, Loops
  <1>3. ASSUME NEW t \in Turns
        PROVE  /\ saver'[t] \in SaverRow /\ saver'[t].pc \in {"idle", "over"} /\ (saver'[t].pc = "idle" <=> saver[t].pc = "idle")
               /\ saver'[t].conv = saver[t].conv /\ saver'[t].index = saver[t].index
    <2>1. saver[t] \in SaverRow /\ saver'[t] = IF saver[t].pc = "idle" THEN saver[t] ELSE [saver[t] EXCEPT !.pc = "over"]
      BY <1>1, VoiceTypes DEF Stopped
    <2>2. QED
      BY <2>1 DEF SaverRow
  <1>4. VoiceTypeOK'
    <2>1. saver' = [t \in Turns |-> saver'[t]] /\ ender' = [c \in Rows |-> IF ender[c] = "idle" THEN "idle" ELSE "over"]
      BY DEF Stopped
    <2>2. saver' \in [Turns -> SaverRow]
      BY <1>3, <2>1
    <2>3. ender' \in [Rows -> {"idle", "title", "turns", "set", "end", "over"}]
      BY <2>1
    <2>4. QED
      BY <1>1, <1>2, <2>2, <2>3 DEF VoiceTypeOK, Made
  <1>5. Apart'
    BY <1>1, <1>2 DEF Apart
  <1>6. Begun'
    BY <1>1, <1>2 DEF Begun
  <1>7. Numbered'
    BY <1>1, <1>2, <1>3 DEF Numbered
  <1>8. ReleaseInv' /\ SavedStays' /\ LeftIsLate'
    BY <1>1 DEF ReleaseInv, SavedStays, LeftIsLate
  <1>9. QED
    BY <1>4, <1>5, <1>6, <1>7, <1>8 DEF VoiceInv

-----------------------------------------------------------------------------
(* The goroutines behind the session, the user and the whole *)

\* The loops rest; savers, rows and enders change.
LEMMA RestKeeps ==
  ASSUME VoiceInv, UNCHANGED voiceVars, up' = up, VoiceTypeOK',
         \A t \in Turns : /\ saver'[t].conv = saver[t].conv /\ saver'[t].index = saver[t].index
                          /\ saver'[t].pc = "idle" <=> saver[t].pc = "idle"
                          /\ saver'[t].pc \in {"idle", "save", "title", "llm", "over"},
         session.conv # 0 /\ Ended(session.conv) => Ended(session.conv)',
         SavedStays'
  PROVE  VoiceInv'
  <1>1. /\ VoiceTypeOK /\ Apart /\ Begun /\ ReleaseInv /\ Numbered /\ LeftIsLate
        /\ UNCHANGED <<client, reader, gemini, session, said, late, premature>> /\ Builder' = Builder /\ Ending' = Ending
        /\ \A g \in Loops : Loop(g)' = Loop(g)
    BY DEF VoiceInv, voiceVars, Builder, Ending, Loop, Loops
  <1>2. Apart' /\ Begun' /\ LeftIsLate'
    BY <1>1 DEF Apart, Begun, LeftIsLate
  <1>3. Numbered'
    BY <1>1 DEF Numbered
  <1>4. ReleaseInv'
    <2>1. Ending \subseteq Loops
      BY DEF Ending
    <2>2. QED
      BY <1>1, <2>1 DEF ReleaseInv
  <1>5. QED
    BY <1>2, <1>3, <1>4 DEF VoiceInv

LEMMA SaverGoes ==
  ASSUME VoiceTypeOK, NEW t \in Turns, NEW pc \in {"title", "llm", "over"}, SaverTo(t, pc)
  PROVE  /\ saver' \in [Turns -> SaverRow] /\ saver'[t].pc = pc
         /\ saver'[t].conv = saver[t].conv /\ saver'[t].index = saver[t].index
         /\ \A u \in Turns : u # t => saver'[u] = saver[u]
  <1> DEFINE new == [saver[t] EXCEPT !.pc = pc]
  <1>1. new \in SaverRow /\ new.pc = pc /\ new.conv = saver[t].conv /\ new.index = saver[t].index
    BY DEF VoiceTypeOK, SaverRow
  <1>2. saver' = [saver EXCEPT ![t] = new]
    BY DEF SaverTo
  <1> HIDE DEF new
  <1>3. QED
    BY <1>1, <1>2 DEF VoiceTypeOK

LEMMA RowMoves ==
  ASSUME VoiceTypeOK, NEW c \in Made, NEW new \in ConvRow, convs' = [convs EXCEPT ![c] = new]
  PROVE  /\ convs' \in Seq(ConvRow) /\ Len(convs') = Len(convs) /\ Made' = Made
         /\ \A d \in Made : convs'[d] = IF d = c THEN new ELSE convs[d]
  BY VoiceTypes, ExceptSeq DEF VoiceTypeOK, Made

LEMMA TitleMoves ==
  ASSUME VoiceTypeOK, NEW c, NEW from, NEW title \in DOMAIN Ranks, Titled(c, from, title)
  PROVE  /\ convs' \in Seq(ConvRow) /\ Len(convs') = Len(convs) /\ Made' = Made
         /\ \A d \in Made : /\ convs'[d].ended = convs[d].ended /\ convs'[d].gone = convs[d].gone
                            /\ convs'[d].turns = convs[d].turns
  <1>1. CASE Live(c) /\ convs[c].title \in from
    <2> DEFINE new == [convs[c] EXCEPT !.title = title]
    <2>1. c \in Made /\ convs[c] \in ConvRow /\ convs' = [convs EXCEPT ![c] = new]
      BY <1>1, VoiceTypes DEF Live, Titled
    <2>2. new \in ConvRow /\ new.ended = convs[c].ended /\ new.gone = convs[c].gone /\ new.turns = convs[c].turns
      BY <2>1 DEF ConvRow
    <2> HIDE DEF new
    <2>3. /\ convs' \in Seq(ConvRow) /\ Len(convs') = Len(convs) /\ Made' = Made
          /\ \A d \in Made : convs'[d] = IF d = c THEN new ELSE convs[d]
      BY <2>1, <2>2, RowMoves
    <2>4. QED
      BY <2>2, <2>3
  <1>2. CASE ~(Live(c) /\ convs[c].title \in from)
    BY <1>2 DEF Titled, VoiceTypeOK, Made
  <1>3. QED
    BY <1>1, <1>2

LEMMA SaverKeeps ==
  ASSUME VoiceInv, NEW t \in Turns, SaverStep(t), UNCHANGED voiceVars
  PROVE  VoiceInv'
  <1>1. /\ VoiceTypeOK /\ Numbered /\ SavedStays /\ UNCHANGED <<client, reader, session, said>>
        /\ saver[t] \in SaverRow /\ session \in SessionRow
    BY VoiceTypes DEF VoiceInv, voiceVars
  <1>2. saver[t].pc \in {"idle", "save", "title", "llm", "over"}
    BY <1>1 DEF Numbered
  <1>3. /\ saver[t].pc \in {"save", "title", "llm"}
        /\ Save(t) \/ SetTitleIfEmpty(t) \/ SetLLMTitle(t) \/ SaveFails(t) \/ TitleFails(t)
    BY <1>2 DEF SaverStep, Find, Insert, Save, SetTitleIfEmpty, SetLLMTitle, SaveFails, TitleFails, Unsaved
  <1>4. PICK pc \in {"title", "llm", "over"} : SaverTo(t, pc)
    <2>1. CASE Save(t)
      BY <2>1 DEF Save
    <2>2. CASE ~Save(t)
      BY <1>3, <2>2 DEF SetTitleIfEmpty, SetLLMTitle, SaveFails, TitleFails
    <2>3. QED
      BY <2>1, <2>2
  <1>5. /\ saver' \in [Turns -> SaverRow] /\ saver'[t].pc = pc
        /\ saver'[t].conv = saver[t].conv /\ saver'[t].index = saver[t].index
        /\ \A u \in Turns : u # t => saver'[u] = saver[u]
    BY <1>1, <1>4, SaverGoes
  <1>6. /\ ender' = ender /\ up' = up
        /\ \/ faults' = faults
           \/ faults' = faults + 1
    BY <1>3 DEF Save, SetTitleIfEmpty, SetLLMTitle, SaveFails, TitleFails, Fault
  <1>7. faults' \in Nat /\ (faults' = 0 => faults = 0 /\ ~SaveFails(t))
    BY <1>1, <1>3, <1>6 DEF VoiceTypeOK, SaveFails, Fault
  <1>8. CASE Save(t)
    <2> DEFINE c == saver[t].conv
               new == Upserted(convs[c], saver[t].index, t)
    <2>1. CASE Live(c)
      <3>1. c \in Made /\ convs[c] \in ConvRow /\ convs' = [convs EXCEPT ![c] = new] /\ c = session.conv
        BY <1>1, <1>8, <2>1, VoiceTypes DEF Save, Live, Numbered
      <3>2. saver[t].index \in Indices
        <4>1. saver[t].index \in Nat /\ session.index \in Nat /\ MaxIndex \in Nat
          BY <1>1, VoiceTypes DEF SaverRow
        <4>2. saver[t].index < session.index /\ session.index <= MaxIndex
          BY <1>1, <1>3 DEF Numbered
        <4>3. QED
          BY <4>1, <4>2 DEF Indices
      <3>3. /\ new \in ConvRow /\ new.ended = convs[c].ended /\ new.gone = convs[c].gone
            /\ new.turns[saver[t].index] = t
            /\ \A i \in Indices : i # saver[t].index => new.turns[i] = convs[c].turns[i]
        <4> DEFINE turns == [convs[c].turns EXCEPT ![saver[t].index] = t]
        <4>1. /\ turns \in [Indices -> Turns \cup {NoTurn}] /\ turns[saver[t].index] = t
              /\ \A i \in Indices : i # saver[t].index => turns[i] = convs[c].turns[i]
          BY <3>1, <3>2 DEF ConvRow
        <4>2. new = [convs[c] EXCEPT !.turns = turns]
          BY DEF Upserted
        <4> HIDE DEF turns, new
        <4>3. QED
          BY <3>1, <4>1, <4>2 DEF ConvRow
      <3> HIDE DEF new
      <3>4. /\ convs' \in Seq(ConvRow) /\ Len(convs') = Len(convs) /\ Made' = Made
            /\ \A d \in Made : convs'[d] = IF d = c THEN new ELSE convs[d]
        BY <1>1, <3>1, <3>3, RowMoves
      <3>5. VoiceTypeOK'
        BY <1>1, <1>5, <1>6, <1>7, <3>4 DEF VoiceTypeOK
      <3>6. SavedStays'
        <4> SUFFICES ASSUME up', faults' = 0, Live(session.conv)', NEW u \in Turns, saver'[u].pc \in {"title", "llm", "over"}
                     PROVE  convs'[session.conv].turns[saver'[u].index] = u
          BY <1>1 DEF SavedStays
        <4>1. CASE u = t
          BY <1>5, <3>1, <3>3, <3>4, <4>1
        <4>2. CASE u # t
          <5>1. saver'[u] = saver[u] /\ saver[u].index # saver[t].index
            BY <1>1, <1>3, <1>5, <4>2 DEF Numbered
          <5>2. saver[u].index \in Indices
            <6>1. saver[u].index \in Nat /\ session.index \in Nat /\ MaxIndex \in Nat
              BY <1>1, VoiceTypes DEF SaverRow
            <6>2. saver[u].index < session.index /\ session.index <= MaxIndex
              BY <1>1, <5>1 DEF Numbered
            <6>3. QED
              BY <6>1, <6>2 DEF Indices
          <5>3. convs[session.conv].turns[saver[u].index] = u
            BY <1>1, <1>6, <1>7, <2>1, <3>1, <5>1 DEF SavedStays
          <5>4. QED
            BY <3>1, <3>3, <3>4, <5>1, <5>2, <5>3
        <4>3. QED
          BY <4>1, <4>2
      <3>7. session.conv # 0 /\ Ended(session.conv) => Ended(session.conv)'
        BY <1>1, <1>6, <3>1, <3>3, <3>4 DEF Ended
      <3>8. QED
        BY <1>1, <1>2, <1>3, <1>5, <1>6, <3>5, <3>6, <3>7, RestKeeps DEF Numbered
    <2>2. CASE ~Live(c)
      <3>1. convs' = convs /\ ~Live(session.conv)
        BY <1>1, <1>3, <1>8, <2>2 DEF Save, Numbered
      <3>2. VoiceTypeOK'
        BY <1>1, <1>5, <1>6, <1>7, <3>1 DEF VoiceTypeOK, Made
      <3>3. SavedStays'
        BY <1>1, <3>1 DEF SavedStays, Live, Made
      <3>4. session.conv # 0 /\ Ended(session.conv) => Ended(session.conv)'
        BY <1>1, <1>6, <3>1 DEF Ended
      <3>5. QED
        BY <1>1, <1>2, <1>3, <1>5, <1>6, <3>2, <3>3, <3>4, RestKeeps DEF Numbered
    <2>3. QED
      BY <2>1, <2>2
  <1>9. CASE ~Save(t)
    <2>1. /\ convs' \in Seq(ConvRow) /\ Len(convs') = Len(convs) /\ Made' = Made
          /\ \A d \in Made : /\ convs'[d].ended = convs[d].ended /\ convs'[d].gone = convs[d].gone
                             /\ convs'[d].turns = convs[d].turns
      <3>1. CASE UNCHANGED convs
        BY <1>1, <3>1 DEF VoiceTypeOK, Made
      <3>2. \/ UNCHANGED convs \/ Titled(saver[t].conv, {"empty"}, "auto") \/ Titled(saver[t].conv, LLMTitleFrom, "llm")
        BY <1>3, <1>9 DEF SetTitleIfEmpty, SetLLMTitle, SaveFails, TitleFails
      <3>3. {"auto", "llm"} \subseteq DOMAIN Ranks
        BY DEF Ranks
      <3>4. QED
        BY <1>1, <3>1, <3>2, <3>3, TitleMoves
    <2>2. VoiceTypeOK'
      BY <1>1, <1>5, <1>6, <1>7, <2>1 DEF VoiceTypeOK
    <2>3. saver[t].pc \in {"title", "llm"} \/ SaveFails(t)
      BY <1>3, <1>9 DEF SetTitleIfEmpty, SetLLMTitle, TitleFails
    <2>4. SavedStays'
      <3>1. Live(session.conv)' <=> Live(session.conv)
        BY <1>1, <2>1 DEF Live
      <3>2. QED
        BY <1>1, <1>5, <1>6, <1>7, <2>1, <2>3, <3>1 DEF SavedStays, Live
    <2>5. session.conv # 0 /\ Ended(session.conv) => Ended(session.conv)'
      BY <1>1, <1>6, <2>1 DEF Ended, VoiceTypeOK
    <2>6. QED
      BY <1>1, <1>2, <1>3, <1>5, <1>6, <2>2, <2>4, <2>5, RestKeeps DEF Numbered
  <1>10. QED
    BY <1>8, <1>9

\* Rows only gain by the user and the goroutine that ends them.
LEMMA RowKeeps ==
  ASSUME VoiceInv, NEW c \in Made, EnderStep(c) \/ UserStep(c), UNCHANGED voiceVars
  PROVE  VoiceInv'
  <1>1. /\ VoiceTypeOK /\ Numbered /\ SavedStays /\ UNCHANGED <<client, reader, session, said>>
        /\ convs[c] \in ConvRow /\ c \in Rows
    BY VoiceTypes DEF VoiceInv, voiceVars
  <1>2. UNCHANGED <<saver, up, faults>>
    BY DEF EnderStep, UserStep, EnsureTitle, LoadTurns, SetTitle, End, Rename, Delete
  <1>3. /\ convs' \in Seq(ConvRow) /\ Len(convs') = Len(convs) /\ Made' = Made
        /\ \A d \in Made : /\ convs[d].ended => convs'[d].ended
                           /\ convs[d].gone => convs'[d].gone
                           /\ convs'[d].gone \/ convs'[d].turns = convs[d].turns
    <2>1. CASE UNCHANGED convs
      BY <1>1, <2>1 DEF VoiceTypeOK, Made
    <2>2. CASE Titled(c, DOMAIN Ranks, "auto")
      <3>1. "auto" \in DOMAIN Ranks
        BY DEF Ranks
      <3>2. QED
        BY <1>1, <2>2, <3>1, TitleMoves
    <2>3. CASE \E title \in DOMAIN Ranks : convs' = [convs EXCEPT ![c] = [convs[c] EXCEPT !.title = title]]
      <3> PICK title \in DOMAIN Ranks : convs' = [convs EXCEPT ![c] = [convs[c] EXCEPT !.title = title]]
        BY <2>3
      <3> DEFINE new == [convs[c] EXCEPT !.title = title]
      <3>1. new \in ConvRow /\ new.ended = convs[c].ended /\ new.gone = convs[c].gone /\ new.turns = convs[c].turns
        BY <1>1 DEF ConvRow
      <3>2. convs' = [convs EXCEPT ![c] = new]
        OBVIOUS
      <3> HIDE DEF new
      <3>3. /\ convs' \in Seq(ConvRow) /\ Len(convs') = Len(convs) /\ Made' = Made
            /\ \A d \in Made : convs'[d] = IF d = c THEN new ELSE convs[d]
        BY <1>1, <3>1, <3>2, RowMoves
      <3>4. QED
        BY <3>1, <3>3
    <2>4. CASE convs' = [convs EXCEPT ![c] = [convs[c] EXCEPT !.ended = TRUE]]
      <3> DEFINE new == [convs[c] EXCEPT !.ended = TRUE]
      <3>1. new \in ConvRow /\ new.ended = TRUE /\ new.gone = convs[c].gone /\ new.turns = convs[c].turns
        BY <1>1 DEF ConvRow
      <3>2. convs' = [convs EXCEPT ![c] = new]
        BY <2>4
      <3> HIDE DEF new
      <3>3. /\ convs' \in Seq(ConvRow) /\ Len(convs') = Len(convs) /\ Made' = Made
            /\ \A d \in Made : convs'[d] = IF d = c THEN new ELSE convs[d]
        BY <1>1, <3>1, <3>2, RowMoves
      <3>4. QED
        BY <3>1, <3>3
    <2>5. CASE Delete(c)
      <3> DEFINE new == [convs[c] EXCEPT !.gone = TRUE, !.turns = [i \in Indices |-> NoTurn]]
      <3>1. new \in ConvRow /\ new.ended = convs[c].ended /\ new.gone = TRUE
        BY <1>1 DEF ConvRow
      <3>2. convs' = [convs EXCEPT ![c] = new]
        BY <2>5 DEF Delete
      <3> HIDE DEF new
      <3>3. /\ convs' \in Seq(ConvRow) /\ Len(convs') = Len(convs) /\ Made' = Made
            /\ \A d \in Made : convs'[d] = IF d = c THEN new ELSE convs[d]
        BY <1>1, <3>1, <3>2, RowMoves
      <3>4. QED
        BY <3>1, <3>3
    <2>6. Rename(c) => convs' = [convs EXCEPT ![c] = [convs[c] EXCEPT !.title = "user"]] /\ "user" \in DOMAIN Ranks
      BY DEF Rename, Ranks
    <2>7. End(c) => UNCHANGED convs \/ convs' = [convs EXCEPT ![c] = [convs[c] EXCEPT !.ended = TRUE]]
      BY DEF End
    <2>8. QED
      BY <2>1, <2>2, <2>3, <2>4, <2>5, <2>6, <2>7 DEF EnderStep, UserStep, EnsureTitle, LoadTurns, SetTitle
  <1>4. ender' \in [Rows -> {"idle", "title", "turns", "set", "end", "over"}]
    BY <1>1 DEF VoiceTypeOK, EnderStep, UserStep, EnsureTitle, LoadTurns, SetTitle, End, Rename, Delete, EnderTo
  <1>5. VoiceTypeOK'
    BY <1>1, <1>2, <1>3, <1>4 DEF VoiceTypeOK
  <1>6. SavedStays'
    <2>1. Live(session.conv)' => Live(session.conv) /\ convs'[session.conv].turns = convs[session.conv].turns
      BY <1>1, <1>3 DEF Live
    <2>2. QED
      BY <1>1, <1>2, <2>1 DEF SavedStays, Live
  <1>7. ASSUME session.conv # 0, Ended(session.conv) PROVE Ended(session.conv)'
    <2>1. session.conv \in Made /\ session.conv \in Rows
      BY <1>1, <1>7, VoiceTypes DEF VoiceTypeOK
    <2>2. CASE convs[session.conv].ended \/ convs[session.conv].gone
      BY <1>1, <1>3, <2>1, <2>2 DEF Ended
    <2>3. CASE session.conv = c /\ ender[c] \in {"title", "turns", "set", "end"}
      <3>1. CASE End(c)
        <4>1. CASE Live(c)
          <5> DEFINE new == [convs[c] EXCEPT !.ended = TRUE]
          <5>1. new \in ConvRow /\ new.ended
            BY <1>1 DEF ConvRow
          <5>2. convs' = [convs EXCEPT ![c] = new]
            BY <3>1, <4>1 DEF End
          <5> HIDE DEF new
          <5>a. \A d \in Made : convs'[d] = IF d = c THEN new ELSE convs[d]
            BY <1>1, <5>1, <5>2, RowMoves
          <5>3. convs'[c] = new
            BY <1>1, <5>a
          <5>4. QED
            BY <1>1, <2>3, <5>1, <5>3 DEF Ended
        <4>2. CASE ~Live(c)
          BY <1>1, <1>3, <2>3, <4>2 DEF Live, Ended
        <4>3. QED
          BY <4>1, <4>2
      <3>2. CASE ~End(c)
        <4>1. ender'[c] \in {"title", "turns", "set", "end"}
          BY <1>1, <2>3, <3>2 DEF VoiceTypeOK, EnderStep, UserStep, EnsureTitle, LoadTurns, SetTitle, Rename, Delete, EnderTo
        <4>2. QED
          BY <1>1, <2>3, <4>1 DEF Ended
      <3>3. QED
        BY <3>1, <3>2
    <2>4. CASE session.conv # c /\ ender[session.conv] \in {"title", "turns", "set", "end"}
      <3>1. ender'[session.conv] = ender[session.conv]
        BY <1>1, <2>1, <2>4 DEF VoiceTypeOK, EnderStep, UserStep, EnsureTitle, LoadTurns, SetTitle, End, Rename, Delete, EnderTo
      <3>2. QED
        BY <1>1, <2>4, <3>1 DEF Ended
    <2>5. QED
      BY <1>7, <2>2, <2>3, <2>4 DEF Ended
  <1>8. QED
    BY <1>1, <1>2, <1>5, <1>6, <1>7, RestKeeps DEF Numbered

LEMMA VoiceStarts == ChatInit /\ VoiceInit => VoiceInv
  <1> SUFFICES ASSUME ChatInit, VoiceInit PROVE VoiceInv
    OBVIOUS
  <1>1. VoiceTypeOK
    <2>1. IdleSaver \in SaverRow
      BY DEF IdleSaver, SaverRow
    <2>2. client \in LoopRow /\ reader \in LoopRow
      BY DEF VoiceInit, Goroutine, LoopRow, LoopPcs
    <2>3. session \in SessionRow /\ session.conv = 0
      BY DEF VoiceInit, SessionRow
    <2>4. said \in [Turns -> SUBSET Fragments]
      BY DEF VoiceInit
    <2>5. saver \in [Turns -> SaverRow] /\ convs \in Seq(ConvRow) /\ Len(convs) = 0 /\ faults \in Nat
          /\ ender \in [Rows -> {"idle", "title", "turns", "set", "end", "over"}]
      BY <2>1 DEF ChatInit
    <2>6. QED
      BY <2>2, <2>3, <2>4, <2>5, ConversationsAssumption DEF VoiceTypeOK
  <1>2. /\ client.text = {} /\ reader.text = {} /\ client.pc = "read" /\ reader.pc = "none" /\ Builder = {}
        /\ session.conv = 0 /\ session.index = 0 /\ ~session.started /\ ~session.ended /\ gemini = "none"
        /\ \A t \in Turns : said[t] = {} /\ saver[t].pc = "idle"
    BY DEF VoiceInit, ChatInit, Goroutine, Builder, IdleSaver
  <1>3. \A g \in Loops : Loop(g).text = {}
    BY <1>2 DEF Loop, Loops
  <1>4. Apart /\ Begun /\ ReleaseInv /\ SavedStays /\ LeftIsLate
    BY <1>2, <1>3 DEF Apart, Begun, ReleaseInv, SavedStays, LeftIsLate
  <1>5. Numbered
    BY <1>2, <1>3, ConversationsAssumption DEF Numbered
  <1>6. QED
    BY <1>1, <1>4, <1>5 DEF VoiceInv

LEMMA VoiceSteps == VoiceInv /\ [VoiceNext]_<<chatVars, voiceVars>> => VoiceInv'
  <1> SUFFICES ASSUME VoiceInv, [VoiceNext]_<<chatVars, voiceVars>> PROVE VoiceInv'
    OBVIOUS
  <1>1. CASE UNCHANGED <<chatVars, voiceVars>>
    <2>1. UNCHANGED <<convs, saver, ender, up, faults>> /\ UNCHANGED voiceVars
      BY <1>1 DEF chatVars
    <2>2. VoiceTypeOK' /\ SavedStays' /\ (session.conv # 0 /\ Ended(session.conv) => Ended(session.conv)')
      BY <2>1 DEF VoiceInv, VoiceTypeOK, SavedStays, Ended, Live, Made, voiceVars
    <2>3. QED
      BY <2>1, <2>2, RestKeeps DEF VoiceInv, Numbered
  <1>2. CASE up /\ (ClientStep \/ ReaderStep)
    <2>1. CASE ToolAnswer /\ ~session.gemini
      <3>1. Crashed /\ Stopped /\ faults' \in Nat
        BY <2>1 DEF ToolAnswer, VoiceInv, VoiceTypeOK
      <3>2. QED
        BY <3>1, CrashKeeps
    <2>2. QED
      BY <1>2, <2>1, VoiceLoopSteps, ClientKeeps, HearKeeps DEF ClientStep, ReaderStep
  <1>3. CASE \E g \in Loops : EndStep(g)
    BY <1>3, EndKeeps, FlushKeeps, PersistKeeps, SessionCloseKeeps DEF EndStep
  <1>4. CASE (\E t \in Turns : SaverStep(t)) /\ UNCHANGED voiceVars
    BY <1>4, SaverKeeps
  <1>5. CASE (\E c \in Made : EnderStep(c) \/ UserStep(c)) /\ UNCHANGED voiceVars
    BY <1>5, RowKeeps
  <1>6. CASE VoiceDies
    <2>1. Crashed /\ Stopped /\ faults' \in Nat
      BY <1>6 DEF VoiceDies, Dies, Fault, VoiceInv, VoiceTypeOK
    <2>2. QED
      BY <2>1, CrashKeeps
  <1>7. QED
    BY <1>1, <1>2, <1>3, <1>4, <1>5, <1>6 DEF VoiceNext

LEMMA VoiceHolds == VoiceSpec => []VoiceInv
  BY VoiceStarts, VoiceSteps, PTL DEF VoiceSpec

\* LiveVoice: when nothing runs for a session any more its socket is closed and
\* its conversation has ended, whichever loop ended it and whatever failed.
THEOREM SessionLetsGo == VoiceSpec => []SessionIsReleased
  <1>1. VoiceInv => SessionIsReleased
    <2> SUFFICES ASSUME VoiceInv, Over, ~premature PROVE gemini # "open" /\ (Live(session.conv) => convs[session.conv].ended)
      BY DEF SessionIsReleased
    <2>1. Ending = {}
      BY DEF Over, Ending, Loop, Loops
    <2>2. gemini # "open" /\ (session.conv # 0 => Ended(session.conv))
      BY <2>1 DEF VoiceInv, ReleaseInv, Over
    <2>3. Live(session.conv) => session.conv # 0 /\ session.conv \in Made /\ ~convs[session.conv].gone
      BY VoiceTypes DEF VoiceInv, Live
    <2>4. QED
      BY <2>2, <2>3 DEF Ended, Over
  <1>2. QED
    BY <1>1, VoiceHolds, PTL

\* LiveVoice: what was said is in one place at a time and, when the session is
\* over, stored with the one turn it went into, for any number of fragments and
\* turns and however the two loops interleave.
THEOREM SpokenIsStored == VoiceSpec => []SpokenIsKept
  <1>1. VoiceInv => SpokenIsKept
    <2> SUFFICES ASSUME VoiceInv PROVE SpokenIsKept
      OBVIOUS
    <2>0. VoiceTypeOK /\ Apart /\ Begun /\ Numbered /\ SavedStays /\ LeftIsLate
      BY DEF VoiceInv
    <2>1. ASSUME NEW f \in Fragments PROVE Places(f) <= 1
      <3> DEFINE P == {p \in {"builder"} \cup Loops : f \in Holding(p)}
                 T == {t \in Turns : f \in said[t]}
      <3>1. \A p, q \in P : p = q
        BY <2>0 DEF Holding, Loops, Loop, Apart, Builder
      <3>2. \A t, u \in T : t = u
        BY <2>0 DEF Apart
      <3>3. P = {} \/ T = {}
        BY <2>0 DEF Holding, Loops, Loop, Apart, Builder
      <3>4. P = {} \/ \E p \in P : P = {p}
        BY <3>1
      <3>5. T = {} \/ \E t \in T : T = {t}
        BY <3>2
      <3> HIDE DEF P, T
      <3>6. Cardinality(P) \in {0, 1} /\ (P = {} => Cardinality(P) = 0)
        BY <3>4, FS_EmptySet, FS_Singleton
      <3>7. Cardinality(T) \in {0, 1} /\ (T = {} => Cardinality(T) = 0)
        BY <3>5, FS_EmptySet, FS_Singleton
      <3>8. QED
        BY <3>3, <3>6, <3>7 DEF Places, P, T
    <2>2. ASSUME Over, faults = 0, Live(session.conv), NEW f \in Fragments \ (Fresh \cup echoed \cup late) PROVE Kept(f)
      <3>1. client.text = {} /\ reader.text = {} /\ \A g \in Loops : Loop(g).pc # "endFlush"
        BY <2>0, <2>2 DEF Over, Begun, Loop, Loops
      <3>2. f \notin Builder
        BY <2>0, <2>2, <3>1 DEF LeftIsLate, Over
      <3>3. PICK t \in Turns : f \in said[t]
        BY <2>2, <3>1, <3>2 DEF Fresh, Builder
      <3>4. session.conv # 0
        BY <2>0, <2>2, VoiceTypes DEF Live
      <3>5. saver[t].pc \in {"title", "llm", "over"}
        BY <2>0, <2>2, <3>3, <3>4 DEF Numbered, Over, Quiet, Unsaved
      <3>6. convs[session.conv].turns[saver[t].index] = t
        BY <2>0, <2>2, <3>5 DEF SavedStays, Over
      <3>7. saver[t].index \in Indices
        <4>1. saver[t].index \in Nat /\ session.index \in Nat /\ MaxIndex \in Nat
          BY <2>0, VoiceTypes DEF SaverRow
        <4>2. saver[t].index < session.index /\ session.index <= MaxIndex
          BY <2>0, <3>5 DEF Numbered
        <4>3. QED
          BY <4>1, <4>2 DEF Indices
      <3>8. QED
        BY <3>3, <3>6, <3>7 DEF Kept
    <2>3. QED
      BY <2>1, <2>2 DEF SpokenIsKept
  <1>2. QED
    BY <1>1, VoiceHolds, PTL

-----------------------------------------------------------------------------
(* Titles.  A step that is not EndAsync's writes a title over a lesser one. *)

NotWorse ==
  \A c \in Made : Live(c) /\ Ranks[convs'[c].title] < Ranks[convs[c].title] => ender[c] = "set"

LEMMA RanksOrder ==
  /\ Ranks["empty"] = 0 /\ Ranks["auto"] = 1 /\ Ranks["llm"] = 2 /\ Ranks["user"] = 3
  /\ DOMAIN Ranks = {"empty", "auto", "llm", "user"} /\ \A title \in DOMAIN Ranks : Ranks[title] \in 0..3
  BY DEF Ranks

LEMMA RankNumbers == \A title \in DOMAIN Ranks : Ranks[title] \in Nat /\ Ranks["user"] >= Ranks[title]
  BY DEF Ranks

LEMMA TitlesRank ==
  ASSUME convs \in Seq(ConvRow), NEW c \in Made
  PROVE  convs[c].title \in DOMAIN Ranks /\ Ranks[convs[c].title] \in Nat
  <1>1. convs[c] \in ConvRow
    BY DEF Made
  <1>2. convs[c].title \in DOMAIN Ranks
    BY <1>1 DEF ConvRow
  <1>3. QED
    BY <1>2, RankNumbers

LEMMA RowImproves ==
  ASSUME convs \in Seq(ConvRow), NEW c \in Made, NEW new, convs' = [convs EXCEPT ![c] = new],
         Live(c) => new.title = convs[c].title \/ Ranks[new.title] >= Ranks[convs[c].title] \/ ender[c] = "set",
         Live(c) => new.title \in DOMAIN Ranks
  PROVE  NotWorse
  <1> SUFFICES ASSUME NEW d \in Made, Live(d), Ranks[convs'[d].title] < Ranks[convs[d].title] PROVE ender[d] = "set"
    BY DEF NotWorse
  <1>1. convs'[d] = IF d = c THEN new ELSE convs[d]
    BY DEF Made
  <1>2. Ranks[convs[d].title] \in Nat
    BY TitlesRank
  <1>3. d = c
    BY <1>1, <1>2
  <1>4. Ranks[new.title] \in Nat
    BY <1>3, RankNumbers
  <1>5. QED
    BY <1>1, <1>2, <1>3, <1>4

LEMMA TitleImproves ==
  ASSUME convs \in Seq(ConvRow), NEW c, NEW from, NEW title \in DOMAIN Ranks, Titled(c, from, title),
         \A old \in from : Ranks[title] >= Ranks[old] \/ ender[c] = "set"
  PROVE  NotWorse
  <1>1. CASE Live(c) /\ convs[c].title \in from
    <2> DEFINE new == [convs[c] EXCEPT !.title = title]
    <2>1. c \in Made /\ convs' = [convs EXCEPT ![c] = new]
      BY <1>1 DEF Live, Titled
    <2>2. new.title = title
      BY <2>1 DEF ConvRow, Made
    <2> HIDE DEF new
    <2>3. QED
      BY <1>1, <2>1, <2>2, RowImproves
  <1>2. CASE ~(Live(c) /\ convs[c].title \in from)
    <2>1. convs' = convs
      BY <1>2 DEF Titled
    <2>2. \A d \in Made : Ranks[convs[d].title] \in Nat
      BY TitlesRank
    <2>3. QED
      BY <2>1, <2>2 DEF NotWorse
  <1>3. QED
    BY <1>1, <1>2

LEMMA SameRowsImprove ==
  ASSUME convs \in Seq(ConvRow), \A c \in Made : convs'[c].title = convs[c].title
  PROVE  NotWorse
  <1>1. \A d \in Made : Ranks[convs[d].title] \in Nat
    BY TitlesRank
  <1>2. QED
    BY <1>1 DEF NotWorse

LEMMA AppendImproves ==
  ASSUME convs \in Seq(ConvRow), NEW row, convs' = Append(convs, row)
  PROVE  NotWorse
  <1>1. \A c \in Made : convs'[c] = convs[c]
    BY DEF Made
  <1>2. QED
    BY <1>1, SameRowsImprove

LEMMA SaverImproves ==
  ASSUME convs \in Seq(ConvRow), NEW t \in Turns, SaverStep(t)
  PROVE  NotWorse
  <1>1. CASE Find(t) \/ SaveFails(t) \/ TitleFails(t)
    BY <1>1, SameRowsImprove DEF Find, SaveFails, TitleFails
  <1>2. CASE Insert(t)
    BY <1>2, AppendImproves DEF Insert
  <1>3. CASE Save(t)
    <2>1. CASE UNCHANGED convs
      BY <2>1, SameRowsImprove
    <2>2. CASE Live(saver[t].conv)
      <3> DEFINE c == saver[t].conv
                 new == Upserted(convs[c], saver[t].index, t)
      <3>1. c \in Made /\ convs' = [convs EXCEPT ![c] = new] /\ convs[c] \in ConvRow
        BY <1>3, <2>2 DEF Save, Live, Made
      <3>2. new.title = convs[c].title /\ new.title \in DOMAIN Ranks
        BY <3>1 DEF Upserted, ConvRow
      <3> HIDE DEF new, c
      <3>3. QED
        BY <3>1, <3>2, RowImproves
    <2>3. QED
      BY <1>3, <2>1, <2>2 DEF Save
  <1>4. CASE SetTitleIfEmpty(t)
    <2>1. Titled(saver[t].conv, {"empty"}, "auto") /\ \A old \in {"empty"} : Ranks["auto"] >= Ranks[old]
      BY <1>4, RanksOrder DEF SetTitleIfEmpty
    <2>2. QED
      BY <2>1, RanksOrder, TitleImproves
  <1>5. CASE SetLLMTitle(t)
    <2>1. \A old \in LLMTitleFrom : Ranks["llm"] >= Ranks[old]
      BY RanksOrder DEF LLMTitleFrom
    <2>2. UNCHANGED convs \/ Titled(saver[t].conv, LLMTitleFrom, "llm")
      BY <1>5 DEF SetLLMTitle
    <2>3. QED
      BY <2>1, <2>2, RanksOrder, TitleImproves, SameRowsImprove
  <1>6. QED
    BY <1>1, <1>2, <1>3, <1>4, <1>5 DEF SaverStep

LEMMA RowsImprove ==
  ASSUME convs \in Seq(ConvRow), NEW c \in Made, EnderStep(c) \/ UserStep(c)
  PROVE  NotWorse
  <1>1. convs[c] \in ConvRow
    BY DEF Made
  <1>2. CASE EnsureTitle(c) \/ LoadTurns(c)
    BY <1>2, SameRowsImprove DEF EnsureTitle, LoadTurns
  <1>3. CASE SetTitle(c)
    BY <1>3, RanksOrder, TitleImproves DEF SetTitle
  <1>4. CASE End(c)
    <2>1. CASE UNCHANGED convs
      BY <2>1, SameRowsImprove
    <2>2. CASE ~UNCHANGED convs
      <3> DEFINE new == [convs[c] EXCEPT !.ended = TRUE]
      <3>1. convs' = [convs EXCEPT ![c] = new] /\ new.title = convs[c].title /\ new.title \in DOMAIN Ranks
        BY <1>1, <1>4, <2>2 DEF End, ConvRow
      <3> HIDE DEF new
      <3>2. QED
        BY <3>1, RowImproves
    <2>3. QED
      BY <2>1, <2>2
  <1>5. CASE Rename(c)
    <2> DEFINE new == [convs[c] EXCEPT !.title = "user"]
    <2>1. convs' = [convs EXCEPT ![c] = new] /\ new.title = "user"
      BY <1>1, <1>5 DEF Rename, ConvRow
    <2> HIDE DEF new
    <2>2. convs[c].title \in DOMAIN Ranks /\ "user" \in DOMAIN Ranks
      BY <1>1, RanksOrder DEF ConvRow
    <2>3. Ranks[new.title] >= Ranks[convs[c].title] /\ new.title \in DOMAIN Ranks
      BY <2>1, <2>2, RankNumbers
    <2>4. QED
      BY <2>1, <2>3, RowImproves
  <1>6. CASE Delete(c)
    <2> DEFINE new == [convs[c] EXCEPT !.gone = TRUE, !.turns = [i \in Indices |-> NoTurn]]
    <2>1. convs' = [convs EXCEPT ![c] = new] /\ new.title = convs[c].title /\ new.title \in DOMAIN Ranks
      BY <1>1, <1>6 DEF Delete, ConvRow
    <2> HIDE DEF new
    <2>2. QED
      BY <2>1, RowImproves
  <1>7. QED
    BY <1>2, <1>3, <1>4, <1>5, <1>6 DEF EnderStep, UserStep

\* Conversations, LiveVoice: but for EndAsync, which found the title empty a
\* while ago, no step of a text session, a voice session, their goroutines or
\* the user puts a lesser title over a better one.
THEOREM TitlesOnlyImprove == (TextSpec => TitleNeverRegresses) /\ (VoiceSpec => TitleNeverRegresses)
  <1>1. ChatTypeOK /\ [TextNext]_chatVars => [NotWorse]_chatVars
    <2> SUFFICES ASSUME ChatTypeOK, TextNext PROVE NotWorse
      OBVIOUS
    <2>1. convs \in Seq(ConvRow) /\ (edit.pc = "delete" => edit.conv \in Made)
      BY DEF ChatTypeOK
    <2>2. CASE \E t \in Turns : SaverStep(t)
      BY <2>1, <2>2, SaverImproves
    <2>3. CASE \E c \in Made : UserStep(c)
      BY <2>1, <2>3, RowsImprove
    <2>4. CASE DeleteTurnsFrom
      <3> DEFINE c == edit.conv
                 new == [convs[c] EXCEPT !.turns = Cut(@, edit.from)]
      <3>1. c \in Made /\ convs' = [convs EXCEPT ![c] = new] /\ convs[c] \in ConvRow
        BY <2>1, <2>4 DEF DeleteTurnsFrom, Made
      <3>2. new.title = convs[c].title /\ new.title \in DOMAIN Ranks
        BY <3>1 DEF ConvRow
      <3> HIDE DEF new, c
      <3>3. QED
        BY <2>1, <3>1, <3>2, RowImproves
    <2>5. CASE UNCHANGED convs
      BY <2>1, <2>5, SameRowsImprove
    <2>6. QED
      BY <2>2, <2>3, <2>4, <2>5 DEF TextNext, Post, TruncateTurns, FindTextByClientSession, Dies, Stopped
  <1>2. VoiceInv /\ [VoiceNext]_<<chatVars, voiceVars>> => [NotWorse]_chatVars
    <2> SUFFICES ASSUME VoiceInv, [VoiceNext]_<<chatVars, voiceVars>>, ~UNCHANGED chatVars PROVE NotWorse
      OBVIOUS
    <2>1. convs \in Seq(ConvRow) /\ VoiceNext
      BY DEF VoiceInv, VoiceTypeOK
    <2>2. CASE \E t \in Turns : SaverStep(t)
      BY <2>1, <2>2, SaverImproves
    <2>3. CASE \E c \in Made : EnderStep(c) \/ UserStep(c)
      BY <2>1, <2>3, RowsImprove
    <2>4. CASE CreateConversation
      <3>1. UNCHANGED convs \/ convs' = Append(convs, Row(FALSE))
        BY <2>4 DEF CreateConversation
      <3>2. QED
        BY <2>1, <3>1, SameRowsImprove, AppendImproves
    <2>5. CASE UNCHANGED convs
      BY <2>1, <2>5, SameRowsImprove
    <2>6. UNCHANGED convs \/ CreateConversation \/ (\E t \in Turns : SaverStep(t)) \/ \E c \in Made : EnderStep(c) \/ UserStep(c)
      <3>1. CASE VoiceDies
        BY <3>1 DEF VoiceDies, Dies, Stopped
      <3>2. CASE up /\ ClientStep
        BY <3>2 DEF ClientStep, StartSession, DialGemini, SessionEnd, chatVars
      <3>3. CASE up /\ ReaderStep
        BY <3>3 DEF ReaderStep, ReaderLoop, HearUser, HearAssistant, CheckEcho, ToolCall, ToolAnswer, TurnComplete, ReadFails,
                    Stopped, chatVars
      <3>4. CASE up /\ \E g \in Loops : EndStep(g)
        BY <3>4 DEF EndStep, EndSession, FlushTurn, PersistTurn, CloseSession, chatVars
      <3>5. QED
        BY <2>1, <3>1, <3>2, <3>3, <3>4 DEF VoiceNext
    <2>7. QED
      BY <2>2, <2>3, <2>4, <2>5, <2>6
  <1>3. TextSpec => []ChatTypeOK
    <2>1. ChatInv => ChatTypeOK
      BY DEF ChatInv
    <2>2. QED
      BY <2>1, ChatStarts, ChatSteps, PTL DEF TextSpec
  <1>4. [][NotWorse]_chatVars <=> TitleNeverRegresses
    BY DEF TitleNeverRegresses, NotWorse
  <1>5. QED
    BY <1>1, <1>2, <1>3, <1>4, VoiceHolds, PTL DEF TextSpec, VoiceSpec

-----------------------------------------------------------------------------
(* Runs on the user's own computer.  Once the device is revoked the server   *)
(* admits no further call of it; what is left is the write of a call whose   *)
(* check was passed before, and the heartbeat of a claim that was.  A drain  *)
(* that has made its late write stands at neither.                           *)

RunStatuses == {"none", "queued", "running", "waiting_for_user", "succeeded", "failed", "cancelled"}
DeviceRun == [status : RunStatuses, leased : BOOLEAN]
DrainPcs == {"idle", "list", "claim", "beat", "beatWrite", "workspace", "giveBack", "fresh", "model",
             "closed", "fail", "finishWrite"}
DrainRow == [pc : DrainPcs, run : Runs \cup {NoRun}, then : {"none", "workspace", "model"},
             outcome : {"none", "succeeded", "waiting_for_user", "failed"}, turns : Nat, killed : BOOLEAN]

\* A drain that has found a run has it, a heartbeat knows where it leads, and a
\* write that ends the run knows how.
DrainHas(row) ==
  /\ row.pc \notin {"idle", "list"} => row.run \in Runs
  /\ row.pc \in {"beat", "beatWrite"} => row.then # "none"
  /\ row.pc = "finishWrite" => row.outcome # "none"

DrainsTyped == go \in [Goroutines -> DrainRow] /\ \A g \in Goroutines : DrainHas(go[g])

LocalTypeOK ==
  /\ run \in [Runs -> DeviceRun]
  /\ device \in [revoked : BOOLEAN, known : SUBSET Runs, offered : SUBSET Runs]
  /\ localWorker \in [active : Runs \cup {NoRun}, holder : Goroutines, paused : BOOLEAN, beating : BOOLEAN]
  /\ DrainsTyped
  /\ request \in [Requests -> [pc : {"idle", "cancel", "requeue"}, run : Runs \cup {NoRun}]]
  /\ lateWrites \in [Goroutines -> Nat]

\* Where a drain may still write although the server admits no call of it.
MayWrite(row) == row.pc \in {"beatWrite", "finishWrite"} \/ (row.pc = "beat" /\ row.then = "workspace")

LateOf(row, n) == /\ n <= 1
                  /\ ~device.revoked => n = 0
                  /\ MayWrite(row) => n = 0

LateOnes == \A g \in Goroutines : LateOf(go[g], lateWrites[g])

LocalInv == LocalTypeOK /\ LateOnes

-----------------------------------------------------------------------------
LEMMA DrainOf ==
  ASSUME DrainsTyped, NEW g \in Goroutines
  PROVE  go[g] \in DrainRow /\ DrainHas(go[g])
  BY DEF DrainsTyped

LEMMA IdleDrains == IdleDrain \in DrainRow /\ DrainHas(IdleDrain) /\ ~MayWrite(IdleDrain)
  BY DEF IdleDrain, DrainRow, DrainHas, DrainPcs, MayWrite

\* A drain moves and writes nothing: it gets to a write by a call that is admitted.
LEMMA DrainMoves ==
  ASSUME LocalInv, NEW g \in Goroutines, NEW row \in DrainRow, DrainHas(row),
         go' = [go EXCEPT ![g] = row], UNCHANGED <<device, lateWrites>>,
         MayWrite(row) => MayWrite(go[g]) \/ ~device.revoked
  PROVE  DrainsTyped' /\ LateOnes'
<1>1. /\ go' \in [Goroutines -> DrainRow]
      /\ \A h \in Goroutines : go'[h] = IF h = g THEN row ELSE go[h]
  BY DEF LocalInv, LocalTypeOK, DrainsTyped
<1>2. DrainsTyped'
  BY <1>1, DrainOf DEF DrainsTyped, LocalInv, LocalTypeOK
<1>3. ASSUME NEW h \in Goroutines PROVE LateOf(go[h], lateWrites[h])'
  <2>1. LateOf(go[h], lateWrites[h])
    BY DEF LocalInv, LateOnes
  <2>2. CASE h = g
    BY <1>1, <2>1, <2>2 DEF LateOf
  <2>3. CASE h # g
    BY <1>1, <2>1, <2>3 DEF LateOf
  <2> QED
    BY <2>2, <2>3
<1> QED
  BY <1>2, <1>3 DEF LateOnes

\* A drain writes where it may, and does not stand there any more.
LEMMA DrainWrites ==
  ASSUME LocalInv, NEW g \in Goroutines, NEW row \in DrainRow, DrainHas(row), NEW d \in DeviceRun,
         go' = [go EXCEPT ![g] = row], UNCHANGED device, Set(g, d),
         ~MayWrite(row), MayWrite(go[g]) \/ ~device.revoked
  PROVE  /\ DrainsTyped' /\ LateOnes'
         /\ run' \in [Runs -> DeviceRun] /\ lateWrites' \in [Goroutines -> Nat]
<1>0. /\ run \in [Runs -> DeviceRun] /\ lateWrites \in [Goroutines -> Nat] /\ DrainsTyped
      /\ device.revoked \in BOOLEAN
  BY DEF LocalInv, LocalTypeOK
<1>1. /\ go' \in [Goroutines -> DrainRow]
      /\ \A h \in Goroutines : go'[h] = IF h = g THEN row ELSE go[h]
  BY <1>0 DEF DrainsTyped
<1>2. DrainsTyped'
  BY <1>0, <1>1, DrainOf DEF DrainsTyped
<1>3. run' \in [Runs -> DeviceRun]
  BY <1>0 DEF Set
<1>4. LateOf(go[g], lateWrites[g])
  BY DEF LocalInv, LateOnes
<1>5. lateWrites[g] = 0
  BY <1>4 DEF LateOf
<1>6. /\ lateWrites' \in [Goroutines -> Nat]
      /\ \A h \in Goroutines : h # g => lateWrites'[h] = lateWrites[h]
      /\ lateWrites'[g] = IF device.revoked THEN 1 ELSE 0
  <2>1. CASE device.revoked
    BY <1>0, <1>5, <2>1 DEF Set
  <2>2. CASE ~device.revoked
    BY <1>0, <1>5, <2>2 DEF Set
  <2> QED
    BY <2>1, <2>2
<1>7. ASSUME NEW h \in Goroutines PROVE LateOf(go[h], lateWrites[h])'
  <2>1. LateOf(go[h], lateWrites[h])
    BY DEF LocalInv, LateOnes
  <2>2. CASE h = g
    BY <1>1, <1>6, <2>2 DEF LateOf
  <2>3. CASE h # g
    BY <1>1, <1>6, <2>1, <2>3 DEF LateOf
  <2> QED
    BY <2>2, <2>3
<1> QED
  BY <1>2, <1>3, <1>6, <1>7 DEF LateOnes

LEMMA DrainEnds ==
  ASSUME LocalInv, NEW g \in Goroutines, DrainOver(g), UNCHANGED <<device, lateWrites>>
  PROVE  DrainsTyped' /\ LateOnes'
  BY IdleDrains, DrainMoves DEF DrainOver

\* A drain goes on to a place it may write at only from such a place, or admitted.
LEMMA DrainGoes ==
  ASSUME LocalInv, NEW g \in Goroutines, NEW pc \in DrainPcs, At(g, pc), UNCHANGED <<device, lateWrites>>,
         pc \notin {"idle", "list"} => go[g].run \in Runs,
         pc \in {"beat", "beatWrite"} => go[g].then # "none",
         pc = "finishWrite" => go[g].outcome # "none",
         pc \in {"beat", "beatWrite", "finishWrite"} => MayWrite(go[g]) \/ ~device.revoked
  PROVE  DrainsTyped' /\ LateOnes'
<1>1. PICK row : row = [go[g] EXCEPT !.pc = pc]
  OBVIOUS
<1>2. go[g] \in DrainRow
  BY DrainOf DEF LocalInv, LocalTypeOK
<1>3. /\ row \in DrainRow /\ row.pc = pc /\ row.run = go[g].run /\ row.then = go[g].then
      /\ row.outcome = go[g].outcome
  BY <1>1, <1>2 DEF DrainRow
<1>4. DrainHas(row)
  BY <1>3 DEF DrainHas
<1>5. MayWrite(row) => MayWrite(go[g]) \/ ~device.revoked
  BY <1>3 DEF MayWrite
<1>6. go' = [go EXCEPT ![g] = row]
  BY <1>1 DEF At
<1> QED
  BY <1>3, <1>4, <1>5, <1>6, DrainMoves

\* What a drain finds is one of the runs.
LEMMA LatestIsARun ==
  ASSUME NEW S \in SUBSET Runs, S # {}
  PROVE  Max(S) \in S
<1> DEFINE T == {k \in Nat : MaxRuns - k \in S}
<1>0. MaxRuns \in Nat
  BY LocalBounds
<1>1. T # {}
  <2>1. PICK c \in S : TRUE
    OBVIOUS
  <2>2. MaxRuns - c \in Nat /\ MaxRuns - (MaxRuns - c) = c
    BY <1>0, <2>1 DEF Runs
  <2> QED
    BY <2>1, <2>2
<1>2. PICK k \in T : \A l \in T : ~(<<l, k>> \in OpToRel(<, Nat))
  BY <1>1, NatLessThanWellFounded, WFMin
<1>3. k \in Nat /\ MaxRuns - k \in S
  OBVIOUS
<1>4. ASSUME NEW c \in S PROVE MaxRuns - k >= c
  <2>1. MaxRuns - c \in Nat /\ MaxRuns - (MaxRuns - c) = c /\ c \in Nat
    BY <1>0 DEF Runs
  <2>2. MaxRuns - c \in T
    BY <2>1
  <2>3. ~(MaxRuns - c < k)
    BY <1>2, <2>1, <2>2 DEF OpToRel
  <2> QED
    BY <1>0, <1>3, <2>1, <2>3
<1>5. \E x \in S : \A y \in S : x >= y
  BY <1>3, <1>4
<1> QED
  BY <1>5 DEF Max

WorkerTyped ==
  localWorker \in [active : Runs \cup {NoRun}, holder : Goroutines, paused : BOOLEAN, beating : BOOLEAN]

LEMMA Leaves ==
  ASSUME LocalInv, NEW g \in Goroutines, Leave(g)
  PROVE  DrainOver(g) /\ WorkerTyped'
<1>1. DrainOver(g) /\ (Release \/ UNCHANGED localWorker) /\ WorkerTyped
  BY DEF Leave, LocalInv, LocalTypeOK, WorkerTyped
<1> QED
  BY <1>1 DEF Release, WorkerTyped, Goroutines

\* Whatever a drain does, it and what it has written stay in order.
LEMMA DrainsKeep ==
  ASSUME LocalInv, NEW g \in Goroutines, DrainStep(g) \/ CallFails(g)
  PROVE  LocalInv'
<1>0. /\ WorkerTyped /\ go[g] \in DrainRow /\ DrainHas(go[g])
      /\ run \in [Runs -> DeviceRun] /\ lateWrites \in [Goroutines -> Nat]
  BY DrainOf DEF LocalInv, LocalTypeOK, WorkerTyped
<1>1. UNCHANGED <<device, request>>
  BY DEF DrainStep, CallFails, FindRun, ClaimRun, EnterRun, GiveBack, Heartbeat, HeartbeatWrite, ReadFresh,
     Complete, ActOnAnswer, FailRead, FinishWrite, Killed, server
<1> SUFFICES /\ WorkerTyped' /\ DrainsTyped' /\ LateOnes'
             /\ run' \in [Runs -> DeviceRun] /\ lateWrites' \in [Goroutines -> Nat]
  BY <1>1 DEF LocalInv, LocalTypeOK, WorkerTyped
<1>q. ASSUME UNCHANGED <<run, lateWrites>>, DrainsTyped' /\ LateOnes', WorkerTyped'
      PROVE  /\ WorkerTyped' /\ DrainsTyped' /\ LateOnes'
             /\ run' \in [Runs -> DeviceRun] /\ lateWrites' \in [Goroutines -> Nat]
  BY <1>0, <1>q
<1>w. ASSUME UNCHANGED localWorker PROVE WorkerTyped'
  BY <1>0, <1>w DEF WorkerTyped
<1>2. CASE FindRun(g)
  <2>0. UNCHANGED <<run, lateWrites, localWorker>> /\ go[g].pc = "list"
    BY <1>2 DEF FindRun, Alive, server
  <2>1. PICK runs \in SUBSET Runs :
          IF runs = {} THEN DrainOver(g) ELSE go' = [go EXCEPT ![g].pc = "claim", ![g].run = Max(runs)]
    BY <1>2 DEF FindRun, With
  <2>2. CASE runs = {}
    BY <1>1, <1>q, <1>w, <2>0, <2>1, <2>2, DrainEnds
  <2>3. CASE runs # {}
    <3>1. PICK r \in Runs : r = Max(runs)
      BY <2>3, LatestIsARun
    <3>2. PICK row : row = [go[g] EXCEPT !.pc = "claim", !.run = r]
      OBVIOUS
    <3>3. row \in DrainRow /\ DrainHas(row) /\ ~MayWrite(row)
      BY <1>0, <3>2 DEF DrainRow, DrainPcs, DrainHas, MayWrite
    <3>4. go' = [go EXCEPT ![g] = row]
      BY <2>1, <2>3, <3>1, <3>2
    <3> QED
      BY <1>1, <1>q, <1>w, <2>0, <3>3, <3>4, DrainMoves
  <2> QED
    BY <2>2, <2>3
<1>3. CASE ClaimRun(g)
  <2>0. UNCHANGED <<run, lateWrites, localWorker>> /\ go[g].run \in Runs
    BY <1>0, <1>3 DEF ClaimRun, Alive, server, DrainHas
  <2>1. CASE DrainOver(g)
    BY <1>1, <1>q, <1>w, <2>0, <2>1, DrainEnds
  <2>2. CASE Admitted /\ go' = [go EXCEPT ![g].pc = "beat", ![g].then = "workspace"]
    <3>1. PICK row : row = [go[g] EXCEPT !.pc = "beat", !.then = "workspace"]
      OBVIOUS
    <3>2. row \in DrainRow /\ DrainHas(row)
      BY <1>0, <2>0, <3>1 DEF DrainRow, DrainPcs, DrainHas
    <3>3. go' = [go EXCEPT ![g] = row]
      BY <2>2, <3>1
    <3> QED
      BY <1>1, <1>q, <1>w, <2>0, <2>2, <3>2, <3>3, DrainMoves DEF Admitted
  <2> QED
    BY <1>3, <2>1, <2>2 DEF ClaimRun
<1>g. ASSUME go[g].pc \in {"beat", "beatWrite"}, Goes(g)
      PROVE  \E row \in DrainRow : DrainHas(row) /\ ~MayWrite(row) /\ go' = [go EXCEPT ![g] = row]
  <2>1. PICK row : row = [go[g] EXCEPT !.pc = go[g].then, !.then = "none"]
    OBVIOUS
  <2>2. go[g].then \in {"workspace", "model"} /\ go[g].run \in Runs
    BY <1>0, <1>g DEF DrainHas, DrainRow
  <2>3. row \in DrainRow /\ DrainHas(row) /\ ~MayWrite(row)
    BY <1>0, <2>1, <2>2 DEF DrainRow, DrainPcs, DrainHas, MayWrite
  <2>4. go' = [go EXCEPT ![g] = row]
    BY <1>g, <2>1 DEF Goes
  <2> QED
    BY <2>3, <2>4
<1>4. CASE Heartbeat(g)
  <2>0. UNCHANGED <<run, lateWrites>> /\ go[g].pc = "beat"
    BY <1>4 DEF Heartbeat, Alive, server
  <2>1. CASE Admitted \/ go[g].then = "workspace"
    <3>0. UNCHANGED localWorker
      BY <1>4, <2>1 DEF Heartbeat
    <3>1. CASE Goes(g)
      <4>1. PICK row \in DrainRow : DrainHas(row) /\ ~MayWrite(row) /\ go' = [go EXCEPT ![g] = row]
        BY <1>g, <2>0, <3>1
      <4> QED
        BY <1>1, <1>q, <1>w, <2>0, <3>0, <4>1, DrainMoves
    <3>2. CASE At(g, "beatWrite")
      <4>1. MayWrite(go[g]) \/ ~device.revoked
        BY <2>0, <2>1 DEF MayWrite, Admitted
      <4>2. DrainsTyped' /\ LateOnes'
        BY <1>0, <1>1, <2>0, <3>2, <4>1, DrainGoes DEF DrainHas, DrainPcs
      <4> QED
        BY <1>q, <1>w, <2>0, <3>0, <4>2
    <3> QED
      BY <1>4, <2>1, <3>1, <3>2 DEF Heartbeat
  <2>2. CASE ~(Admitted \/ go[g].then = "workspace")
    <3>1. DrainOver(g) /\ WorkerTyped'
      BY <1>4, <2>2, Leaves DEF Heartbeat
    <3> QED
      BY <1>1, <1>q, <2>0, <3>1, DrainEnds
  <2> QED
    BY <2>1, <2>2
<1>5. CASE HeartbeatWrite(g)
  <2>1. PICK d \in DeviceRun : d = [status |-> "running", leased |-> TRUE]
    BY DEF DeviceRun, RunStatuses
  <2>2. Set(g, d) /\ Goes(g) /\ go[g].pc = "beatWrite" /\ UNCHANGED localWorker
    BY <1>5, <2>1 DEF HeartbeatWrite
  <2>3. PICK row \in DrainRow : DrainHas(row) /\ ~MayWrite(row) /\ go' = [go EXCEPT ![g] = row]
    BY <1>g, <2>2
  <2> QED
    BY <1>1, <1>w, <2>2, <2>3, DrainWrites DEF MayWrite
<1>6. CASE EnterRun(g)
  <2>0. UNCHANGED <<run, lateWrites>> /\ go[g].pc = "workspace" /\ go[g].run \in Runs
    BY <1>0, <1>6 DEF EnterRun, Alive, server, DrainHas
  <2>1. CASE go[g].run \in device.known
    <3>1. PICK row : row = [go[g] EXCEPT !.pc = "fresh", !.turns = MaxTurns]
      OBVIOUS
    <3>2. row \in DrainRow /\ DrainHas(row) /\ ~MayWrite(row)
      BY <1>0, <2>0, <3>1, LocalBounds DEF DrainRow, DrainPcs, DrainHas, MayWrite
    <3>3. go' = [go EXCEPT ![g] = row]
      BY <1>6, <2>1, <3>1 DEF EnterRun
    <3>4. WorkerTyped'
      BY <1>0, <1>6, <2>0, <2>1 DEF EnterRun, WorkerTyped
    <3> QED
      BY <1>1, <1>q, <2>0, <3>2, <3>3, <3>4, DrainMoves
  <2>2. CASE go[g].run \notin device.known
    <3>1. At(g, "giveBack") /\ UNCHANGED localWorker
      BY <1>6, <2>2 DEF EnterRun
    <3>2. DrainsTyped' /\ LateOnes'
      BY <1>0, <1>1, <2>0, <3>1, DrainGoes DEF DrainPcs
    <3> QED
      BY <1>q, <1>w, <2>0, <3>1, <3>2
  <2> QED
    BY <2>1, <2>2
<1>7. CASE GiveBack(g)
  <2>1. CASE Admitted
    <3>1. PICK d \in DeviceRun : d = [status |-> "queued", leased |-> FALSE]
      BY DEF DeviceRun, RunStatuses
    <3>2. Set(g, d) /\ DrainOver(g) /\ UNCHANGED localWorker
      BY <1>7, <2>1, <3>1 DEF GiveBack
    <3> QED
      BY <1>1, <1>w, <2>1, <3>2, IdleDrains, DrainWrites DEF DrainOver, Admitted
  <2>2. CASE ~Admitted
    BY <1>1, <1>7, <1>q, <1>w, <2>2, DrainEnds DEF GiveBack
  <2> QED
    BY <2>1, <2>2
<1>8. CASE ReadFresh(g)
  <2>0. UNCHANGED <<run, lateWrites>> /\ go[g].pc = "fresh" /\ go[g].run \in Runs /\ go[g].turns \in Nat
    BY <1>0, <1>8 DEF ReadFresh, Alive, server, DrainHas, DrainRow
  <2>1. CASE go[g].turns = 0
    <3>1. At(g, "fail") /\ UNCHANGED localWorker
      BY <1>8, <2>1 DEF ReadFresh
    <3>2. DrainsTyped' /\ LateOnes'
      BY <1>0, <1>1, <2>0, <3>1, DrainGoes DEF DrainPcs
    <3> QED
      BY <1>q, <1>w, <2>0, <3>1, <3>2
  <2>2. CASE go[g].turns > 0 /\ Terminal(run[go[g].run].status)
    <3>1. DrainOver(g) /\ WorkerTyped'
      BY <1>8, <2>2, Leaves DEF ReadFresh
    <3> QED
      BY <1>1, <1>q, <2>0, <3>1, DrainEnds
  <2>3. CASE go[g].turns > 0 /\ ~Terminal(run[go[g].run].status)
    <3>1. PICK n \in Nat : n = go[g].turns - 1
      BY <2>0, <2>3
    <3>2. PICK row : row = [go[g] EXCEPT !.pc = "beat", !.then = "model", !.turns = n]
      OBVIOUS
    <3>3. row \in DrainRow /\ DrainHas(row) /\ ~MayWrite(row)
      BY <1>0, <2>0, <3>2 DEF DrainRow, DrainPcs, DrainHas, MayWrite
    <3>4. go' = [go EXCEPT ![g].pc = "beat", ![g].then = "model", ![g].turns = go[g].turns - 1]
          /\ UNCHANGED localWorker
      BY <1>8, <2>3 DEF ReadFresh
    <3>5. go' = [go EXCEPT ![g] = row]
      BY <3>1, <3>2, <3>4
    <3> QED
      BY <1>1, <1>q, <1>w, <2>0, <3>3, <3>4, <3>5, DrainMoves
  <2> QED
    BY <2>0, <2>1, <2>2, <2>3
<1>9. CASE Complete(g)
  <2>0. UNCHANGED <<run, lateWrites, localWorker>> /\ go[g].run \in Runs
    BY <1>0, <1>9 DEF Complete, Alive, server, DrainHas
  <2>1. PICK pc \in {"closed", "fail"} : At(g, pc)
    BY <1>9 DEF Complete
  <2>2. DrainsTyped' /\ LateOnes'
    BY <1>0, <1>1, <2>0, <2>1, DrainGoes DEF DrainPcs
  <2> QED
    BY <1>q, <1>w, <2>0, <2>2
<1>f. ASSUME Admitted, go[g].run \in Runs, NEW outcome \in {"succeeded", "waiting_for_user", "failed"},
             go' = [go EXCEPT ![g].pc = "finishWrite", ![g].outcome = outcome], UNCHANGED lateWrites
      PROVE  DrainsTyped' /\ LateOnes'
  <2>1. PICK row : row = [go[g] EXCEPT !.pc = "finishWrite", !.outcome = outcome]
    OBVIOUS
  <2>2. row \in DrainRow /\ DrainHas(row)
    BY <1>0, <1>f, <2>1 DEF DrainRow, DrainPcs, DrainHas
  <2>3. go' = [go EXCEPT ![g] = row]
    BY <1>f, <2>1
  <2> QED
    BY <1>1, <1>f, <2>2, <2>3, DrainMoves DEF Admitted
<1>10. CASE ActOnAnswer(g)
  <2>0. UNCHANGED <<run, lateWrites>> /\ go[g].run \in Runs
    BY <1>0, <1>10 DEF ActOnAnswer, Alive, server, DrainHas
  <2>1. CASE Leave(g)
    BY <1>1, <1>q, <2>0, <2>1, Leaves, DrainEnds
  <2>2. CASE At(g, "fresh") /\ UNCHANGED localWorker
    <3>1. DrainsTyped' /\ LateOnes'
      BY <1>0, <1>1, <2>0, <2>2, DrainGoes DEF DrainPcs
    <3> QED
      BY <1>q, <1>w, <2>0, <2>2, <3>1
  <2>3. CASE /\ Admitted /\ UNCHANGED localWorker
             /\ \E outcome \in {"succeeded", "waiting_for_user"} :
                   go' = [go EXCEPT ![g].pc = "finishWrite", ![g].outcome = outcome]
    <3>1. PICK outcome \in {"succeeded", "waiting_for_user", "failed"} :
            go' = [go EXCEPT ![g].pc = "finishWrite", ![g].outcome = outcome]
      BY <2>3
    <3>2. DrainsTyped' /\ LateOnes'
      BY <1>f, <2>0, <2>3, <3>1
    <3> QED
      BY <1>q, <1>w, <2>0, <2>3, <3>2
  <2> QED
    BY <1>10, <2>1, <2>2, <2>3 DEF ActOnAnswer
<1>11. CASE FailRead(g)
  <2>0. UNCHANGED <<run, lateWrites>> /\ go[g].run \in Runs
    BY <1>0, <1>11 DEF FailRead, Alive, server, DrainHas
  <2>1. CASE Leave(g)
    BY <1>1, <1>q, <2>0, <2>1, Leaves, DrainEnds
  <2>2. CASE /\ Admitted /\ UNCHANGED localWorker
             /\ go' = [go EXCEPT ![g].pc = "finishWrite", ![g].outcome = "failed"]
    <3>1. DrainsTyped' /\ LateOnes'
      BY <1>f, <2>0, <2>2
    <3> QED
      BY <1>q, <1>w, <2>0, <2>2, <3>1
  <2> QED
    BY <1>11, <2>1, <2>2 DEF FailRead
<1>12. CASE FinishWrite(g)
  <2>1. PICK d \in DeviceRun : d = [status |-> go[g].outcome, leased |-> FALSE]
    BY <1>0, <1>12 DEF FinishWrite, DeviceRun, RunStatuses, DrainHas, DrainRow
  <2>2. Set(g, d) /\ DrainOver(g) /\ WorkerTyped' /\ go[g].pc = "finishWrite"
    BY <1>12, <2>1, Leaves DEF FinishWrite
  <2> QED
    BY <1>1, <2>2, IdleDrains, DrainWrites DEF DrainOver, MayWrite
<1>13. CASE Killed(g)
  <2>1. DrainOver(g) /\ WorkerTyped' /\ UNCHANGED <<run, lateWrites>>
    BY <1>13, Leaves DEF Killed, server
  <2> QED
    BY <1>1, <1>q, <2>1, DrainEnds
<1>14. CASE CallFails(g)
  <2>1. DrainOver(g) /\ WorkerTyped' /\ UNCHANGED <<run, lateWrites>>
    BY <1>14, Leaves DEF CallFails, server
  <2> QED
    BY <1>1, <1>q, <2>1, DrainEnds
<1> QED
  BY <1>2, <1>3, <1>4, <1>5, <1>6, <1>7, <1>8, <1>9, <1>10, <1>11, <1>12, <1>13, <1>14 DEF DrainStep

\* An event or the app starts a drain, if the worker has nothing to do.
LEMMA StartsKeep ==
  ASSUME LocalInv, NEW gs \in SUBSET Goroutines, UNCHANGED <<device, lateWrites>>,
         UNCHANGED go \/ (IdleOf(gs) # {} /\ At(CHOOSE g \in IdleOf(gs) : TRUE, "list"))
  PROVE  DrainsTyped' /\ LateOnes'
<1>1. CASE UNCHANGED go
  BY <1>1 DEF LocalInv, LocalTypeOK, DrainsTyped, LateOnes, LateOf
<1>2. CASE IdleOf(gs) # {} /\ At(CHOOSE g \in IdleOf(gs) : TRUE, "list")
  <2>1. PICK g \in IdleOf(gs) : At(g, "list")
    BY <1>2
  <2>2. g \in Goroutines
    BY DEF IdleOf
  <2> QED
    BY <2>1, <2>2, DrainGoes DEF DrainPcs
<1> QED
  BY <1>1, <1>2

\* A cancelled context: the drain stays where it is.
LEMMA KillKeeps ==
  ASSUME LocalInv, NEW h \in Goroutines, UNCHANGED <<device, lateWrites>>,
         go' = [go EXCEPT ![h].killed = TRUE]
  PROVE  DrainsTyped' /\ LateOnes'
<1>1. PICK row : row = [go[h] EXCEPT !.killed = TRUE]
  OBVIOUS
<1>2. go[h] \in DrainRow /\ DrainHas(go[h])
  BY DrainOf DEF LocalInv, LocalTypeOK
<1>3. /\ row \in DrainRow /\ row.pc = go[h].pc /\ row.run = go[h].run /\ row.then = go[h].then
      /\ row.outcome = go[h].outcome
  BY <1>1, <1>2 DEF DrainRow
<1>4. DrainHas(row) /\ (MayWrite(row) => MayWrite(go[h]))
  BY <1>2, <1>3 DEF DrainHas, MayWrite
<1>5. go' = [go EXCEPT ![h] = row]
  BY <1>1
<1> QED
  BY <1>3, <1>4, <1>5, DrainMoves

LEMMA StartedAfresh ==
  ASSUME LocalInv, UNCHANGED <<device, lateWrites>>,
         go' = [g \in Goroutines |-> IF g = Main THEN [IdleDrain EXCEPT !.pc = "list"] ELSE IdleDrain]
  PROVE  DrainsTyped' /\ LateOnes'
<1>1. PICK list : list = [IdleDrain EXCEPT !.pc = "list"]
  OBVIOUS
<1>2. list \in DrainRow /\ DrainHas(list) /\ ~MayWrite(list)
  BY <1>1 DEF IdleDrain, DrainRow, DrainHas, DrainPcs, MayWrite
<1>3. go' = [g \in Goroutines |-> IF g = Main THEN list ELSE IdleDrain]
  BY <1>1
<1>4. DrainsTyped'
  BY <1>2, <1>3, IdleDrains DEF DrainsTyped
<1>5. ASSUME NEW g \in Goroutines PROVE LateOf(go[g], lateWrites[g])'
  <2>1. LateOf(go[g], lateWrites[g])
    BY DEF LocalInv, LateOnes
  <2>2. ~MayWrite(go'[g])
    BY <1>2, <1>3, IdleDrains
  <2> QED
    BY <2>1, <2>2 DEF LateOf
<1> QED
  BY <1>4, <1>5 DEF LateOnes

LEMMA LocalStart == Init => LocalInv
<1> SUFFICES ASSUME Init PROVE LocalInv
  OBVIOUS
<1>1. PICK list : list = [IdleDrain EXCEPT !.pc = "list"]
  OBVIOUS
<1>2. list \in DrainRow /\ DrainHas(list) /\ ~MayWrite(list)
  BY <1>1 DEF IdleDrain, DrainRow, DrainHas, DrainPcs, MayWrite
<1>3. go = [g \in Goroutines |-> IF g = Main THEN list ELSE IdleDrain]
  BY <1>1 DEF Init
<1>4. DrainsTyped
  BY <1>2, <1>3, IdleDrains DEF DrainsTyped
<1>5. LateOnes
  BY <1>2, <1>3, IdleDrains DEF LateOnes, LateOf, Init
<1>6. LocalTypeOK
  BY <1>4 DEF Init, LocalTypeOK, DeviceRun, RunStatuses, Started, Goroutines, IdleRequest
<1> QED
  BY <1>5, <1>6 DEF LocalInv

\* The steps of the worker's loop, of the app, of the hub and of requests.
Elsewhere ==
  \/ Dial \/ ReadSocket \/ SocketBreaks \/ Restart
  \/ Pause \/ Resume \/ SetWorkspaces \/ ReplaceWorkspaces
  \/ HeartbeatDevice
  \/ \E r \in Runs : LeaseLapses(r)
  \/ \E u \in Requests : Spawn(u) \/ CancelRead(u) \/ ReplyRead(u) \/ RequestStep(u)
  \/ RevokeDevice

LEMMA ElsewhereKeeps ==
  ASSUME LocalInv, Elsewhere
  PROVE  LocalInv'
<1>0. /\ WorkerTyped /\ DrainsTyped /\ LateOnes
      /\ run \in [Runs -> DeviceRun] /\ lateWrites \in [Goroutines -> Nat]
      /\ device \in [revoked : BOOLEAN, known : SUBSET Runs, offered : SUBSET Runs]
      /\ request \in [Requests -> [pc : {"idle", "cancel", "requeue"}, run : Runs \cup {NoRun}]]
      /\ Main \in Goroutines /\ Drains \in SUBSET Goroutines
  BY DEF LocalInv, LocalTypeOK, WorkerTyped, Goroutines
<1>1. UNCHANGED lateWrites
  BY DEF Elsewhere, Dial, ReadSocket, SocketBreaks, Restart, Pause, Resume, SetWorkspaces, ReplaceWorkspaces,
     HeartbeatDevice, LeaseLapses, Spawn, CancelRead, ReplyRead, RequestStep, CancelWrite, Requeue, RevokeDevice
<1>2. device' \in [revoked : BOOLEAN, known : SUBSET Runs, offered : SUBSET Runs]
  BY <1>0 DEF Elsewhere, Dial, ReadSocket, SocketBreaks, Restart, Pause, Resume, SetWorkspaces, ReplaceWorkspaces,
     HeartbeatDevice, LeaseLapses, Spawn, CancelRead, ReplyRead, RequestStep, CancelWrite, Requeue, RevokeDevice
<1>3. WorkerTyped'
  <2>1. CASE Dial
    BY <1>0, <2>1 DEF Dial, WorkerTyped
  <2>2. CASE Restart
    BY <1>0, <2>2 DEF Restart, WorkerTyped, Started
  <2>3. CASE Pause
    BY <1>0, <2>3 DEF Pause, WorkerTyped
  <2>4. CASE Resume
    BY <1>0, <2>4 DEF Resume, WorkerTyped
  <2>5. CASE UNCHANGED localWorker
    BY <1>0, <2>5 DEF WorkerTyped
  <2> QED
    BY <2>1, <2>2, <2>3, <2>4, <2>5 DEF Elsewhere, ReadSocket, SocketBreaks, SetWorkspaces, ReplaceWorkspaces,
       HeartbeatDevice, LeaseLapses, Spawn, CancelRead, ReplyRead, RequestStep, CancelWrite, Requeue, RevokeDevice
<1>4. run' \in [Runs -> DeviceRun]
  <2>1. ASSUME NEW r, NEW x \in RunStatuses, run' = [run EXCEPT ![r].status = x]
        PROVE  run' \in [Runs -> DeviceRun]
    <3>1. CASE r \in Runs
      <4>1. PICK row : row = [run[r] EXCEPT !.status = x]
        OBVIOUS
      <4>2. row \in DeviceRun
        BY <1>0, <3>1, <4>1 DEF DeviceRun
      <4>3. run' = [run EXCEPT ![r] = row]
        BY <2>1, <4>1
      <4> QED
        BY <1>0, <4>2, <4>3
    <3>2. CASE r \notin Runs
      BY <1>0, <2>1, <3>2
    <3> QED
      BY <3>1, <3>2
  <2>2. CASE \E u \in Requests : Spawn(u)
    <3>1. PICK r : run' = [run EXCEPT ![r].status = "queued"]
      BY <2>2 DEF Spawn
    <3> QED
      BY <2>1, <3>1 DEF RunStatuses
  <2>3. CASE \E u \in Requests : CancelWrite(u)
    <3>1. PICK r : run' = [run EXCEPT ![r].status = "cancelled"]
      BY <2>3 DEF CancelWrite
    <3> QED
      BY <2>1, <3>1 DEF RunStatuses
  <2>4. CASE \E u \in Requests : Requeue(u)
    <3>1. PICK row \in DeviceRun : row = [status |-> "queued", leased |-> FALSE]
      BY DEF DeviceRun, RunStatuses
    <3>2. PICK r : run' = [run EXCEPT ![r] = row]
      BY <2>4, <3>1 DEF Requeue
    <3> QED
      BY <1>0, <3>1, <3>2
  <2>5. CASE \E r \in Runs : LeaseLapses(r)
    <3>1. PICK r \in Runs : run' = [run EXCEPT ![r].leased = FALSE]
      BY <2>5 DEF LeaseLapses
    <3>2. PICK row : row = [run[r] EXCEPT !.leased = FALSE]
      OBVIOUS
    <3>3. row \in DeviceRun
      BY <1>0, <3>1, <3>2 DEF DeviceRun
    <3>4. run' = [run EXCEPT ![r] = row]
      BY <3>1, <3>2
    <3> QED
      BY <1>0, <3>3, <3>4
  <2>6. CASE UNCHANGED run
    BY <1>0, <2>6
  <2> QED
    BY <2>2, <2>3, <2>4, <2>5, <2>6 DEF Elsewhere, Dial, ReadSocket, SocketBreaks, Restart, Pause, Resume,
       SetWorkspaces, ReplaceWorkspaces, HeartbeatDevice, CancelRead, ReplyRead, RequestStep, RevokeDevice
<1>5. request' \in [Requests -> [pc : {"idle", "cancel", "requeue"}, run : Runs \cup {NoRun}]]
  <2>1. CASE \E u \in Requests : CancelRead(u)
    BY <1>0, <2>1 DEF CancelRead, RequestAt
  <2>2. CASE \E u \in Requests : ReplyRead(u)
    BY <1>0, <2>2 DEF ReplyRead, RequestAt
  <2>3. CASE \E u \in Requests : RequestStep(u)
    BY <1>0, <2>3 DEF RequestStep, CancelWrite, Requeue, Answer, IdleRequest
  <2>4. CASE UNCHANGED request
    BY <1>0, <2>4
  <2> QED
    BY <2>1, <2>2, <2>3, <2>4 DEF Elsewhere, Dial, ReadSocket, SocketBreaks, Restart, Pause, Resume,
       SetWorkspaces, ReplaceWorkspaces, HeartbeatDevice, LeaseLapses, Spawn, RevokeDevice
<1>6. DrainsTyped' /\ LateOnes'
  <2>1. CASE UNCHANGED <<go, device>>
    BY <1>0, <1>1, <2>1 DEF DrainsTyped, LateOnes, LateOf
  <2>2. CASE UNCHANGED go /\ (device.revoked => device'.revoked)
    BY <1>0, <1>1, <2>2 DEF DrainsTyped, LateOnes, LateOf
  <2>3. CASE ReadSocket
    <3>1. CASE StartDrain(Drains)
      BY <1>0, <1>1, <2>3, <3>1, StartsKeep DEF StartDrain, ReadSocket
    <3>2. CASE go' = [go EXCEPT ![localWorker.holder].killed = TRUE]
      <4>1. PICK h \in Goroutines : h = localWorker.holder
        BY <1>0 DEF WorkerTyped
      <4> QED
        BY <1>1, <2>3, <3>2, <4>1, KillKeeps DEF ReadSocket
    <3> QED
      BY <2>1, <2>3, <3>1, <3>2 DEF ReadSocket
  <2>4. CASE SocketBreaks
    <3>1. PICK gs \in SUBSET Goroutines : gs = {Main}
      BY <1>0
    <3>2. UNCHANGED device /\ StartDrain(gs)
      BY <2>4, <3>1 DEF SocketBreaks
    <3> QED
      BY <1>1, <3>2, StartsKeep DEF StartDrain
  <2>5. CASE Restart
    BY <1>1, <2>5, StartedAfresh DEF Restart
  <2>6. CASE Resume
    BY <1>0, <1>1, <2>6, StartsKeep DEF Resume
  <2>7. CASE SetWorkspaces \/ ReplaceWorkspaces
    BY <1>0, <2>2, <2>7 DEF SetWorkspaces, ReplaceWorkspaces
  <2>8. CASE RevokeDevice
    BY <1>0, <2>2, <2>8 DEF RevokeDevice
  <2> QED
    BY <2>1, <2>3, <2>4, <2>5, <2>6, <2>7, <2>8 DEF Elsewhere, Dial, Pause, HeartbeatDevice, LeaseLapses, Spawn,
       CancelRead, ReplyRead, RequestStep, CancelWrite, Requeue
<1> QED
  BY <1>1, <1>2, <1>3, <1>4, <1>5, <1>6, <1>0 DEF LocalInv, LocalTypeOK, WorkerTyped

LEMMA LocalSteps == LocalInv /\ [Next]_vars => LocalInv'
<1> SUFFICES ASSUME LocalInv, [Next]_vars PROVE LocalInv'
  OBVIOUS
<1>1. CASE UNCHANGED vars
  BY <1>1 DEF vars, LocalInv, LocalTypeOK, DrainsTyped, LateOnes, LateOf
<1>2. CASE \E g \in Goroutines : DrainStep(g) \/ CallFails(g)
  BY <1>2, DrainsKeep
<1>3. CASE Elsewhere
  BY <1>3, ElsewhereKeeps
<1> QED
  BY <1>1, <1>2, <1>3 DEF Next, Elsewhere

\* A revoked device gets no further than the call each of its goroutines is in
\* (desktop.Handler.deviceContext, AgentsStore.Heartbeat, Worker.runOne).
THEOREM RevokedIsHeld == Spec => []RevokedGetsNoFurther
<1>1. LocalInv => RevokedGetsNoFurther
  BY DEF LocalInv, LateOnes, LateOf, RevokedGetsNoFurther
<1> QED
  BY <1>1, LocalStart, LocalSteps, PTL DEF Spec
=============================================================================
