------------------------------ MODULE LocalRuns ------------------------------
(***************************************************************************)
(* Runs on the user's own computer: the rows of agent_runs assigned to one *)
(* device, the server's endpoints and event hub for it (internal/desktop), *)
(* and the worker process on it (internal/localagent,                      *)
(* cmd/donna-agent-local).                                                 *)
(*                                                                         *)
(* Events start drains, and a drain that finds the worker idle looks for a *)
(* run, claims it and works on it.  The worker reaches the store through   *)
(* HTTP calls only: the server checks the device and reads the run in one  *)
(* step and patches it by id in a later one.  All claims of a device carry *)
(* the same worker id, so that its own lease never refuses it.             *)
(***************************************************************************)
EXTENDS Integers, FiniteSets, SequencesExt

CONSTANTS MaxRuns,     \* runs ever spawned; their ids are in order of creation
          Drains,      \* goroutines that events and the resume message start
          Main,        \* the goroutine of Worker.Loop
          Requests,    \* goroutines of the user's requests on the server
          Cap,         \* places in the channel of a subscriber (16 in the code)
          MaxTurns,    \* bound: turns of a harness
          MaxEvents    \* bound: requests of the user, other than spawns, and calls,
                       \* sockets and processes that fail

ASSUME LocalBounds == /\ MaxRuns \in Nat /\ Cap \in Nat \ {0} /\ MaxTurns \in Nat \ {0}
                      /\ MaxEvents \in Nat
ASSUME MainAssumption == Main \notin Drains

VARIABLES run,       \* agent_runs of the device
          device,    \* the desktop_devices row, the workspaces offered for it and those the
                     \* worker has a path for (known); each named by the run that asks for it
          hub,       \* the channel of the socket, and whether it is subscribed
          localWorker, \* the Worker struct and the progress of its heartbeat loop
          go,        \* go[g]: program counter and locals of a drain
          request,   \* request[u]: program counter and locals of a handler
          deviceActs, deviceFaults,
          lateWrites \* history: writes each drain has made since the device was revoked

vars == <<run, device, hub, localWorker, go, request, deviceActs, deviceFaults, lateWrites>>

-----------------------------------------------------------------------------
Runs == 1..MaxRuns
NoRun == 0
Goroutines == Drains \cup {Main}

Terminal(status) == status \in {"succeeded", "failed", "cancelled"}

InHarness == {"fresh", "model", "closed", "fail", "finishWrite"}
IdleDrain == [pc |-> "idle", run |-> NoRun, then |-> "none", outcome |-> "none",
              turns |-> 0, killed |-> FALSE]

IdleRequest == [pc |-> "idle", run |-> NoRun]

Started == [active |-> NoRun, holder |-> Main, paused |-> FALSE, beating |-> FALSE]

Init ==
  /\ run = [r \in Runs |-> [status |-> "none", leased |-> FALSE]]
  /\ device = [revoked |-> FALSE, known |-> Runs, offered |-> Runs]
  /\ hub = [on |-> FALSE, ch |-> <<>>]
  /\ localWorker = Started
  /\ go = [g \in Goroutines |-> IF g = Main THEN [IdleDrain EXCEPT !.pc = "list"] ELSE IdleDrain]
  /\ request = [u \in Requests |-> IdleRequest]
  /\ deviceActs = 0 /\ deviceFaults = 0
  /\ lateWrites = [g \in Goroutines |-> 0]

DeviceAct == deviceActs + deviceFaults < MaxEvents /\ deviceActs' = deviceActs + 1
DeviceFault == deviceActs + deviceFaults < MaxEvents /\ deviceFaults' = deviceFaults + 1

\* A cancelled context starts no further call.
Alive(g, pc) == go[g].pc = pc /\ ~go[g].killed
At(g, pc) == go' = [go EXCEPT ![g].pc = pc]
Goes(g) == go' = [go EXCEPT ![g].pc = go[g].then, ![g].then = "none"]
DrainOver(g) == go' = [go EXCEPT ![g] = IdleDrain]
With(status) == {r \in Runs : run[r].status = status}

\* A write of the device, counted once the device is revoked.
Set(g, row) ==
  /\ run' = [run EXCEPT ![go[g].run] = row]
  /\ lateWrites' = IF device.revoked THEN [lateWrites EXCEPT ![g] = @ + 1] ELSE lateWrites

Event(kind, r) == [kind |-> kind, run |-> r]

\* Hub.Publish: a full channel drops the event.
SentAll(events) ==
  IF hub.on THEN [hub EXCEPT !.ch = SubSeq(@ \o events, 1, Min({Cap, Len(@) + Len(events)}))]
            ELSE hub
Publish(kind, r) == hub' = SentAll(<<Event(kind, r)>>)

server == <<run, device, hub, request>>

-----------------------------------------------------------------------------
(* Worker.drainOnce and the claim *)

IdleOf(gs) == {g \in gs : go[g].pc = "idle"}

\* The test for an idle worker; the claim is three calls away.
StartDrain(gs) ==
  IF localWorker.paused \/ localWorker.active # NoRun
    THEN UNCHANGED go
    ELSE IdleOf(gs) # {} /\ At(CHOOSE g \in IdleOf(gs) : TRUE, "list")

\* The newest of the queued runs or, without one, of the running ones; the two
\* GETs are taken as one.
FindRun(g) ==
  /\ Alive(g, "list")
  /\ LET runs == IF With("queued") # {} THEN With("queued") ELSE With("running") IN
       IF runs = {} THEN DrainOver(g) ELSE go' = [go EXCEPT ![g].pc = "claim", ![g].run = Max(runs)]
  /\ UNCHANGED <<server, localWorker, deviceActs, deviceFaults, lateWrites>>

\* Every device call: deviceContext and requireAssignedRun come first.
Admitted == ~device.revoked

Release == localWorker' = [localWorker EXCEPT !.active = NoRun, !.holder = Main]
\* The deferred function of runOne runs once the harness was entered.
Entered(g) == go[g].pc \in InHarness \/ (go[g].pc \in {"beat", "beatWrite"} /\ go[g].then # "workspace")
Leave(g) == DrainOver(g) /\ (IF Entered(g) THEN Release ELSE UNCHANGED localWorker)

\* ClaimForDevice up to its Heartbeat.
ClaimRun(g) ==
  /\ Alive(g, "claim")
  /\ IF Admitted /\ run[go[g].run].status \in {"queued", "running"}
       THEN go' = [go EXCEPT ![g].pc = "beat", ![g].then = "workspace"]
       ELSE DrainOver(g)
  /\ UNCHANGED <<server, localWorker, deviceActs, deviceFaults, lateWrites>>

\* Slip: the handler of a run's heartbeat does not ask whose device calls.
Heartbeat_NoDevice(g) ==
  /\ Alive(g, "beat")
  /\ IF Terminal(run[go[g].run].status) THEN Goes(g) ELSE At(g, "beatWrite")
  /\ UNCHANGED <<server, localWorker, deviceActs, deviceFaults, lateWrites>>

\* AgentsStore.Heartbeat: an ended run is returned as it is, any other patched
\* by id.
Heartbeat(g) ==
  /\ Alive(g, "beat")
  /\ IF Admitted \/ go[g].then = "workspace"
       THEN /\ IF Terminal(run[go[g].run].status) THEN Goes(g) ELSE At(g, "beatWrite")
            /\ UNCHANGED localWorker
       ELSE Leave(g)
  /\ UNCHANGED <<server, deviceActs, deviceFaults, lateWrites>>

HeartbeatWrite(g) ==
  /\ go[g].pc = "beatWrite"
  /\ Set(g, [status |-> "running", leased |-> TRUE])
  /\ Goes(g)
  /\ UNCHANGED <<device, hub, localWorker, request, deviceActs, deviceFaults>>

\* runOne: without a path for the workspace the run is given back; otherwise
\* it becomes the active one, whatever was active.
EnterRun(g) ==
  /\ Alive(g, "workspace")
  /\ IF go[g].run \in device.known
       THEN /\ go' = [go EXCEPT ![g].pc = "fresh", ![g].turns = MaxTurns]
            /\ localWorker' = [localWorker EXCEPT !.active = go[g].run, !.holder = g]
       ELSE At(g, "giveBack") /\ UNCHANGED localWorker
  /\ UNCHANGED <<server, deviceActs, deviceFaults, lateWrites>>

\* PATCH /desktop/runs/{id}/state with status queued: Requeue, by id.
GiveBack(g) ==
  /\ go[g].pc = "giveBack"
  /\ IF Admitted THEN Set(g, [status |-> "queued", leased |-> FALSE]) ELSE UNCHANGED <<run, lateWrites>>
  /\ DrainOver(g)
  /\ UNCHANGED <<device, hub, localWorker, request, deviceActs, deviceFaults>>

-----------------------------------------------------------------------------
(* The harness, as far as the device sees it; AgentRuns has its steps.  The  *)
(* PATCH that is to clear redirect_pending names no field the endpoint       *)
(* knows, is refused, and changes nothing.                                   *)

\* The top of a turn: ended runs are left, the budget of turns runs out.
ReadFresh(g) ==
  /\ Alive(g, "fresh")
  /\ CASE go[g].turns = 0 ->
            /\ At(g, "fail") /\ UNCHANGED localWorker
       [] go[g].turns > 0 /\ Terminal(run[go[g].run].status) -> Leave(g)
       [] OTHER -> /\ go' = [go EXCEPT ![g].pc = "beat", ![g].then = "model",
                                       ![g].turns = go[g].turns - 1]
                   /\ UNCHANGED localWorker
  /\ UNCHANGED <<server, deviceActs, deviceFaults, lateWrites>>

\* Handler.Complete answers for running runs only; an error fails the run.
Complete(g) ==
  /\ Alive(g, "model")
  /\ IF Admitted /\ run[go[g].run].status = "running"
       THEN At(g, "closed")
       ELSE At(g, "fail")
  /\ UNCHANGED <<server, localWorker, deviceActs, deviceFaults, lateWrites>>

\* What the model wants: another turn, an answer, or a question; the reads on
\* the way to the patch that ends the run are taken as one.
ActOnAnswer(g) ==
  /\ Alive(g, "closed")
  /\ \/ Terminal(run[go[g].run].status) /\ Leave(g)
     \/ /\ ~Terminal(run[go[g].run].status)
        /\ At(g, "fresh") /\ UNCHANGED localWorker
     \/ /\ ~Terminal(run[go[g].run].status)
        /\ IF Admitted
             THEN /\ \E outcome \in {"succeeded", "waiting_for_user"} :
                       go' = [go EXCEPT ![g].pc = "finishWrite", ![g].outcome = outcome]
                  /\ UNCHANGED localWorker
             ELSE Leave(g)
  /\ UNCHANGED <<server, deviceActs, deviceFaults, lateWrites>>

\* fail: the run is read again, and patched by id.
FailRead(g) ==
  /\ Alive(g, "fail")
  /\ IF Admitted /\ ~Terminal(run[go[g].run].status)
       THEN /\ go' = [go EXCEPT ![g].pc = "finishWrite", ![g].outcome = "failed"]
            /\ UNCHANGED localWorker
       ELSE Leave(g)
  /\ UNCHANGED <<server, deviceActs, deviceFaults, lateWrites>>

\* The PATCH of Finish and of WaitForUser.
FinishWrite(g) ==
  /\ go[g].pc = "finishWrite"
  /\ Set(g, [status |-> go[g].outcome, leased |-> FALSE])
  /\ Leave(g)
  /\ UNCHANGED <<device, hub, request, deviceActs, deviceFaults>>

\* A cancelled context fails the next call, and all that fail() tries.
Killed(g) ==
  /\ go[g].killed
  /\ Leave(g)
  /\ UNCHANGED <<server, deviceActs, deviceFaults, lateWrites>>

\* A call fails: lists and claim end the drain, the others the harness.
CallFails(g) ==
  /\ go[g].pc \notin {"idle", "workspace"}
  /\ DeviceFault
  /\ Leave(g)
  /\ UNCHANGED <<server, deviceActs, lateWrites>>

-----------------------------------------------------------------------------
(* Worker.Loop: a first drain, then the heartbeat loop and the socket *)

\* The socket is dialled when the drain of Loop is over.
Dial ==
  /\ go[Main].pc = "idle" /\ ~hub.on /\ Admitted
  /\ hub' = [on |-> TRUE, ch |-> <<>>]
  /\ localWorker' = [localWorker EXCEPT !.beating = TRUE]
  /\ UNCHANGED <<run, device, go, request, deviceActs, deviceFaults, lateWrites>>

\* socketLoop: an available run starts a drain, a cancel ends the harness whose
\* run it names, other events need nothing.
ReadSocket ==
  /\ hub.on /\ hub.ch # <<>>
  /\ LET e == Head(hub.ch) IN
       /\ hub' = IF e.kind = "device.revoked" THEN [on |-> FALSE, ch |-> <<>>]
                                              ELSE [hub EXCEPT !.ch = Tail(@)]
       /\ CASE e.kind = "run.available" -> StartDrain(Drains)
            [] e.kind = "run.cancel" /\ localWorker.active = e.run ->
                 go' = [go EXCEPT ![localWorker.holder].killed = TRUE]
            [] OTHER -> UNCHANGED go
  /\ UNCHANGED <<run, device, localWorker, request, deviceActs, deviceFaults, lateWrites>>

\* The socket breaks; after three seconds Loop starts with a drain.
SocketBreaks ==
  /\ hub.on
  /\ DeviceFault
  /\ hub' = [on |-> FALSE, ch |-> <<>>]
  /\ StartDrain({Main})
  /\ UNCHANGED <<run, device, localWorker, request, deviceActs, lateWrites>>

\* The process dies and is started again.
Restart ==
  /\ DeviceFault
  /\ localWorker' = Started
  /\ hub' = [on |-> FALSE, ch |-> <<>>]
  /\ go' = [g \in Goroutines |-> IF g = Main THEN [IdleDrain EXCEPT !.pc = "list"] ELSE IdleDrain]
  /\ UNCHANGED <<run, device, request, deviceActs, lateWrites>>

\* IPC: the app pauses the worker, and resumes it with a drain.
Pause ==
  /\ DeviceAct
  /\ localWorker' = [localWorker EXCEPT !.paused = TRUE]
  /\ UNCHANGED <<run, device, hub, go, request, deviceFaults, lateWrites>>

Resume ==
  /\ localWorker.paused
  /\ localWorker' = [localWorker EXCEPT !.paused = FALSE]
  /\ IF localWorker.active # NoRun
       THEN UNCHANGED go
       ELSE IdleOf(Drains) # {} /\ At(CHOOSE g \in IdleOf(Drains) : TRUE, "list")
  /\ UNCHANGED <<run, device, hub, request, deviceActs, deviceFaults, lateWrites>>

\* IPC: the paths are set, and then the catalogue on the server.
SetWorkspaces ==
  /\ DeviceAct
  /\ \E r \in Runs : device' = [device EXCEPT !.known = @ \ {r}]
  /\ UNCHANGED <<run, hub, localWorker, go, request, deviceFaults, lateWrites>>

ReplaceWorkspaces ==
  /\ Admitted /\ device.offered # device.known
  /\ device' = [device EXCEPT !.offered = device.known]
  /\ UNCHANGED <<run, hub, localWorker, go, request, deviceActs, deviceFaults, lateWrites>>

-----------------------------------------------------------------------------
(* HeartbeatDevice and refreshQueuedWaiting *)

\* The queued runs of ListClaimableForDevice to be announced: all with a
\* workspace, but only the first of the list while a run is running.
Claimable == {r \in Runs : \/ run[r].status = "queued"
                           \/ run[r].status = "running" /\ ~run[r].leased}
Announced ==
  {r \in Claimable \cap device.offered :
     /\ run[r].status = "queued"
     /\ With("running") = {} \/ \A q \in Claimable : r <= q}

Announcements == SetToSortSeq(Announced, LAMBDA r, q : r <= q)
\* Slip: the heartbeat only says that the device is there.
HeartbeatDevice_SeenOnly ==
  /\ localWorker.beating /\ Admitted /\ hub.on
  /\ Announced # {}
  /\ UNCHANGED vars

HeartbeatDevice ==
  /\ localWorker.beating /\ Admitted /\ hub.on
  /\ Announced # {}
  /\ hub' = SentAll([i \in 1..Len(Announcements) |-> Event("run.available", Announcements[i])])
  /\ UNCHANGED <<run, device, localWorker, go, request, deviceActs, deviceFaults, lateWrites>>

\* Two minutes without a heartbeat of the run.
LeaseLapses(r) ==
  /\ run[r].status = "running" /\ run[r].leased
  /\ \A g \in Goroutines : go[g].run # r
  /\ run' = [run EXCEPT ![r].leased = FALSE]
  /\ UNCHANGED <<device, hub, localWorker, go, request, deviceActs, deviceFaults, lateWrites>>

-----------------------------------------------------------------------------
(* The user's requests: spawn, cancel, reply, revoke *)

RequestAt(u, pc, r) == request' = [request EXCEPT ![u] = [pc |-> pc, run |-> r]]
Answer(u) == request' = [request EXCEPT ![u] = IdleRequest]

\* The publication follows the write at once; what is published late is as
\* good as an event read late.
Spawn(u) ==
  /\ request[u].pc = "idle" /\ With("none") # {}
  /\ LET r == Min(With("none")) IN
       /\ run' = [run EXCEPT ![r].status = "queued"]
       /\ Publish("run.available", r)
  /\ UNCHANGED <<device, localWorker, go, request, deviceActs, deviceFaults, lateWrites>>

CancelRead(u) ==
  /\ request[u].pc = "idle"
  /\ DeviceAct
  /\ \E r \in Runs : /\ run[r].status # "none" /\ ~Terminal(run[r].status)
                     /\ RequestAt(u, "cancel", r)
  /\ UNCHANGED <<run, device, hub, localWorker, go, deviceFaults, lateWrites>>

CancelWrite(u) ==
  /\ request[u].pc = "cancel"
  /\ run' = [run EXCEPT ![request[u].run].status = "cancelled"]
  /\ Publish("run.cancel", request[u].run)
  /\ Answer(u)
  /\ UNCHANGED <<device, localWorker, go, deviceActs, deviceFaults, lateWrites>>

\* Redirect: SetRedirect and ResumeAfterApproval, whose reads are taken as one.
\* A running run is only given the message.  The events that follow ask
\* nothing of the worker.
ReplyRead(u) ==
  /\ request[u].pc = "idle"
  /\ DeviceAct
  /\ \E r \in Runs : /\ run[r].status \in {"waiting_for_user", "queued", "succeeded", "failed"}
                     /\ RequestAt(u, "requeue", r)
  /\ UNCHANGED <<run, device, hub, localWorker, go, deviceFaults, lateWrites>>

Requeue(u) ==
  /\ request[u].pc = "requeue"
  /\ run' = [run EXCEPT ![request[u].run] = [status |-> "queued", leased |-> FALSE]]
  /\ Answer(u)
  /\ UNCHANGED <<device, hub, localWorker, go, deviceActs, deviceFaults, lateWrites>>

RevokeDevice ==
  /\ Admitted
  /\ DeviceAct
  /\ device' = [device EXCEPT !.revoked = TRUE]
  /\ Publish("device.revoked", NoRun)
  /\ UNCHANGED <<run, localWorker, go, request, deviceFaults, lateWrites>>

-----------------------------------------------------------------------------
DrainStep(g) ==
  \/ FindRun(g) \/ ClaimRun(g) \/ EnterRun(g) \/ GiveBack(g)
  \/ Heartbeat(g) \/ HeartbeatWrite(g) \/ ReadFresh(g) \/ Complete(g) \/ ActOnAnswer(g)
  \/ FailRead(g) \/ FinishWrite(g) \/ Killed(g)

RequestStep(u) == CancelWrite(u) \/ Requeue(u)

Next ==
  \/ \E g \in Goroutines : DrainStep(g) \/ CallFails(g)
  \/ Dial \/ ReadSocket \/ SocketBreaks \/ Restart
  \/ Pause \/ Resume \/ SetWorkspaces \/ ReplaceWorkspaces
  \/ HeartbeatDevice
  \/ \E r \in Runs : LeaseLapses(r)
  \/ \E u \in Requests : Spawn(u) \/ CancelRead(u) \/ ReplyRead(u) \/ RequestStep(u)
  \/ RevokeDevice

Spec == Init /\ [][Next]_vars

\* Goroutines run on, tickers tick and the clock advances; users need do nothing.
FairSpec ==
  /\ Spec
  /\ \A g \in Goroutines : WF_vars(DrainStep(g))
  /\ \A u \in Requests : WF_vars(RequestStep(u))
  /\ WF_vars(Dial) /\ WF_vars(ReadSocket) /\ WF_vars(HeartbeatDevice)
  /\ \A r \in Runs : WF_vars(LeaseLapses(r))

-----------------------------------------------------------------------------

\* A revoked device gets no further than the call each of its goroutines is
\* in: at most one more change each to the runs assigned to it.
RevokedGetsNoFurther == \A g \in Goroutines : lateWrites[g] <= 1

\* Nobody is at work on a running run: its harness was killed or failed.
LeftRunning == \E r \in With("running") : \A g \in Goroutines : go[g].run # r

\* A queued run is picked up, although the event that announced it may have
\* been dropped, have found the worker busy, or never been sent: the device's
\* heartbeat announces it again.  It needs a worker that is neither paused nor
\* revoked and has all workspaces, and no run left running.
QueuedIsPickedUp ==
  \A r \in Runs :
    run[r].status = "queued" ~>
      run[r].status # "queued" \/ device.revoked \/ localWorker.paused \/ LeftRunning
        \/ device.known # Runs \/ deviceFaults > 0
=============================================================================
