----------------------------- MODULE Reminders ------------------------------
(***************************************************************************)
(* Timed reminders (internal/reminders, storage/reminders_store.go): rows  *)
(* that users and tools create, edit, cancel and dismiss while the         *)
(* scheduler of every server marks the due ones as fired.                  *)
(*                                                                         *)
(* The scheduler's claim is the only conditional write: it is filtered on  *)
(* status = scheduled.  Every other change is a SELECT, a decision and a   *)
(* PATCH by id, and a row is created after a search for a similar one.     *)
(* One action is one round trip.  Title and time of a reminder are its     *)
(* topic: what FindSimilar compares.                                       *)
(***************************************************************************)
EXTENDS Integers, FiniteSets

CONSTANTS Reminders,   \* ids of the rows that may be created
          Topics,      \* titles with a time
          NoTopic,
          Callers,     \* goroutines of handlers and of the set_reminder tools
          Servers,     \* each runs a scheduler
          Batch,       \* rows the scheduler asks for
          MaxActs,     \* bound: requests
          MaxFaults    \* bound: store calls that fail and requests that end half-way

ASSUME ReminderBounds == Batch \in Nat \ {0} /\ MaxActs \in Nat /\ MaxFaults \in Nat
ASSUME NoTopicAssumption == NoTopic \notin Topics

VARIABLES rem,      \* the reminders table
          caller,   \* caller[c]: program counter and locals of a request
          tick,     \* tick[s]: due reminders the scheduler of s has still to claim
          acts,     \* requests so far
          faults    \* faults so far

remVars == <<rem, caller, tick>>

-----------------------------------------------------------------------------
NoReminder == [status |-> "none", topic |-> NoTopic, due |-> FALSE]
IdleCaller == [pc |-> "idle", topic |-> NoTopic, rem |-> {}, status |-> "none"]

Act == acts < MaxActs /\ acts' = acts + 1
Fault == faults < MaxFaults /\ faults' = faults + 1

RemindersInit ==
  /\ rem = [i \in Reminders |-> NoReminder]
  /\ caller = [c \in Callers |-> IdleCaller]
  /\ tick = [s \in Servers |-> {}]
  /\ acts = 0 /\ faults = 0

Answer(c) == caller' = [caller EXCEPT ![c] = IdleCaller]

-----------------------------------------------------------------------------
(* Service.Create: FindSimilar, then Create.  Also the effect of a confirmed *)
(* propose_reminder.                                                        *)

Similar(topic) == {i \in Reminders : rem[i].status = "scheduled" /\ rem[i].topic = topic}

Created(i, topic) ==
  /\ rem[i].status = "none"
  /\ rem' = [rem EXCEPT ![i] = [status |-> "scheduled", topic |-> topic, due |-> FALSE]]

PostReminder(c) ==
  /\ caller[c].pc = "idle"
  /\ Act
  /\ \E t \in Topics : caller' = [caller EXCEPT ![c] = [@ EXCEPT !.pc = "similar", !.topic = t]]
  /\ UNCHANGED <<rem, tick, faults>>

FindSimilar(c) ==
  /\ caller[c].pc = "similar"
  /\ IF Similar(caller[c].topic) # {}
       THEN Answer(c)
       ELSE caller' = [caller EXCEPT ![c].pc = "insert"]
  /\ UNCHANGED <<rem, tick, acts, faults>>

InsertReminder(c) ==
  /\ caller[c].pc = "insert"
  /\ \E i \in Reminders : Created(i, caller[c].topic)
  /\ Answer(c)
  /\ UNCHANGED <<tick, acts, faults>>

-----------------------------------------------------------------------------
(* RemindersStore.SetStatus and Update: what was read decides, the PATCH is  *)
(* by id.                                                                   *)

\* The statuses Cancel and Dismiss accept.
MaySet(row, status) ==
  \/ status = "cancelled" /\ row.status = "scheduled"
  \/ status = "dismissed" /\ row.status \in {"fired", "scheduled"}

SetStatusRead(c) ==
  /\ caller[c].pc = "idle"
  /\ Act
  /\ \E i \in Reminders, status \in {"cancelled", "dismissed"} :
       /\ MaySet(rem[i], status)
       /\ caller' = [caller EXCEPT ![c] =
                       [@ EXCEPT !.pc = "patchStatus", !.rem = {i}, !.status = status]]
  /\ UNCHANGED <<rem, tick, faults>>

SetStatusWrite(c) ==
  /\ caller[c].pc = "patchStatus"
  /\ \E i \in caller[c].rem : rem' = [rem EXCEPT ![i].status = caller[c].status]
  /\ Answer(c)
  /\ UNCHANGED <<tick, acts, faults>>

\* Update is for scheduled reminders only.
UpdateRead(c) ==
  /\ caller[c].pc = "idle"
  /\ Act
  /\ \E i \in Reminders :
       /\ rem[i].status = "scheduled"
       /\ caller' = [caller EXCEPT ![c] = [@ EXCEPT !.pc = "patchDue", !.rem = {i}]]
  /\ UNCHANGED <<rem, tick, faults>>

\* The new time is in the future.
UpdateWrite(c) ==
  /\ caller[c].pc = "patchDue"
  /\ \E i \in caller[c].rem : rem' = [rem EXCEPT ![i].due = FALSE]
  /\ Answer(c)
  /\ UNCHANGED <<tick, acts, faults>>

\* A store call fails, or the client goes away: nothing more is written.
GiveUp(c) ==
  /\ caller[c].pc # "idle"
  /\ Fault
  /\ Answer(c)
  /\ UNCHANGED <<rem, tick, acts>>

-----------------------------------------------------------------------------
(* Scheduler.tick *)

ComesDue(i) ==
  /\ rem[i].status = "scheduled" /\ ~rem[i].due
  /\ rem' = [rem EXCEPT ![i].due = TRUE]
  /\ UNCHANGED <<caller, tick, acts, faults>>

Due == {i \in Reminders : rem[i].status = "scheduled" /\ rem[i].due}

\* Up to Batch of the due reminders.
ListDueScheduled(s) ==
  /\ tick[s] = {} /\ Due # {}
  /\ \E some \in SUBSET Due :
       /\ some # {} /\ Cardinality(some) <= Batch
       /\ tick' = [tick EXCEPT ![s] = some]
  /\ UNCHANGED <<rem, caller, acts, faults>>

\* Slip: the PATCH by id alone.
ClaimFired_Unfiltered(s) ==
  /\ \E i \in tick[s] :
       /\ rem' = [rem EXCEPT ![i].status = "fired"]
       /\ tick' = [tick EXCEPT ![s] = @ \ {i}]
  /\ UNCHANGED <<caller, acts, faults>>

\* The PATCH is filtered on the status; no row changed is a conflict, and the
\* loop goes on.
ClaimFired(s) ==
  /\ \E i \in tick[s] :
       /\ IF rem[i].status = "scheduled"
            THEN rem' = [rem EXCEPT ![i].status = "fired"]
            ELSE UNCHANGED rem
       /\ tick' = [tick EXCEPT ![s] = @ \ {i}]
  /\ UNCHANGED <<caller, acts, faults>>

\* The server dies or the fifteen seconds of the tick are over.
TickEnds(s) ==
  /\ tick[s] # {}
  /\ Fault
  /\ tick' = [tick EXCEPT ![s] = {}]
  /\ UNCHANGED <<rem, caller, acts>>

CallerStep(c) ==
  FindSimilar(c) \/ InsertReminder(c) \/ SetStatusWrite(c) \/ UpdateWrite(c)

SchedulerStep(s) == ListDueScheduled(s) \/ ClaimFired(s)

RemindersNext ==
  \/ \E c \in Callers : \/ PostReminder(c) \/ SetStatusRead(c) \/ UpdateRead(c)
                        \/ CallerStep(c) \/ GiveUp(c)
  \/ \E s \in Servers : SchedulerStep(s) \/ TickEnds(s)
  \/ \E i \in Reminders : ComesDue(i)

-----------------------------------------------------------------------------

\* A reminder that was cancelled or dismissed never alerts the user: whatever
\* the scheduler had listed, and whatever a request had read, it does not come
\* back, and one that has fired is not scheduled again.
Rank(status) ==
  CASE status = "none" -> 0 [] status = "scheduled" -> 1 [] status = "fired" -> 2
    [] status \in {"dismissed", "cancelled"} -> 3
ReminderMovesForward ==
  [][\A i \in Reminders : Rank(rem[i].status) <= Rank(rem'[i].status)]_rem

=============================================================================
