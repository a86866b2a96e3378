----------------------------- MODULE NotesProofs -----------------------------
(***************************************************************************)
(* Theorems about a note: the types of its row, its jobs and those who     *)
(* work on them, and that a version names one text, for every set of       *)
(* wordings, clients and servers.                                          *)
(***************************************************************************)
EXTENDS Notes, FiniteSetTheorems, TLAPS

Texts == Text \cup {NoText}
Statuses == {"idle", "queued", "running", "succeeded", "failed"}
ClientPcs == {"idle", "get", "getAgain", "insert", "patch", "read", "patchBlind", "reread",
              "expand", "enrich", "tag", "mark"}
WorkerPcs == {"idle", "load", "running", "succeed", "complete", "fail", "failed", "patch",
              "reread", "enrich", "tag", "mark"}
NoteRow == [exists : BOOLEAN, text : Texts, version : Nat, status : Statuses, enriched : Nat]
ClientRow == [pc : ClientPcs, text : Texts, version : Nat]
WorkerRow == [pc : WorkerPcs, job : SUBSET Job, batch : SUBSET Job, text : Texts, version : Nat]

\* A create has a text; who is about to patch or to enqueue has the version of
\* a note.
ClientHas(row) ==
  /\ row.pc \in {"get", "getAgain", "insert"} => row.text \in Text
  /\ row.pc \in {"patch", "patchBlind", "expand", "enrich", "tag"} => row.version \in Versions

\* A worker that works has a job.
WorkerHas(row) ==
  /\ row.pc # "idle" => row.job # {}
  /\ row.pc \in {"patch", "enrich", "tag"} => row.version \in Versions

ClientsTyped == client \in [Clients -> ClientRow] /\ \A c \in Clients : ClientHas(client[c])
WorkersTyped == worker \in [Servers -> WorkerRow] /\ \A s \in Servers : WorkerHas(worker[s])

NoteTyped ==
  /\ note \in NoteRow /\ (note.exists => note.version \in Versions /\ note.text \in Text)
  /\ texts \in [Versions -> SUBSET Texts] /\ blind \in BOOLEAN
  /\ silent \in SUBSET Versions /\ lost \in BOOLEAN /\ done \in SUBSET Nat

\* The text of the note is what was said of its version, and of the versions to
\* come nothing has been said.
TextsFollow ==
  /\ \A v \in Versions : \A t, u \in texts[v] : t = u
  /\ note.exists => texts[note.version] = {note.text}
  /\ \A v \in Versions : (note.exists => v > note.version) => texts[v] = {}

NoteSide == NoteTyped /\ (blind \/ TextsFollow)
NotesTypeOK == NoteTyped /\ jobs \in SUBSET Job /\ ClientsTyped /\ WorkersTyped
NotesInv == NotesTypeOK /\ (blind \/ TextsFollow)

-----------------------------------------------------------------------------
LEMMA Bounds == /\ Batch \in Nat \ {0} /\ MaxAttempts \in Nat \ {0} /\ MaxVersion \in Nat \ {0}
                /\ MaxActs \in Nat /\ MaxFaults \in Nat /\ SmartTagging \in BOOLEAN
  BY NotesBounds, NotesFlag

LEMMA NotesStart == Init => NotesInv
<1> SUFFICES ASSUME Init PROVE NotesInv
  OBVIOUS
<1>1. NoteTyped /\ TextsFollow
  BY DEF Init, NoNote, NoteTyped, NoteRow, Texts, Statuses, TextsFollow
<1>2. ClientsTyped
  BY DEF Init, IdleClient, ClientsTyped, ClientRow, ClientPcs, ClientHas, Texts
<1>3. WorkersTyped
  BY DEF Init, IdleWorker, WorkersTyped, WorkerRow, WorkerPcs, WorkerHas, Texts
<1> QED
  BY <1>1, <1>2, <1>3 DEF NotesInv, NotesTypeOK, Init

-----------------------------------------------------------------------------
(* What a step does to the goroutines *)

LEMMA ClientMoves ==
  ASSUME ClientsTyped, NEW c \in Clients, NEW row \in ClientRow, ClientHas(row),
         client' = [client EXCEPT ![c] = row]
  PROVE  ClientsTyped'
<1>1. client' \in [Clients -> ClientRow]
  BY DEF ClientsTyped
<1>2. \A d \in Clients : client'[d] = IF d = c THEN row ELSE client[d]
  BY DEF ClientsTyped
<1>3. \A d \in Clients : ClientHas(client'[d])
  BY <1>2 DEF ClientsTyped
<1> QED
  BY <1>1, <1>3 DEF ClientsTyped

LEMMA ClientRowOf ==
  ASSUME ClientsTyped, NEW c \in Clients
  PROVE  client[c] \in ClientRow /\ ClientHas(client[c])
  BY DEF ClientsTyped

LEMMA Answered ==
  ASSUME ClientsTyped, NEW c \in Clients, Answer(c)
  PROVE  ClientsTyped'
<1>1. IdleClient \in ClientRow /\ ClientHas(IdleClient)
  BY DEF IdleClient, ClientRow, ClientPcs, ClientHas, Texts
<1> QED
  BY <1>1, ClientMoves DEF Answer

LEMMA GoesOn ==
  ASSUME ClientsTyped, NEW c \in Clients, NEW pc \in ClientPcs, Goto(c, pc),
         pc \in {"get", "getAgain", "insert"} => client[c].text \in Text,
         pc \in {"patch", "patchBlind", "expand", "enrich", "tag"} => client[c].version \in Versions
  PROVE  ClientsTyped'
<1>1. PICK row : row = [client[c] EXCEPT !.pc = pc]
  OBVIOUS
<1>2. row \in ClientRow /\ ClientHas(row)
  BY <1>1, ClientRowOf DEF ClientRow, ClientHas
<1>3. client' = [client EXCEPT ![c] = row]
  BY <1>1 DEF Goto
<1> QED
  BY <1>2, <1>3, ClientMoves

LEMMA EnqueuesNext ==
  ASSUME ClientsTyped, NEW c \in Clients, NEW v \in Versions, EnqueueFor(c, v)
  PROVE  ClientsTyped'
<1>1. PICK row : row = [client[c] EXCEPT !.pc = IF HasLinks(client[c].text) THEN "expand" ELSE "enrich",
                                         !.version = v]
  OBVIOUS
<1>2. row \in ClientRow /\ ClientHas(row)
  <2>1. v \in Nat
    BY Bounds DEF Versions
  <2>2. PICK pc \in {"expand", "enrich"} : pc = IF HasLinks(client[c].text) THEN "expand" ELSE "enrich"
    OBVIOUS
  <2>3. row = [client[c] EXCEPT !.pc = pc, !.version = v]
    BY <1>1, <2>2
  <2>4. /\ row \in ClientRow /\ row.pc = pc /\ row.version = v
    BY <2>1, <2>3, ClientRowOf DEF ClientRow, ClientPcs
  <2> QED
    BY <2>4 DEF ClientHas
<1>3. client' = [client EXCEPT ![c] = row]
  BY <1>1 DEF EnqueueFor
<1> QED
  BY <1>2, <1>3, ClientMoves

LEMMA WorkerMoves ==
  ASSUME WorkersTyped, NEW s \in Servers, NEW row \in WorkerRow, WorkerHas(row),
         worker' = [worker EXCEPT ![s] = row]
  PROVE  WorkersTyped'
<1>1. worker' \in [Servers -> WorkerRow]
  BY DEF WorkersTyped
<1>2. \A d \in Servers : worker'[d] = IF d = s THEN row ELSE worker[d]
  BY DEF WorkersTyped
<1>3. \A d \in Servers : WorkerHas(worker'[d])
  BY <1>2 DEF WorkersTyped
<1> QED
  BY <1>1, <1>3 DEF WorkersTyped

LEMMA WorkerRowOf ==
  ASSUME WorkersTyped, NEW s \in Servers
  PROVE  /\ worker[s] \in WorkerRow /\ WorkerHas(worker[s])
         /\ worker[s].pc # "idle" => Current(s) \in Job
<1>1. worker[s] \in WorkerRow /\ WorkerHas(worker[s])
  BY DEF WorkersTyped
<1>2. ASSUME worker[s].pc # "idle" PROVE Current(s) \in Job
  <2>1. \E j : j \in worker[s].job
    BY <1>1, <1>2 DEF WorkerHas
  <2>2. Current(s) \in worker[s].job
    BY <2>1 DEF Current
  <2> QED
    BY <1>1, <2>2 DEF WorkerRow
<1> QED
  BY <1>1, <1>2

LEMMA WorksOn ==
  ASSUME WorkersTyped, NEW s \in Servers, NEW pc \in WorkerPcs, WorkerAt(s, pc),
         worker[s].pc # "idle",
         pc \in {"patch", "enrich", "tag"} => worker[s].version \in Versions
  PROVE  WorkersTyped'
<1>1. PICK row : row = [worker[s] EXCEPT !.pc = pc]
  OBVIOUS
<1>2. row \in WorkerRow /\ WorkerHas(row)
  BY <1>1, WorkerRowOf DEF WorkerRow, WorkerHas
<1>3. worker' = [worker EXCEPT ![s] = row]
  BY <1>1 DEF WorkerAt
<1> QED
  BY <1>2, <1>3, WorkerMoves

LEMMA Loads ==
  ASSUME WorkersTyped, NoteTyped, NEW s \in Servers, NEW pc \in WorkerPcs, NEW t \in Texts,
         Loaded(s, pc, t), worker[s].pc # "idle",
         pc \in {"patch", "enrich", "tag"} => note.exists
  PROVE  WorkersTyped'
<1>1. PICK row : row = [worker[s] EXCEPT !.pc = pc, !.text = t, !.version = note.version]
  OBVIOUS
<1>2. row \in WorkerRow /\ WorkerHas(row)
  BY <1>1, WorkerRowOf DEF WorkerRow, WorkerHas, NoteTyped, NoteRow
<1>3. worker' = [worker EXCEPT ![s] = row]
  BY <1>1 DEF Loaded
<1> QED
  BY <1>2, <1>3, WorkerMoves

LEMMA NextIsBegun ==
  ASSUME WorkersTyped, NEW s \in Servers, NextJob(s)
  PROVE  WorkersTyped'
<1>1. PICK row : row = [worker[s] EXCEPT !.pc = "idle", !.job = {}, !.text = NoText, !.version = 0]
  OBVIOUS
<1>2. row \in WorkerRow /\ WorkerHas(row)
  BY <1>1, WorkerRowOf DEF WorkerRow, WorkerHas, WorkerPcs, Texts
<1>3. worker' = [worker EXCEPT ![s] = row]
  BY <1>1 DEF NextJob
<1> QED
  BY <1>2, <1>3, WorkerMoves

-----------------------------------------------------------------------------
(* What a step does to the jobs *)

LEMMA EnqueuedAreJobs ==
  ASSUME jobs \in SUBSET Job, NEW type \in JobTypes, NEW v \in Versions
  PROVE  Enqueued(type, v) \in SUBSET Job
<1>1. [type |-> type, version |-> v, attempts |-> 0, leased |-> FALSE] \in Job
  BY Bounds DEF Job
<1> QED
  BY <1>1 DEF Enqueued

LEMMA LeaseAreJobs ==
  ASSUME NEW j \in Job, NEW b \in BOOLEAN
  PROVE  [j EXCEPT !.leased = b] \in Job
  BY DEF Job

-----------------------------------------------------------------------------
(* What a step does to the note *)

\* The note is left alone.
LEMMA NoteStays ==
  ASSUME NoteSide, UNCHANGED <<note, texts, blind, silent>>, lost' \in BOOLEAN, done' \in SUBSET Nat
  PROVE  NoteSide'
  BY DEF NoteSide, NoteTyped, TextsFollow

\* The mark of an enrichment leaves its text and its version.
LEMMA MarksKeep ==
  ASSUME NoteSide, UNCHANGED <<texts, blind, silent, lost>>, done' \in SUBSET Nat, note' \in NoteRow,
         note'.exists = note.exists, note'.text = note.text, note'.version = note.version
  PROVE  NoteSide'
  BY DEF NoteSide, NoteTyped, TextsFollow

LEMMA MarkedKeeps ==
  ASSUME NoteSide, NEW status \in Statuses, Marked(status), UNCHANGED history
  PROVE  NoteSide'
<1>1. /\ note' \in NoteRow /\ note'.exists = note.exists
      /\ note'.text = note.text /\ note'.version = note.version
  BY DEF Marked, NoteSide, NoteTyped, NoteRow
<1> QED
  BY <1>1, MarksKeep DEF history, NoteSide, NoteTyped

\* An update writes the version after the one it was made for, and unless it is
\* blind that is the version after the note's: nothing has been said of it yet.
LEMMA NewVersionKeeps ==
  ASSUME NoteSide, note.exists, NEW t \in Texts, NEW v \in Versions, v < MaxVersion,
         NewVersion(t, v + 1), blind' = (blind \/ note.version # v), UNCHANGED <<lost, done>>
  PROVE  NoteSide'
<1> USE Bounds
<1>1. PICK new : new = TextOr(t, note.text)
  OBVIOUS
<1>2. new \in Text /\ new \in Texts
  BY <1>1 DEF TextOr, NoteSide, NoteTyped, Texts
<1>3. v + 1 \in Versions /\ v + 1 \in Nat
  BY DEF Versions
<1>4. /\ note' = [note EXCEPT !.text = new, !.version = v + 1, !.status = "idle"]
      /\ texts' = [texts EXCEPT ![v + 1] = @ \cup {new}]
      /\ silent' = IF t = NoText THEN silent \cup {v + 1} ELSE silent
  BY <1>1 DEF NewVersion, Edited, Says
<1>5. /\ note' \in NoteRow /\ note'.exists /\ note'.version = v + 1 /\ note'.text = new
  BY <1>2, <1>3, <1>4 DEF NoteSide, NoteTyped, NoteRow, Statuses
<1>6. /\ texts' \in [Versions -> SUBSET Texts]
      /\ \A w \in Versions : texts'[w] = IF w = v + 1 THEN texts[w] \cup {new} ELSE texts[w]
  BY <1>2, <1>3, <1>4 DEF NoteSide, NoteTyped
<1>7. NoteTyped'
  BY <1>2, <1>3, <1>4, <1>5, <1>6 DEF NoteTyped, NoteSide
<1>8. ASSUME ~blind' PROVE TextsFollow'
  <2>1. note.version = v /\ TextsFollow
    BY <1>8 DEF NoteSide, NoteTyped
  <2>2. texts[v + 1] = {}
    BY <1>3, <2>1 DEF TextsFollow, Versions
  <2>3. texts'[v + 1] = {new}
    BY <1>3, <1>6, <2>2
  <2>4. \A w \in Versions : \A x, y \in texts'[w] : x = y
    BY <1>6, <2>1, <2>3 DEF TextsFollow
  <2>5. \A w \in Versions : w > v + 1 => texts'[w] = {}
    BY <1>6, <2>1 DEF TextsFollow, Versions
  <2> QED
    BY <1>5, <2>3, <2>4, <2>5 DEF TextsFollow
<1> QED
  BY <1>7, <1>8 DEF NoteSide

\* A create that finds its own text says nothing new, and any other is refused.
LEMMA ExistingKeeps ==
  ASSUME NoteSide, ClientsTyped, NEW c \in Clients, note.exists, AnswerExisting(c),
         UNCHANGED <<note, blind, silent, lost, done>>
  PROVE  NoteSide' /\ ClientsTyped'
<1>1. note.version \in Versions
  BY DEF NoteSide, NoteTyped
<1>2. CASE note.text = client[c].text
  <2>1. texts' = [texts EXCEPT ![note.version] = @ \cup {note.text}] /\ EnqueueFor(c, note.version)
    BY <1>2 DEF AnswerExisting, Says
  <2>2. ClientsTyped'
    BY <1>1, <2>1, EnqueuesNext
  <2>3. \A w \in Versions : texts'[w] = IF w = note.version THEN texts[w] \cup {note.text} ELSE texts[w]
    BY <2>1 DEF NoteSide, NoteTyped
  <2>4. NoteTyped'
    BY <2>1 DEF NoteSide, NoteTyped, Texts
  <2>5. ASSUME TextsFollow PROVE TextsFollow'
    <3>1. texts' = texts
      <4>1. texts[note.version] = {note.text}
        BY <2>5 DEF TextsFollow
      <4>2. \A w \in Versions : texts'[w] = texts[w]
        BY <2>3, <4>1
      <4>3. texts \in [Versions -> SUBSET Texts] /\ texts' \in [Versions -> SUBSET Texts]
        BY <2>4 DEF NoteTyped, NoteSide
      <4> QED
        BY <4>2, <4>3
    <3> QED
      BY <2>5, <3>1 DEF TextsFollow
  <2> QED
    BY <2>2, <2>4, <2>5 DEF NoteSide
<1>3. CASE note.text # client[c].text
  <2>1. Answer(c) /\ UNCHANGED texts
    BY <1>3 DEF AnswerExisting
  <2> QED
    BY <2>1, Answered, NoteStays DEF NoteSide, NoteTyped
<1> QED
  BY <1>2, <1>3

-----------------------------------------------------------------------------
(* The steps of requests *)

\* The note after any step of a request, and the request.
LEMMA RequestsKeep ==
  ASSUME NotesInv, NEW c \in Clients,
         \/ PostNote(c) \/ PatchNote(c) \/ DeleteNote(c) \/ ClientStep(c)
         \/ EnqueueExpandFails(c) \/ CutOff(c)
  PROVE  NotesInv'
<1> USE Bounds
<1>0. /\ NoteSide /\ NoteTyped /\ ClientsTyped /\ WorkersTyped /\ jobs \in SUBSET Job
      /\ client[c] \in ClientRow /\ ClientHas(client[c])
  BY ClientRowOf DEF NotesInv, NotesTypeOK, NoteSide
<1>w. UNCHANGED worker
  BY DEF PostNote, PatchNote, DeleteNote, ClientStep, EnqueueExpandFails, CutOff, GetExisting,
     InsertNote, GetAfterViolation, PatchVersioned, ReadVersion, PatchBlind, Reread, EnqueueExpand,
     EnqueueEnrich, EnqueueTag, MarkQueued
<1>v. WorkersTyped'
  BY <1>0, <1>w DEF WorkersTyped
<1> SUFFICES NoteSide' /\ ClientsTyped' /\ jobs' \in SUBSET Job
  BY <1>v DEF NotesInv, NotesTypeOK, NoteSide
<1> HIDE <1>w, <1>v
<1>h. ASSUME UNCHANGED <<note, history>> PROVE NoteSide'
  BY <1>0, <1>h, NoteStays DEF history, NoteTyped
<1>1. CASE PostNote(c)
  <2>1. PICK t \in Text : client' = [client EXCEPT ![c].pc = "get", ![c].text = t]
    BY <1>1 DEF PostNote
  <2>2. PICK row : row = [client[c] EXCEPT !.pc = "get", !.text = t]
    OBVIOUS
  <2>3. row \in ClientRow /\ ClientHas(row)
    BY <1>0, <2>2 DEF ClientRow, ClientHas, ClientPcs, Texts
  <2>4. client' = [client EXCEPT ![c] = row]
    BY <2>1, <2>2
  <2> QED
    BY <1>0, <1>1, <1>h, <2>3, <2>4, ClientMoves DEF PostNote
<1>2. CASE PatchNote(c)
  <2>1. PICK t \in Texts, pc \in {"patch", "read"} :
          client' = [client EXCEPT ![c] = [pc |-> pc, text |-> t, version |-> note.version]]
    BY <1>2 DEF PatchNote, Texts
  <2>2. PICK row : row = [pc |-> pc, text |-> t, version |-> note.version]
    OBVIOUS
  <2>3. row \in ClientRow /\ ClientHas(row)
    BY <1>0, <1>2, <2>2 DEF ClientRow, ClientHas, ClientPcs, NoteTyped, NoteRow, PatchNote
  <2>4. client' = [client EXCEPT ![c] = row]
    BY <2>1, <2>2
  <2> QED
    BY <1>0, <1>2, <1>h, <2>3, <2>4, ClientMoves DEF PatchNote
<1>3. CASE DeleteNote(c)
  <2>1. /\ note' = NoNote /\ texts' = [v \in Versions |-> {}] /\ silent' = {} /\ done' = {}
        /\ UNCHANGED <<client, jobs, blind, lost>>
    BY <1>3 DEF DeleteNote
  <2>2. NoteTyped'
    BY <1>0, <2>1 DEF NoteTyped, NoNote, NoteRow, Texts, Statuses
  <2>3. TextsFollow'
    BY <2>1 DEF TextsFollow, NoNote
  <2> QED
    BY <1>0, <2>1, <2>2, <2>3 DEF NoteSide, ClientsTyped
<1>4. CASE GetExisting(c)
  <2>0. UNCHANGED <<note, jobs, blind, silent, lost, done>>
    BY <1>4 DEF GetExisting
  <2>1. CASE note.exists
    BY <1>0, <1>4, <2>0, <2>1, ExistingKeeps DEF GetExisting
  <2>2. CASE ~note.exists
    <3>1. Goto(c, "insert") /\ UNCHANGED texts /\ client[c].text \in Text
      BY <1>0, <1>4, <2>2 DEF GetExisting, ClientHas
    <3>2. ClientsTyped'
      BY <1>0, <3>1, GoesOn DEF ClientPcs
    <3> QED
      BY <1>0, <1>h, <2>0, <3>1, <3>2 DEF history
  <2> QED
    BY <2>1, <2>2
<1>5. CASE GetAfterViolation(c)
  <2>0. UNCHANGED <<note, jobs, blind, silent, lost, done>>
    BY <1>5 DEF GetAfterViolation
  <2>1. CASE note.exists
    BY <1>0, <1>5, <2>0, <2>1, ExistingKeeps DEF GetAfterViolation
  <2>2. CASE ~note.exists
    BY <1>0, <1>5, <1>h, <2>0, <2>2, Answered DEF GetAfterViolation, history
  <2> QED
    BY <2>1, <2>2
<1>6. CASE InsertNote(c)
  <2>0. UNCHANGED <<jobs, blind, silent, lost, done>>
    BY <1>6 DEF InsertNote
  <2>1. CASE note.exists
    <3>1. Goto(c, "getAgain") /\ UNCHANGED <<note, texts>> /\ client[c].text \in Text
      BY <1>0, <1>6, <2>1 DEF InsertNote, ClientHas
    <3>2. ClientsTyped'
      BY <1>0, <3>1, GoesOn DEF ClientPcs
    <3> QED
      BY <1>0, <1>h, <2>0, <3>1, <3>2 DEF history
  <2>2. CASE ~note.exists
    <3>1. PICK t : t = client[c].text
      OBVIOUS
    <3>2. t \in Text /\ t \in Texts
      BY <1>0, <1>6, <3>1 DEF InsertNote, ClientHas, Texts
    <3>3. /\ note' = [exists |-> TRUE, text |-> t, version |-> 1, status |-> "idle", enriched |-> 0]
          /\ texts' = [texts EXCEPT ![1] = @ \cup {t}] /\ EnqueueFor(c, 1)
      BY <1>6, <2>2, <3>1 DEF InsertNote, Created, Says
    <3>4. 1 \in Versions
      BY DEF Versions
    <3>5. ClientsTyped'
      BY <1>0, <3>3, <3>4, EnqueuesNext
    <3>6. note' \in NoteRow /\ note'.exists /\ note'.version = 1 /\ note'.text = t
      BY <3>2, <3>3 DEF NoteRow, Statuses
    <3>7. /\ texts' \in [Versions -> SUBSET Texts]
          /\ \A w \in Versions : texts'[w] = IF w = 1 THEN texts[w] \cup {t} ELSE texts[w]
      BY <1>0, <3>2, <3>3, <3>4 DEF NoteTyped
    <3>8. NoteTyped'
      BY <1>0, <2>0, <3>2, <3>4, <3>6, <3>7 DEF NoteTyped
    <3>9. ASSUME TextsFollow PROVE TextsFollow'
      <4>1. \A w \in Versions : texts[w] = {}
        BY <2>2, <3>9 DEF TextsFollow
      <4>2. \A w \in Versions : texts'[w] = IF w = 1 THEN {t} ELSE {}
        BY <3>7, <4>1
      <4> QED
        BY <3>4, <3>6, <4>2 DEF TextsFollow
    <3> QED
      BY <1>0, <2>0, <3>5, <3>8, <3>9 DEF NoteSide
  <2> QED
    BY <2>1, <2>2
<1>7. CASE PatchVersioned(c)
  <2>0. UNCHANGED <<jobs, blind, lost, done>> /\ client[c].version \in Versions /\ client[c].version < MaxVersion
    BY <1>0, <1>7 DEF PatchVersioned, ClientHas
  <2>1. CASE note.exists /\ note.version = client[c].version
    <3>1. NewVersion(client[c].text, client[c].version + 1) /\ Goto(c, "reread")
      BY <1>7, <2>1 DEF PatchVersioned
    <3>2. ClientsTyped'
      BY <1>0, <3>1, GoesOn DEF ClientPcs
    <3>3. client[c].text \in Texts /\ blind' = (blind \/ note.version # client[c].version)
      BY <1>0, <2>0, <2>1 DEF ClientRow, NoteTyped
    <3>4. NoteSide'
      BY <1>0, <2>0, <2>1, <3>1, <3>3, NewVersionKeeps
    <3> QED
      BY <1>0, <2>0, <3>2, <3>4
  <2>2. CASE ~(note.exists /\ note.version = client[c].version)
    BY <1>0, <1>7, <1>h, <2>0, <2>2, Answered DEF PatchVersioned, history
  <2> QED
    BY <2>1, <2>2
<1>8. CASE ReadVersion(c)
  <2>1. CASE note.exists
    <3>1. PICK row : row = [client[c] EXCEPT !.pc = "patchBlind", !.version = note.version]
      OBVIOUS
    <3>2. row \in ClientRow /\ ClientHas(row)
      BY <1>0, <2>1, <3>1 DEF ClientRow, ClientHas, ClientPcs, NoteTyped, NoteRow
    <3>3. client' = [client EXCEPT ![c] = row]
      BY <1>8, <2>1, <3>1 DEF ReadVersion
    <3> QED
      BY <1>0, <1>8, <1>h, <3>2, <3>3, ClientMoves DEF ReadVersion
  <2>2. CASE ~note.exists
    BY <1>0, <1>8, <1>h, <2>2, Answered DEF ReadVersion
  <2> QED
    BY <2>1, <2>2
<1>9. CASE PatchBlind(c)
  <2>0. /\ UNCHANGED <<jobs, lost, done>> /\ Goto(c, "reread")
        /\ client[c].version \in Versions /\ client[c].version < MaxVersion /\ client[c].text \in Texts
    BY <1>0, <1>9 DEF PatchBlind, ClientHas, ClientRow
  <2>1. ClientsTyped'
    BY <1>0, <2>0, GoesOn DEF ClientPcs
  <2>2. CASE note.exists
    <3>1. /\ NewVersion(client[c].text, client[c].version + 1)
          /\ blind' = (blind \/ note.version # client[c].version)
      BY <1>9, <2>2 DEF PatchBlind
    <3>2. NoteSide'
      BY <1>0, <2>0, <2>2, <3>1, NewVersionKeeps
    <3> QED
      BY <1>0, <2>0, <2>1, <3>2
  <2>3. CASE ~note.exists
    BY <1>0, <1>9, <1>h, <2>0, <2>1, <2>3 DEF PatchBlind, history
  <2> QED
    BY <2>2, <2>3
<1>10. CASE Reread(c)
  <2>1. CASE note.exists /\ client[c].text # NoText
    BY <1>0, <1>10, <1>h, <2>1, EnqueuesNext DEF Reread, NoteTyped
  <2>2. CASE ~(note.exists /\ client[c].text # NoText)
    BY <1>0, <1>10, <1>h, <2>2, Answered DEF Reread
  <2> QED
    BY <2>1, <2>2
<1>11. CASE EnqueueExpand(c)
  <2>1. Enqueued("expand", client[c].version) \in SUBSET Job
    BY <1>0, <1>11, EnqueuedAreJobs DEF EnqueueExpand, ClientHas, JobTypes
  <2> QED
    BY <1>0, <1>11, <1>h, <2>1, Answered DEF EnqueueExpand
<1>12. CASE EnqueueEnrich(c)
  <2>1. Enqueued("enrich", client[c].version) \in SUBSET Job
    BY <1>0, <1>12, EnqueuedAreJobs DEF EnqueueEnrich, ClientHas, JobTypes
  <2>2. AfterEnrich \in ClientPcs /\ client[c].version \in Versions
    BY <1>0, <1>12 DEF AfterEnrich, ClientPcs, EnqueueEnrich, ClientHas
  <2>3. ClientsTyped'
    BY <1>0, <1>12, <2>2, GoesOn DEF EnqueueEnrich, AfterEnrich
  <2> QED
    BY <1>0, <1>12, <1>h, <2>1, <2>3 DEF EnqueueEnrich
<1>13. CASE EnqueueTag(c)
  <2>1. Enqueued("tag", client[c].version) \in SUBSET Job
    BY <1>0, <1>13, EnqueuedAreJobs DEF EnqueueTag, ClientHas, JobTypes
  <2>2. ClientsTyped'
    BY <1>0, <1>13, GoesOn DEF EnqueueTag, ClientPcs
  <2> QED
    BY <1>0, <1>13, <1>h, <2>1, <2>2 DEF EnqueueTag
<1>14. CASE MarkQueued(c)
  <2>1. NoteSide'
    BY <1>0, <1>14, MarkedKeeps DEF MarkQueued, Statuses
  <2> QED
    BY <1>0, <1>14, <2>1, Answered DEF MarkQueued
<1>15. CASE EnqueueExpandFails(c)
  <2>1. ClientsTyped'
    BY <1>0, <1>15, GoesOn DEF EnqueueExpandFails, ClientPcs, ClientHas
  <2> QED
    BY <1>0, <1>15, <1>h, <2>1 DEF EnqueueExpandFails
<1>16. CASE CutOff(c)
  <2>1. lost' \in BOOLEAN /\ done' \in SUBSET Nat /\ UNCHANGED <<note, texts, blind, silent>>
    BY <1>0, <1>16 DEF CutOff, NoteTyped
  <2> QED
    BY <1>0, <1>16, <2>1, Answered, NoteStays DEF CutOff
<1> QED
  BY <1>1, <1>2, <1>3, <1>4, <1>5, <1>6, <1>7, <1>8, <1>9, <1>10, <1>11, <1>12, <1>13, <1>14, <1>15, <1>16
     DEF ClientStep

-----------------------------------------------------------------------------
(* The steps of workers *)

LEMMA WorkersKeep ==
  ASSUME NotesInv, NEW s \in Servers,
         \/ WorkerStep(s) \/ JobFails(s) \/ EnqueueExpandedFails(s) \/ Dies(s) \/ LeaseLapses(s)
  PROVE  NotesInv'
<1> USE Bounds
<1>0. /\ NoteSide /\ NoteTyped /\ ClientsTyped /\ WorkersTyped /\ jobs \in SUBSET Job
      /\ worker[s] \in WorkerRow /\ WorkerHas(worker[s])
      /\ worker[s].pc # "idle" => Current(s) \in Job
  BY WorkerRowOf DEF NotesInv, NotesTypeOK, NoteSide
<1>c. UNCHANGED client
  BY DEF WorkerStep, JobFails, EnqueueExpandedFails, Dies, LeaseLapses, Claim, Begin, MarkRunning,
     LoadForLabels, LoadForTags, LoadForLinks, PatchExpanded, RereadExpanded, EnqueueExpanded,
     MarkExpandedQueued, MarkSucceeded, MarkFailed, CompleteJob, FailJob
<1>v. ClientsTyped'
  BY <1>0, <1>c DEF ClientsTyped
<1> SUFFICES NoteSide' /\ WorkersTyped' /\ jobs' \in SUBSET Job
  BY <1>v DEF NotesInv, NotesTypeOK, NoteSide
<1> HIDE <1>c, <1>v
<1>h. ASSUME UNCHANGED <<note, history>> PROVE NoteSide'
  BY <1>0, <1>h, NoteStays DEF history, NoteTyped
<1>l. ASSUME UNCHANGED <<note, texts, blind, silent, done>>, lost' \in BOOLEAN PROVE NoteSide'
  BY <1>0, <1>l, NoteStays DEF NoteTyped
<1>1. CASE Claim(s)
  <2>1. PICK batch \in SUBSET jobs : /\ jobs' = (jobs \ batch) \cup {Leased(j) : j \in batch}
                                     /\ worker' = [worker EXCEPT ![s].batch = {Leased(j) : j \in batch}]
    BY <1>1 DEF Claim
  <2>2. PICK leased : leased = {Leased(j) : j \in batch}
    OBVIOUS
  <2>3. leased \in SUBSET Job
    BY <1>0, <2>2, LeaseAreJobs DEF Leased
  <2>4. PICK row : row = [worker[s] EXCEPT !.batch = leased]
    OBVIOUS
  <2>5. row \in WorkerRow /\ WorkerHas(row)
    BY <1>0, <2>3, <2>4 DEF WorkerRow, WorkerHas
  <2>6. worker' = [worker EXCEPT ![s] = row] /\ jobs' = (jobs \ batch) \cup leased
    BY <2>1, <2>2, <2>4
  <2> QED
    BY <1>0, <1>1, <1>h, <2>3, <2>5, <2>6, WorkerMoves DEF Claim
<1>2. CASE Begin(s)
  <2>1. PICK j \in worker[s].batch, pc \in {"complete", "running", "load"} :
          worker' = [worker EXCEPT ![s].pc = pc, ![s].job = {j}, ![s].batch = @ \ {j}]
    <3>1. PICK j \in worker[s].batch :
            worker' = [worker EXCEPT ![s].pc = IF Stale(j) THEN "complete"
                                          ELSE IF j.type = "enrich" THEN "running" ELSE "load",
                                ![s].job = {j}, ![s].batch = @ \ {j}]
      BY <1>2 DEF Begin
    <3>2. PICK pc \in {"complete", "running", "load"} :
            pc = IF Stale(j) THEN "complete" ELSE IF j.type = "enrich" THEN "running" ELSE "load"
      OBVIOUS
    <3> QED
      BY <3>1, <3>2
  <2>2. PICK row : row = [worker[s] EXCEPT !.pc = pc, !.job = {j}, !.batch = @ \ {j}]
    OBVIOUS
  <2>3. row \in WorkerRow /\ WorkerHas(row)
    BY <1>0, <2>2 DEF WorkerRow, WorkerHas, WorkerPcs
  <2>4. worker' = [worker EXCEPT ![s] = row]
    BY <2>1, <2>2
  <2> QED
    BY <1>0, <1>2, <1>h, <2>3, <2>4, WorkerMoves DEF Begin
<1>3. CASE MarkRunning(s)
  <2>1. NoteSide'
    BY <1>0, <1>3, MarkedKeeps DEF MarkRunning, Statuses
  <2>2. PICK pc \in {"load", "succeed"} : WorkerAt(s, pc)
    BY <1>3 DEF MarkRunning
  <2>3. WorkersTyped'
    BY <1>0, <1>3, <2>2, WorksOn DEF MarkRunning, WorkerPcs
  <2> QED
    BY <1>0, <1>3, <2>1, <2>3 DEF MarkRunning
<1>4. CASE LoadForLabels(s)
  <2>1. WorkersTyped'
    BY <1>0, <1>4, Loads DEF LoadForLabels, WorkerPcs, Texts
  <2> QED
    BY <1>0, <1>4, <1>h, <2>1 DEF LoadForLabels
<1>5. CASE LoadForTags(s)
  <2>1. CASE ~note.exists
    BY <1>0, <1>5, <1>h, <2>1, WorksOn DEF LoadForTags, WorkerPcs
  <2>2. CASE note.exists
    <3>1. PICK pc \in {"complete", "running"} : Loaded(s, pc, NoText)
      BY <1>5, <2>2 DEF LoadForTags
    <3>2. WorkersTyped'
      BY <1>0, <1>5, <2>2, <3>1, Loads DEF LoadForTags, WorkerPcs, Texts
    <3> QED
      BY <1>0, <1>5, <1>h, <3>2 DEF LoadForTags
  <2> QED
    BY <2>1, <2>2
<1>6. CASE LoadForLinks(s)
  <2>0. worker[s].pc # "idle" /\ UNCHANGED <<note, jobs, history>>
    BY <1>6 DEF LoadForLinks
  <2>1. CASE ~note.exists
    BY <1>0, <1>6, <1>h, <2>0, <2>1, WorksOn DEF LoadForLinks, WorkerPcs
  <2>2. CASE note.exists /\ Loaded(s, "enrich", note.text)
    <3>1. WorkersTyped'
      BY <1>0, <2>0, <2>2, Loads DEF WorkerPcs, Texts, NoteTyped
    <3> QED
      BY <1>0, <1>h, <2>0, <3>1
  <2>3. CASE note.exists /\ Loaded(s, "patch", [note.text EXCEPT !.links = "expanded"])
    <3>1. [note.text EXCEPT !.links = "expanded"] \in Texts
      BY <1>0, <2>3 DEF NoteTyped, Text, Texts
    <3>2. WorkersTyped'
      BY <1>0, <2>0, <2>3, <3>1, Loads DEF WorkerPcs
    <3> QED
      BY <1>0, <1>h, <2>0, <3>2
  <2> QED
    BY <1>6, <2>1, <2>2, <2>3 DEF LoadForLinks
<1>7. CASE PatchExpanded(s)
  <2>0. /\ UNCHANGED <<jobs, blind, lost, done>> /\ worker[s].pc # "idle"
        /\ worker[s].version \in Versions /\ worker[s].version < MaxVersion /\ worker[s].text \in Texts
    BY <1>0, <1>7 DEF PatchExpanded, WorkerHas, WorkerRow
  <2>1. CASE note.exists /\ note.version = worker[s].version
    <3>1. NewVersion(worker[s].text, worker[s].version + 1) /\ WorkerAt(s, "reread")
      BY <1>7, <2>1 DEF PatchExpanded
    <3>2. WorkersTyped'
      BY <1>0, <2>0, <3>1, WorksOn DEF WorkerPcs
    <3>3. blind' = (blind \/ note.version # worker[s].version)
      BY <1>0, <2>0, <2>1 DEF NoteTyped
    <3>4. NoteSide'
      BY <1>0, <2>0, <2>1, <3>1, <3>3, NewVersionKeeps
    <3> QED
      BY <1>0, <2>0, <3>2, <3>4
  <2>2. CASE ~(note.exists /\ note.version = worker[s].version)
    <3>1. UNCHANGED <<note, texts, silent>> /\ \E pc \in {"fail", "complete"} : WorkerAt(s, pc)
      BY <1>7, <2>2 DEF PatchExpanded
    <3>2. WorkersTyped'
      BY <1>0, <2>0, <3>1, WorksOn DEF WorkerPcs
    <3> QED
      BY <1>0, <1>h, <2>0, <3>1, <3>2 DEF history
  <2> QED
    BY <2>1, <2>2
<1>8. CASE RereadExpanded(s)
  <2>0. worker[s].pc # "idle" /\ UNCHANGED <<note, jobs, history>>
    BY <1>8 DEF RereadExpanded
  <2>1. CASE ~note.exists
    BY <1>0, <1>8, <1>h, <2>0, <2>1, WorksOn DEF RereadExpanded, WorkerPcs
  <2>2. CASE note.exists
    <3>1. WorkersTyped'
      BY <1>0, <1>8, <2>0, <2>2, Loads DEF RereadExpanded, WorkerPcs, Texts, NoteTyped
    <3> QED
      BY <1>0, <1>h, <2>0, <3>1
  <2> QED
    BY <2>1, <2>2
<1>9. CASE EnqueueExpanded(s)
  <2>0. worker[s].pc # "idle" /\ worker[s].pc \in JobTypes /\ worker[s].version \in Versions
    BY <1>0, <1>9 DEF EnqueueExpanded, JobTypes, WorkerHas
  <2>1. Enqueued(worker[s].pc, worker[s].version) \in SUBSET Job
    BY <1>0, <2>0, EnqueuedAreJobs
  <2>2. \E pc \in {"tag", "mark"} : WorkerAt(s, pc)
    BY <1>9 DEF EnqueueExpanded, AfterEnrich
  <2>3. WorkersTyped'
    BY <1>0, <2>0, <2>2, WorksOn DEF WorkerPcs
  <2> QED
    BY <1>0, <1>9, <1>h, <2>1, <2>3 DEF EnqueueExpanded
<1>10. CASE MarkExpandedQueued(s)
  <2>1. NoteSide'
    BY <1>0, <1>10, MarkedKeeps DEF MarkExpandedQueued, Statuses
  <2>2. WorkersTyped'
    BY <1>0, <1>10, WorksOn DEF MarkExpandedQueued, WorkerPcs
  <2> QED
    BY <1>0, <1>10, <2>1, <2>2 DEF MarkExpandedQueued
<1>11. CASE MarkSucceeded(s)
  <2>0. /\ worker[s].pc # "idle" /\ Current(s).version \in Nat /\ worker[s].version \in Nat
        /\ UNCHANGED <<jobs, texts, blind, silent, lost>>
    BY <1>0, <1>11 DEF MarkSucceeded, WorkerRow, Job, Versions
  <2>1. PICK v \in Nat : note' = IF note.exists THEN [note EXCEPT !.status = "succeeded", !.enriched = v]
                                                ELSE note
    BY <1>11, <2>0 DEF MarkSucceeded
  <2>2. done' \in SUBSET Nat
    BY <1>0, <1>11, <2>0 DEF MarkSucceeded, NoteTyped
  <2>3. /\ note' \in NoteRow /\ note'.exists = note.exists
        /\ note'.text = note.text /\ note'.version = note.version
    BY <1>0, <2>1 DEF NoteTyped, NoteRow, Statuses
  <2>4. NoteSide'
    BY <1>0, <2>0, <2>2, <2>3, MarksKeep
  <2>5. WorkersTyped'
    BY <1>0, <1>11, <2>0, WorksOn DEF MarkSucceeded, WorkerPcs
  <2> QED
    BY <1>0, <2>0, <2>4, <2>5
<1>12. CASE JobFails(s)
  <2>1. PICK pc \in {"failed", "fail"} : WorkerAt(s, pc)
    BY <1>12 DEF JobFails
  <2>2. WorkersTyped'
    BY <1>0, <1>12, <2>1, WorksOn DEF JobFails, WorkerPcs
  <2> QED
    BY <1>0, <1>12, <1>l, <2>2 DEF JobFails
<1>13. CASE EnqueueExpandedFails(s)
  <2>1. PICK pc \in {"complete", "mark"} : WorkerAt(s, pc)
    BY <1>13 DEF EnqueueExpandedFails
  <2>2. WorkersTyped'
    BY <1>0, <1>13, <2>1, WorksOn DEF EnqueueExpandedFails, WorkerPcs
  <2> QED
    BY <1>0, <1>13, <1>l, <2>2 DEF EnqueueExpandedFails
<1>14. CASE MarkFailed(s)
  <2>1. NoteSide'
    BY <1>0, <1>14, MarkedKeeps DEF MarkFailed, Statuses
  <2>2. WorkersTyped'
    BY <1>0, <1>14, WorksOn DEF MarkFailed, WorkerPcs
  <2> QED
    BY <1>0, <1>14, <2>1, <2>2 DEF MarkFailed
<1>15. CASE CompleteJob(s)
  <2>1. jobs' \in SUBSET Job
    BY <1>0, <1>15 DEF CompleteJob
  <2> QED
    BY <1>0, <1>15, <1>h, <2>1, NextIsBegun DEF CompleteJob
<1>16. CASE FailJob(s)
  <2>1. \A j \in jobs : j.attempts + 1 < MaxAttempts =>
          [j EXCEPT !.attempts = @ + 1, !.leased = FALSE] \in Job
    <3>1. SUFFICES ASSUME NEW j \in jobs, j.attempts + 1 < MaxAttempts
                   PROVE  [j EXCEPT !.attempts = @ + 1, !.leased = FALSE] \in Job
      OBVIOUS
    <3>2. j \in Job
      BY <1>0
    <3>3. j.attempts + 1 \in 0..(MaxAttempts - 1)
      BY <3>1, <3>2 DEF Job
    <3>4. PICK n \in 0..(MaxAttempts - 1) : n = j.attempts + 1
      BY <3>3
    <3>5. [j EXCEPT !.attempts = n, !.leased = FALSE] \in Job
      BY <3>2 DEF Job
    <3> QED
      BY <3>4, <3>5
  <2>2. {[j EXCEPT !.attempts = @ + 1, !.leased = FALSE] :
                     j \in {k \in jobs : SameKey(k, Current(s)) /\ k.attempts + 1 < MaxAttempts}} \in SUBSET Job
    BY <2>1
  <2>3. jobs' \in SUBSET Job
    BY <1>0, <1>16, <2>2 DEF FailJob
  <2> QED
    BY <1>0, <1>16, <1>l, <2>3, NextIsBegun DEF FailJob
<1>17. CASE Dies(s)
  <2>1. IdleWorker \in WorkerRow /\ WorkerHas(IdleWorker)
    BY DEF IdleWorker, WorkerRow, WorkerHas, WorkerPcs, Texts
  <2>2. \A j \in jobs, b \in BOOLEAN : [j EXCEPT !.leased = b] \in Job
    BY <1>0, LeaseAreJobs
  <2>3. jobs' \in SUBSET Job
    <3>1. \A j \in jobs : [j EXCEPT !.leased = IF \E k \in worker[s].job \cup worker[s].batch : SameKey(j, k)
                                     THEN FALSE ELSE @] \in Job
      <4>1. SUFFICES ASSUME NEW j \in jobs
                     PROVE  [j EXCEPT !.leased = IF \E k \in worker[s].job \cup worker[s].batch : SameKey(j, k)
                                     THEN FALSE ELSE @] \in Job
        OBVIOUS
      <4>2. j.leased \in BOOLEAN
        BY <1>0 DEF Job
      <4>3. PICK b \in BOOLEAN : b = IF \E k \in worker[s].job \cup worker[s].batch : SameKey(j, k)
                                     THEN FALSE ELSE j.leased
        BY <4>2
      <4> QED
        BY <2>2, <4>3
    <3> QED
      BY <1>17, <3>1 DEF Dies
  <2>4. WorkersTyped'
    BY <1>0, <1>17, <2>1, WorkerMoves DEF Dies
  <2> QED
    BY <1>0, <1>17, <1>l, <2>3, <2>4 DEF Dies
<1>18. CASE LeaseLapses(s)
  <2>1. PICK k \in worker[s].batch :
          jobs' = {[j EXCEPT !.leased = IF SameKey(j, k) THEN FALSE ELSE @] : j \in jobs}
    BY <1>18 DEF LeaseLapses
  <2>2. \A j \in jobs : [j EXCEPT !.leased = IF SameKey(j, k) THEN FALSE ELSE @] \in Job
    <3>1. SUFFICES ASSUME NEW j \in jobs
                   PROVE  [j EXCEPT !.leased = IF SameKey(j, k) THEN FALSE ELSE @] \in Job
      OBVIOUS
    <3>2. j \in Job /\ j.leased \in BOOLEAN
      BY <1>0 DEF Job
    <3>3. PICK b \in BOOLEAN : b = IF SameKey(j, k) THEN FALSE ELSE j.leased
      BY <3>2
    <3> QED
      BY <3>2, <3>3, LeaseAreJobs
  <2>3. jobs' \in SUBSET Job
    BY <2>1, <2>2
  <2> QED
    BY <1>0, <1>18, <1>h, <2>3 DEF LeaseLapses, WorkersTyped
<1> QED
  BY <1>1, <1>2, <1>3, <1>4, <1>5, <1>6, <1>7, <1>8, <1>9, <1>10, <1>11, <1>12, <1>13, <1>14, <1>15, <1>16,
     <1>17, <1>18 DEF WorkerStep

-----------------------------------------------------------------------------
LEMMA NotesStutter == NotesInv /\ UNCHANGED vars => NotesInv'
<1> SUFFICES ASSUME NotesInv, UNCHANGED vars PROVE NotesInv'
  OBVIOUS
<1>1. NoteTyped' /\ (blind \/ TextsFollow)'
  BY DEF NotesInv, NotesTypeOK, NoteTyped, TextsFollow, vars, history
<1>2. ClientsTyped' /\ WorkersTyped' /\ jobs' \in SUBSET Job
  BY DEF NotesInv, NotesTypeOK, ClientsTyped, WorkersTyped, vars
<1> QED
  BY <1>1, <1>2 DEF NotesInv, NotesTypeOK

LEMMA NotesSteps == NotesInv /\ [Next]_vars => NotesInv'
<1> SUFFICES ASSUME NotesInv, [Next]_vars PROVE NotesInv'
  OBVIOUS
<1>1. ASSUME NEW c \in Clients,
             \/ PostNote(c) \/ PatchNote(c) \/ DeleteNote(c) \/ ClientStep(c)
             \/ EnqueueExpandFails(c) \/ CutOff(c)
      PROVE  NotesInv'
  BY <1>1, RequestsKeep
<1>2. ASSUME NEW s \in Servers,
             \/ WorkerStep(s) \/ JobFails(s) \/ EnqueueExpandedFails(s) \/ Dies(s) \/ LeaseLapses(s)
      PROVE  NotesInv'
  BY <1>2, WorkersKeep
<1>3. CASE UNCHANGED vars
  BY <1>3, NotesStutter
<1> QED
  BY <1>1, <1>2, <1>3 DEF Next

\* The note, the jobs and all who work on them have their types; whoever patches
\* or enqueues (UpdateNote, enqueueEnrichment) has a version of the note in hand.
THEOREM NotesStand == Spec => []NotesInv
  BY NotesStart, NotesSteps, PTL DEF Spec

\* A version of the note names one text (Notes.CreateNote, Notes.UpdateNote).
THEOREM VersionsNameTexts == Spec => []VersionNamesText
<1>1. ASSUME NotesInv PROVE VersionNamesText
  <2>1. SUFFICES ASSUME ~blind, NEW v \in Versions PROVE Cardinality(texts[v]) <= 1
    BY DEF VersionNamesText
  <2>2. \A t, u \in texts[v] : t = u
    BY <1>1, <2>1 DEF NotesInv, TextsFollow
  <2>3. CASE texts[v] = {}
    BY <2>3, FS_EmptySet
  <2>4. CASE texts[v] # {}
    <3>1. PICK t \in texts[v] : texts[v] = {t}
      BY <2>2, <2>4
    <3>2. Cardinality({t}) = 1
      BY FS_Singleton
    <3> QED
      BY <3>1, <3>2
  <2> QED
    BY <2>3, <2>4
<1> QED
  BY <1>1, NotesStand, PTL

=============================================================================
