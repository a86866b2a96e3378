------------------------------- MODULE Notes --------------------------------
(***************************************************************************)
(* One note (internal/notes, storage/notes_store.go) and the background    *)
(* jobs that expand its links, label it and tag it (internal/jobs).        *)
(*                                                                         *)
(* Clients create the note under an id of their own, retry, edit it with   *)
(* or without the version they have seen, and delete it, while the jobs of *)
(* earlier versions are still at work.  A versioned PATCH is filtered on   *)
(* content_version; an unversioned one writes the version it read plus     *)
(* one; the marks of the enrichment are PATCHes by id.  One action is one  *)
(* round trip.  A text is its wording and whether its links are expanded.  *)
(***************************************************************************)
EXTENDS Integers, FiniteSets

CONSTANTS Words,        \* wordings of the note
          NoText,
          Clients,      \* goroutines of the handlers
          Servers,      \* each has a worker
          SmartTagging, \* the feature flag of the user
          Batch,        \* jobs one Claim takes
          MaxAttempts,  \* of a job, then dead_letter
          MaxVersion,   \* bound: versions of the note
          MaxActs,      \* bound: requests
          MaxFaults     \* bound: calls that fail, requests cut off, servers that die

ASSUME NotesBounds ==
  /\ Batch \in Nat \ {0} /\ MaxAttempts \in Nat \ {0} /\ MaxVersion \in Nat \ {0}
  /\ MaxActs \in Nat /\ MaxFaults \in Nat
ASSUME NotesFlag == SmartTagging \in BOOLEAN

VARIABLES note,     \* the row of the notes table
          jobs,     \* outstanding rows of background_jobs
          client,   \* client[c]: program counter and locals of a request
          worker,   \* worker[s]: the job a worker is at, and the rest of its batch
          acts, faults,
          texts,    \* history: texts[v], what version v has said, in the row or to a client
          blind,    \* history: an unversioned PATCH hit another version than it read
          silent,   \* history: versions made by a PATCH after which nothing is enqueued
          lost,     \* history: a request or an expansion was cut off between its patch and
                    \* its jobs, or a job has used up its attempts
          done      \* history: versions whose text an enrichment has read to the end

history == <<texts, blind, silent, lost, done>>
vars == <<note, jobs, client, worker, acts, faults, history>>

-----------------------------------------------------------------------------
Versions == 1..MaxVersion
Text == [word : Words, links : {"none", "plain", "expanded"}]
JobTypes == {"expand", "enrich", "tag"}

NoNote == [exists |-> FALSE, text |-> NoText, version |-> 0, status |-> "idle", enriched |-> 0]

Job == [type : JobTypes, version : Versions, attempts : 0..(MaxAttempts - 1), leased : BOOLEAN]

IdleClient == [pc |-> "idle", text |-> NoText, version |-> 0]

IdleWorker == [pc |-> "idle", job |-> {}, batch |-> {}, text |-> NoText, version |-> 0]

Act == acts < MaxActs /\ acts' = acts + 1
Fault == faults < MaxFaults /\ faults' = faults + 1

Init ==
  /\ note = NoNote /\ jobs = {}
  /\ client = [c \in Clients |-> IdleClient]
  /\ worker = [s \in Servers |-> IdleWorker]
  /\ acts = 0 /\ faults = 0
  /\ texts = [v \in Versions |-> {}] /\ blind = FALSE
  /\ silent = {} /\ lost = FALSE /\ done = {}

Goto(c, pc) == client' = [client EXCEPT ![c].pc = pc]
Answer(c) == client' = [client EXCEPT ![c] = IdleClient]
WorkerAt(s, pc) == worker' = [worker EXCEPT ![s].pc = pc]
Current(s) == CHOOSE j \in worker[s].job : TRUE

HasLinks(text) == text.links # "none"
Says(version, text) == texts' = [texts EXCEPT ![version] = @ \cup {text}]

-----------------------------------------------------------------------------
(* The effects of the store calls *)

\* A job that is outstanding under the same dedupe key takes the new one's place.
Enqueued(type, version) ==
  IF \E j \in jobs : j.type = type /\ j.version = version THEN jobs
  ELSE jobs \cup {[type |-> type, version |-> version, attempts |-> 0, leased |-> FALSE]}

Marked(status) == note' = IF note.exists THEN [note EXCEPT !.status = status] ELSE note

Created(text) ==
  note' = [exists |-> TRUE, text |-> text, version |-> 1, status |-> "idle", enriched |-> 0]

\* The PATCH of a new text.
Edited(text, version) ==
  note' = [note EXCEPT !.text = text, !.version = version, !.status = "idle"]

-----------------------------------------------------------------------------
(* Handler.Create: Sync.CreateManualWithID, Notes.CreateNote *)

PostNote(c) ==
  /\ client[c].pc = "idle"
  /\ Act
  /\ \E t \in Text : t.links # "expanded"
                     /\ client' = [client EXCEPT ![c].pc = "get", ![c].text = t]
  /\ UNCHANGED <<note, jobs, worker, faults, history>>

\* After a create: what is enqueued first depends on the links of the text sent.
EnqueueFor(c, version) ==
  client' = [client EXCEPT ![c].pc = IF HasLinks(client[c].text) THEN "expand" ELSE "enrich",
                           ![c].version = version]

\* Slip: whatever is there under the id counts as this create.
AnswerExisting_Unread(c) ==
  /\ Says(note.version, client[c].text) /\ EnqueueFor(c, note.version)

\* A note of the same text is returned, and enriched, as if it were new; one of
\* another text is an idempotency conflict.
AnswerExisting(c) ==
  IF note.text = client[c].text
    THEN Says(note.version, client[c].text) /\ EnqueueFor(c, note.version)
    ELSE Answer(c) /\ UNCHANGED texts

GetExisting(c) ==
  /\ client[c].pc = "get"
  /\ IF note.exists THEN AnswerExisting(c) ELSE Goto(c, "insert") /\ UNCHANGED texts
  /\ UNCHANGED <<note, jobs, worker, acts, faults, blind, silent, lost, done>>

\* The id is the primary key.
InsertNote(c) ==
  /\ client[c].pc = "insert"
  /\ IF note.exists
       THEN Goto(c, "getAgain") /\ UNCHANGED <<note, texts>>
       ELSE Created(client[c].text) /\ Says(1, client[c].text) /\ EnqueueFor(c, 1)
  /\ UNCHANGED <<jobs, worker, acts, faults, blind, silent, lost, done>>

GetAfterViolation(c) ==
  /\ client[c].pc = "getAgain"
  /\ IF note.exists THEN AnswerExisting(c) ELSE Answer(c) /\ UNCHANGED texts
  /\ UNCHANGED <<note, jobs, worker, acts, faults, blind, silent, lost, done>>

-----------------------------------------------------------------------------
(* Handler.Update: Notes.UpdateNote.  The text NoText stands for a request   *)
(* that only removes images or, with a version, only sets flags: the version *)
(* moves on, and Update enqueues nothing.                                   *)

\* A client sends back the text it has read with other words, or adds links.
PatchNote(c) ==
  /\ client[c].pc = "idle" /\ note.exists
  /\ Act
  /\ \E t \in Text \cup {NoText}, pc \in {"patch", "read"} :
       /\ t # NoText => t # note.text /\ t.links \in {"none", "plain", note.text.links}
       /\ client' = [client EXCEPT ![c] = [pc |-> pc, text |-> t, version |-> note.version]]
  /\ UNCHANGED <<note, jobs, worker, faults, history>>

TextOr(text, old) == IF text = NoText THEN old ELSE text

NewVersion(text, version) ==
  /\ Edited(TextOr(text, note.text), version)
  /\ Says(version, TextOr(text, note.text))
  /\ silent' = IF text = NoText THEN silent \cup {version} ELSE silent

PatchVersioned(c) ==
  /\ client[c].pc = "patch" /\ client[c].version < MaxVersion
  /\ IF note.exists /\ note.version = client[c].version
       THEN NewVersion(client[c].text, client[c].version + 1) /\ Goto(c, "reread")
       ELSE Answer(c) /\ UNCHANGED <<note, texts, silent>>
  /\ UNCHANGED <<jobs, worker, acts, faults, blind, lost, done>>

\* Without a version in the request, the one in the row is read first ...
ReadVersion(c) ==
  /\ client[c].pc = "read"
  /\ IF note.exists
       THEN client' = [client EXCEPT ![c].pc = "patchBlind", ![c].version = note.version]
       ELSE Answer(c)
  /\ UNCHANGED <<note, jobs, worker, acts, faults, history>>

\* ... and the PATCH is by id alone.
PatchBlind(c) ==
  /\ client[c].pc = "patchBlind" /\ client[c].version < MaxVersion
  /\ IF note.exists
       THEN /\ NewVersion(client[c].text, client[c].version + 1)
            /\ blind' = (blind \/ note.version # client[c].version)
       ELSE UNCHANGED <<note, texts, silent, blind>>
  /\ Goto(c, "reread")
  /\ UNCHANGED <<jobs, worker, acts, faults, lost, done>>

\* The row as it is now is answered, and enriched; whether its links are to be
\* expanded was settled by the text of the request.
Reread(c) ==
  /\ client[c].pc = "reread"
  /\ IF note.exists /\ client[c].text # NoText THEN EnqueueFor(c, note.version) ELSE Answer(c)
  /\ UNCHANGED <<note, jobs, worker, acts, faults, history>>

DeleteNote(c) ==
  /\ client[c].pc = "idle" /\ note.exists
  /\ Act
  /\ note' = NoNote
  /\ texts' = [v \in Versions |-> {}] /\ silent' = {} /\ done' = {}
  /\ UNCHANGED <<jobs, client, worker, faults, blind, lost>>

-----------------------------------------------------------------------------
(* Sync.enqueueLinkExpand and Sync.enqueueEnrichment, in a request *)

EnqueueExpand(c) ==
  /\ client[c].pc = "expand"
  /\ jobs' = Enqueued("expand", client[c].version)
  /\ Answer(c)
  /\ UNCHANGED <<note, worker, acts, faults, history>>

\* Without a job to expand the links the note is enriched as it is.
EnqueueExpandFails(c) ==
  /\ client[c].pc = "expand"
  /\ Fault
  /\ Goto(c, "enrich")
  /\ UNCHANGED <<note, jobs, worker, acts, history>>

AfterEnrich == IF SmartTagging THEN "tag" ELSE "mark"

\* note_enrich, and note_embed, for which no handler is registered.
EnqueueEnrich(c) ==
  /\ client[c].pc = "enrich"
  /\ jobs' = Enqueued("enrich", client[c].version)
  /\ Goto(c, AfterEnrich)
  /\ UNCHANGED <<note, worker, acts, faults, history>>

EnqueueTag(c) ==
  /\ client[c].pc = "tag"
  /\ jobs' = Enqueued("tag", client[c].version)
  /\ Goto(c, "mark")
  /\ UNCHANGED <<note, worker, acts, faults, history>>

\* By id, after the jobs were enqueued: what a quick worker has set is lost.
MarkQueued(c) ==
  /\ client[c].pc = "mark"
  /\ Marked("queued")
  /\ Answer(c)
  /\ UNCHANGED <<jobs, worker, acts, faults, history>>

\* The connection is gone or the store fails: the rest of the request is not done.
CutOff(c) ==
  /\ client[c].pc # "idle"
  /\ Fault
  /\ Answer(c)
  /\ lost' = TRUE
  /\ UNCHANGED <<note, jobs, worker, acts, texts, blind, silent, done>>

-----------------------------------------------------------------------------
(* Worker.tick and Worker.runOne: a batch is leased at once and worked on    *)
(* job by job.                                                              *)

Leased(j) == [j EXCEPT !.leased = TRUE]

Claim(s) ==
  /\ worker[s].pc = "idle" /\ worker[s].batch = {}
  /\ \E batch \in SUBSET {j \in jobs : ~j.leased} :
       /\ batch # {} /\ Cardinality(batch) <= Batch
       /\ jobs' = (jobs \ batch) \cup {Leased(j) : j \in batch}
       /\ worker' = [worker EXCEPT ![s].batch = {Leased(j) : j \in batch}]
  /\ UNCHANGED <<note, client, acts, faults, history>>

Stale(j) == note.exists /\ note.version > j.version

\* TargetIsStale: the job of an older version is completed unworked.
Begin(s) ==
  /\ worker[s].pc = "idle"
  /\ \E j \in worker[s].batch :
       worker' = [worker EXCEPT ![s].pc = IF Stale(j) THEN "complete"
                                          ELSE IF j.type = "enrich" THEN "running" ELSE "load",
                                ![s].job = {j}, ![s].batch = @ \ {j}]
  /\ UNCHANGED <<note, jobs, client, acts, faults, history>>

\* MarkEnrichmentRunning: Indexer.HandleJob calls it first, SmartTagEnricher
\* after it has read the note.
MarkRunning(s) ==
  /\ worker[s].pc = "running"
  /\ Marked("running")
  /\ WorkerAt(s, IF Current(s).type = "enrich" THEN "load" ELSE "succeed")
  /\ UNCHANGED <<jobs, client, acts, faults, history>>

Loaded(s, pc, text) ==
  worker' = [worker EXCEPT ![s].pc = pc, ![s].text = text, ![s].version = note.version]

\* The indexer labels whatever it loads; a note that is gone has nothing to label.
LoadForLabels(s) ==
  /\ worker[s].pc = "load" /\ Current(s).type = "enrich"
  /\ Loaded(s, "succeed", NoText)
  /\ UNCHANGED <<note, jobs, client, acts, faults, history>>

LoadForTags(s) ==
  /\ worker[s].pc = "load" /\ Current(s).type = "tag"
  /\ IF ~note.exists THEN WorkerAt(s, "fail")
     ELSE Loaded(s, IF Stale(Current(s)) THEN "complete" ELSE "running", NoText)
  /\ UNCHANGED <<note, jobs, client, acts, faults, history>>

\* LinkExpander.HandleJob: pages that cannot be fetched leave the text as it is.
LoadForLinks(s) ==
  /\ worker[s].pc = "load" /\ Current(s).type = "expand"
  /\ IF ~note.exists THEN WorkerAt(s, "fail")
     ELSE \/ Loaded(s, "enrich", note.text)
          \/ /\ note.text.links = "plain"
             /\ Loaded(s, "patch", [note.text EXCEPT !.links = "expanded"])
  /\ UNCHANGED <<note, jobs, client, acts, faults, history>>

\* The expansion is a versioned update: a note that has moved on is left alone.
PatchExpanded(s) ==
  /\ worker[s].pc = "patch" /\ worker[s].version < MaxVersion
  /\ IF ~note.exists THEN WorkerAt(s, "fail") /\ UNCHANGED <<note, texts, silent>>
     ELSE IF note.version = worker[s].version
       THEN NewVersion(worker[s].text, worker[s].version + 1) /\ WorkerAt(s, "reread")
       ELSE WorkerAt(s, "complete") /\ UNCHANGED <<note, texts, silent>>
  /\ UNCHANGED <<jobs, client, acts, faults, blind, lost, done>>

RereadExpanded(s) ==
  /\ worker[s].pc = "reread"
  /\ IF note.exists THEN Loaded(s, "enrich", note.text) ELSE WorkerAt(s, "fail")
  /\ UNCHANGED <<note, jobs, client, acts, faults, history>>

\* Slip: the version the job was made for, which the expansion has left behind.
EnqueueExpanded_OldVersion(s) ==
  /\ worker[s].pc \in {"enrich", "tag"}
  /\ jobs' = Enqueued(worker[s].pc, Current(s).version)
  /\ WorkerAt(s, IF worker[s].pc = "enrich" THEN AfterEnrich ELSE "mark")
  /\ UNCHANGED <<note, client, acts, faults, history>>

\* enqueueEnrichment of the expanded note, as in a request.
EnqueueExpanded(s) ==
  /\ worker[s].pc \in {"enrich", "tag"}
  /\ jobs' = Enqueued(worker[s].pc, worker[s].version)
  /\ WorkerAt(s, IF worker[s].pc = "enrich" THEN AfterEnrich ELSE "mark")
  /\ UNCHANGED <<note, client, acts, faults, history>>

MarkExpandedQueued(s) ==
  /\ worker[s].pc = "mark"
  /\ Marked("queued")
  /\ WorkerAt(s, "complete")
  /\ UNCHANGED <<jobs, client, acts, faults, history>>

\* MarkEnrichmentSucceeded by id: with the version of the job from the indexer,
\* with the version it read from the tagger.
MarkSucceeded(s) ==
  /\ worker[s].pc = "succeed"
  /\ LET j == Current(s) IN
     /\ note' = IF note.exists
                  THEN [note EXCEPT !.status = "succeeded",
                          !.enriched = IF j.type = "enrich" THEN j.version ELSE worker[s].version]
                  ELSE note
     /\ done' = IF note.exists /\ j.type = "enrich" THEN done \cup ({worker[s].version} \ {0}) ELSE done
  /\ WorkerAt(s, "complete")
  /\ UNCHANGED <<jobs, client, acts, faults, texts, blind, silent, lost>>

\* The expansion is in the row and its enrichment not yet enqueued: the job's own
\* patch has made it stale, and a retry completes it unworked.
HalfExpanded(s) ==
  \/ worker[s].pc = "reread"
  \/ worker[s].pc = "enrich" /\ worker[s].version > Current(s).version

\* A store call of the handler fails, or the language model's; a failure to
\* write the success itself is returned without a mark.
JobFails(s) ==
  /\ worker[s].pc \in {"load", "succeed", "patch", "reread"}
  /\ Fault
  /\ \E pc \in {"failed", "fail"} :
       /\ pc = "failed" => \/ worker[s].pc = "succeed"
                           \/ worker[s].pc = "load" /\ Current(s).type = "enrich"
       /\ pc = "fail" => ~(worker[s].pc = "load" /\ Current(s).type = "enrich")
       /\ WorkerAt(s, pc)
  /\ lost' = (lost \/ HalfExpanded(s))
  /\ UNCHANGED <<note, jobs, client, acts, texts, blind, silent, done>>

\* enqueueEnrichment logs a failure; the job counts as done.
EnqueueExpandedFails(s) ==
  /\ worker[s].pc \in {"enrich", "tag"}
  /\ Fault
  /\ WorkerAt(s, IF worker[s].pc = "enrich" THEN "complete" ELSE "mark")
  /\ lost' = (lost \/ worker[s].pc = "enrich")
  /\ UNCHANGED <<note, jobs, client, acts, texts, blind, silent, done>>

MarkFailed(s) ==
  /\ worker[s].pc = "failed"
  /\ Marked("failed")
  /\ WorkerAt(s, "fail")
  /\ UNCHANGED <<jobs, client, acts, faults, history>>

SameKey(j, k) == j.type = k.type /\ j.version = k.version
NextJob(s) ==
  worker' = [worker EXCEPT ![s].pc = "idle", ![s].job = {}, ![s].text = NoText, ![s].version = 0]

CompleteJob(s) ==
  /\ worker[s].pc = "complete"
  /\ jobs' = {j \in jobs : ~SameKey(j, Current(s))}
  /\ NextJob(s)
  /\ UNCHANGED <<note, client, acts, faults, history>>

\* Back to pending, or dead_letter when the attempts are used up.
FailJob(s) ==
  /\ worker[s].pc = "fail"
  /\ jobs' = {j \in jobs : ~SameKey(j, Current(s))}
             \cup {[j EXCEPT !.attempts = @ + 1, !.leased = FALSE] :
                     j \in {k \in jobs : SameKey(k, Current(s)) /\ k.attempts + 1 < MaxAttempts}}
  /\ lost' = (lost \/ \E j \in jobs : SameKey(j, Current(s)) /\ j.attempts + 1 = MaxAttempts)
  /\ NextJob(s)
  /\ UNCHANGED <<note, client, acts, faults, texts, blind, silent, done>>

\* The server dies; its leases run out.
Dies(s) ==
  /\ worker[s] # IdleWorker
  /\ Fault
  /\ worker' = [worker EXCEPT ![s] = IdleWorker]
  /\ jobs' = {[j EXCEPT !.leased = IF \E k \in worker[s].job \cup worker[s].batch : SameKey(j, k)
                                     THEN FALSE ELSE @] : j \in jobs}
  /\ lost' = (lost \/ HalfExpanded(s))
  /\ UNCHANGED <<note, client, acts, texts, blind, silent, done>>

\* The lease of a job that waits for its turn runs out: another worker may take it,
\* and this one still will.
LeaseLapses(s) ==
  /\ Fault
  /\ \E k \in worker[s].batch :
       jobs' = {[j EXCEPT !.leased = IF SameKey(j, k) THEN FALSE ELSE @] : j \in jobs}
  /\ UNCHANGED <<note, client, worker, acts, history>>

-----------------------------------------------------------------------------
ClientStep(c) ==
  \/ GetExisting(c) \/ InsertNote(c) \/ GetAfterViolation(c)
  \/ PatchVersioned(c) \/ ReadVersion(c) \/ PatchBlind(c) \/ Reread(c)
  \/ EnqueueExpand(c) \/ EnqueueEnrich(c) \/ EnqueueTag(c) \/ MarkQueued(c)

WorkerStep(s) ==
  \/ Claim(s) \/ Begin(s) \/ MarkRunning(s) \/ LoadForLabels(s) \/ LoadForTags(s)
  \/ LoadForLinks(s) \/ PatchExpanded(s) \/ RereadExpanded(s) \/ EnqueueExpanded(s)
  \/ MarkExpandedQueued(s) \/ MarkSucceeded(s) \/ MarkFailed(s) \/ CompleteJob(s) \/ FailJob(s)

Next ==
  \/ \E c \in Clients : \/ PostNote(c) \/ PatchNote(c) \/ DeleteNote(c) \/ ClientStep(c)
                        \/ EnqueueExpandFails(c) \/ CutOff(c)
  \/ \E s \in Servers : WorkerStep(s) \/ JobFails(s) \/ EnqueueExpandedFails(s) \/ Dies(s) \/ LeaseLapses(s)

Spec == Init /\ [][Next]_vars
\* Handlers run to their end, and the workers tick for as long as a server is up.
FairSpec ==
  /\ Spec
  /\ \A c \in Clients : WF_vars(ClientStep(c))
  /\ \A s \in Servers : WF_vars(WorkerStep(s))

-----------------------------------------------------------------------------

\* From one deletion to the next, whoever holds a version of the note means the
\* same text by it, however creates are repeated and edits and expansions
\* interleave: a create is never answered with another client's text, and no edit
\* replaces a text its author has not seen.  Excused is the loss that unversioned
\* updates cause by design.
VersionNamesText == blind \/ \A v \in Versions : Cardinality(texts[v]) <= 1

\* The text the note comes to rest with has been read by an enrichment, whatever
\* became of the jobs of earlier versions, of servers and of leases - unless the
\* request or the expansion was cut off before its jobs were enqueued, the version was made by an update that enqueues nothing, or
\* a lost update shares its number.
RestingNote(v) == note.exists /\ note.version = v
LatestIsEnriched ==
  \A v \in Versions :
    RestingNote(v) ~> (v \in done \/ ~RestingNote(v) \/ v \in silent \/ blind \/ lost)
=============================================================================
