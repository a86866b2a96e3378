--------------------------- MODULE ChatGPTImport ---------------------------
(***************************************************************************)
(* One import of a ChatGPT export (internal/imports/chatgpt/worker.go and  *)
(* handler.go, internal/storage/chatgpt_imports.go): the row the user      *)
(* starts, the job that imports conversation after conversation, saves a   *)
(* cursor now and then and queues itself again when its time is up, and    *)
(* the sources and notes it leaves.                                        *)
(***************************************************************************)
EXTENDS Naturals, FiniteSets

CONSTANTS
  Importers,       \* job workers
  Starters,        \* requests POST /imports/chatgpt/{id}/start
  Total,           \* conversations of the export
  CheckpointEvery, \* the cursor is saved after so many
  MaxTries,        \* attempts of a job
  MaxUpsets        \* bound: failed calls, lapsed leases and deaths

ASSUME ImportAssumption ==
  /\ Total \in Nat \ {0} /\ CheckpointEvery \in Nat \ {0}
  /\ MaxTries \in Nat \ {0} /\ MaxUpsets \in Nat

VARIABLES
  imp,        \* row of chatgpt_imports
  job,        \* background job per dedupe key, which is the cursor it starts from
  importer,   \* goroutine of HandleJob
  starter,    \* goroutine of Handler.Start
  imported,    \* kb_sources of kind conversation, per conversation
  noted,      \* conversations with a note
  upsets,
  dropped,    \* history: conversations whose import failed, which is logged
  unnoted,    \* history: conversations whose source was inserted and whose note was not
  contested,  \* history: two workers had the import at once
  unqueued,        \* history: a start ended before its job was queued
  stale       \* history: a start queued an import that another had queued meanwhile

importVars == <<imp, job, importer, starter, imported, noted, upsets, dropped, unnoted, contested, unqueued, stale>>

Conversation == 0 .. Total - 1
Cursors == 0 .. Total
IdleImporter == [pc |-> "idle", key |-> 0, at |-> 0]

ImportInit ==
  /\ imp = [status |-> "awaiting_upload", cursor |-> 0]
  /\ job = [k \in Cursors |-> [state |-> "none", tries |-> 0]]
  /\ importer = [w \in Importers |-> IdleImporter]
  /\ starter = [u \in Starters |-> "idle"]
  /\ imported = [c \in Conversation |-> 0]
  /\ noted = {} /\ upsets = 0 /\ dropped = {} /\ unnoted = {}
  /\ contested = FALSE /\ unqueued = FALSE /\ stale = FALSE

Upset == upsets < MaxUpsets /\ upsets' = upsets + 1
Outstanding(k) == job[k].state \in {"pending", "leased"}
Working(w) == importer[w].pc # "idle"
GotoI(w, pc) == importer' = [importer EXCEPT ![w].pc = pc]

\* Slip: the key names the import alone, and its running job is outstanding.
EnqueuedImport_OncePerImport(k) ==
  IF \E n \in Cursors : Outstanding(n) THEN job
                                       ELSE [job EXCEPT ![k] = [state |-> "pending", tries |-> 0]]

(* BackgroundJobs.Enqueue: an outstanding job with the key is kept *)
EnqueuedImport(k) ==
  IF Outstanding(k) THEN job ELSE [job EXCEPT ![k] = [state |-> "pending", tries |-> 0]]

-----------------------------------------------------------------------------
(* Handler.Start: a queued, running or completed import is left alone *)
StartImport(u) ==
  /\ starter[u] = "idle"
  /\ starter' = [starter EXCEPT ![u] =
                   IF imp.status \in {"queued", "running", "completed"} THEN "over" ELSE "patch"]
  /\ UNCHANGED <<imp, job, importer, imported, noted, upsets, dropped, unnoted, contested, unqueued, stale>>

QueueImport(u) ==
  /\ starter[u] = "patch"
  /\ imp' = [imp EXCEPT !.status = "queued"]
  /\ starter' = [starter EXCEPT ![u] = "enqueue"]
  /\ stale' = (stale \/ imp.status \in {"queued", "running", "completed"})
  /\ UNCHANGED <<job, importer, imported, noted, upsets, dropped, unnoted, contested, unqueued>>

EnqueueImport(u) ==
  /\ starter[u] = "enqueue"
  /\ job' = EnqueuedImport(0)
  /\ starter' = [starter EXCEPT ![u] = "over"]
  /\ UNCHANGED <<imp, importer, imported, noted, upsets, dropped, unnoted, contested, unqueued, stale>>

(* a failing call, or the client goes away *)
StartFails(u) ==
  /\ starter[u] \in {"patch", "enqueue"} /\ Upset
  /\ starter' = [starter EXCEPT ![u] = "over"]
  /\ unqueued' = (unqueued \/ starter[u] = "enqueue")
  /\ UNCHANGED <<imp, job, importer, imported, noted, dropped, unnoted, contested, stale>>

-----------------------------------------------------------------------------
(* Worker.tick claims the job *)
ClaimImport(w, k) ==
  /\ ~Working(w) /\ job[k].state = "pending"
  /\ job' = [job EXCEPT ![k] = [state |-> "leased", tries |-> @.tries + 1]]
  /\ importer' = [importer EXCEPT ![w] = [pc |-> "get", key |-> k, at |-> 0]]
  /\ contested' = (contested \/ \E v \in Importers : Working(v))
  /\ UNCHANGED <<imp, starter, imported, noted, upsets, dropped, unnoted, unqueued, stale>>

\* Slip: the saved cursor is taken for one already imported.
From_Next(k, cursor) == IF k < cursor THEN cursor + 1 ELSE k

From(k, cursor) == IF k < cursor THEN cursor ELSE k

(* HandleJob: GetByIDAdmin; a completed import is not done again *)
GetImport(w) ==
  /\ importer[w].pc = "get"
  /\ LET r == importer[w] IN
     importer' = [importer EXCEPT ![w] =
       IF imp.status = "completed" THEN [r EXCEPT !.pc = "complete"]
       ELSE [r EXCEPT !.pc = "running", !.at = From(r.key, imp.cursor)]]
  /\ UNCHANGED <<imp, job, starter, imported, noted, upsets, dropped, unnoted, contested, unqueued, stale>>

MarkImportRunning(w) ==
  /\ importer[w].pc = "running"
  /\ imp' = [imp EXCEPT !.status = "running"]
  /\ GotoI(w, "total")
  /\ UNCHANGED <<job, starter, imported, noted, upsets, dropped, unnoted, contested, unqueued, stale>>

(* Download and ParseExportZIP, then the total and the cursor are patched *)
PatchTotal(w) ==
  /\ importer[w].pc = "total"
  /\ imp' = [imp EXCEPT !.cursor = importer[w].at]
  /\ GotoI(w, "loop")
  /\ UNCHANGED <<job, starter, imported, noted, upsets, dropped, unnoted, contested, unqueued, stale>>

(* failImport: the row says failed, the job is tried again *)
FailImport(w) ==
  /\ importer[w].pc = "total" /\ Upset
  /\ imp' = [imp EXCEPT !.status = "failed"]
  /\ GotoI(w, "retry")
  /\ UNCHANGED <<job, starter, imported, noted, dropped, unnoted, contested, unqueued, stale>>

(* importConversation: FindChatGPTConversationSourceID *)
FindSource(w) ==
  /\ importer[w].pc = "loop" /\ importer[w].at < Total
  /\ GotoI(w, IF imported[importer[w].at] > 0 THEN "next" ELSE "insert")
  /\ UNCHANGED <<imp, job, starter, imported, noted, upsets, dropped, unnoted, contested, unqueued, stale>>

(* InsertChatGPTSource, the chunks included *)
InsertConversation(w) ==
  /\ importer[w].pc = "insert"
  /\ imported' = [imported EXCEPT ![importer[w].at] = @ + 1]
  /\ GotoI(w, "note")
  /\ UNCHANGED <<imp, job, starter, noted, upsets, dropped, unnoted, contested, unqueued, stale>>

(* Notes.FromSource *)
NoteSource(w) ==
  /\ importer[w].pc = "note"
  /\ noted' = noted \cup {importer[w].at}
  /\ GotoI(w, "next")
  /\ UNCHANGED <<imp, job, starter, imported, upsets, dropped, unnoted, contested, unqueued, stale>>

(* "one bad conversation should not fail the whole import" *)
ConversationFails(w) ==
  /\ importer[w].pc \in {"loop", "insert", "note"} /\ importer[w].at < Total /\ Upset
  /\ GotoI(w, "next")
  /\ IF importer[w].pc = "note"
       THEN unnoted' = unnoted \cup {importer[w].at} /\ UNCHANGED dropped
       ELSE dropped' = dropped \cup {importer[w].at} /\ UNCHANGED unnoted
  /\ UNCHANGED <<imp, job, starter, imported, noted, contested, unqueued, stale>>

Checkpoint(n) == n % CheckpointEvery = 0 \/ n = Total

NextConversation(w) ==
  /\ importer[w].pc = "next"
  /\ importer' = [importer EXCEPT ![w].at = @ + 1,
                    ![w].pc = IF Checkpoint(importer[w].at + 1) THEN "progress" ELSE "deadline"]
  /\ UNCHANGED <<imp, job, starter, imported, noted, upsets, dropped, unnoted, contested, unqueued, stale>>

(* patchProgress, on the way or at the start of requeue *)
PatchProgress(w) ==
  /\ importer[w].pc \in {"progress", "save"}
  /\ imp' = [imp EXCEPT !.cursor = importer[w].at]
  /\ GotoI(w, IF importer[w].pc = "progress" THEN "deadline" ELSE "queued")
  /\ UNCHANGED <<job, starter, imported, noted, upsets, dropped, unnoted, contested, unqueued, stale>>

(* the soft deadline, at any conversation but the last *)
CheckDeadline(w) ==
  /\ importer[w].pc = "deadline"
  /\ \/ GotoI(w, "loop")
     \/ importer[w].at < Total /\ GotoI(w, "save")
  /\ UNCHANGED <<imp, job, starter, imported, noted, upsets, dropped, unnoted, contested, unqueued, stale>>

(* requeue: the row, then the job that goes on from here *)
RequeueImport(w) ==
  /\ importer[w].pc = "queued"
  /\ imp' = [imp EXCEPT !.status = "queued"]
  /\ GotoI(w, "enqueue")
  /\ UNCHANGED <<job, starter, imported, noted, upsets, dropped, unnoted, contested, unqueued, stale>>

EnqueueRest(w) ==
  /\ importer[w].pc = "enqueue"
  /\ job' = EnqueuedImport(importer[w].at)
  /\ GotoI(w, "complete")
  /\ UNCHANGED <<imp, starter, imported, noted, upsets, dropped, unnoted, contested, unqueued, stale>>

FinishImport(w) ==
  /\ importer[w].pc = "loop" /\ importer[w].at >= Total
  /\ imp' = [status |-> "completed", cursor |-> importer[w].at]
  /\ GotoI(w, "complete")
  /\ UNCHANGED <<job, starter, imported, noted, upsets, dropped, unnoted, contested, unqueued, stale>>

(* a failing call, or 4 minutes are over: the job is tried again *)
ImportCallFails(w) ==
  /\ importer[w].pc \in {"get", "running", "total", "loop", "progress", "save", "queued", "enqueue"}
  /\ Upset
  /\ GotoI(w, "retry")
  /\ UNCHANGED <<imp, job, starter, imported, noted, dropped, unnoted, contested, unqueued, stale>>

Ended(k, state) == IF job[k].state = "leased" THEN [job EXCEPT ![k].state = state] ELSE job
Again(k) == IF job[k].tries < MaxTries THEN "pending" ELSE "dead"

EndImportJob(w) ==
  /\ importer[w].pc \in {"complete", "retry"}
  /\ LET k == importer[w].key IN
     job' = Ended(k, IF importer[w].pc = "complete" THEN "done" ELSE Again(k))
  /\ importer' = [importer EXCEPT ![w] = IdleImporter]
  /\ UNCHANGED <<imp, starter, imported, noted, upsets, dropped, unnoted, contested, unqueued, stale>>

(* the lease runs out while the worker is at it *)
ImportLapses(w) ==
  /\ Working(w) /\ job[importer[w].key].state = "leased" /\ Upset
  /\ job' = [job EXCEPT ![importer[w].key].state = Again(importer[w].key)]
  /\ UNCHANGED <<imp, importer, starter, imported, noted, dropped, unnoted, contested, unqueued, stale>>

(* the process dies, and the lease runs out *)
ImporterDies(w) ==
  /\ Working(w) /\ Upset
  /\ job' = Ended(importer[w].key, Again(importer[w].key))
  /\ unnoted' = IF importer[w].pc = "note" THEN unnoted \cup {importer[w].at} ELSE unnoted
  /\ importer' = [importer EXCEPT ![w] = IdleImporter]
  /\ UNCHANGED <<imp, starter, imported, noted, dropped, contested, unqueued, stale>>

ImporterStep(w) ==
  \/ GetImport(w) \/ MarkImportRunning(w) \/ PatchTotal(w) \/ FailImport(w)
  \/ FindSource(w) \/ InsertConversation(w) \/ NoteSource(w) \/ ConversationFails(w)
  \/ NextConversation(w) \/ PatchProgress(w) \/ CheckDeadline(w)
  \/ RequeueImport(w) \/ EnqueueRest(w) \/ FinishImport(w)
  \/ ImportCallFails(w) \/ EndImportJob(w) \/ ImportLapses(w) \/ ImporterDies(w)
  \/ \E k \in Cursors : ClaimImport(w, k)

StarterStep(u) == StartImport(u) \/ QueueImport(u) \/ EnqueueImport(u) \/ StartFails(u)

ImportNext == (\E w \in Importers : ImporterStep(w)) \/ (\E u \in Starters : StarterStep(u))

ImportSpec == ImportInit /\ [][ImportNext]_importVars

-----------------------------------------------------------------------------
\* An import that says completed has every conversation of the export, in one
\* source and with its note, however often its job was interrupted, requeued or
\* done twice over.  Not promised: conversations that failed (dropped), a note
\* lost between the source and it, which no later attempt makes up for
\* (unnoted), and a single source when two workers had the job (contested).
ImportIsComplete ==
  imp.status = "completed" =>
    \A c \in Conversation :
      /\ c \in dropped \/ imported[c] >= 1
      /\ c \in dropped \cup unnoted \/ c \in noted \/ contested
      /\ contested \/ imported[c] <= 1

\* A queued or running import has somebody to carry it on: an outstanding job or
\* a request about to enqueue one.  Handler.Start refuses such an import, so
\* nothing else would move it again.  Not promised: a start that ended between
\* its patch and its job (unqueued), a start that put a finished import back to queued
\* and whose job was taken for the one just ending (stale), and a job that has
\* used up its attempts.
ImportIsCarried ==
  imp.status \in {"queued", "running"} =>
    \/ \E k \in Cursors : Outstanding(k)
    \/ \E u \in Starters : starter[u] = "enqueue"
    \/ unqueued \/ contested \/ stale
    \/ \E k \in Cursors : job[k].state = "dead"
=============================================================================
