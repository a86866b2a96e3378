----------------------------- MODULE Dictation -----------------------------
(***************************************************************************)
(* One dictation over the /voice WebSocket (internal/voice/session.go): the*)
(* read loop buffers the chunks it hears, and every turn.end starts a      *)
(* goroutine that takes the buffer, transcribes it and makes a note of it. *)
(* busy, audioMeta and audioChunks are plain fields that the read loop and *)
(* those goroutines share without a lock.                                  *)
(***************************************************************************)
EXTENDS Naturals, FiniteSets

CONSTANTS
  Chunks,      \* chunks of audio, in no order
  Enders,      \* messages turn.end, each with its goroutine
  None,
  MaxRepairs   \* bound: transcriptions or notes that fail

ASSUME DictationAssumption == None \notin Chunks /\ MaxRepairs \in Nat

VARIABLES
  chunks,    \* audioChunks
  meta,      \* audioMeta is not nil
  busy,
  loop,      \* the chunk the read loop is about to append, or None
  taker,     \* goroutine of handleTurnEnd: [pc, pcm]
  heard,     \* chunks accepted so far
  repairs,
  discarded, \* history: chunks that session.end threw away
  crossed,   \* history: a message came between a turn's look at busy and its setting
  panicked   \* the process: a turn dereferenced a nil audioMeta

dictationVars == <<chunks, meta, busy, loop, taker, heard, repairs, discarded, crossed, panicked>>

DictationInit ==
  /\ chunks = {} /\ meta = FALSE /\ busy = FALSE /\ loop = None
  /\ taker = [e \in Enders |-> [pc |-> "idle", pcm |-> {}]]
  /\ heard = {} /\ repairs = 0 /\ discarded = {} /\ crossed = FALSE /\ panicked = FALSE

Taking == {e \in Enders : taker[e].pc \in {"audio", "copy", "meta", "reset", "busy"}}
GotoE(e, pc) == taker' = [taker EXCEPT ![e].pc = pc]

-----------------------------------------------------------------------------
(* handleAudioChunk: ignored while a turn is in progress *)
HearChunk(c) ==
  /\ ~panicked /\ loop = None /\ c \notin heard /\ ~busy
  /\ heard' = heard \cup {c}
  /\ loop' = c /\ meta' = TRUE
  /\ crossed' = (crossed \/ Taking # {})
  /\ UNCHANGED <<chunks, busy, taker, repairs, discarded, panicked>>

AppendChunk ==
  /\ ~panicked /\ loop # None
  /\ chunks' = chunks \cup {loop}
  /\ loop' = None
  /\ crossed' = (crossed \/ Taking # {})
  /\ UNCHANGED <<meta, busy, taker, heard, repairs, discarded, panicked>>

(* session.end: resetTurnBuffer *)
EndDictation ==
  /\ ~panicked /\ loop = None
  /\ discarded' = discarded \cup chunks
  /\ chunks' = {} /\ meta' = FALSE
  /\ crossed' = (crossed \/ Taking # {})
  /\ UNCHANGED <<busy, loop, taker, heard, repairs, panicked>>

(* turn.end: go handleTurnEnd, which looks at busy *)
EndTurn(e) ==
  /\ ~panicked /\ loop = None /\ taker[e].pc = "idle"
  /\ GotoE(e, IF busy THEN "refused" ELSE "audio")
  /\ crossed' = (crossed \/ Taking # {})
  /\ UNCHANGED <<chunks, meta, busy, loop, heard, repairs, discarded, panicked>>

(* and then at the buffer *)
LookForAudio(e) ==
  /\ ~panicked /\ taker[e].pc = "audio"
  /\ GotoE(e, IF ~meta \/ chunks = {} THEN "refused" ELSE "copy")
  /\ UNCHANGED <<chunks, meta, busy, loop, heard, repairs, discarded, crossed, panicked>>

CopyChunks(e) ==
  /\ ~panicked /\ taker[e].pc = "copy"
  /\ taker' = [taker EXCEPT ![e] = [pc |-> "meta", pcm |-> chunks]]
  /\ UNCHANGED <<chunks, meta, busy, loop, heard, repairs, discarded, crossed, panicked>>

CopyMeta(e) ==
  /\ ~panicked /\ taker[e].pc = "meta"
  /\ IF meta THEN GotoE(e, "reset") /\ UNCHANGED panicked
             ELSE panicked' = TRUE /\ UNCHANGED taker
  /\ UNCHANGED <<chunks, meta, busy, loop, heard, repairs, discarded, crossed>>

\* Slip: the counters are reset and the chunks are not.
Reset_CountersOnly == chunks

Reset == {}

ResetBuffer(e) ==
  /\ ~panicked /\ taker[e].pc = "reset"
  /\ chunks' = Reset /\ meta' = FALSE
  /\ GotoE(e, "busy")
  /\ UNCHANGED <<busy, loop, heard, repairs, discarded, crossed, panicked>>

SetBusy(e) ==
  /\ ~panicked /\ taker[e].pc = "busy"
  /\ busy' = TRUE
  /\ GotoE(e, "work")
  /\ UNCHANGED <<chunks, meta, loop, heard, repairs, discarded, crossed, panicked>>

(* the quality gate, the transcription and the note; busy is cleared at the end *)
FinishTurn(e) ==
  /\ ~panicked /\ taker[e].pc = "work"
  /\ busy' = FALSE
  /\ \/ GotoE(e, "done") /\ UNCHANGED repairs
     \/ GotoE(e, "failed") /\ repairs < MaxRepairs /\ repairs' = repairs + 1
  /\ UNCHANGED <<chunks, meta, loop, heard, discarded, crossed, panicked>>

DictationNext ==
  \/ \E c \in Chunks : HearChunk(c)
  \/ AppendChunk \/ EndDictation
  \/ \E e \in Enders :
       EndTurn(e) \/ LookForAudio(e) \/ CopyChunks(e) \/ CopyMeta(e)
       \/ ResetBuffer(e) \/ SetBusy(e) \/ FinishTurn(e)

DictationSpec == DictationInit /\ [][DictationNext]_dictationVars

-----------------------------------------------------------------------------
Took(e) == taker[e].pc \in {"reset", "busy", "work", "done", "failed"}

\* What the server has heard goes to one turn: a chunk is in the buffer, or in
\* the audio of a single turn, or session.end threw it away, and a turn in
\* progress finds the buffer it has seen.  All of this hangs on the client
\* keeping still from turn.end until the goroutine has set busy (crossed): the
\* check and the setting of busy are six unsynchronised steps apart, and a
\* second turn.end in between takes the same audio or kills the process, and so
\* may a session.end.
HeardOnce ==
  ~crossed =>
    /\ heard \ (chunks \cup {loop} \cup discarded) \subseteq UNION {taker[e].pcm : e \in Enders}
    /\ \A e, f \in Enders : Took(e) /\ Took(f) /\ e # f => taker[e].pcm \cap taker[f].pcm = {}
    /\ ~panicked
=============================================================================
