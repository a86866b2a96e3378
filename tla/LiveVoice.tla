----------------------------- MODULE LiveVoice -----------------------------
(***************************************************************************)
(* One realtime voice session (internal/voicelive/session.go): the loop    *)
(* that reads the client's socket, the loop that reads Gemini's, and the   *)
(* turns both save into one voice conversation of Conversations.  Speech   *)
(* reaches the server as fragments of transcripts; the audio itself is     *)
(* passed through and is left out.                                         *)
(***************************************************************************)
EXTENDS Conversations

CONSTANT Fragments     \* pieces of transcript Gemini sends, each at most once

VARIABLES
  client,    \* goroutine of Handler.ServeHTTP and HandleMessage
  reader,    \* goroutine of readGeminiLoop
  gemini,    \* Gemini's socket: "none", "open", "closed"
  session,   \* fields of Session
  said,      \* history: the fragments of a turn
  echoed,    \* history: fragments dropped as an echo of the assistant
  late,      \* history: fragments that came after the last flush
  premature  \* history: session.start came after session.end

voiceVars == <<client, reader, gemini, session, said, echoed, late, premature>>

Loops == {"client", "reader"}
Loop(g) == IF g = "client" THEN client ELSE reader
Goroutine(pc) == [pc |-> pc, text |-> {}, index |-> 0, socket |-> FALSE, leaves |-> FALSE]

VoiceInit ==
  /\ client = Goroutine("read") /\ reader = Goroutine("none")
  /\ gemini = "none"
  /\ session = [started |-> FALSE, ended |-> FALSE, gemini |-> FALSE, conv |-> 0, index |-> 0,
                user |-> {}, asst |-> {}, last |-> FALSE]
  /\ said = [t \in Turns |-> {}]
  /\ echoed = {} /\ late = {} /\ premature = FALSE

\* one of the two loops moves on; the other keeps its place
Moves(g, r) == IF g = "client" THEN client' = r /\ UNCHANGED reader
                               ELSE reader' = r /\ UNCHANGED client
Goto(g, pc) == Moves(g, [Loop(g) EXCEPT !.pc = pc])
Return(g) == Goto(g, IF g = "reader" THEN "exit" ELSE IF client.leaves THEN "gone" ELSE "read")

-----------------------------------------------------------------------------
(* Session.start: a session is started once, whether or not it has ended *)
StartSession ==
  /\ client.pc = "read" /\ ~session.started
  /\ session' = [session EXCEPT !.started = TRUE]
  /\ premature' = session.ended
  /\ Goto("client", "dial")
  /\ UNCHANGED <<gemini, said, echoed, late, chatVars>>

(* dialGemini and setup; a failure leaves the session started and mute *)
DialGemini ==
  /\ client.pc = "dial"
  /\ \/ /\ gemini' = "open"
        /\ session' = [session EXCEPT !.gemini = TRUE]
        /\ Goto("client", "create")
     \/ Goto("client", "read") /\ UNCHANGED <<gemini, session>>
  /\ UNCHANGED <<said, echoed, late, premature, chatVars>>

(* Conversations.Create, then the reader is started *)
CreateConversation ==
  /\ client.pc = "create"
  /\ client' = [client EXCEPT !.pc = "read"] /\ reader' = Goroutine("loop")
  /\ \/ /\ Len(convs) < MaxConvs
        /\ convs' = Append(convs, Row(FALSE))
        /\ session' = [session EXCEPT !.conv = Len(convs) + 1]
        /\ UNCHANGED faults
     \/ Fault /\ UNCHANGED <<convs, session>>
  /\ UNCHANGED <<gemini, said, echoed, late, premature, saver, ender, shown, edit, up, acts, torn, split>>

(* session.end, or the client's socket is gone *)
SessionEnd ==
  /\ client.pc = "read"
  /\ \E leaves \in BOOLEAN : client' = [client EXCEPT !.pc = "end", !.leaves = leaves]
  /\ UNCHANGED <<reader, gemini, session, said, echoed, late, premature, chatVars>>

-----------------------------------------------------------------------------
(* readGeminiLoop: stops when the session has ended *)
ReaderLoop ==
  /\ reader.pc = "loop"
  /\ Goto("reader", IF session.ended \/ ~session.gemini THEN "exit" ELSE "recv")
  /\ UNCHANGED <<gemini, session, said, echoed, late, premature, chatVars>>

Received(pc) ==
  /\ reader.pc = "recv" /\ gemini = "open"
  /\ Goto("reader", pc)

Fresh == Fragments \ (session.user \cup session.asst \cup echoed
                        \cup client.text \cup reader.text \cup UNION {said[t] : t \in Turns})

(* applyTranscriptFragment *)
HearUser(f) ==
  /\ f \in Fresh /\ Received("check")
  /\ session' = [session EXCEPT !.user = @ \cup {f}]
  /\ late' = IF session.ended THEN late \cup {f} ELSE late
  /\ UNCHANGED <<gemini, said, echoed, premature, chatVars>>

HearAssistant(f) ==
  /\ f \in Fresh /\ Received("loop")
  /\ session' = [session EXCEPT !.asst = @ \cup {f}]
  /\ late' = IF session.ended THEN late \cup {f} ELSE late
  /\ UNCHANGED <<gemini, said, echoed, premature, chatVars>>

Echoing == session.asst # {} \/ session.last    \* there is something to echo

(* looksLikeEcho on the text so far; clearUserTranscript drops all of it *)
CheckEcho ==
  /\ reader.pc = "check"
  /\ Goto("reader", "loop")
  /\ \/ UNCHANGED <<session, echoed>>
     \/ /\ Echoing
        /\ session' = [session EXCEPT !.user = {}]
        /\ echoed' = echoed \cup session.user
  /\ UNCHANGED <<gemini, said, late, premature, chatVars>>

(* a tool call looks at s.gemini, asks the memory, and uses s.gemini *)
ToolCall ==
  /\ Received(IF session.gemini THEN "tool" ELSE "loop")
  /\ UNCHANGED <<gemini, session, said, echoed, late, premature, chatVars>>

Crashed == /\ gemini' = IF gemini = "open" THEN "closed" ELSE gemini
           /\ client' = Goroutine("gone") /\ reader' = Goroutine("exit")
           /\ UNCHANGED <<session, said, echoed, late, premature>>

(* sendToolResponse on a nil client panics, and no one recovers *)
ToolAnswer ==
  /\ reader.pc = "tool"
  /\ IF session.gemini
       THEN Goto("reader", "loop") /\ UNCHANGED <<gemini, session, said, echoed, late, premature, chatVars>>
       ELSE Crashed /\ Stopped /\ UNCHANGED faults

TurnComplete ==
  /\ Received("flush")
  /\ UNCHANGED <<gemini, session, said, echoed, late, premature, chatVars>>

(* Gemini hangs up, or its socket was closed by End *)
ReadFails ==
  /\ reader.pc = "recv"
  /\ gemini' = "closed"
  /\ Goto("reader", "end")
  /\ UNCHANGED <<session, said, echoed, late, premature, chatVars>>

-----------------------------------------------------------------------------
\* Slip: the pointer is read again after it was cleared.
EndSession_ReadsCleared(g) ==
  /\ Loop(g).pc = "end"
  /\ IF session.ended
       THEN Return(g) /\ UNCHANGED session
       ELSE /\ session' = [session EXCEPT !.ended = TRUE, !.gemini = FALSE]
            /\ Moves(g, [Loop(g) EXCEPT !.pc = "endFlush", !.socket = FALSE])
  /\ UNCHANGED <<gemini, said, echoed, late, premature, chatVars>>

(* Session.End under the mutex: the first to come ends the session *)
EndSession(g) ==
  /\ Loop(g).pc = "end"
  /\ IF session.ended
       THEN Return(g) /\ UNCHANGED session
       ELSE /\ session' = [session EXCEPT !.ended = TRUE, !.gemini = FALSE]
            /\ Moves(g, [Loop(g) EXCEPT !.pc = "endFlush", !.socket = session.gemini])
  /\ UNCHANGED <<gemini, said, echoed, late, premature, chatVars>>

AfterFlush(g, pc) ==
  CASE pc = "flush" -> "persist" [] pc = "endFlush" -> "endPersist"
    [] pc = "persist" -> "loop"  [] OTHER -> "close"

\* Slip: what the assistant said stays in the builder for the next turn.
Emptied_UserOnly(s, text) ==
  [s EXCEPT !.user = {}, !.last = (@ \/ s.asst # {}), !.index = IF text = {} THEN @ ELSE @ + 1]

Emptied(s, text) ==
  [s EXCEPT !.user = {}, !.asst = {}, !.last = (@ \/ s.asst # {}),
            !.index = IF text = {} THEN @ ELSE @ + 1]

(* flushTurn under the mutex: the text and its index are taken at once *)
FlushTurn(g) ==
  /\ Loop(g).pc \in {"flush", "endFlush"}
  /\ \E drop \in {FALSE} \cup (IF Echoing THEN {TRUE} ELSE {}) :
       LET text == session.asst \cup (IF drop THEN {} ELSE session.user) IN
       /\ text = {} \/ session.index < MaxIndex       \* bound
       /\ session' = Emptied(session, text)
       /\ Moves(g, [Loop(g) EXCEPT !.pc = AfterFlush(g, @), !.text = text, !.index = session.index])
       /\ echoed' = IF drop THEN echoed \cup session.user ELSE echoed
       /\ late' = late \ (session.user \cup session.asst)
  /\ UNCHANGED <<gemini, said, premature, chatVars>>

(* PersistTurnAsync *)
PersistTurn(g) ==
  /\ Loop(g).pc \in {"persist", "endPersist"}
  /\ Moves(g, [Loop(g) EXCEPT !.pc = AfterFlush(g, @), !.text = {}])
  /\ IF Loop(g).text = {}
       THEN UNCHANGED <<said, saver>>
       ELSE \E t \in Turns :
              /\ saver[t].pc = "idle" /\ said[t] = {}
              /\ said' = [said EXCEPT ![t] = Loop(g).text]
              /\ saver' = IF session.conv = 0 THEN saver
                            ELSE [saver EXCEPT ![t] = [pc |-> "save", conv |-> session.conv,
                                                       index |-> Loop(g).index]]
  /\ UNCHANGED <<gemini, session, echoed, late, premature, convs, ender, shown, edit, up, acts, faults, torn, split>>

(* End: gemini.close and EndAsync *)
CloseSession(g) ==
  /\ Loop(g).pc = "close"
  /\ gemini' = IF Loop(g).socket THEN "closed" ELSE gemini
  /\ ender' = IF session.conv = 0 THEN ender ELSE [ender EXCEPT ![session.conv] = "title"]
  /\ Return(g)
  /\ UNCHANGED <<session, said, echoed, late, premature, convs, saver, shown, edit, up, acts, faults, torn, split>>

VoiceDies == /\ Dies /\ Crashed

EndStep(g) == EndSession(g) \/ FlushTurn(g) \/ PersistTurn(g) \/ CloseSession(g)
ClientStep == StartSession \/ DialGemini \/ CreateConversation \/ SessionEnd
ReaderStep ==
  \/ ReaderLoop \/ CheckEcho \/ ToolCall \/ ToolAnswer \/ TurnComplete \/ ReadFails
  \/ \E f \in Fragments : HearUser(f) \/ HearAssistant(f)

VoiceNext ==
  \/ up /\ (ClientStep \/ ReaderStep \/ \E g \in Loops : EndStep(g))
  \/ (\E t \in Turns : SaverStep(t)) /\ UNCHANGED voiceVars
  \/ (\E c \in Made : EnderStep(c) \/ UserStep(c)) /\ UNCHANGED voiceVars
  \/ VoiceDies

VoiceSpec == ChatInit /\ VoiceInit /\ [][VoiceNext]_<<chatVars, voiceVars>>

-----------------------------------------------------------------------------
Holding(p) == IF p = "builder" THEN session.user \cup session.asst ELSE Loop(p).text
Places(f) ==
  Cardinality({p \in {"builder"} \cup Loops : f \in Holding(p)})
    + Cardinality({t \in Turns : f \in said[t]})

\* Nothing runs for the session any more.
Over ==
  /\ up /\ session.ended /\ Quiet
  /\ client.pc \in {"read", "gone"} /\ reader.pc \in {"none", "exit"}
  /\ \A c \in Made : ender[c] \in {"idle", "over"}

Kept(f) ==
  \E t \in Turns : f \in said[t] /\ \E i \in Indices : convs[session.conv].turns[i] = t

\* What was said is in one place at a time, goes into one turn and, when the
\* session is over, is stored with it, although the loop that reads Gemini and
\* the one that reads the client may both flush.  Not promised: fragments that
\* came after the last flush (late), those taken for an echo, and a conversation
\* that could not be created, was deleted or whose save failed.
SpokenIsKept ==
  /\ \A f \in Fragments : Places(f) <= 1
  /\ Over /\ faults = 0 /\ Live(session.conv) =>
       \A f \in Fragments \ (Fresh \cup echoed \cup late) : Kept(f)

\* A session that is over holds no socket to Gemini and its conversation has
\* ended, whoever ended it and in whatever state.  Not promised: a client that
\* starts the session after it has ended it (premature), whose reader stops at
\* once and whose socket nobody closes.
SessionIsReleased ==
  Over /\ ~premature =>
    gemini # "open" /\ (Live(session.conv) => convs[session.conv].ended)
=============================================================================
