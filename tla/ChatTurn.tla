----------------------------- MODULE ChatTurn ------------------------------
(***************************************************************************)
(* One turn of the chat: POST /chat grounds the attachments in parallel    *)
(* (internal/chat/attachments.go), then RunTextTurn and RunToolLoop        *)
(* (internal/pipeline) ask the model, run the tools it calls and ask       *)
(* again, up to a number of rounds, while a streaming client is shown the  *)
(* text so far.  What the turn hands on to be stored is in Conversations.  *)
(*                                                                         *)
(* A text is which call to the model it came from, how many chunks of it   *)
(* have words, and whether there was any chunk at all.                     *)
(***************************************************************************)
EXTENDS Naturals, Sequences, FiniteSets

CONSTANTS
  Attachments,      \* of the message, two or more
  MaxParallel,      \* maxParallelChatAttachments
  MaxRounds,        \* rounds of the tool loop
  MaxFetchCalls,
  MaxBrowseCalls,
  MaxCalls,         \* bound: tools called in one answer of the model
  MaxChunks         \* bound: chunks with words in one streamed answer

ASSUME ChatTurnAssumption ==
  /\ IsFiniteSet(Attachments)
  /\ {MaxParallel, MaxRounds} \subseteq Nat \ {0}
  /\ {MaxFetchCalls, MaxBrowseCalls, MaxCalls, MaxChunks} \subseteq Nat

VARIABLES
  chatTurn,        \* the request: [pc, tools, round, asked, text, calls, reply]
  grounder,      \* goroutine of each attachment
  readErr,     \* errCh of extractAttachments
  chatClient,      \* [stream, gone]: it takes events; its context is cancelled
  working,     \* messages the loop has added: answers with calls, and results
  lastShown        \* the last text sent to the client

turnVars == <<chatTurn, grounder, readErr, chatClient, working, lastShown>>

NoWords == [by |-> 0, words |-> 0, any |-> FALSE]
Apology == [by |-> 0, words |-> 1, any |-> TRUE]
Trimmed(t) == IF t.words = 0 THEN NoWords ELSE t

Tools == {"fetch", "browse", "other"}
Limit(t) == CASE t = "fetch" -> MaxFetchCalls [] t = "browse" -> MaxBrowseCalls [] OTHER -> Len(working)
Called == UNION {[1..n -> Tools] : n \in 0..MaxCalls}

TurnInit ==
  /\ chatTurn = [pc |-> "idle", tools |-> FALSE, round |-> 0, asked |-> 0, text |-> NoWords, calls |-> <<>>, reply |-> NoWords]
  /\ grounder = [a \in Attachments |-> "none"] /\ readErr = FALSE
  /\ chatClient = [stream |-> FALSE, gone |-> FALSE]
  /\ working = <<>> /\ lastShown = NoWords

TurnAt(pc) == chatTurn' = [chatTurn EXCEPT !.pc = pc]
Asking == {"stream", "once", "again", "close", "plain"}

-----------------------------------------------------------------------------
(* The handler, and the grounding of the message *)
ReceiveMessage ==
  /\ chatTurn.pc = "idle" /\ TurnAt("ground")
  /\ \E s \in BOOLEAN : chatClient' = [chatClient EXCEPT !.stream = s]
  /\ \E on \in {{}, Attachments} :
       grounder' = [a \in Attachments |-> IF a \in on THEN "waiting" ELSE "none"]
  /\ UNCHANGED <<readErr, working, lastShown>>

HangUp ==
  /\ chatTurn.pc \notin {"idle", "done", "failed"} /\ ~chatClient.gone
  /\ chatClient' = [chatClient EXCEPT !.gone = TRUE]
  /\ UNCHANGED <<chatTurn, grounder, readErr, working, lastShown>>

Cancelled == readErr \/ chatClient.gone
Busy == {a \in Attachments : grounder[a] = "reading"}

\* A goroutine that finds its context done returns without a word.
EnterReader(a) ==
  /\ grounder[a] = "waiting"
  /\ \/ Cancelled /\ grounder' = [grounder EXCEPT ![a] = "left"]
     \/ ~Cancelled /\ Cardinality(Busy) < MaxParallel /\ grounder' = [grounder EXCEPT ![a] = "reading"]
  /\ UNCHANGED <<chatTurn, readErr, chatClient, working, lastShown>>

ReadAttachment(a) ==
  /\ grounder[a] = "reading"
  /\ grounder' = [grounder EXCEPT ![a] = "read"]
  /\ UNCHANGED <<chatTurn, readErr, chatClient, working, lastShown>>

\* The first error is kept, and cancels the others.
FailToRead(a) ==
  /\ grounder[a] = "reading"
  /\ grounder' = [grounder EXCEPT ![a] = "failed"]
  /\ readErr' = TRUE
  /\ UNCHANGED <<chatTurn, chatClient, working, lastShown>>

Grounded ==
  /\ chatTurn.pc = "ground" /\ \A a \in Attachments : grounder[a] \notin {"waiting", "reading"}
  /\ TurnAt(IF readErr THEN "failed" ELSE "context")
  /\ UNCHANGED <<grounder, readErr, chatClient, working, lastShown>>

\* A message that is but a link fails with the link.
LinkFails ==
  /\ chatTurn.pc = "ground" /\ \A a \in Attachments : grounder[a] = "none"
  /\ TurnAt("failed")
  /\ UNCHANGED <<grounder, readErr, chatClient, working, lastShown>>

-----------------------------------------------------------------------------
(* RunTextTurn: what is retrieved and preferred is loaded in parallel, and  *)
(* no failure of it stops the turn                                          *)
LoadContext ==
  /\ chatTurn.pc = "context"
  /\ \/ chatTurn' = [chatTurn EXCEPT !.pc = "round", !.tools = TRUE]
     \/ chatTurn' = [chatTurn EXCEPT !.pc = "plain", !.asked = 1]
  /\ UNCHANGED <<grounder, readErr, chatClient, working, lastShown>>

Ask(pc) == chatTurn' = [chatTurn EXCEPT !.pc = pc, !.asked = @ + 1, !.text = NoWords]

(* RunToolLoop *)
BeginRound ==
  /\ chatTurn.pc = "round"
  /\ \/ chatClient.gone /\ chatTurn.round < MaxRounds /\ TurnAt("failed")
     \/ ~chatClient.gone /\ chatTurn.round < MaxRounds /\ Ask(IF chatTurn.round = 0 THEN "stream" ELSE "once")
     \/ ~chatClient.gone /\ chatTurn.round > 0 /\ Ask("close")   \* past the deadline
     \/ chatTurn.round = MaxRounds /\ Ask("close")
  /\ UNCHANGED <<grounder, readErr, chatClient, working, lastShown>>

Show(t) == lastShown' = IF chatClient.stream /\ ~chatClient.gone THEN t ELSE lastShown

\* OnReply fails once the client is gone, and the stream with it.
Chunk ==
  /\ chatTurn.pc \in Asking \ {"once"} /\ ~chatClient.gone
  /\ \E word \in {0, 1} :
       LET t == [by |-> chatTurn.asked, words |-> chatTurn.text.words + word, any |-> TRUE]
       IN  /\ t.words <= MaxChunks /\ t # chatTurn.text
           /\ chatTurn' = [chatTurn EXCEPT !.text = t]
           /\ Show(t)
  /\ UNCHANGED <<grounder, readErr, chatClient, working>>

ModelFails ==
  /\ chatTurn.pc \in Asking /\ TurnAt("failed")
  /\ UNCHANGED <<grounder, readErr, chatClient, working, lastShown>>

CallMessage(cs) == [role |-> "assistant", n |-> Len(cs)]
ResultMessage(i, t, ran) == [role |-> "tool", i |-> i, tool |-> t, ran |-> ran]
\* Calls of a tool, in the answer at hand and before it.
Count(t) == Cardinality({k \in DOMAIN working : working[k].role = "tool" /\ working[k].tool = t})

TakeCalls(cs) ==
  /\ cs # <<>>
  /\ chatTurn' = [chatTurn EXCEPT !.pc = "calls", !.calls = cs]
  /\ working' = Append(working, CallMessage(cs))

\* The first round is streamed.
StreamEnds ==
  /\ chatTurn.pc = "stream"
  /\ \/ \E cs \in Called : TakeCalls(cs) /\ UNCHANGED lastShown
     \/ chatTurn.text.words > 0 /\ chatTurn' = [chatTurn EXCEPT !.pc = "answered", !.reply = chatTurn.text] /\ UNCHANGED <<working, lastShown>>
     \/ chatTurn.text.any /\ chatTurn.text.words = 0 /\ Ask("again") /\ UNCHANGED <<working, lastShown>>
  /\ UNCHANGED <<grounder, readErr, chatClient>>

\* Slip: an answer that came whole is taken to have been shown already.
ShownOnce_Streamed(t) == lastShown
ShownOnce(t) == t

\* Later rounds are not; their answer is shown when it is there.
CompleteOnce ==
  /\ chatTurn.pc = "once"
  /\ \/ \E cs \in Called : TakeCalls(cs) /\ UNCHANGED lastShown
     \/ LET t == [by |-> chatTurn.asked, words |-> 1, any |-> TRUE]
        IN  IF chatClient.gone THEN TurnAt("failed") /\ UNCHANGED <<working, lastShown>>
            ELSE /\ chatTurn' = [chatTurn EXCEPT !.pc = "answered", !.reply = t]
                 /\ Show(ShownOnce(t)) /\ UNCHANGED working
  /\ UNCHANGED <<grounder, readErr, chatClient>>

Refused(t) == t # "other" /\ Count(t) + 1 > Limit(t)

\* A call beyond the limit, of an unknown tool or that fails has an answer all
\* the same.
AnswerCall ==
  /\ chatTurn.pc = "calls"
  /\ LET i == Cardinality({k \in DOMAIN working : \A j \in k..Len(working) : working[j].role = "tool"}) + 1
         t == chatTurn.calls[i]
     IN  /\ working' = Append(working, ResultMessage(i, t, ~Refused(t)))
         /\ chatTurn' = IF i < Len(chatTurn.calls) THEN chatTurn
                    ELSE [chatTurn EXCEPT !.pc = "round", !.round = @ + 1, !.calls = <<>>]
  /\ UNCHANGED <<grounder, readErr, chatClient, lastShown>>

\* Asked again without tools, the model's answer stands as it is.
AgainEnds ==
  /\ chatTurn.pc \in {"again", "plain"} /\ chatTurn.text.any
  /\ chatTurn' = [chatTurn EXCEPT !.pc = "answered", !.reply = chatTurn.text]
  /\ UNCHANGED <<grounder, readErr, chatClient, working, lastShown>>

\* The closing answer; without words the turn apologises.
CloseEnds ==
  /\ chatTurn.pc = "close"
  /\ IF chatTurn.text.words > 0
     THEN chatTurn' = [chatTurn EXCEPT !.pc = "answered", !.reply = chatTurn.text] /\ UNCHANGED lastShown
     ELSE chatTurn' = [chatTurn EXCEPT !.pc = "answered", !.reply = Apology] /\ Show(Apology)
  /\ UNCHANGED <<grounder, readErr, chatClient, working>>

\* persistAfterTurn, and the answer of the request.
StoreTurn ==
  /\ chatTurn.pc = "answered" /\ TurnAt("done")
  /\ UNCHANGED <<grounder, readErr, chatClient, working, lastShown>>

TurnNext ==
  \/ ReceiveMessage \/ HangUp \/ Grounded \/ LinkFails \/ LoadContext \/ BeginRound
  \/ Chunk \/ ModelFails \/ StreamEnds \/ CompleteOnce \/ AnswerCall \/ AgainEnds \/ CloseEnds \/ StoreTurn
  \/ \E a \in Attachments : EnterReader(a) \/ ReadAttachment(a) \/ FailToRead(a)

TurnSpec == TurnInit /\ [][TurnNext]_turnVars

-----------------------------------------------------------------------------
(* Properties *)

\* A turn that is stored is the one the user saw: its reply is the last text
\* shown to a client that stayed, it is the model's last answer (not a preamble
\* of an earlier round) or the apology, and the model had every attachment.
AnswerIsShown ==
  chatTurn.pc = "done" =>
    /\ chatClient.stream /\ ~chatClient.gone => Trimmed(lastShown) = Trimmed(chatTurn.reply)
    /\ chatTurn.reply = Apology \/ chatTurn.reply.by = chatTurn.asked
    /\ \A a \in Attachments : grounder[a] \in {"none", "read"}

\* When the model is asked, each of its calls so far has had exactly one answer,
\* in the order of the calls and before the next message, and no tool has run
\* more often than a turn may.
CallsAreAnswered ==
  chatTurn.pc \in Asking =>
    /\ \A p \in DOMAIN working :
         IF working[p].role = "assistant"
         THEN /\ p + working[p].n <= Len(working)
              /\ \A i \in 1..working[p].n : working[p + i].role = "tool" /\ working[p + i].i = i
              /\ p + working[p].n = Len(working) \/ working[p + working[p].n + 1].role = "assistant"
         ELSE p > 1
    /\ \A t \in {"fetch", "browse"} :
         Cardinality({k \in DOMAIN working : working[k].role = "tool" /\ working[k].tool = t /\ working[k].ran}) <= Limit(t)

\* A turn ends with the answer the user saw, and every question to the model
\* on the way there was one a provider accepts.
AnswerStands == AnswerIsShown /\ CallsAreAnswered
=============================================================================
