--------------------------- MODULE Conversations ---------------------------
(***************************************************************************)
(* The conversations of one user: rows of conversations and                *)
(* conversation_turns, the goroutines that save turns and titles behind    *)
(* the answer, and the user who posts, edits, renames and deletes          *)
(* (internal/storage/conversations.go, conversations_manage.go,            *)
(* internal/chat/handler.go, internal/conversations/handler.go).           *)
(*                                                                         *)
(* A turn stands for its text.  The client of one text session keeps the   *)
(* turns it shows and sends them as history; the server saves turn number  *)
(* "user messages in the history" in the background.  An edit or a         *)
(* regeneration deletes the turns from an index on and posts again.        *)
(***************************************************************************)
EXTENDS Naturals, Sequences, FiniteSets

CONSTANTS
  Turns,       \* turns posted or spoken
  NoTurn,
  MaxIndex,    \* bound: turns of a conversation
  MaxConvs,    \* bound: conversation rows
  MaxActs,     \* bound: edits, renames and deletions of the user
  MaxFaults    \* bound: failed calls and deaths of the process

ASSUME ConversationsAssumption ==
  /\ NoTurn \notin Turns
  /\ MaxIndex \in Nat /\ MaxConvs \in Nat /\ MaxActs \in Nat /\ MaxFaults \in Nat

VARIABLES
  convs,       \* rows in the order they were created, deleted ones included
  saver,       \* goroutine of persistTurn and SaveTurn, per turn
  ender,       \* goroutine of EndAsync, per row
  shown,       \* turns the client of the text session shows
  edit,        \* request DELETE .../turns?from_index
  up,          \* the process is alive
  acts, faults,
  torn,        \* history: indices a save was under way for when they were edited
  split        \* history: a session got a second conversation

chatVars == <<convs, saver, ender, shown, edit, up, acts, faults, torn, split>>

Indices == 0 .. MaxIndex - 1
Rows == 1 .. MaxConvs
Ranks == [empty |-> 0, auto |-> 1, llm |-> 2, user |-> 3]   \* title, by its title_source

Row(text) == [text |-> text, title |-> "empty", turns |-> [i \in Indices |-> NoTurn],
              ended |-> FALSE, gone |-> FALSE]
IdleSaver == [pc |-> "idle", conv |-> 0, index |-> 0]
Made == DOMAIN convs
Live(c) == c \in Made /\ ~convs[c].gone
OfSession == {c \in Made : convs[c].text /\ ~convs[c].gone}
Newest(S) == CHOOSE c \in S : \A d \in S : d <= c

ChatInit ==
  /\ convs = <<>>
  /\ saver = [t \in Turns |-> IdleSaver]
  /\ ender = [c \in Rows |-> "idle"]
  /\ shown = <<>>
  /\ edit = [pc |-> "idle", from |-> 0, conv |-> 0]
  /\ up = TRUE
  /\ acts = 0 /\ faults = 0
  /\ torn = {} /\ split = FALSE

Unsaved(t) == saver[t].pc \in {"find", "insert", "save"}
Act == acts < MaxActs /\ acts' = acts + 1
Fault == faults < MaxFaults /\ faults' = faults + 1
SaverTo(t, pc) == saver' = [saver EXCEPT ![t].pc = pc]

-----------------------------------------------------------------------------
(* chat.Handler.ServeHTTP: the answer is out and persistTurn begins *)
Post(t) ==
  /\ saver[t].pc = "idle" /\ edit.pc = "idle" /\ Len(shown) < MaxIndex
  /\ saver' = [saver EXCEPT ![t] = [pc |-> "find", conv |-> 0, index |-> Len(shown)]]
  /\ shown' = Append(shown, t)
  /\ UNCHANGED <<convs, ender, edit, up, acts, faults, torn, split>>

(* Conversations.GetOrCreateText: the lookup takes any row of the session *)
Find(t) ==
  /\ saver[t].pc = "find"
  /\ IF OfSession = {}
       THEN SaverTo(t, "insert")
       ELSE \E c \in OfSession :
              saver' = [saver EXCEPT ![t] = [@ EXCEPT !.pc = "save", !.conv = c]]
  /\ UNCHANGED <<convs, ender, shown, edit, up, acts, faults, torn, split>>

(* and then the insert, whatever others have inserted since *)
Insert(t) ==
  /\ saver[t].pc = "insert" /\ Len(convs) < MaxConvs
  /\ convs' = Append(convs, Row(TRUE))
  /\ saver' = [saver EXCEPT ![t] = [@ EXCEPT !.pc = "save", !.conv = Len(convs) + 1]]
  /\ split' = (split \/ OfSession # {})
  /\ UNCHANGED <<ender, shown, edit, up, acts, faults, torn>>

(* upsert on (conversation_id, turn_index) *)
Upserted(row, i, t) == [row EXCEPT !.turns[i] = t]

(* SaveTurn: attachments, then the upsert, which fails if the row is gone *)
Save(t) ==
  /\ saver[t].pc = "save"
  /\ LET c == saver[t].conv IN
     IF Live(c)
       THEN /\ convs' = [convs EXCEPT ![c] = Upserted(@, saver[t].index, t)]
            /\ SaverTo(t, "title")
       ELSE SaverTo(t, "over") /\ UNCHANGED convs
  /\ UNCHANGED <<ender, shown, edit, up, acts, faults, torn, split>>

Titled(c, from, title) ==
  IF Live(c) /\ convs[c].title \in from
    THEN convs' = [convs EXCEPT ![c].title = title]
    ELSE UNCHANGED convs

(* setTitleIfEmpty; the first turn then asks a language model for a title *)
SetTitleIfEmpty(t) ==
  /\ saver[t].pc = "title"
  /\ Titled(saver[t].conv, {"empty"}, "auto")
  /\ SaverTo(t, IF saver[t].index = 0 THEN "llm" ELSE "over")
  /\ UNCHANGED <<ender, shown, edit, up, acts, faults, torn, split>>

\* Slip: the language model's title is written whatever the title's source.
LLMTitleFrom_Any == {"empty", "auto", "llm", "user"}

(* title_source=eq.auto, the default of an untitled row *)
LLMTitleFrom == {"empty", "auto"}

SetLLMTitle(t) ==
  /\ saver[t].pc = "llm"
  /\ \/ Titled(saver[t].conv, LLMTitleFrom, "llm")
     \/ UNCHANGED convs                                  \* the model failed
  /\ SaverTo(t, "over")
  /\ UNCHANGED <<ender, shown, edit, up, acts, faults, torn, split>>

(* A failed call before the turn is stored: persistTurn logs it and gives up *)
SaveFails(t) ==
  /\ Unsaved(t) /\ Fault
  /\ SaverTo(t, "over")
  /\ torn' = torn \cup {saver[t].index}
  /\ UNCHANGED <<convs, ender, shown, edit, up, acts, split>>

(* The patch of a title fails, which is only logged *)
TitleFails(t) ==
  /\ saver[t].pc = "title" /\ Fault
  /\ SaverTo(t, IF saver[t].index = 0 THEN "llm" ELSE "over")
  /\ UNCHANGED <<convs, ender, shown, edit, up, acts, torn, split>>

-----------------------------------------------------------------------------
(* EndAsync of a live conversation: ensureTitleFromTurns, then End *)
EnderTo(c, pc) == ender' = [ender EXCEPT ![c] = pc]

EnsureTitle(c) ==
  /\ ender[c] = "title"
  /\ EnderTo(c, IF ~Live(c) \/ convs[c].title # "empty" THEN "end" ELSE "turns")
  /\ UNCHANGED <<convs, saver, shown, edit, up, acts, faults, torn, split>>

LoadTurns(c) ==
  /\ ender[c] = "turns"
  /\ EnderTo(c, IF Live(c) /\ \E i \in Indices : convs[c].turns[i] # NoTurn THEN "set" ELSE "end")
  /\ UNCHANGED <<convs, saver, shown, edit, up, acts, faults, torn, split>>

(* setTitle patches by id, whatever the title is by now *)
SetTitle(c) ==
  /\ ender[c] = "set"
  /\ Titled(c, DOMAIN Ranks, "auto")
  /\ EnderTo(c, "end")
  /\ UNCHANGED <<saver, shown, edit, up, acts, faults, torn, split>>

End(c) ==
  /\ ender[c] = "end"
  /\ convs' = IF Live(c) THEN [convs EXCEPT ![c].ended = TRUE] ELSE convs
  /\ EnderTo(c, "over")
  /\ UNCHANGED <<saver, shown, edit, up, acts, faults, torn, split>>

-----------------------------------------------------------------------------
(* The user edits: the client drops the turns from an index on and has them
   deleted before it posts again *)
TruncateTurns(i) ==
  /\ edit.pc = "idle" /\ i < Len(shown) /\ Act
  /\ edit' = [pc |-> "find", from |-> i, conv |-> 0]
  /\ shown' = SubSeq(shown, 1, i)
  /\ UNCHANGED <<convs, saver, ender, up, faults, torn, split>>

Overtaken == {saver[t].index : t \in {s \in Turns : Unsaved(s) /\ saver[s].index >= edit.from}}
Edited == {i \in Indices : i >= edit.from}
Mended == IF edit.pc = "delete" /\ ~Live(edit.conv)
            THEN torn \cup Edited                    \* deleted meanwhile
            ELSE (torn \ Edited) \cup Overtaken

(* FindTextByClientSession: the newest row; none is taken for success *)
FindTextByClientSession ==
  /\ edit.pc = "find"
  /\ IF OfSession = {}
       THEN edit' = [edit EXCEPT !.pc = "idle"] /\ torn' = Mended
       ELSE /\ edit' = [edit EXCEPT !.pc = "delete", !.conv = Newest(OfSession)]
            /\ UNCHANGED torn
  /\ UNCHANGED <<convs, saver, ender, shown, up, acts, faults, split>>

\* Slip: turn_index=gt instead of gte.
Cut_Exclusive(turns, from) == [i \in Indices |-> IF i > from THEN NoTurn ELSE turns[i]]

(* turn_index=gte.fromIndex *)
Cut(turns, from) == [i \in Indices |-> IF i >= from THEN NoTurn ELSE turns[i]]

DeleteTurnsFrom ==
  /\ edit.pc = "delete"
  /\ convs' = [convs EXCEPT ![edit.conv].turns = Cut(@, edit.from)]
  /\ torn' = Mended
  /\ edit' = [edit EXCEPT !.pc = "idle"]
  /\ UNCHANGED <<saver, ender, shown, up, acts, faults, split>>

(* UpdateConversation with a title *)
Rename(c) ==
  /\ Live(c) /\ Act
  /\ convs' = [convs EXCEPT ![c].title = "user"]
  /\ UNCHANGED <<saver, ender, shown, edit, up, faults, torn, split>>

(* DeleteForUser: turns go with their conversation *)
Delete(c) ==
  /\ Live(c) /\ Act
  /\ convs' = [convs EXCEPT ![c].gone = TRUE, ![c].turns = [i \in Indices |-> NoTurn]]
  /\ torn' = torn \cup {i \in Indices : i < Len(shown)}
  /\ UNCHANGED <<saver, ender, shown, edit, up, faults, split>>

(* The process dies: what was to be saved behind the answers is not *)
Stopped ==
  /\ up' = FALSE
  /\ saver' = [t \in Turns |-> IF saver[t].pc = "idle" THEN saver[t] ELSE [saver[t] EXCEPT !.pc = "over"]]
  /\ ender' = [c \in Rows |-> IF ender[c] = "idle" THEN "idle" ELSE "over"]
  /\ edit' = [edit EXCEPT !.pc = "idle"]
  /\ torn' = torn \cup {saver[t].index : t \in {s \in Turns : Unsaved(s)}}
                  \cup (IF edit.pc = "idle" THEN {} ELSE Indices)
  /\ UNCHANGED <<convs, shown, acts, split>>

Dies == up /\ Fault /\ Stopped

SaverStep(t) ==
  \/ Find(t) \/ Insert(t) \/ Save(t) \/ SetTitleIfEmpty(t) \/ SetLLMTitle(t)
  \/ SaveFails(t) \/ TitleFails(t)
EnderStep(c) == EnsureTitle(c) \/ LoadTurns(c) \/ SetTitle(c) \/ End(c)
UserStep(c) == Rename(c) \/ Delete(c)

TextNext ==
  \/ \E t \in Turns : Post(t) \/ SaverStep(t)
  \/ \E i \in Indices : TruncateTurns(i)
  \/ FindTextByClientSession \/ DeleteTurnsFrom
  \/ \E c \in Made : UserStep(c)
  \/ Dies

TextSpec == ChatInit /\ [][TextNext]_chatVars

-----------------------------------------------------------------------------
Quiet == edit.pc = "idle" /\ \A t \in Turns : ~Unsaved(t)
Shown(i) == IF i < Len(shown) THEN shown[i + 1] ELSE NoTurn
Stored(i) == IF OfSession = {} THEN NoTurn ELSE convs[Newest(OfSession)].turns[i]

\* When all saves and edits are through, what is stored of a text session is
\* what its client shows, turn by turn: edits and regenerations neither leave
\* old turns behind nor keep old texts.  Not promised: an index whose save was
\* under way when it was edited, failed or went with a deleted conversation
\* (torn), and a session whose first two posts both found no row (split).
\* (persistTurn, DeleteTurnsFrom: "so re-posts do not collide on turn_index".)
StoredIsShown == Quiet /\ ~split => \A i \in Indices \ torn : Stored(i) = Shown(i)

\* A title only gets better: empty, cut from the first turn, written by the
\* language model, given by the user ("User renames are never overwritten").
\* Only EndAsync, which found the title empty a while ago, may put the cut one
\* over what has been written since.
TitleNeverRegresses ==
  [][\A c \in Made : Live(c) /\ Ranks[convs'[c].title] < Ranks[convs[c].title]
       => ender[c] = "set"]_chatVars
=============================================================================
