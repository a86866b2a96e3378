----------------------------- MODULE MCSessions -----------------------------
(***************************************************************************)
(* Parts of the server that share no state, checked one at a time: a       *)
(* behaviour picks a scene and plays only that module.  Text and voice     *)
(* sessions are two scenes over the same conversations.                    *)
(***************************************************************************)
EXTENDS LiveVoice, Shares, ErrorReports, SerialQueue, Dictation,
        ChatTurn, TLC

CONSTANT VoiceActs    \* bound: renames and deletions during a voice session

VARIABLE scene

sessionVars == <<scene, chatVars, voiceVars, shareVars, reportVars,
                 queueVars, dictationVars, turnVars>>

Init ==
  /\ scene \in {"text", "voice", "share", "report",
                "queue", "dictation", "chat"}
  /\ ChatInit /\ VoiceInit /\ SharesInit /\ ReportsInit /\ QueueInit /\ DictationInit
  /\ TurnInit

TextScene ==
  /\ scene = "text" /\ TextNext
  /\ UNCHANGED <<scene, voiceVars, shareVars, reportVars,
                 queueVars, dictationVars, turnVars>>
VoiceScene ==
  /\ scene = "voice" /\ VoiceNext /\ acts' <= VoiceActs
  /\ UNCHANGED <<scene, shareVars, reportVars, queueVars,
                 dictationVars, turnVars>>
ShareScene ==
  /\ scene = "share" /\ SharesNext
  /\ UNCHANGED <<scene, chatVars, voiceVars, reportVars,
                 queueVars, dictationVars, turnVars>>
ReportScene ==
  /\ scene = "report" /\ ReportsNext
  /\ UNCHANGED <<scene, chatVars, voiceVars, shareVars,
                 queueVars, dictationVars, turnVars>>
QueueScene ==
  /\ scene = "queue" /\ QueueNext
  /\ UNCHANGED <<scene, chatVars, voiceVars, shareVars,
                 reportVars, dictationVars, turnVars>>
DictationScene ==
  /\ scene = "dictation" /\ DictationNext
  /\ UNCHANGED <<scene, chatVars, voiceVars, shareVars,
                 reportVars, queueVars, turnVars>>
ChatScene ==
  /\ scene = "chat" /\ TurnNext
  /\ UNCHANGED <<scene, chatVars, voiceVars, shareVars,
                 reportVars, queueVars, dictationVars>>

Next ==
  \/ TextScene \/ VoiceScene \/ ShareScene \/ ReportScene
  \/ QueueScene \/ DictationScene \/ ChatScene

Spec == Init /\ [][Next]_sessionVars

\* The scenes share model values: three for turns, link requests, dictated
\* turns, chunks and jobs, two for fragments, workers, starts and fingerprints.
Symmetry == Permutations(Turns) \cup Permutations(Fragments)
=============================================================================
