----------------------------- MODULE MCAccount -----------------------------
(***************************************************************************)
(* What one user keeps and decides, on small instances: a behaviour plays  *)
(* one scene, the inbox with its reminders, an event for the calendar, the *)
(* tags of a note, the preferences, the export or the deletion of the      *)
(* account.  The parts share no state but the user.                        *)
(***************************************************************************)
EXTENDS ActionRuns, NoteTags, AccountDeletion, AccountExport, Preferences,
        CalendarEvents, TLC

VARIABLE scene

accountVars == <<scene, vars, tagVars, deletionVars, exportVars, prefVars, calendarVars>>

-----------------------------------------------------------------------------
(* What users say: a day, a clock or both, or a range; with a start, an end, *)
(* a duration or a summary beside it.  Sunday is the last day of the year.   *)
Clock(hour, minute, form) == [hour |-> hour, minute |-> minute, form |-> form]
FourPm == Clock(4, 0, "pm")
Clocks == {<<>>, <<FourPm>>, <<Clock(5, 0, "at"), Clock(17, 0, "colon")>>,
           <<Clock(12, 0, "am"), FourPm, Clock(13, 0, "pm")>>}

Days == {[Nothing EXCEPT !.words = w] :
           w \in {{}, {"today"}, {"tonight"}, {"tomorrow", "afternoon", "noon"}, {"tomorrow", "dayAfterTomorrow"}}}
        \cup {[Nothing EXCEPT !.weekday = w] : w \in {<<0, FALSE>>, <<0, TRUE>>, <<3, FALSE>>}}
        \cup {[Nothing EXCEPT !.date = d] : d \in {<<0>>, <<364>>, <<364, 0>>}}

Phrases == {[d EXCEPT !.clocks = c] : d \in Days, c \in Clocks} \ {Nothing}
EndTexts == {[Nothing EXCEPT !.clocks = <<Clock(5, 0, f)>>] : f \in {"pm", "bare"}}
        \cup {[Nothing EXCEPT !.clocks = <<Clock(1, 0, "am")>>],
               [Nothing EXCEPT !.clocks = <<Clock(17, 0, "colon")>>, !.weekday = <<1, FALSE>>],
               [Nothing EXCEPT !.clocks = <<FourPm>>, !.words = {"tomorrow"}]}
Ranges == {<<[d EXCEPT !.clocks = <<FourPm>>], e>> : 
             d \in {d \in Days : d.date = <<>> /\ d.words \in {{}, {"today"}} /\ d.weekday \in {<<>>, <<0, TRUE>>}}, e \in EndTexts}
Stamps == {<<[Nothing EXCEPT !.at = t]>> : t \in {<<"date", 364 * Day>>, <<"instant", 365 * Day>>}}
Others == Stamps \cup {<<[Nothing EXCEPT !.at = <<"local", 365 * Day + 100>>]>>, <<[Nothing EXCEPT !.in = <<90>>]>>,
                      <<[Nothing EXCEPT !.other = TRUE]>>}
Tomorrow == <<[Nothing EXCEPT !.words = {"tomorrow"}, !.other = TRUE]>>

MCSlots ==
  {[Unsaid EXCEPT !.when = w] : w \in {<<p>> : p \in Phrases} \cup Ranges \cup Others}
  \cup {[Unsaid EXCEPT !.when = w, !.start = s, !.summary = m] :
           w \in {<<>>, <<[Nothing EXCEPT !.clocks = <<FourPm>>]>>, <<[Nothing EXCEPT !.clocks = <<Clock(15, 30, "colon")>>]>>},
           s \in {<<>>} \cup Stamps, m \in {<<>>, Tomorrow}}
  \cup {[Unsaid EXCEPT !.when = Tomorrow, !.end = e, !.duration = d] :
           e \in {<<>>} \cup {<<p>> : p \in EndTexts}, d \in {<<30>>}}

-----------------------------------------------------------------------------

AccountInit ==
  /\ scene \in {"inbox", "tags", "delete", "export", "prefs", "calendar"}
  /\ Init /\ TagsInit /\ DeletionInit /\ ExportInit /\ PrefsInit /\ CalendarInit
  /\ scene # "delete" => files = Files    \* the other scenes begin once
  /\ scene # "export" => ~lastExport
  /\ scene # "calendar" => moment = 524760 /\ prefZone = NoZone

InboxScene ==
  /\ scene = "inbox" /\ Next
  /\ UNCHANGED <<scene, tagVars, deletionVars, exportVars, prefVars, calendarVars>>
TagsScene ==
  /\ scene = "tags" /\ TagsNext
  /\ UNCHANGED <<scene, vars, deletionVars, exportVars, prefVars, calendarVars>>
DeleteScene ==
  /\ scene = "delete" /\ DeletionNext
  /\ UNCHANGED <<scene, vars, tagVars, exportVars, prefVars, calendarVars>>
ExportScene ==
  /\ scene = "export" /\ ExportNext
  /\ UNCHANGED <<scene, vars, tagVars, deletionVars, prefVars, calendarVars>>
PrefsScene ==
  /\ scene = "prefs" /\ PrefsNext
  /\ UNCHANGED <<scene, vars, tagVars, deletionVars, exportVars, calendarVars>>

\* Up to the booking: what is booked stays as it is.
CalendarScene ==
  /\ scene = "calendar" /\ CalendarNext /\ booking.pc \notin {"booked", "reminder", "failed"}
  /\ UNCHANGED <<scene, vars, tagVars, deletionVars, exportVars, prefVars>>

AccountNext == CalendarScene \/ InboxScene \/ TagsScene \/ DeleteScene \/ ExportScene \/ PrefsScene

AccountSpec == AccountInit /\ [][AccountNext]_accountVars

\* The scenes share model values: three for dictated tags and preference
\* requests, two for action runs, tag names, deletions, models, exported things.
Symmetry == Permutations(Taggers) \cup Permutations(Runs)
=============================================================================
