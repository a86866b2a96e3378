------------------------------ MODULE NoteTags ------------------------------
(***************************************************************************)
(* The tags of one note: those the user sets and locks, the suggestions    *)
(* the user accepts or rejects, hashtags of its text, the user's           *)
(* vocabulary with its aliases, and the smart_tag_enrich job, which asks   *)
(* the model, resolves what it proposes against the vocabulary and applies *)
(* or suggests it (internal/notes/tags_handler.go, smart_tag.go and        *)
(* internal/storage/notes_taxonomy.go, notes_tags.go).  The SQL functions  *)
(* the store calls do what their callers' comments say, each in one step.  *)
(***************************************************************************)
EXTENDS Naturals, FiniteSets

CONSTANTS
  TagNames,
  Hints,        \* bound: suggestions
  Taggers,      \* requests of the user
  NoTag,
  MaxTagJobs,   \* bound: attempts of the job
  MaxTagFaults  \* bound: calls that fail

ASSUME NoteTagsAssumption == NoTag \notin TagNames /\ {MaxTagJobs, MaxTagFaults} \subseteq Nat

VARIABLES
  noteTags,     \* note_tags of the note: tag -> "none", "auto" or "locked"
  aliasOf,      \* tags.alias_of, the tag itself where there is none
  hints,        \* suggestion: [tag, status]
  tagger,       \* request: [pc, want, hint, seen]
  enricher,     \* the job: [pc, auto, soft, tries]
  tagFaults,
  chosen,       \* history: the tags the user has chosen for the note and not taken back
  since,        \* history: requests during whose reading the user's tags changed, or that read none
  overrun       \* history: such a request has replaced the tags

tagVars == <<noteTags, aliasOf, hints, tagger, enricher, tagFaults, chosen, since, overrun>>

IdleTagger == [pc |-> "idle", want |-> {}, hint |-> NoTag, seen |-> {}]
IdleEnricher == [pc |-> "idle", auto |-> {}, soft |-> {}, tries |-> 0]

TagsInit ==
  /\ noteTags = [t \in TagNames |-> "none"] /\ aliasOf = [t \in TagNames |-> t]
  /\ hints = [h \in Hints |-> [tag |-> NoTag, status |-> "none"]]
  /\ tagger = [r \in Taggers |-> IdleTagger] /\ enricher = IdleEnricher
  /\ tagFaults = 0 /\ chosen = {} /\ since = {} /\ overrun = FALSE

OnNote == {t \in TagNames : noteTags[t] # "none"}

\* set_locked_note_tags replaces all the tags of the note.
SetLocked(ts) == noteTags' = [t \in TagNames |-> IF t \in ts THEN "locked" ELSE "none"]

\* The user's tags have changed under the requests that have read them.
Changed(r) == since' = since \cup {q \in Taggers \ {r} : tagger[q].pc = "lock"}

-----------------------------------------------------------------------------
(* The user *)
SetNoteTags(r) ==
  /\ tagger[r].pc = "idle"
  /\ \E ts \in SUBSET TagNames : SetLocked(ts) /\ chosen' = ts
  /\ tagger' = [tagger EXCEPT ![r].pc = "done"]
  /\ Changed(r)
  /\ UNCHANGED <<aliasOf, hints, enricher, tagFaults, overrun>>

\* ResolveTagSuggestion finds the suggestion among the pending ones.
ResolveTagSuggestion(r) ==
  /\ tagger[r].pc = "idle"
  /\ \E h \in Hints :
       /\ hints[h].status = "pending"
       /\ \E pc \in {"read", "reject"} : tagger' = [tagger EXCEPT ![r] = [@ EXCEPT !.pc = pc, !.hint = h]]
  /\ UNCHANGED <<noteTags, aliasOf, hints, enricher, tagFaults, chosen, since, overrun>>

GetTagsForNote(r) ==
  /\ tagger[r].pc = "read"
  /\ tagger' = [tagger EXCEPT ![r] = [@ EXCEPT !.pc = "lock", !.seen = OnNote]]
  /\ UNCHANGED <<noteTags, aliasOf, hints, enricher, tagFaults, chosen, since, overrun>>

\* Its error is ignored: the note seems to have no tags.
GetTagsFails(r) ==
  /\ tagger[r].pc = "read" /\ tagFaults < MaxTagFaults
  /\ tagFaults' = tagFaults + 1
  /\ tagger' = [tagger EXCEPT ![r] = [@ EXCEPT !.pc = "lock", !.seen = {}]]
  /\ since' = since \cup {r}
  /\ UNCHANGED <<noteTags, aliasOf, hints, enricher, chosen, overrun>>

\* Slip: the accepted tag is the note's only one.
Accepted_Alone(seen, tag) == {tag}
Accepted(seen, tag) == seen \cup {tag}

AcceptTag(r) ==
  LET me == tagger[r]  tag == hints[me.hint].tag
  IN  /\ me.pc = "lock"
      /\ SetLocked(Accepted(me.seen, tag))
      /\ chosen' = chosen \cup {tag}
      /\ overrun' = (overrun \/ r \in since)
      /\ tagger' = [tagger EXCEPT ![r].pc = "resolve"]
      /\ Changed(r)
      /\ UNCHANGED <<aliasOf, hints, enricher, tagFaults>>

UpdateSuggestionStatus(r) ==
  LET me == tagger[r]
  IN  /\ me.pc \in {"resolve", "reject"}
      /\ hints' = [hints EXCEPT ![me.hint].status = IF me.pc = "resolve" THEN "accepted" ELSE "rejected"]
      /\ tagger' = [tagger EXCEPT ![r].pc = "done"]
      /\ UNCHANGED <<noteTags, aliasOf, enricher, tagFaults, chosen, since, overrun>>

ResolveFails(r) ==
  /\ tagger[r].pc \in {"lock", "resolve", "reject"} /\ tagFaults < MaxTagFaults
  /\ tagFaults' = tagFaults + 1
  /\ tagger' = [tagger EXCEPT ![r].pc = "done"]
  /\ UNCHANGED <<noteTags, aliasOf, hints, enricher, chosen, since, overrun>>

\* merge_tags and rename_tag move a tag's notes to another; a merged tag stays as an
\* alias of it, alias_tag only makes the alias.
Moved(s, c) ==
  /\ noteTags' = [noteTags EXCEPT ![c] = IF "locked" \in {@, noteTags[s]} THEN "locked" ELSE IF @ = "none" THEN noteTags[s] ELSE @,
                                  ![s] = "none"]
  /\ chosen' = IF s \in chosen THEN (chosen \ {s}) \cup {c} ELSE chosen

TagCommand(r) ==
  /\ tagger[r].pc = "idle"
  /\ \E s, c \in TagNames :
       /\ s # c
       /\ \/ Moved(s, c) /\ aliasOf' = [aliasOf EXCEPT ![s] = c] /\ Changed(r)
          \/ Moved(s, c) /\ UNCHANGED aliasOf /\ Changed(r)
          \/ aliasOf' = [aliasOf EXCEPT ![s] = c] /\ UNCHANGED <<noteTags, chosen, since>>
  /\ tagger' = [tagger EXCEPT ![r].pc = "done"]
  /\ UNCHANGED <<hints, enricher, tagFaults, overrun>>

\* Creating the note, or sending its creation once more, merges the hashtags of its
\* text, and removes no tag.
ApplyHashtagTags(r) ==
  /\ tagger[r].pc = "idle"
  /\ \E t \in TagNames : noteTags' = [noteTags EXCEPT ![t] = "locked"] /\ chosen' = chosen \cup {t}
  /\ tagger' = [tagger EXCEPT ![r].pc = "done"]
  /\ Changed(r)
  /\ UNCHANGED <<aliasOf, hints, enricher, tagFaults, overrun>>

-----------------------------------------------------------------------------
(* SmartTagEnricher.HandleJob *)
EnricherAt(pc) == enricher' = [enricher EXCEPT !.pc = pc]

\* What the model proposes with confidence is applied, what it does with less is
\* suggested; each is resolved first.
ProposeTags ==
  /\ enricher.pc = "idle" /\ enricher.tries < MaxTagJobs
  /\ \E a, s \in TagNames \cup {NoTag} :
       enricher' = [pc |-> "suggest", tries |-> enricher.tries + 1,
                    auto |-> {aliasOf[t] : t \in {a} \cap TagNames}, soft |-> {aliasOf[t] : t \in {s} \cap TagNames}]
  /\ UNCHANGED <<noteTags, aliasOf, hints, tagger, tagFaults, chosen, since, overrun>>

\* A suggestion that cannot be stored is passed over.
InsertTagSuggestion ==
  /\ enricher.pc = "suggest"
  /\ IF enricher.soft = {} THEN UNCHANGED hints
     ELSE \/ \E t \in enricher.soft, h \in Hints :
               hints[h].status = "none" /\ hints' = [hints EXCEPT ![h] = [tag |-> t, status |-> "pending"]]
          \/ (\A h \in Hints : hints[h].status # "none") /\ UNCHANGED hints
  /\ EnricherAt("apply")
  /\ UNCHANGED <<noteTags, aliasOf, tagger, tagFaults, chosen, since, overrun>>

\* apply_auto_note_tags replaces the unlocked tags and keeps the locked ones.
\* ApplyAutoTags resolves once more.
ApplyAutoTags ==
  /\ enricher.pc = "apply"
  /\ noteTags' = IF enricher.auto = {} THEN noteTags
                 ELSE [t \in TagNames |->
                        IF noteTags[t] = "locked" THEN "locked"
                        ELSE IF t \in {aliasOf[u] : u \in enricher.auto} THEN "auto" ELSE "none"]
  /\ enricher' = [IdleEnricher EXCEPT !.tries = MaxTagJobs]
  /\ UNCHANGED <<aliasOf, hints, tagger, tagFaults, chosen, since, overrun>>

\* A step fails, and the job is tried again.
EnrichFails ==
  /\ enricher.pc # "idle" /\ tagFaults < MaxTagFaults
  /\ tagFaults' = tagFaults + 1
  /\ enricher' = [IdleEnricher EXCEPT !.tries = enricher.tries]
  /\ UNCHANGED <<noteTags, aliasOf, hints, tagger, chosen, since, overrun>>

TagsNext ==
  \/ ProposeTags \/ InsertTagSuggestion \/ ApplyAutoTags \/ EnrichFails
  \/ \E r \in Taggers :
       SetNoteTags(r) \/ ResolveTagSuggestion(r) \/ GetTagsForNote(r) \/ GetTagsFails(r) \/ AcceptTag(r)
       \/ UpdateSuggestionStatus(r) \/ ResolveFails(r) \/ TagCommand(r) \/ ApplyHashtagTags(r)

TagsSpec == TagsInit /\ [][TagsNext]_tagVars

-----------------------------------------------------------------------------
(* Properties *)

\* A tag the user has set on the note, accepted for it or written in it stays on
\* it, and locked, until the user sets others or moves it, whatever the enricher
\* does meanwhile; except that accepting a suggestion writes back the tags it has
\* read, which may be older than the user's last change or, when they could not be
\* read, none.
ChosenTagsStay == overrun \/ \A t \in chosen : noteTags[t] = "locked"
=============================================================================
