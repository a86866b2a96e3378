------------------------------ MODULE Memories ------------------------------
(***************************************************************************)
(* What Donna knows of one user: the rows of kb_facts, the suggestions that *)
(* wait for a decision, and the summary in kb_user_profiles                 *)
(* (internal/memory, internal/knowledge, storage/memory_v2.go,              *)
(* memory_review.go, memory_suggestions.go, knowledge_store.go).            *)
(*                                                                         *)
(* Requests review facts and suggestions, or edit facts through the older   *)
(* /memory/facts; a background job extracts memories from new content; the  *)
(* compile queue turns sources into facts and writes a summary of its own.  *)
(* Each works in round trips: it reads, decides, and patches by id, and     *)
(* most of them end by projecting the active facts into the profile.        *)
(*                                                                         *)
(* All facts are about one subject (predicate and entity).  A text has a    *)
(* value and a wording: texts of different values conflict.                 *)
(***************************************************************************)
EXTENDS Integers, Sequences, FiniteSets, FiniteSetsExt

CONSTANTS Values, Wordings,
          Requests,        \* goroutines of the handlers
          Extractors,      \* workers that run memory_extract jobs
          Compilers,       \* compile queues, one job at a time for a user
          Candidates,      \* bound: memories one extraction proposes
          MaxFacts, MaxSuggestions, \* bounds: rows
          MaxActs,         \* bound: requests and jobs
          MaxFaults,       \* bound: calls that fail, processes that die
          NoText           \* no text in hand

ASSUME MemoriesBounds ==
  {Candidates, MaxFacts, MaxSuggestions, MaxActs, MaxFaults} \subseteq Nat

VARIABLES facts,       \* rows of kb_facts, oldest first; on is the column active, from the
                       \* suggestion accepted, and 0 stands for none
          suggestions, \* rows of memory_suggestions
          profile,     \* who wrote the summary, and the facts a projection shows
          go,          \* go[p]: program counter and locals of a goroutine
          acts, faults,
          contested,   \* history: suggestions two requests decided at once
          cut,         \* history: suggestions whose acceptance was cut off half-way
          orphaned,    \* history: facts whose successor a failed call kept from the table
          raced,       \* history: a projection was written over a later one
          unprojected  \* history: facts changed and then not projected

history == <<contested, cut, orphaned, raced, unprojected>>
vars == <<facts, suggestions, profile, go, acts, faults, history>>

-----------------------------------------------------------------------------
Text == [value : Values, wording : Wordings]

\* What the language model proposes and RejectUnsafe and ShouldDiscard let pass.
\* strong: stated explicitly and with a confidence of 0.9 or more.
Candidate == [text : Text, sensitive : BOOLEAN, strong : BOOLEAN]

ItemOps == {"accept", "reject", "outdated", "edit", "keep", "new"}
OldOps == {"oldEdit", "oldDelete"}
Procs == Requests \cup Extractors \cup Compilers
Idle == [pc |-> "idle", op |-> "none", fact |-> 0, sug |-> 0, text |-> NoText,
         sensitive |-> FALSE, seen |-> {}, todo |-> <<>>, activated |-> FALSE]

Stored == 1..Len(facts)
Active == {i \in Stored : facts[i].on /\ facts[i].status = "active"}
Act == acts < MaxActs /\ acts' = acts + 1
Fault == faults < MaxFaults /\ faults' = faults + 1

Goto(p, pc) == go' = [go EXCEPT ![p].pc = pc]
Ends(p) == go' = [go EXCEPT ![p] = Idle]
\* On to the projection, with nothing left in hand but the suggestion.
ToList(p) == go' = [go EXCEPT ![p] = [Idle EXCEPT !.pc = "list", !.sug = go[p].sug]]
Starts(p, rec) == /\ go[p].pc = "idle" /\ Act
                  /\ go' = [go EXCEPT ![p] = rec]
                  /\ UNCHANGED <<facts, suggestions, profile, faults>>

\* A user whose one memory is in the profile, with or without a suggestion against it.
Init ==
  /\ \E t \in Text, s \in BOOLEAN :
       facts = <<[on |-> TRUE, status |-> "active", text |-> t, sensitive |-> s,
                  supersedes |-> 0, from |-> 0]>>
  /\ \/ suggestions = <<>>
     \/ \E t \in Text \ {facts[1].text} :
          suggestions = <<[status |-> "pending", text |-> t, sensitive |-> FALSE, conflict |-> 1]>>
  /\ profile = [by |-> "projection", shows |-> {1}]
  /\ go = [p \in Procs |-> Idle]
  /\ acts = 0 /\ faults = 0
  /\ contested = {} /\ cut = {} /\ orphaned = {} /\ raced = FALSE /\ unprojected = {}

-----------------------------------------------------------------------------
(* The effects of the store calls *)

\* MarkMemoryFactSuperseded: by id, whatever the row says now.
Superseded(i) == facts' = [facts EXCEPT ![i].on = FALSE, ![i].status = "superseded"]
\* DeactivateFact leaves review_status alone.
Deactivated(i) == facts' = [facts EXCEPT ![i].on = FALSE]
\* SetMemoryReviewStatus: the two columns together.
Reviewed(i, status) == facts' = [facts EXCEPT ![i].status = status, ![i].on = (status = "active")]

\* InsertMemoryFact and InsertFacts: a row that is active at once.
Inserted(text, sensitive, old, sug) ==
  /\ Len(facts) < MaxFacts
  /\ facts' = Append(facts, [on |-> TRUE, status |-> "active", text |-> text,
                sensitive |-> sensitive, supersedes |-> old, from |-> sug])

-----------------------------------------------------------------------------
(* Requests about an item: AcceptItem, RejectItem, MarkOutdatedItem,         *)
(* UpdateItem with a text, ResolveItem                                       *)

StartItem(p) ==
  /\ \E op \in ItemOps, i \in Stored, t \in Text :
       /\ op \in {"edit", "new"} \/ t = facts[i].text
       /\ Starts(p, [Idle EXCEPT !.pc = "getFact", !.op = op, !.fact = i, !.text = t])
  /\ UNCHANGED history

\* Sensitive memories that are neither pending nor active are not to be accepted.
NeedsReviewFirst(f) == f.sensitive /\ f.status \notin {"pending_review", "active"}

AfterGet(op, f, t) ==
  CASE op = "accept" /\ NeedsReviewFirst(f) -> "idle"
    [] op = "edit" /\ t = f.text -> "idle"
    [] op = "keep" /\ f.status # "pending_review" -> "idle"
    [] (op = "edit" /\ t # f.text) \/ (op = "new" /\ f.status # "pending_review") -> "supersede"
    [] OTHER -> "set"

GetFact(p) ==
  /\ go[p].pc = "getFact" /\ go[p].op \in ItemOps
  /\ LET f == facts[go[p].fact]
         pc == AfterGet(go[p].op, f, go[p].text) IN
     IF pc = "idle" THEN Ends(p)
     ELSE go' = [go EXCEPT ![p].pc = pc, ![p].sensitive = f.sensitive]
  /\ UNCHANGED <<facts, suggestions, profile, acts, faults, history>>

StatusFor(op) ==
  CASE op \in {"accept", "new"} -> "active" [] op = "outdated" -> "outdated" [] OTHER -> "rejected"

\* keep_existing ends here, even if the fact has been confirmed since it was read;
\* the others project.
SetStatus(p) ==
  /\ go[p].pc = "set"
  /\ Reviewed(go[p].fact, StatusFor(go[p].op))
  /\ IF go[p].op = "keep"
       THEN Ends(p) /\ unprojected' = unprojected \cup ({go[p].fact} \cap Active)
       ELSE ToList(p) /\ UNCHANGED unprojected
  /\ UNCHANGED <<suggestions, profile, acts, faults, contested, cut, orphaned, raced>>

\* DeleteItem and PostFeedback set the status without a look at the row.
StartBlindSet(p) ==
  /\ \E op \in {"reject", "outdated"}, i \in Stored :
       Starts(p, [Idle EXCEPT !.pc = "set", !.op = op, !.fact = i, !.text = facts[i].text])
  /\ UNCHANGED history

\* UpdateItem with a review_status: any status, without gate or projection.
PatchItem(p) ==
  /\ go[p].pc = "idle" /\ Act
  /\ \E i \in Stored, status \in {"active", "pending_review", "rejected"} :
       /\ Reviewed(i, status)
       /\ unprojected' = unprojected \cup {i}
  /\ UNCHANGED <<suggestions, profile, go, faults, contested, cut, orphaned, raced>>

-----------------------------------------------------------------------------
(* The older requests: CreateFact, UpdateFact, DeleteFact, UpdateProfile     *)

StartOld(p) ==
  /\ \/ \E op \in OldOps, i \in Stored, t \in Text :
          /\ op = "oldDelete" => t = facts[i].text
          /\ Starts(p, [Idle EXCEPT !.pc = "getFact", !.op = op, !.fact = i, !.text = t])
     \/ \E t \in Text : Starts(p, [Idle EXCEPT !.pc = "insert", !.op = "create", !.text = t])
  /\ UNCHANGED history

\* GetFactByID asks for active rows only.
GetActiveFact(p) ==
  /\ go[p].pc = "getFact" /\ go[p].op \in OldOps
  /\ IF facts[go[p].fact].on THEN Goto(p, "deactivate") ELSE Ends(p)
  /\ UNCHANGED <<facts, suggestions, profile, acts, faults, history>>

UpdateProfile(p) ==
  /\ go[p].pc = "idle" /\ Act
  /\ profile' = [by |-> "user", shows |-> {}]
  /\ UNCHANGED <<facts, suggestions, go, faults, history>>

-----------------------------------------------------------------------------
(* resolveSuggestion and ResolveSuggestion *)

StartDecision(p) ==
  /\ \E op \in {"acceptSug", "rejectSug"}, s \in 1..Len(suggestions) :
       /\ Starts(p, [Idle EXCEPT !.pc = "getSug", !.op = op, !.sug = s])
       /\ contested' = contested \cup {r \in {s} : \E q \in Procs \ {p} : go[q].sug = s}
  /\ UNCHANGED <<cut, orphaned, raced, unprojected>>

\* activateSuggestion takes what it inserts, and the fact it supersedes, from here.
Activating(p, s) ==
  go' = [go EXCEPT ![p] = [@ EXCEPT
    !.pc = IF s.conflict # 0 THEN "supersede" ELSE "insert", !.fact = s.conflict,
    !.text = s.text, !.sensitive = s.sensitive]]

\* Slip: a suggestion is decided anew each time.
GetSuggestion_Decided(p) ==
  /\ go[p].pc = "getSug"
  /\ LET s == suggestions[go[p].sug] IN
     IF go[p].op = "acceptSug" THEN Activating(p, s) ELSE Goto(p, "close")
  /\ UNCHANGED <<facts, suggestions, profile, acts, faults, history>>

\* A suggestion that is no longer pending is answered already_resolved.
GetSuggestion(p) ==
  /\ go[p].pc = "getSug"
  /\ LET s == suggestions[go[p].sug] IN
     IF s.status # "pending" THEN Ends(p)
     ELSE IF go[p].op = "acceptSug" THEN Activating(p, s) ELSE Goto(p, "close")
  /\ UNCHANGED <<facts, suggestions, profile, acts, faults, history>>

\* By id; a rejection ends here.
CloseSuggestion(p) ==
  /\ go[p].pc = "close"
  /\ suggestions' = [suggestions EXCEPT ![go[p].sug].status =
                       IF go[p].op = "acceptSug" THEN "accepted" ELSE "rejected"]
  /\ IF go[p].op = "acceptSug" THEN ToList(p) ELSE Ends(p)
  /\ UNCHANGED <<facts, profile, acts, faults, history>>

-----------------------------------------------------------------------------
(* A successor takes the place of a fact, in two calls *)

Supersede(p) ==
  /\ go[p].pc = "supersede"
  /\ Superseded(go[p].fact)
  /\ Goto(p, "insert")
  /\ UNCHANGED <<suggestions, profile, acts, faults, history>>

Deactivate(p) ==
  /\ go[p].pc = "deactivate"
  /\ Deactivated(go[p].fact)
  /\ unprojected' = unprojected \cup {go[p].fact}
  /\ IF go[p].op = "oldDelete" THEN Ends(p) ELSE Goto(p, "insert")
  /\ UNCHANGED <<suggestions, profile, acts, faults, contested, cut, orphaned, raced>>

\* The next candidate of an extraction; after the last one the projection, if a
\* memory was activated.
ToCandidate(p, seen, todo, activated) ==
  IF todo # <<>> THEN
    go' = [go EXCEPT ![p] = [Idle EXCEPT !.pc = "candidate", !.op = "extract", !.seen = seen,
                                         !.todo = todo, !.activated = activated]]
  ELSE IF activated THEN ToList(p) ELSE Ends(p)

\* What follows an insert: the close of the suggestion, the projection, the next
\* candidate, or nothing.
AfterInsert(p, new) ==
  CASE go[p].op = "acceptSug" -> Goto(p, "close")
    [] go[p].op \in {"edit", "new"} -> ToList(p)
    [] go[p].op = "extract" ->
         ToCandidate(p, go[p].seen \cup {new}, Tail(go[p].todo), TRUE)
    [] OTHER -> Ends(p)

Projects(op) == op \in {"acceptSug", "edit", "new", "extract"}

\* Slip: the new fact does not say which one it supersedes.
InsertFact_Unlinked(p) ==
  /\ go[p].pc = "insert"
  /\ Inserted(go[p].text, go[p].sensitive, 0, go[p].sug)
  /\ AfterInsert(p, Len(facts) + 1)
  /\ unprojected' = IF Projects(go[p].op) THEN unprojected ELSE unprojected \cup {Len(facts) + 1}
  /\ UNCHANGED <<suggestions, profile, acts, faults, contested, cut, orphaned, raced>>

InsertFact(p) ==
  /\ go[p].pc = "insert"
  /\ Inserted(go[p].text, go[p].sensitive, go[p].fact, go[p].sug)
  /\ AfterInsert(p, Len(facts) + 1)
  /\ unprojected' = IF Projects(go[p].op) THEN unprojected ELSE unprojected \cup {Len(facts) + 1}
  /\ UNCHANGED <<suggestions, profile, acts, faults, contested, cut, orphaned, raced>>

-----------------------------------------------------------------------------
(* UpsertProjectedProfileSummary: list, then write *)

ListActive(p) ==
  /\ go[p].pc = "list"
  /\ go' = [go EXCEPT ![p].pc = "upsert", ![p].seen = Active]
  /\ UNCHANGED <<facts, suggestions, profile, acts, faults, history>>

\* Another goroutine has a list that is out of date, and will write it after this one.
Overtakes(p) ==
  \E q \in Procs \ {p} : go[q].pc = "upsert" /\ go[q].seen \notin {Active, go[p].seen}

\* What the projection of p leaves open: the changes since its list; all of them
\* if the list is empty.
Unshown(p) ==
  IF go[p].seen = {} THEN unprojected \cup profile.shows
  ELSE {i \in unprojected : (i \in go[p].seen) # (i \in Active)}

\* Slip: a summary that is a projection already is left as it is.
UpsertProfile_Once(p) ==
  /\ go[p].pc = "upsert"
  /\ profile' = IF go[p].seen = {} \/ profile.by = "projection" THEN profile
                ELSE [by |-> "projection", shows |-> go[p].seen]
  /\ raced' = (raced \/ Overtakes(p))
  /\ unprojected' = Unshown(p)
  /\ Ends(p)
  /\ UNCHANGED <<facts, suggestions, acts, faults, contested, cut, orphaned>>

\* An empty projection is not written: the last memory taken out stays in the profile.
UpsertProfile(p) ==
  /\ go[p].pc = "upsert"
  /\ profile' = IF go[p].seen = {} THEN profile
                ELSE [by |-> "projection", shows |-> go[p].seen]
  /\ raced' = (raced \/ Overtakes(p))
  /\ unprojected' = Unshown(p)
  /\ Ends(p)
  /\ UNCHANGED <<facts, suggestions, acts, faults, contested, cut, orphaned>>

-----------------------------------------------------------------------------
(* Extractor.HandleJob *)

StartExtract(p) == Starts(p, [Idle EXCEPT !.pc = "existing", !.op = "extract"]) /\ UNCHANGED history

\* The list the whole job goes by, and what the language model makes of the content.
ListExisting(p) ==
  /\ go[p].pc = "existing" /\ go[p].op = "extract"
  /\ \E n \in 0..Candidates : \E todo \in [1..n -> Candidate] :
       ToCandidate(p, Active, todo, FALSE)
  /\ UNCHANGED <<facts, suggestions, profile, acts, faults, history>>

AutoActivates(c) == c.strong /\ ~c.sensitive

\* reconcile: the newest fact of the same text or of another value decides; if
\* there is none, the candidate says the oldest one in other words.
Deciding(p, c) == {i \in go[p].seen : facts[i].text = c.text \/ facts[i].text.value # c.text.value}
Match(p, c) ==
  IF Deciding(p, c) # {} THEN Max(Deciding(p, c))
  ELSE IF go[p].seen # {} THEN Min(go[p].seen) ELSE 0

NextCandidate(p, activated) ==
  ToCandidate(p, go[p].seen, Tail(go[p].todo), activated \/ go[p].activated)

Reinforce(p) ==
  /\ go[p].pc = "candidate"
  /\ LET c == Head(go[p].todo) IN
     /\ AutoActivates(c) /\ Deciding(p, c) # {} /\ facts[Match(p, c)].text = c.text
     /\ NextCandidate(p, TRUE)
  /\ UNCHANGED <<facts, suggestions, profile, acts, faults, history>>

Activate(p) ==
  /\ go[p].pc = "candidate"
  /\ LET c == Head(go[p].todo) IN
     /\ AutoActivates(c) /\ Deciding(p, c) = {}
     /\ go' = [go EXCEPT ![p] = [@ EXCEPT
          !.pc = IF Match(p, c) = 0 THEN "insert" ELSE "supersede",
          !.fact = Match(p, c), !.text = c.text, !.sensitive = c.sensitive]]
  /\ UNCHANGED <<facts, suggestions, profile, acts, faults, history>>

\* InsertMemorySuggestion: each attempt of the job inserts it anew.
QueueReview(p) ==
  /\ go[p].pc = "candidate" /\ Len(suggestions) < MaxSuggestions
  /\ LET c == Head(go[p].todo) IN
     /\ \/ ~AutoActivates(c)
        \/ Deciding(p, c) # {} /\ facts[Match(p, c)].text # c.text
     /\ suggestions' = Append(suggestions, [status |-> "pending", text |-> c.text,
                         sensitive |-> c.sensitive, conflict |-> Match(p, c)])
     /\ NextCandidate(p, FALSE)
  /\ UNCHANGED <<facts, profile, acts, faults, history>>

-----------------------------------------------------------------------------
(* Compiler.CompileSource, one at a time in the queue of a process *)

ToChange(old) == IF old = 0 THEN "insert" ELSE "deactivate"

StartCompile(p) == Starts(p, [Idle EXCEPT !.pc = "existing", !.op = "compile"]) /\ UNCHANGED history

\* The language model may write a summary, and replace a fact of the list or add one.
ReadFacts(p) ==
  /\ go[p].pc = "existing" /\ go[p].op = "compile"
  /\ \E old \in {0} \cup {i \in Stored : facts[i].on}, text \in Text \cup {NoText}, summary \in BOOLEAN :
       /\ old # 0 => text # NoText
       /\ old = 0 => \A i \in Stored : facts[i].on => facts[i].text # text
       /\ summary \/ text # NoText
       /\ go' = [go EXCEPT ![p] = [@ EXCEPT !.fact = old, !.text = text,
                  !.pc = IF summary THEN "summary" ELSE ToChange(old)]]
  /\ UNCHANGED <<facts, suggestions, profile, acts, faults, history>>

WriteSummary(p) ==
  /\ go[p].pc = "summary"
  /\ profile' = [by |-> "compiler", shows |-> {}]
  /\ IF go[p].text = NoText THEN Ends(p) ELSE Goto(p, ToChange(go[p].fact))
  /\ UNCHANGED <<facts, suggestions, acts, faults, history>>

-----------------------------------------------------------------------------
(* Failed calls and dying processes *)

\* It may have changed a fact it has not projected.
AtWork(p) == go[p].activated \/ go[p].pc \in {"insert", "close", "candidate", "list", "upsert"}

LeavesUndone(p) ==
  /\ cut' = IF go[p].pc = "close" THEN cut \cup {go[p].sug} ELSE cut
  /\ orphaned' = IF go[p].pc = "insert" THEN orphaned \cup ({go[p].fact} \ {0}) ELSE orphaned
  /\ unprojected' = IF AtWork(p) THEN Stored ELSE unprojected

CutOff(p) ==
  /\ p \in Requests \cup Compilers /\ go[p].pc # "idle"
  /\ Fault
  /\ Ends(p)
  /\ LeavesUndone(p)
  /\ UNCHANGED <<facts, suggestions, profile, acts, contested, raced>>

\* A background job is tried again from the start.
JobRetried(p) ==
  /\ p \in Extractors /\ go[p].pc # "idle"
  /\ Fault
  /\ go' = [go EXCEPT ![p] = [Idle EXCEPT !.pc = "existing", !.op = "extract"]]
  /\ LeavesUndone(p)
  /\ UNCHANGED <<facts, suggestions, profile, acts, contested, raced>>

\* activateSuggestion goes on when the fact in conflict cannot be superseded.
SupersedeIgnored(p) ==
  /\ go[p].pc = "supersede" /\ go[p].op = "acceptSug"
  /\ Fault
  /\ Goto(p, "insert")
  /\ UNCHANGED <<facts, suggestions, profile, acts, history>>

-----------------------------------------------------------------------------
Request(p) ==
  \/ StartItem(p) \/ StartBlindSet(p) \/ PatchItem(p) \/ StartOld(p) \/ UpdateProfile(p)
  \/ StartDecision(p) \/ GetFact(p) \/ GetActiveFact(p) \/ SetStatus(p) \/ GetSuggestion(p)
  \/ CloseSuggestion(p) \/ SupersedeIgnored(p)

Extract(p) ==
  \/ StartExtract(p) \/ ListExisting(p) \/ Reinforce(p) \/ Activate(p) \/ QueueReview(p)
  \/ JobRetried(p)

Compile(p) ==
  \/ StartCompile(p) \/ ReadFacts(p) \/ WriteSummary(p)

Next ==
  \/ \E p \in Requests : Request(p)
  \/ \E p \in Extractors : Extract(p)
  \/ \E p \in Compilers : Compile(p)
  \/ \E p \in Procs : \/ Supersede(p) \/ Deactivate(p) \/ InsertFact(p)
                      \/ ListActive(p) \/ UpsertProfile(p) \/ CutOff(p)

Spec == Init /\ [][Next]_vars

-----------------------------------------------------------------------------

\* A decision is taken once: a suggestion that no request is at work on has made one
\* fact if it is accepted and none otherwise, however often it is decided, retried
\* or suggested again - unless two requests decided it at once, or the one that
\* accepted it was cut off before it could say so.
Undecided(s) == \A p \in Procs : go[p].sug # s
DecisionsMatchFacts ==
  \A s \in 1..Len(suggestions) : Undecided(s) =>
    \/ s \in contested \cup cut
    \/ Cardinality({i \in Stored : facts[i].from = s})
         = IF suggestions[s].status = "accepted" THEN 1 ELSE 0

\* No memory disappears by being replaced: a superseded fact has a successor, or a
\* goroutine that is about to insert it - whatever the request, the extraction or
\* the decision that replaced it, and whatever they knew of the others - unless the
\* insert failed.
SupersededHasHeir ==
  \A i \in Stored : facts[i].status = "superseded" =>
    \/ i \in orphaned
    \/ \E j \in Stored : facts[j].supersedes = i
    \/ \E p \in Procs : go[p].pc = "insert" /\ go[p].fact = i

\* "The projection of confirmed memories": when nobody is at work on it, a projected
\* profile shows the active facts and no others, but for those that were changed
\* without a projection after it, the last one taken out, and the case that an older
\* projection was written over a newer one.
ProfileFollowsFacts ==
  profile.by = "projection" /\ ~raced /\ (\A p \in Procs : ~AtWork(p)) =>
    profile.shows \ unprojected = Active \ unprojected
=============================================================================
