--------------------------- MODULE ImportsProofs ---------------------------
(***************************************************************************)
(* What is proved of the imports: that a completed import of a ChatGPT      *)
(* export is complete and an open one is carried on (ChatGPTImport), and    *)
(* that the connection to Granola says "syncing" only while a sync is at    *)
(* work, stays cut when the user has cut it, and keeps track of what its    *)
(* syncs have imported (Connectors).                                        *)
(***************************************************************************)
EXTENDS Connectors, ChatGPTImport, SequenceTheorems, TLAPS

-----------------------------------------------------------------------------
(* The import of an export.                                                 *)

ImporterPc == {"idle", "get", "running", "total", "loop", "insert", "note", "next", "progress",
               "deadline", "save", "queued", "enqueue", "complete", "retry"}
ImporterRow == [pc : ImporterPc, key : Cursors, at : Cursors]
JobStates == {"none", "pending", "leased", "done", "dead"}
JobRows == [Cursors -> [state : JobStates, tries : Nat]]

ImportTypeOK ==
  /\ imp \in [status : {"awaiting_upload", "queued", "running", "failed", "completed"}, cursor : Cursors]
  /\ job \in JobRows
  /\ importer \in [Importers -> ImporterRow]
  /\ starter \in [Starters -> {"idle", "patch", "enqueue", "over"}]
  /\ imported \in [Conversation -> Nat]
  /\ noted \in SUBSET Conversation /\ dropped \in SUBSET Conversation /\ unnoted \in SUBSET Conversation
  /\ contested \in BOOLEAN /\ unqueued \in BOOLEAN /\ stale \in BOOLEAN
  /\ upsets \in Nat

\* An importer has left a conversation: for the next one, for the row, for good.
Behind(c) ==
  /\ c \in dropped \/ imported[c] >= 1
  /\ c \in dropped \cup unnoted \/ c \in noted \/ contested

\* Where an importer is in the export.
InPlace(w) ==
  LET r == importer[w] IN
  /\ r.pc # "idle" => \A c \in Conversation : c < r.key => Behind(c)
  /\ r.pc \notin {"idle", "get", "complete", "retry"} =>
       r.key <= r.at /\ \A c \in Conversation : c < r.at => Behind(c)
  /\ r.pc \in {"progress", "deadline", "save", "queued", "enqueue"} => r.key < r.at
  /\ r.pc \in {"insert", "note", "next"} => r.at \in Conversation
  /\ r.pc = "insert" => contested \/ imported[r.at] = 0
  /\ r.pc = "note" => imported[r.at] >= 1
  /\ r.pc = "next" => Behind(r.at)

\* Every place from which the import may go on has all conversations behind it.
Cover ==
  /\ \A w \in Importers : InPlace(w)
  /\ \A c \in Conversation : c < imp.cursor => Behind(c)
  /\ \A k \in Cursors : job[k].state # "none" => \A c \in Conversation : c < k => Behind(c)
  /\ imp.status = "completed" => \A c \in Conversation : Behind(c)

\* As long as no two workers had the import at once.
Alone ==
  ~contested =>
    /\ \A v, w \in Importers : Working(v) /\ Working(w) => v = w
    /\ \A c \in Conversation :
         /\ imported[c] <= 1
         /\ imported[c] >= 1 => \/ c \in noted \cup unnoted
                                \/ \E w \in Importers : importer[w].pc = "note" /\ importer[w].at = c

\* Who carries the import on when a worker has left it.
Onward ==
  /\ \A w \in Importers : Working(w) => job[importer[w].key].state \in {"pending", "leased", "dead"} \/ contested
  /\ \A w \in Importers : importer[w].pc = "complete" =>
       \/ imp.status = "completed"
       \/ \E k \in Cursors : k # importer[w].key /\ Outstanding(k)
       \/ contested \/ stale
  /\ ImportIsCarried

ImportInv == ImportTypeOK /\ Cover /\ Alone /\ Onward

\* What the history, the sources and the notes never lose.
Grows ==
  /\ dropped \subseteq dropped' /\ unnoted \subseteq unnoted' /\ noted \subseteq noted'
  /\ contested => contested'
  /\ \A c \in Conversation : imported[c] <= imported'[c]

\* A conversation that is behind stays there.
LEMMA BehindStays ==
  ASSUME ImportTypeOK, ImportTypeOK', Grows, NEW c \in Conversation, Behind(c)
  PROVE  Behind(c)'
<1>1. imported[c] \in Nat /\ imported'[c] \in Nat /\ imported[c] <= imported'[c]
  BY DEF ImportTypeOK, Grows
<1> QED  BY <1>1 DEF Behind, Grows

\* The goroutine of w alone has moved, or none has.
Moved(w) == \A v \in Importers \ {w} : importer'[v] = importer[v]

\* The others are where they were; only who inserts a conversation changes what
\* one about to insert relies on, and then there were two.
LEMMA OthersInPlace ==
  ASSUME ImportInv, ImportTypeOK', Grows, NEW w \in Importers, Moved(w),
         imported' = imported \/ Working(w), InPlace(w)'
  PROVE  \A v \in Importers : InPlace(v)'
<1> SUFFICES ASSUME NEW v \in Importers, v # w
             PROVE  InPlace(v)'
  OBVIOUS
<1> DEFINE r == importer[v]
<1>1. importer'[v] = r /\ r \in ImporterRow /\ InPlace(v)
  BY DEF Moved, ImportInv, ImportTypeOK, Cover
<1>2. \A c \in Conversation : Behind(c) => Behind(c)'
  BY BehindStays DEF ImportInv
<1>3. r.pc = "insert" => contested' \/ imported'[r.at] = 0
  <2> SUFFICES ASSUME r.pc = "insert", ~contested'
               PROVE  imported'[r.at] = 0
    OBVIOUS
  <2>1. ~contested /\ imported[r.at] = 0
    BY <1>1 DEF InPlace, Grows
  <2>2. ~Working(w)
    BY <1>1, <2>1 DEF Working, ImportInv, Alone
  <2> QED  BY <2>1, <2>2
<1>4. r.pc = "note" => imported'[r.at] >= 1
  BY <1>1 DEF InPlace, Grows, ImportTypeOK, ImportInv
<1> QED  BY <1>1, <1>2, <1>3, <1>4 DEF InPlace

\* Moves of a goroutine and of a job, with their types.
LEMMA GotoMoves ==
  ASSUME ImportTypeOK, NEW w \in Importers, NEW pc \in ImporterPc, GotoI(w, pc)
  PROVE  /\ importer' \in [Importers -> ImporterRow] /\ Moved(w)
         /\ importer'[w] = [importer[w] EXCEPT !.pc = pc]
  BY DEF ImportTypeOK, ImporterRow, GotoI, Moved

LEMMA RowMoves ==
  ASSUME ImportTypeOK, NEW w \in Importers, NEW r \in ImporterRow, importer' = [importer EXCEPT ![w] = r]
  PROVE  importer' \in [Importers -> ImporterRow] /\ Moved(w) /\ importer'[w] = r
  BY DEF ImportTypeOK, Moved

LEMMA UpsetCounts ==
  ASSUME ImportTypeOK, Upset
  PROVE  upsets' \in Nat
  BY DEF ImportTypeOK, Upset

LEMMA JobMoves ==
  ASSUME ImportTypeOK, NEW k \in Cursors, NEW state \in JobStates
  PROVE  /\ [job EXCEPT ![k].state = state] \in JobRows
         /\ [job EXCEPT ![k].state = state][k].state = state
         /\ \A n \in Cursors \ {k} : [job EXCEPT ![k].state = state][n] = job[n]
  BY DEF ImportTypeOK, JobRows

LEMMA AgainIs ==
  ASSUME NEW k PROVE Again(k) \in {"pending", "dead"}
  BY DEF Again

\* A job ends only if it is still leased; then it is in the state given.
LEMMA EndedMoves ==
  ASSUME ImportTypeOK, NEW k \in Cursors, NEW state \in JobStates
  PROVE  /\ Ended(k, state) \in JobRows
         /\ Ended(k, state)[k].state = IF job[k].state = "leased" THEN state ELSE job[k].state
         /\ \A n \in Cursors \ {k} : Ended(k, state)[n] = job[n]
<1>1. CASE job[k].state = "leased"
  BY <1>1, JobMoves DEF Ended
<1>2. CASE job[k].state # "leased"
  BY <1>2 DEF Ended, ImportTypeOK
<1> QED  BY <1>1, <1>2

\* The job of a key is outstanding once it has been enqueued.
LEMMA EnqueuedMoves ==
  ASSUME ImportTypeOK, NEW k \in Cursors
  PROVE  /\ EnqueuedImport(k) \in JobRows
         /\ EnqueuedImport(k)[k].state \in {"pending", "leased"}
         /\ Outstanding(k) => EnqueuedImport(k) = job
         /\ \A n \in Cursors \ {k} : EnqueuedImport(k)[n] = job[n]
  BY DEF EnqueuedImport, Outstanding, ImportTypeOK, JobRows, JobStates

LEMMA ClaimMoves ==
  ASSUME ImportTypeOK, NEW w \in Importers, NEW k \in Cursors, ClaimImport(w, k)
  PROVE  /\ job' \in JobRows /\ job'[k].state = "leased"
         /\ \A n \in Cursors \ {k} : job'[n] = job[n]
         /\ importer' \in [Importers -> ImporterRow] /\ Moved(w)
         /\ importer'[w] = [pc |-> "get", key |-> k, at |-> 0]
<1> DEFINE new == [state |-> "leased", tries |-> job[k].tries + 1]
<1>1. new \in [state : JobStates, tries : Nat]
  BY DEF ImportTypeOK, JobRows, JobStates
<1>2. job' = [job EXCEPT ![k] = new]
  BY DEF ClaimImport
<1>3. [pc |-> "get", key |-> k, at |-> 0] \in ImporterRow
  BY ImportAssumption DEF ImporterRow, ImporterPc, Cursors
<1>4. importer' = [importer EXCEPT ![w] = [pc |-> "get", key |-> k, at |-> 0]]
  BY DEF ClaimImport
<1>5. new.state = "leased"
  OBVIOUS
<1> HIDE DEF new
<1>6. job' \in JobRows /\ job'[k] = new /\ \A n \in Cursors \ {k} : job'[n] = job[n]
  BY <1>1, <1>2 DEF ImportTypeOK, JobRows
<1> QED  BY <1>3, <1>4, <1>5, <1>6, RowMoves

-----------------------------------------------------------------------------
(* What the steps of an importer have in common.                            *)

\* The importer is between GetImport and the end of its job, at a place of its own.
Placed(w) == importer[w].pc \notin {"idle", "get", "complete", "retry"}

LEMMA CoverMoves ==
  ASSUME ImportInv, ImportTypeOK', Grows, NEW w \in Importers, Moved(w),
         imported' = imported \/ Working(w), InPlace(w)',
         imp'.cursor = imp.cursor \/ (Placed(w) /\ imp'.cursor = importer[w].at),
         \A k \in Cursors : job'[k].state # "none" =>
           job[k].state # "none" \/ k = 0 \/ (Placed(w) /\ k = importer[w].at),
         imp'.status = "completed" => imp.status = "completed" \/ (importer[w].pc = "loop" /\ importer[w].at >= Total)
  PROVE  Cover'
<1>1. \A v \in Importers : InPlace(v)'
  BY OthersInPlace
<1>2. \A c \in Conversation : Behind(c) => Behind(c)'
  BY BehindStays DEF ImportInv
<1>3. Placed(w) => \A c \in Conversation : c < importer[w].at => Behind(c)
  BY DEF Placed, InPlace, ImportInv, Cover
<1>4. \A c \in Conversation : c < imp'.cursor => Behind(c)'
  BY <1>2, <1>3 DEF ImportInv, Cover
<1>5. \A k \in Cursors : job'[k].state # "none" => \A c \in Conversation : c < k => Behind(c)'
  BY <1>2, <1>3, ImportAssumption DEF ImportInv, Cover, Conversation
<1>6. imp'.status = "completed" => \A c \in Conversation : Behind(c)'
  <2>1. CASE importer[w].pc = "loop" /\ importer[w].at >= Total
    <3>1. importer[w].at \in Nat
      BY ImportAssumption DEF ImportInv, ImportTypeOK, ImporterRow, Cursors
    <3>2. \A c \in Conversation : c < importer[w].at
      BY <2>1, <3>1, ImportAssumption DEF Conversation
    <3> QED  BY <2>1, <3>2, <1>2, <1>3 DEF Placed
  <2>2. CASE imp.status = "completed"
    BY <2>2, <1>2 DEF ImportInv, Cover
  <2> QED  BY <2>1, <2>2
<1> QED  BY <1>1, <1>4, <1>5, <1>6 DEF Cover

LEMMA AloneMoves ==
  ASSUME ImportInv, Grows, NEW w \in Importers, Moved(w), Working(w),
         contested' = contested, imported' = imported,
         importer[w].pc = "note" => importer[w].at \in noted' \cup unnoted'
  PROVE  Alone'
<1> SUFFICES ASSUME ~contested
             PROVE  /\ \A v, u \in Importers : Working(v)' /\ Working(u)' => v = u
                    /\ \A c \in Conversation :
                         /\ imported[c] <= 1
                         /\ imported[c] >= 1 => \/ c \in noted' \cup unnoted'
                                                \/ \E v \in Importers : importer'[v].pc = "note" /\ importer'[v].at = c
  BY DEF Alone
<1>1. \A v \in Importers : Working(v)' => v = w
  BY DEF Moved, Working, ImportInv, Alone
<1>2. ASSUME NEW c \in Conversation, imported[c] >= 1
      PROVE  c \in noted' \cup unnoted'
  <2>1. \/ c \in noted \cup unnoted
        \/ \E v \in Importers : importer[v].pc = "note" /\ importer[v].at = c
    BY <1>2 DEF ImportInv, Alone
  <2>2. ASSUME NEW v \in Importers, importer[v].pc = "note", importer[v].at = c
        PROVE  c \in noted' \cup unnoted'
    BY <2>2 DEF ImportInv, Alone, Working
  <2> QED  BY <2>1, <2>2 DEF Grows
<1> QED  BY <1>1, <1>2 DEF ImportInv, Alone

LEMMA OnwardMoves ==
  ASSUME ImportInv, NEW w \in Importers, Moved(w), Working(w),
         UNCHANGED <<job, starter, contested, unqueued, stale>>,
         importer'[w].key = importer[w].key,
         importer'[w].pc = "complete" => imp'.status = "completed"
  PROVE  Onward'
<1>1. importer[w].key \in Cursors /\ (contested \/ job[importer[w].key].state \in {"pending", "leased", "dead"})
  BY DEF ImportInv, Onward, ImportTypeOK, ImporterRow
<1>2. \A v \in Importers : Working(v)' => job'[importer'[v].key].state \in {"pending", "leased", "dead"} \/ contested'
  BY <1>1 DEF Moved, Working, ImportInv, Onward
<1>3. \A v \in Importers : importer'[v].pc = "complete" => imp'.status = "completed" \/ contested'
  BY DEF Moved, Working, ImportInv, Alone
<1>4. ImportIsCarried'
  BY <1>1 DEF ImportIsCarried, Outstanding
<1> QED  BY <1>2, <1>3, <1>4 DEF Onward, Outstanding

-----------------------------------------------------------------------------
(* Action by action.                                                        *)

LEMMA GetImportKeeps ==
  ASSUME ImportInv, NEW w \in Importers, GetImport(w)
  PROVE  ImportInv'
<1>0. ImportTypeOK /\ importer[w] \in ImporterRow /\ InPlace(w) /\ Working(w)
  BY DEF ImportInv, ImportTypeOK, Cover, Working, GetImport
<1>1. importer' \in [Importers -> ImporterRow] /\ Moved(w) /\ importer'[w] = IF imp.status = "completed" THEN [importer[w] EXCEPT !.pc = "complete"]
                       ELSE [importer[w] EXCEPT !.pc = "running", !.at = From(importer[w].key, imp.cursor)]
  <2> DEFINE r == IF imp.status = "completed" THEN [importer[w] EXCEPT !.pc = "complete"]
                  ELSE [importer[w] EXCEPT !.pc = "running", !.at = From(importer[w].key, imp.cursor)]
  <2>1. r \in ImporterRow
    BY <1>0 DEF ImporterRow, ImporterPc, From, ImportTypeOK
  <2>2. importer' = [importer EXCEPT ![w] = r]
    BY DEF GetImport
  <2> HIDE DEF r
  <2>3. importer' \in [Importers -> ImporterRow] /\ Moved(w) /\ importer'[w] = r
    BY <1>0, <2>1, <2>2, RowMoves
  <2> QED  BY <2>3 DEF r
<1>2. ImportTypeOK'
  BY <1>0, <1>1, UpsetCounts DEF ImportTypeOK, GetImport
<1>3. Grows
  BY <1>0 DEF Grows, ImportTypeOK, GetImport
<1>b. \A c \in Conversation : Behind(c) => Behind(c)'
  BY <1>0, <1>2, <1>3, BehindStays
<1>4. InPlace(w)'
  <2>1. importer[w].key \in Nat /\ imp.cursor \in Nat /\ imp.cursor \in Cursors
    BY <1>0, ImportAssumption DEF ImportTypeOK, ImporterRow, Cursors
  <2>2. \A c \in Conversation : c < From(importer[w].key, imp.cursor) => Behind(c)'
    BY <1>0, <1>b DEF From, InPlace, ImportInv, Cover, GetImport
  <2>3. importer[w].key <= From(importer[w].key, imp.cursor)
    BY <2>1 DEF From
  <2>4. importer'[w].pc \in {"complete", "running"} /\ importer'[w].key = importer[w].key
    BY <1>0, <1>1 DEF ImporterRow
  <2>5. importer'[w].pc = "running" => importer'[w].at = From(importer[w].key, imp.cursor)
    BY <1>0, <1>1 DEF ImporterRow
  <2> QED  BY <1>0, <1>b, <2>2, <2>3, <2>4, <2>5 DEF InPlace, GetImport
<1>5. Cover'
  BY <1>0, <1>1, <1>2, <1>3, <1>4, CoverMoves DEF Placed, GetImport
<1>6. Alone'
  BY <1>0, <1>1, <1>3, AloneMoves DEF GetImport
<1>7. Onward'
  BY <1>0, <1>1, OnwardMoves DEF ImporterRow, ImportTypeOK, GetImport
<1> QED  BY <1>2, <1>5, <1>6, <1>7 DEF ImportInv

LEMMA MarkImportRunningKeeps ==
  ASSUME ImportInv, NEW w \in Importers, MarkImportRunning(w)
  PROVE  ImportInv'
<1>0. ImportTypeOK /\ importer[w] \in ImporterRow /\ InPlace(w) /\ Working(w)
  BY DEF ImportInv, ImportTypeOK, Cover, Working, MarkImportRunning
<1>1. importer' \in [Importers -> ImporterRow] /\ Moved(w) /\ importer'[w] = [importer[w] EXCEPT !.pc = "total"]
  BY <1>0, GotoMoves DEF ImporterPc, MarkImportRunning
<1>2. ImportTypeOK'
  BY <1>0, <1>1, UpsetCounts DEF ImportTypeOK, MarkImportRunning
<1>3. Grows
  BY <1>0 DEF Grows, ImportTypeOK, MarkImportRunning
<1>b. \A c \in Conversation : Behind(c) => Behind(c)'
  BY <1>0, <1>2, <1>3, BehindStays
<1>4. InPlace(w)'
  BY <1>0, <1>1, <1>b, ImportAssumption DEF InPlace, ImportTypeOK, ImporterRow, Cursors, Conversation, MarkImportRunning
<1>5. Cover'
  BY <1>0, <1>1, <1>2, <1>3, <1>4, CoverMoves DEF Placed, MarkImportRunning
<1>6. Alone'
  BY <1>0, <1>1, <1>3, AloneMoves DEF MarkImportRunning
<1>7. Onward'
  BY <1>0, <1>1, OnwardMoves DEF ImporterRow, ImportTypeOK, MarkImportRunning
<1> QED  BY <1>2, <1>5, <1>6, <1>7 DEF ImportInv

LEMMA PatchTotalKeeps ==
  ASSUME ImportInv, NEW w \in Importers, PatchTotal(w)
  PROVE  ImportInv'
<1>0. ImportTypeOK /\ importer[w] \in ImporterRow /\ InPlace(w) /\ Working(w)
  BY DEF ImportInv, ImportTypeOK, Cover, Working, PatchTotal
<1>1. importer' \in [Importers -> ImporterRow] /\ Moved(w) /\ importer'[w] = [importer[w] EXCEPT !.pc = "loop"]
  BY <1>0, GotoMoves DEF ImporterPc, PatchTotal
<1>2. ImportTypeOK'
  BY <1>0, <1>1, UpsetCounts DEF ImportTypeOK, ImporterRow, PatchTotal
<1>3. Grows
  BY <1>0 DEF Grows, ImportTypeOK, PatchTotal
<1>b. \A c \in Conversation : Behind(c) => Behind(c)'
  BY <1>0, <1>2, <1>3, BehindStays
<1>4. InPlace(w)'
  BY <1>0, <1>1, <1>b, ImportAssumption DEF InPlace, ImportTypeOK, ImporterRow, Cursors, Conversation, PatchTotal
<1>5. Cover'
  BY <1>0, <1>1, <1>2, <1>3, <1>4, CoverMoves DEF Placed, PatchTotal
<1>6. Alone'
  BY <1>0, <1>1, <1>3, AloneMoves DEF PatchTotal
<1>7. Onward'
  BY <1>0, <1>1, OnwardMoves DEF ImporterRow, ImportTypeOK, PatchTotal
<1> QED  BY <1>2, <1>5, <1>6, <1>7 DEF ImportInv

LEMMA FailImportKeeps ==
  ASSUME ImportInv, NEW w \in Importers, FailImport(w)
  PROVE  ImportInv'
<1>0. ImportTypeOK /\ importer[w] \in ImporterRow /\ InPlace(w) /\ Working(w)
  BY DEF ImportInv, ImportTypeOK, Cover, Working, FailImport
<1>1. importer' \in [Importers -> ImporterRow] /\ Moved(w) /\ importer'[w] = [importer[w] EXCEPT !.pc = "retry"]
  BY <1>0, GotoMoves DEF ImporterPc, FailImport
<1>2. ImportTypeOK'
  BY <1>0, <1>1, UpsetCounts DEF ImportTypeOK, FailImport
<1>3. Grows
  BY <1>0 DEF Grows, ImportTypeOK, FailImport
<1>b. \A c \in Conversation : Behind(c) => Behind(c)'
  BY <1>0, <1>2, <1>3, BehindStays
<1>4. InPlace(w)'
  BY <1>0, <1>1, <1>b, ImportAssumption DEF InPlace, ImportTypeOK, ImporterRow, Cursors, Conversation, FailImport
<1>5. Cover'
  BY <1>0, <1>1, <1>2, <1>3, <1>4, CoverMoves DEF Placed, FailImport
<1>6. Alone'
  BY <1>0, <1>1, <1>3, AloneMoves DEF FailImport
<1>7. Onward'
  BY <1>0, <1>1, OnwardMoves DEF ImporterRow, ImportTypeOK, FailImport
<1> QED  BY <1>2, <1>5, <1>6, <1>7 DEF ImportInv

LEMMA FindSourceKeeps ==
  ASSUME ImportInv, NEW w \in Importers, FindSource(w)
  PROVE  ImportInv'
<1>0. ImportTypeOK /\ importer[w] \in ImporterRow /\ InPlace(w) /\ Working(w)
  BY DEF ImportInv, ImportTypeOK, Cover, Working, FindSource
<1>1. importer' \in [Importers -> ImporterRow] /\ Moved(w) /\ importer'[w] = [importer[w] EXCEPT !.pc = (IF imported[importer[w].at] > 0 THEN "next" ELSE "insert")]
  BY <1>0, GotoMoves DEF ImporterPc, FindSource
<1>2. ImportTypeOK'
  BY <1>0, <1>1, UpsetCounts DEF ImportTypeOK, FindSource
<1>3. Grows
  BY <1>0 DEF Grows, ImportTypeOK, FindSource
<1>b. \A c \in Conversation : Behind(c) => Behind(c)'
  BY <1>0, <1>2, <1>3, BehindStays
<1>4. InPlace(w)'
  <2> DEFINE c == importer[w].at
  <2>1. c \in Conversation /\ imported[c] \in Nat
    BY <1>0, ImportAssumption DEF ImportTypeOK, ImporterRow, Cursors, Conversation, FindSource
  <2>2. imported[c] > 0 => Behind(c)
    <3>1. ASSUME NEW v \in Importers, importer[v].pc = "note", ~contested
          PROVE  FALSE
      BY <1>0, <3>1 DEF ImportInv, Alone, Working, FindSource
    <3>2. imported[c] > 0 => imported[c] >= 1
      BY <2>1
    <3> QED  BY <2>1, <3>1, <3>2 DEF Behind, ImportInv, Alone
  <2>3. imported' = imported /\ (imported[c] > 0 \/ imported'[c] = 0)
    BY <2>1 DEF FindSource
  <2> QED  BY <1>0, <1>1, <1>b, <2>1, <2>2, <2>3 DEF InPlace, ImporterRow, FindSource
<1>5. Cover'
  BY <1>0, <1>1, <1>2, <1>3, <1>4, CoverMoves DEF Placed, FindSource
<1>6. Alone'
  BY <1>0, <1>1, <1>3, AloneMoves DEF FindSource
<1>7. Onward'
  BY <1>0, <1>1, OnwardMoves DEF ImporterRow, ImportTypeOK, FindSource
<1> QED  BY <1>2, <1>5, <1>6, <1>7 DEF ImportInv

LEMMA NoteSourceKeeps ==
  ASSUME ImportInv, NEW w \in Importers, NoteSource(w)
  PROVE  ImportInv'
<1>0. ImportTypeOK /\ importer[w] \in ImporterRow /\ InPlace(w) /\ Working(w)
  BY DEF ImportInv, ImportTypeOK, Cover, Working, NoteSource
<1>1. importer' \in [Importers -> ImporterRow] /\ Moved(w) /\ importer'[w] = [importer[w] EXCEPT !.pc = "next"]
  BY <1>0, GotoMoves DEF ImporterPc, NoteSource
<1>2. ImportTypeOK'
  BY <1>0, <1>1, UpsetCounts DEF ImportTypeOK, InPlace, NoteSource
<1>3. Grows
  BY <1>0 DEF Grows, ImportTypeOK, NoteSource
<1>b. \A c \in Conversation : Behind(c) => Behind(c)'
  BY <1>0, <1>2, <1>3, BehindStays
<1>4. InPlace(w)'
  <2>1. PICK c \in Conversation : c = importer[w].at
    BY <1>0 DEF InPlace, NoteSource
  <2>2. Behind(c)'
    BY <1>0, <2>1 DEF Behind, InPlace, NoteSource
  <2> QED  BY <1>0, <1>1, <1>b, <2>1, <2>2 DEF InPlace, ImporterRow, NoteSource
<1>5. Cover'
  BY <1>0, <1>1, <1>2, <1>3, <1>4, CoverMoves DEF Placed, NoteSource
<1>6. Alone'
  BY <1>0, <1>1, <1>3, AloneMoves DEF NoteSource
<1>7. Onward'
  BY <1>0, <1>1, OnwardMoves DEF ImporterRow, ImportTypeOK, NoteSource
<1> QED  BY <1>2, <1>5, <1>6, <1>7 DEF ImportInv

LEMMA ConversationFailsKeeps ==
  ASSUME ImportInv, NEW w \in Importers, ConversationFails(w)
  PROVE  ImportInv'
<1>0. ImportTypeOK /\ importer[w] \in ImporterRow /\ InPlace(w) /\ Working(w)
  BY DEF ImportInv, ImportTypeOK, Cover, Working, ConversationFails
<1>a. importer[w].at \in Conversation /\ upsets' \in Nat
  BY <1>0, ImportAssumption, UpsetCounts DEF InPlace, ImporterRow, Cursors, Conversation, ConversationFails
<1>1. importer' \in [Importers -> ImporterRow] /\ Moved(w) /\ importer'[w] = [importer[w] EXCEPT !.pc = "next"]
  BY <1>0, GotoMoves DEF ImporterPc, ConversationFails
<1>2. ImportTypeOK'
  BY <1>0, <1>1, <1>a DEF ImportTypeOK, ConversationFails
<1>3. Grows
  BY <1>0 DEF Grows, ImportTypeOK, ConversationFails
<1>b. \A c \in Conversation : Behind(c) => Behind(c)'
  BY <1>0, <1>2, <1>3, BehindStays
<1>4. InPlace(w)'
  <2>1. PICK c \in Conversation : c = importer[w].at
    BY <1>0, <1>a DEF InPlace, ConversationFails
  <2>2. Behind(c)'
    BY <1>0, <2>1 DEF Behind, InPlace, ConversationFails
  <2> QED  BY <1>0, <1>1, <1>b, <2>1, <2>2 DEF InPlace, ImporterRow, ConversationFails
<1>5. Cover'
  BY <1>0, <1>1, <1>2, <1>3, <1>4, CoverMoves DEF Placed, ConversationFails
<1>6. Alone'
  BY <1>0, <1>1, <1>3, AloneMoves DEF ConversationFails
<1>7. Onward'
  BY <1>0, <1>1, OnwardMoves DEF ImporterRow, ImportTypeOK, ConversationFails
<1> QED  BY <1>2, <1>5, <1>6, <1>7 DEF ImportInv

LEMMA PatchProgressKeeps ==
  ASSUME ImportInv, NEW w \in Importers, PatchProgress(w)
  PROVE  ImportInv'
<1>0. ImportTypeOK /\ importer[w] \in ImporterRow /\ InPlace(w) /\ Working(w)
  BY DEF ImportInv, ImportTypeOK, Cover, Working, PatchProgress
<1>1. importer' \in [Importers -> ImporterRow] /\ Moved(w) /\ importer'[w] = [importer[w] EXCEPT !.pc = (IF importer[w].pc = "progress" THEN "deadline" ELSE "queued")]
  BY <1>0, GotoMoves DEF ImporterPc, PatchProgress
<1>2. ImportTypeOK'
  BY <1>0, <1>1, UpsetCounts DEF ImportTypeOK, ImporterRow, PatchProgress
<1>3. Grows
  BY <1>0 DEF Grows, ImportTypeOK, PatchProgress
<1>b. \A c \in Conversation : Behind(c) => Behind(c)'
  BY <1>0, <1>2, <1>3, BehindStays
<1>4. InPlace(w)'
  BY <1>0, <1>1, <1>b, ImportAssumption DEF InPlace, ImportTypeOK, ImporterRow, Cursors, Conversation, PatchProgress
<1>5. Cover'
  BY <1>0, <1>1, <1>2, <1>3, <1>4, CoverMoves DEF Placed, PatchProgress
<1>6. Alone'
  BY <1>0, <1>1, <1>3, AloneMoves DEF PatchProgress
<1>7. Onward'
  BY <1>0, <1>1, OnwardMoves DEF ImporterRow, ImportTypeOK, PatchProgress
<1> QED  BY <1>2, <1>5, <1>6, <1>7 DEF ImportInv

LEMMA RequeueImportKeeps ==
  ASSUME ImportInv, NEW w \in Importers, RequeueImport(w)
  PROVE  ImportInv'
<1>0. ImportTypeOK /\ importer[w] \in ImporterRow /\ InPlace(w) /\ Working(w)
  BY DEF ImportInv, ImportTypeOK, Cover, Working, RequeueImport
<1>1. importer' \in [Importers -> ImporterRow] /\ Moved(w) /\ importer'[w] = [importer[w] EXCEPT !.pc = "enqueue"]
  BY <1>0, GotoMoves DEF ImporterPc, RequeueImport
<1>2. ImportTypeOK'
  BY <1>0, <1>1, UpsetCounts DEF ImportTypeOK, RequeueImport
<1>3. Grows
  BY <1>0 DEF Grows, ImportTypeOK, RequeueImport
<1>b. \A c \in Conversation : Behind(c) => Behind(c)'
  BY <1>0, <1>2, <1>3, BehindStays
<1>4. InPlace(w)'
  BY <1>0, <1>1, <1>b, ImportAssumption DEF InPlace, ImportTypeOK, ImporterRow, Cursors, Conversation, RequeueImport
<1>5. Cover'
  BY <1>0, <1>1, <1>2, <1>3, <1>4, CoverMoves DEF Placed, RequeueImport
<1>6. Alone'
  BY <1>0, <1>1, <1>3, AloneMoves DEF RequeueImport
<1>7. Onward'
  BY <1>0, <1>1, OnwardMoves DEF ImporterRow, ImportTypeOK, RequeueImport
<1> QED  BY <1>2, <1>5, <1>6, <1>7 DEF ImportInv

LEMMA FinishImportKeeps ==
  ASSUME ImportInv, NEW w \in Importers, FinishImport(w)
  PROVE  ImportInv'
<1>0. ImportTypeOK /\ importer[w] \in ImporterRow /\ InPlace(w) /\ Working(w)
  BY DEF ImportInv, ImportTypeOK, Cover, Working, FinishImport
<1>1. importer' \in [Importers -> ImporterRow] /\ Moved(w) /\ importer'[w] = [importer[w] EXCEPT !.pc = "complete"]
  BY <1>0, GotoMoves DEF ImporterPc, FinishImport
<1>2. ImportTypeOK'
  BY <1>0, <1>1, UpsetCounts DEF ImportTypeOK, ImporterRow, FinishImport
<1>3. Grows
  BY <1>0 DEF Grows, ImportTypeOK, FinishImport
<1>b. \A c \in Conversation : Behind(c) => Behind(c)'
  BY <1>0, <1>2, <1>3, BehindStays
<1>4. InPlace(w)'
  BY <1>0, <1>1, <1>b, ImportAssumption DEF InPlace, ImportTypeOK, ImporterRow, Cursors, Conversation, FinishImport
<1>5. Cover'
  BY <1>0, <1>1, <1>2, <1>3, <1>4, CoverMoves DEF Placed, FinishImport
<1>6. Alone'
  BY <1>0, <1>1, <1>3, AloneMoves DEF FinishImport
<1>7. Onward'
  BY <1>0, <1>1, OnwardMoves DEF ImporterRow, ImportTypeOK, FinishImport
<1> QED  BY <1>2, <1>5, <1>6, <1>7 DEF ImportInv

LEMMA ImportCallFailsKeeps ==
  ASSUME ImportInv, NEW w \in Importers, ImportCallFails(w)
  PROVE  ImportInv'
<1>0. ImportTypeOK /\ importer[w] \in ImporterRow /\ InPlace(w) /\ Working(w)
  BY DEF ImportInv, ImportTypeOK, Cover, Working, ImportCallFails
<1>1. importer' \in [Importers -> ImporterRow] /\ Moved(w) /\ importer'[w] = [importer[w] EXCEPT !.pc = "retry"]
  BY <1>0, GotoMoves DEF ImporterPc, ImportCallFails
<1>2. ImportTypeOK'
  BY <1>0, <1>1, UpsetCounts DEF ImportTypeOK, ImportCallFails
<1>3. Grows
  BY <1>0 DEF Grows, ImportTypeOK, ImportCallFails
<1>b. \A c \in Conversation : Behind(c) => Behind(c)'
  BY <1>0, <1>2, <1>3, BehindStays
<1>4. InPlace(w)'
  BY <1>0, <1>1, <1>b, ImportAssumption DEF InPlace, ImportTypeOK, ImporterRow, Cursors, Conversation, ImportCallFails
<1>5. Cover'
  BY <1>0, <1>1, <1>2, <1>3, <1>4, CoverMoves DEF Placed, ImportCallFails
<1>6. Alone'
  BY <1>0, <1>1, <1>3, AloneMoves DEF ImportCallFails
<1>7. Onward'
  BY <1>0, <1>1, OnwardMoves DEF ImporterRow, ImportTypeOK, ImportCallFails
<1> QED  BY <1>2, <1>5, <1>6, <1>7 DEF ImportInv

LEMMA InsertConversationKeeps ==
  ASSUME ImportInv, NEW w \in Importers, InsertConversation(w)
  PROVE  ImportInv'
<1>0. ImportTypeOK /\ importer[w] \in ImporterRow /\ InPlace(w) /\ Working(w)
  BY DEF ImportInv, ImportTypeOK, Cover, Working, InsertConversation
<1>1. importer' \in [Importers -> ImporterRow] /\ Moved(w) /\ importer'[w] = [importer[w] EXCEPT !.pc = "note"]
  BY <1>0, GotoMoves DEF ImporterPc, InsertConversation
<1>2. PICK c \in Conversation : c = importer[w].at
  BY <1>0 DEF InPlace, InsertConversation
<1>3. /\ imported' \in [Conversation -> Nat] /\ imported'[c] = imported[c] + 1
      /\ \A d \in Conversation \ {c} : imported'[d] = imported[d]
  BY <1>0, <1>2 DEF ImportTypeOK, InsertConversation
<1>4. ImportTypeOK'
  BY <1>0, <1>1, <1>3 DEF ImportTypeOK, InsertConversation
<1>5. Grows
  BY <1>0, <1>3 DEF Grows, ImportTypeOK, InsertConversation
<1>6. \A d \in Conversation : Behind(d) => Behind(d)'
  BY <1>0, <1>4, <1>5, BehindStays
<1>7. imported'[c] >= 1
  BY <1>0, <1>3 DEF ImportTypeOK
<1>8. InPlace(w)'
  BY <1>0, <1>1, <1>2, <1>6, <1>7 DEF InPlace, ImporterRow, InsertConversation
<1>9. Cover'
  BY <1>0, <1>1, <1>4, <1>5, <1>8, CoverMoves DEF InsertConversation
<1>10. Alone'
  <2> SUFFICES ASSUME ~contested
               PROVE  /\ \A v, u \in Importers : Working(v)' /\ Working(u)' => v = u
                      /\ \A d \in Conversation :
                           /\ imported'[d] <= 1
                           /\ imported'[d] >= 1 => \/ d \in noted' \cup unnoted'
                                                   \/ \E v \in Importers : importer'[v].pc = "note" /\ importer'[v].at = d
    BY DEF Alone, InsertConversation
  <2>1. \A v, u \in Importers : Working(v)' /\ Working(u)' => v = u
    BY <1>0, <1>1 DEF Moved, Working, ImportInv, Alone, InsertConversation
  <2>2. imported'[c] <= 1 /\ importer'[w].pc = "note" /\ importer'[w].at = c
    BY <1>0, <1>1, <1>2, <1>3 DEF InPlace, ImporterRow, InsertConversation
  <2>3. ASSUME NEW d \in Conversation, d # c
        PROVE  /\ imported'[d] <= 1
               /\ imported'[d] >= 1 => d \in noted' \cup unnoted'
    <3>1. ASSUME NEW v \in Importers, importer[v].pc = "note"
          PROVE  FALSE
      BY <1>0, <3>1 DEF ImportInv, Alone, Working, InsertConversation
    <3> QED  BY <1>3, <2>3, <3>1 DEF ImportInv, Alone, InsertConversation
  <2> QED  BY <2>1, <2>2, <2>3
<1>11. Onward'
  BY <1>0, <1>1, OnwardMoves DEF ImporterRow, InsertConversation
<1> QED  BY <1>4, <1>9, <1>10, <1>11 DEF ImportInv

LEMMA NextConversationKeeps ==
  ASSUME ImportInv, NEW w \in Importers, NextConversation(w)
  PROVE  ImportInv'
<1> DEFINE n == importer[w].at + 1
           pc == IF Checkpoint(n) THEN "progress" ELSE "deadline"
           r == [importer[w] EXCEPT !.at = n, !.pc = pc]
<1>0. ImportTypeOK /\ importer[w] \in ImporterRow /\ InPlace(w) /\ Working(w)
  BY DEF ImportInv, ImportTypeOK, Cover, Working, NextConversation
<1>1. PICK c \in Conversation : c = importer[w].at
  BY <1>0 DEF InPlace, NextConversation
<1>2. c \in Nat /\ n \in Cursors
  BY <1>1, ImportAssumption DEF Conversation, Cursors
<1>3. pc \in {"progress", "deadline"}
  OBVIOUS
<1>4. importer' = [importer EXCEPT ![w] = r]
  BY DEF NextConversation
<1>5. r \in ImporterRow /\ r.pc \in {"progress", "deadline"} /\ r.at = c + 1 /\ r.key = importer[w].key
  <2> HIDE DEF n, pc
  <2>1. r \in ImporterRow /\ r.pc = pc /\ r.at = n /\ r.key = importer[w].key
    BY <1>0, <1>2, <1>3 DEF ImporterRow, ImporterPc
  <2> QED  BY <1>1, <1>3, <2>1 DEF n
<1> HIDE DEF r, n, pc
<1>6. importer' \in [Importers -> ImporterRow] /\ Moved(w) /\ importer'[w] = r
  BY <1>0, <1>4, <1>5, RowMoves
<1>7. ImportTypeOK'
  BY <1>0, <1>6 DEF ImportTypeOK, NextConversation
<1>8. Grows
  BY <1>0 DEF Grows, ImportTypeOK, NextConversation
<1>9. \A d \in Conversation : Behind(d) => Behind(d)'
  BY <1>0, <1>7, <1>8, BehindStays
<1>10. importer[w].key \in Nat /\ importer[w].key <= c /\ \A d \in Conversation : d < c + 1 => Behind(d)
  <2>1. importer[w].key \in Nat /\ importer[w].key <= c /\ Behind(c) /\ \A d \in Conversation : d < c => Behind(d)
    BY <1>0, <1>1, ImportAssumption DEF InPlace, ImporterRow, Cursors, NextConversation
  <2>2. \A d \in Conversation : d < c + 1 => d < c \/ d = c
    BY <1>2, ImportAssumption DEF Conversation
  <2> QED  BY <2>1, <2>2
<1>11. InPlace(w)'
  <2>1. importer[w].key < c + 1 /\ importer[w].key <= c + 1
    BY <1>2, <1>10
  <2> QED  BY <1>0, <1>5, <1>6, <1>9, <1>10, <2>1 DEF InPlace, NextConversation
<1>12. Cover'
  BY <1>0, <1>6, <1>7, <1>8, <1>11, CoverMoves DEF NextConversation
<1>13. Alone'
  BY <1>0, <1>6, <1>8, AloneMoves DEF NextConversation
<1>14. Onward'
  BY <1>0, <1>5, <1>6, OnwardMoves DEF NextConversation
<1> QED  BY <1>7, <1>12, <1>13, <1>14 DEF ImportInv

LEMMA CheckDeadlineKeeps ==
  ASSUME ImportInv, NEW w \in Importers, CheckDeadline(w)
  PROVE  ImportInv'
<1>0. ImportTypeOK /\ importer[w] \in ImporterRow /\ InPlace(w) /\ Working(w)
  BY DEF ImportInv, ImportTypeOK, Cover, Working, CheckDeadline
<1>1. PICK pc \in {"loop", "save"} : GotoI(w, pc)
  BY DEF CheckDeadline
<1>2. importer' \in [Importers -> ImporterRow] /\ Moved(w) /\ importer'[w] = [importer[w] EXCEPT !.pc = pc]
  BY <1>0, <1>1, GotoMoves DEF ImporterPc
<1>3. ImportTypeOK'
  BY <1>0, <1>2 DEF ImportTypeOK, CheckDeadline
<1>4. Grows
  BY <1>0 DEF Grows, ImportTypeOK, CheckDeadline
<1>5. \A c \in Conversation : Behind(c) => Behind(c)'
  BY <1>0, <1>3, <1>4, BehindStays
<1>6. InPlace(w)'
  BY <1>0, <1>2, <1>5 DEF InPlace, ImporterRow, CheckDeadline
<1>7. Cover'
  BY <1>0, <1>2, <1>3, <1>4, <1>6, CoverMoves DEF CheckDeadline
<1>8. Alone'
  BY <1>0, <1>2, <1>4, AloneMoves DEF CheckDeadline
<1>9. Onward'
  BY <1>0, <1>2, OnwardMoves DEF ImporterRow, CheckDeadline
<1> QED  BY <1>3, <1>7, <1>8, <1>9 DEF ImportInv

\* A worker that has left the import leaves somebody who carries it on.
LEMMA OnwardEnds ==
  ASSUME ImportInv, NEW w \in Importers, Moved(w), Working(w), importer'[w].pc = "idle",
         UNCHANGED <<imp, starter, contested, unqueued, stale>>,
         \A k \in Cursors \ {importer[w].key} : job'[k] = job[k],
         \/ importer[w].pc = "complete"
         \/ job'[importer[w].key].state \in {"pending", "dead"}
         \/ contested
  PROVE  Onward'
<1>1. importer[w].key \in Cursors
  BY DEF ImportInv, ImportTypeOK, ImporterRow
<1>2. \A v \in Importers : Working(v)' => contested'
  BY DEF Moved, Working, ImportInv, Alone
<1>3. ImportIsCarried'
  <2> SUFFICES ASSUME imp.status \in {"queued", "running"}, ~contested, ~stale, ~unqueued
               PROVE  \/ \E k \in Cursors : Outstanding(k)'
                      \/ \E k \in Cursors : job'[k].state = "dead"
    BY DEF ImportIsCarried
  <2>1. CASE importer[w].pc = "complete"
    BY <2>1 DEF ImportInv, Onward, Outstanding
  <2>2. CASE job'[importer[w].key].state \in {"pending", "dead"}
    BY <1>1, <2>2 DEF Outstanding
  <2> QED  BY <2>1, <2>2
<1> QED  BY <1>2, <1>3 DEF Onward, Working

LEMMA EnqueueRestKeeps ==
  ASSUME ImportInv, NEW w \in Importers, EnqueueRest(w)
  PROVE  ImportInv'
<1>0. ImportTypeOK /\ importer[w] \in ImporterRow /\ InPlace(w) /\ Working(w)
  BY DEF ImportInv, ImportTypeOK, Cover, Working, EnqueueRest
<1>1. importer' \in [Importers -> ImporterRow] /\ Moved(w) /\ importer'[w] = [importer[w] EXCEPT !.pc = "complete"]
  BY <1>0, GotoMoves DEF ImporterPc, EnqueueRest
<1>2. PICK n \in Cursors : n = importer[w].at
  BY <1>0 DEF ImporterRow
<1>3. /\ job' \in JobRows /\ job'[n].state \in {"pending", "leased"}
      /\ \A k \in Cursors \ {n} : job'[k] = job[k]
  BY <1>0, <1>2, EnqueuedMoves DEF EnqueueRest
<1>4. importer[w].key \in Cursors /\ importer[w].key # n /\ importer'[w].key = importer[w].key
  BY <1>0, <1>1, <1>2, ImportAssumption DEF InPlace, ImporterRow, Cursors, EnqueueRest
<1>5. ImportTypeOK'
  BY <1>0, <1>1, <1>3 DEF ImportTypeOK, EnqueueRest
<1>6. Grows
  BY <1>0 DEF Grows, ImportTypeOK, EnqueueRest
<1>7. \A c \in Conversation : Behind(c) => Behind(c)'
  BY <1>0, <1>5, <1>6, BehindStays
<1>8. InPlace(w)'
  BY <1>0, <1>1, <1>7 DEF InPlace, ImporterRow, EnqueueRest
<1>9. Cover'
  BY <1>0, <1>1, <1>2, <1>3, <1>5, <1>6, <1>8, CoverMoves DEF Placed, EnqueueRest
<1>10. Alone'
  BY <1>0, <1>1, <1>6, AloneMoves DEF EnqueueRest
<1>11. Onward'
  <2>1. \A v \in Importers \ {w} : Working(v)' => contested'
    BY <1>0, <1>1 DEF Moved, Working, ImportInv, Alone, EnqueueRest
  <2>2. job'[importer'[w].key].state \in {"pending", "leased", "dead"} \/ contested'
    BY <1>0, <1>3, <1>4 DEF ImportInv, Onward, EnqueueRest
  <2>3. n # importer'[w].key /\ Outstanding(n)'
    BY <1>3, <1>4 DEF Outstanding
  <2> QED  BY <1>2, <2>1, <2>2, <2>3 DEF Onward, ImportIsCarried, Working
<1> QED  BY <1>5, <1>9, <1>10, <1>11 DEF ImportInv

LEMMA EndImportJobKeeps ==
  ASSUME ImportInv, NEW w \in Importers, EndImportJob(w)
  PROVE  ImportInv'
<1> DEFINE state == IF importer[w].pc = "complete" THEN "done" ELSE Again(importer[w].key)
<1>0. ImportTypeOK /\ importer[w] \in ImporterRow /\ InPlace(w) /\ Working(w)
  BY DEF ImportInv, ImportTypeOK, Cover, Working, EndImportJob
<1>1. PICK k \in Cursors : k = importer[w].key
  BY <1>0 DEF ImporterRow
<1>2. state \in JobStates /\ (importer[w].pc # "complete" => state \in {"pending", "dead"})
  BY AgainIs DEF JobStates
<1>3. job' = Ended(k, state)
  BY <1>1 DEF EndImportJob
<1> HIDE DEF state
<1>4. /\ job' \in JobRows /\ job'[k].state = IF job[k].state = "leased" THEN state ELSE job[k].state
      /\ \A n \in Cursors \ {k} : job'[n] = job[n]
  BY <1>0, <1>2, <1>3, EndedMoves
<1>5. importer' \in [Importers -> ImporterRow] /\ Moved(w) /\ importer'[w] = IdleImporter
  <2>1. IdleImporter \in ImporterRow
    BY ImportAssumption DEF IdleImporter, ImporterRow, ImporterPc, Cursors
  <2> QED  BY <1>0, <2>1, RowMoves DEF EndImportJob
<1>6. ImportTypeOK'
  BY <1>0, <1>4, <1>5 DEF ImportTypeOK, EndImportJob
<1>7. Grows
  BY <1>0 DEF Grows, ImportTypeOK, EndImportJob
<1>8. importer'[w].pc = "idle" /\ InPlace(w)'
  BY <1>5 DEF InPlace, IdleImporter
<1>9. \A n \in Cursors : job'[n].state # "none" => job[n].state # "none"
  BY <1>4
<1>10. Cover'
  BY <1>0, <1>5, <1>6, <1>7, <1>8, <1>9, CoverMoves DEF EndImportJob
<1>11. Alone'
  BY <1>0, <1>5, <1>7, AloneMoves DEF EndImportJob
<1>12. importer[w].pc = "complete" \/ job'[k].state \in {"pending", "dead"} \/ contested
  <2>1. contested \/ job[k].state \in {"pending", "leased", "dead"}
    BY <1>0, <1>1 DEF ImportInv, Onward
  <2> QED  BY <1>2, <1>4, <2>1
<1>13. Onward'
  BY <1>0, <1>1, <1>4, <1>5, <1>8, <1>12, OnwardEnds DEF EndImportJob
<1> QED  BY <1>6, <1>10, <1>11, <1>13 DEF ImportInv

LEMMA ImporterDiesKeeps ==
  ASSUME ImportInv, NEW w \in Importers, ImporterDies(w)
  PROVE  ImportInv'
<1>0. ImportTypeOK /\ importer[w] \in ImporterRow /\ InPlace(w) /\ Working(w)
  BY DEF ImportInv, ImportTypeOK, Cover, ImporterDies
<1>1. PICK k \in Cursors : k = importer[w].key
  BY <1>0 DEF ImporterRow
<1>2. Again(k) \in JobStates /\ Again(k) \in {"pending", "dead"}
  BY AgainIs DEF JobStates
<1>3. job' = Ended(k, Again(k))
  BY <1>1 DEF ImporterDies
<1>4. /\ job' \in JobRows /\ job'[k].state = IF job[k].state = "leased" THEN Again(k) ELSE job[k].state
      /\ \A n \in Cursors \ {k} : job'[n] = job[n]
  BY <1>0, <1>2, <1>3, EndedMoves
<1>5. importer' \in [Importers -> ImporterRow] /\ Moved(w) /\ importer'[w] = IdleImporter
  <2>1. IdleImporter \in ImporterRow
    BY ImportAssumption DEF IdleImporter, ImporterRow, ImporterPc, Cursors
  <2> QED  BY <1>0, <2>1, RowMoves DEF ImporterDies
<1>6. /\ unnoted' \in SUBSET Conversation /\ unnoted \subseteq unnoted'
      /\ importer[w].pc = "note" => importer[w].at \in unnoted'
  BY <1>0 DEF InPlace, ImportTypeOK, ImporterDies
<1>7. ImportTypeOK'
  BY <1>0, <1>4, <1>5, <1>6, UpsetCounts DEF ImportTypeOK, ImporterDies
<1>8. Grows
  BY <1>0, <1>6 DEF Grows, ImportTypeOK, ImporterDies
<1>9. importer'[w].pc = "idle" /\ InPlace(w)'
  BY <1>5 DEF InPlace, IdleImporter
<1>10. \A n \in Cursors : job'[n].state # "none" => job[n].state # "none"
  BY <1>2, <1>4
<1>11. Cover'
  BY <1>0, <1>5, <1>7, <1>8, <1>9, <1>10, CoverMoves DEF ImporterDies
<1>12. Alone'
  BY <1>0, <1>5, <1>6, <1>8, AloneMoves DEF ImporterDies
<1>13. job'[k].state \in {"pending", "dead"} \/ contested
  <2>1. contested \/ job[k].state \in {"pending", "leased", "dead"}
    BY <1>0, <1>1 DEF ImportInv, Onward
  <2> QED  BY <1>2, <1>4, <2>1
<1>14. Onward'
  BY <1>0, <1>1, <1>4, <1>5, <1>9, <1>13, OnwardEnds DEF ImporterDies
<1> QED  BY <1>7, <1>11, <1>12, <1>14 DEF ImportInv

LEMMA ImportLapsesKeeps ==
  ASSUME ImportInv, NEW w \in Importers, ImportLapses(w)
  PROVE  ImportInv'
<1>0. ImportTypeOK /\ importer[w] \in ImporterRow /\ InPlace(w) /\ Working(w)
  BY DEF ImportInv, ImportTypeOK, Cover, ImportLapses
<1>1. PICK k \in Cursors : k = importer[w].key
  BY <1>0 DEF ImporterRow
<1>2. PICK state \in {"pending", "dead"} : state = Again(k)
  BY AgainIs
<1>3. state \in JobStates /\ job' = [job EXCEPT ![k].state = state]
  BY <1>1, <1>2 DEF ImportLapses, JobStates
<1>4. /\ job' \in JobRows /\ job'[k].state = state
      /\ \A n \in Cursors \ {k} : job'[n] = job[n]
  <2>1. /\ [job EXCEPT ![k].state = state] \in JobRows
        /\ [job EXCEPT ![k].state = state][k].state = state
        /\ \A n \in Cursors \ {k} : [job EXCEPT ![k].state = state][n] = job[n]
    BY <1>0, <1>3, JobMoves
  <2> QED  BY <1>3, <2>1
<1>5. ImportTypeOK'
  BY <1>0, <1>4, UpsetCounts DEF ImportTypeOK, ImportLapses
<1>6. Grows /\ Moved(w)
  BY <1>0 DEF Grows, Moved, ImportTypeOK, ImportLapses
<1>7. InPlace(w)'
  BY <1>0 DEF InPlace, Behind, ImportLapses
<1>8. \A n \in Cursors : job'[n].state # "none" => job[n].state # "none"
  BY <1>1, <1>4 DEF ImportLapses
<1>9. Cover'
  BY <1>0, <1>5, <1>6, <1>7, <1>8, CoverMoves DEF ImportLapses
<1>10. Alone'
  BY <1>0 DEF ImportInv, Alone, Working, ImportLapses
<1>11. Onward'
  <2>1. \A v \in Importers \ {w} : Working(v)' => contested'
    BY <1>0 DEF Working, ImportInv, Alone, ImportLapses
  <2>2. job'[importer'[w].key].state \in {"pending", "leased", "dead"}
    BY <1>1, <1>2, <1>4 DEF ImportLapses
  <2>3. importer'[w].pc = "complete" =>
          imp'.status = "completed" \/ contested' \/ stale' \/ \E n \in Cursors : n # importer'[w].key /\ Outstanding(n)'
    BY <1>0, <1>1, <1>4 DEF ImportInv, Onward, Outstanding, ImportLapses
  <2>4. Outstanding(k)' \/ job'[k].state = "dead"
    BY <1>2, <1>4 DEF Outstanding
  <2> QED  BY <1>1, <2>1, <2>2, <2>3, <2>4 DEF Onward, ImportIsCarried, Working
<1> QED  BY <1>5, <1>9, <1>10, <1>11 DEF ImportInv

LEMMA ClaimImportKeeps ==
  ASSUME ImportInv, NEW w \in Importers, NEW k \in Cursors, ClaimImport(w, k)
  PROVE  ImportInv'
<1>0. ImportTypeOK
  BY DEF ImportInv
<1>1. /\ job' \in JobRows /\ job'[k].state = "leased"
      /\ \A n \in Cursors \ {k} : job'[n] = job[n]
      /\ importer' \in [Importers -> ImporterRow] /\ Moved(w)
      /\ importer'[w] = [pc |-> "get", key |-> k, at |-> 0]
  BY <1>0, ClaimMoves
<1>2. ImportTypeOK'
  BY <1>0, <1>1 DEF ImportTypeOK, ClaimImport
<1>3. Grows
  BY <1>0 DEF Grows, ImportTypeOK, ClaimImport
<1>4. \A c \in Conversation : Behind(c) => Behind(c)'
  BY <1>0, <1>2, <1>3, BehindStays
<1>5. InPlace(w)'
  BY <1>1, <1>4 DEF ImportInv, Cover, InPlace, ClaimImport
<1>6. \A n \in Cursors : job'[n].state # "none" => job[n].state # "none"
  BY <1>1 DEF ClaimImport
<1>7. Cover'
  BY <1>0, <1>1, <1>2, <1>3, <1>5, <1>6, CoverMoves DEF ClaimImport
<1>8. \A v \in Importers \ {w} : Working(v)' => contested'
  BY <1>1 DEF Moved, Working, ClaimImport
<1>9. Alone'
  <2> SUFFICES ASSUME ~contested'
               PROVE  /\ \A v, u \in Importers : Working(v)' /\ Working(u)' => v = u
                      /\ \A c \in Conversation : imported[c] <= 1 /\ (imported[c] >= 1 => c \in noted \cup unnoted)
    BY DEF Alone, ClaimImport
  <2>1. ~contested /\ \A v \in Importers : importer[v].pc # "note"
    BY DEF Working, ClaimImport
  <2> QED  BY <1>8, <2>1 DEF ImportInv, Alone
<1>10. Onward'
  <2>1. Outstanding(k)' /\ importer'[w].key = k /\ importer'[w].pc = "get"
    BY <1>1 DEF Outstanding
  <2> QED  BY <1>1, <1>8, <2>1 DEF Onward, ImportIsCarried, Working
<1> QED  BY <1>2, <1>7, <1>9, <1>10 DEF ImportInv

\* A request to start the import touches neither importers nor conversations.
LEMMA StarterLeaves ==
  ASSUME ImportInv, ImportTypeOK',
         UNCHANGED <<importer, imported, noted, dropped, unnoted, contested>>,
         imp'.cursor = imp.cursor, imp'.status = "completed" => imp.status = "completed",
         \A k \in Cursors : job'[k].state # "none" => job[k].state # "none" \/ k = 0
  PROVE  Cover' /\ Alone'
<1>1. Grows
  BY DEF Grows, ImportInv, ImportTypeOK
<1>2. \A c \in Conversation : Behind(c) => Behind(c)'
  BY <1>1, BehindStays DEF ImportInv
<1>3. \A w \in Importers : InPlace(w)'
  BY <1>2 DEF ImportInv, Cover, InPlace
<1>4. \A k \in Cursors : job'[k].state # "none" => \A c \in Conversation : c < k => Behind(c)'
  BY <1>2, ImportAssumption DEF ImportInv, Cover, Conversation
<1>5. Cover'
  BY <1>2, <1>3, <1>4 DEF ImportInv, Cover
<1>6. Alone'
  BY DEF ImportInv, Alone, Working
<1> QED  BY <1>5, <1>6

LEMMA StarterKeeps ==
  ASSUME ImportInv, NEW u \in Starters, StarterStep(u)
  PROVE  ImportInv'
<1>0. ImportTypeOK /\ Cover /\ Alone /\ Onward /\ ImportIsCarried /\ 0 \in Cursors
  BY ImportAssumption DEF ImportInv, Onward, Cursors
<1>1. CASE StartImport(u)
  <2>1. ImportTypeOK'
    BY <1>0, <1>1 DEF StartImport, ImportTypeOK
  <2>2. Cover' /\ Alone'
    BY <1>1, <2>1, StarterLeaves DEF StartImport
  <2>3. \A v \in Starters : starter[v] = "enqueue" => starter'[v] = "enqueue"
    BY <1>0, <1>1 DEF StartImport, ImportTypeOK
  <2>4. Onward'
    BY <1>0, <1>1, <2>3 DEF StartImport, Onward, Working, Outstanding, ImportIsCarried
  <2> QED  BY <2>1, <2>2, <2>4 DEF ImportInv
<1>2. CASE QueueImport(u)
  <2>1. ImportTypeOK'
    BY <1>0, <1>2 DEF QueueImport, ImportTypeOK
  <2>2. imp'.cursor = imp.cursor /\ imp'.status = "queued" /\ starter'[u] = "enqueue"
    BY <1>0, <1>2 DEF QueueImport, ImportTypeOK
  <2>3. Cover' /\ Alone'
    BY <1>2, <2>1, <2>2, StarterLeaves DEF QueueImport
  <2>4. ImportIsCarried'
    BY <2>2 DEF ImportIsCarried
  <2>5. imp.status = "completed" => stale'
    BY <1>2 DEF QueueImport
  <2>6. Onward'
    BY <1>0, <1>2, <2>4, <2>5 DEF QueueImport, Onward, Working, Outstanding
  <2> QED  BY <2>1, <2>3, <2>6 DEF ImportInv
<1>3. CASE EnqueueImport(u)
  <2>1. /\ job' \in JobRows /\ job'[0].state \in {"pending", "leased"}
        /\ Outstanding(0) => job' = job
        /\ \A n \in Cursors \ {0} : job'[n] = job[n]
    BY <1>0, <1>3, EnqueuedMoves DEF EnqueueImport
  <2>2. ImportTypeOK'
    BY <1>0, <1>3, <2>1 DEF EnqueueImport, ImportTypeOK
  <2>3. Cover' /\ Alone'
    BY <1>3, <2>1, <2>2, StarterLeaves DEF EnqueueImport
  <2>4. \A n \in Cursors : Outstanding(n) => Outstanding(n)'
    BY <2>1 DEF Outstanding
  <2>5. Outstanding(0)'
    BY <2>1 DEF Outstanding
  <2>6. ImportIsCarried'
    BY <1>0, <2>5 DEF ImportIsCarried
  <2>7. \A w \in Importers : importer[w] \in ImporterRow /\ importer[w].key \in Cursors
    BY <1>0 DEF ImportTypeOK, ImporterRow
  <2>8. \A w \in Importers : Working(w)' =>
          job'[importer'[w].key].state \in {"pending", "leased", "dead"} \/ contested'
    BY <1>0, <1>3, <2>1, <2>7 DEF EnqueueImport, Onward, Working
  <2>9. \A w \in Importers : importer'[w].pc = "complete" =>
          \/ imp'.status = "completed"
          \/ \E k \in Cursors : k # importer'[w].key /\ Outstanding(k)'
          \/ contested' \/ stale'
    BY <1>0, <1>3, <2>4 DEF EnqueueImport, Onward
  <2> QED  BY <2>2, <2>3, <2>6, <2>8, <2>9 DEF ImportInv, Onward, Outstanding
<1>4. CASE StartFails(u)
  <2>1. ImportTypeOK'
    BY <1>0, <1>4, UpsetCounts DEF StartFails, ImportTypeOK
  <2>2. Cover' /\ Alone'
    BY <1>4, <2>1, StarterLeaves DEF StartFails
  <2>3. (\E v \in Starters : starter[v] = "enqueue") => (\E v \in Starters : starter'[v] = "enqueue") \/ unqueued'
    BY <1>0, <1>4 DEF StartFails, ImportTypeOK
  <2>4. ImportIsCarried'
    BY <1>0, <1>4, <2>3 DEF StartFails, Outstanding, ImportIsCarried
  <2>5. Onward'
    BY <1>0, <1>4, <2>4 DEF StartFails, Onward, Working, Outstanding
  <2> QED  BY <2>1, <2>2, <2>5 DEF ImportInv
<1> QED  BY <1>1, <1>2, <1>3, <1>4 DEF StarterStep

LEMMA ImportStarts ==
  ImportInit => ImportInv
<1> SUFFICES ASSUME ImportInit
             PROVE  ImportInv
  OBVIOUS
<1>0. 0 \in Cursors /\ IdleImporter \in ImporterRow /\ IdleImporter.pc = "idle"
  BY ImportAssumption DEF Cursors, IdleImporter, ImporterRow, ImporterPc
<1>1. /\ imp.status = "awaiting_upload" /\ imp.cursor = 0
      /\ \A k \in Cursors : job[k].state = "none"
      /\ \A w \in Importers : importer[w].pc = "idle"
      /\ \A c \in Conversation : imported[c] = 0
  BY <1>0 DEF ImportInit
<1>2. ImportTypeOK
  BY <1>0 DEF ImportInit, ImportTypeOK, JobRows, JobStates
<1>3. \A c \in Conversation : ~(c < 0)
  BY ImportAssumption DEF Conversation
<1>4. Cover
  BY <1>1, <1>3 DEF Cover, InPlace
<1>5. Alone
  BY <1>1 DEF Alone, Working
<1>6. Onward
  BY <1>1 DEF Onward, Working, ImportIsCarried
<1> QED  BY <1>2, <1>4, <1>5, <1>6 DEF ImportInv

LEMMA ImportStep ==
  ASSUME ImportInv, [ImportNext]_importVars
  PROVE  ImportInv'
<1>1. ASSUME NEW w \in Importers, ImporterStep(w)
      PROVE  ImportInv'
  BY <1>1, GetImportKeeps, MarkImportRunningKeeps, PatchTotalKeeps, FailImportKeeps, FindSourceKeeps,
     InsertConversationKeeps, NoteSourceKeeps, ConversationFailsKeeps, NextConversationKeeps,
     PatchProgressKeeps, CheckDeadlineKeeps, RequeueImportKeeps, EnqueueRestKeeps, FinishImportKeeps,
     ImportCallFailsKeeps, EndImportJobKeeps, ImportLapsesKeeps, ImporterDiesKeeps, ClaimImportKeeps
     DEF ImporterStep
<1>2. CASE UNCHANGED importVars
  BY <1>2 DEF importVars, ImportInv, ImportTypeOK, Cover, InPlace, Behind, Alone, Onward, Working,
              Outstanding, ImportIsCarried
<1> QED  BY <1>1, <1>2, StarterKeeps DEF ImportNext

\* What ImportIsComplete says: an import that says completed has every
\* conversation, once and with its note (HandleJob, importConversation), however
\* often it was interrupted and from whatever cursor it was taken up again.
THEOREM CompletedImportIsWhole == ImportSpec => []ImportIsComplete
<1>1. ImportInv => ImportIsComplete
  <2> SUFFICES ASSUME ImportInv, imp.status = "completed", NEW c \in Conversation
               PROVE  /\ c \in dropped \/ imported[c] >= 1
                      /\ c \in dropped \cup unnoted \/ c \in noted \/ contested
                      /\ contested \/ imported[c] <= 1
    BY DEF ImportIsComplete
  <2> QED  BY DEF ImportInv, Cover, Behind, Alone
<1> QED  BY <1>1, ImportStarts, ImportStep, PTL DEF ImportSpec

\* What ImportIsCarried says: a queued or running import, which Handler.Start
\* would refuse, has a job or a request about to enqueue one.
THEOREM OpenImportIsCarried == ImportSpec => []ImportIsCarried
<1>1. ImportInv => ImportIsCarried
  BY DEF ImportInv, Onward
<1> QED  BY <1>1, ImportStarts, ImportStep, PTL DEF ImportSpec

-----------------------------------------------------------------------------
(* The connection to Granola.                                               *)

TextsOrNone == Texts \cup {NoText}
SyncPc == {"idle", "readLease", "takeLease", "readRelease", "release"} \cup AtWork
RequestPc == {"idle", "consume", "connect", "enable", "disable", "disconnect", "live"} \cup Purging
Locals == [pc : SyncPc \cup RequestPc, full : BOOLEAN, row : Row, text : TextsOrNone,
           note : Nat, source : Nat, result : {"ok", "partial", "error"}]

ConnTypeOK ==
  /\ conn \in Row
  /\ lease \in [owner : Syncs \cup {NoSync}, lapsed : BOOLEAN]
  /\ item \in [hash : TextsOrNone, note : Nat, maps : SUBSET Nat]
  /\ notes \in Seq(TextsOrNone) /\ sources \in Seq(TextsOrNone)
  /\ go \in [Procs -> Locals]
  /\ \A p \in Syncs : go[p].pc \in SyncPc
  /\ \A p \in Requests : go[p].pc \in RequestPc
  /\ {raced, broken, stuck, cut, midway} \subseteq BOOLEAN

\* After a disconnect nobody has the credentials, nor will anybody read them.
Parted ==
  /\ cut /\ ~midway =>
       /\ ~conn.token
       /\ conn.status \notin {"connected", "partial", "error"}
       /\ \A p \in Procs : ~HasToken(p)
  /\ \A p \in Requests : go[p].pc = "live" => go[p].row.token

\* The lease keeps the syncs apart, as long as it could tell.
Apart ==
  ~raced =>
    /\ \A p \in Syncs : go[p].pc \in AtWork => lease.owner = p
    /\ \A p \in Syncs : go[p].pc = "takeLease" => lease.owner = NoSync \/ lease.lapsed

\* The tables agree with the item.
Agree ==
  /\ Live(notes) = {item.note} \ {0}
  /\ Live(sources) = item.maps
  /\ item # NoItem => /\ notes[item.note] = item.hash
                      /\ \E i \in item.maps : sources[i] = item.hash /\ item.maps = {i}

\* Between imports: the item stands for what is there, and each purge under way
\* has it still to delete; or there is no item, and what is left is some purge's.
Settled ==
  /\ item # NoItem => /\ Agree
                      /\ \A p \in Requests : go[p].pc \in Purging =>
                           go[p].pc = "purgeItems" /\ go[p].note = item.note
  /\ item = NoItem =>
       /\ \A n \in Live(notes) : \E p \in Requests : go[p].pc \in {"purgeItems", "purgeNotes"} /\ go[p].note = n
       /\ Live(sources) # {} => \E p \in Requests : go[p].pc \in Purging

\* How far the import of a sync has come.
Halfway(p) ==
  LET r == go[p] IN
  /\ r.text \in Texts
  /\ r.pc = "clear" => item # NoItem /\ r.note = item.note /\ Agree
  /\ r.pc = "note" => Live(notes) = {r.note} \ {0}
  /\ r.pc \in {"source", "item", "map"} => Live(notes) = {r.note} /\ notes[r.note] = r.text
  /\ r.pc \in {"note", "source"} => Live(sources) = {}
  /\ r.pc \in {"item", "map"} => Live(sources) = {r.source} /\ sources[r.source] = r.text
  /\ r.pc = "map" => item.hash = r.text /\ item.note = r.note

Tracked ==
  ~raced /\ ~broken =>
    /\ \A p \in Syncs, q \in Requests : ~(go[p].pc \in Importing /\ go[q].pc \in Purging)
    /\ (\A p \in Syncs : go[p].pc \notin Importing) => Settled
    /\ \A p \in Syncs : go[p].pc \in Importing => Halfway(p)

ConnInv == ConnTypeOK /\ SyncingIsAtWork /\ Parted /\ Apart /\ Tracked

LEMMA SyncsOrRequests ==
  /\ \A p \in Syncs : p \in Procs /\ p \notin Requests
  /\ \A p \in Requests : p \in Procs /\ p \notin Syncs
  BY ConnectorsNulls DEF Procs

\* The goroutine of p alone has moved: it is now as r.
Moves(p, r) ==
  /\ go' \in [Procs -> Locals]
  /\ go'[p] = r
  /\ \A q \in Procs \ {p} : go'[q] = go[q]

LEMMA GoMoves ==
  ASSUME ConnTypeOK, NEW p \in Procs, NEW r \in Locals, go' = [go EXCEPT ![p] = r]
  PROVE  Moves(p, r)
  BY DEF ConnTypeOK, Moves

\* Types of what a step may do to the locals of a goroutine.
LEMMA LocalsMove ==
  ASSUME NEW l \in Locals, NEW pc \in SyncPc \cup RequestPc
  PROVE  /\ [l EXCEPT !.pc = pc] \in Locals
         /\ [l EXCEPT !.pc = pc].pc = pc
         /\ \A f \in {"full", "row", "text", "note", "source", "result"} : [l EXCEPT !.pc = pc][f] = l[f]
  BY DEF Locals

LEMMA IdleIs ==
  /\ Idle \in Locals /\ Idle.pc = "idle" /\ NoRow \in Row /\ NoItem.note = 0 /\ NoItem.maps = {} /\ NoItem.hash = NoText
  /\ NoItem \in [hash : TextsOrNone, note : Nat, maps : SUBSET Nat]
  BY DEF Idle, Locals, NoRow, Row, Initials, SyncPc, TextsOrNone, NoItem

LEMMA RowsMove ==
  ASSUME NEW row \in Row
  PROVE  /\ \A s \in {"disconnected", "connected", "syncing", "reauth_required", "error", "partial"} :
              [row EXCEPT !.status = s] \in Row
         /\ Kept(row) \in Row /\ ~Kept(row).token
  BY DEF Row, Kept, NoRow

\* The sequences of notes and of sources keep their type.
LEMMA RowsPatched ==
  ASSUME NEW rows \in Seq(TextsOrNone), NEW n \in Nat, NEW text \in TextsOrNone
  PROVE  /\ [rows EXCEPT ![n] = text] \in Seq(TextsOrNone)
         /\ Len([rows EXCEPT ![n] = text]) = Len(rows)
         /\ \A i \in 1 .. Len(rows) : [rows EXCEPT ![n] = text][i] = IF i = n THEN text ELSE rows[i]
<1>1. CASE n \in 1 .. Len(rows)
  BY <1>1, ExceptSeq
<1>2. CASE n \notin 1 .. Len(rows)
  <2>1. rows \in [1 .. Len(rows) -> TextsOrNone] /\ DOMAIN rows = 1 .. Len(rows)
    BY LenProperties
  <2>2. [rows EXCEPT ![n] = text] = rows
    BY <1>2, <2>1
  <2> QED  BY <1>2, <2>2
<1> QED  BY <1>1, <1>2

LEMMA RowsAppended ==
  ASSUME NEW rows \in Seq(TextsOrNone), NEW text \in TextsOrNone
  PROVE  /\ Append(rows, text) \in Seq(TextsOrNone)
         /\ DOMAIN Append(rows, text) = 1 .. Len(rows) + 1
         /\ DOMAIN rows = 1 .. Len(rows) /\ Len(rows) \in Nat
         /\ \A i \in 1 .. Len(rows) : Append(rows, text)[i] = rows[i]
         /\ Append(rows, text)[Len(rows) + 1] = text
  BY AppendProperties, LenProperties

LEMMA SourcesCleared ==
  ASSUME ConnTypeOK, NEW ids, Cleared(ids)
  PROVE  /\ sources' \in Seq(TextsOrNone)
         /\ DOMAIN sources' = DOMAIN sources
         /\ \A i \in DOMAIN sources : sources'[i] = IF i \in ids THEN NoText ELSE sources[i]
         /\ Live(sources)' = Live(sources) \ ids
<1>1. DOMAIN sources = 1 .. Len(sources) /\ Len(sources) \in Nat /\ \A i \in DOMAIN sources : sources[i] \in TextsOrNone
  BY LenProperties, ElementOfSeq DEF ConnTypeOK
<1>2. sources' \in [1 .. Len(sources) -> TextsOrNone]
  BY <1>1 DEF Cleared, TextsOrNone
<1>3. sources' \in Seq(TextsOrNone)
  BY <1>1, <1>2, SeqDef
<1> QED  BY <1>1, <1>3 DEF Cleared, Live

-----------------------------------------------------------------------------
(* What the steps have in common.                                           *)

LEMMA SyncingMoves ==
  ASSUME ConnInv, NEW p \in Procs, NEW r \in Locals, Moves(p, r),
         conn'.status = "syncing" =>
           \/ stuck'
           \/ p \in Syncs /\ r.pc \in AtWork
           \/ \E q \in Syncs \ {p} : go[q].pc \in AtWork
           \/ conn.status = "syncing" /\ (stuck => stuck') /\ (p \in Requests \/ go[p].pc \notin AtWork)
  PROVE  SyncingIsAtWork'
<1> SUFFICES ASSUME conn'.status = "syncing", ~stuck'
             PROVE  \E q \in Syncs : go'[q].pc \in AtWork
  BY DEF SyncingIsAtWork, NobodyAtWork
<1>1. CASE p \in Syncs /\ r.pc \in AtWork
  BY <1>1 DEF Moves
<1>2. CASE \E q \in Syncs \ {p} : go[q].pc \in AtWork
  BY <1>2, SyncsOrRequests DEF Moves
<1>3. CASE conn.status = "syncing" /\ (stuck => stuck') /\ (p \in Requests \/ go[p].pc \notin AtWork)
  BY <1>3, SyncsOrRequests DEF Moves, ConnInv, SyncingIsAtWork, NobodyAtWork
<1> QED  BY <1>1, <1>2, <1>3

LEMMA PartedMoves ==
  ASSUME ConnInv, NEW p \in Procs, NEW r \in Locals, Moves(p, r),
         UNCHANGED <<cut, midway>>,
         conn'.token => conn.token \/ HasToken(p),
         conn'.status \in {"connected", "partial", "error"} =>
           conn.status \in {"connected", "partial", "error"} \/ HasToken(p),
         HasToken(p)' => HasToken(p) \/ conn.token,
         p \in Requests /\ r.pc = "live" => r.row.token
  PROVE  Parted'
<1>1. \A q \in Procs \ {p} : HasToken(q)' = HasToken(q)
  BY DEF Moves, HasToken
<1>2. \A q \in Requests : go'[q].pc = "live" => go'[q].row.token
  BY SyncsOrRequests DEF Moves, ConnInv, Parted
<1> QED  BY <1>1, <1>2 DEF ConnInv, Parted

LEMMA ApartMoves ==
  ASSUME ConnInv, NEW p \in Procs, NEW r \in Locals, Moves(p, r),
         UNCHANGED lease, raced => raced',
         p \in Syncs /\ r.pc \in AtWork => go[p].pc \in AtWork,
         p \in Syncs /\ r.pc = "takeLease" => lease.owner = NoSync \/ lease.lapsed
  PROVE  Apart'
<1>1. \A q \in Syncs : q \in Procs
  BY SyncsOrRequests
<1> QED  BY <1>1 DEF Moves, ConnInv, Apart

\* A goroutine that is neither at an import nor at a purge.
LEMMA TrackedRests ==
  ASSUME ConnInv, UNCHANGED <<item, notes, sources>>, raced => raced', broken => broken',
         \A q \in Procs : \/ go'[q] = go[q]
                          \/ go[q].pc \notin Importing \cup Purging /\ go'[q].pc \notin Importing \cup Purging
  PROVE  Tracked'
<1> SUFFICES ASSUME ~raced, ~broken
             PROVE  /\ \A p \in Syncs, q \in Requests : ~(go'[p].pc \in Importing /\ go'[q].pc \in Purging)
                    /\ (\A p \in Syncs : go'[p].pc \notin Importing) => Settled'
                    /\ \A p \in Syncs : go'[p].pc \in Importing => Halfway(p)'
  BY DEF Tracked
<1>1. \A p \in Syncs : go'[p].pc \in Importing <=> go[p].pc \in Importing
  BY SyncsOrRequests
<1>2. \A q \in Procs : go'[q].pc \in Purging \/ go[q].pc \in Purging => go'[q] = go[q]
  OBVIOUS
<1>3. \A p \in Syncs : go'[p].pc \in Importing => Halfway(p)'
  BY <1>1, SyncsOrRequests DEF ConnInv, Tracked, Halfway, Agree, Live
<1>4. Settled => Settled'
  <2>1. UNCHANGED <<Live(notes), Live(sources), Agree>>
    BY DEF Live, Agree
  <2>2. \A q \in Requests : go'[q].pc \in Purging => go'[q] = go[q] /\ go[q].pc \in Purging
    BY <1>2, SyncsOrRequests
  <2>3. \A q \in Requests : go[q].pc \in Purging => go'[q] = go[q]
    BY <1>2, SyncsOrRequests
  <2>4. item # NoItem /\ Settled => Settled'
    BY <2>1, <2>2 DEF Settled
  <2>5. item = NoItem /\ Settled => Settled'
    BY <2>1, <2>3 DEF Settled, Purging
  <2> QED  BY <2>4, <2>5
<1>5. \A p \in Syncs, q \in Requests : ~(go'[p].pc \in Importing /\ go'[q].pc \in Purging)
  BY <1>1, <1>2, SyncsOrRequests DEF ConnInv, Tracked
<1> QED  BY <1>1, <1>3, <1>4, <1>5 DEF ConnInv, Tracked

LEMMA TrackedLost ==
  ASSUME broken' \/ raced' PROVE Tracked'
  BY DEF Tracked

\* What a sync writes at its end is a row, with the token that was there.
LEMMA OutcomeIs ==
  ASSUME ConnTypeOK, NEW p \in Procs
  PROVE  Outcome(p) \in Row /\ Outcome(p).status \in {"partial", "error", "connected"}
<1> DEFINE with(status, initial) == [conn EXCEPT !.status = status, !.initial = initial]
<1>1. conn \in Row /\ conn.initial \in Initials
  BY DEF ConnTypeOK, Row
<1>2. \A status \in {"partial", "error", "connected"}, initial \in Initials :
        with(status, initial) \in Row /\ with(status, initial).status = status
  BY <1>1 DEF Row
<1>3. \E status \in {"partial", "error", "connected"}, initial \in Initials : Outcome(p) = with(status, initial)
  <2> DEFINE first == go[p].full \/ go[p].row.initial = "running"
  <2>0. {"partial", "failed", "completed"} \subseteq Initials
    BY DEF Initials
  <2>1. CASE go[p].result = "partial"
    <3>1. Outcome(p) = with("partial", IF first THEN "partial" ELSE conn.initial)
      BY <2>1 DEF Outcome
    <3> QED  BY <1>1, <2>0, <3>1
  <2>2. CASE go[p].result = "error"
    <3>1. Outcome(p) = with("error", IF first THEN "failed" ELSE conn.initial)
      BY <2>2 DEF Outcome
    <3> QED  BY <1>1, <2>0, <3>1
  <2>3. CASE go[p].result \notin {"partial", "error"}
    <3>1. Outcome(p) = with("connected", IF first \/ go[p].row.initial = "partial" THEN "completed" ELSE conn.initial)
      BY <2>3 DEF Outcome
    <3> QED  BY <1>1, <2>0, <3>1
  <2> QED  BY <2>1, <2>2, <2>3
<1> HIDE DEF with
<1> QED  BY <1>2, <1>3

-----------------------------------------------------------------------------
(* Action by action: the syncs.                                             *)

LEMMA ScheduleSyncKeeps ==
  ASSUME ConnInv, NEW p \in Syncs, ScheduleSync(p)
  PROVE  ConnInv'
<1>0. ConnTypeOK /\ p \in Procs /\ p \notin Requests /\ go[p] \in Locals /\ conn \in Row /\ go[p].row \in Row
  BY SyncsOrRequests DEF ConnInv, ConnTypeOK, Locals
<1>1. PICK r \in Locals : go' = [go EXCEPT ![p] = r] /\ r.pc = "readLease" /\ go[p].pc = "idle"
  <2> DEFINE r == [Idle EXCEPT !.pc = "readLease", !.full = FALSE]
  <2>1. r \in Locals
    BY <1>0, IdleIs, RowsMove DEF ScheduleSync, Locals, SyncPc, RequestPc, AtWork, Importing, Purging
  <2>2. go' = [go EXCEPT ![p] = r]
    BY <1>0 DEF ScheduleSync, Goto, Ends, Release, Started, StartsFrom, Imported
  <2>3. r.pc = "readLease" /\ go[p].pc = "idle"
    BY <1>0, RowsMove DEF ScheduleSync, Locals, Idle, StartsFrom
  <2> QED  BY <2>1, <2>2, <2>3
<1>2. Moves(p, r)
  BY <1>0, <1>1, GoMoves
<1>c. conn' \in Row
  BY <1>0, <1>1, RowsMove, IdleIs DEF ScheduleSync, store, history
<1>3. ConnTypeOK'
  BY <1>0, <1>1, <1>2, <1>c, SyncsOrRequests, IdleIs DEF ScheduleSync, ConnTypeOK, Moves, SyncPc, RequestPc, AtWork, Importing, Purging, store, history
<1>4. SyncingIsAtWork'
  BY <1>0, <1>1, <1>2, SyncingMoves DEF ScheduleSync, AtWork, store, history, Row
<1>5. Parted'
  BY <1>0, <1>1, <1>2, PartedMoves DEF ScheduleSync, HasToken, Moves, Importing, store, history, Row
<1>6. Apart'
  BY <1>0, <1>1, <1>2, ApartMoves DEF ScheduleSync, AtWork, store, history
<1>7. Tracked'
  BY <1>0, <1>1, <1>2, TrackedRests DEF ScheduleSync, Moves, Importing, Purging, store, history
<1> QED  BY <1>3, <1>4, <1>5, <1>6, <1>7 DEF ConnInv

LEMMA HourlyTickKeeps ==
  ASSUME ConnInv, NEW p \in Syncs, HourlyTick(p)
  PROVE  ConnInv'
<1>0. ConnTypeOK /\ p \in Procs /\ p \notin Requests /\ go[p] \in Locals /\ conn \in Row /\ go[p].row \in Row
  BY SyncsOrRequests DEF ConnInv, ConnTypeOK, Locals
<1>1. PICK r \in Locals : go' = [go EXCEPT ![p] = r] /\ r.pc = "readLease" /\ go[p].pc = "idle"
  <2> DEFINE r == [Idle EXCEPT !.pc = "readLease", !.full = FALSE]
  <2>1. r \in Locals
    BY <1>0, IdleIs, RowsMove DEF HourlyTick, Locals, SyncPc, RequestPc, AtWork, Importing, Purging
  <2>2. go' = [go EXCEPT ![p] = r]
    BY <1>0 DEF HourlyTick, Goto, Ends, Release, Started, StartsFrom, Imported
  <2>3. r.pc = "readLease" /\ go[p].pc = "idle"
    BY <1>0, RowsMove DEF HourlyTick, Locals, Idle, StartsFrom
  <2> QED  BY <2>1, <2>2, <2>3
<1>2. Moves(p, r)
  BY <1>0, <1>1, GoMoves
<1>c. conn' \in Row
  BY <1>0, <1>1, RowsMove, IdleIs DEF HourlyTick, store, history
<1>3. ConnTypeOK'
  BY <1>0, <1>1, <1>2, <1>c, SyncsOrRequests, IdleIs DEF HourlyTick, ConnTypeOK, Moves, SyncPc, RequestPc, AtWork, Importing, Purging, store, history
<1>4. SyncingIsAtWork'
  BY <1>0, <1>1, <1>2, SyncingMoves DEF HourlyTick, AtWork, store, history, Row
<1>5. Parted'
  BY <1>0, <1>1, <1>2, PartedMoves DEF HourlyTick, HasToken, Moves, Importing, store, history, Row
<1>6. Apart'
  BY <1>0, <1>1, <1>2, ApartMoves DEF HourlyTick, AtWork, store, history
<1>7. Tracked'
  BY <1>0, <1>1, <1>2, TrackedRests DEF HourlyTick, Moves, Importing, Purging, store, history
<1> QED  BY <1>3, <1>4, <1>5, <1>6, <1>7 DEF ConnInv

LEMMA ReadLeaseKeeps ==
  ASSUME ConnInv, NEW p \in Syncs, ReadLease(p)
  PROVE  ConnInv'
<1>0. ConnTypeOK /\ p \in Procs /\ p \notin Requests /\ go[p] \in Locals /\ conn \in Row /\ go[p].row \in Row
  BY SyncsOrRequests DEF ConnInv, ConnTypeOK, Locals
<1>1. PICK r \in Locals : go' = [go EXCEPT ![p] = r] /\ r.pc \in {"takeLease", "idle"} /\ go[p].pc = "readLease"
       /\ (r.pc = "takeLease" => lease.owner = NoSync \/ lease.lapsed)
  <2> DEFINE r == IF lease.owner = NoSync \/ lease.lapsed THEN [go[p] EXCEPT !.pc = "takeLease"] ELSE Idle
  <2>1. r \in Locals
    BY <1>0, IdleIs, RowsMove DEF ReadLease, Locals, SyncPc, RequestPc, AtWork, Importing, Purging
  <2>2. go' = [go EXCEPT ![p] = r]
    BY <1>0 DEF ReadLease, Goto, Ends, Release, Started, StartsFrom, Imported
  <2>3. r.pc \in {"takeLease", "idle"} /\ go[p].pc = "readLease"
       /\ (r.pc = "takeLease" => lease.owner = NoSync \/ lease.lapsed)
    BY <1>0, RowsMove DEF ReadLease, Locals, Idle, StartsFrom
  <2> QED  BY <2>1, <2>2, <2>3
<1>2. Moves(p, r)
  BY <1>0, <1>1, GoMoves
<1>c. conn' \in Row
  BY <1>0, <1>1, RowsMove, IdleIs DEF ReadLease, store, history
<1>3. ConnTypeOK'
  BY <1>0, <1>1, <1>2, <1>c, SyncsOrRequests, IdleIs DEF ReadLease, ConnTypeOK, Moves, SyncPc, RequestPc, AtWork, Importing, Purging, store, history
<1>4. SyncingIsAtWork'
  BY <1>0, <1>1, <1>2, SyncingMoves DEF ReadLease, AtWork, store, history, Row
<1>5. Parted'
  BY <1>0, <1>1, <1>2, PartedMoves DEF ReadLease, HasToken, Moves, Importing, store, history, Row
<1>6. Apart'
  BY <1>0, <1>1, <1>2, ApartMoves DEF ReadLease, AtWork, store, history
<1>7. Tracked'
  BY <1>0, <1>1, <1>2, TrackedRests DEF ReadLease, Moves, Importing, Purging, store, history
<1> QED  BY <1>3, <1>4, <1>5, <1>6, <1>7 DEF ConnInv

LEMMA TakeLeaseKeeps ==
  ASSUME ConnInv, NEW p \in Syncs, TakeLease(p)
  PROVE  ConnInv'
<1>0. ConnTypeOK /\ p \in Procs /\ p \notin Requests /\ go[p] \in Locals /\ conn \in Row /\ go[p].row \in Row
  BY SyncsOrRequests DEF ConnInv, ConnTypeOK, Locals
<1>1. PICK r \in Locals : go' = [go EXCEPT ![p] = r] /\ r.pc = "load" /\ go[p].pc = "takeLease"
  <2> DEFINE r == [go[p] EXCEPT !.pc = "load"]
  <2>1. r \in Locals
    BY <1>0, IdleIs, RowsMove DEF TakeLease, Locals, SyncPc, RequestPc, AtWork, Importing, Purging
  <2>2. go' = [go EXCEPT ![p] = r]
    BY <1>0 DEF TakeLease, Goto, Ends, Release, Started, StartsFrom, Imported
  <2>3. r.pc = "load" /\ go[p].pc = "takeLease"
    BY <1>0, RowsMove DEF TakeLease, Locals, Idle, StartsFrom
  <2> QED  BY <2>1, <2>2, <2>3
<1>2. Moves(p, r)
  BY <1>0, <1>1, GoMoves
<1>c. conn' \in Row
  BY <1>0, <1>1, RowsMove, IdleIs DEF TakeLease, store, history
<1>3. ConnTypeOK'
  BY <1>0, <1>1, <1>2, <1>c, SyncsOrRequests, IdleIs DEF TakeLease, ConnTypeOK, Moves, SyncPc, RequestPc, AtWork, Importing, Purging, store, history
<1>4. SyncingIsAtWork'
  BY <1>0, <1>1, <1>2, SyncingMoves DEF TakeLease, AtWork, store, history, Row
<1>5. Parted'
  BY <1>0, <1>1, <1>2, PartedMoves DEF TakeLease, HasToken, Moves, Importing, store, history, Row
<1>6. Apart'
  <2> SUFFICES ASSUME ~raced'
               PROVE  \A q \in Syncs \ {p} : go'[q].pc \notin AtWork /\ go'[q].pc # "takeLease"
    BY <1>1, <1>2 DEF TakeLease, Apart, Moves, AtWork
  <2>1. ~raced /\ (lease.owner = NoSync \/ lease.lapsed)
    BY <1>1 DEF TakeLease, ConnInv, Apart
  <2>2. ~(lease.lapsed /\ go[lease.owner].pc \in AtWork) /\ \A q \in Syncs \ {p} : go[q].pc # "takeLease"
    BY DEF TakeLease
  <2>3. \A q \in Syncs : go[q].pc \in AtWork => lease.owner = q /\ q # NoSync
    BY <2>1, ConnectorsNulls DEF ConnInv, Apart
  <2>4. \A q \in Syncs : go[q].pc \notin AtWork
    BY <2>1, <2>2, <2>3
  <2> QED  BY <1>2, <2>2, <2>4, SyncsOrRequests DEF Moves
<1>7. Tracked'
  BY <1>0, <1>1, <1>2, TrackedRests DEF TakeLease, Moves, Importing, Purging, store, history
<1> QED  BY <1>3, <1>4, <1>5, <1>6, <1>7 DEF ConnInv

LEMMA LoadKeeps ==
  ASSUME ConnInv, NEW p \in Syncs, Load(p)
  PROVE  ConnInv'
<1>0. ConnTypeOK /\ p \in Procs /\ p \notin Requests /\ go[p] \in Locals /\ conn \in Row /\ go[p].row \in Row
  BY SyncsOrRequests DEF ConnInv, ConnTypeOK, Locals
<1>1. PICK r \in Locals : go' = [go EXCEPT ![p] = r] /\ r.pc = "refresh" /\ go[p].pc = "load" /\ r.row = conn
  <2> DEFINE r == [go[p] EXCEPT !.pc = "refresh", !.row = conn]
  <2>1. r \in Locals
    BY <1>0, IdleIs, RowsMove DEF Load, Locals, SyncPc, RequestPc, AtWork, Importing, Purging
  <2>2. go' = [go EXCEPT ![p] = r]
    BY <1>0 DEF Load, Goto, Ends, Release, Started, StartsFrom, Imported
  <2>3. r.pc = "refresh" /\ go[p].pc = "load" /\ r.row = conn
    BY <1>0, RowsMove DEF Load, Locals, Idle, StartsFrom
  <2> QED  BY <2>1, <2>2, <2>3
<1>2. Moves(p, r)
  BY <1>0, <1>1, GoMoves
<1>c. conn' \in Row
  BY <1>0, <1>1, RowsMove, IdleIs DEF Load, store, history
<1>3. ConnTypeOK'
  BY <1>0, <1>1, <1>2, <1>c, SyncsOrRequests, IdleIs DEF Load, ConnTypeOK, Moves, SyncPc, RequestPc, AtWork, Importing, Purging, store, history
<1>4. SyncingIsAtWork'
  BY <1>0, <1>1, <1>2, SyncingMoves DEF Load, AtWork, store, history, Row
<1>5. Parted'
  BY <1>0, <1>1, <1>2, PartedMoves DEF Load, HasToken, Moves, Importing, store, history, Row
<1>6. Apart'
  BY <1>0, <1>1, <1>2, ApartMoves DEF Load, AtWork, store, history
<1>7. Tracked'
  BY <1>0, <1>1, <1>2, TrackedRests DEF Load, Moves, Importing, Purging, store, history
<1> QED  BY <1>3, <1>4, <1>5, <1>6, <1>7 DEF ConnInv

LEMMA RefusedKeeps ==
  ASSUME ConnInv, NEW p \in Syncs, Refused(p)
  PROVE  ConnInv'
<1>0. ConnTypeOK /\ p \in Procs /\ p \notin Requests /\ go[p] \in Locals /\ conn \in Row /\ go[p].row \in Row
  BY SyncsOrRequests DEF ConnInv, ConnTypeOK, Locals
<1>1. PICK r \in Locals : go' = [go EXCEPT ![p] = r] /\ r.pc = "reauth" /\ go[p].pc = "refresh"
  <2> DEFINE r == [go[p] EXCEPT !.pc = "reauth"]
  <2>1. r \in Locals
    BY <1>0, IdleIs, RowsMove DEF Refused, Locals, SyncPc, RequestPc, AtWork, Importing, Purging
  <2>2. go' = [go EXCEPT ![p] = r]
    BY <1>0 DEF Refused, Goto, Ends, Release, Started, StartsFrom, Imported
  <2>3. r.pc = "reauth" /\ go[p].pc = "refresh"
    BY <1>0, RowsMove DEF Refused, Locals, Idle, StartsFrom
  <2> QED  BY <2>1, <2>2, <2>3
<1>2. Moves(p, r)
  BY <1>0, <1>1, GoMoves
<1>c. conn' \in Row
  BY <1>0, <1>1, RowsMove, IdleIs DEF Refused, store, history
<1>3. ConnTypeOK'
  BY <1>0, <1>1, <1>2, <1>c, SyncsOrRequests, IdleIs DEF Refused, ConnTypeOK, Moves, SyncPc, RequestPc, AtWork, Importing, Purging, store, history
<1>4. SyncingIsAtWork'
  BY <1>0, <1>1, <1>2, SyncingMoves DEF Refused, AtWork, store, history, Row
<1>5. Parted'
  BY <1>0, <1>1, <1>2, PartedMoves DEF Refused, HasToken, Moves, Importing, store, history, Row
<1>6. Apart'
  BY <1>0, <1>1, <1>2, ApartMoves DEF Refused, AtWork, store, history
<1>7. Tracked'
  BY <1>0, <1>1, <1>2, TrackedRests DEF Refused, Moves, Importing, Purging, store, history
<1> QED  BY <1>3, <1>4, <1>5, <1>6, <1>7 DEF ConnInv

LEMMA StillValidKeeps ==
  ASSUME ConnInv, NEW p \in Syncs, StillValid(p)
  PROVE  ConnInv'
<1>0. ConnTypeOK /\ p \in Procs /\ p \notin Requests /\ go[p] \in Locals /\ conn \in Row /\ go[p].row \in Row
  BY SyncsOrRequests DEF ConnInv, ConnTypeOK, Locals
<1>1. PICK r \in Locals : go' = [go EXCEPT ![p] = r] /\ r.pc = "verify" /\ go[p].pc = "refresh" /\ go[p].row.token
  <2> DEFINE r == [go[p] EXCEPT !.pc = "verify", !.row = Kept(go[p].row)]
  <2>1. r \in Locals
    BY <1>0, IdleIs, RowsMove DEF StillValid, Locals, SyncPc, RequestPc, AtWork, Importing, Purging
  <2>2. go' = [go EXCEPT ![p] = r]
    BY <1>0 DEF StillValid, Goto, Ends, Release, Started, StartsFrom, Imported
  <2>3. r.pc = "verify" /\ go[p].pc = "refresh" /\ go[p].row.token
    BY <1>0, RowsMove DEF StillValid, Locals, Idle, StartsFrom
  <2> QED  BY <2>1, <2>2, <2>3
<1>2. Moves(p, r)
  BY <1>0, <1>1, GoMoves
<1>c. conn' \in Row
  BY <1>0, <1>1, RowsMove, IdleIs DEF StillValid, store, history
<1>3. ConnTypeOK'
  BY <1>0, <1>1, <1>2, <1>c, SyncsOrRequests, IdleIs DEF StillValid, ConnTypeOK, Moves, SyncPc, RequestPc, AtWork, Importing, Purging, store, history
<1>4. SyncingIsAtWork'
  BY <1>0, <1>1, <1>2, SyncingMoves DEF StillValid, AtWork, store, history, Row
<1>5. Parted'
  BY <1>0, <1>1, <1>2, PartedMoves DEF StillValid, HasToken, Moves, Importing, store, history, Row
<1>6. Apart'
  BY <1>0, <1>1, <1>2, ApartMoves DEF StillValid, AtWork, store, history
<1>7. Tracked'
  BY <1>0, <1>1, <1>2, TrackedRests DEF StillValid, Moves, Importing, Purging, store, history
<1> QED  BY <1>3, <1>4, <1>5, <1>6, <1>7 DEF ConnInv

LEMMA RefreshKeeps ==
  ASSUME ConnInv, NEW p \in Syncs, Refresh(p)
  PROVE  ConnInv'
<1>0. ConnTypeOK /\ p \in Procs /\ p \notin Requests /\ go[p] \in Locals /\ conn \in Row /\ go[p].row \in Row
  BY SyncsOrRequests DEF ConnInv, ConnTypeOK, Locals
<1>1. PICK r \in Locals : go' = [go EXCEPT ![p] = r] /\ r.pc = "verify" /\ go[p].pc = "refresh" /\ go[p].row.token
  <2> DEFINE r == [go[p] EXCEPT !.pc = "verify", !.row = Kept(go[p].row)]
  <2>1. r \in Locals
    BY <1>0, IdleIs, RowsMove DEF Refresh, Locals, SyncPc, RequestPc, AtWork, Importing, Purging
  <2>2. go' = [go EXCEPT ![p] = r]
    BY <1>0 DEF Refresh, Goto, Ends, Release, Started, StartsFrom, Imported
  <2>3. r.pc = "verify" /\ go[p].pc = "refresh" /\ go[p].row.token
    BY <1>0, RowsMove DEF Refresh, Locals, Idle, StartsFrom
  <2> QED  BY <2>1, <2>2, <2>3
<1>2. Moves(p, r)
  BY <1>0, <1>1, GoMoves
<1>c. conn' \in Row
  BY <1>0, <1>1, RowsMove, IdleIs DEF Refresh, store, history, UpsertConnection
<1>3. ConnTypeOK'
  BY <1>0, <1>1, <1>2, <1>c, SyncsOrRequests, IdleIs DEF Refresh, ConnTypeOK, Moves, SyncPc, RequestPc, AtWork, Importing, Purging, store, history
<1>4. SyncingIsAtWork'
  BY <1>0, <1>1, <1>2, SyncingMoves DEF Refresh, AtWork, store, history, Row, UpsertConnection
<1>5. Parted'
  BY <1>0, <1>1, <1>2, PartedMoves DEF Refresh, HasToken, Moves, Importing, store, history, Row, UpsertConnection
<1>6. Apart'
  BY <1>0, <1>1, <1>2, ApartMoves DEF Refresh, AtWork, store, history, UpsertConnection
<1>7. Tracked'
  BY <1>0, <1>1, <1>2, TrackedRests DEF Refresh, Moves, Importing, Purging, store, history, UpsertConnection
<1> QED  BY <1>3, <1>4, <1>5, <1>6, <1>7 DEF ConnInv

LEMMA VerifyKeeps ==
  ASSUME ConnInv, NEW p \in Syncs, Verify(p)
  PROVE  ConnInv'
<1>0. ConnTypeOK /\ p \in Procs /\ p \notin Requests /\ go[p] \in Locals /\ conn \in Row /\ go[p].row \in Row
  BY SyncsOrRequests DEF ConnInv, ConnTypeOK, Locals
<1>1. PICK r \in Locals : go' = [go EXCEPT ![p] = r] /\ r.pc = "markRunning" /\ go[p].pc = "verify"
  <2> DEFINE r == [go[p] EXCEPT !.pc = "markRunning"]
  <2>1. r \in Locals
    BY <1>0, IdleIs, RowsMove DEF Verify, Locals, SyncPc, RequestPc, AtWork, Importing, Purging
  <2>2. go' = [go EXCEPT ![p] = r]
    BY <1>0 DEF Verify, Goto, Ends, Release, Started, StartsFrom, Imported
  <2>3. r.pc = "markRunning" /\ go[p].pc = "verify"
    BY <1>0, RowsMove DEF Verify, Locals, Idle, StartsFrom
  <2> QED  BY <2>1, <2>2, <2>3
<1>2. Moves(p, r)
  BY <1>0, <1>1, GoMoves
<1>c. conn' \in Row
  BY <1>0, <1>1, RowsMove, IdleIs DEF Verify, store, history
<1>3. ConnTypeOK'
  BY <1>0, <1>1, <1>2, <1>c, SyncsOrRequests, IdleIs DEF Verify, ConnTypeOK, Moves, SyncPc, RequestPc, AtWork, Importing, Purging, store, history
<1>4. SyncingIsAtWork'
  BY <1>0, <1>1, <1>2, SyncingMoves DEF Verify, AtWork, store, history, Row
<1>5. Parted'
  BY <1>0, <1>1, <1>2, PartedMoves DEF Verify, HasToken, Moves, Importing, store, history, Row
<1>6. Apart'
  BY <1>0, <1>1, <1>2, ApartMoves DEF Verify, AtWork, store, history
<1>7. Tracked'
  BY <1>0, <1>1, <1>2, TrackedRests DEF Verify, Moves, Importing, Purging, store, history
<1> QED  BY <1>3, <1>4, <1>5, <1>6, <1>7 DEF ConnInv

LEMMA MarkRunningKeeps ==
  ASSUME ConnInv, NEW p \in Syncs, MarkRunning(p)
  PROVE  ConnInv'
<1>0. ConnTypeOK /\ p \in Procs /\ p \notin Requests /\ go[p] \in Locals /\ conn \in Row /\ go[p].row \in Row
  BY SyncsOrRequests DEF ConnInv, ConnTypeOK, Locals
<1>1. PICK r \in Locals : go' = [go EXCEPT ![p] = r] /\ r.pc = "fetch" /\ go[p].pc = "markRunning"
  <2> DEFINE r == [go[p] EXCEPT !.pc = "fetch"]
  <2>1. r \in Locals
    BY <1>0, IdleIs, RowsMove DEF MarkRunning, Locals, SyncPc, RequestPc, AtWork, Importing, Purging
  <2>2. go' = [go EXCEPT ![p] = r]
    BY <1>0 DEF MarkRunning, Goto, Ends, Release, Started, StartsFrom, Imported
  <2>3. r.pc = "fetch" /\ go[p].pc = "markRunning"
    BY <1>0, RowsMove DEF MarkRunning, Locals, Idle, StartsFrom
  <2> QED  BY <2>1, <2>2, <2>3
<1>2. Moves(p, r)
  BY <1>0, <1>1, GoMoves
<1>c. conn' \in Row
  BY <1>0, <1>1, RowsMove, IdleIs DEF MarkRunning, store, history, Initials, Row
<1>3. ConnTypeOK'
  BY <1>0, <1>1, <1>2, <1>c, SyncsOrRequests, IdleIs DEF MarkRunning, ConnTypeOK, Moves, SyncPc, RequestPc, AtWork, Importing, Purging, store, history
<1>4. SyncingIsAtWork'
  BY <1>0, <1>1, <1>2, SyncingMoves DEF MarkRunning, AtWork, store, history, Row, Initials, Row
<1>5. Parted'
  BY <1>0, <1>1, <1>2, PartedMoves DEF MarkRunning, HasToken, Moves, Importing, store, history, Row, Initials, Row
<1>6. Apart'
  BY <1>0, <1>1, <1>2, ApartMoves DEF MarkRunning, AtWork, store, history, Initials, Row
<1>7. Tracked'
  BY <1>0, <1>1, <1>2, TrackedRests DEF MarkRunning, Moves, Importing, Purging, store, history, Initials, Row
<1> QED  BY <1>3, <1>4, <1>5, <1>6, <1>7 DEF ConnInv

LEMMA FinishKeeps ==
  ASSUME ConnInv, NEW p \in Syncs, Finish(p)
  PROVE  ConnInv'
<1>0. ConnTypeOK /\ p \in Procs /\ p \notin Requests /\ go[p] \in Locals /\ conn \in Row /\ go[p].row \in Row
  BY SyncsOrRequests DEF ConnInv, ConnTypeOK, Locals
<1>1. PICK r \in Locals : go' = [go EXCEPT ![p] = r] /\ r.pc = "readRelease" /\ go[p].pc = "finish"
  <2> DEFINE r == [Idle EXCEPT !.pc = "readRelease"]
  <2>1. r \in Locals
    BY <1>0, IdleIs, RowsMove DEF Finish, Locals, SyncPc, RequestPc, AtWork, Importing, Purging
  <2>2. go' = [go EXCEPT ![p] = r]
    BY <1>0 DEF Finish, Goto, Ends, Release, Started, StartsFrom, Imported
  <2>3. r.pc = "readRelease" /\ go[p].pc = "finish"
    BY <1>0, RowsMove DEF Finish, Locals, Idle, StartsFrom
  <2> QED  BY <2>1, <2>2, <2>3
<1>2. Moves(p, r)
  BY <1>0, <1>1, GoMoves
<1>c. conn' \in Row /\ conn'.status # "syncing"
  BY <1>0, OutcomeIs DEF Finish
<1>3. ConnTypeOK'
  BY <1>0, <1>1, <1>2, <1>c, SyncsOrRequests, IdleIs DEF Finish, ConnTypeOK, Moves, SyncPc, RequestPc, AtWork, Importing, Purging, store, history
<1>4. SyncingIsAtWork'
  BY <1>0, <1>1, <1>2, <1>c, SyncingMoves
<1>5. Parted'
  BY <1>0, <1>1, <1>2, PartedMoves DEF Finish, HasToken, Moves, Importing, store, history, Row
<1>6. Apart'
  BY <1>0, <1>1, <1>2, ApartMoves DEF Finish, AtWork, store, history
<1>7. Tracked'
  BY <1>0, <1>1, <1>2, TrackedRests DEF Finish, Moves, Importing, Purging, store, history
<1> QED  BY <1>3, <1>4, <1>5, <1>6, <1>7 DEF ConnInv

LEMMA MarkReauthKeeps ==
  ASSUME ConnInv, NEW p \in Syncs, MarkReauth(p)
  PROVE  ConnInv'
<1>0. ConnTypeOK /\ p \in Procs /\ p \notin Requests /\ go[p] \in Locals /\ conn \in Row /\ go[p].row \in Row
  BY SyncsOrRequests DEF ConnInv, ConnTypeOK, Locals
<1>1. PICK r \in Locals : go' = [go EXCEPT ![p] = r] /\ r.pc = "readRelease" /\ go[p].pc = "reauth"
  <2> DEFINE r == [Idle EXCEPT !.pc = "readRelease"]
  <2>1. r \in Locals
    BY <1>0, IdleIs, RowsMove DEF MarkReauth, Locals, SyncPc, RequestPc, AtWork, Importing, Purging
  <2>2. go' = [go EXCEPT ![p] = r]
    BY <1>0 DEF MarkReauth, Goto, Ends, Release, Started, StartsFrom, Imported
  <2>3. r.pc = "readRelease" /\ go[p].pc = "reauth"
    BY <1>0, RowsMove DEF MarkReauth, Locals, Idle, StartsFrom
  <2> QED  BY <2>1, <2>2, <2>3
<1>2. Moves(p, r)
  BY <1>0, <1>1, GoMoves
<1>c. conn' \in Row
  BY <1>0, <1>1, RowsMove, IdleIs DEF MarkReauth, store, history, ReauthRequired, Row
<1>3. ConnTypeOK'
  BY <1>0, <1>1, <1>2, <1>c, SyncsOrRequests, IdleIs DEF MarkReauth, ConnTypeOK, Moves, SyncPc, RequestPc, AtWork, Importing, Purging, store, history
<1>4. SyncingIsAtWork'
  BY <1>0, <1>1, <1>2, SyncingMoves DEF MarkReauth, AtWork, store, history, Row, ReauthRequired, Row
<1>5. Parted'
  BY <1>0, <1>1, <1>2, PartedMoves DEF MarkReauth, HasToken, Moves, Importing, store, history, Row, ReauthRequired, Row
<1>6. Apart'
  BY <1>0, <1>1, <1>2, ApartMoves DEF MarkReauth, AtWork, store, history, ReauthRequired, Row
<1>7. Tracked'
  BY <1>0, <1>1, <1>2, TrackedRests DEF MarkReauth, Moves, Importing, Purging, store, history, ReauthRequired, Row
<1> QED  BY <1>3, <1>4, <1>5, <1>6, <1>7 DEF ConnInv

LEMMA ReadReleaseKeeps ==
  ASSUME ConnInv, NEW p \in Syncs, ReadRelease(p)
  PROVE  ConnInv'
<1>0. ConnTypeOK /\ p \in Procs /\ p \notin Requests /\ go[p] \in Locals /\ conn \in Row /\ go[p].row \in Row
  BY SyncsOrRequests DEF ConnInv, ConnTypeOK, Locals
<1>1. PICK r \in Locals : go' = [go EXCEPT ![p] = r] /\ r.pc \in {"release", "idle"} /\ go[p].pc = "readRelease"
  <2> DEFINE r == IF lease.owner \in {NoSync, p} THEN [go[p] EXCEPT !.pc = "release"] ELSE Idle
  <2>1. r \in Locals
    BY <1>0, IdleIs, RowsMove DEF ReadRelease, Locals, SyncPc, RequestPc, AtWork, Importing, Purging
  <2>2. go' = [go EXCEPT ![p] = r]
    BY <1>0 DEF ReadRelease, Goto, Ends, Release, Started, StartsFrom, Imported
  <2>3. r.pc \in {"release", "idle"} /\ go[p].pc = "readRelease"
    BY <1>0, RowsMove DEF ReadRelease, Locals, Idle, StartsFrom
  <2> QED  BY <2>1, <2>2, <2>3
<1>2. Moves(p, r)
  BY <1>0, <1>1, GoMoves
<1>c. conn' \in Row
  BY <1>0, <1>1, RowsMove, IdleIs DEF ReadRelease, store, history
<1>3. ConnTypeOK'
  BY <1>0, <1>1, <1>2, <1>c, SyncsOrRequests, IdleIs DEF ReadRelease, ConnTypeOK, Moves, SyncPc, RequestPc, AtWork, Importing, Purging, store, history
<1>4. SyncingIsAtWork'
  BY <1>0, <1>1, <1>2, SyncingMoves DEF ReadRelease, AtWork, store, history, Row
<1>5. Parted'
  BY <1>0, <1>1, <1>2, PartedMoves DEF ReadRelease, HasToken, Moves, Importing, store, history, Row
<1>6. Apart'
  BY <1>0, <1>1, <1>2, ApartMoves DEF ReadRelease, AtWork, store, history
<1>7. Tracked'
  BY <1>0, <1>1, <1>2, TrackedRests DEF ReadRelease, Moves, Importing, Purging, store, history
<1> QED  BY <1>3, <1>4, <1>5, <1>6, <1>7 DEF ConnInv

LEMMA ReleaseLeaseKeeps ==
  ASSUME ConnInv, NEW p \in Syncs, ReleaseLease(p)
  PROVE  ConnInv'
<1>0. ConnTypeOK /\ p \in Procs /\ p \notin Requests /\ go[p] \in Locals /\ conn \in Row /\ go[p].row \in Row
  BY SyncsOrRequests DEF ConnInv, ConnTypeOK, Locals
<1>1. PICK r \in Locals : go' = [go EXCEPT ![p] = r] /\ r.pc = "idle" /\ go[p].pc = "release"
  <2> DEFINE r == Idle
  <2>1. r \in Locals
    BY <1>0, IdleIs, RowsMove DEF ReleaseLease, Locals, SyncPc, RequestPc, AtWork, Importing, Purging
  <2>2. go' = [go EXCEPT ![p] = r]
    BY <1>0 DEF ReleaseLease, Goto, Ends, Release, Started, StartsFrom, Imported
  <2>3. r.pc = "idle" /\ go[p].pc = "release"
    BY <1>0, RowsMove DEF ReleaseLease, Locals, Idle, StartsFrom
  <2> QED  BY <2>1, <2>2, <2>3
<1>2. Moves(p, r)
  BY <1>0, <1>1, GoMoves
<1>c. conn' \in Row
  BY <1>0, <1>1, RowsMove, IdleIs DEF ReleaseLease, store, history
<1>3. ConnTypeOK'
  BY <1>0, <1>1, <1>2, <1>c, SyncsOrRequests, IdleIs DEF ReleaseLease, ConnTypeOK, Moves, SyncPc, RequestPc, AtWork, Importing, Purging, store, history
<1>4. SyncingIsAtWork'
  BY <1>0, <1>1, <1>2, SyncingMoves DEF ReleaseLease, AtWork, store, history, Row
<1>5. Parted'
  BY <1>0, <1>1, <1>2, PartedMoves DEF ReleaseLease, HasToken, Moves, Importing, store, history, Row
<1>6. Apart'
  <2> SUFFICES ASSUME ~raced'
               PROVE  \A q \in Syncs : go'[q].pc \notin AtWork
    BY DEF ReleaseLease, Apart
  <2>1. ~raced /\ lease.owner \in {NoSync, p}
    BY DEF ReleaseLease
  <2>2. \A q \in Syncs : go[q].pc \in AtWork => q = p
    BY <2>1, ConnectorsNulls DEF ConnInv, Apart
  <2> QED  BY <1>1, <1>2, <2>2, SyncsOrRequests DEF Moves, AtWork
<1>7. Tracked'
  BY <1>0, <1>1, <1>2, TrackedRests DEF ReleaseLease, Moves, Importing, Purging, store, history
<1> QED  BY <1>3, <1>4, <1>5, <1>6, <1>7 DEF ConnInv

LEMMA NothingNewKeeps ==
  ASSUME ConnInv, NEW p \in Syncs, NothingNew(p)
  PROVE  ConnInv'
<1>0. ConnTypeOK /\ p \in Procs /\ p \notin Requests /\ go[p] \in Locals /\ conn \in Row /\ go[p].row \in Row
  BY SyncsOrRequests DEF ConnInv, ConnTypeOK, Locals
<1>1. PICK r \in Locals : go' = [go EXCEPT ![p] = r] /\ r.pc = "finish" /\ go[p].pc = "fetch"
  <2> DEFINE r == [go[p] EXCEPT !.pc = "finish"]
  <2>1. r \in Locals
    BY <1>0, IdleIs, RowsMove DEF NothingNew, Locals, SyncPc, RequestPc, AtWork, Importing, Purging
  <2>2. go' = [go EXCEPT ![p] = r]
    BY <1>0 DEF NothingNew, Goto, Ends, Release, Started, StartsFrom, Imported
  <2>3. r.pc = "finish" /\ go[p].pc = "fetch"
    BY <1>0, RowsMove DEF NothingNew, Locals, Idle, StartsFrom
  <2> QED  BY <2>1, <2>2, <2>3
<1>2. Moves(p, r)
  BY <1>0, <1>1, GoMoves
<1>c. conn' \in Row
  BY <1>0, <1>1, RowsMove, IdleIs DEF NothingNew, store, history
<1>3. ConnTypeOK'
  BY <1>0, <1>1, <1>2, <1>c, SyncsOrRequests, IdleIs DEF NothingNew, ConnTypeOK, Moves, SyncPc, RequestPc, AtWork, Importing, Purging, store, history
<1>4. SyncingIsAtWork'
  BY <1>0, <1>1, <1>2, SyncingMoves DEF NothingNew, AtWork, store, history, Row
<1>5. Parted'
  BY <1>0, <1>1, <1>2, PartedMoves DEF NothingNew, HasToken, Moves, Importing, store, history, Row
<1>6. Apart'
  BY <1>0, <1>1, <1>2, ApartMoves DEF NothingNew, AtWork, store, history
<1>7. Tracked'
  BY <1>0, <1>1, <1>2, TrackedRests DEF NothingNew, Moves, Importing, Purging, store, history
<1> QED  BY <1>3, <1>4, <1>5, <1>6, <1>7 DEF ConnInv

-----------------------------------------------------------------------------
(* The import of a sync.                                                    *)

LEMMA LiveRows ==
  ASSUME NEW rows \in Seq(TextsOrNone), NEW text \in Texts
  PROVE  /\ Live(rows) \in SUBSET (Nat \ {0})
         /\ Live(Append(rows, text)) = Live(rows) \cup {Len(rows) + 1}
         /\ \A n \in Nat : Live([rows EXCEPT ![n] = NoText]) = Live(rows) \ {n}
<1>0. DOMAIN rows = 1 .. Len(rows) /\ Len(rows) \in Nat /\ text \in TextsOrNone /\ text # NoText /\ NoText \in TextsOrNone
  BY LenProperties, ConnectorsNulls DEF TextsOrNone
<1>1. Live(Append(rows, text)) = Live(rows) \cup {Len(rows) + 1}
  <2> DEFINE more == Append(rows, text)
  <2>1. DOMAIN more = 1 .. Len(rows) + 1 /\ more[Len(rows) + 1] = text /\ \A i \in 1 .. Len(rows) : more[i] = rows[i]
    BY <1>0, RowsAppended
  <2> HIDE DEF more
  <2>2. 1 .. Len(rows) + 1 = (1 .. Len(rows)) \cup {Len(rows) + 1} /\ Len(rows) + 1 \notin 1 .. Len(rows)
    BY <1>0
  <2>3. Live(more) = Live(rows) \cup {Len(rows) + 1}
    BY <1>0, <2>1, <2>2 DEF Live
  <2> QED  BY <2>3 DEF more
<1>2. ASSUME NEW n \in Nat
      PROVE  Live([rows EXCEPT ![n] = NoText]) = Live(rows) \ {n}
  BY <1>0 DEF Live
<1> QED  BY <1>0, <1>1, <1>2 DEF Live

LEMMA LivePatched ==
  ASSUME NEW rows \in Seq(TextsOrNone), NEW text \in Texts, NEW n \in Live(rows)
  PROVE  /\ Live([rows EXCEPT ![n] = text]) = Live(rows)
         /\ [rows EXCEPT ![n] = text][n] = text
<1>0. DOMAIN rows = 1 .. Len(rows) /\ text # NoText
  BY LenProperties, ConnectorsNulls
<1> QED  BY <1>0 DEF Live

\* While the lease could tell, no other sync is at work.
LEMMA AloneAtWork ==
  ASSUME ConnInv, ~raced, NEW p \in Syncs, go[p].pc \in AtWork
  PROVE  \A q \in Syncs \ {p} : go[q].pc \notin AtWork /\ go[q].pc \notin Importing
  BY DEF ConnInv, Apart, AtWork, Importing

LEMMA ImportMoves ==
  ASSUME ConnInv, NEW p \in Syncs, NEW r \in Locals, Moves(p, r), ~raced, go[p].pc \in AtWork,
         \A q \in Requests : go[q].pc \notin Purging,
         \/ r.pc \in Importing /\ Halfway(p)'
         \/ r.pc \notin Importing /\ Settled'
  PROVE  Tracked'
<1>1. \A q \in Syncs \ {p} : go'[q].pc \notin Importing
  BY AloneAtWork, SyncsOrRequests DEF Moves
<1>2. \A q \in Requests : go'[q].pc \notin Purging
  BY SyncsOrRequests DEF Moves
<1>3. go'[p] = r
  BY DEF Moves
<1> QED  BY <1>1, <1>2, <1>3 DEF Tracked

\* Where an import has come to, when nothing went wrong.
LEMMA ImportStands ==
  ASSUME ConnInv, ~raced, ~broken, NEW p \in Syncs, go[p].pc \in Importing
  PROVE  Halfway(p) /\ \A q \in Requests : go[q].pc \notin Purging
  BY DEF ConnInv, Tracked

LEMMA SyncFailsKeeps ==
  ASSUME ConnInv, NEW p \in Syncs, SyncFails(p)
  PROVE  ConnInv'
<1>0. ConnTypeOK /\ p \in Procs /\ p \notin Requests /\ go[p] \in Locals /\ conn \in Row /\ go[p].row \in Row
  BY SyncsOrRequests DEF ConnInv, ConnTypeOK, Locals
<1>1. PICK r \in Locals : go' = [go EXCEPT ![p] = r] /\ 
       /\ r.pc \in {"idle", "readRelease", "reauth", "finish"}
       /\ go[p].pc \in {"readLease", "takeLease", "readRelease", "release", "load", "finish", "reauth", "refresh", "verify", "fetch"}
       /\ r.pc = "finish" => go[p].pc = "fetch"
       /\ r.pc = "idle" => go[p].pc \notin AtWork
       /\ r.pc = "readRelease" => go[p].pc \in {"load", "finish", "reauth"}
       /\ r.pc = "reauth" => go[p].pc \in AtWork
  <2>1. CASE go[p].pc \in {"readLease", "takeLease", "readRelease", "release"} /\ go' = [go EXCEPT ![p] = Idle]
    <3>1. Idle \in Locals
      BY <1>0, IdleIs DEF Locals, SyncPc, RequestPc, AtWork, Importing, Purging
    <3>2. LET r == Idle IN 
       /\ r.pc \in {"idle", "readRelease", "reauth", "finish"}
       /\ go[p].pc \in {"readLease", "takeLease", "readRelease", "release", "load", "finish", "reauth", "refresh", "verify", "fetch"}
       /\ r.pc = "finish" => go[p].pc = "fetch"
       /\ r.pc = "idle" => go[p].pc \notin AtWork
       /\ r.pc = "readRelease" => go[p].pc \in {"load", "finish", "reauth"}
       /\ r.pc = "reauth" => go[p].pc \in AtWork
      BY <1>0, <2>1 DEF SyncFails, Locals, Idle, Importing, AtWork
    <3> QED  BY <2>1, <3>1, <3>2
  <2>2. CASE go[p].pc \in {"load", "finish", "reauth"} /\ go' = [go EXCEPT ![p] = [Idle EXCEPT !.pc = "readRelease"]]
    <3>1. [Idle EXCEPT !.pc = "readRelease"] \in Locals
      BY <1>0, IdleIs DEF Locals, SyncPc, RequestPc, AtWork, Importing, Purging
    <3>2. LET r == [Idle EXCEPT !.pc = "readRelease"] IN 
       /\ r.pc \in {"idle", "readRelease", "reauth", "finish"}
       /\ go[p].pc \in {"readLease", "takeLease", "readRelease", "release", "load", "finish", "reauth", "refresh", "verify", "fetch"}
       /\ r.pc = "finish" => go[p].pc = "fetch"
       /\ r.pc = "idle" => go[p].pc \notin AtWork
       /\ r.pc = "readRelease" => go[p].pc \in {"load", "finish", "reauth"}
       /\ r.pc = "reauth" => go[p].pc \in AtWork
      BY <1>0, <2>2 DEF SyncFails, Locals, Idle, Importing, AtWork
    <3> QED  BY <2>2, <3>1, <3>2
  <2>3. CASE go[p].pc \in {"refresh", "verify", "fetch"} /\ go' = [go EXCEPT ![p] = [go[p] EXCEPT !.pc = "reauth"]]
    <3>1. [go[p] EXCEPT !.pc = "reauth"] \in Locals
      BY <1>0, IdleIs DEF Locals, SyncPc, RequestPc, AtWork, Importing, Purging
    <3>2. LET r == [go[p] EXCEPT !.pc = "reauth"] IN 
       /\ r.pc \in {"idle", "readRelease", "reauth", "finish"}
       /\ go[p].pc \in {"readLease", "takeLease", "readRelease", "release", "load", "finish", "reauth", "refresh", "verify", "fetch"}
       /\ r.pc = "finish" => go[p].pc = "fetch"
       /\ r.pc = "idle" => go[p].pc \notin AtWork
       /\ r.pc = "readRelease" => go[p].pc \in {"load", "finish", "reauth"}
       /\ r.pc = "reauth" => go[p].pc \in AtWork
      BY <1>0, <2>3 DEF SyncFails, Locals, Idle, Importing, AtWork
    <3> QED  BY <2>3, <3>1, <3>2
  <2>4. CASE go[p].pc = "fetch" /\ go' = [go EXCEPT ![p] = [Idle EXCEPT !.pc = "finish", !.full = go[p].full, !.row = go[p].row, !.result = "error"]]
    <3>1. [Idle EXCEPT !.pc = "finish", !.full = go[p].full, !.row = go[p].row, !.result = "error"] \in Locals
      BY <1>0, IdleIs DEF Locals, SyncPc, RequestPc, AtWork, Importing, Purging
    <3>2. LET r == [Idle EXCEPT !.pc = "finish", !.full = go[p].full, !.row = go[p].row, !.result = "error"] IN 
       /\ r.pc \in {"idle", "readRelease", "reauth", "finish"}
       /\ go[p].pc \in {"readLease", "takeLease", "readRelease", "release", "load", "finish", "reauth", "refresh", "verify", "fetch"}
       /\ r.pc = "finish" => go[p].pc = "fetch"
       /\ r.pc = "idle" => go[p].pc \notin AtWork
       /\ r.pc = "readRelease" => go[p].pc \in {"load", "finish", "reauth"}
       /\ r.pc = "reauth" => go[p].pc \in AtWork
      BY <1>0, <2>4 DEF SyncFails, Locals, Idle, Importing, AtWork
    <3> QED  BY <2>4, <3>1, <3>2
  <2> QED  BY <2>1, <2>2, <2>3, <2>4 DEF SyncFails, Ends, Goto, Release, Imported
<1>2. Moves(p, r)
  BY <1>0, <1>1, GoMoves
<1>c. conn' \in Row
  BY <1>0, <1>1, RowsMove, IdleIs DEF SyncFails, store, history
<1>3. ConnTypeOK'
  BY <1>0, <1>1, <1>2, <1>c, SyncsOrRequests, IdleIs DEF SyncFails, ConnTypeOK, Moves, SyncPc, RequestPc, AtWork, Importing, Purging, store, history
<1>4. SyncingIsAtWork'
  BY <1>0, <1>1, <1>2, SyncingMoves DEF SyncFails, AtWork, store, history, Row
<1>5. Parted'
  BY <1>0, <1>1, <1>2, PartedMoves DEF SyncFails, HasToken, Moves, Importing, store, history, Row
<1>6. Apart'
  BY <1>0, <1>1, <1>2, ApartMoves DEF SyncFails, AtWork, store, history
<1>7. Tracked'
  BY <1>0, <1>1, <1>2, TrackedRests DEF SyncFails, Moves, Importing, Purging, store, history
<1> QED  BY <1>3, <1>4, <1>5, <1>6, <1>7 DEF ConnInv

LEMMA StepLostKeeps ==
  ASSUME ConnInv, NEW p \in Syncs, StepLost(p)
  PROVE  ConnInv'
<1>0. ConnTypeOK /\ p \in Procs /\ p \notin Requests /\ go[p] \in Locals /\ conn \in Row /\ go[p].row \in Row
  BY SyncsOrRequests DEF ConnInv, ConnTypeOK, Locals
<1>1. PICK r \in Locals : go' = [go EXCEPT ![p] = r] /\ go[p].pc \in {"markRunning", "clear"}
       /\ r.pc = IF go[p].pc = "clear" THEN "note" ELSE "fetch"
  <2>1. CASE go[p].pc = "markRunning" /\ go' = [go EXCEPT ![p] = [go[p] EXCEPT !.pc = "fetch"]]
    <3>1. [go[p] EXCEPT !.pc = "fetch"] \in Locals
      BY <1>0, IdleIs DEF Locals, SyncPc, RequestPc, AtWork, Importing, Purging
    <3>2. LET r == [go[p] EXCEPT !.pc = "fetch"] IN go[p].pc \in {"markRunning", "clear"}
       /\ r.pc = IF go[p].pc = "clear" THEN "note" ELSE "fetch"
      BY <1>0, <2>1 DEF StepLost, Locals, Idle, Importing, AtWork
    <3> QED  BY <2>1, <3>1, <3>2
  <2>2. CASE go[p].pc = "clear" /\ go' = [go EXCEPT ![p] = [go[p] EXCEPT !.pc = "note"]]
    <3>1. [go[p] EXCEPT !.pc = "note"] \in Locals
      BY <1>0, IdleIs DEF Locals, SyncPc, RequestPc, AtWork, Importing, Purging
    <3>2. LET r == [go[p] EXCEPT !.pc = "note"] IN go[p].pc \in {"markRunning", "clear"}
       /\ r.pc = IF go[p].pc = "clear" THEN "note" ELSE "fetch"
      BY <1>0, <2>2 DEF StepLost, Locals, Idle, Importing, AtWork
    <3> QED  BY <2>2, <3>1, <3>2
  <2> QED  BY <2>1, <2>2 DEF StepLost, Ends, Goto, Release, Imported
<1>2. Moves(p, r)
  BY <1>0, <1>1, GoMoves
<1>c. conn' \in Row
  BY <1>0, <1>1, RowsMove, IdleIs DEF StepLost, store, history
<1>3. ConnTypeOK'
  BY <1>0, <1>1, <1>2, <1>c, SyncsOrRequests, IdleIs DEF StepLost, ConnTypeOK, Moves, SyncPc, RequestPc, AtWork, Importing, Purging, store, history
<1>4. SyncingIsAtWork'
  BY <1>0, <1>1, <1>2, SyncingMoves DEF StepLost, AtWork, store, history, Row
<1>5. Parted'
  BY <1>0, <1>1, <1>2, PartedMoves DEF StepLost, HasToken, Moves, Importing, store, history, Row
<1>6. Apart'
  BY <1>0, <1>1, <1>2, ApartMoves DEF StepLost, AtWork, store, history
<1>7. Tracked'
  <2>1. CASE go[p].pc = "clear"
    BY <2>1, TrackedLost DEF StepLost
  <2>2. CASE go[p].pc = "markRunning"
    BY <1>0, <1>1, <1>2, <2>2, TrackedRests DEF StepLost, Moves, Importing, Purging, store
  <2> QED  BY <1>1, <2>1, <2>2
<1> QED  BY <1>3, <1>4, <1>5, <1>6, <1>7 DEF ConnInv

LEMMA TimesOutKeeps ==
  ASSUME ConnInv, NEW p \in Syncs, TimesOut(p)
  PROVE  ConnInv'
<1>0. ConnTypeOK /\ p \in Procs /\ p \notin Requests /\ go[p] \in Locals /\ conn \in Row /\ go[p].row \in Row
  BY SyncsOrRequests DEF ConnInv, ConnTypeOK, Locals
<1>1. PICK r \in Locals : go' = [go EXCEPT ![p] = r] /\ r.pc = "readRelease" /\ go[p].pc \in {"fetch"} \cup Importing
  <2> DEFINE r == [Idle EXCEPT !.pc = "readRelease"]
  <2>1. r \in Locals
    BY <1>0, IdleIs, RowsMove DEF TimesOut, Locals, SyncPc, RequestPc, AtWork, Importing, Purging
  <2>2. go' = [go EXCEPT ![p] = r]
    BY <1>0 DEF TimesOut, Goto, Ends, Release, Started, StartsFrom, Imported
  <2>3. r.pc = "readRelease" /\ go[p].pc \in {"fetch"} \cup Importing
    BY <1>0, RowsMove DEF TimesOut, Locals, Idle, StartsFrom
  <2> QED  BY <2>1, <2>2, <2>3
<1>2. Moves(p, r)
  BY <1>0, <1>1, GoMoves
<1>c. conn' \in Row
  BY <1>0, <1>1, RowsMove, IdleIs DEF TimesOut, store, history
<1>3. ConnTypeOK'
  BY <1>0, <1>1, <1>2, <1>c, SyncsOrRequests, IdleIs DEF TimesOut, ConnTypeOK, Moves, SyncPc, RequestPc, AtWork, Importing, Purging, store, history
<1>4. SyncingIsAtWork'
  BY <1>0, <1>1, <1>2, SyncingMoves DEF TimesOut, AtWork, store, history, Row
<1>5. Parted'
  BY <1>0, <1>1, <1>2, PartedMoves DEF TimesOut, HasToken, Moves, Importing, store, history, Row
<1>6. Apart'
  BY <1>0, <1>1, <1>2, ApartMoves DEF TimesOut, AtWork, store, history
<1>7. Tracked'
  <2>1. CASE go[p].pc \in Importing
    BY <2>1, TrackedLost DEF TimesOut
  <2>2. CASE go[p].pc \notin Importing
    BY <1>0, <1>1, <1>2, <2>2, TrackedRests DEF TimesOut, Moves, Importing, Purging, store
  <2> QED  BY <2>1, <2>2
<1> QED  BY <1>3, <1>4, <1>5, <1>6, <1>7 DEF ConnInv

LEMMA MeetingFailsKeeps ==
  ASSUME ConnInv, NEW p \in Syncs, MeetingFails(p)
  PROVE  ConnInv'
<1>0. ConnTypeOK /\ p \in Procs /\ p \notin Requests /\ go[p] \in Locals /\ conn \in Row /\ go[p].row \in Row
  BY SyncsOrRequests DEF ConnInv, ConnTypeOK, Locals
<1>1. PICK r \in Locals : go' = [go EXCEPT ![p] = r] /\ go[p].pc \in Importing /\ r.pc \in {"fetch", "finish", "reauth"}
  <2>1. CASE go' = [go EXCEPT ![p] = [Idle EXCEPT !.pc = "fetch", !.full = go[p].full, !.row = go[p].row]]
    <3>1. [Idle EXCEPT !.pc = "fetch", !.full = go[p].full, !.row = go[p].row] \in Locals
      BY <1>0, IdleIs DEF Locals, SyncPc, RequestPc, AtWork, Importing, Purging
    <3>2. LET r == [Idle EXCEPT !.pc = "fetch", !.full = go[p].full, !.row = go[p].row] IN go[p].pc \in Importing /\ r.pc \in {"fetch", "finish", "reauth"}
      BY <1>0, <2>1 DEF MeetingFails, Locals, Idle, Importing, AtWork
    <3> QED  BY <2>1, <3>1, <3>2
  <2>2. CASE go' = [go EXCEPT ![p] = [Idle EXCEPT !.pc = "finish", !.full = go[p].full, !.row = go[p].row, !.result = "partial"]]
    <3>1. [Idle EXCEPT !.pc = "finish", !.full = go[p].full, !.row = go[p].row, !.result = "partial"] \in Locals
      BY <1>0, IdleIs DEF Locals, SyncPc, RequestPc, AtWork, Importing, Purging
    <3>2. LET r == [Idle EXCEPT !.pc = "finish", !.full = go[p].full, !.row = go[p].row, !.result = "partial"] IN go[p].pc \in Importing /\ r.pc \in {"fetch", "finish", "reauth"}
      BY <1>0, <2>2 DEF MeetingFails, Locals, Idle, Importing, AtWork
    <3> QED  BY <2>2, <3>1, <3>2
  <2>3. CASE go' = [go EXCEPT ![p] = [go[p] EXCEPT !.pc = "reauth"]]
    <3>1. [go[p] EXCEPT !.pc = "reauth"] \in Locals
      BY <1>0, IdleIs DEF Locals, SyncPc, RequestPc, AtWork, Importing, Purging
    <3>2. LET r == [go[p] EXCEPT !.pc = "reauth"] IN go[p].pc \in Importing /\ r.pc \in {"fetch", "finish", "reauth"}
      BY <1>0, <2>3 DEF MeetingFails, Locals, Idle, Importing, AtWork
    <3> QED  BY <2>3, <3>1, <3>2
  <2> QED  BY <2>1, <2>2, <2>3 DEF MeetingFails, Ends, Goto, Release, Imported
<1>2. Moves(p, r)
  BY <1>0, <1>1, GoMoves
<1>c. conn' \in Row
  BY <1>0, <1>1, RowsMove, IdleIs DEF MeetingFails, store, history
<1>3. ConnTypeOK'
  BY <1>0, <1>1, <1>2, <1>c, SyncsOrRequests, IdleIs DEF MeetingFails, ConnTypeOK, Moves, SyncPc, RequestPc, AtWork, Importing, Purging, store, history
<1>4. SyncingIsAtWork'
  BY <1>0, <1>1, <1>2, SyncingMoves DEF MeetingFails, AtWork, store, history, Row
<1>5. Parted'
  BY <1>0, <1>1, <1>2, PartedMoves DEF MeetingFails, HasToken, Moves, Importing, store, history, Row
<1>6. Apart'
  BY <1>0, <1>1, <1>2, ApartMoves DEF MeetingFails, AtWork, Importing, store
<1>7. Tracked'
  BY TrackedLost DEF MeetingFails
<1> QED  BY <1>3, <1>4, <1>5, <1>6, <1>7 DEF ConnInv

LEMMA PatchNoteFailsKeeps ==
  ASSUME ConnInv, NEW p \in Syncs, PatchNoteFails(p)
  PROVE  ConnInv'
<1>0. ConnTypeOK /\ p \in Procs /\ p \notin Requests /\ go[p] \in Locals /\ conn \in Row /\ go[p].row \in Row
     /\ Len(notes) + 1 \in Nat /\ Len(sources) + 1 \in Nat
  BY SyncsOrRequests, LenProperties DEF ConnInv, ConnTypeOK, Locals
<1>1. PICK r \in Locals : go' = [go EXCEPT ![p] = r] /\ r.pc = "source" /\ go[p].pc = "note"
  <2> DEFINE r == [go[p] EXCEPT !.pc = "source", !.note = Len(notes) + 1]
  <2>1. r \in Locals
    BY <1>0, IdleIs, RowsMove DEF PatchNoteFails, Locals, SyncPc, RequestPc, AtWork, Importing, Purging
  <2>2. go' = [go EXCEPT ![p] = r]
    BY <1>0 DEF PatchNoteFails, Goto, Ends, Release, Started, StartsFrom, Imported
  <2>3. r.pc = "source" /\ go[p].pc = "note"
    BY <1>0, RowsMove DEF PatchNoteFails, Locals, Idle, StartsFrom
  <2> QED  BY <2>1, <2>2, <2>3
<1>2. Moves(p, r)
  BY <1>0, <1>1, GoMoves
<1>c. conn' \in Row /\ notes' \in Seq(TextsOrNone)
  BY <1>0, RowsAppended DEF PatchNoteFails, Locals, ConnTypeOK
<1>3. ConnTypeOK'
  BY <1>0, <1>1, <1>2, <1>c, SyncsOrRequests, IdleIs DEF PatchNoteFails, ConnTypeOK, Moves, SyncPc, RequestPc, AtWork, Importing, Purging, store, history
<1>4. SyncingIsAtWork'
  BY <1>0, <1>1, <1>2, SyncingMoves DEF PatchNoteFails, AtWork, store, history, Row
<1>5. Parted'
  BY <1>0, <1>1, <1>2, PartedMoves DEF PatchNoteFails, HasToken, Moves, Importing, store, history, Row
<1>6. Apart'
  BY <1>0, <1>1, <1>2, ApartMoves DEF PatchNoteFails, AtWork, store, history
<1>7. Tracked'
  BY TrackedLost DEF PatchNoteFails
<1> QED  BY <1>3, <1>4, <1>5, <1>6, <1>7 DEF ConnInv

LEMMA FetchKeeps ==
  ASSUME ConnInv, NEW p \in Syncs, Fetch(p)
  PROVE  ConnInv'
<1>0. ConnTypeOK /\ p \in Procs /\ p \notin Requests /\ go[p] \in Locals /\ conn \in Row /\ go[p].row \in Row
  BY SyncsOrRequests DEF ConnInv, ConnTypeOK, Locals
<1>1. PICK r \in Locals : go' = [go EXCEPT ![p] = r] /\ \E text \in Texts :
       /\ go[p].pc = "fetch" /\ r.text = text /\ r.note = item.note
       /\ r.pc = IF item = NoItem THEN "note" ELSE "clear"
  <2>1. PICK text \in Texts : go' = [go EXCEPT ![p] = [go[p] EXCEPT !.text = text, !.note = item.note,
                                                                !.pc = IF item = NoItem THEN "note" ELSE "clear"]]
    BY <1>0 DEF Fetch
  <2> DEFINE r == [go[p] EXCEPT !.text = text, !.note = item.note, !.pc = IF item = NoItem THEN "note" ELSE "clear"]
  <2>2. item.note \in Nat /\ text \in TextsOrNone
    BY <1>0 DEF ConnTypeOK, TextsOrNone
  <2>3. r \in Locals
    BY <1>0, <2>2 DEF Locals, SyncPc, AtWork
  <2>4. /\ go[p].pc = "fetch" /\ r.text = text /\ r.note = item.note
        /\ r.pc = IF item = NoItem THEN "note" ELSE "clear"
    BY <1>0 DEF Fetch, Locals
  <2> QED  BY <2>1, <2>3, <2>4
<1>2. Moves(p, r)
  BY <1>0, <1>1, GoMoves
<1>c. conn' \in Row
  BY <1>0, <1>1, RowsMove, IdleIs DEF Fetch, store, history
<1>3. ConnTypeOK'
  BY <1>0, <1>1, <1>2, <1>c, SyncsOrRequests, IdleIs DEF Fetch, ConnTypeOK, Moves, SyncPc, RequestPc, AtWork, Importing, Purging, store, history
<1>4. SyncingIsAtWork'
  BY <1>0, <1>1, <1>2, SyncingMoves DEF Fetch, AtWork, store, history, Row
<1>5. Parted'
  BY <1>0, <1>1, <1>2, PartedMoves DEF Fetch, HasToken, Moves, Importing, store, history, Row
<1>6. Apart'
  BY <1>0, <1>1, <1>2, ApartMoves DEF Fetch, AtWork, store, history
<1>7. Tracked'
  <2> SUFFICES ASSUME ~raced, ~broken, \A q \in Requests : go[q].pc \notin Purging
               PROVE  Tracked'
    BY DEF Fetch, Tracked
  <2>1. \A q \in Syncs : go[q].pc \notin Importing
    BY <1>1, AloneAtWork DEF AtWork, Importing
  <2>2. Settled /\ UNCHANGED <<item, notes, sources>>
    BY <2>1 DEF ConnInv, Tracked, Fetch, store
  <2>3. (Live(sources) = {} /\ Live(notes) = {}) \/ item # NoItem
    BY <2>2, SyncsOrRequests DEF Settled, Purging
  <2>4. go'[p] = r /\ r.pc \in {"note", "clear"} /\ r.text \in Texts /\ r.note = item.note
    BY <1>1, <1>2 DEF Moves
  <2>5. item = NoItem => item.note = 0
    BY IdleIs
  <2>6. Halfway(p)'
    <3>1. CASE item = NoItem
      BY <1>1, <2>2, <2>3, <2>4, <2>5, <3>1 DEF Halfway, Live
    <3>2. CASE item # NoItem
      BY <1>1, <2>2, <2>4, <3>2 DEF Halfway, Settled, Agree, Live
    <3> QED  BY <3>1, <3>2
  <2> QED  BY <1>1, <1>2, <2>4, <2>6, ImportMoves DEF AtWork, Importing
<1> QED  BY <1>3, <1>4, <1>5, <1>6, <1>7 DEF ConnInv

LEMMA ClearSourcesKeeps ==
  ASSUME ConnInv, NEW p \in Syncs, ClearSources(p)
  PROVE  ConnInv'
<1>0. ConnTypeOK /\ p \in Procs /\ p \notin Requests /\ go[p] \in Locals /\ conn \in Row /\ go[p].row \in Row
  BY SyncsOrRequests DEF ConnInv, ConnTypeOK, Locals
<1>1. PICK r \in Locals : go' = [go EXCEPT ![p] = r] /\ r = [go[p] EXCEPT !.pc = "note"] /\ r.pc = "note" /\ go[p].pc = "clear"
  <2> DEFINE r == [go[p] EXCEPT !.pc = "note"]
  <2>1. r \in Locals
    BY <1>0, IdleIs, RowsMove DEF ClearSources, Locals, SyncPc, RequestPc, AtWork, Importing, Purging
  <2>2. go' = [go EXCEPT ![p] = r]
    BY <1>0 DEF ClearSources, Goto, Ends, Release, Started, StartsFrom, Imported
  <2>3. r = [go[p] EXCEPT !.pc = "note"] /\ r.pc = "note" /\ go[p].pc = "clear"
    BY <1>0, RowsMove DEF ClearSources, Locals, Idle, StartsFrom
  <2> QED  BY <2>1, <2>2, <2>3
<1>2. Moves(p, r)
  BY <1>0, <1>1, GoMoves
<1>c. conn' \in Row /\ sources' \in Seq(TextsOrNone)
  BY <1>0, SourcesCleared DEF ClearSources
<1>3. ConnTypeOK'
  BY <1>0, <1>1, <1>2, <1>c, SyncsOrRequests, IdleIs DEF ClearSources, ConnTypeOK, Moves, SyncPc, RequestPc, AtWork, Importing, Purging, store, history
<1>4. SyncingIsAtWork'
  BY <1>0, <1>1, <1>2, SyncingMoves DEF ClearSources, AtWork, store, history, Row
<1>5. Parted'
  BY <1>0, <1>1, <1>2, PartedMoves DEF ClearSources, HasToken, Moves, Importing, store, history, Row
<1>6. Apart'
  BY <1>0, <1>1, <1>2, ApartMoves DEF ClearSources, AtWork, store, history
<1>7. Tracked'
  <2> SUFFICES ASSUME ~raced, ~broken
               PROVE  Tracked'
    BY DEF Tracked, ClearSources, history
  <2>1. Halfway(p) /\ \A q \in Requests : go[q].pc \notin Purging
    BY <1>1, ImportStands DEF Importing
  <2>2. Live(sources)' = Live(sources) \ item.maps
    BY <1>0, SourcesCleared DEF ClearSources
  <2>3. go'[p] = r /\ r.note = go[p].note /\ r.text = go[p].text
    BY <1>0, <1>1, <1>2 DEF Moves, Locals
  <2>4. item # NoItem /\ r.note = item.note /\ Agree /\ r.text \in Texts
    BY <1>1, <2>1, <2>3 DEF Halfway
  <2>5. Live(sources)' = {}
    BY <2>2, <2>4 DEF Agree
  <2>6. Live(notes)' = {r.note} \ {0}
    BY <2>4 DEF Agree, ClearSources, Live
  <2>h. Halfway(p)'
    BY <1>1, <2>3, <2>4, <2>5, <2>6 DEF Halfway
  <2> QED  BY <1>1, <1>2, <2>1, <2>h, ImportMoves DEF AtWork, Importing
<1> QED  BY <1>3, <1>4, <1>5, <1>6, <1>7 DEF ConnInv

LEMMA WriteNoteKeeps ==
  ASSUME ConnInv, NEW p \in Syncs, WriteNote(p)
  PROVE  ConnInv'
<1>0. ConnTypeOK /\ p \in Procs /\ p \notin Requests /\ go[p] \in Locals /\ conn \in Row /\ go[p].row \in Row
     /\ Len(notes) + 1 \in Nat /\ Len(sources) + 1 \in Nat
  BY SyncsOrRequests, LenProperties DEF ConnInv, ConnTypeOK, Locals
<1>1. PICK r \in Locals : go' = [go EXCEPT ![p] = r] /\ /\ r.pc = "source" /\ r.text = go[p].text /\ go[p].pc = "note"
       /\ r.note = IF go[p].note = 0 THEN Len(notes) + 1 ELSE go[p].note
  <2> DEFINE r == [go[p] EXCEPT !.pc = "source", !.note = IF go[p].note = 0 THEN Len(notes) + 1 ELSE go[p].note]
  <2>1. r \in Locals
    BY <1>0, IdleIs, RowsMove DEF WriteNote, Locals, SyncPc, RequestPc, AtWork, Importing, Purging
  <2>2. go' = [go EXCEPT ![p] = r]
    BY <1>0 DEF WriteNote, Goto, Ends, Release, Started, StartsFrom, Imported
  <2>3. /\ r.pc = "source" /\ r.text = go[p].text /\ go[p].pc = "note"
       /\ r.note = IF go[p].note = 0 THEN Len(notes) + 1 ELSE go[p].note
    BY <1>0, RowsMove DEF WriteNote, Locals, Idle, StartsFrom
  <2> QED  BY <2>1, <2>2, <2>3
<1>2. Moves(p, r)
  BY <1>0, <1>1, GoMoves
<1>c. conn' \in Row /\ notes' \in Seq(TextsOrNone)
  <2>1. notes \in Seq(TextsOrNone) /\ go[p].note \in Nat /\ go[p].text \in TextsOrNone
    BY <1>0 DEF Locals, ConnTypeOK
  <2>2. /\ Append(notes, go[p].text) \in Seq(TextsOrNone)
        /\ [notes EXCEPT ![go[p].note] = go[p].text] \in Seq(TextsOrNone)
    BY <2>1, RowsAppended, RowsPatched
  <2> QED  BY <1>0, <2>1, <2>2 DEF WriteNote
<1>3. ConnTypeOK'
  BY <1>0, <1>1, <1>2, <1>c, SyncsOrRequests, IdleIs DEF WriteNote, ConnTypeOK, Moves, SyncPc, RequestPc, AtWork, Importing, Purging, store, history
<1>4. SyncingIsAtWork'
  BY <1>0, <1>1, <1>2, SyncingMoves DEF WriteNote, AtWork, store, history, Row
<1>5. Parted'
  BY <1>0, <1>1, <1>2, PartedMoves DEF WriteNote, HasToken, Moves, Importing, store, history, Row
<1>6. Apart'
  BY <1>0, <1>1, <1>2, ApartMoves DEF WriteNote, AtWork, store, history
<1>7. Tracked'
  <2> SUFFICES ASSUME ~raced, ~broken
               PROVE  Tracked'
    BY DEF Tracked, WriteNote, history
  <2>1. Halfway(p) /\ \A q \in Requests : go[q].pc \notin Purging
    BY <1>1, ImportStands DEF Importing
  <2>2. go'[p] = r /\ r.text \in Texts /\ Live(notes) = {go[p].note} \ {0} /\ Live(sources) = {}
    BY <1>1, <1>2, <2>1 DEF Moves, Halfway
  <2>3. notes \in Seq(TextsOrNone) /\ go[p].note \in Nat /\ go[p].text \in Texts
    BY <1>0, <1>1, <2>2 DEF ConnTypeOK, Locals
  <2>4. Live(notes)' = {r.note} /\ notes'[r.note] = r.text
    <3>1. CASE go[p].note = 0
      <4>1. notes' = Append(notes, go[p].text)
        BY <3>1 DEF WriteNote
      <4>2. go[p].text \in TextsOrNone
        BY <2>3 DEF TextsOrNone
      <4> QED  BY <1>1, <2>2, <2>3, <3>1, <4>1, <4>2, LiveRows, RowsAppended
    <3>2. CASE go[p].note # 0
      <4>1. go[p].note \in Live(notes)
        BY <2>2, <3>2
      <4>2. notes' = [notes EXCEPT ![go[p].note] = go[p].text]
        BY <3>2, <4>1 DEF WriteNote, Live
      <4>5. PICK n \in Live(notes), text \in Texts : n = go[p].note /\ text = go[p].text
        BY <2>3, <4>1
      <4>6. notes' = [notes EXCEPT ![n] = text]
        BY <4>2, <4>5
      <4>7. Live([notes EXCEPT ![n] = text]) = Live(notes) /\ [notes EXCEPT ![n] = text][n] = text
        BY <2>3, LivePatched
      <4>3. Live(notes') = Live(notes) /\ notes'[go[p].note] = go[p].text
        BY <4>5, <4>6, <4>7
      <4> QED  BY <1>1, <2>2, <3>2, <4>3
    <3> QED  BY <3>1, <3>2
  <2>h. Halfway(p)'
    BY <1>1, <2>2, <2>4 DEF Halfway, WriteNote, Live
  <2> QED  BY <1>1, <1>2, <2>1, <2>h, ImportMoves DEF AtWork, Importing
<1> QED  BY <1>3, <1>4, <1>5, <1>6, <1>7 DEF ConnInv

LEMMA InsertSourceKeeps ==
  ASSUME ConnInv, NEW p \in Syncs, InsertSource(p)
  PROVE  ConnInv'
<1>0. ConnTypeOK /\ p \in Procs /\ p \notin Requests /\ go[p] \in Locals /\ conn \in Row /\ go[p].row \in Row
     /\ Len(notes) + 1 \in Nat /\ Len(sources) + 1 \in Nat
  BY SyncsOrRequests, LenProperties DEF ConnInv, ConnTypeOK, Locals
<1>1. PICK r \in Locals : go' = [go EXCEPT ![p] = r] /\ /\ r.pc = "item" /\ r.text = go[p].text /\ r.note = go[p].note /\ go[p].pc = "source"
       /\ r.source = Len(sources) + 1
  <2> DEFINE r == [go[p] EXCEPT !.pc = "item", !.source = Len(sources) + 1]
  <2>1. r \in Locals
    BY <1>0, IdleIs, RowsMove DEF InsertSource, Locals, SyncPc, RequestPc, AtWork, Importing, Purging
  <2>2. go' = [go EXCEPT ![p] = r]
    BY <1>0 DEF InsertSource, Goto, Ends, Release, Started, StartsFrom, Imported
  <2>3. /\ r.pc = "item" /\ r.text = go[p].text /\ r.note = go[p].note /\ go[p].pc = "source"
       /\ r.source = Len(sources) + 1
    BY <1>0, RowsMove DEF InsertSource, Locals, Idle, StartsFrom
  <2> QED  BY <2>1, <2>2, <2>3
<1>2. Moves(p, r)
  BY <1>0, <1>1, GoMoves
<1>c. conn' \in Row /\ sources' \in Seq(TextsOrNone)
  BY <1>0, RowsAppended DEF InsertSource, Locals, ConnTypeOK
<1>3. ConnTypeOK'
  BY <1>0, <1>1, <1>2, <1>c, SyncsOrRequests, IdleIs DEF InsertSource, ConnTypeOK, Moves, SyncPc, RequestPc, AtWork, Importing, Purging, store, history
<1>4. SyncingIsAtWork'
  BY <1>0, <1>1, <1>2, SyncingMoves DEF InsertSource, AtWork, store, history, Row
<1>5. Parted'
  BY <1>0, <1>1, <1>2, PartedMoves DEF InsertSource, HasToken, Moves, Importing, store, history, Row
<1>6. Apart'
  BY <1>0, <1>1, <1>2, ApartMoves DEF InsertSource, AtWork, store, history
<1>7. Tracked'
  <2> SUFFICES ASSUME ~raced, ~broken
               PROVE  Tracked'
    BY DEF Tracked, InsertSource, history
  <2>1. Halfway(p) /\ \A q \in Requests : go[q].pc \notin Purging
    BY <1>1, ImportStands DEF Importing
  <2>2. go'[p] = r /\ r.text \in Texts /\ Live(notes) = {r.note} /\ notes[r.note] = r.text /\ Live(sources) = {}
    BY <1>1, <1>2, <2>1 DEF Moves, Halfway
  <2>3. Live(sources)' = {r.source} /\ sources'[r.source] = r.text
    <3>1. sources \in Seq(TextsOrNone) /\ go[p].text \in Texts /\ go[p].text \in TextsOrNone
      BY <1>0, <1>1, <2>2 DEF ConnTypeOK, TextsOrNone
    <3>2. sources' = Append(sources, go[p].text)
      BY DEF InsertSource
    <3> QED  BY <1>1, <2>2, <3>1, <3>2, LiveRows, RowsAppended
  <2>h. Halfway(p)'
    BY <1>1, <2>2, <2>3 DEF Halfway, InsertSource, Live
  <2> QED  BY <1>1, <1>2, <2>1, <2>h, ImportMoves DEF AtWork, Importing
<1> QED  BY <1>3, <1>4, <1>5, <1>6, <1>7 DEF ConnInv

LEMMA UpsertItemKeeps ==
  ASSUME ConnInv, NEW p \in Syncs, UpsertItem(p)
  PROVE  ConnInv'
<1>0. ConnTypeOK /\ p \in Procs /\ p \notin Requests /\ go[p] \in Locals /\ conn \in Row /\ go[p].row \in Row
  BY SyncsOrRequests DEF ConnInv, ConnTypeOK, Locals
<1>1. PICK r \in Locals : go' = [go EXCEPT ![p] = r] /\ r.pc = "map" /\ go[p].pc = "item" /\ r.text = go[p].text /\ r.note = go[p].note /\ r.source = go[p].source
  <2> DEFINE r == [go[p] EXCEPT !.pc = "map"]
  <2>1. r \in Locals
    BY <1>0, IdleIs, RowsMove DEF UpsertItem, Locals, SyncPc, RequestPc, AtWork, Importing, Purging
  <2>2. go' = [go EXCEPT ![p] = r]
    BY <1>0 DEF UpsertItem, Goto, Ends, Release, Started, StartsFrom, Imported
  <2>3. r.pc = "map" /\ go[p].pc = "item" /\ r.text = go[p].text /\ r.note = go[p].note /\ r.source = go[p].source
    BY <1>0, RowsMove DEF UpsertItem, Locals, Idle, StartsFrom
  <2> QED  BY <2>1, <2>2, <2>3
<1>2. Moves(p, r)
  BY <1>0, <1>1, GoMoves
<1>c. conn' \in Row /\ item' \in [hash : TextsOrNone, note : Nat, maps : SUBSET Nat]
  BY <1>0 DEF UpsertItem, Locals, ConnTypeOK
<1>3. ConnTypeOK'
  BY <1>0, <1>1, <1>2, <1>c, SyncsOrRequests, IdleIs DEF UpsertItem, ConnTypeOK, Moves, SyncPc, RequestPc, AtWork, Importing, Purging, store, history
<1>4. SyncingIsAtWork'
  BY <1>0, <1>1, <1>2, SyncingMoves DEF UpsertItem, AtWork, store, history, Row
<1>5. Parted'
  BY <1>0, <1>1, <1>2, PartedMoves DEF UpsertItem, HasToken, Moves, Importing, store, history, Row
<1>6. Apart'
  BY <1>0, <1>1, <1>2, ApartMoves DEF UpsertItem, AtWork, store, history
<1>7. Tracked'
  <2> SUFFICES ASSUME ~raced, ~broken
               PROVE  Tracked'
    BY DEF Tracked, UpsertItem, history
  <2>1. Halfway(p) /\ \A q \in Requests : go[q].pc \notin Purging
    BY <1>1, ImportStands DEF Importing
  <2>2. go'[p] = r
    BY <1>2 DEF Moves
  <2>h. Halfway(p)'
    BY <1>1, <2>1, <2>2 DEF Halfway, UpsertItem, Live
  <2> QED  BY <1>1, <1>2, <2>1, <2>h, ImportMoves DEF AtWork, Importing
<1> QED  BY <1>3, <1>4, <1>5, <1>6, <1>7 DEF ConnInv

LEMMA MapSourcesKeeps ==
  ASSUME ConnInv, NEW p \in Syncs, MapSources(p)
  PROVE  ConnInv'
<1>0. ConnTypeOK /\ p \in Procs /\ p \notin Requests /\ go[p] \in Locals /\ conn \in Row /\ go[p].row \in Row
  BY SyncsOrRequests DEF ConnInv, ConnTypeOK, Locals
<1>1. PICK r \in Locals : go' = [go EXCEPT ![p] = r] /\ r.pc = "finish" /\ go[p].pc = "map"
  <2> DEFINE r == [Idle EXCEPT !.pc = "finish", !.full = go[p].full, !.row = go[p].row, !.result = "ok"]
  <2>1. r \in Locals
    BY <1>0, IdleIs, RowsMove DEF MapSources, Locals, SyncPc, RequestPc, AtWork, Importing, Purging
  <2>2. go' = [go EXCEPT ![p] = r]
    BY <1>0 DEF MapSources, Goto, Ends, Release, Started, StartsFrom, Imported
  <2>3. r.pc = "finish" /\ go[p].pc = "map"
    BY <1>0, RowsMove DEF MapSources, Locals, Idle, StartsFrom
  <2> QED  BY <2>1, <2>2, <2>3
<1>2. Moves(p, r)
  BY <1>0, <1>1, GoMoves
<1>c. conn' \in Row /\ item' = [item EXCEPT !.maps = {go[p].source}] /\ item' \in [hash : TextsOrNone, note : Nat, maps : SUBSET Nat]
  BY <1>0 DEF MapSources, Locals, ConnTypeOK
<1>3. ConnTypeOK'
  BY <1>0, <1>1, <1>2, <1>c, SyncsOrRequests, IdleIs DEF MapSources, ConnTypeOK, Moves, SyncPc, RequestPc, AtWork, Importing, Purging, store, history
<1>4. SyncingIsAtWork'
  BY <1>0, <1>1, <1>2, SyncingMoves DEF MapSources, AtWork, store, history, Row
<1>5. Parted'
  BY <1>0, <1>1, <1>2, PartedMoves DEF MapSources, HasToken, Moves, Importing, store, history, Row
<1>6. Apart'
  BY <1>0, <1>1, <1>2, ApartMoves DEF MapSources, AtWork, store, history
<1>7. Tracked'
  <2> SUFFICES ASSUME ~raced, ~broken
               PROVE  Tracked'
    BY DEF Tracked, MapSources, history
  <2>1. Halfway(p) /\ \A q \in Requests : go[q].pc \notin Purging
    BY <1>1, ImportStands DEF Importing
  <2>2. item'.hash = item.hash /\ item'.note = item.note /\ item'.maps = {go[p].source} /\ UNCHANGED <<notes, sources>>
    BY <1>0, <1>c DEF MapSources, ConnTypeOK
  <2>3. /\ go[p].text \in Texts /\ item.hash = go[p].text /\ item.note = go[p].note
        /\ Live(notes) = {go[p].note} /\ notes[go[p].note] = go[p].text
        /\ Live(sources) = {go[p].source} /\ sources[go[p].source] = go[p].text
    BY <1>1, <2>1 DEF Halfway
  <2>4. go[p].note # 0
    BY <2>3, LiveRows DEF ConnInv, ConnTypeOK
  <2>5. item' # NoItem
    BY <2>2, <2>3, IdleIs, ConnectorsNulls
  <2>6. Agree'
    BY <2>2, <2>3, <2>4 DEF Agree, Live
  <2>7. \A q \in Requests : go'[q].pc \notin Purging
    BY <1>2, <2>1, SyncsOrRequests DEF Moves
  <2>h. Settled'
    BY <2>5, <2>6, <2>7 DEF Settled
  <2> QED  BY <1>1, <1>2, <2>1, <2>h, ImportMoves DEF AtWork, Importing
<1> QED  BY <1>3, <1>4, <1>5, <1>6, <1>7 DEF ConnInv

-----------------------------------------------------------------------------
(* The requests.                                                            *)

\* What a purge under way may rely on, when nothing went wrong.
LEMMA PurgeStands ==
  ASSUME ConnInv, ~raced, ~broken, NEW p \in Requests, go[p].pc \in Purging
  PROVE  Settled /\ \A q \in Syncs : go[q].pc \notin Importing
  BY DEF ConnInv, Tracked

LEMMA PurgeMoves ==
  ASSUME ConnInv, NEW p \in Requests, NEW r \in Locals, Moves(p, r),
         \A q \in Syncs : go[q].pc \notin Importing, Settled'
  PROVE  Tracked'
<1>1. \A q \in Syncs : go'[q].pc \notin Importing
  BY SyncsOrRequests DEF Moves
<1> QED  BY <1>1 DEF Tracked

LEMMA StartAuthorizeKeeps ==
  ASSUME ConnInv, NEW p \in Requests, StartAuthorize(p)
  PROVE  ConnInv'
<1>0. ConnTypeOK /\ p \in Procs /\ p \notin Syncs /\ go[p] \in Locals /\ conn \in Row /\ go[p].row \in Row
  BY SyncsOrRequests DEF ConnInv, ConnTypeOK, Locals
<1>1. PICK r \in Locals : go' = [go EXCEPT ![p] = r] /\ r = go[p]
  <2> DEFINE r == go[p]
  <2>1. r \in Locals
    BY <1>0, IdleIs, RowsMove DEF StartAuthorize, Locals, SyncPc, RequestPc, AtWork, Importing, Purging, ConnTypeOK
  <2>2. go' = [go EXCEPT ![p] = r]
    BY <1>0 DEF StartAuthorize, Goto, Ends, Release, Started, StartsFrom, Imported, ConnTypeOK
  <2>3. r = go[p]
    BY <1>0, RowsMove DEF StartAuthorize, Locals, Idle, StartsFrom, ConnTypeOK
  <2> QED  BY <2>1, <2>2, <2>3
<1>2. Moves(p, r)
  BY <1>0, <1>1, GoMoves
<1>c. conn' \in Row
  BY <1>0, <1>1, RowsMove, IdleIs DEF StartAuthorize, store, history
<1>3. ConnTypeOK'
  BY <1>0, <1>1, <1>2, <1>c, SyncsOrRequests, IdleIs DEF StartAuthorize, ConnTypeOK, Moves, SyncPc, RequestPc, AtWork, Importing, Purging, store, history
<1>4. SyncingIsAtWork'
  BY <1>0, <1>1, <1>2, SyncingMoves DEF StartAuthorize, AtWork, store, history, Row
<1>5. Parted'
  BY <1>0, <1>1, <1>2, PartedMoves DEF StartAuthorize, HasToken, Moves, Importing, store, history, Row
<1>6. Apart'
  BY <1>0, <1>1, <1>2, ApartMoves DEF StartAuthorize, AtWork, store, history
<1>7. Tracked'
  BY <1>0, <1>1, <1>2, TrackedRests DEF StartAuthorize, Moves, Importing, Purging, store, history
<1> QED  BY <1>3, <1>4, <1>5, <1>6, <1>7 DEF ConnInv

LEMMA StartCallbackKeeps ==
  ASSUME ConnInv, NEW p \in Requests, StartCallback(p)
  PROVE  ConnInv'
<1>0. ConnTypeOK /\ p \in Procs /\ p \notin Syncs /\ go[p] \in Locals /\ conn \in Row /\ go[p].row \in Row
  BY SyncsOrRequests DEF ConnInv, ConnTypeOK, Locals
<1>1. PICK r \in Locals : go' = [go EXCEPT ![p] = r] /\ r.pc = "consume" /\ go[p].pc = "idle"
  <2> DEFINE r == [Idle EXCEPT !.pc = "consume", !.row = NoRow, !.note = 0]
  <2>1. r \in Locals
    BY <1>0, IdleIs, RowsMove DEF StartCallback, Locals, SyncPc, RequestPc, AtWork, Importing, Purging
  <2>2. go' = [go EXCEPT ![p] = r]
    BY <1>0 DEF StartCallback, Goto, Ends, Release, Started, StartsFrom, Imported
  <2>3. r.pc = "consume" /\ go[p].pc = "idle"
    BY <1>0, RowsMove DEF StartCallback, Locals, Idle, StartsFrom
  <2> QED  BY <2>1, <2>2, <2>3
<1>2. Moves(p, r)
  BY <1>0, <1>1, GoMoves
<1>c. conn' \in Row
  BY <1>0, <1>1, RowsMove, IdleIs DEF StartCallback, store, history, StartsFrom
<1>3. ConnTypeOK'
  BY <1>0, <1>1, <1>2, <1>c, SyncsOrRequests, IdleIs DEF StartCallback, ConnTypeOK, Moves, SyncPc, RequestPc, AtWork, Importing, Purging, store, history, StartsFrom
<1>4. SyncingIsAtWork'
  BY <1>0, <1>1, <1>2, SyncingMoves DEF StartCallback, AtWork, store, history, StartsFrom, Row
<1>5. Parted'
  BY <1>0, <1>1, <1>2, PartedMoves DEF StartCallback, HasToken, Moves, Importing, store, history, StartsFrom, Row
<1>6. Apart'
  BY <1>0, <1>1, <1>2, ApartMoves DEF StartCallback, AtWork, store, history, StartsFrom
<1>7. Tracked'
  BY <1>0, <1>1, <1>2, TrackedRests DEF StartCallback, Moves, Importing, Purging, store, history, StartsFrom
<1> QED  BY <1>3, <1>4, <1>5, <1>6, <1>7 DEF ConnInv

LEMMA ConsumeOAuthStateKeeps ==
  ASSUME ConnInv, NEW p \in Requests, ConsumeOAuthState(p)
  PROVE  ConnInv'
<1>0. ConnTypeOK /\ p \in Procs /\ p \notin Syncs /\ go[p] \in Locals /\ conn \in Row /\ go[p].row \in Row
  BY SyncsOrRequests DEF ConnInv, ConnTypeOK, Locals
<1>1. PICK r \in Locals : go' = [go EXCEPT ![p] = r] /\ r.pc = "connect" /\ go[p].pc = "consume"
  <2> DEFINE r == [go[p] EXCEPT !.pc = "connect"]
  <2>1. r \in Locals
    BY <1>0, IdleIs, RowsMove DEF ConsumeOAuthState, Locals, SyncPc, RequestPc, AtWork, Importing, Purging
  <2>2. go' = [go EXCEPT ![p] = r]
    BY <1>0 DEF ConsumeOAuthState, Goto, Ends, Release, Started, StartsFrom, Imported
  <2>3. r.pc = "connect" /\ go[p].pc = "consume"
    BY <1>0, RowsMove DEF ConsumeOAuthState, Locals, Idle, StartsFrom
  <2> QED  BY <2>1, <2>2, <2>3
<1>2. Moves(p, r)
  BY <1>0, <1>1, GoMoves
<1>c. conn' \in Row
  BY <1>0, <1>1, RowsMove, IdleIs DEF ConsumeOAuthState, store, history
<1>3. ConnTypeOK'
  BY <1>0, <1>1, <1>2, <1>c, SyncsOrRequests, IdleIs DEF ConsumeOAuthState, ConnTypeOK, Moves, SyncPc, RequestPc, AtWork, Importing, Purging, store, history
<1>4. SyncingIsAtWork'
  BY <1>0, <1>1, <1>2, SyncingMoves DEF ConsumeOAuthState, AtWork, store, history, Row
<1>5. Parted'
  BY <1>0, <1>1, <1>2, PartedMoves DEF ConsumeOAuthState, HasToken, Moves, Importing, store, history, Row
<1>6. Apart'
  BY <1>0, <1>1, <1>2, ApartMoves DEF ConsumeOAuthState, AtWork, store, history
<1>7. Tracked'
  BY <1>0, <1>1, <1>2, TrackedRests DEF ConsumeOAuthState, Moves, Importing, Purging, store, history
<1> QED  BY <1>3, <1>4, <1>5, <1>6, <1>7 DEF ConnInv

LEMMA StartPatchKeeps ==
  ASSUME ConnInv, NEW p \in Requests, StartPatch(p)
  PROVE  ConnInv'
<1>0. ConnTypeOK /\ p \in Procs /\ p \notin Syncs /\ go[p] \in Locals /\ conn \in Row /\ go[p].row \in Row
  BY SyncsOrRequests DEF ConnInv, ConnTypeOK, Locals
<1>1. PICK r \in Locals : go' = [go EXCEPT ![p] = r] /\ r.pc \in {"enable", "disable"} /\ go[p].pc = "idle"
  <2>1. CASE go' = [go EXCEPT ![p] = [Idle EXCEPT !.pc = "enable", !.row = NoRow, !.note = 0]]
    <3>1. [Idle EXCEPT !.pc = "enable", !.row = NoRow, !.note = 0] \in Locals
      BY <1>0, IdleIs DEF Locals, SyncPc, RequestPc, AtWork, Importing, Purging
    <3>2. LET r == [Idle EXCEPT !.pc = "enable", !.row = NoRow, !.note = 0] IN r.pc \in {"enable", "disable"} /\ go[p].pc = "idle"
      BY <1>0, <2>1 DEF StartPatch, StartsFrom, Locals, Idle, Importing, AtWork
    <3> QED  BY <2>1, <3>1, <3>2
  <2>2. CASE go' = [go EXCEPT ![p] = [Idle EXCEPT !.pc = "disable", !.row = NoRow, !.note = 0]]
    <3>1. [Idle EXCEPT !.pc = "disable", !.row = NoRow, !.note = 0] \in Locals
      BY <1>0, IdleIs DEF Locals, SyncPc, RequestPc, AtWork, Importing, Purging
    <3>2. LET r == [Idle EXCEPT !.pc = "disable", !.row = NoRow, !.note = 0] IN r.pc \in {"enable", "disable"} /\ go[p].pc = "idle"
      BY <1>0, <2>2 DEF StartPatch, StartsFrom, Locals, Idle, Importing, AtWork
    <3> QED  BY <2>2, <3>1, <3>2
  <2> QED  BY <2>1, <2>2 DEF StartPatch, StartsFrom, Ends, Goto, Release, Imported
<1>2. Moves(p, r)
  BY <1>0, <1>1, GoMoves
<1>c. conn' \in Row
  BY <1>0, <1>1, RowsMove, IdleIs DEF StartPatch, store, history, StartsFrom
<1>3. ConnTypeOK'
  BY <1>0, <1>1, <1>2, <1>c, SyncsOrRequests, IdleIs DEF StartPatch, ConnTypeOK, Moves, SyncPc, RequestPc, AtWork, Importing, Purging, store, history, StartsFrom
<1>4. SyncingIsAtWork'
  BY <1>0, <1>1, <1>2, SyncingMoves DEF StartPatch, AtWork, store, history, StartsFrom, Row
<1>5. Parted'
  BY <1>0, <1>1, <1>2, PartedMoves DEF StartPatch, HasToken, Moves, Importing, store, history, StartsFrom, Row
<1>6. Apart'
  BY <1>0, <1>1, <1>2, ApartMoves DEF StartPatch, AtWork, store, history, StartsFrom
<1>7. Tracked'
  BY <1>0, <1>1, <1>2, TrackedRests DEF StartPatch, Moves, Importing, Purging, store, history, StartsFrom
<1> QED  BY <1>3, <1>4, <1>5, <1>6, <1>7 DEF ConnInv

LEMMA PatchEnabledKeeps ==
  ASSUME ConnInv, NEW p \in Requests, PatchEnabled(p)
  PROVE  ConnInv'
<1>0. ConnTypeOK /\ p \in Procs /\ p \notin Syncs /\ go[p] \in Locals /\ conn \in Row /\ go[p].row \in Row
  BY SyncsOrRequests DEF ConnInv, ConnTypeOK, Locals
<1>1. PICK r \in Locals : go' = [go EXCEPT ![p] = r] /\ r.pc = "idle" /\ go[p].pc \in {"enable", "disable"}
  <2> DEFINE r == Idle
  <2>1. r \in Locals
    BY <1>0, IdleIs, RowsMove DEF PatchEnabled, Locals, SyncPc, RequestPc, AtWork, Importing, Purging
  <2>2. go' = [go EXCEPT ![p] = r]
    BY <1>0 DEF PatchEnabled, Goto, Ends, Release, Started, StartsFrom, Imported
  <2>3. r.pc = "idle" /\ go[p].pc \in {"enable", "disable"}
    BY <1>0, RowsMove DEF PatchEnabled, Locals, Idle, StartsFrom
  <2> QED  BY <2>1, <2>2, <2>3
<1>2. Moves(p, r)
  BY <1>0, <1>1, GoMoves
<1>c. conn' \in Row
  BY <1>0, <1>1, RowsMove, IdleIs DEF PatchEnabled, store, history, Row
<1>3. ConnTypeOK'
  BY <1>0, <1>1, <1>2, <1>c, SyncsOrRequests, IdleIs DEF PatchEnabled, ConnTypeOK, Moves, SyncPc, RequestPc, AtWork, Importing, Purging, store, history
<1>4. SyncingIsAtWork'
  BY <1>0, <1>1, <1>2, SyncingMoves DEF PatchEnabled, AtWork, store, history, Row, Row
<1>5. Parted'
  BY <1>0, <1>1, <1>2, PartedMoves DEF PatchEnabled, HasToken, Moves, Importing, store, history, Row, Row
<1>6. Apart'
  BY <1>0, <1>1, <1>2, ApartMoves DEF PatchEnabled, AtWork, store, history, Row
<1>7. Tracked'
  BY <1>0, <1>1, <1>2, TrackedRests DEF PatchEnabled, Moves, Importing, Purging, store, history, Row
<1> QED  BY <1>3, <1>4, <1>5, <1>6, <1>7 DEF ConnInv

LEMMA StartDisconnectKeeps ==
  ASSUME ConnInv, NEW p \in Requests, StartDisconnect(p)
  PROVE  ConnInv'
<1>0. ConnTypeOK /\ p \in Procs /\ p \notin Syncs /\ go[p] \in Locals /\ conn \in Row /\ go[p].row \in Row
  BY SyncsOrRequests DEF ConnInv, ConnTypeOK, Locals
<1>1. PICK r \in Locals : go' = [go EXCEPT ![p] = r] /\ r.pc = "disconnect" /\ go[p].pc = "idle"
  <2> DEFINE r == [Idle EXCEPT !.pc = "disconnect", !.row = NoRow, !.note = 0]
  <2>1. r \in Locals
    BY <1>0, IdleIs, RowsMove DEF StartDisconnect, Locals, SyncPc, RequestPc, AtWork, Importing, Purging
  <2>2. go' = [go EXCEPT ![p] = r]
    BY <1>0 DEF StartDisconnect, Goto, Ends, Release, Started, StartsFrom, Imported
  <2>3. r.pc = "disconnect" /\ go[p].pc = "idle"
    BY <1>0, RowsMove DEF StartDisconnect, Locals, Idle, StartsFrom
  <2> QED  BY <2>1, <2>2, <2>3
<1>2. Moves(p, r)
  BY <1>0, <1>1, GoMoves
<1>c. conn' \in Row
  BY <1>0, <1>1, RowsMove, IdleIs DEF StartDisconnect, store, history, StartsFrom
<1>3. ConnTypeOK'
  BY <1>0, <1>1, <1>2, <1>c, SyncsOrRequests, IdleIs DEF StartDisconnect, ConnTypeOK, Moves, SyncPc, RequestPc, AtWork, Importing, Purging, store, history, StartsFrom
<1>4. SyncingIsAtWork'
  BY <1>0, <1>1, <1>2, SyncingMoves DEF StartDisconnect, AtWork, store, history, StartsFrom, Row
<1>5. Parted'
  BY <1>0, <1>1, <1>2, PartedMoves DEF StartDisconnect, HasToken, Moves, Importing, store, history, StartsFrom, Row
<1>6. Apart'
  BY <1>0, <1>1, <1>2, ApartMoves DEF StartDisconnect, AtWork, store, history, StartsFrom
<1>7. Tracked'
  BY <1>0, <1>1, <1>2, TrackedRests DEF StartDisconnect, Moves, Importing, Purging, store, history, StartsFrom
<1> QED  BY <1>3, <1>4, <1>5, <1>6, <1>7 DEF ConnInv

LEMMA ClearCredentialsKeeps ==
  ASSUME ConnInv, NEW p \in Requests, ClearCredentials(p)
  PROVE  ConnInv'
<1>0. ConnTypeOK /\ p \in Procs /\ p \notin Syncs /\ go[p] \in Locals /\ conn \in Row /\ go[p].row \in Row
  BY SyncsOrRequests DEF ConnInv, ConnTypeOK, Locals
<1>1. PICK r \in Locals : go' = [go EXCEPT ![p] = r] /\ r.pc = "idle" /\ go[p].pc = "disconnect"
  <2> DEFINE r == Idle
  <2>1. r \in Locals
    BY <1>0, IdleIs, RowsMove DEF ClearCredentials, Locals, SyncPc, RequestPc, AtWork, Importing, Purging
  <2>2. go' = [go EXCEPT ![p] = r]
    BY <1>0 DEF ClearCredentials, Goto, Ends, Release, Started, StartsFrom, Imported
  <2>3. r.pc = "idle" /\ go[p].pc = "disconnect"
    BY <1>0, RowsMove DEF ClearCredentials, Locals, Idle, StartsFrom
  <2> QED  BY <2>1, <2>2, <2>3
<1>2. Moves(p, r)
  BY <1>0, <1>1, GoMoves
<1>c. conn' \in Row
  BY <1>0, <1>1, RowsMove, IdleIs DEF ClearCredentials, store, history, Row
<1>3. ConnTypeOK'
  BY <1>0, <1>1, <1>2, <1>c, SyncsOrRequests, IdleIs DEF ClearCredentials, ConnTypeOK, Moves, SyncPc, RequestPc, AtWork, Importing, Purging, store, history
<1>4. SyncingIsAtWork'
  BY <1>0, <1>1, <1>2, SyncingMoves DEF ClearCredentials, AtWork, store, history, Row, Row
<1>5. Parted'
  <2>1. \A q \in Procs : HasToken(q)' => HasToken(q)
    BY <1>1, <1>2 DEF Moves, HasToken, Importing
  <2>2. \A q \in Requests : go'[q].pc = "live" => go'[q].row.token
    BY <1>1, <1>2, SyncsOrRequests DEF Moves, ConnInv, Parted
  <2>3. ~conn'.token /\ conn'.status = "disconnected"
    BY <1>0 DEF ClearCredentials, Row
  <2> QED  BY <2>1, <2>2, <2>3 DEF Parted, ClearCredentials
<1>6. Apart'
  BY <1>0, <1>1, <1>2, ApartMoves DEF ClearCredentials, AtWork, store, history, Row
<1>7. Tracked'
  BY <1>0, <1>1, <1>2, TrackedRests DEF ClearCredentials, Moves, Importing, Purging, store, history, Row
<1> QED  BY <1>3, <1>4, <1>5, <1>6, <1>7 DEF ConnInv

LEMMA StartPurgeKeeps ==
  ASSUME ConnInv, NEW p \in Requests, StartPurge(p)
  PROVE  ConnInv'
<1>0. ConnTypeOK /\ p \in Procs /\ p \notin Syncs /\ go[p] \in Locals /\ conn \in Row /\ go[p].row \in Row
     /\ item.note \in Nat
  BY SyncsOrRequests DEF ConnInv, ConnTypeOK, Locals
<1>1. PICK r \in Locals : go' = [go EXCEPT ![p] = r] /\ r.pc = "purgeItems" /\ go[p].pc = "idle" /\ r.note = item.note
  <2> DEFINE r == [Idle EXCEPT !.pc = "purgeItems", !.row = NoRow, !.note = item.note]
  <2>1. r \in Locals
    BY <1>0, IdleIs, RowsMove DEF StartPurge, Locals, SyncPc, RequestPc, AtWork, Importing, Purging
  <2>2. go' = [go EXCEPT ![p] = r]
    BY <1>0 DEF StartPurge, Goto, Ends, Release, Started, StartsFrom, Imported
  <2>3. r.pc = "purgeItems" /\ go[p].pc = "idle" /\ r.note = item.note
    BY <1>0, RowsMove DEF StartPurge, Locals, Idle, StartsFrom
  <2> QED  BY <2>1, <2>2, <2>3
<1>2. Moves(p, r)
  BY <1>0, <1>1, GoMoves
<1>c. conn' \in Row
  BY <1>0, <1>1, RowsMove, IdleIs DEF StartPurge, store, history, StartsFrom
<1>3. ConnTypeOK'
  BY <1>0, <1>1, <1>2, <1>c, SyncsOrRequests, IdleIs DEF StartPurge, ConnTypeOK, Moves, SyncPc, RequestPc, AtWork, Importing, Purging, store, history, StartsFrom
<1>4. SyncingIsAtWork'
  BY <1>0, <1>1, <1>2, SyncingMoves DEF StartPurge, AtWork, store, history, StartsFrom, Row
<1>5. Parted'
  BY <1>0, <1>1, <1>2, PartedMoves DEF StartPurge, HasToken, Moves, Importing, store, history, StartsFrom, Row
<1>6. Apart'
  BY <1>0, <1>1, <1>2, ApartMoves DEF StartPurge, AtWork, store, history, StartsFrom
<1>7. Tracked'
  <2> SUFFICES ASSUME ~raced, ~broken, \A q \in Syncs : go[q].pc \notin Importing
               PROVE  Tracked'
    BY DEF Tracked, StartPurge
  <2>1. Settled /\ UNCHANGED <<item, notes, sources>>
    BY DEF ConnInv, Tracked, StartPurge, StartsFrom, store
  <2>2. \A q \in Requests \ {p} : go'[q] = go[q]
    BY <1>2, SyncsOrRequests DEF Moves
  <2>3. go'[p].pc = "purgeItems" /\ go'[p].note = item.note
    BY <1>1, <1>2 DEF Moves
  <2>4. Settled'
    <3>1. UNCHANGED <<Live(notes), Live(sources), Agree>>
      BY <2>1 DEF Live, Agree
    <3>2. CASE item = NoItem
      BY <1>1, <2>1, <2>2, <3>1, <3>2 DEF Settled, Purging
    <3>3. CASE item # NoItem
      BY <2>1, <2>2, <2>3, <3>1, <3>3 DEF Settled
    <3> QED  BY <3>2, <3>3
  <2> QED  BY <1>2, <2>4, PurgeMoves
<1> QED  BY <1>3, <1>4, <1>5, <1>6, <1>7 DEF ConnInv

LEMMA PurgeItemsKeeps ==
  ASSUME ConnInv, NEW p \in Requests, PurgeItems(p)
  PROVE  ConnInv'
<1>0. ConnTypeOK /\ p \in Procs /\ p \notin Syncs /\ go[p] \in Locals /\ conn \in Row /\ go[p].row \in Row
  BY SyncsOrRequests DEF ConnInv, ConnTypeOK, Locals
<1>1. PICK r \in Locals : go' = [go EXCEPT ![p] = r] /\ r.pc = "purgeNotes" /\ go[p].pc = "purgeItems" /\ r.note = go[p].note
  <2> DEFINE r == [go[p] EXCEPT !.pc = "purgeNotes"]
  <2>1. r \in Locals
    BY <1>0, IdleIs, RowsMove DEF PurgeItems, Locals, SyncPc, RequestPc, AtWork, Importing, Purging
  <2>2. go' = [go EXCEPT ![p] = r]
    BY <1>0 DEF PurgeItems, Goto, Ends, Release, Started, StartsFrom, Imported
  <2>3. r.pc = "purgeNotes" /\ go[p].pc = "purgeItems" /\ r.note = go[p].note
    BY <1>0, RowsMove DEF PurgeItems, Locals, Idle, StartsFrom
  <2> QED  BY <2>1, <2>2, <2>3
<1>2. Moves(p, r)
  BY <1>0, <1>1, GoMoves
<1>c. conn' \in Row /\ item' \in [hash : TextsOrNone, note : Nat, maps : SUBSET Nat]
  BY <1>0, IdleIs DEF PurgeItems
<1>3. ConnTypeOK'
  BY <1>0, <1>1, <1>2, <1>c, SyncsOrRequests, IdleIs DEF PurgeItems, ConnTypeOK, Moves, SyncPc, RequestPc, AtWork, Importing, Purging, store, history
<1>4. SyncingIsAtWork'
  BY <1>0, <1>1, <1>2, SyncingMoves DEF PurgeItems, AtWork, store, history, Row
<1>5. Parted'
  BY <1>0, <1>1, <1>2, PartedMoves DEF PurgeItems, HasToken, Moves, Importing, store, history, Row
<1>6. Apart'
  BY <1>0, <1>1, <1>2, ApartMoves DEF PurgeItems, AtWork, store, history
<1>7. Tracked'
  <2> SUFFICES ASSUME ~raced, ~broken
               PROVE  Tracked'
    BY DEF Tracked, PurgeItems, history
  <2>1. Settled /\ \A q \in Syncs : go[q].pc \notin Importing
    BY <1>1, PurgeStands DEF Purging
  <2>2. \A q \in Requests \ {p} : go'[q] = go[q]
    BY <1>2, SyncsOrRequests DEF Moves
  <2>3. go'[p].pc = "purgeNotes" /\ go'[p].note = go[p].note
    BY <1>1, <1>2 DEF Moves
  <2>4. \A n \in Live(notes) : \E q \in Requests : go'[q].pc \in {"purgeItems", "purgeNotes"} /\ go'[q].note = n
    <3>1. CASE item = NoItem
      BY <2>1, <2>2, <2>3, <3>1 DEF Settled
    <3>2. CASE item # NoItem
      BY <1>1, <2>1, <2>3, <3>2 DEF Settled, Agree, Purging
    <3> QED  BY <3>1, <3>2
  <2>5. item' = NoItem /\ UNCHANGED <<notes, sources>>
    BY DEF PurgeItems
  <2>6. Settled'
    BY <2>3, <2>4, <2>5 DEF Settled, Purging, Live
  <2> QED  BY <1>2, <2>1, <2>6, PurgeMoves
<1> QED  BY <1>3, <1>4, <1>5, <1>6, <1>7 DEF ConnInv

LEMMA PurgeNotesKeeps ==
  ASSUME ConnInv, NEW p \in Requests, PurgeNotes(p)
  PROVE  ConnInv'
<1>0. ConnTypeOK /\ p \in Procs /\ p \notin Syncs /\ go[p] \in Locals /\ conn \in Row /\ go[p].row \in Row
  BY SyncsOrRequests DEF ConnInv, ConnTypeOK, Locals
<1>1. PICK r \in Locals : go' = [go EXCEPT ![p] = r] /\ r.pc = "purgeSources" /\ go[p].pc = "purgeNotes"
  <2> DEFINE r == [go[p] EXCEPT !.pc = "purgeSources"]
  <2>1. r \in Locals
    BY <1>0, IdleIs, RowsMove DEF PurgeNotes, Locals, SyncPc, RequestPc, AtWork, Importing, Purging
  <2>2. go' = [go EXCEPT ![p] = r]
    BY <1>0 DEF PurgeNotes, Goto, Ends, Release, Started, StartsFrom, Imported
  <2>3. r.pc = "purgeSources" /\ go[p].pc = "purgeNotes"
    BY <1>0, RowsMove DEF PurgeNotes, Locals, Idle, StartsFrom
  <2> QED  BY <2>1, <2>2, <2>3
<1>2. Moves(p, r)
  BY <1>0, <1>1, GoMoves
<1>c. conn' \in Row /\ notes' \in Seq(TextsOrNone) /\ Live(notes)' = Live(notes) \ {go[p].note}
  <2>1. notes \in Seq(TextsOrNone) /\ go[p].note \in Nat /\ NoText \in TextsOrNone
    BY <1>0 DEF Locals, ConnTypeOK, TextsOrNone
  <2>2. CASE go[p].note = 0
    BY <1>0, <2>1, <2>2, LenProperties DEF PurgeNotes, Live
  <2>3. CASE go[p].note # 0
    <3>1. PICK n \in Nat : n = go[p].note
      BY <2>1
    <3>2. [notes EXCEPT ![n] = NoText] \in Seq(TextsOrNone)
      BY <2>1, RowsPatched
    <3>3. notes' = [notes EXCEPT ![n] = NoText]
      BY <2>3, <3>1 DEF PurgeNotes
    <3>4. Live(notes') = Live(notes) \ {n}
      BY <2>1, <3>3 DEF Live
    <3> QED  BY <1>0, <3>1, <3>2, <3>3, <3>4 DEF PurgeNotes
  <2> QED  BY <2>2, <2>3
<1>3. ConnTypeOK'
  BY <1>0, <1>1, <1>2, <1>c, SyncsOrRequests, IdleIs DEF PurgeNotes, ConnTypeOK, Moves, SyncPc, RequestPc, AtWork, Importing, Purging, store, history
<1>4. SyncingIsAtWork'
  BY <1>0, <1>1, <1>2, SyncingMoves DEF PurgeNotes, AtWork, store, history, Row
<1>5. Parted'
  BY <1>0, <1>1, <1>2, PartedMoves DEF PurgeNotes, HasToken, Moves, Importing, store, history, Row
<1>6. Apart'
  BY <1>0, <1>1, <1>2, ApartMoves DEF PurgeNotes, AtWork, store, history
<1>7. Tracked'
  <2> SUFFICES ASSUME ~raced, ~broken
               PROVE  Tracked'
    BY DEF Tracked, PurgeNotes, history
  <2>1. Settled /\ \A q \in Syncs : go[q].pc \notin Importing
    BY <1>1, PurgeStands DEF Purging
  <2>2. \A q \in Requests \ {p} : go'[q] = go[q]
    BY <1>2, SyncsOrRequests DEF Moves
  <2>3. item = NoItem /\ UNCHANGED <<item, sources>> /\ go'[p].pc = "purgeSources"
    BY <1>1, <1>2, <2>1 DEF Settled, Purging, PurgeNotes, Moves
  <2>4. \A n \in Live(notes) : n # go[p].note =>
          \E q \in Requests : go'[q].pc \in {"purgeItems", "purgeNotes"} /\ go'[q].note = n
    BY <2>1, <2>2, <2>3 DEF Settled
  <2>5. Settled'
    BY <1>c, <2>3, <2>4 DEF Settled, Purging
  <2> QED  BY <1>2, <2>1, <2>5, PurgeMoves
<1> QED  BY <1>3, <1>4, <1>5, <1>6, <1>7 DEF ConnInv

LEMMA PurgeSourcesKeeps ==
  ASSUME ConnInv, NEW p \in Requests, PurgeSources(p)
  PROVE  ConnInv'
<1>0. ConnTypeOK /\ p \in Procs /\ p \notin Syncs /\ go[p] \in Locals /\ conn \in Row /\ go[p].row \in Row
  BY SyncsOrRequests DEF ConnInv, ConnTypeOK, Locals
<1>1. PICK r \in Locals : go' = [go EXCEPT ![p] = r] /\ r.pc = "idle" /\ go[p].pc = "purgeSources"
  <2> DEFINE r == Idle
  <2>1. r \in Locals
    BY <1>0, IdleIs, RowsMove DEF PurgeSources, Locals, SyncPc, RequestPc, AtWork, Importing, Purging
  <2>2. go' = [go EXCEPT ![p] = r]
    BY <1>0 DEF PurgeSources, Goto, Ends, Release, Started, StartsFrom, Imported
  <2>3. r.pc = "idle" /\ go[p].pc = "purgeSources"
    BY <1>0, RowsMove DEF PurgeSources, Locals, Idle, StartsFrom
  <2> QED  BY <2>1, <2>2, <2>3
<1>2. Moves(p, r)
  BY <1>0, <1>1, GoMoves
<1>c. conn' \in Row /\ sources' \in Seq(TextsOrNone) /\ Live(sources)' = {}
  BY <1>0, SourcesCleared DEF PurgeSources, Live
<1>3. ConnTypeOK'
  BY <1>0, <1>1, <1>2, <1>c, SyncsOrRequests, IdleIs DEF PurgeSources, ConnTypeOK, Moves, SyncPc, RequestPc, AtWork, Importing, Purging, store, history
<1>4. SyncingIsAtWork'
  BY <1>0, <1>1, <1>2, SyncingMoves DEF PurgeSources, AtWork, store, history, Row
<1>5. Parted'
  BY <1>0, <1>1, <1>2, PartedMoves DEF PurgeSources, HasToken, Moves, Importing, store, history, Row
<1>6. Apart'
  BY <1>0, <1>1, <1>2, ApartMoves DEF PurgeSources, AtWork, store, history
<1>7. Tracked'
  <2> SUFFICES ASSUME ~raced, ~broken
               PROVE  Tracked'
    BY DEF Tracked, PurgeSources, history
  <2>1. Settled /\ \A q \in Syncs : go[q].pc \notin Importing
    BY <1>1, PurgeStands DEF Purging
  <2>2. \A q \in Requests \ {p} : go'[q] = go[q]
    BY <1>2, SyncsOrRequests DEF Moves
  <2>3. item = NoItem /\ UNCHANGED <<item, notes>>
    BY <1>1, <2>1 DEF Settled, Purging, PurgeSources
  <2>4. \A n \in Live(notes) : \E q \in Requests : go'[q].pc \in {"purgeItems", "purgeNotes"} /\ go'[q].note = n
    BY <1>1, <2>1, <2>2, <2>3 DEF Settled
  <2>5. Settled'
    BY <1>c, <2>3, <2>4 DEF Settled, Live
  <2> QED  BY <1>2, <2>1, <2>5, PurgeMoves
<1> QED  BY <1>3, <1>4, <1>5, <1>6, <1>7 DEF ConnInv

LEMMA PurgeLostKeeps ==
  ASSUME ConnInv, NEW p \in Requests, PurgeLost(p)
  PROVE  ConnInv'
<1>0. ConnTypeOK /\ p \in Procs /\ p \notin Syncs /\ go[p] \in Locals /\ conn \in Row /\ go[p].row \in Row
  BY SyncsOrRequests DEF ConnInv, ConnTypeOK, Locals
<1>1. PICK r \in Locals : go' = [go EXCEPT ![p] = r] /\ go[p].pc \in Purging /\ r.pc \in {"purgeNotes", "purgeSources", "idle"}
  <2>1. CASE go[p].pc = "purgeItems" /\ go' = [go EXCEPT ![p] = [go[p] EXCEPT !.pc = "purgeNotes"]]
    <3>1. [go[p] EXCEPT !.pc = "purgeNotes"] \in Locals
      BY <1>0, IdleIs DEF Locals, SyncPc, RequestPc, AtWork, Importing, Purging
    <3>2. LET r == [go[p] EXCEPT !.pc = "purgeNotes"] IN go[p].pc \in Purging /\ r.pc \in {"purgeNotes", "purgeSources", "idle"}
      BY <1>0, <2>1 DEF PurgeLost, Locals, Idle, Purging
    <3> QED  BY <2>1, <3>1, <3>2
  <2>2. CASE go[p].pc = "purgeNotes" /\ go' = [go EXCEPT ![p] = [go[p] EXCEPT !.pc = "purgeSources"]]
    <3>1. [go[p] EXCEPT !.pc = "purgeSources"] \in Locals
      BY <1>0, IdleIs DEF Locals, SyncPc, RequestPc, AtWork, Importing, Purging
    <3>2. LET r == [go[p] EXCEPT !.pc = "purgeSources"] IN go[p].pc \in Purging /\ r.pc \in {"purgeNotes", "purgeSources", "idle"}
      BY <1>0, <2>2 DEF PurgeLost, Locals, Idle, Purging
    <3> QED  BY <2>2, <3>1, <3>2
  <2>3. CASE go[p].pc = "purgeSources" /\ go' = [go EXCEPT ![p] = Idle]
    <3>1. Idle \in Locals
      BY <1>0, IdleIs DEF Locals, SyncPc, RequestPc, AtWork, Importing, Purging
    <3>2. LET r == Idle IN go[p].pc \in Purging /\ r.pc \in {"purgeNotes", "purgeSources", "idle"}
      BY <1>0, <2>3 DEF PurgeLost, Locals, Idle, Purging
    <3> QED  BY <2>3, <3>1, <3>2
  <2> QED  BY <2>1, <2>2, <2>3 DEF PurgeLost, Ends, Goto, Release, Imported
<1>2. Moves(p, r)
  BY <1>0, <1>1, GoMoves
<1>c. conn' \in Row
  BY <1>0, <1>1, RowsMove, IdleIs DEF PurgeLost, store, history
<1>3. ConnTypeOK'
  BY <1>0, <1>1, <1>2, <1>c, SyncsOrRequests, IdleIs DEF PurgeLost, ConnTypeOK, Moves, SyncPc, RequestPc, AtWork, Importing, Purging, store, history
<1>4. SyncingIsAtWork'
  BY <1>0, <1>1, <1>2, SyncingMoves DEF PurgeLost, AtWork, store, history, Row
<1>5. Parted'
  BY <1>0, <1>1, <1>2, PartedMoves DEF PurgeLost, HasToken, Moves, Importing, store, history, Row
<1>6. Apart'
  BY <1>0, <1>1, <1>2, ApartMoves DEF PurgeLost, AtWork, store, history
<1>7. Tracked'
  BY TrackedLost DEF PurgeLost
<1> QED  BY <1>3, <1>4, <1>5, <1>6, <1>7 DEF ConnInv

LEMMA LoadLiveToolsKeeps ==
  ASSUME ConnInv, NEW p \in Requests, LoadLiveTools(p)
  PROVE  ConnInv'
<1>0. ConnTypeOK /\ p \in Procs /\ p \notin Syncs /\ go[p] \in Locals /\ conn \in Row /\ go[p].row \in Row
  BY SyncsOrRequests DEF ConnInv, ConnTypeOK, Locals
<1>1. PICK r \in Locals : go' = [go EXCEPT ![p] = r] /\ r.pc = "live" /\ r.row = conn /\ go[p].pc = "idle"
  <2> DEFINE r == [Idle EXCEPT !.pc = "live", !.row = conn, !.note = 0]
  <2>1. r \in Locals
    BY <1>0, IdleIs, RowsMove DEF LoadLiveTools, Locals, SyncPc, RequestPc, AtWork, Importing, Purging
  <2>2. go' = [go EXCEPT ![p] = r]
    BY <1>0 DEF LoadLiveTools, Goto, Ends, Release, Started, StartsFrom, Imported
  <2>3. r.pc = "live" /\ r.row = conn /\ go[p].pc = "idle"
    BY <1>0, RowsMove DEF LoadLiveTools, Locals, Idle, StartsFrom
  <2> QED  BY <2>1, <2>2, <2>3
<1>2. Moves(p, r)
  BY <1>0, <1>1, GoMoves
<1>c. conn' \in Row
  BY <1>0, <1>1, RowsMove, IdleIs DEF LoadLiveTools, store, history, StartsFrom
<1>3. ConnTypeOK'
  BY <1>0, <1>1, <1>2, <1>c, SyncsOrRequests, IdleIs DEF LoadLiveTools, ConnTypeOK, Moves, SyncPc, RequestPc, AtWork, Importing, Purging, store, history, StartsFrom
<1>4. SyncingIsAtWork'
  BY <1>0, <1>1, <1>2, SyncingMoves DEF LoadLiveTools, AtWork, store, history, StartsFrom, Row
<1>5. Parted'
  BY <1>0, <1>1, <1>2, PartedMoves DEF LoadLiveTools, HasToken, Moves, Importing, store, history, StartsFrom, Row
<1>6. Apart'
  BY <1>0, <1>1, <1>2, ApartMoves DEF LoadLiveTools, AtWork, store, history, StartsFrom
<1>7. Tracked'
  BY <1>0, <1>1, <1>2, TrackedRests DEF LoadLiveTools, Moves, Importing, Purging, store, history, StartsFrom
<1> QED  BY <1>3, <1>4, <1>5, <1>6, <1>7 DEF ConnInv

LEMMA LiveRefreshKeeps ==
  ASSUME ConnInv, NEW p \in Requests, LiveRefresh(p)
  PROVE  ConnInv'
<1>0. ConnTypeOK /\ p \in Procs /\ p \notin Syncs /\ go[p] \in Locals /\ conn \in Row /\ go[p].row \in Row
  BY SyncsOrRequests DEF ConnInv, ConnTypeOK, Locals
<1>1. PICK r \in Locals : go' = [go EXCEPT ![p] = r] /\ r.pc = "idle" /\ go[p].pc = "live" /\ go[p].row.token
  <2> DEFINE r == Idle
  <2>1. r \in Locals
    BY <1>0, IdleIs, RowsMove DEF LiveRefresh, Locals, SyncPc, RequestPc, AtWork, Importing, Purging, ConnInv, Parted
  <2>2. go' = [go EXCEPT ![p] = r]
    BY <1>0 DEF LiveRefresh, Goto, Ends, Release, Started, StartsFrom, Imported, ConnInv, Parted
  <2>3. r.pc = "idle" /\ go[p].pc = "live" /\ go[p].row.token
    BY <1>0, RowsMove DEF LiveRefresh, Locals, Idle, StartsFrom, ConnInv, Parted
  <2> QED  BY <2>1, <2>2, <2>3
<1>2. Moves(p, r)
  BY <1>0, <1>1, GoMoves
<1>c. conn' \in Row
  BY <1>0, <1>1, RowsMove, IdleIs DEF LiveRefresh, store, history, UpsertConnection
<1>3. ConnTypeOK'
  BY <1>0, <1>1, <1>2, <1>c, SyncsOrRequests, IdleIs DEF LiveRefresh, ConnTypeOK, Moves, SyncPc, RequestPc, AtWork, Importing, Purging, store, history
<1>4. SyncingIsAtWork'
  <2>1. p \notin Syncs /\ (go[p].row.status = "syncing" => stuck' \/ \E q \in Syncs : go[q].pc \in AtWork)
    BY <1>0 DEF LiveRefresh, NobodyAtWork
  <2>2. conn' = go[p].row
    BY DEF LiveRefresh, UpsertConnection
  <2> QED  BY <1>0, <1>2, <2>1, <2>2, SyncsOrRequests, SyncingMoves
<1>5. Parted'
  BY <1>0, <1>1, <1>2, PartedMoves DEF LiveRefresh, HasToken, Moves, Importing, store, history, Row, UpsertConnection
<1>6. Apart'
  BY <1>0, <1>1, <1>2, ApartMoves DEF LiveRefresh, AtWork, store, history, UpsertConnection
<1>7. Tracked'
  BY <1>0, <1>1, <1>2, TrackedRests DEF LiveRefresh, Moves, Importing, Purging, store, history, UpsertConnection
<1> QED  BY <1>3, <1>4, <1>5, <1>6, <1>7 DEF ConnInv

LEMMA LiveRefusedKeeps ==
  ASSUME ConnInv, NEW p \in Requests, LiveRefused(p)
  PROVE  ConnInv'
<1>0. ConnTypeOK /\ p \in Procs /\ p \notin Syncs /\ go[p] \in Locals /\ conn \in Row /\ go[p].row \in Row
  BY SyncsOrRequests DEF ConnInv, ConnTypeOK, Locals
<1>1. PICK r \in Locals : go' = [go EXCEPT ![p] = r] /\ r.pc = "idle" /\ go[p].pc = "live"
  <2> DEFINE r == Idle
  <2>1. r \in Locals
    BY <1>0, IdleIs, RowsMove DEF LiveRefused, Locals, SyncPc, RequestPc, AtWork, Importing, Purging
  <2>2. go' = [go EXCEPT ![p] = r]
    BY <1>0 DEF LiveRefused, Goto, Ends, Release, Started, StartsFrom, Imported
  <2>3. r.pc = "idle" /\ go[p].pc = "live"
    BY <1>0, RowsMove DEF LiveRefused, Locals, Idle, StartsFrom
  <2> QED  BY <2>1, <2>2, <2>3
<1>2. Moves(p, r)
  BY <1>0, <1>1, GoMoves
<1>c. conn' \in Row
  BY <1>0, <1>1, RowsMove, IdleIs DEF LiveRefused, store, history, ReauthRequired, Row
<1>3. ConnTypeOK'
  BY <1>0, <1>1, <1>2, <1>c, SyncsOrRequests, IdleIs DEF LiveRefused, ConnTypeOK, Moves, SyncPc, RequestPc, AtWork, Importing, Purging, store, history
<1>4. SyncingIsAtWork'
  BY <1>0, <1>1, <1>2, SyncingMoves DEF LiveRefused, AtWork, store, history, Row, ReauthRequired, Row
<1>5. Parted'
  BY <1>0, <1>1, <1>2, PartedMoves DEF LiveRefused, HasToken, Moves, Importing, store, history, Row, ReauthRequired, Row
<1>6. Apart'
  BY <1>0, <1>1, <1>2, ApartMoves DEF LiveRefused, AtWork, store, history, ReauthRequired, Row
<1>7. Tracked'
  BY <1>0, <1>1, <1>2, TrackedRests DEF LiveRefused, Moves, Importing, Purging, store, history, ReauthRequired, Row
<1> QED  BY <1>3, <1>4, <1>5, <1>6, <1>7 DEF ConnInv

LEMMA RequestCutKeeps ==
  ASSUME ConnInv, NEW p \in Requests, RequestCut(p)
  PROVE  ConnInv'
<1>0. ConnTypeOK /\ p \in Procs /\ p \notin Syncs /\ go[p] \in Locals /\ conn \in Row /\ go[p].row \in Row
  BY SyncsOrRequests DEF ConnInv, ConnTypeOK, Locals
<1>1. PICK r \in Locals : go' = [go EXCEPT ![p] = r] /\ r.pc = "idle"
  <2> DEFINE r == Idle
  <2>1. r \in Locals
    BY <1>0, IdleIs, RowsMove DEF RequestCut, Locals, SyncPc, RequestPc, AtWork, Importing, Purging
  <2>2. go' = [go EXCEPT ![p] = r]
    BY <1>0 DEF RequestCut, Goto, Ends, Release, Started, StartsFrom, Imported
  <2>3. r.pc = "idle"
    BY <1>0, RowsMove DEF RequestCut, Locals, Idle, StartsFrom
  <2> QED  BY <2>1, <2>2, <2>3
<1>2. Moves(p, r)
  BY <1>0, <1>1, GoMoves
<1>c. conn' \in Row
  BY <1>0, <1>1, RowsMove, IdleIs DEF RequestCut, store, history
<1>3. ConnTypeOK'
  BY <1>0, <1>1, <1>2, <1>c, SyncsOrRequests, IdleIs DEF RequestCut, ConnTypeOK, Moves, SyncPc, RequestPc, AtWork, Importing, Purging, store, history
<1>4. SyncingIsAtWork'
  BY <1>0, <1>1, <1>2, SyncingMoves DEF RequestCut, AtWork, store, history, Row
<1>5. Parted'
  BY <1>0, <1>1, <1>2, PartedMoves DEF RequestCut, HasToken, Moves, Importing, store, history, Row
<1>6. Apart'
  BY <1>0, <1>1, <1>2, ApartMoves DEF RequestCut, AtWork, store, history
<1>7. Tracked'
  <2>1. CASE go[p].pc \in Purging
    BY <2>1, TrackedLost DEF RequestCut
  <2>2. CASE go[p].pc \notin Purging
    <3>1. go[p].pc \notin Importing
      BY <1>0 DEF ConnTypeOK, RequestPc, Purging, Importing
    <3> QED  BY <1>0, <1>1, <1>2, <2>2, <3>1, TrackedRests DEF RequestCut, Moves, Importing, Purging, store
  <2> QED  BY <2>1, <2>2
<1> QED  BY <1>3, <1>4, <1>5, <1>6, <1>7 DEF ConnInv

\* The callback starts a sync: two goroutines move, neither at an import or a purge.
LEMMA HandleCallbackKeeps ==
  ASSUME ConnInv, NEW p \in Requests, HandleCallback(p)
  PROVE  ConnInv'
<1>0. ConnTypeOK /\ p \in Procs /\ p \notin Syncs /\ go \in [Procs -> Locals] /\ go[p].pc = "connect"
  BY SyncsOrRequests DEF ConnInv, ConnTypeOK, HandleCallback
<1>1. /\ go' \in [Procs -> Locals]
      /\ \A q \in Syncs : go'[q] = go[q] \/ (go[q].pc = "idle" /\ go'[q].pc = "readLease")
      /\ \A q \in Requests : go'[q] = go[q] \/ (q = p /\ go'[q] = Idle)
  <2> DEFINE begun == [Idle EXCEPT !.pc = "readLease", !.full = TRUE]
  <2>1. begun \in Locals /\ begun.pc = "readLease"
    BY IdleIs DEF Locals, SyncPc
  <2>2. CASE Ends(p)
    BY <1>0, <2>2, IdleIs, SyncsOrRequests DEF Ends
  <2>3. CASE \E q \in Syncs : go[q].pc = "idle" /\ go' = [go EXCEPT ![p] = Idle, ![q] = begun]
    <3>1. PICK q \in Syncs : go[q].pc = "idle" /\ go' = [go EXCEPT ![p] = Idle, ![q] = begun]
      BY <2>3
    <3> HIDE DEF begun
    <3>2. q \in Procs /\ q # p
      BY <1>0, SyncsOrRequests
    <3>3. /\ go' \in [Procs -> Locals] /\ go'[q] = begun /\ go'[p] = Idle
          /\ \A o \in Procs \ {p, q} : go'[o] = go[o]
      BY <1>0, <2>1, <3>1, <3>2, IdleIs
    <3> QED  BY <2>1, <3>1, <3>2, <3>3, SyncsOrRequests
  <2> QED  BY <2>2, <2>3 DEF HandleCallback
<1>2. conn' \in Row /\ conn'.status \in {"connected", "error"}
  BY DEF HandleCallback, UpsertConnection, Row, Initials
<1>3. ConnTypeOK'
  BY <1>0, <1>1, <1>2, IdleIs DEF HandleCallback, ConnTypeOK, SyncPc, RequestPc
<1>4. SyncingIsAtWork'
  BY <1>2 DEF SyncingIsAtWork
<1>5. Parted'
  BY <1>1, IdleIs DEF HandleCallback, Parted, ConnInv
<1>6. Apart'
  BY <1>1 DEF HandleCallback, ConnInv, Apart, AtWork
<1>7. Tracked'
  <2>1. \A q \in Procs : \/ go'[q] = go[q]
                         \/ go[q].pc \notin Importing \cup Purging /\ go'[q].pc \notin Importing \cup Purging
    BY <1>0, <1>1, IdleIs DEF Procs, Importing, Purging
  <2> QED  BY <2>1, TrackedRests DEF HandleCallback
<1> QED  BY <1>3, <1>4, <1>5, <1>6, <1>7 DEF ConnInv

LEMMA DiesKeeps ==
  ASSUME ConnInv, Dies
  PROVE  ConnInv'
<1>0. ConnTypeOK /\ \A p \in Procs : go'[p] = Idle
  BY DEF ConnInv, Dies
<1>1. ConnTypeOK'
  BY <1>0, IdleIs, SyncsOrRequests DEF Dies, ConnTypeOK, store, SyncPc, RequestPc
<1>2. SyncingIsAtWork'
  BY DEF Dies, store, SyncingIsAtWork
<1>3. Parted'
  BY <1>0, IdleIs, SyncsOrRequests DEF Dies, store, ConnInv, Parted, HasToken, Importing
<1>4. Apart'
  BY <1>0, IdleIs, SyncsOrRequests DEF Apart, AtWork
<1>5. Tracked'
  <2>1. CASE \E p \in Procs : go[p].pc \in Importing \cup Purging
    BY <2>1, TrackedLost DEF Dies
  <2>2. CASE \A p \in Procs : go[p].pc \notin Importing \cup Purging
    <3>1. \A p \in Procs : go'[p].pc \notin Importing \cup Purging
      BY <1>0, IdleIs DEF Importing, Purging
    <3> QED  BY <2>2, <3>1, TrackedRests DEF Dies, store
  <2> QED  BY <2>1, <2>2
<1> QED  BY <1>1, <1>2, <1>3, <1>4, <1>5 DEF ConnInv

LEMMA LeaseLapsesKeeps ==
  ASSUME ConnInv, LeaseLapses
  PROVE  ConnInv'
<1>0. ConnTypeOK /\ lease' \in [owner : Syncs \cup {NoSync}, lapsed : BOOLEAN] /\ lease'.owner = lease.owner /\ lease'.lapsed
  BY DEF ConnInv, ConnTypeOK, LeaseLapses
<1>1. ConnTypeOK'
  BY <1>0 DEF LeaseLapses, ConnTypeOK, history
<1>2. SyncingIsAtWork' /\ Parted'
  BY DEF LeaseLapses, history, ConnInv, SyncingIsAtWork, NobodyAtWork, Parted, HasToken
<1>3. Apart'
  BY <1>0 DEF LeaseLapses, history, ConnInv, Apart
<1>4. Tracked'
  BY TrackedRests DEF LeaseLapses, history
<1> QED  BY <1>1, <1>2, <1>3, <1>4 DEF ConnInv

-----------------------------------------------------------------------------
LEMMA ConnStarts ==
  Init => ConnInv
<1> SUFFICES ASSUME Init
             PROVE  ConnInv
  OBVIOUS
<1>a. conn \in Row /\ conn.status # "syncing"
  <2>1. CASE conn = NoRow
    BY <2>1, IdleIs DEF NoRow
  <2>2. CASE conn = [status |-> "connected", enabled |-> TRUE, token |-> TRUE, initial |-> "completed"]
    <3>1. [status |-> "connected", enabled |-> TRUE, token |-> TRUE, initial |-> "completed"] \in Row
      BY DEF Row, Initials
    <3> QED  BY <2>2, <3>1
  <2> QED  BY <2>1, <2>2 DEF Init
<1>b. lease \in [owner : Syncs \cup {NoSync}, lapsed : BOOLEAN] /\ <<>> \in Seq(TextsOrNone)
  BY EmptySeq DEF Init
<1>0. /\ \A p \in Procs : go[p] = Idle
      /\ ~cut /\ ~raced /\ ~broken
      /\ item = NoItem /\ notes = <<>> /\ sources = <<>>
  BY DEF Init
<1>1. Live(notes) = {} /\ Live(sources) = {}
  BY <1>0 DEF Live
<1>2. ConnTypeOK
  BY <1>a, <1>b, <1>0, IdleIs, SyncsOrRequests DEF Init, ConnTypeOK, SyncPc, RequestPc
<1>3. SyncingIsAtWork /\ Parted /\ Apart
  BY <1>a, <1>0, IdleIs, SyncsOrRequests DEF SyncingIsAtWork, Parted, Apart, AtWork
<1>4. Tracked
  BY <1>0, <1>1, IdleIs, SyncsOrRequests DEF Tracked, Settled, Importing, Purging
<1> QED  BY <1>2, <1>3, <1>4 DEF ConnInv

LEMMA ConnStep ==
  ASSUME ConnInv, [Next]_vars
  PROVE  ConnInv'
<1>1. ASSUME NEW p \in Syncs, Sync(p)
      PROVE  ConnInv'
  BY <1>1, ScheduleSyncKeeps, HourlyTickKeeps, ReadLeaseKeeps, TakeLeaseKeeps, LoadKeeps, RefusedKeeps,
     StillValidKeeps, RefreshKeeps, VerifyKeeps, MarkRunningKeeps, FinishKeeps, MarkReauthKeeps,
     ReadReleaseKeeps, ReleaseLeaseKeeps, NothingNewKeeps, FetchKeeps, ClearSourcesKeeps, WriteNoteKeeps,
     InsertSourceKeeps, UpsertItemKeeps, MapSourcesKeeps, MeetingFailsKeeps, SyncFailsKeeps, StepLostKeeps,
     TimesOutKeeps, PatchNoteFailsKeeps
     DEF Sync
<1>2. ASSUME NEW p \in Requests, Request(p)
      PROVE  ConnInv'
  BY <1>2, StartAuthorizeKeeps, StartCallbackKeeps, ConsumeOAuthStateKeeps, HandleCallbackKeeps,
     StartPatchKeeps, PatchEnabledKeeps, StartDisconnectKeeps, ClearCredentialsKeeps, StartPurgeKeeps,
     PurgeItemsKeeps, PurgeNotesKeeps, PurgeSourcesKeeps, PurgeLostKeeps, LoadLiveToolsKeeps,
     LiveRefreshKeeps, LiveRefusedKeeps, RequestCutKeeps
     DEF Request
<1>3. CASE UNCHANGED vars
  <2>1. UNCHANGED <<conn, lease, item, notes, sources, go, raced, broken, stuck, cut, midway>>
    BY <1>3 DEF vars, history
  <2>2. ConnTypeOK' /\ SyncingIsAtWork' /\ Parted' /\ Apart'
    BY <2>1 DEF ConnInv, ConnTypeOK, SyncingIsAtWork, NobodyAtWork, Parted, HasToken, Apart
  <2> QED  BY <2>1, <2>2, TrackedRests DEF ConnInv
<1> QED  BY <1>1, <1>2, <1>3, DiesKeeps, LeaseLapsesKeeps DEF Next

\* What SyncingIsAtWork says: the row says "syncing" only while a sync is at work
\* that will write another status (runSyncJob), unless that sync died, its last
\* write failed, or live tools wrote back the row they had read (stuck).
THEOREM SyncingHasASync == Spec => []SyncingIsAtWork
<1>1. ConnInv => SyncingIsAtWork
  BY DEF ConnInv
<1> QED  BY <1>1, ConnStarts, ConnStep, PTL DEF Spec

\* What DisconnectHolds says: a disconnect that finds nobody with the credentials
\* in hand (ClearCredentials) holds until the user connects again.
THEOREM CutStaysCut == Spec => []DisconnectHolds
<1>1. ConnInv => DisconnectHolds
  BY SyncsOrRequests DEF ConnInv, Parted, DisconnectHolds, HasToken
<1> QED  BY <1>1, ConnStarts, ConnStep, PTL DEF Spec

\* What ImportsAreTracked says: after any number of syncs and purges that none of
\* which failed half-way, the item's note and its one source hold what its hash
\* says, and nothing else of the meeting is left (upsertMeeting, DeleteImports).
THEOREM ImportsKeepTrack == Spec => []ImportsAreTracked
<1>1. ConnInv => ImportsAreTracked
  <2> SUFFICES ASSUME ConnInv, ~raced, ~broken, \A p \in Procs : go[p].pc \notin Importing \cup Purging
               PROVE  Agree
    BY DEF ImportsAreTracked, Agree
  <2>1. Settled /\ \A p \in Requests : go[p].pc \notin Purging
    BY SyncsOrRequests DEF ConnInv, Tracked
  <2>2. CASE item = NoItem
    BY <2>1, <2>2, IdleIs DEF Settled, Agree, Purging
  <2>3. CASE item # NoItem
    BY <2>1, <2>3 DEF Settled
  <2> QED  BY <2>2, <2>3
<1> QED  BY <1>1, ConnStarts, ConnStep, PTL DEF Spec
=============================================================================
