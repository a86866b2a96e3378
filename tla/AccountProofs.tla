--------------------------- MODULE AccountProofs ---------------------------
(***************************************************************************)
(* Theorems about what one user keeps and decides: the deletion of the     *)
(* account, its export, the preferences, the tags of a note, the inbox     *)
(* with its action runs and the reminders, and events for the calendar.    *)
(***************************************************************************)
EXTENDS ActionRuns, NoteTags, AccountDeletion, AccountExport, Preferences,
        CalendarEvents, FiniteSetTheorems, SequenceTheorems, WellFoundedInduction, TLAPS

-----------------------------------------------------------------------------
(* AccountDeletion: a deletion that is answered with ok has left nothing,    *)
(* for any number of files, tables and requests and every size of pages and *)
(* batches.  The argument: what is there since the beginning and not listed *)
(* yet lies beyond the offset of the next page, and a page that is not full *)
(* has nothing beyond it.                                                   *)

-----------------------------------------------------------------------------
(* Pages *)

LEMMA FilesFinite ==
  ASSUME NEW S \in SUBSET Files
  PROVE  IsFiniteSet(S) /\ Cardinality(S) \in Nat
  <1>1. IsFiniteSet(1..NumFiles)
    BY DeletionAssumption, FS_Interval
  <1>2. QED
    BY <1>1, FS_Subset, FS_CardinalityType DEF Files

\* The place of a file among any files.
LEMMA PlaceRangeAt ==
  ASSUME NEW F \in SUBSET Files, NEW f \in F
  PROVE  Cardinality({g \in F : g <= f}) \in 1..Cardinality(F)
  <1> DEFINE S == {g \in F : g <= f}
  <1>1. IsFiniteSet(F) /\ Cardinality(F) \in Nat /\ S \in SUBSET F
    BY FilesFinite
  <1>2. IsFiniteSet(S) /\ Cardinality(S) <= Cardinality(F) /\ Cardinality(S) \in Nat
    BY <1>1, FS_Subset, FS_CardinalityType
  <1>3. f \in S
    <2>1. f \in Int
      BY DEF Files
    <2>2. QED
      BY <2>1
  <1>4. Cardinality(S) # 0
    BY <1>2, <1>3, FS_EmptySet
  <1>5. QED
    BY <1>1, <1>2, <1>4

LEMMA PlaceRange ==
  ASSUME files \in SUBSET Files, NEW f \in files
  PROVE  Place(f) \in 1..Cardinality(files)
  BY PlaceRangeAt DEF Place

LEMMA PlaceMonotone ==
  ASSUME files \in SUBSET Files, NEW f \in files, NEW g \in files, f < g
  PROVE  Place(f) < Place(g)
  <1> DEFINE S == {h \in files : h <= f}
             T == {h \in files : h <= g}
  <1>1. f \in Nat /\ g \in Nat /\ \A h \in files : h \in Nat
    BY DeletionAssumption DEF Files
  <1>2. S \in SUBSET T /\ g \in T /\ g \notin S /\ T \in SUBSET Files
    <2>1. \A h \in files : h <= f => h <= g
      BY <1>1
    <2>2. g <= g /\ ~(g <= f)
      BY <1>1
    <2>3. QED
      BY <2>1, <2>2
  <1>3. IsFiniteSet(T)
    BY <1>2, FilesFinite
  <1>4. Cardinality(S) <= Cardinality(T) /\ Cardinality(S) # Cardinality(T)
    <2>1. Cardinality(S) <= Cardinality(T) /\ (Cardinality(T) = Cardinality(S) => T = S)
      BY <1>2, <1>3, FS_Subset
    <2>2. QED
      BY <2>1, <1>2
  <1>5. Place(f) \in Nat /\ Place(g) \in Nat
    BY PlaceRange, FilesFinite
  <1>6. QED
    BY <1>4, <1>5 DEF Place

\* The files take all places from the first to the last.
LEMMA PlacesTaken ==
  ASSUME files \in SUBSET Files, NEW n \in 1..Cardinality(files)
  PROVE  \E f \in files : Place(f) = n
  <1> DEFINE place == [f \in files |-> Place(f)]
             N == Cardinality(files)
  <1>1. IsFiniteSet(files) /\ N \in Nat
    BY FilesFinite
  <1>2. IsFiniteSet(1..N) /\ Cardinality(1..N) = N
    BY <1>1, FS_Interval
  <1>3. place \in Injection(files, 1..N)
    <2>1. place \in [files -> 1..N]
      BY PlaceRange
    <2>2. \A f, g \in files : f # g => Place(f) # Place(g)
      <3> SUFFICES ASSUME NEW f \in files, NEW g \in files, f # g
                   PROVE  Place(f) # Place(g)
        OBVIOUS
      <3>1. f \in Nat /\ g \in Nat /\ Place(f) \in Nat /\ Place(g) \in Nat
        BY DeletionAssumption, PlaceRange, FilesFinite DEF Files
      <3>2. CASE f < g
        BY <3>1, <3>2, PlaceMonotone
      <3>3. CASE g < f
        BY <3>1, <3>3, PlaceMonotone
      <3>4. QED
        BY <3>1, <3>2, <3>3
    <2>3. QED
      BY <2>1, <2>2, Zenon DEF Injection, IsInjective
  <1>4. place \in Surjection(files, 1..N)
    BY <1>1, <1>2, <1>3, FS_Injection
  <1>5. \A m \in 1..N : \E f \in files : place[f] = m
    BY <1>4, Zenon DEF Surjection
  <1>6. QED
    BY <1>5

\* A page that is not the last is full.
LEMMA FullPage ==
  ASSUME files \in SUBSET Files, NEW offset \in Nat, NEW g \in files, offset + PageSize < Place(g)
  PROVE  Cardinality(Page(offset)) = PageSize
  <1> DEFINE A == (offset + 1)..(offset + PageSize)
             P == Page(offset)
             place == [f \in P |-> Place(f)]
  <1>1. PageSize \in Nat \ {0} /\ P \in SUBSET files /\ P \in SUBSET Files
    BY DeletionAssumption DEF Page
  <1>2. Place(g) \in 1..Cardinality(files) /\ Cardinality(files) \in Nat
    BY PlaceRange, FilesFinite
  <1>3. IsFiniteSet(P) /\ IsFiniteSet(A) /\ Cardinality(A) = PageSize
    BY <1>1, FilesFinite, FS_Interval
  <1>4. place \in Injection(P, A)
    <2>1. place \in [P -> A]
      <3> SUFFICES ASSUME NEW f \in P
                   PROVE  Place(f) \in A
        OBVIOUS
      <3>1. Place(f) \in 1..Cardinality(files)
        BY <1>1, PlaceRange
      <3>2. QED
        BY <1>1, <1>2, <3>1 DEF Page
    <2>2. \A f, h \in P : f # h => Place(f) # Place(h)
      <3> SUFFICES ASSUME NEW f \in P, NEW h \in P, f # h
                   PROVE  Place(f) # Place(h)
        OBVIOUS
      <3>1. f \in Nat /\ h \in Nat /\ f \in files /\ h \in files /\ Place(f) \in Nat /\ Place(h) \in Nat
        BY <1>1, <1>2, DeletionAssumption, PlaceRange DEF Files
      <3>2. QED
        BY <3>1, PlaceMonotone
    <2>3. QED
      BY <2>1, <2>2, Zenon DEF Injection, IsInjective
  <1>5. place \in Surjection(P, A)
    <2>1. ASSUME NEW m \in A PROVE \E f \in P : place[f] = m
      <3>1. m \in 1..Cardinality(files)
        BY <1>1, <1>2
      <3>2. PICK f \in files : Place(f) = m
        BY <3>1, PlacesTaken
      <3>3. f \in P
        BY <3>2, <1>1 DEF Page
      <3>4. QED
        BY <3>2, <3>3
    <2>2. place \in [P -> A]
      BY <1>4, Zenon DEF Injection
    <2>3. QED
      BY <2>1, <2>2, Zenon DEF Surjection
  <1>6. QED
    BY <1>3, <1>4, <1>5, FS_Injection

-----------------------------------------------------------------------------
(* The invariant *)

Deleter ==
  [pc : {"idle", "list", "files", "tables", "account", "ok", "error"}, offset : Nat, listed : SUBSET Files,
   before : [files : SUBSET Files, rows : SUBSET (1..NumTables)], table : 1..NumTables]

DeletionTypeOK ==
  /\ files \in SUBSET Files /\ rows \in SUBSET (1..NumTables)
  /\ deleter \in [Deleters -> Deleter]

Left(d) == files \cap deleter[d].before.files

FilesGo(d) ==
  /\ deleter[d].pc = "list" =>
       shifted[d] \/ \A f \in Left(d) : f \in deleter[d].listed \/ deleter[d].offset < Place(f)
  /\ deleter[d].pc = "files" => shifted[d] \/ Left(d) \subseteq deleter[d].listed
  /\ deleter[d].pc \in {"tables", "account", "ok"} => shifted[d] \/ Left(d) = {}

RowsGo(d) ==
  /\ deleter[d].pc \in {"idle", "list", "files"} => deleter[d].table = 1
  /\ deleter[d].pc = "tables" => \A t \in rows \cap deleter[d].before.rows : deleter[d].table <= t
  /\ deleter[d].pc \in {"account", "ok"} => rows \cap deleter[d].before.rows = {}

DeletionInv == DeletionTypeOK /\ \A d \in Deleters : FilesGo(d) /\ RowsGo(d)

LEMMA DeletionInitially == DeletionInit => DeletionInv
  <1> SUFFICES ASSUME DeletionInit
               PROVE  DeletionInv
    OBVIOUS
  <1>1. NumTables \in Nat \ {0}
    BY DeletionAssumption
  <1>2. Nobody \in Deleter
    BY <1>1 DEF Nobody, Request, Deleter
  <1>3. QED
    BY <1>2 DEF DeletionInit, DeletionInv, DeletionTypeOK, FilesGo, RowsGo, Nobody, Request

-----------------------------------------------------------------------------
(* What the steps of others do to a deletion *)

LEMMA RemovedShifts ==
  ASSUME NEW gone, Removed(gone), NEW e \in Deleters
  PROVE  /\ shifted[e] => shifted'[e]
         /\ deleter[e].pc = "list" /\ deleter[e].offset > 0 /\ gone \cap files # {} => shifted'[e]
  BY Zenon DEF Removed

\* Removing files moves no file that is not listed onto a page already read, or
\* the deletion counts as shifted.
LEMMA FewerFiles ==
  ASSUME DeletionInv, NEW gone, files' = files \ gone, Removed(gone), NEW e \in Deleters,
         deleter'[e].pc = deleter[e].pc, deleter'[e].offset = deleter[e].offset,
         deleter'[e].listed = deleter[e].listed, deleter'[e].before.files \subseteq deleter[e].before.files
  PROVE  FilesGo(e)'
  <1> USE DEF DeletionInv
  <1>1. files' \in SUBSET Files /\ Left(e)' \subseteq Left(e) /\ deleter[e] \in Deleter
    BY DEF DeletionTypeOK, Left
  <1>2. shifted[e] => shifted'[e]
    BY RemovedShifts
  <1>3. CASE deleter[e].pc = "list"
    <2>1. CASE deleter[e].offset = 0
      <3>1. \A f \in files' : Place(f)' \in Nat /\ Place(f)' > 0
        <4>1. ASSUME files' \in SUBSET Files, NEW f \in files'
              PROVE  Place(f)' \in 1..Cardinality(files') /\ Cardinality(files') \in Nat
          BY <4>1, PlaceRangeAt, FilesFinite DEF Place
        <4>2. QED
          BY <4>1, <1>1
      <3>2. QED
        BY <3>1, <2>1, <1>3 DEF FilesGo, Left
    <2>2. CASE deleter[e].offset > 0 /\ gone \cap files # {}
      BY <2>2, <1>3, RemovedShifts DEF FilesGo
    <2>3. CASE gone \cap files = {}
      <3>1. files' = files
        BY <2>3
      <3>2. \A f : Place(f)' = Place(f)
        BY <3>1 DEF Place
      <3>3. shifted[e] \/ \A f \in Left(e) : f \in deleter[e].listed \/ deleter[e].offset < Place(f)
        BY <1>3 DEF FilesGo
      <3>4. QED
        BY <1>1, <1>2, <1>3, <3>2, <3>3 DEF FilesGo
    <2>4. deleter[e].offset \in Nat
      BY <1>1 DEF Deleter
    <2>5. QED
      BY <2>1, <2>2, <2>3, <2>4
  <1>4. CASE deleter[e].pc # "list"
    BY <1>1, <1>2, <1>4 DEF FilesGo
  <1>5. QED
    BY <1>3, <1>4

\* A file that is added is not of before, and moves the others further on.
LEMMA MoreFiles ==
  ASSUME DeletionInv, NEW f \in Files, f \notin files, files' = files \cup {f}, UNCHANGED shifted, NEW e \in Deleters,
         deleter'[e].pc = deleter[e].pc, deleter'[e].offset = deleter[e].offset,
         deleter'[e].listed = deleter[e].listed, deleter'[e].before.files = deleter[e].before.files \ {f}
  PROVE  FilesGo(e)'
  <1> USE DEF DeletionInv
  <1>1. files \in SUBSET Files /\ files' \in SUBSET Files /\ Left(e)' \subseteq Left(e) /\ deleter[e] \in Deleter
    BY DEF DeletionTypeOK, Left
  <1>2. ASSUME NEW g \in files, deleter[e].offset < Place(g) PROVE deleter[e].offset < Place(g)'
    <2> DEFINE S == {h \in files : h <= g}
               T == {h \in files' : h <= g}
    <2>1. IsFiniteSet(T) /\ Cardinality(T) \in Nat
      BY <1>1, FilesFinite
    <2>2. S \in SUBSET T
      OBVIOUS
    <2>3. Cardinality(S) <= Cardinality(T) /\ Cardinality(S) \in Nat
      <3> HIDE DEF S, T
      <3>1. QED
        BY <2>1, <2>2, FS_Subset, FS_CardinalityType
    <2>4. deleter[e].offset \in Nat
      BY <1>1 DEF Deleter
    <2>5. QED
      BY <1>2, <2>1, <2>3, <2>4 DEF Place
  <1>3. Left(e) \subseteq files
    BY DEF Left
  <1>4. shifted'[e] = shifted[e]
    OBVIOUS
  <1>5. QED
    BY <1>1, <1>2, <1>3, <1>4 DEF FilesGo

LEMMA FewerRows ==
  ASSUME DeletionInv, NEW e \in Deleters, rows' \subseteq rows,
         deleter'[e].pc = deleter[e].pc, deleter'[e].table = deleter[e].table,
         deleter'[e].before.rows \subseteq deleter[e].before.rows
  PROVE  RowsGo(e)'
  BY DEF DeletionInv, RowsGo

\* Before the first table is cleared, no row is out of reach.
LEMMA RowsFrom1 ==
  ASSUME DeletionInv, NEW t \in rows
  PROVE  1 <= t
  BY DEF DeletionInv, DeletionTypeOK

LEMMA SameFiles ==
  ASSUME DeletionInv, NEW e \in Deleters, UNCHANGED <<files, shifted>>, deleter'[e] = deleter[e]
  PROVE  FilesGo(e)'
  <1>1. \A f : Place(f)' = Place(f)
    BY DEF Place
  <1>2. QED
    BY <1>1 DEF DeletionInv, FilesGo, Left

\* A step of one deletion that leaves files and rows alone.
LEMMA OwnStep ==
  ASSUME DeletionInv, NEW d \in Deleters, NEW me \in Deleter, deleter' = [deleter EXCEPT ![d] = me],
         UNCHANGED <<files, rows, shifted>>, FilesGo(d)', RowsGo(d)'
  PROVE  DeletionInv'
  <1> USE DEF DeletionInv
  <1>1. DeletionTypeOK'
    BY DEF DeletionTypeOK
  <1>2. ASSUME NEW e \in Deleters \ {d} PROVE FilesGo(e)' /\ RowsGo(e)'
    <2>1. deleter'[e] = deleter[e]
      BY DEF DeletionTypeOK
    <2>2. QED
      BY <2>1, SameFiles, FewerRows
  <1>3. QED
    BY <1>1, <1>2

-----------------------------------------------------------------------------
(* The steps *)

LEMMA StartKeeps ==
  ASSUME DeletionInv, NEW d \in Deleters, StartDeletion(d)
  PROVE  DeletionInv'
  <1> USE DEF DeletionInv
  <1> DEFINE me == Request("list", [files |-> files, rows |-> rows])
  <1>1. files \in SUBSET Files /\ rows \in SUBSET (1..NumTables) /\ 1 \in 1..NumTables
    BY DeletionAssumption DEF DeletionTypeOK
  <1>2. /\ me.pc = "list" /\ me.offset = 0 /\ me.table = 1
        /\ me \in Deleter
    BY <1>1 DEF Request, Deleter
  <1>3. deleter' = [deleter EXCEPT ![d] = me] /\ UNCHANGED <<files, rows, shifted>>
    BY DEF StartDeletion
  <1>4. deleter'[d] = me
    BY <1>3 DEF DeletionTypeOK
  <1>5. \A f \in files : 0 < Place(f)'
    <2>1. ASSUME NEW f \in files PROVE Place(f) \in 1..Cardinality(files) /\ Cardinality(files) \in Nat
      BY <1>1, PlaceRange, FilesFinite
    <2>2. ASSUME NEW f \in files PROVE Place(f)' = Place(f)
      BY <1>3 DEF Place
    <2>3. QED
      BY <2>1, <2>2
  <1>6. FilesGo(d)' /\ RowsGo(d)'
    <2> HIDE DEF me
    <2>1. QED
      BY <1>2, <1>3, <1>4, <1>5 DEF FilesGo, RowsGo, Left
  <1>7. QED
    BY <1>2, <1>3, <1>6, OwnStep

\* The last page leaves nothing beyond it, because it is not full.
LEMMA ListKeeps ==
  ASSUME DeletionInv, NEW d \in Deleters, ListPage(d)
  PROVE  DeletionInv'
  <1> USE DEF DeletionInv
  <1> DEFINE old == deleter[d]
             page == Page(old.offset)
             pc == IF LastPage(page) THEN "files" ELSE "list"
             me == [old EXCEPT !.listed = old.listed \cup page, !.offset = old.offset + PageSize, !.pc = pc]
  <1>1. old \in Deleter /\ old.pc = "list" /\ files \in SUBSET Files /\ PageSize \in Nat \ {0}
    BY DeletionAssumption DEF ListPage, DeletionTypeOK
  <1>2. page \in SUBSET Files /\ old.offset \in Nat /\ old.offset + PageSize \in Nat
    BY <1>1 DEF Page, Deleter
  <1>3. pc \in {"files", "list"}
    OBVIOUS
  <1>4. me \in Deleter
    <2> HIDE DEF pc, page
    <2>1. QED
      BY <1>1, <1>2, <1>3 DEF Deleter
  <1>5. deleter' = [deleter EXCEPT ![d] = me] /\ UNCHANGED <<files, rows, shifted>>
    BY DEF ListPage
  <1>6. /\ deleter'[d].pc = pc /\ deleter'[d].listed = old.listed \cup page
        /\ deleter'[d].offset = old.offset + PageSize /\ deleter'[d].before = old.before
    <2> HIDE DEF pc, page
    <2>1. deleter'[d] = me
      BY <1>5 DEF DeletionTypeOK
    <2>2. QED
      BY <2>1, <1>1 DEF Deleter
  <1>7. \A f : Place(f)' = Place(f)
    BY <1>5 DEF Place
  <1>8. Left(d)' = Left(d) /\ Left(d) \subseteq files
    BY <1>5, <1>6 DEF Left
  <1>9. \A f \in Left(d) : shifted[d] \/ f \in old.listed \cup page \/ old.offset + PageSize < Place(f)
    <2> SUFFICES ASSUME NEW f \in Left(d), ~shifted[d], f \notin old.listed
                 PROVE  f \in page \/ old.offset + PageSize < Place(f)
      OBVIOUS
    <2>1. old.offset < Place(f)
      BY <1>1 DEF FilesGo
    <2>2. Place(f) \in Nat
      BY <1>1, <1>8, PlaceRange, FilesFinite
    <2>3. QED
      BY <1>1, <1>2, <1>8, <2>1, <2>2 DEF Page
  <1>10. FilesGo(d)'
    <2>1. CASE LastPage(page)
      <3>1. \A f \in files : ~(old.offset + PageSize < Place(f))
        BY <2>1, <1>1, <1>2, FullPage DEF LastPage
      <3>2. QED
        BY <2>1, <3>1, <1>5, <1>6, <1>8, <1>9 DEF FilesGo
    <2>2. CASE ~LastPage(page)
      BY <2>2, <1>5, <1>6, <1>7, <1>8, <1>9 DEF FilesGo
    <2>3. QED
      BY <2>1, <2>2
  <1>11. RowsGo(d)'
    <2>1. deleter'[d].table = old.table
      BY <1>1, <1>5 DEF DeletionTypeOK, Deleter
    <2>2. QED
      BY <2>1, <1>1, <1>3, <1>6 DEF RowsGo
  <1>12. QED
    BY <1>4, <1>5, <1>10, <1>11, OwnStep

\* What a batch deletes is gone from the files and from the list alike.
LEMMA BatchKeeps ==
  ASSUME DeletionInv, NEW d \in Deleters, DeleteBatch(d)
  PROVE  DeletionInv'
  <1> USE DEF DeletionInv
  <1> DEFINE old == deleter[d]
             batch == BatchOf(old.listed)
  <1>1. old \in Deleter /\ old.pc = "files" /\ UNCHANGED rows
    BY DEF DeleteBatch, DeletionTypeOK
  <1>2. CASE old.listed = {} /\ deleter' = [deleter EXCEPT ![d].pc = "tables"] /\ UNCHANGED <<files, shifted>>
    <2> DEFINE me == [old EXCEPT !.pc = "tables"]
    <2>1. me \in Deleter /\ deleter' = [deleter EXCEPT ![d] = me] /\ deleter'[d] = me
      BY <1>1, <1>2 DEF Deleter, DeletionTypeOK
    <2>2. FilesGo(d)' /\ RowsGo(d)'
      <3>1. me.pc = "tables" /\ me.before = old.before /\ me.table = old.table
        BY <1>1 DEF Deleter
      <3>2. FilesGo(d)'
        BY <2>1, <3>1, <1>1, <1>2 DEF FilesGo, Left
      <3>3. RowsGo(d)'
        BY <2>1, <3>1, <1>1, <1>2, RowsFrom1 DEF RowsGo
      <3>4. QED
        BY <3>2, <3>3
    <2>3. QED
      BY <2>1, <2>2, <1>1, <1>2, OwnStep
  <1>3. CASE /\ files' = files \ batch /\ Removed(batch)
             /\ deleter' = [deleter EXCEPT ![d].listed = old.listed \ batch]
    <2>1. DeletionTypeOK'
      BY <1>1, <1>3 DEF DeletionTypeOK, Deleter
    <2>2. ASSUME NEW e \in Deleters \ {d} PROVE FilesGo(e)' /\ RowsGo(e)'
      <3>1. deleter'[e] = deleter[e]
        BY <1>3 DEF DeletionTypeOK
      <3>2. QED
        BY <3>1, <1>1, <1>3, FewerFiles, FewerRows
    <2>3. /\ deleter'[d].pc = "files" /\ deleter'[d].listed = old.listed \ batch
          /\ deleter'[d].before = old.before /\ deleter'[d].table = old.table
      BY <1>1, <1>3 DEF DeletionTypeOK, Deleter
    <2>4. shifted[d] => shifted'[d]
      BY <1>3, RemovedShifts
    <2>5. FilesGo(d)' /\ RowsGo(d)'
      BY <2>3, <2>4, <1>1, <1>3 DEF FilesGo, RowsGo, Left
    <2>6. QED
      BY <2>1, <2>2, <2>5
  <1>4. QED
    BY <1>2, <1>3 DEF DeleteBatch

LEMMA TableKeeps ==
  ASSUME DeletionInv, NEW d \in Deleters, DeleteTable(d)
  PROVE  DeletionInv'
  <1> USE DEF DeletionInv
  <1> DEFINE old == deleter[d]
  <1>1. old \in Deleter /\ old.pc = "tables" /\ NumTables \in Nat \ {0} /\ UNCHANGED <<files, shifted>>
    BY DeletionAssumption DEF DeleteTable, DeletionTypeOK
  <1>2. old.table \in 1..NumTables /\ rows' = rows \ {old.table} /\ rows \in SUBSET (1..NumTables)
    BY <1>1 DEF DeleteTable, Deleter, DeletionTypeOK
  <1>3. PICK pc \in {"tables", "account"}, table \in 1..NumTables :
          /\ deleter' = [deleter EXCEPT ![d] = [old EXCEPT !.pc = pc, !.table = table]]
          /\ pc = "tables" => table = old.table + 1
          /\ pc = "account" => old.table = NumTables
    <2>1. CASE old.table < NumTables
      <3>1. deleter' = [deleter EXCEPT ![d] = [old EXCEPT !.table = old.table + 1]]
        BY <2>1 DEF DeleteTable
      <3>2. [old EXCEPT !.table = old.table + 1] = [old EXCEPT !.pc = "tables", !.table = old.table + 1]
        BY <1>1 DEF Deleter
      <3>3. old.table + 1 \in 1..NumTables
        BY <1>1, <1>2, <2>1
      <3>4. QED
        BY <3>1, <3>2, <3>3
    <2>2. CASE ~(old.table < NumTables)
      <3>1. deleter' = [deleter EXCEPT ![d] = [old EXCEPT !.pc = "account"]]
        BY <2>2 DEF DeleteTable
      <3>2. [old EXCEPT !.pc = "account"] = [old EXCEPT !.pc = "account", !.table = old.table]
        BY <1>1 DEF Deleter
      <3>3. old.table = NumTables
        BY <1>1, <1>2, <2>2
      <3>4. QED
        BY <3>1, <3>2, <3>3, <1>2
    <2>3. QED
      BY <2>1, <2>2
  <1>4. DeletionTypeOK'
    BY <1>1, <1>2, <1>3 DEF DeletionTypeOK, Deleter
  <1>5. ASSUME NEW e \in Deleters \ {d} PROVE FilesGo(e)' /\ RowsGo(e)'
    <2>1. deleter'[e] = deleter[e]
      BY <1>3 DEF DeletionTypeOK
    <2>2. QED
      BY <2>1, <1>1, <1>2, SameFiles, FewerRows
  <1>6. deleter'[d].pc = pc /\ deleter'[d].table = table /\ deleter'[d].before = old.before
    BY <1>1, <1>3 DEF DeletionTypeOK, Deleter
  <1>7. FilesGo(d)'
    BY <1>1, <1>3, <1>6 DEF FilesGo, Left
  <1>8. RowsGo(d)'
    <2>1. \A t \in rows \cap old.before.rows : old.table <= t
      BY <1>1 DEF RowsGo
    <2>2. \A t \in rows' \cap old.before.rows : old.table + 1 <= t /\ t <= NumTables
      <3> SUFFICES ASSUME NEW t \in rows' \cap old.before.rows
                   PROVE  old.table + 1 <= t /\ t <= NumTables
        OBVIOUS
      <3>1. t \in rows /\ t # old.table /\ old.table <= t
        BY <2>1, <1>2
      <3>2. t \in Int /\ old.table \in Int /\ t <= NumTables
        BY <3>1, <1>2
      <3>3. QED
        BY <3>1, <3>2
    <2>3. QED
      BY <2>2, <1>1, <1>2, <1>3, <1>6 DEF RowsGo
  <1>9. QED
    BY <1>4, <1>5, <1>7, <1>8

LEMMA AuthUserKeeps ==
  ASSUME DeletionInv, NEW d \in Deleters, DeleteAuthUser(d)
  PROVE  DeletionInv'
  <1> USE DEF DeletionInv
  <1> DEFINE old == deleter[d]
  <1>1. old \in Deleter /\ old.pc = "account" /\ UNCHANGED <<files, rows, shifted>>
    BY DEF DeleteAuthUser, DeletionTypeOK
  <1>2. PICK pc \in {"ok", "error"} : deleter' = [deleter EXCEPT ![d] = [old EXCEPT !.pc = pc]]
    BY DEF DeleteAuthUser
  <1>3. [old EXCEPT !.pc = pc] \in Deleter
    BY <1>1 DEF Deleter
  <1>4. deleter'[d].pc = pc /\ deleter'[d].before = old.before
    BY <1>1, <1>2 DEF DeletionTypeOK, Deleter
  <1>5. FilesGo(d)' /\ RowsGo(d)'
    BY <1>1, <1>4 DEF FilesGo, RowsGo, Left
  <1>6. QED
    BY <1>1, <1>2, <1>3, <1>5, OwnStep

LEMMA FailureKeeps ==
  ASSUME DeletionInv, NEW d \in Deleters, DeletionFails(d)
  PROVE  DeletionInv'
  <1> USE DEF DeletionInv
  <1> DEFINE me == [deleter[d] EXCEPT !.pc = "error"]
  <1>1. deleter[d] \in Deleter /\ UNCHANGED <<files, rows, shifted>>
    BY DEF DeletionFails, DeletionTypeOK
  <1>2. deleter' = [deleter EXCEPT ![d] = me]
    BY DEF DeletionFails, AfterFailure
  <1>3. me \in Deleter /\ me.pc = "error"
    BY <1>1 DEF Deleter
  <1>4. deleter'[d] = me
    BY <1>2 DEF DeletionTypeOK
  <1>5. FilesGo(d)' /\ RowsGo(d)'
    BY <1>3, <1>4 DEF FilesGo, RowsGo
  <1>6. QED
    BY <1>1, <1>2, <1>3, <1>5, OwnStep

\* What the rest of the server adds is not of before, and what it removes is
\* like what another deletion removes.
LEMMA StrayKeeps ==
  ASSUME DeletionInv, Stray
  PROVE  DeletionInv'
  <1> USE DEF DeletionInv
  <1> DEFINE FilesLeft(e) == deleter[e].before.files \ (files' \ files)
             RowsLeft(e) == deleter[e].before.rows \ (rows' \ rows)
  <1>1. files' \in SUBSET Files /\ rows' \in SUBSET (1..NumTables)
    BY DEF Stray, AddFile, RemoveFile, AddRow, DeletionTypeOK
  <1>2. deleter' = [e \in Deleters |->
           [deleter[e] EXCEPT !.before = [files |-> FilesLeft(e), rows |-> RowsLeft(e)]]]
    BY DEF Stray
  <1>3. ASSUME NEW e \in Deleters
        PROVE  /\ deleter'[e] \in Deleter
               /\ deleter'[e].pc = deleter[e].pc /\ deleter'[e].offset = deleter[e].offset
               /\ deleter'[e].listed = deleter[e].listed /\ deleter'[e].table = deleter[e].table
               /\ deleter'[e].before.files = FilesLeft(e) /\ deleter'[e].before.rows = RowsLeft(e)
    <2>1. deleter[e] \in Deleter
      BY DEF DeletionTypeOK
    <2>2. FilesLeft(e) \in SUBSET Files /\ RowsLeft(e) \in SUBSET (1..NumTables)
      BY <2>1 DEF Deleter
    <2>3. deleter'[e] = [deleter[e] EXCEPT !.before = [files |-> FilesLeft(e), rows |-> RowsLeft(e)]]
      BY <1>2
    <2> HIDE DEF FilesLeft, RowsLeft
    <2>4. QED
      BY <2>1, <2>2, <2>3 DEF Deleter
  <1>4. DeletionTypeOK'
    <2>1. \A e \in Deleters : deleter'[e] \in Deleter
      BY <1>3
    <2>2. deleter' \in [Deleters -> Deleter]
      <3> DEFINE row(e) == [deleter[e] EXCEPT !.before = [files |-> FilesLeft(e), rows |-> RowsLeft(e)]]
      <3>1. deleter' = [e \in Deleters |-> row(e)]
        BY <1>2
      <3> HIDE DEF row
      <3>2. QED
        BY <2>1, <3>1
    <2>3. QED
      BY <1>1, <2>2 DEF DeletionTypeOK
  <1>5. ASSUME NEW e \in Deleters PROVE FilesGo(e)'
    <2>1. ASSUME NEW f \in Files, AddFile(f) PROVE FilesGo(e)'
      <3>1. f \notin files /\ files' = files \cup {f} /\ UNCHANGED shifted
        BY <2>1 DEF AddFile
      <3>2. deleter'[e].before.files = deleter[e].before.files \ {f}
        BY <3>1, <1>3
      <3>3. QED
        BY <3>1, <3>2, <1>3, MoreFiles
    <2>2. ASSUME NEW f \in Files, RemoveFile(f) PROVE FilesGo(e)'
      <3>1. files' = files \ {f} /\ Removed({f})
        BY <2>2 DEF RemoveFile
      <3>2. deleter'[e].before.files \subseteq deleter[e].before.files
        BY <1>3
      <3>3. QED
        BY <3>1, <3>2, <1>3, FewerFiles
    <2>3. ASSUME NEW t \in 1..NumTables, AddRow(t) PROVE FilesGo(e)'
      <3>1. UNCHANGED <<files, shifted>>
        BY <2>3 DEF AddRow
      <3>2. deleter'[e].before.files = deleter[e].before.files
        BY <3>1, <1>3
      <3>3. \A f : Place(f)' = Place(f)
        BY <3>1 DEF Place
      <3>4. QED
        BY <3>1, <3>2, <3>3, <1>3 DEF FilesGo, Left
    <2>4. QED
      BY <2>1, <2>2, <2>3 DEF Stray
  <1>6. ASSUME NEW e \in Deleters PROVE RowsGo(e)'
    <2>1. rows' \cap deleter'[e].before.rows \subseteq rows \cap deleter[e].before.rows
      BY <1>3
    <2>2. QED
      BY <2>1, <1>3 DEF RowsGo
  <1>7. QED
    BY <1>4, <1>5, <1>6

LEMMA DeletionStep ==
  ASSUME DeletionInv, [DeletionNext]_deletionVars
  PROVE  DeletionInv'
  <1>1. CASE UNCHANGED deletionVars
    BY <1>1 DEF DeletionInv, DeletionTypeOK, FilesGo, RowsGo, Left, Place, deletionVars
  <1>2. CASE Stray
    BY <1>2, StrayKeeps
  <1>3. ASSUME NEW d \in Deleters,
               \/ StartDeletion(d) \/ ListPage(d) \/ DeleteBatch(d)
               \/ DeleteTable(d) \/ DeleteAuthUser(d) \/ DeletionFails(d)
        PROVE  DeletionInv'
    BY <1>3, StartKeeps, ListKeeps, BatchKeeps, TableKeeps, AuthUserKeeps, FailureKeeps
  <1>4. QED
    BY <1>1, <1>2, <1>3 DEF DeletionNext

-----------------------------------------------------------------------------

\* A deletion (account/delete.go) that is answered with ok has left no file and
\* no row that was there when it began, for any number of files, tables and
\* requests at a time and for every size of pages and batches; files missed
\* because others were removed between two pages excepted.
THEOREM DeletionLeavesNothing == DeletionSpec => []NothingIsLeft
  <1>1. DeletionInv => NothingIsLeft
    <2> SUFFICES ASSUME DeletionInv, NEW d \in Deleters, deleter[d].pc = "ok"
                 PROVE  (shifted[d] \/ files \cap deleter[d].before.files = {}) /\ rows \cap deleter[d].before.rows = {}
      BY DEF NothingIsLeft
    <2>1. QED
      BY DEF DeletionInv, FilesGo, RowsGo, Left
  <1>2. QED
    BY <1>1, DeletionInitially, DeletionStep, PTL DEF DeletionSpec

-----------------------------------------------------------------------------
(* ActionRuns.  The types, and what a goroutine holds at each of its places. *)

Places == {"idle", "find", "create", "findAgain", "match", "spawn", "propose",
           "confirm", "start", "effect", "similar", "insert", "record", "acted",
           "cancel", "dismiss", "dismissRuns"}
Outcomes == {"none", "ok", "retryable", "other"}
AnyKind == Kinds \cup {"none", "agent_approval"}

GoRow == [pc : Places, run : Runs \cup {NoRun}, intent : Intents \cup {NoIntent},
          kinds : SUBSET Kinds, outcome : Outcomes]

InboxTypes ==
  /\ intent \in [Intents -> [status : {"none", "open", "acted", "dismissed"}, kind : AnyKind]]
  /\ action \in [Runs -> [status : {"none", "proposed", "confirmed", "running", "succeeded", "failed", "cancelled"},
                          error : Outcomes, kind : AnyKind, intent : Intents \cup {NoIntent}]]
  /\ go \in [Goroutines -> GoRow]
  /\ effects \in [Runs -> Nat] /\ spawned \in [Intents -> Nat]

OfIntent == {"match", "spawn", "propose", "dismiss", "dismissRuns"}
OfRun == {"confirm", "start", "effect", "similar", "insert", "record", "acted", "cancel"}

\* A goroutine holds a row that exists where it is about one.
NamesRows(row) ==
  /\ row.pc \notin OfRun => row.run = NoRun
  /\ row.pc \in OfRun => row.run \in Runs
  /\ row.pc \in OfIntent => row.intent \in Intents
  /\ row.pc \in {"find", "create", "findAgain", "match", "spawn", "propose"} => row.kinds # {}
  /\ row.pc = "record" => row.outcome # "none"

HoldsRows(g) ==
  /\ NamesRows(go[g])
  /\ go[g].pc \in OfRun => action[go[g].run].status # "none"
  /\ go[g].pc \in OfIntent => intent[go[g].intent].status # "none"

Inbox ==
  /\ InboxTypes
  /\ \A g \in Goroutines : HoldsRows(g)
  /\ \A r \in Runs : action[r].intent \in Intents => intent[action[r].intent].status # "none"


LEMMA InboxInit == Init => Inbox
  <1> SUFFICES ASSUME Init PROVE Inbox
    OBVIOUS
  <1>1. InboxTypes
    <2>1. Idle \in GoRow
      BY DEF Idle, GoRow, Places, Outcomes
    <2>2. go \in [Goroutines -> GoRow]
      BY <2>1 DEF Init
    <2>3. QED
      BY <2>2 DEF Init, InboxTypes, NoIntentRow, NoAction, Outcomes, AnyKind
  <1>2. \A g \in Goroutines : HoldsRows(g)
    BY DEF Init, HoldsRows, NamesRows, Idle, OfRun, OfIntent
  <1>3. QED
    BY <1>1, <1>2, InboxAssumption DEF Init, Inbox, NoAction

\* One goroutine moves; no row goes away.
LEMMA OneMoves ==
  ASSUME Inbox, NEW x \in Goroutines, NEW new \in GoRow, go' = [go EXCEPT ![x] = new],
         NamesRows(new),
         new.pc \in OfRun => action'[new.run].status # "none",
         new.pc \in OfIntent => intent'[new.intent].status # "none",
         \A r \in Runs : action[r].status # "none" => action'[r].status # "none",
         \A i \in Intents : intent[i].status # "none" => intent'[i].status # "none"
  PROVE  go' \in [Goroutines -> GoRow] /\ \A g \in Goroutines : HoldsRows(g)'
  <1>1. go'[x] = new /\ \A g \in Goroutines \ {x} : go'[g] = go[g]
    BY DEF Inbox, InboxTypes
  <1>2. go' \in [Goroutines -> GoRow]
    BY DEF Inbox, InboxTypes
  <1>3. ASSUME NEW g \in Goroutines PROVE HoldsRows(g)'
    <2>1. CASE g = x
      BY <1>1, <2>1 DEF HoldsRows
    <2>2. CASE g # x
      BY <1>1, <2>2 DEF HoldsRows, Inbox, NamesRows
    <2>3. QED
      BY <2>1, <2>2
  <1>4. QED
    BY <1>2, <1>3

\* The loop over the kinds of an extraction goes on, or ends.
LEMMA NextKindGoes ==
  ASSUME Inbox, NEW x \in Goroutines, NEW k, NextKind(x, k)
  PROVE  \E new \in GoRow : /\ go' = [go EXCEPT ![x] = new]
                            /\ NamesRows(new) /\ new.pc \in {"idle", "find"}
  <1> DEFINE rest == go[x].kinds \ {k}
             new == IF rest = {} THEN Idle ELSE [Idle EXCEPT !.pc = "find", !.kinds = rest]
  <1>1. go' = [go EXCEPT ![x] = new]
    BY Zenon DEF NextKind
  <1>2. rest \in SUBSET Kinds
    BY DEF Inbox, InboxTypes, GoRow
  <1>3. Idle \in GoRow /\ NamesRows(Idle) /\ Idle.pc = "idle" /\ Idle.run = NoRun
    BY DEF Idle, GoRow, Places, Outcomes, NamesRows, OfRun, OfIntent
  <1>4. new \in GoRow /\ NamesRows(new) /\ new.pc \in {"idle", "find"}
    <2>1. CASE rest = {}
      BY <1>3, <2>1
    <2>2. CASE rest # {}
      <3> DEFINE row == [Idle EXCEPT !.pc = "find", !.kinds = rest]
      <3>1. row \in GoRow /\ row.pc = "find" /\ row.kinds = rest /\ row.run = NoRun
        BY <1>2, <1>3 DEF GoRow, Places
      <3>2. NamesRows(row)
        BY <3>1, <2>2 DEF NamesRows, OfRun, OfIntent
      <3>3. new = row
        BY <2>2
      <3> HIDE DEF row, new
      <3>4. QED
        BY <3>1, <3>2, <3>3
    <2>3. QED
      BY <2>1, <2>2
  <1> HIDE DEF new
  <1>5. QED
    BY <1>1, <1>4

LEMMA CurrentKind ==
  ASSUME Inbox, NEW x \in Goroutines, go[x].kinds # {}
  PROVE  Current(x) \in Kinds
  <1>1. go[x].kinds \in SUBSET Kinds
    BY DEF Inbox, InboxTypes, GoRow
  <1>2. PICK k : k \in go[x].kinds
    OBVIOUS
  <1>3. Current(x) \in go[x].kinds
    BY <1>2, Zenon DEF Current
  <1>4. QED
    BY <1>1, <1>3

LEMMA KindsLeft ==
  ASSUME Inbox, NEW x \in Goroutines, go[x].pc \in {"find", "create", "findAgain", "match", "spawn", "propose"}
  PROVE  Current(x) \in Kinds
  BY CurrentKind DEF Inbox, HoldsRows, NamesRows

LEMMA OnlyGo ==
  ASSUME Inbox, NEW x \in Goroutines, NEW new \in GoRow, go' = [go EXCEPT ![x] = new], NamesRows(new),
         new.pc \in OfRun => action[new.run].status # "none",
         new.pc \in OfIntent => intent[new.intent].status # "none",
         UNCHANGED <<intent, action>>, effects' \in [Runs -> Nat], spawned' \in [Intents -> Nat]
  PROVE  Inbox'
  <1>1. go' \in [Goroutines -> GoRow] /\ \A g \in Goroutines : HoldsRows(g)'
    BY OneMoves
  <1>2. QED
    BY <1>1 DEF Inbox, InboxTypes

LEMMA ExtractorsHold ==
  ASSUME Inbox, NEW x \in Extractors, ExtractorStep(x)
  PROVE  Inbox'
  <1>0. x \in Goroutines
    BY DEF Goroutines
  <1>r. go[x] \in GoRow /\ HoldsRows(x) /\ effects \in [Runs -> Nat] /\ spawned \in [Intents -> Nat]
    BY <1>0 DEF Inbox, InboxTypes
  <1>1. CASE Extract(x)
    <2>1. PICK kinds \in SUBSET Kinds : kinds # {} /\ go' = [go EXCEPT ![x] = [@ EXCEPT !.pc = "find", !.kinds = kinds]]
      BY <1>1 DEF Extract
    <2> DEFINE new == [go[x] EXCEPT !.pc = "find", !.kinds = kinds]
    <2>2. UNCHANGED <<intent, action, effects, spawned>> /\ go[x].pc = "idle" /\ go' = [go EXCEPT ![x] = new]
      BY <1>1, <2>1 DEF Extract, inboxRows, history
    <2>3. new \in GoRow /\ NamesRows(new) /\ new.pc = "find"
      BY <2>1, <2>2, <1>r DEF GoRow, Places, NamesRows, OfRun, OfIntent, HoldsRows
    <2> HIDE DEF new
    <2>4. QED
      BY <1>0, <1>r, <2>2, <2>3, OnlyGo DEF OfRun, OfIntent
  <1>2. CASE FindOpenIntent(x) \/ FindAgain(x) \/ MatchIntent(x) \/ SpawnFromIntent(x)
    <2>1. UNCHANGED <<intent, action, effects>> /\ spawned' \in [Intents -> Nat]
      BY <1>2, <1>r DEF FindOpenIntent, FindAgain, MatchIntent, SpawnFromIntent, inboxRows, history
    <2>2. CASE NextKind(x, Current(x))
      <3>1. PICK new \in GoRow : /\ go' = [go EXCEPT ![x] = new]
                                 /\ NamesRows(new) /\ new.pc \in {"idle", "find"}
        BY <2>2, <1>0, NextKindGoes
      <3>2. QED
        BY <1>0, <1>r, <3>1, <2>1, OnlyGo DEF OfRun, OfIntent
    <2>3. CASE \E p \in {"create", "spawn", "propose"} :
                 /\ At(x, p)
                 /\ go[x].pc \in {"find", "match"} /\ (p # "create" => go[x].pc = "match")
      <3>1. PICK p \in {"create", "spawn", "propose"} :
              go' = [go EXCEPT ![x].pc = p] /\ go[x].pc \in {"find", "match"} /\ (p # "create" => go[x].pc = "match")
        BY <2>3 DEF At
      <3> DEFINE new == [go[x] EXCEPT !.pc = p]
      <3>2. go' = [go EXCEPT ![x] = new]
        BY <3>1
      <3>3. new \in GoRow /\ NamesRows(new) /\ new.pc = p /\ new.intent = go[x].intent
        BY <3>1, <1>r DEF GoRow, Places, NamesRows, OfRun, OfIntent, HoldsRows
      <3>4. p # "create" => intent[go[x].intent].status # "none"
        BY <3>1, <1>r DEF HoldsRows, OfIntent
      <3> HIDE DEF new
      <3>5. QED
        BY <1>0, <1>r, <2>1, <3>1, <3>2, <3>3, <3>4, OnlyGo DEF OfRun, OfIntent
    <2>4. QED
      BY <1>2, <2>2, <2>3 DEF FindOpenIntent, FindAgain, MatchIntent, SpawnFromIntent
  <1>3. CASE CreateIntent(x)
    <2>0. Current(x) \in Kinds /\ go[x].pc = "create" /\ UNCHANGED <<action, effects, spawned>>
      BY <1>0, <1>3, KindsLeft DEF CreateIntent, history
    <2>1. CASE At(x, "findAgain") /\ UNCHANGED intent
      <3> DEFINE new == [go[x] EXCEPT !.pc = "findAgain"]
      <3>1. go' = [go EXCEPT ![x] = new]
        BY <2>1 DEF At
      <3>2. new \in GoRow /\ NamesRows(new) /\ new.pc = "findAgain"
        BY <2>0, <1>r DEF GoRow, Places, NamesRows, OfRun, OfIntent, HoldsRows
      <3> HIDE DEF new
      <3>3. QED
        BY <1>0, <1>r, <2>0, <2>1, <3>1, <3>2, OnlyGo DEF OfRun, OfIntent
    <2>2. CASE \E i \in Intents :
              /\ intent[i].status = "none"
              /\ intent' = [intent EXCEPT ![i] = [status |-> "open", kind |-> Current(x)]]
              /\ go' = [go EXCEPT ![x] = [@ EXCEPT !.pc = "match", !.intent = i]]
      <3>1. PICK i \in Intents :
              /\ intent[i].status = "none"
              /\ intent' = [intent EXCEPT ![i] = [status |-> "open", kind |-> Current(x)]]
              /\ go' = [go EXCEPT ![x] = [@ EXCEPT !.pc = "match", !.intent = i]]
        BY <2>2
      <3> DEFINE new == [go[x] EXCEPT !.pc = "match", !.intent = i]
      <3>2. go' = [go EXCEPT ![x] = new]
        BY <3>1
      <3>3. new \in GoRow /\ NamesRows(new) /\ new.pc = "match" /\ new.intent = i
        BY <2>0, <1>r DEF GoRow, Places, NamesRows, OfRun, OfIntent, HoldsRows
      <3>4. intent' \in [Intents -> [status : {"none", "open", "acted", "dismissed"}, kind : AnyKind]]
        BY <3>1, <2>0 DEF Inbox, InboxTypes, AnyKind
      <3>5. intent'[i].status = "open" /\ \A j \in Intents : intent[j].status # "none" => intent'[j].status # "none"
        BY <3>1, <2>0 DEF Inbox, InboxTypes
      <3> HIDE DEF new
      <3>6. go' \in [Goroutines -> GoRow] /\ \A g \in Goroutines : HoldsRows(g)'
        BY <1>0, <2>0, <3>2, <3>3, <3>5, OneMoves DEF OfRun
      <3>7. QED
        BY <2>0, <3>4, <3>5, <3>6 DEF Inbox, InboxTypes
    <2>3. QED
      BY <1>3, <2>1, <2>2 DEF CreateIntent
  <1>4. CASE CreateActionRun(x)
    <2>1. PICK new \in GoRow : go' = [go EXCEPT ![x] = new] /\ NamesRows(new) /\ new.pc \in {"idle", "find"}
      BY <1>0, <1>4, NextKindGoes DEF CreateActionRun
    <2>2. Current(x) \in Kinds /\ go[x].intent \in Intents /\ intent[go[x].intent].status # "none"
      BY <1>0, <1>r, <1>4, KindsLeft DEF CreateActionRun, HoldsRows, NamesRows, OfIntent
    <2>3. PICK r \in Runs :
               /\ action[r].status = "none"
               /\ action' = [action EXCEPT ![r] = [status |-> "proposed", error |-> "none",
                                           kind |-> Current(x), intent |-> go[x].intent]]
      BY <1>4 DEF CreateActionRun
    <2>4. UNCHANGED <<intent, effects, spawned>>
      BY <1>4 DEF CreateActionRun, history
    <2>5. /\ action' \in [Runs -> [status : {"none", "proposed", "confirmed", "running", "succeeded", "failed", "cancelled"},
                          error : Outcomes, kind : AnyKind, intent : Intents \cup {NoIntent}]]
          /\ action'[r].status = "proposed" /\ action'[r].intent = go[x].intent
          /\ \A q \in Runs \ {r} : action'[q] = action[q]
      BY <2>2, <2>3 DEF Inbox, InboxTypes, Outcomes, AnyKind
    <2>6. go' \in [Goroutines -> GoRow] /\ \A g \in Goroutines : HoldsRows(g)'
      BY <1>0, <2>1, <2>4, <2>5, OneMoves DEF OfRun, OfIntent
    <2>7. QED
      BY <2>2, <2>4, <2>5, <2>6 DEF Inbox, InboxTypes
  <1>5. QED
    BY <1>1, <1>2, <1>3, <1>4 DEF ExtractorStep

LEMMA PcMoves ==
  ASSUME Inbox, NEW u \in Goroutines, NEW p \in Places \ {"record"}, At(u, p),
         p \in OfRun <=> go[u].pc \in OfRun, p \in OfIntent => go[u].pc \in OfIntent,
         p \notin {"find", "create", "findAgain", "match", "spawn", "propose"}
  PROVE  \E new \in GoRow : /\ go' = [go EXCEPT ![u] = new] /\ NamesRows(new) /\ new.pc = p
                            /\ new.run = go[u].run /\ new.intent = go[u].intent
  <1> DEFINE new == [go[u] EXCEPT !.pc = p]
  <1>1. go' = [go EXCEPT ![u] = new]
    BY DEF At
  <1>2. go[u] \in GoRow /\ NamesRows(go[u])
    BY DEF Inbox, InboxTypes, HoldsRows
  <1>3. new \in GoRow /\ new.pc = p /\ new.run = go[u].run /\ new.intent = go[u].intent
    BY <1>2 DEF GoRow
  <1>4. NamesRows(new)
    BY <1>2, <1>3 DEF NamesRows
  <1> HIDE DEF new
  <1>5. QED
    BY <1>1, <1>3, <1>4

LEMMA IdleMoves ==
  ASSUME Inbox, NEW u \in Goroutines, Done(u)
  PROVE  \E new \in GoRow : go' = [go EXCEPT ![u] = new] /\ NamesRows(new) /\ new.pc = "idle"
  <1>1. Idle \in GoRow /\ NamesRows(Idle) /\ Idle.pc = "idle"
    BY DEF Idle, GoRow, Places, Outcomes, NamesRows, OfRun, OfIntent
  <1>2. QED
    BY <1>1, Zenon DEF Done

LEMMA EndsMoves ==
  ASSUME Inbox, NEW u \in Goroutines, NEW o \in Outcomes \ {"none"}, Ends(u, o), go[u].pc \in OfRun
  PROVE  \E new \in GoRow : /\ go' = [go EXCEPT ![u] = new] /\ NamesRows(new) /\ new.pc = "record"
                            /\ new.run = go[u].run /\ new.outcome = o
  <1> DEFINE new == [go[u] EXCEPT !.pc = "record", !.outcome = o]
  <1>1. go' = [go EXCEPT ![u] = new]
    BY DEF Ends
  <1>2. go[u] \in GoRow /\ NamesRows(go[u])
    BY DEF Inbox, InboxTypes, HoldsRows
  <1>3. new \in GoRow /\ new.pc = "record" /\ new.run = go[u].run /\ new.outcome = o
    BY <1>2 DEF GoRow, Places
  <1>4. NamesRows(new)
    BY <1>2, <1>3 DEF NamesRows, OfRun, OfIntent
  <1> HIDE DEF new
  <1>5. QED
    BY <1>1, <1>3, <1>4

RunRows == [Runs -> [status : {"none", "proposed", "confirmed", "running", "succeeded", "failed", "cancelled"},
                     error : Outcomes, kind : AnyKind, intent : Intents \cup {NoIntent}]]
IntentRows == [Intents -> [status : {"none", "open", "acted", "dismissed"}, kind : AnyKind]]

\* Patches of rows that exist leave every row what it is about.
Patched ==
  /\ action' \in RunRows /\ intent' \in IntentRows
  /\ \A r \in Runs : action'[r].intent = action[r].intent /\ (action[r].status # "none" => action'[r].status # "none")
  /\ \A i \in Intents : intent[i].status # "none" => intent'[i].status # "none"
  /\ effects' \in [Runs -> Nat] /\ spawned' \in [Intents -> Nat]

LEMMA RowsOf ==
  ASSUME Inbox
  PROVE  action \in RunRows /\ intent \in IntentRows /\ effects \in [Runs -> Nat] /\ spawned \in [Intents -> Nat]
  BY DEF Inbox, InboxTypes, RunRows, IntentRows

LEMMA PatchedHolds ==
  ASSUME Inbox, Patched, NEW u \in Goroutines, NEW new \in GoRow, go' = [go EXCEPT ![u] = new], NamesRows(new),
         new.pc \in OfRun => action'[new.run].status # "none",
         new.pc \in OfIntent => intent'[new.intent].status # "none"
  PROVE  Inbox'
  <1>1. go' \in [Goroutines -> GoRow] /\ \A g \in Goroutines : HoldsRows(g)'
    BY OneMoves DEF Patched
  <1>2. QED
    BY <1>1 DEF Patched, Inbox, InboxTypes, RunRows, IntentRows

LEMMA SetRunPatches ==
  ASSUME Inbox, NEW r \in Runs, NEW s \in {"proposed", "confirmed", "running", "succeeded", "failed", "cancelled"},
         NEW e \in Outcomes, SetRun(r, s, e)
  PROVE  /\ action' \in RunRows /\ action'[r].status = s /\ action'[r].error = e
         /\ action'[r].intent = action[r].intent /\ \A q \in Runs \ {r} : action'[q] = action[q]
         /\ \A q \in Runs : action'[q].intent = action[q].intent /\ (action[q].status # "none" => action'[q].status # "none")
  BY RowsOf DEF SetRun, RunRows

LEMMA UnchangedPatches ==
  ASSUME Inbox, UNCHANGED <<action, intent>>, effects' \in [Runs -> Nat], spawned' \in [Intents -> Nat]
  PROVE  Patched
  BY RowsOf DEF Patched
\* What a filtered PATCH of proposed runs does.
LEMMA SettlePatches ==
  ASSUME Inbox, NEW theirs \in SUBSET Runs, NEW s \in {"succeeded", "cancelled"}, SettleProposed(theirs, s)
  PROVE  /\ action' \in RunRows
         /\ \A r \in Runs : \/ action'[r] = action[r]
                            \/ /\ r \in theirs /\ action[r].status = "proposed" /\ action'[r].status = s
                               /\ action'[r].error = action[r].error
         /\ \A r \in Runs : action'[r].intent = action[r].intent /\ (action[r].status # "none" => action'[r].status # "none")
  <1>1. \A r \in Runs : action'[r] = IF r \in theirs /\ action[r].status = "proposed"
                                       THEN [action[r] EXCEPT !.status = s] ELSE action[r]
    BY DEF SettleProposed
  <1>2. \A r \in Runs : action'[r] \in [status : {"none", "proposed", "confirmed", "running", "succeeded", "failed", "cancelled"},
                     error : Outcomes, kind : AnyKind, intent : Intents \cup {NoIntent}]
    BY <1>1, RowsOf DEF RunRows
  <1>3. action' = [r \in Runs |-> action'[r]]
    BY DEF SettleProposed
  <1>4. action' \in RunRows
    BY <1>2, <1>3 DEF RunRows
  <1>5. QED
    BY <1>1, <1>4, RowsOf DEF RunRows

LEMMA RequestsHold ==
  ASSUME Inbox, NEW u \in Requests, RequestStep(u) \/ ConfirmRead(u) \/ CancelRead(u) \/ DismissRead(u)
  PROVE  Inbox'
  <1>0. u \in Goroutines
    BY DEF Goroutines
  <1>r. /\ go[u] \in GoRow /\ HoldsRows(u) /\ NamesRows(go[u])
        /\ go[u].pc \in OfRun => go[u].run \in Runs /\ action[go[u].run].status # "none" /\ action[go[u].run].error \in Outcomes
    BY <1>0 DEF Inbox, InboxTypes, HoldsRows, NamesRows
  <1>e. effects \in [Runs -> Nat] /\ spawned \in [Intents -> Nat] /\ action \in RunRows /\ intent \in IntentRows
    BY RowsOf
  <1>1. CASE ConfirmRead(u) \/ CancelRead(u)
    <2>1. PICK r \in Runs, p \in {"start", "confirm", "cancel"} :
            action[r].status # "none" /\ go' = [go EXCEPT ![u] = [@ EXCEPT !.run = r, !.pc = p]]
      <3>1. CASE ConfirmRead(u)
        <4>1. PICK r \in Runs : Confirmable(action[r]) /\ go' = [go EXCEPT ![u] = [@ EXCEPT !.run = r,
                   !.pc = IF action[r].status = "confirmed" THEN "start" ELSE "confirm"]]
          BY <3>1 DEF ConfirmRead
        <4>2. action[r].status # "none"
          BY <4>1 DEF Confirmable
        <4>3. QED
          BY <4>1, <4>2
      <3>2. CASE CancelRead(u)
        BY <3>2 DEF CancelRead
      <3>3. QED
        BY <1>1, <3>1, <3>2
    <2> DEFINE new == [go[u] EXCEPT !.run = r, !.pc = p]
    <2>2. go' = [go EXCEPT ![u] = new]
      BY <2>1
    <2>3. new \in GoRow /\ new.pc = p /\ new.run = r
      BY <1>r DEF GoRow, Places
    <2>4. NamesRows(new)
      BY <2>3 DEF NamesRows, OfRun, OfIntent
    <2> HIDE DEF new
    <2>5. UNCHANGED <<action, intent, effects, spawned>>
      BY <1>1 DEF ConfirmRead, CancelRead, inboxRows, history
    <2>6. QED
      BY <1>0, <1>e, <2>1, <2>2, <2>3, <2>4, <2>5, OnlyGo DEF OfIntent
  <1>2. CASE DismissRead(u)
    <2>1. PICK i \in Intents : intent[i].status = "open" /\ go' = [go EXCEPT ![u] = [@ EXCEPT !.pc = "dismiss", !.intent = i]]
      BY <1>2 DEF DismissRead
    <2> DEFINE new == [go[u] EXCEPT !.pc = "dismiss", !.intent = i]
    <2>2. go' = [go EXCEPT ![u] = new]
      BY <2>1
    <2>3. new \in GoRow /\ new.pc = "dismiss" /\ new.intent = i /\ new.run = go[u].run /\ go[u].run = NoRun
      BY <1>r, <1>2 DEF GoRow, Places, DismissRead, NamesRows, OfRun
    <2>4. NamesRows(new)
      BY <2>3 DEF NamesRows, OfRun, OfIntent
    <2> HIDE DEF new
    <2>5. UNCHANGED <<action, intent, effects, spawned>>
      BY <1>2 DEF DismissRead, inboxRows, history
    <2>6. QED
      BY <1>0, <1>e, <2>1, <2>2, <2>3, <2>4, <2>5, OnlyGo DEF OfRun
  <1>3. CASE ConfirmWrite(u)
    <2>1. /\ go[u].pc = "confirm" /\ SetRun(go[u].run, "confirmed", "none") /\ At(u, "start")
          /\ UNCHANGED <<intent, effects, spawned>>
      BY <1>3 DEF ConfirmWrite, history
    <2>2. go[u].run \in Runs
      BY <1>r, <2>1 DEF OfRun
    <2>3. Patched /\ action'[go[u].run].status = "confirmed"
      BY <1>e, <2>1, <2>2, SetRunPatches DEF Patched, Outcomes
    <2>4. PICK new \in GoRow : go' = [go EXCEPT ![u] = new] /\ NamesRows(new) /\ new.pc = "start" /\ new.run = go[u].run
      BY <1>0, <2>1, PcMoves DEF OfRun, OfIntent, Places
    <2>5. QED
      BY <1>0, <2>3, <2>4, PatchedHolds DEF OfIntent
  <1>4. CASE Start(u)
    <2>1. PICK p \in {"similar", "effect"} :
             /\ go[u].pc = "start" /\ SetRun(go[u].run, "running", action[go[u].run].error) /\ At(u, p)
             /\ UNCHANGED <<intent, effects, spawned>>
      BY <1>4, Zenon DEF Start, history
    <2>2. go[u].run \in Runs /\ action[go[u].run].error \in Outcomes
      BY <1>r, <2>1 DEF OfRun
    <2>3. Patched /\ action'[go[u].run].status = "running"
      BY <1>e, <2>1, <2>2, SetRunPatches DEF Patched
    <2>4. PICK new \in GoRow : go' = [go EXCEPT ![u] = new] /\ NamesRows(new) /\ new.pc = p /\ new.run = go[u].run
      BY <1>0, <2>1, PcMoves DEF OfRun, OfIntent, Places
    <2>5. QED
      BY <1>0, <2>3, <2>4, PatchedHolds DEF OfIntent
  <1>5. CASE Effect(u) \/ EffectSimilar(u) \/ EffectInsert(u)
    <2>1. UNCHANGED <<action, intent, spawned>> /\ go[u].pc \in {"effect", "similar", "insert"}
      BY <1>5 DEF Effect, EffectSimilar, EffectInsert, inboxRows
    <2>2. go[u].run \in Runs /\ action[go[u].run].status # "none"
      BY <1>r, <2>1 DEF OfRun
    <2>3. effects' = effects \/ Happens(go[u].run)
      BY <1>5 DEF Effect, EffectSimilar, EffectInsert
    <2>4. effects' \in [Runs -> Nat]
      BY <2>3, <2>2, <1>e DEF Happens
    <2>5. (\E o \in {"ok", "retryable", "other"} : Ends(u, o)) \/ At(u, "insert")
      BY <1>5 DEF Effect, EffectSimilar, EffectInsert
    <2>6. PICK new \in GoRow : go' = [go EXCEPT ![u] = new] /\ NamesRows(new) /\ new.pc \in {"record", "insert"} /\ new.run = go[u].run
      <3>1. CASE \E o \in {"ok", "retryable", "other"} : Ends(u, o)
        <4>1. PICK o \in {"ok", "retryable", "other"} : Ends(u, o)
          BY <3>1
        <4>2. go[u].pc \in OfRun /\ o \in Outcomes \ {"none"}
          BY <2>1 DEF OfRun, Outcomes
        <4>3. QED
          BY <1>0, <4>1, <4>2, EndsMoves
      <3>2. CASE At(u, "insert")
        BY <1>0, <2>1, <3>2, PcMoves DEF OfRun, OfIntent, Places
      <3>3. QED
        BY <2>5, <3>1, <3>2
    <2>7. QED
      BY <1>0, <1>e, <2>1, <2>2, <2>4, <2>6, OnlyGo DEF OfIntent
  <1>6. CASE Record(u)
    <2>1. /\ go[u].pc = "record" /\ UNCHANGED <<intent, effects, spawned>>
          /\ SetRun(go[u].run, StatusAfter(go[u].outcome), IF go[u].outcome = "ok" THEN "none" ELSE go[u].outcome)
          /\ At(u, "acted") \/ Done(u)
      BY <1>6 DEF Record
    <2>2. go[u].run \in Runs /\ go[u].outcome \in {"ok", "retryable", "other"}
      BY <1>r, <2>1 DEF OfRun, NamesRows, GoRow, Outcomes
    <2>3. StatusAfter(go[u].outcome) \in {"succeeded", "proposed", "failed"}
      BY <2>2 DEF StatusAfter
    <2>4. (IF go[u].outcome = "ok" THEN "none" ELSE go[u].outcome) \in Outcomes
      BY <2>2 DEF Outcomes
    <2>5. Patched /\ action'[go[u].run].status # "none"
      BY <1>e, <2>1, <2>2, <2>3, <2>4, SetRunPatches DEF Patched
    <2>6. PICK new \in GoRow : go' = [go EXCEPT ![u] = new] /\ NamesRows(new)
                                /\ (new.pc = "idle" \/ (new.pc = "acted" /\ new.run = go[u].run))
      <3>1. CASE At(u, "acted")
        BY <1>0, <2>1, <3>1, PcMoves DEF OfRun, OfIntent, Places
      <3>2. CASE Done(u)
        BY <1>0, <3>2, IdleMoves
      <3>3. QED
        BY <2>1, <3>1, <3>2
    <2>7. QED
      BY <1>0, <2>5, <2>6, PatchedHolds DEF OfIntent, OfRun
  <1>7. CASE MarkIntentActed(u) \/ CancelWrite(u) \/ DismissRuns(u)
    <2>1. PICK new \in GoRow : go' = [go EXCEPT ![u] = new] /\ NamesRows(new) /\ new.pc = "idle"
      BY <1>0, <1>7, IdleMoves DEF MarkIntentActed, CancelWrite, DismissRuns
    <2>2. Patched
      <3>1. CASE MarkIntentActed(u)
        <4> DEFINE i == action[go[u].run].intent
        <4>1. /\ go[u].pc = "acted" /\ UNCHANGED <<action, effects, spawned>>
              /\ intent' = IF i = NoIntent THEN intent ELSE [intent EXCEPT ![i].status = "acted"]
          BY <3>1 DEF MarkIntentActed
        <4>2. i \in Intents \cup {NoIntent}
          BY <4>1, <1>r, <1>e DEF OfRun, RunRows
        <4> HIDE DEF i
        <4>3. intent' \in IntentRows /\ \A j \in Intents : intent[j].status # "none" => intent'[j].status # "none"
          BY <4>1, <4>2, <1>e DEF IntentRows
        <4>4. QED
          BY <4>1, <4>3, <1>e DEF Patched
      <3>2. CASE CancelWrite(u)
        <4>1. go[u].pc = "cancel" /\ SetRun(go[u].run, "cancelled", action[go[u].run].error) /\ UNCHANGED <<intent, effects, spawned>>
          BY <3>2 DEF CancelWrite
        <4>2. QED
          BY <4>1, <1>r, <1>e, SetRunPatches DEF Patched, OfRun
      <3>3. CASE DismissRuns(u)
        <4>1. UNCHANGED <<intent, effects, spawned>>
          BY <3>3 DEF DismissRuns
        <4>2. SettleProposed({r \in Runs : action[r].intent = go[u].intent}, "cancelled")
          BY <3>3 DEF DismissRuns
        <4>3. QED
          BY <4>1, <4>2, <1>e, SettlePatches DEF Patched
      <3>4. QED
        BY <1>7, <3>1, <3>2, <3>3
    <2>3. QED
      BY <1>0, <2>1, <2>2, PatchedHolds DEF OfRun, OfIntent
  <1>8. CASE DismissWrite(u)
    <2>1. /\ go[u].pc = "dismiss" /\ UNCHANGED <<action, effects, spawned>> /\ At(u, "dismissRuns")
          /\ intent' = [intent EXCEPT ![go[u].intent].status = "dismissed"]
      BY <1>8 DEF DismissWrite, history
    <2>2. go[u].intent \in Intents
      BY <1>r, <2>1 DEF NamesRows, OfIntent
    <2>3. Patched /\ intent'[go[u].intent].status # "none"
      <3>1. intent' \in IntentRows /\ \A j \in Intents : intent[j].status # "none" => intent'[j].status # "none"
        BY <2>1, <2>2, <1>e DEF IntentRows
      <3>2. intent'[go[u].intent].status # "none"
        BY <2>1, <2>2, <1>e DEF IntentRows
      <3>3. QED
        BY <2>1, <3>1, <3>2, <1>e DEF Patched
    <2>4. PICK new \in GoRow : go' = [go EXCEPT ![u] = new] /\ NamesRows(new) /\ new.pc = "dismissRuns" /\ new.intent = go[u].intent
      BY <1>0, <2>1, PcMoves DEF OfRun, OfIntent, Places
    <2>5. QED
      BY <1>0, <2>3, <2>4, PatchedHolds DEF OfRun
  <1>9. QED
    BY <1>1, <1>2, <1>3, <1>4, <1>5, <1>6, <1>7, <1>8 DEF RequestStep

LEMMA AnyStepHolds ==
  ASSUME Inbox, [Next]_vars
  PROVE  Inbox'
  <1>e. effects \in [Runs -> Nat] /\ spawned \in [Intents -> Nat] /\ action \in RunRows /\ intent \in IntentRows
    BY RowsOf
  <1>1. CASE UNCHANGED <<intent, action, go, effects, spawned>>
    BY <1>1 DEF Inbox, InboxTypes, HoldsRows
  <1>2. ASSUME NEW g \in Goroutines, Abandon(g) PROVE Inbox'
    <2>1. PICK new \in GoRow : go' = [go EXCEPT ![g] = new] /\ NamesRows(new) /\ new.pc \in {"idle", "find"}
      BY <1>2, NextKindGoes, IdleMoves DEF Abandon
    <2>2. UNCHANGED <<intent, action, effects, spawned>>
      BY <1>2 DEF Abandon, inboxRows
    <2>3. QED
      BY <1>2, <1>e, <2>1, <2>2, OnlyGo DEF OfRun, OfIntent
  <1>3. CASE RecordRequest
    <2>1. PICK r \in Runs : action[r].status = "none"
                            /\ action' = [action EXCEPT ![r] = [NoAction EXCEPT !.status = "proposed", !.kind = "agent_approval"]]
      BY <1>3 DEF RecordRequest
    <2>2. UNCHANGED <<intent, go, effects, spawned>>
      BY <1>3 DEF RecordRequest, history
    <2> DEFINE row == [NoAction EXCEPT !.status = "proposed", !.kind = "agent_approval"]
    <2>3. /\ row.status = "proposed" /\ row.intent = NoIntent
          /\ row \in [status : {"proposed"}, error : Outcomes, kind : AnyKind, intent : Intents \cup {NoIntent}]
      <3>1. NoAction \in [status : {"none"}, error : Outcomes, kind : AnyKind, intent : {NoIntent}]
        BY DEF NoAction, Outcomes, AnyKind
      <3>2. QED
        BY <3>1 DEF AnyKind
    <2> HIDE DEF row
    <2>4. action' \in RunRows /\ \A q \in Runs : action'[q] = IF q = r THEN row ELSE action[q]
      <3>1. action' = [action EXCEPT ![r] = row]
        BY <2>1 DEF row
      <3>2. QED
        BY <3>1, <2>3, <1>e DEF RunRows
    <2>5. \A q \in Runs : /\ action[q].status # "none" => action'[q].status # "none"
                          /\ action'[q].intent \in Intents => action'[q].intent = action[q].intent
      BY <2>3, <2>4, InboxAssumption
    <2>6. \A g \in Goroutines : HoldsRows(g)'
      BY <2>2, <2>5 DEF Inbox, HoldsRows, NamesRows
    <2>7. QED
      BY <2>2, <2>4, <2>5, <2>6 DEF Inbox, InboxTypes, RunRows
  <1>4. CASE SettleApproval
    <2>1. PICK status \in {"succeeded", "cancelled"} :
            SettleProposed({r \in Runs : action[r].kind = "agent_approval"}, status)
      BY <1>4 DEF SettleApproval
    <2>2. UNCHANGED <<intent, go, effects, spawned>>
      BY <1>4 DEF SettleApproval
    <2>3. /\ action' \in RunRows
          /\ \A r \in Runs : action'[r].intent = action[r].intent /\ (action[r].status # "none" => action'[r].status # "none")
      BY <2>1, SettlePatches
    <2>4. QED
      BY <2>2, <2>3 DEF Inbox, InboxTypes, HoldsRows, NamesRows, RunRows
  <1>5. QED
    <2>1. ASSUME UNCHANGED vars \/ (RemindersNext /\ UNCHANGED <<intent, action, go, queue, history>>)
          PROVE  Inbox'
      BY <2>1, <1>1 DEF vars, history
    <2>2. ASSUME InboxNext PROVE Inbox'
      BY <2>2, <1>2, <1>3, <1>4, RequestsHold, ExtractorsHold DEF InboxNext, Goroutines
    <2>3. QED
      BY <2>1, <2>2 DEF Next

-----------------------------------------------------------------------------
(* An effect happens once.  Unless two confirms of the run overlapped, one    *)
(* goroutine confirms it; while it is past the PATCH to running, and once   *)
(* the effect has happened, the row is not one a confirm accepts.           *)

Late(g) == go[g].pc \in {"effect", "similar", "insert", "record"}

RunOnce(r) ==
  /\ \A g, h \in Confirming(r) : g = h
  /\ effects[r] \in {0, 1}
  /\ \A g \in Confirming(r) : Late(g) => ~Confirmable(action[r])
  /\ effects[r] = 1 => /\ ~Confirmable(action[r])
                       /\ \A g \in Confirming(r) : go[g].pc = "record" /\ go[g].outcome # "retryable"
  /\ action[r].status = "none" => effects[r] = 0

RunsOnce == \A r \in Runs : r \in contested \/ RunOnce(r)

LEMMA Placing ==
  ASSUME Inbox, NEW u \in Goroutines
  PROVE  /\ \A p : At(u, p) => /\ go'[u] = [go[u] EXCEPT !.pc = p] /\ \A h \in Goroutines \ {u} : go'[h] = go[h]
                               /\ go'[u].pc = p /\ go'[u].run = go[u].run /\ go'[u].outcome = go[u].outcome /\ go'[u].intent = go[u].intent
         /\ \A o : Ends(u, o) => /\ go'[u].pc = "record" /\ go'[u].outcome = o /\ go'[u].run = go[u].run
                                 /\ \A h \in Goroutines \ {u} : go'[h] = go[h]
         /\ Done(u) => go'[u].pc = "idle" /\ \A h \in Goroutines \ {u} : go'[h] = go[h]
         /\ \A k : NextKind(u, k) => go'[u].pc \in {"idle", "find"} /\ \A h \in Goroutines \ {u} : go'[h] = go[h]
  <1>1. go \in [Goroutines -> GoRow]
    BY DEF Inbox, InboxTypes
  <1>2. ASSUME NEW p, At(u, p)
        PROVE  /\ go'[u] = [go[u] EXCEPT !.pc = p] /\ \A h \in Goroutines \ {u} : go'[h] = go[h]
               /\ go'[u].pc = p /\ go'[u].run = go[u].run /\ go'[u].outcome = go[u].outcome /\ go'[u].intent = go[u].intent
    BY <1>1, <1>2 DEF At, GoRow
  <1>3. ASSUME NEW o, Ends(u, o)
        PROVE  /\ go'[u].pc = "record" /\ go'[u].outcome = o /\ go'[u].run = go[u].run
               /\ \A h \in Goroutines \ {u} : go'[h] = go[h]
    BY <1>1, <1>3 DEF Ends, GoRow
  <1>4. ASSUME Done(u) PROVE go'[u].pc = "idle" /\ \A h \in Goroutines \ {u} : go'[h] = go[h]
    BY <1>1, <1>4 DEF Done, Idle
  <1>5. ASSUME NEW k, NextKind(u, k)
        PROVE  go'[u].pc \in {"idle", "find"} /\ \A h \in Goroutines \ {u} : go'[h] = go[h]
    BY <1>1, <1>5, NextKindGoes
  <1>6. QED
    BY <1>2, <1>3, <1>4, <1>5

\* A step that makes nobody confirm the run and no row confirmable.
LEMMA OnceKeeps ==
  ASSUME NEW r \in Runs, RunOnce(r), effects'[r] = effects[r],
         \/ action'[r] = action[r]
         \/ ~Confirmable(action'[r]) /\ (action'[r].status = "none" => action[r].status = "none"),
         \A h \in Goroutines : h \in Confirming(r)' => h \in Confirming(r) /\ go'[h] = go[h]
  PROVE  RunOnce(r)'
  <1>1. \A h \in Confirming(r)' : h \in Confirming(r) /\ go'[h] = go[h]
    BY DEF Confirming
  <1>2. QED
    BY <1>1 DEF RunOnce, Late

LEMMA ExtractorsOnce ==
  ASSUME Inbox, RunsOnce, NEW x \in Extractors, ExtractorStep(x) \/ Abandon(x)
  PROVE  RunsOnce'
  <1>0. x \in Goroutines
    BY DEF Goroutines
  <1>1. /\ \A h \in Goroutines \ {x} : go'[h] = go[h]
        /\ go'[x].pc \in {"find", "create", "findAgain", "match", "spawn", "propose", "idle"}
    <2>1. CASE Extract(x) \/ CreateIntent(x)
      <3>1. go \in [Goroutines -> GoRow]
        BY DEF Inbox, InboxTypes
      <3>2. CASE Extract(x)
        <4>1. PICK kinds \in SUBSET Kinds : go' = [go EXCEPT ![x] = [@ EXCEPT !.pc = "find", !.kinds = kinds]]
          BY <3>2 DEF Extract
        <4>2. QED
          BY <1>0, <3>1, <4>1 DEF GoRow
      <3>3. CASE CreateIntent(x)
        <4>1. CASE At(x, "findAgain")
          BY <1>0, <4>1, Placing
        <4>2. CASE \E i \in Intents : go' = [go EXCEPT ![x] = [@ EXCEPT !.pc = "match", !.intent = i]]
          BY <1>0, <3>1, <4>2 DEF GoRow
        <4>3. QED
          BY <3>3, <4>1, <4>2 DEF CreateIntent
      <3>4. QED
        BY <2>1, <3>2, <3>3
    <2>2. CASE FindOpenIntent(x) \/ FindAgain(x) \/ MatchIntent(x) \/ SpawnFromIntent(x) \/ CreateActionRun(x) \/ Abandon(x)
      <3>1. NextKind(x, Current(x)) \/ \E p \in {"create", "spawn", "propose"} : At(x, p)
        BY <2>2 DEF FindOpenIntent, FindAgain, MatchIntent, SpawnFromIntent, CreateActionRun, Abandon
      <3>2. QED
        BY <1>0, <3>1, Placing
    <2>3. QED
      BY <2>1, <2>2 DEF ExtractorStep
  <1>2. \A r \in Runs : \A h \in Goroutines : h \in Confirming(r)' => h \in Confirming(r) /\ go'[h] = go[h]
    BY <1>1 DEF Confirming
  <1>3. UNCHANGED <<effects, contested>>
    BY DEF ExtractorStep, Extract, FindOpenIntent, CreateIntent, FindAgain, MatchIntent, SpawnFromIntent, CreateActionRun, Abandon, history
  <1>4. CASE UNCHANGED action
    <2>1. ASSUME NEW r \in Runs, RunOnce(r) PROVE RunOnce(r)'
      BY <1>2, <1>3, <1>4, <2>1, OnceKeeps
    <2>2. QED
      BY <1>3, <2>1 DEF RunsOnce
  <1>5. CASE CreateActionRun(x)
    <2>1. PICK q \in Runs :
               /\ action[q].status = "none"
               /\ action' = [action EXCEPT ![q] = [status |-> "proposed", error |-> "none",
                                           kind |-> Current(x), intent |-> go[x].intent]]
      BY <1>5 DEF CreateActionRun
    <2>2. action \in RunRows
      BY RowsOf
    <2>3. ASSUME NEW r \in Runs, RunOnce(r), r # q PROVE RunOnce(r)'
      <3>1. action'[r] = action[r]
        BY <2>1, <2>2, <2>3 DEF RunRows
      <3>2. QED
        BY <1>2, <1>3, <2>3, <3>1, OnceKeeps
    <2>4. ASSUME RunOnce(q) PROVE RunOnce(q)'
      <3>1. Confirming(q)' = {}
        BY <1>2, <2>1 DEF Confirming, Inbox, HoldsRows, OfRun
      <3>2. effects'[q] = 0 /\ action'[q].status # "none"
        BY <1>3, <2>1, <2>2, <2>4 DEF RunOnce, RunRows
      <3>3. QED
        BY <3>1, <3>2 DEF RunOnce
    <2>5. QED
      BY <1>3, <2>3, <2>4 DEF RunsOnce
  <1>6. UNCHANGED action \/ CreateActionRun(x)
    BY DEF ExtractorStep, Extract, FindOpenIntent, CreateIntent, FindAgain, MatchIntent, SpawnFromIntent, Abandon, inboxRows
  <1>7. QED
    BY <1>4, <1>5, <1>6

LEMMA ConfirmsOnce ==
  ASSUME Inbox, RunsOnce, NEW u \in Requests,
         \/ ConfirmRead(u) \/ ConfirmWrite(u) \/ Start(u)
         \/ Effect(u) \/ EffectSimilar(u) \/ EffectInsert(u) \/ Record(u)
  PROVE  RunsOnce'
  <1>0. u \in Goroutines /\ go \in [Goroutines -> GoRow] /\ HoldsRows(u)
    BY DEF Goroutines, Inbox, InboxTypes
  <1>e. effects \in [Runs -> Nat] /\ action \in RunRows
    BY RowsOf
  <1>1. CASE ConfirmRead(u)
    <2>1. PICK q \in Runs :
             /\ Confirmable(action[q])
             /\ go' = [go EXCEPT ![u] = [@ EXCEPT !.run = q, !.pc = IF action[q].status = "confirmed" THEN "start" ELSE "confirm"]]
             /\ contested' = IF Confirming(q) # {} THEN contested \cup {q} ELSE contested
      BY <1>1 DEF ConfirmRead
    <2>2. UNCHANGED <<action, effects>>
      BY <1>1 DEF ConfirmRead, inboxRows
    <2> DEFINE p == IF action[q].status = "confirmed" THEN "start" ELSE "confirm"
    <2>3. go'[u].run = q /\ go'[u].pc \in {"start", "confirm"} /\ \A h \in Goroutines \ {u} : go'[h] = go[h]
      <3>1. p \in {"start", "confirm"}
        OBVIOUS
      <3>2. go' = [go EXCEPT ![u] = [@ EXCEPT !.run = q, !.pc = p]]
        BY <2>1
      <3> HIDE DEF p
      <3>3. QED
        BY <1>0, <3>1, <3>2 DEF GoRow
    <2>4. ASSUME NEW r \in Runs, RunOnce(r), r # q PROVE RunOnce(r)'
      <3>1. \A h \in Goroutines : h \in Confirming(r)' => h \in Confirming(r) /\ go'[h] = go[h]
        BY <2>3, <2>4 DEF Confirming
      <3>2. QED
        BY <2>2, <2>4, <3>1, OnceKeeps
    <2>5. ASSUME RunOnce(q), q \notin contested' PROVE RunOnce(q)'
      <3>1. Confirming(q) = {}
        BY <2>1, <2>5
      <3>2. \A h \in Confirming(q)' : h = u
        BY <2>3, <3>1 DEF Confirming
      <3>3. ~Late(u)'
        BY <2>3 DEF Late
      <3>4. effects[q] = 0 /\ effects[q] \in {0, 1}
        BY <2>1, <2>5 DEF RunOnce
      <3>5. QED
        BY <2>2, <3>2, <3>3, <3>4 DEF RunOnce, Late
    <2>6. contested \in SUBSET contested'
      BY <2>1
    <2>7. QED
      BY <2>4, <2>5, <2>6 DEF RunsOnce
  <1>2. CASE ~ConfirmRead(u)
    <2>0. go[u].pc \in {"confirm", "start", "effect", "similar", "insert", "record"}
      BY <1>2 DEF ConfirmWrite, Start, Effect, EffectSimilar, EffectInsert, Record
    <2>q. PICK q \in Runs : q = go[u].run
      BY <1>0, <2>0 DEF HoldsRows, NamesRows, OfRun
    <2>1. /\ go[u].pc \in {"confirm", "start", "effect", "similar", "insert", "record"}
          /\ q = go[u].run /\ action[q].status # "none" /\ u \in Confirming(q) /\ contested' = contested
      <3>2. contested' = contested
        BY <1>2 DEF ConfirmWrite, Start, Effect, EffectSimilar, EffectInsert, Record, history
      <3>3. QED
        BY <1>0, <2>0, <2>q, <3>2 DEF HoldsRows, NamesRows, OfRun, Confirming
    <2>2. \A h \in Goroutines \ {u} : go'[h] = go[h]
      <3>1. (\E o : Ends(u, o)) \/ (\E p : At(u, p)) \/ Done(u)
        BY <1>2 DEF ConfirmWrite, Start, Effect, EffectSimilar, EffectInsert, Record
      <3>2. QED
        BY <1>0, <3>1, Placing
    <2>3. go'[u].run = q \/ go'[u].pc = "idle"
      <3>1. (\E o : Ends(u, o)) \/ (\E p : At(u, p)) \/ Done(u)
        BY <1>2 DEF ConfirmWrite, Start, Effect, EffectSimilar, EffectInsert, Record
      <3>2. QED
        BY <1>0, <2>q, <3>1, Placing
    <2>4. \A r \in Runs \ {q} : action'[r] = action[r] /\ effects'[r] = effects[r]
      <3>1. action' = action \/ \E s, e : SetRun(q, s, e)
        BY <1>2, <2>q DEF ConfirmWrite, Start, Effect, EffectSimilar, EffectInsert, Record, inboxRows
      <3>2. effects' = effects \/ Happens(q)
        BY <1>2, <2>q DEF ConfirmWrite, Start, Effect, EffectSimilar, EffectInsert, Record, history
      <3>3. QED
        BY <3>1, <3>2, <1>e, <2>1 DEF SetRun, Happens, RunRows
    <2>5. ASSUME NEW r \in Runs, RunOnce(r), r # q PROVE RunOnce(r)'
      <3>1. \A h \in Goroutines : h \in Confirming(r)' => h \in Confirming(r) /\ go'[h] = go[h]
        BY <2>2, <2>3, <2>5 DEF Confirming
      <3>2. QED
        BY <2>4, <2>5, <3>1, OnceKeeps
    <2>6. ASSUME RunOnce(q) PROVE RunOnce(q)'
      <3>1. \A h \in Confirming(q)' : h = u
        BY <2>1, <2>2, <2>6 DEF Confirming, RunOnce
      <3>2. effects[q] \in {0, 1}
        BY <2>6 DEF RunOnce
      <3>3. CASE ConfirmWrite(u)
        <4>1. go[u].pc = "confirm" /\ SetRun(q, "confirmed", "none") /\ At(u, "start") /\ effects' = effects
          BY <2>q, <3>3 DEF ConfirmWrite, history
        <4>2. effects'[q] = 0
          BY <2>1, <2>6, <3>2, <4>1 DEF RunOnce
        <4>4. go'[u].pc = "start" /\ action'[q].status = "confirmed"
          <5>1. "none" \in Outcomes
            BY DEF Outcomes
          <5>2. QED
            BY <1>0, <2>1, <4>1, <5>1, Placing, SetRunPatches
        <4>5. ~Late(u)'
          BY <4>4 DEF Late
        <4>3. QED
          BY <3>1, <4>2, <4>4, <4>5 DEF RunOnce
      <3>4. CASE Start(u)
        <4>1. PICK p \in {"similar", "effect"} : go[u].pc = "start" /\ SetRun(q, "running", action[q].error) /\ At(u, p) /\ effects' = effects
          BY <2>q, <3>4, Zenon DEF Start, history
        <4>2. action[q].error \in Outcomes
          BY <1>e, <2>1 DEF RunRows
        <4>3. effects'[q] = 0 /\ action'[q].status = "running"
          BY <1>e, <2>1, <2>6, <3>2, <4>1, <4>2, SetRunPatches DEF RunOnce
        <4>4. QED
          BY <3>1, <4>3 DEF RunOnce, Confirmable
      <3>5. CASE Effect(u) \/ EffectSimilar(u) \/ EffectInsert(u)
        <4>1. go[u].pc \in {"effect", "similar", "insert"} /\ action' = action
          BY <2>q, <3>5 DEF Effect, EffectSimilar, EffectInsert, inboxRows
        <4>2. effects[q] = 0 /\ ~Confirmable(action[q])
          BY <2>1, <2>6, <3>2, <4>1 DEF RunOnce, Late
        <4>3. \/ effects' = effects /\ (go'[u].pc = "insert" \/ go'[u].pc = "record")
              \/ Happens(q) /\ go'[u].pc = "record" /\ go'[u].outcome # "retryable"
          <5>1. \/ effects' = effects /\ (At(u, "insert") \/ \E o : Ends(u, o))
                \/ Happens(q) /\ \E o \in {"ok", "other"} : Ends(u, o)
            BY <2>q, <3>5 DEF Effect, EffectSimilar, EffectInsert
          <5>2. QED
            BY <1>0, <5>1, Placing
        <4>4. CASE effects' = effects
          BY <3>1, <4>1, <4>2, <4>4 DEF RunOnce
        <4>5. CASE Happens(q) /\ go'[u].pc = "record" /\ go'[u].outcome # "retryable"
          <5>1. effects'[q] = 1
            BY <1>e, <2>1, <4>2, <4>5 DEF Happens
          <5>2. QED
            BY <2>1, <3>1, <4>1, <4>2, <4>5, <5>1 DEF RunOnce
        <4>6. QED
          BY <4>3, <4>4, <4>5
      <3>6. CASE Record(u)
        <4> DEFINE o == go[u].outcome
        <4>1. /\ go[u].pc = "record" /\ effects' = effects
              /\ SetRun(q, StatusAfter(o), IF o = "ok" THEN "none" ELSE o)
              /\ At(u, "acted") \/ Done(u)
          BY <2>q, <3>6 DEF Record
        <4>2. o \in {"ok", "retryable", "other"}
          BY <1>0, <4>1 DEF HoldsRows, NamesRows, GoRow, Outcomes
        <4>3. Confirming(q)' = {}
          <5>1. go'[u].pc \in {"acted", "idle"}
            BY <1>0, <4>1, Placing
          <5>2. QED
            BY <3>1, <5>1 DEF Confirming
        <4>4. effects[q] = 1 => o # "retryable"
          BY <2>1, <2>6, <4>1 DEF RunOnce
        <4>5. action'[q].status # "none" /\ (o # "retryable" => ~Confirmable(action'[q]))
          <5>1. /\ StatusAfter(o) \in {"succeeded", "proposed", "failed"}
                /\ (IF o = "ok" THEN "none" ELSE o) \in Outcomes
                /\ o = "ok" => StatusAfter(o) = "succeeded"
                /\ o = "other" => StatusAfter(o) = "failed" /\ (IF o = "ok" THEN "none" ELSE o) = "other"
            BY <4>2 DEF StatusAfter, Outcomes
          <5>2. action'[q].status = StatusAfter(o) /\ action'[q].error = (IF o = "ok" THEN "none" ELSE o)
            BY <2>1, <4>1, <5>1, SetRunPatches
          <5>3. QED
            BY <4>2, <5>1, <5>2 DEF Confirmable
        <4>6. QED
          BY <3>2, <4>1, <4>3, <4>4, <4>5 DEF RunOnce
      <3>7. QED
        BY <1>2, <3>3, <3>4, <3>5, <3>6
    <2>7. QED
      BY <2>1, <2>5, <2>6 DEF RunsOnce
  <1>3. QED
    BY <1>1, <1>2

LEMMA OthersOnce ==
  ASSUME Inbox, RunsOnce, NEW u \in Requests,
         \/ CancelRead(u) \/ DismissRead(u) \/ MarkIntentActed(u) \/ CancelWrite(u)
         \/ DismissWrite(u) \/ DismissRuns(u) \/ Abandon(u)
  PROVE  RunsOnce'
  <1>0. u \in Goroutines /\ go \in [Goroutines -> GoRow] /\ HoldsRows(u) /\ action \in RunRows
    BY RowsOf DEF Goroutines, Inbox, InboxTypes
  <1>1. /\ \A h \in Goroutines \ {u} : go'[h] = go[h]
        /\ go'[u].pc \in {"cancel", "dismiss", "idle", "dismissRuns", "find"}
    <2>1. CASE CancelRead(u)
      BY <1>0, <2>1 DEF CancelRead, GoRow
    <2>2. CASE DismissRead(u)
      BY <1>0, <2>2 DEF DismissRead, GoRow
    <2>3. ASSUME ~CancelRead(u), ~DismissRead(u)
          PROVE  Done(u) \/ At(u, "dismissRuns") \/ \E k : NextKind(u, k)
      BY <2>3 DEF MarkIntentActed, CancelWrite, DismissWrite, DismissRuns, Abandon
    <2>4. QED
      BY <1>0, <2>1, <2>2, <2>3, Placing
  <1>2. \A r \in Runs : \A h \in Goroutines : h \in Confirming(r)' => h \in Confirming(r) /\ go'[h] = go[h]
    BY <1>1 DEF Confirming
  <1>3. effects' = effects /\ contested' = contested
    BY DEF CancelRead, DismissRead, MarkIntentActed, CancelWrite, DismissWrite, DismissRuns, Abandon, history
  <1>4. \A r \in Runs : \/ action'[r] = action[r]
                        \/ ~Confirmable(action'[r]) /\ (action'[r].status = "none" => action[r].status = "none")
    <2>1. CASE UNCHANGED action
      BY <2>1
    <2>2. CASE CancelWrite(u)
      <3>1. go[u].run \in Runs /\ SetRun(go[u].run, "cancelled", action[go[u].run].error) /\ action[go[u].run].error \in Outcomes
        BY <1>0, <2>2 DEF CancelWrite, HoldsRows, NamesRows, OfRun, RunRows
      <3>2. QED
        BY <3>1, SetRunPatches DEF Confirmable
    <2>3. CASE DismissRuns(u)
      <3>1. SettleProposed({r \in Runs : action[r].intent = go[u].intent}, "cancelled")
        BY <2>3 DEF DismissRuns
      <3>2. QED
        BY <3>1, SettlePatches DEF Confirmable
    <2>4. QED
      BY <2>1, <2>2, <2>3 DEF CancelRead, DismissRead, MarkIntentActed, DismissWrite, Abandon, inboxRows
  <1>5. ASSUME NEW r \in Runs, RunOnce(r) PROVE RunOnce(r)'
    BY <1>2, <1>3, <1>4, <1>5, OnceKeeps
  <1>6. QED
    BY <1>3, <1>5 DEF RunsOnce

LEMMA StepsOnce ==
  ASSUME Inbox, RunsOnce, [Next]_vars
  PROVE  RunsOnce'
  <1>1. ASSUME UNCHANGED <<action, go, effects, contested>> PROVE RunsOnce'
    BY <1>1 DEF RunsOnce, RunOnce, Confirming, Late
  <1>2. CASE RecordRequest
    <2>1. PICK q \in Runs : action[q].status = "none"
                            /\ action' = [action EXCEPT ![q] = [NoAction EXCEPT !.status = "proposed", !.kind = "agent_approval"]]
      BY <1>2 DEF RecordRequest
    <2>2. UNCHANGED <<go, effects, contested>>
      BY <1>2 DEF RecordRequest, history
    <2>3. \A r \in Runs : \A h \in Goroutines : h \in Confirming(r)' => h \in Confirming(r) /\ go'[h] = go[h]
      BY <2>2 DEF Confirming
    <2>4. ASSUME NEW r \in Runs, RunOnce(r), r # q PROVE RunOnce(r)'
      <3>1. action'[r] = action[r]
        BY <2>1, <2>4, RowsOf DEF RunRows
      <3>2. QED
        BY <2>2, <2>3, <2>4, <3>1, OnceKeeps
    <2>5. ASSUME RunOnce(q) PROVE RunOnce(q)'
      <3>1. Confirming(q)' = {}
        BY <2>1, <2>3 DEF Confirming, Inbox, HoldsRows, OfRun
      <3>2. effects'[q] = 0
        BY <2>1, <2>2, <2>5 DEF RunOnce
      <3>3. QED
        BY <3>1, <3>2 DEF RunOnce
    <2>6. QED
      BY <2>2, <2>4, <2>5 DEF RunsOnce
  <1>3. CASE SettleApproval
    <2>1. PICK status \in {"succeeded", "cancelled"} :
            SettleProposed({r \in Runs : action[r].kind = "agent_approval"}, status)
      BY <1>3 DEF SettleApproval
    <2>2. UNCHANGED <<go, effects, contested>>
      BY <1>3 DEF SettleApproval
    <2>3. \A r \in Runs : \/ action'[r] = action[r]
                          \/ ~Confirmable(action'[r]) /\ (action'[r].status = "none" => action[r].status = "none")
      BY <2>1, SettlePatches DEF Confirmable
    <2>4. ASSUME NEW r \in Runs, RunOnce(r) PROVE RunOnce(r)'
      <3>1. \A h \in Goroutines : h \in Confirming(r)' => h \in Confirming(r) /\ go'[h] = go[h]
        BY <2>2 DEF Confirming
      <3>2. QED
        BY <2>2, <2>3, <2>4, <3>1, OnceKeeps
    <2>5. QED
      BY <2>2, <2>4 DEF RunsOnce
  <1>4. CASE InboxNext
    <2>1. CASE \E x \in Extractors : ExtractorStep(x) \/ Abandon(x)
      BY <2>1, ExtractorsOnce
    <2>2. CASE \E u \in Requests : \/ ConfirmRead(u) \/ CancelRead(u) \/ DismissRead(u) \/ RequestStep(u) \/ Abandon(u)
      BY <2>2, ConfirmsOnce, OthersOnce DEF RequestStep
    <2>3. QED
      BY <1>2, <1>3, <1>4, <2>1, <2>2 DEF InboxNext
  <1>5. CASE RemindersNext /\ UNCHANGED <<intent, action, go, queue, history>>
    BY <1>1, <1>5 DEF history
  <1>6. CASE UNCHANGED vars
    BY <1>1, <1>6 DEF vars, history
  <1>7. QED
    BY <1>4, <1>5, <1>6 DEF Next

-----------------------------------------------------------------------------
(* An intent gets one answer: it is created by one extraction, which holds it *)
(* until it has proposed a run, started a cloud agent or found nothing to   *)
(* do, and nobody else matches it.                                          *)

Holds(x, i) == go[x].pc \in {"match", "spawn", "propose"} /\ go[x].intent = i
Answers(i) == {r \in Runs : action[r].intent = i}

IntentOnce(i) ==
  /\ \A x, y \in Goroutines : Holds(x, i) /\ Holds(y, i) => x = y
  /\ intent[i].status = "none" \/ (\E x \in Goroutines : Holds(x, i)) => Answers(i) = {} /\ spawned[i] = 0
  /\ spawned[i] \in {0, 1} /\ (spawned[i] = 1 => Answers(i) = {})
  /\ \A r, q \in Answers(i) : r = q

IntentsOnce == \A i \in Intents : IntentOnce(i)

LEMMA IntentKeeps ==
  ASSUME NEW i \in Intents, IntentOnce(i), spawned'[i] = spawned[i],
         \A r \in Runs : action'[r].intent = i => action[r].intent = i,
         intent'[i].status = "none" => intent[i].status = "none",
         \A h \in Goroutines : go'[h].intent = i /\ go'[h].pc \in {"match", "spawn", "propose"}
                                 => go[h].intent = i /\ go[h].pc \in {"match", "spawn", "propose"}
  PROVE  IntentOnce(i)'
  <1>1. \A h \in Goroutines : Holds(h, i)' => Holds(h, i)
    BY DEF Holds
  <1>2. Answers(i)' \in SUBSET Answers(i)
    BY DEF Answers
  <1>3. QED
    BY <1>1, <1>2 DEF IntentOnce

LEMMA ExtractorsAnswerOnce ==
  ASSUME Inbox, IntentsOnce, NEW x \in Extractors, ExtractorStep(x)
  PROVE  IntentsOnce'
  <1>0. x \in Goroutines /\ go \in [Goroutines -> GoRow] /\ HoldsRows(x)
    BY DEF Goroutines, Inbox, InboxTypes
  <1>e. spawned \in [Intents -> Nat] /\ action \in RunRows /\ intent \in IntentRows
    BY RowsOf
  <1>1. CASE Extract(x) \/ FindOpenIntent(x) \/ FindAgain(x) \/ MatchIntent(x)
    <2>1. UNCHANGED <<intent, action, spawned>>
      BY <1>1 DEF Extract, FindOpenIntent, FindAgain, MatchIntent, inboxRows, history
    <2>2. /\ \A h \in Goroutines \ {x} : go'[h] = go[h]
          /\ \/ go'[x].pc \in {"idle", "find", "create"}
             \/ go[x].pc = "match" /\ go'[x].intent = go[x].intent
      <3>1. CASE Extract(x)
        <4>1. PICK kinds \in SUBSET Kinds : go' = [go EXCEPT ![x] = [@ EXCEPT !.pc = "find", !.kinds = kinds]]
          BY <3>1 DEF Extract
        <4>2. QED
          BY <1>0, <4>1 DEF GoRow
      <3>2. CASE FindOpenIntent(x) \/ FindAgain(x) \/ MatchIntent(x)
        <4>1. \/ NextKind(x, Current(x)) \/ At(x, "create")
              \/ go[x].pc = "match" /\ \E p \in {"spawn", "propose"} : At(x, p)
          BY <3>2 DEF FindOpenIntent, FindAgain, MatchIntent
        <4>2. QED
          BY <1>0, <4>1, Placing
      <3>3. QED
        BY <1>1, <3>1, <3>2
    <2>3. ASSUME NEW i \in Intents PROVE IntentOnce(i)'
      <3>1. \A h \in Goroutines : go'[h].intent = i /\ go'[h].pc \in {"match", "spawn", "propose"}
                                 => go[h].intent = i /\ go[h].pc \in {"match", "spawn", "propose"}
        BY <2>2
      <3>2. IntentOnce(i)
        BY DEF IntentsOnce
      <3>3. QED
        BY <2>1, <3>1, <3>2, IntentKeeps
    <2>4. QED
      BY <2>3 DEF IntentsOnce
  <1>2. CASE CreateIntent(x)
    <2>1. UNCHANGED <<action, spawned>> /\ go[x].pc = "create"
      BY <1>2 DEF CreateIntent, history
    <2>2. CASE At(x, "findAgain") /\ UNCHANGED intent
      <3>1. go'[x].pc = "findAgain" /\ \A h \in Goroutines \ {x} : go'[h] = go[h]
        BY <1>0, <2>2, Placing
      <3>2. ASSUME NEW i \in Intents PROVE IntentOnce(i)'
        <4>1. IntentOnce(i)
          BY DEF IntentsOnce
        <4>2. \A h \in Goroutines : go'[h].intent = i /\ go'[h].pc \in {"match", "spawn", "propose"}
                                 => go[h].intent = i /\ go[h].pc \in {"match", "spawn", "propose"}
          BY <3>1
        <4>3. QED
          BY <2>1, <2>2, <4>1, <4>2, IntentKeeps
      <3>3. QED
        BY <3>2 DEF IntentsOnce
    <2>3. CASE ~(At(x, "findAgain") /\ UNCHANGED intent)
      <3>1. PICK j \in Intents :
              /\ intent[j].status = "none"
              /\ intent' = [intent EXCEPT ![j] = [status |-> "open", kind |-> Current(x)]]
              /\ go' = [go EXCEPT ![x] = [@ EXCEPT !.pc = "match", !.intent = j]]
        BY <1>2, <2>3 DEF CreateIntent
      <3>2. go'[x].pc = "match" /\ go'[x].intent = j /\ \A h \in Goroutines \ {x} : go'[h] = go[h]
        BY <1>0, <3>1 DEF GoRow
      <3>3. intent'[j].status = "open" /\ \A i \in Intents \ {j} : intent'[i] = intent[i]
        BY <1>e, <3>1 DEF IntentRows
      <3>4. ASSUME NEW i \in Intents, i # j PROVE IntentOnce(i)'
        <4>1. IntentOnce(i)
          BY DEF IntentsOnce
        <4>2. \A h \in Goroutines : go'[h].intent = i /\ go'[h].pc \in {"match", "spawn", "propose"}
                                 => go[h].intent = i /\ go[h].pc \in {"match", "spawn", "propose"}
          BY <3>2, <3>4
        <4>3. QED
          BY <2>1, <3>3, <3>4, <4>1, <4>2, IntentKeeps
      <3>5. IntentOnce(j)'
        <4>1. \A h \in Goroutines : ~Holds(h, j)
          BY <3>1 DEF Holds, Inbox, HoldsRows, OfIntent
        <4>2. \A h \in Goroutines : Holds(h, j)' => h = x
          BY <3>2, <4>1 DEF Holds
        <4>3. Answers(j) = {} /\ spawned[j] = 0
          BY <3>1 DEF IntentsOnce, IntentOnce
        <4>4. Answers(j)' = {} /\ spawned'[j] = 0
          BY <2>1, <4>3 DEF Answers
        <4>5. QED
          BY <4>2, <4>4 DEF IntentOnce
      <3>6. QED
        BY <3>4, <3>5 DEF IntentsOnce
    <2>4. QED
      BY <2>2, <2>3
  <1>3. CASE SpawnFromIntent(x) \/ CreateActionRun(x)
    <2>0. go[x].pc \in {"spawn", "propose"}
      BY <1>3 DEF SpawnFromIntent, CreateActionRun
    <2>1. PICK j \in Intents : j = go[x].intent
      BY <1>0, <2>0 DEF HoldsRows, NamesRows, OfIntent
    <2>2. intent' = intent /\ go'[x].pc \in {"idle", "find"} /\ \A h \in Goroutines \ {x} : go'[h] = go[h]
      BY <1>0, <1>3, Placing DEF SpawnFromIntent, CreateActionRun, inboxRows
    <2>3. Answers(j) = {} /\ spawned[j] = 0 /\ intent[j].status # "none" /\ \A h \in Goroutines : Holds(h, j) => h = x
      <3>1. Holds(x, j) /\ intent[j].status # "none"
        BY <1>0, <2>0, <2>1 DEF Holds, HoldsRows, OfIntent
      <3>2. QED
        BY <1>0, <3>1 DEF IntentsOnce, IntentOnce
    <2>4. \A h \in Goroutines : ~Holds(h, j)'
      BY <2>2, <2>3 DEF Holds
    <2>5. \/ action' = action /\ spawned' = [spawned EXCEPT ![j] = @ + 1]
          \/ \E r \in Runs : /\ spawned' = spawned
                             /\ action' = [action EXCEPT ![r] = [status |-> "proposed", error |-> "none",
                                                                 kind |-> Current(x), intent |-> j]]
      BY <1>3, <2>1 DEF SpawnFromIntent, CreateActionRun, inboxRows, history
    <2>6. ASSUME NEW i \in Intents, i # j PROVE IntentOnce(i)'
      <3>1. IntentOnce(i)
        BY DEF IntentsOnce
      <3>2. \A h \in Goroutines : go'[h].intent = i /\ go'[h].pc \in {"match", "spawn", "propose"}
                                 => go[h].intent = i /\ go[h].pc \in {"match", "spawn", "propose"}
        BY <2>2
      <3>3. spawned'[i] = spawned[i]
        BY <1>e, <2>5, <2>6
      <3>4. \A r \in Runs : action'[r].intent = i => action[r].intent = i
        BY <1>e, <2>5, <2>6 DEF RunRows
      <3>5. QED
        BY <2>2, <3>1, <3>2, <3>3, <3>4, IntentKeeps
    <2>7. IntentOnce(j)'
      <3>1. CASE action' = action /\ spawned' = [spawned EXCEPT ![j] = @ + 1]
        <4>1. Answers(j)' = {} /\ spawned'[j] = 1
          BY <1>e, <2>3, <3>1 DEF Answers
        <4>2. intent'[j].status # "none"
          BY <2>2, <2>3
        <4>3. QED
          BY <2>4, <4>1, <4>2 DEF IntentOnce
      <3>2. ASSUME NEW r \in Runs, spawned' = spawned,
                   action' = [action EXCEPT ![r] = [status |-> "proposed", error |-> "none", kind |-> Current(x), intent |-> j]]
            PROVE  IntentOnce(j)'
        <4>1. \A q \in Runs \ {r} : action'[q] = action[q]
          BY <1>e, <3>2 DEF RunRows
        <4>2. Answers(j)' \in SUBSET {r}
          BY <2>3, <4>1 DEF Answers
        <4>3. intent'[j].status # "none" /\ spawned'[j] = 0
          BY <2>2, <2>3, <3>2
        <4>4. QED
          BY <2>4, <4>2, <4>3 DEF IntentOnce
      <3>3. QED
        BY <2>5, <3>1, <3>2
    <2>8. QED
      BY <2>6, <2>7 DEF IntentsOnce
  <1>4. QED
    BY <1>1, <1>2, <1>3 DEF ExtractorStep

LEMMA StepsAnswerOnce ==
  ASSUME Inbox, IntentsOnce, [Next]_vars
  PROVE  IntentsOnce'
  <1>0. \A h \in Goroutines : HoldsRows(h)
    BY DEF Inbox
  <1>e. action \in RunRows /\ intent \in IntentRows /\ go \in [Goroutines -> GoRow]
    BY RowsOf DEF Inbox, InboxTypes
  <1>k. ASSUME spawned' = spawned,
               \A r \in Runs : action'[r].intent = action[r].intent \/ action'[r].intent = NoIntent,
               \A i \in Intents : intent'[i].status = "none" => intent[i].status = "none",
               \A h \in Goroutines : go'[h] = go[h] \/ go'[h].pc \notin {"match", "spawn", "propose"}
        PROVE  IntentsOnce'
    <2>1. ASSUME NEW i \in Intents PROVE IntentOnce(i)'
      <3>1. IntentOnce(i)
        BY DEF IntentsOnce
      <3>2. QED
        BY <1>k, <3>1, IntentKeeps, InboxAssumption
    <2>2. QED
      BY <2>1 DEF IntentsOnce
  <1>1. CASE UNCHANGED <<intent, action, go, spawned>>
    BY <1>1, <1>k
  <1>2. ASSUME NEW g \in Goroutines, Abandon(g) PROVE IntentsOnce'
    <2>1. UNCHANGED <<intent, action, spawned>>
      BY <1>2 DEF Abandon, inboxRows
    <2>2. \A h \in Goroutines : go'[h] = go[h] \/ go'[h].pc \notin {"match", "spawn", "propose"}
      BY <1>2, Placing DEF Abandon
    <2>3. QED
      BY <1>k, <2>1, <2>2
  <1>3. CASE RecordRequest
    <2>1. PICK r \in Runs : action' = [action EXCEPT ![r] = [NoAction EXCEPT !.status = "proposed", !.kind = "agent_approval"]]
      BY <1>3 DEF RecordRequest
    <2>2. UNCHANGED <<intent, go, spawned>>
      BY <1>3 DEF RecordRequest, history
    <2> DEFINE row == [NoAction EXCEPT !.status = "proposed", !.kind = "agent_approval"]
    <2>3. row.intent = NoIntent
      BY DEF NoAction
    <2>4. action' = [action EXCEPT ![r] = row]
      BY <2>1
    <2> HIDE DEF row
    <2>5. \A q \in Runs : action'[q].intent = action[q].intent \/ action'[q].intent = NoIntent
      BY <1>e, <2>3, <2>4 DEF RunRows
    <2>6. QED
      BY <1>k, <2>2, <2>5
  <1>4. CASE SettleApproval
    <2>1. \A r \in Runs : action'[r].intent = action[r].intent
      BY <1>4, SettlePatches DEF SettleApproval
    <2>2. QED
      BY <1>4, <1>k, <2>1 DEF SettleApproval
  <1>5. ASSUME NEW u \in Requests, RequestStep(u) \/ ConfirmRead(u) \/ CancelRead(u) \/ DismissRead(u)
        PROVE  IntentsOnce'
    <2>0. u \in Goroutines
      BY DEF Goroutines
    <2>1. spawned' = spawned
      BY <1>5 DEF RequestStep, ConfirmRead, CancelRead, DismissRead, ConfirmWrite, Start, Effect, EffectSimilar, EffectInsert,
                  Record, MarkIntentActed, CancelWrite, DismissWrite, DismissRuns, history
    <2>2. \A h \in Goroutines : go'[h] = go[h] \/ go'[h].pc \notin {"match", "spawn", "propose"}
      <3>1. CASE ConfirmRead(u) \/ CancelRead(u) \/ DismissRead(u)
        <4>1. \/ \E r \in Runs, p \in {"start", "confirm", "cancel"} : go' = [go EXCEPT ![u] = [@ EXCEPT !.run = r, !.pc = p]]
              \/ \E i \in Intents : go' = [go EXCEPT ![u] = [@ EXCEPT !.pc = "dismiss", !.intent = i]]
          <5>1. CASE ConfirmRead(u)
            BY <5>1 DEF ConfirmRead
          <5>2. CASE CancelRead(u)
            <6>1. PICK r \in Runs : go' = [go EXCEPT ![u] = [@ EXCEPT !.pc = "cancel", !.run = r]]
              BY <5>2 DEF CancelRead
            <6>2. go' = [go EXCEPT ![u] = [@ EXCEPT !.run = r, !.pc = "cancel"]]
              BY <1>e, <2>0, <6>1 DEF GoRow
            <6>3. QED
              BY <6>2
          <5>3. CASE DismissRead(u)
            BY <5>3 DEF DismissRead
          <5>4. QED
            BY <3>1, <5>1, <5>2, <5>3
        <4>2. CASE \E r \in Runs, p \in {"start", "confirm", "cancel"} : go' = [go EXCEPT ![u] = [@ EXCEPT !.run = r, !.pc = p]]
          <5>1. PICK r \in Runs, p \in {"start", "confirm", "cancel"} : go' = [go EXCEPT ![u] = [@ EXCEPT !.run = r, !.pc = p]]
            BY <4>2
          <5>2. QED
            BY <1>e, <2>0, <5>1 DEF GoRow
        <4>3. CASE \E i \in Intents : go' = [go EXCEPT ![u] = [@ EXCEPT !.pc = "dismiss", !.intent = i]]
          <5>1. PICK i \in Intents : go' = [go EXCEPT ![u] = [@ EXCEPT !.pc = "dismiss", !.intent = i]]
            BY <4>3
          <5>2. QED
            BY <1>e, <2>0, <5>1 DEF GoRow
        <4>4. QED
          BY <4>1, <4>2, <4>3
      <3>2. CASE RequestStep(u)
        <4>1. \/ \E p \in {"start", "similar", "effect", "insert", "acted", "dismissRuns"} : At(u, p)
              \/ (\E o : Ends(u, o)) \/ Done(u)
          BY <3>2 DEF RequestStep, ConfirmWrite, Start, Effect, EffectSimilar, EffectInsert,
                      Record, MarkIntentActed, CancelWrite, DismissWrite, DismissRuns
        <4>2. /\ \A h \in Goroutines \ {u} : go'[h] = go[h]
              /\ go'[u].pc \in {"start", "similar", "effect", "insert", "acted", "dismissRuns", "record", "idle"}
          <5>1. CASE \E p \in {"start", "similar", "effect", "insert", "acted", "dismissRuns"} : At(u, p)
            BY <2>0, <5>1, Placing
          <5>2. CASE \E o : Ends(u, o)
            BY <2>0, <5>2, Placing
          <5>3. CASE Done(u)
            BY <2>0, <5>3, Placing
          <5>4. QED
            BY <4>1, <5>1, <5>2, <5>3
        <4>3. QED
          BY <4>2
      <3>3. QED
        BY <1>5, <3>1, <3>2
    <2>3. \A r \in Runs : action'[r].intent = action[r].intent
      <3>1. CASE ConfirmWrite(u) \/ Start(u) \/ Record(u) \/ CancelWrite(u)
        <4>1. \E r, s, e : SetRun(r, s, e)
          BY <3>1 DEF ConfirmWrite, Start, Record, CancelWrite
        <4>2. QED
          BY <1>e, <4>1 DEF SetRun, RunRows
      <3>2. CASE DismissRuns(u)
        <4>1. SettleProposed({r \in Runs : action[r].intent = go[u].intent}, "cancelled")
          BY <3>2 DEF DismissRuns
        <4>2. QED
          BY <4>1, SettlePatches
      <3>3. CASE UNCHANGED action
        BY <3>3
      <3>4. QED
        BY <1>5, <3>1, <3>2, <3>3 DEF RequestStep, ConfirmRead, CancelRead, DismissRead, Effect, EffectSimilar, EffectInsert,
           MarkIntentActed, DismissWrite, inboxRows
    <2>4. \A i \in Intents : intent'[i].status = "none" => intent[i].status = "none"
      <3>1. CASE UNCHANGED intent
        BY <3>1
      <3>2. CASE MarkIntentActed(u) \/ DismissWrite(u)
        <4>1. UNCHANGED intent \/ \E j : \E s \in {"acted", "dismissed"} : intent' = [intent EXCEPT ![j].status = s]
          BY <3>2 DEF MarkIntentActed, DismissWrite
        <4>2. QED
          BY <1>e, <4>1 DEF IntentRows
      <3>3. QED
        BY <1>5, <3>1, <3>2 DEF RequestStep, ConfirmRead, CancelRead, DismissRead, ConfirmWrite, Start, Effect, EffectSimilar, EffectInsert,
                  Record, CancelWrite, DismissRuns, inboxRows
    <2>5. QED
      BY <1>k, <2>1, <2>2, <2>3, <2>4
  <1>6. CASE InboxNext
    <2>1. CASE \E x \in Extractors : ExtractorStep(x) \/ Abandon(x)
      BY <1>2, <2>1, ExtractorsAnswerOnce DEF Goroutines
    <2>2. CASE \E u \in Requests : \/ ConfirmRead(u) \/ CancelRead(u) \/ DismissRead(u) \/ RequestStep(u) \/ Abandon(u)
      BY <1>2, <1>5, <2>2 DEF Goroutines
    <2>3. QED
      BY <1>3, <1>4, <1>6, <2>1, <2>2 DEF InboxNext
  <1>7. QED
    <2>1. CASE RemindersNext /\ UNCHANGED <<intent, action, go, queue, history>>
      BY <1>1, <2>1 DEF history
    <2>2. CASE UNCHANGED vars
      BY <1>1, <2>2 DEF vars, history
    <2>3. QED
      BY <1>6, <2>1, <2>2 DEF Next

-----------------------------------------------------------------------------
(* Whoever still acts on a settled run read it before it was settled.        *)

ReadersAreStale == \A r \in Runs : Settled(action[r]) => \A g \in Readers(r) : <<g, r>> \in stale

\* What a step of u may do to the readers of a run and their marks.
LEMMA StaleKeeps ==
  ASSUME ReadersAreStale, NEW r \in Runs, Settled(action'[r]) => Settled(action[r]),
         \A h \in Goroutines : h \in Readers(r)' => h \in Readers(r) /\ (<<h, r>> \in stale => <<h, r>> \in stale')
  PROVE  Settled(action'[r]) => \A g \in Readers(r)' : <<g, r>> \in stale'
  BY DEF ReadersAreStale, Readers

\* A PATCH of the outcome, or of a cancel, marks the other readers.
LEMMA MarksReaders ==
  ASSUME ReadersAreStale, NEW u \in Goroutines, NEW q \in Runs, MarkStale(q, u),
         \A r \in Runs \ {q} : action'[r] = action[r],
         \A h \in Goroutines \ {u} : go'[h] = go[h],
         go'[u].pc \in {"idle", "acted"}
  PROVE  ReadersAreStale'
  <1>1. \A r \in Runs : \A h \in Readers(r)' : h \in Readers(r) \ {u}
    BY DEF Readers
  <1>2. \A h \in Readers(q) \ {u} : <<h, q>> \in stale'
    BY DEF MarkStale
  <1>3. \A r \in Runs : \A h \in Readers(r) \ {u} : <<h, r>> \in stale => <<h, r>> \in stale'
    BY DEF MarkStale
  <1>4. QED
    BY <1>1, <1>2, <1>3 DEF ReadersAreStale

\* Who no longer reads anything is forgotten.
LEMMA ForgetsReader ==
  ASSUME ReadersAreStale, NEW u \in Goroutines, Forget(u),
         \A r \in Runs : Settled(action'[r]) => Settled(action[r]),
         \A h \in Goroutines \ {u} : go'[h] = go[h],
         \A r \in Runs : u \notin Readers(r)'
  PROVE  ReadersAreStale'
  <1>1. ASSUME NEW r \in Runs PROVE Settled(action'[r]) => \A g \in Readers(r)' : <<g, r>> \in stale'
    <2>1. \A h \in Goroutines : h \in Readers(r)' => h \in Readers(r) /\ (<<h, r>> \in stale => <<h, r>> \in stale')
      BY DEF Readers, Forget
    <2>2. QED
      BY <2>1, StaleKeeps
  <1>2. QED
    BY <1>1 DEF ReadersAreStale

LEMMA SettleMarks ==
  ASSUME Inbox, ReadersAreStale, NEW theirs \in SUBSET Runs, NEW s \in {"succeeded", "cancelled"}, SettleProposed(theirs, s),
         \A h \in Goroutines, r \in Runs : h \in Readers(r)' => h \in Readers(r)
  PROVE  ReadersAreStale'
  <1>1. ASSUME NEW r \in Runs, Settled(action'[r]), NEW h \in Readers(r)' PROVE <<h, r>> \in stale'
    <2>1. h \in Readers(r)
      BY DEF Readers
    <2>2. CASE action'[r] = action[r]
      BY <1>1, <2>1, <2>2 DEF SettleProposed, ReadersAreStale
    <2>3. CASE r \in theirs /\ action[r].status = "proposed"
      BY <2>1, <2>3 DEF SettleProposed
    <2>4. QED
      BY <2>2, <2>3, SettlePatches
  <1>2. QED
    BY <1>1 DEF ReadersAreStale

LEMMA StepsMark ==
  ASSUME Inbox, ReadersAreStale, [Next]_vars
  PROVE  ReadersAreStale'
  <1>0. \A h \in Goroutines : HoldsRows(h)
    BY DEF Inbox
  <1>e. action \in RunRows /\ go \in [Goroutines -> GoRow]
    BY RowsOf DEF Inbox, InboxTypes
  <1>k. ASSUME stale' = stale, \A r \in Runs : Settled(action'[r]) => Settled(action[r]),
               NEW u \in Goroutines, \A h \in Goroutines \ {u} : go'[h] = go[h],
               \A r \in Runs : u \in Readers(r)' => u \in Readers(r) \/ ~Settled(action'[r])
        PROVE  ReadersAreStale'
    BY <1>k DEF ReadersAreStale, Readers
  <1>1. CASE UNCHANGED <<action, go, stale>>
    BY <1>1 DEF ReadersAreStale, Readers
  <1>2. ASSUME NEW g \in Goroutines, Abandon(g) PROVE ReadersAreStale'
    <2>1. \A h \in Goroutines \ {g} : go'[h] = go[h]
      BY <1>2, Placing DEF Abandon
    <2>2. go'[g].run = NoRun \/ go'[g].pc = "idle"
      <3>1. ASSUME NEW k, NextKind(g, k) PROVE go'[g].run = NoRun
        <4>1. PICK new \in GoRow : /\ go' = [go EXCEPT ![g] = new] /\ NamesRows(new) /\ new.pc \in {"idle", "find"}
          BY <3>1, NextKindGoes
        <4>2. QED
          BY <1>e, <4>1 DEF NamesRows, OfRun
      <3>2. QED
        BY <1>2, <3>1, Placing DEF Abandon
    <2>3. \A r \in Runs : g \notin Readers(r)'
      BY <2>2, InboxAssumption DEF Readers
    <2>4. QED
      BY <1>2, <2>1, <2>3, ForgetsReader DEF Abandon, inboxRows
  <1>3. ASSUME NEW x \in Extractors, ExtractorStep(x) PROVE ReadersAreStale'
    <2>0. x \in Goroutines
      BY DEF Goroutines
    <2>1. stale' = stale
      BY <1>3 DEF ExtractorStep, Extract, FindOpenIntent, CreateIntent, FindAgain, MatchIntent, SpawnFromIntent, CreateActionRun, history
    <2>2. \A r \in Runs : Settled(action'[r]) => Settled(action[r])
      <3>1. CASE UNCHANGED action
        BY <3>1
      <3>2. CASE CreateActionRun(x)
        <4>1. PICK q \in Runs : action' = [action EXCEPT ![q] = [status |-> "proposed", error |-> "none",
                                           kind |-> Current(x), intent |-> go[x].intent]]
          BY <3>2 DEF CreateActionRun
        <4>2. QED
          BY <1>e, <4>1 DEF RunRows, Settled
      <3>3. QED
        BY <1>3, <3>1, <3>2 DEF ExtractorStep, Extract, FindOpenIntent, CreateIntent, FindAgain, MatchIntent, SpawnFromIntent, inboxRows
    <2>3. (\A h \in Goroutines \ {x} : go'[h] = go[h]) /\ go'[x].run = NoRun
      <3>1. Inbox' /\ go[x].run = NoRun
        <4>1. go[x].pc \notin OfRun
          BY <1>3 DEF ExtractorStep, Extract, FindOpenIntent, CreateIntent, FindAgain, MatchIntent, SpawnFromIntent, CreateActionRun, OfRun
        <4>2. QED
          BY <1>0, <1>3, <2>0, <4>1, ExtractorsHold DEF HoldsRows, NamesRows
      <3>2. CASE Extract(x)
        <4>1. PICK kinds \in SUBSET Kinds : go' = [go EXCEPT ![x] = [@ EXCEPT !.pc = "find", !.kinds = kinds]]
          BY <3>2 DEF Extract
        <4>2. QED
          BY <1>e, <2>0, <3>1, <4>1 DEF GoRow
      <3>3. CASE \E i \in Intents : go' = [go EXCEPT ![x] = [@ EXCEPT !.pc = "match", !.intent = i]]
        BY <1>e, <2>0, <3>1, <3>3 DEF GoRow
      <3>4. CASE \E p : At(x, p)
        BY <2>0, <3>1, <3>4, Placing
      <3>5. CASE NextKind(x, Current(x))
        <4>1. PICK new \in GoRow : /\ go' = [go EXCEPT ![x] = new] /\ NamesRows(new) /\ new.pc \in {"idle", "find"}
          BY <2>0, <3>5, NextKindGoes
        <4>2. QED
          BY <1>e, <2>0, <4>1 DEF NamesRows, OfRun
      <3>6. QED
        BY <1>3, <3>2, <3>3, <3>4, <3>5 DEF ExtractorStep, FindOpenIntent, CreateIntent, FindAgain, MatchIntent, SpawnFromIntent, CreateActionRun
    <2>4. \A r \in Runs : x \notin Readers(r)'
      BY <2>3, InboxAssumption DEF Readers
    <2>5. QED
      BY <1>k, <2>0, <2>1, <2>2, <2>3, <2>4
  <1>4. CASE RecordRequest
    <2>1. PICK q \in Runs : action[q].status = "none"
                            /\ action' = [action EXCEPT ![q] = [NoAction EXCEPT !.status = "proposed", !.kind = "agent_approval"]]
      BY <1>4 DEF RecordRequest
    <2>2. UNCHANGED <<go, stale>>
      BY <1>4 DEF RecordRequest, history
    <2> DEFINE row == [NoAction EXCEPT !.status = "proposed", !.kind = "agent_approval"]
    <2>3. row.status = "proposed"
      BY DEF NoAction
    <2>4. action' = [action EXCEPT ![q] = row]
      BY <2>1
    <2> HIDE DEF row
    <2>5. \A r \in Runs : Settled(action'[r]) => Settled(action[r])
      BY <1>e, <2>3, <2>4 DEF RunRows, Settled
    <2>6. QED
      BY <2>2, <2>5 DEF ReadersAreStale, Readers
  <1>5. CASE SettleApproval
    <2>1. PICK status \in {"succeeded", "cancelled"} :
            SettleProposed({r \in Runs : action[r].kind = "agent_approval"}, status)
      BY <1>5 DEF SettleApproval
    <2>2. \A h \in Goroutines, r \in Runs : h \in Readers(r)' => h \in Readers(r)
      BY <1>5 DEF SettleApproval, Readers
    <2>3. QED
      BY <2>1, <2>2, SettleMarks
  <1>6. ASSUME NEW u \in Requests, ConfirmRead(u) \/ CancelRead(u) \/ DismissRead(u) \/ DismissWrite(u)
        PROVE  ReadersAreStale'
    <2>0. u \in Goroutines
      BY DEF Goroutines
    <2>1. UNCHANGED <<action, stale>>
      BY <1>6 DEF ConfirmRead, CancelRead, DismissRead, DismissWrite, inboxRows, history
    <2>2. \A h \in Goroutines \ {u} : go'[h] = go[h]
      BY <1>6, <1>e, <2>0 DEF ConfirmRead, CancelRead, DismissRead, DismissWrite, At
    <2>3. \A r \in Runs : u \in Readers(r)' => ~Settled(action[r])
      <3>1. CASE ConfirmRead(u)
        <4>1. PICK q \in Runs : Confirmable(action[q]) /\ go' = [go EXCEPT ![u] = [@ EXCEPT !.run = q,
                     !.pc = IF action[q].status = "confirmed" THEN "start" ELSE "confirm"]]
          BY <3>1 DEF ConfirmRead
        <4>2. go'[u].run = q
          BY <1>e, <2>0, <4>1 DEF GoRow
        <4>3. ~Settled(action[q])
          BY <4>1 DEF Confirmable, Settled
        <4>4. QED
          BY <4>2, <4>3 DEF Readers
      <3>2. CASE CancelRead(u)
        <4>1. PICK q \in Runs : action[q].status \in {"proposed", "confirmed"}
                                /\ go' = [go EXCEPT ![u] = [@ EXCEPT !.pc = "cancel", !.run = q]]
          BY <3>2 DEF CancelRead
        <4>2. go'[u].run = q
          BY <1>e, <2>0, <4>1 DEF GoRow
        <4>3. QED
          BY <4>1, <4>2 DEF Readers, Settled
      <3>3. CASE DismissRead(u) \/ DismissWrite(u)
        <4>1. go[u].run = NoRun
          BY <1>0, <2>0, <3>3 DEF DismissRead, DismissWrite, HoldsRows, NamesRows, OfRun
        <4>2. go'[u].run = NoRun
          <5>1. CASE DismissRead(u)
            BY <1>e, <2>0, <4>1, <5>1 DEF DismissRead, GoRow
          <5>2. CASE DismissWrite(u)
            BY <2>0, <4>1, <5>2, Placing DEF DismissWrite
          <5>3. QED
            BY <3>3, <5>1, <5>2
        <4>3. QED
          BY <4>2, InboxAssumption DEF Readers
      <3>4. QED
        BY <1>6, <3>1, <3>2, <3>3
    <2>4. QED
      BY <1>k, <2>0, <2>1, <2>2, <2>3
  <1>7. ASSUME NEW u \in Requests, ConfirmWrite(u) \/ Start(u) \/ Effect(u) \/ EffectSimilar(u) \/ EffectInsert(u)
        PROVE  ReadersAreStale'
    <2>0. u \in Goroutines
      BY DEF Goroutines
    <2>1. stale' = stale
      BY <1>7 DEF ConfirmWrite, Start, Effect, EffectSimilar, EffectInsert, history
    <2>2. go'[u].run = go[u].run /\ \A h \in Goroutines \ {u} : go'[h] = go[h]
      <3>1. (\E p : At(u, p)) \/ (\E o : Ends(u, o))
        BY <1>7 DEF ConfirmWrite, Start, Effect, EffectSimilar, EffectInsert
      <3>2. QED
        BY <2>0, <3>1, Placing
    <2>3. go[u].pc \notin {"idle", "acted"}
      BY <1>7 DEF ConfirmWrite, Start, Effect, EffectSimilar, EffectInsert
    <2>4. \A r \in Runs : Settled(action'[r]) => Settled(action[r])
      <3>1. UNCHANGED action \/ \E r, e : \E s \in {"confirmed", "running"} : SetRun(r, s, e)
        BY <1>7 DEF ConfirmWrite, Start, Effect, EffectSimilar, EffectInsert, inboxRows
      <3>2. QED
        BY <1>e, <3>1 DEF SetRun, RunRows, Settled
    <2>5. \A r \in Runs : u \in Readers(r)' => u \in Readers(r)
      BY <2>0, <2>2, <2>3 DEF Readers
    <2>6. QED
      BY <1>k, <2>0, <2>1, <2>2, <2>4, <2>5
  <1>8. ASSUME NEW u \in Requests, Record(u) \/ CancelWrite(u) \/ MarkIntentActed(u)
        PROVE  ReadersAreStale'
    <2>0. u \in Goroutines
      BY DEF Goroutines
    <2>1. go'[u].pc \in {"idle", "acted"} /\ \A h \in Goroutines \ {u} : go'[h] = go[h]
      <3>1. At(u, "acted") \/ Done(u)
        BY <1>8 DEF Record, CancelWrite, MarkIntentActed
      <3>2. QED
        BY <2>0, <3>1, Placing
    <2>2. CASE MarkIntentActed(u)
      <3>1. UNCHANGED action /\ Forget(u)
        BY <2>2 DEF MarkIntentActed
      <3>2. \A r \in Runs : u \notin Readers(r)'
        BY <2>1 DEF Readers
      <3>3. QED
        BY <2>0, <2>1, <3>1, <3>2, ForgetsReader
    <2>3. CASE Record(u) \/ CancelWrite(u)
      <3>1. PICK q \in Runs : q = go[u].run
        BY <1>0, <2>0, <2>3 DEF Record, CancelWrite, HoldsRows, NamesRows, OfRun
      <3>2. \A r \in Runs \ {q} : action'[r] = action[r]
        <4>1. \E s, e : SetRun(q, s, e)
          BY <2>3, <3>1 DEF Record, CancelWrite
        <4>2. QED
          BY <1>e, <4>1 DEF SetRun, RunRows
      <3>3. CASE MarkStale(q, u)
        BY <2>0, <2>1, <3>2, <3>3, MarksReaders
      <3>4. CASE ~MarkStale(q, u)
        <4>1. Record(u) /\ go[u].outcome = "retryable" /\ Forget(u)
          BY <2>3, <3>1, <3>4 DEF Record, CancelWrite
        <4>2. SetRun(q, "proposed", "retryable")
          BY <3>1, <4>1 DEF Record, StatusAfter
        <4>3. ~Settled(action'[q])
          BY <1>e, <4>2 DEF SetRun, RunRows, Settled
        <4>4. \A r \in Runs : u \notin Readers(r)'
          BY <2>1 DEF Readers
        <4>5. QED
          BY <2>0, <2>1, <3>2, <4>1, <4>3, <4>4, ForgetsReader
      <3>5. QED
        BY <3>3, <3>4
    <2>4. QED
      BY <1>8, <2>2, <2>3
  <1>9. ASSUME NEW u \in Requests, DismissRuns(u)
        PROVE  ReadersAreStale'
    <2>0. u \in Goroutines
      BY DEF Goroutines
    <2>1. SettleProposed({r \in Runs : action[r].intent = go[u].intent}, "cancelled") /\ Done(u)
      BY <1>9 DEF DismissRuns
    <2>2. \A h \in Goroutines, r \in Runs : h \in Readers(r)' => h \in Readers(r)
      BY <2>0, <2>1, Placing DEF Readers
    <2> DEFINE theirs == {r \in Runs : action[r].intent = go[u].intent}
    <2>3. PICK some \in SUBSET Runs : some = theirs
      OBVIOUS
    <2>4. SettleProposed(some, "cancelled")
      BY <2>1, <2>3
    <2>5. QED
      BY <2>2, <2>4, SettleMarks
  <1>10. CASE InboxNext
    <2>1. CASE \E x \in Extractors : ExtractorStep(x) \/ Abandon(x)
      BY <1>2, <1>3, <2>1 DEF Goroutines
    <2>2. CASE \E u \in Requests : \/ ConfirmRead(u) \/ CancelRead(u) \/ DismissRead(u) \/ RequestStep(u) \/ Abandon(u)
      BY <1>2, <1>6, <1>7, <1>8, <1>9, <2>2 DEF Goroutines, RequestStep
    <2>3. QED
      BY <1>4, <1>5, <1>10, <2>1, <2>2 DEF InboxNext
  <1>11. QED
    <2>1. CASE RemindersNext /\ UNCHANGED <<intent, action, go, queue, history>>
      BY <1>1, <2>1 DEF history
    <2>2. CASE UNCHANGED vars
      BY <1>1, <2>2 DEF vars, history
    <2>3. QED
      BY <1>10, <2>1, <2>2 DEF Next

-----------------------------------------------------------------------------

LEMMA InboxAlways == Spec => [](Inbox /\ RunsOnce /\ IntentsOnce /\ ReadersAreStale)
  <1>1. Init => Inbox /\ RunsOnce /\ IntentsOnce /\ ReadersAreStale
    <2> SUFFICES ASSUME Init PROVE Inbox /\ RunsOnce /\ IntentsOnce /\ ReadersAreStale
      OBVIOUS
    <2>1. RunsOnce
      BY DEF Init, RunsOnce, RunOnce, Confirming, Idle
    <2>2. IntentsOnce
      BY InboxAssumption DEF Init, IntentsOnce, IntentOnce, Holds, Answers, Idle, NoAction
    <2>3. ReadersAreStale
      BY DEF Init, ReadersAreStale, Settled, NoAction
    <2>4. QED
      BY <2>1, <2>2, <2>3, InboxInit
  <1>2. Inbox /\ RunsOnce /\ IntentsOnce /\ ReadersAreStale /\ [Next]_vars
          => (Inbox /\ RunsOnce /\ IntentsOnce /\ ReadersAreStale)'
    BY AnyStepHolds, StepsOnce, StepsAnswerOnce, StepsMark
  <1>3. QED
    BY <1>1, <1>2, PTL DEF Spec

\* Whatever is proposed takes effect once (actions/executor.go, intents/match.go),
\* for any number of extractors, requests, intents and runs: the effect of a
\* run at most once unless two confirms of it overlap, and one run or one cloud
\* agent for an intent.
THEOREM ProposalsTakeEffectOnce == Spec => []EffectOnce
  <1>1. Inbox /\ RunsOnce /\ IntentsOnce => EffectOnce
    <2> SUFFICES ASSUME Inbox, RunsOnce, IntentsOnce PROVE EffectOnce
      OBVIOUS
    <2>1. \A r \in Runs : r \in contested \/ effects[r] <= 1
      BY DEF RunsOnce, RunOnce
    <2>2. ASSUME NEW i \in Intents PROVE Cardinality(Answers(i)) + spawned[i] <= 1
      <3>1. CASE Answers(i) = {}
        BY <3>1, FS_EmptySet DEF IntentsOnce, IntentOnce
      <3>2. CASE Answers(i) # {}
        <4>1. PICK r : Answers(i) = {r}
          <5>1. PICK r \in Answers(i) : TRUE
            BY <3>2
          <5>2. Answers(i) = {r}
            BY DEF IntentsOnce, IntentOnce
          <5>3. QED
            BY <5>2
        <4>2. Cardinality(Answers(i)) = 1
          BY <4>1, FS_Singleton
        <4>3. spawned[i] = 0
          BY <3>2 DEF IntentsOnce, IntentOnce
        <4>4. QED
          BY <4>2, <4>3
      <3>3. QED
        BY <3>1, <3>2
    <2>3. QED
      BY <2>1, <2>2 DEF EffectOnce, Answers
  <1>2. QED
    BY <1>1, InboxAlways, PTL

\* A settled run is final for everybody who reads it later (actions/executor.go):
\* only a goroutine that had read it before it was settled changes its row or
\* lets its effect happen.
THEOREM SettledRunIsFinal == Spec => SettledBindsLaterReaders
  <1> DEFINE Bound == \A r \in Runs :
                        Settled(action[r]) /\ (action'[r] # action[r] \/ effects'[r] # effects[r])
                          => \E g \in Goroutines : <<g, r>> \in stale /\ go'[g] # go[g]
  <1>1. ASSUME Inbox, ReadersAreStale, [Next]_vars PROVE Bound
    <2> SUFFICES ASSUME NEW r \in Runs, Settled(action[r]), action'[r] # action[r] \/ effects'[r] # effects[r]
                 PROVE  \E g \in Goroutines : <<g, r>> \in stale /\ go'[g] # go[g]
      OBVIOUS
    <2>e. action \in RunRows /\ effects \in [Runs -> Nat] /\ go \in [Goroutines -> GoRow] /\ \A h \in Goroutines : HoldsRows(h)
      BY <1>1, RowsOf DEF Inbox, InboxTypes
    <2>1. ASSUME NEW x \in Extractors, ExtractorStep(x) PROVE FALSE
      <3>1. UNCHANGED <<action, effects>> \/ CreateActionRun(x)
        BY <2>1 DEF ExtractorStep, Extract, FindOpenIntent, CreateIntent, FindAgain, MatchIntent, SpawnFromIntent, inboxRows, history
      <3>2. CASE CreateActionRun(x)
        <4>1. PICK q \in Runs : action[q].status = "none"
                 /\ action' = [action EXCEPT ![q] = [status |-> "proposed", error |-> "none",
                                                     kind |-> Current(x), intent |-> go[x].intent]]
          BY <3>2 DEF CreateActionRun
        <4>2. UNCHANGED effects
          BY <3>2 DEF CreateActionRun, history
        <4>3. QED
          BY <2>e, <4>1, <4>2 DEF RunRows, Settled
      <3>3. QED
        BY <3>1, <3>2
    <2>2. ~RecordRequest
      <3> SUFFICES ASSUME RecordRequest PROVE FALSE
        OBVIOUS
      <3>1. PICK q \in Runs : action[q].status = "none"
                  /\ action' = [action EXCEPT ![q] = [NoAction EXCEPT !.status = "proposed", !.kind = "agent_approval"]]
        BY DEF RecordRequest
      <3>2. UNCHANGED effects
        BY DEF RecordRequest, history
      <3>3. QED
        BY <2>e, <3>1, <3>2 DEF RunRows, Settled
    <2>3. ASSUME NEW theirs \in SUBSET Runs, NEW s \in {"succeeded", "cancelled"}, SettleProposed(theirs, s)
          PROVE  action'[r] = action[r]
      BY <1>1, <2>3, SettlePatches DEF Settled
    <2>4. ~SettleApproval
      BY <2>3 DEF SettleApproval
    <2>5. ASSUME NEW u \in Requests, DismissRuns(u) PROVE FALSE
      <3>1. PICK theirs \in SUBSET Runs : theirs = {q \in Runs : action[q].intent = go[u].intent}
        OBVIOUS
      <3>2. QED
        BY <2>3, <2>5, <3>1 DEF DismissRuns
    <2>6. ASSUME NEW u \in Requests,
                 \/ ConfirmWrite(u) \/ Start(u) \/ Effect(u) \/ EffectSimilar(u) \/ EffectInsert(u)
                 \/ Record(u) \/ CancelWrite(u)
          PROVE  <<u, r>> \in stale /\ go'[u] # go[u]
      <3>0. u \in Goroutines
        BY DEF Goroutines
      <3>1. go[u].pc \in {"confirm", "start", "effect", "similar", "insert", "record", "cancel"}
        BY <2>6 DEF ConfirmWrite, Start, Effect, EffectSimilar, EffectInsert, Record, CancelWrite
      <3>2. go[u].run \in Runs
        BY <2>e, <3>0, <3>1 DEF HoldsRows, NamesRows, OfRun
      <3>3. UNCHANGED action \/ \E s, e : SetRun(go[u].run, s, e)
        BY <2>6 DEF ConfirmWrite, Start, Effect, EffectSimilar, EffectInsert, Record, CancelWrite, inboxRows
      <3>4. UNCHANGED effects \/ Happens(go[u].run)
        BY <2>6 DEF ConfirmWrite, Start, Effect, EffectSimilar, EffectInsert, Record, CancelWrite, history
      <3>5. go[u].run = r
        BY <2>e, <3>2, <3>3, <3>4 DEF SetRun, Happens, RunRows
      <3>6. <<u, r>> \in stale
        BY <1>1, <3>0, <3>1, <3>5 DEF ReadersAreStale, Readers
      <3>7. go'[u].pc # go[u].pc
        <4>1. \/ \E p : At(u, p) /\ p # go[u].pc
              \/ (\E o : Ends(u, o)) /\ go[u].pc # "record"
              \/ Done(u) /\ go[u].pc # "idle"
          BY <2>6 DEF ConfirmWrite, Start, Effect, EffectSimilar, EffectInsert, Record, CancelWrite
        <4>2. QED
          BY <1>1, <3>0, <4>1, Placing
      <3>8. QED
        BY <3>6, <3>7
    <2>7. ASSUME NEW g \in Goroutines,
                 \/ Abandon(g) \/ ConfirmRead(g) \/ CancelRead(g) \/ DismissRead(g)
                 \/ MarkIntentActed(g) \/ DismissWrite(g)
          PROVE  FALSE
      BY <2>7 DEF Abandon, ConfirmRead, CancelRead, DismissRead, MarkIntentActed, DismissWrite, inboxRows, history
    <2>8. ~(UNCHANGED vars \/ (RemindersNext /\ UNCHANGED <<intent, action, go, queue, history>>))
      BY DEF vars, history
    <2>9. QED
      BY <1>1, <2>1, <2>2, <2>4, <2>5, <2>6, <2>7, <2>8 DEF Next, InboxNext, RequestStep, Goroutines
  <1>2. Bound => [Bound]_vars
    OBVIOUS
  <1>3. QED
    BY <1>1, <1>2, InboxAlways, PTL DEF SettledBindsLaterReaders, Spec

-----------------------------------------------------------------------------
(* Reminders.  A request that patches a status brings one of those it read    *)
(* for; everything else but the claim and the insert leaves the status alone. *)

ReminderStatuses == {"none", "scheduled", "fired", "cancelled", "dismissed"}

RemindersInv ==
  /\ rem \in [Reminders -> [status : ReminderStatuses, topic : Topics \cup {NoTopic}, due : BOOLEAN]]
  /\ caller \in [Callers -> [pc : {"idle", "similar", "insert", "patchStatus", "patchDue"}, topic : Topics \cup {NoTopic},
                             rem : SUBSET Reminders, status : {"none", "cancelled", "dismissed"}]]
  /\ \A c \in Callers : /\ caller[c].pc = "insert" => caller[c].topic \in Topics
                        /\ caller[c].pc = "similar" => caller[c].topic \in Topics
                        /\ caller[c].pc = "patchStatus" => caller[c].status # "none"

\* What a step may do to the rows of reminders.
RowsForward ==
  \/ UNCHANGED rem
  \/ \E i \in Reminders, t \in Topics : Created(i, t)
  \/ \E i \in Reminders, s \in {"cancelled", "dismissed"} : rem' = [rem EXCEPT ![i].status = s]
  \/ \E i \in Reminders, b \in BOOLEAN : rem' = [rem EXCEPT ![i].due = b]
  \/ \E i \in Reminders : rem[i].status = "scheduled" /\ rem' = [rem EXCEPT ![i].status = "fired"]

LEMMA ForwardRows ==
  ASSUME RemindersInv, RowsForward
  PROVE  /\ rem' \in [Reminders -> [status : ReminderStatuses, topic : Topics \cup {NoTopic}, due : BOOLEAN]]
         /\ \A i \in Reminders : Rank(rem[i].status) <= Rank(rem'[i].status)
  <1>0. rem \in [Reminders -> [status : ReminderStatuses, topic : Topics \cup {NoTopic}, due : BOOLEAN]]
    BY DEF RemindersInv
  <1>r. /\ Rank("none") = 0 /\ Rank("scheduled") = 1 /\ Rank("fired") = 2 /\ Rank("dismissed") = 3 /\ Rank("cancelled") = 3
        /\ \A s \in ReminderStatuses : Rank(s) \in 0..3
    BY DEF Rank, ReminderStatuses
  <1>1. CASE UNCHANGED rem
    BY <1>0, <1>1, <1>r
  <1>2. ASSUME NEW i \in Reminders, NEW t \in Topics, Created(i, t) PROVE
           /\ rem' \in [Reminders -> [status : ReminderStatuses, topic : Topics \cup {NoTopic}, due : BOOLEAN]]
           /\ \A j \in Reminders : Rank(rem[j].status) <= Rank(rem'[j].status)
    <2>1. rem' = [rem EXCEPT ![i] = [status |-> "scheduled", topic |-> t, due |-> FALSE]] /\ rem[i].status = "none"
      BY <1>2 DEF Created
    <2>2. rem'[i].status = "scheduled" /\ \A j \in Reminders \ {i} : rem'[j] = rem[j]
      BY <1>0, <2>1
    <2>3. rem' \in [Reminders -> [status : ReminderStatuses, topic : Topics \cup {NoTopic}, due : BOOLEAN]]
      BY <1>0, <2>1 DEF ReminderStatuses
    <2>4. \A j \in Reminders : Rank(rem[j].status) <= Rank(rem'[j].status)
      BY <1>0, <1>r, <2>1, <2>2
    <2>5. QED
      BY <2>3, <2>4
  <1>3. ASSUME NEW i \in Reminders, NEW s \in {"cancelled", "dismissed", "fired"}, s = "fired" => rem[i].status = "scheduled",
               rem' = [rem EXCEPT ![i].status = s]
        PROVE  /\ rem' \in [Reminders -> [status : ReminderStatuses, topic : Topics \cup {NoTopic}, due : BOOLEAN]]
               /\ \A j \in Reminders : Rank(rem[j].status) <= Rank(rem'[j].status)
    <2>2. rem'[i].status = s /\ \A j \in Reminders \ {i} : rem'[j] = rem[j]
      BY <1>0, <1>3
    <2>3. rem' \in [Reminders -> [status : ReminderStatuses, topic : Topics \cup {NoTopic}, due : BOOLEAN]]
      BY <1>0, <1>3 DEF ReminderStatuses
    <2>4. \A j \in Reminders : Rank(rem[j].status) <= Rank(rem'[j].status)
      BY <1>0, <1>r, <1>3, <2>2
    <2>5. QED
      BY <2>3, <2>4
  <1>4. ASSUME NEW i \in Reminders, NEW b \in BOOLEAN, rem' = [rem EXCEPT ![i].due = b]
        PROVE  /\ rem' \in [Reminders -> [status : ReminderStatuses, topic : Topics \cup {NoTopic}, due : BOOLEAN]]
               /\ \A j \in Reminders : Rank(rem[j].status) <= Rank(rem'[j].status)
    <2>2. \A j \in Reminders : rem'[j].status = rem[j].status
      BY <1>0, <1>4
    <2>3. rem' \in [Reminders -> [status : ReminderStatuses, topic : Topics \cup {NoTopic}, due : BOOLEAN]]
      BY <1>0, <1>4
    <2>4. \A j \in Reminders : Rank(rem[j].status) <= Rank(rem'[j].status)
      BY <1>0, <1>r, <2>2
    <2>5. QED
      BY <2>3, <2>4
  <1>5. QED
    BY <1>1, <1>2, <1>3, <1>4 DEF RowsForward

CallerRow == [pc : {"idle", "similar", "insert", "patchStatus", "patchDue"}, topic : Topics \cup {NoTopic},
                             rem : SUBSET Reminders, status : {"none", "cancelled", "dismissed"}]
Sound(row) == /\ row.pc \in {"similar", "insert"} => row.topic \in Topics
              /\ row.pc = "patchStatus" => row.status # "none"

LEMMA CallerMoves ==
  ASSUME RemindersInv, NEW c \in Callers, NEW new \in CallerRow, caller' = [caller EXCEPT ![c] = new], Sound(new), RowsForward
  PROVE  RemindersInv'
  <1>1. caller'[c] = new /\ \A d \in Callers \ {c} : caller'[d] = caller[d]
    BY DEF RemindersInv
  <1>2. \A d \in Callers : Sound(caller'[d])
    BY <1>1 DEF RemindersInv, Sound
  <1>3. caller' \in [Callers -> CallerRow]
    BY DEF RemindersInv, CallerRow
  <1>4. QED
    BY <1>2, <1>3, ForwardRows DEF RemindersInv, Sound, CallerRow

LEMMA CallersForward ==
  ASSUME RemindersInv, NEW c \in Callers,
         PostReminder(c) \/ SetStatusRead(c) \/ UpdateRead(c) \/ CallerStep(c) \/ GiveUp(c)
  PROVE  RemindersInv' /\ RowsForward
  <1>0. caller[c] \in CallerRow /\ Sound(caller[c])
    BY DEF RemindersInv, CallerRow, Sound
  <1>i. IdleCaller \in CallerRow /\ Sound(IdleCaller)
    BY DEF IdleCaller, CallerRow, Sound
  <1>1. CASE PostReminder(c)
    <2>1. PICK t \in Topics : caller' = [caller EXCEPT ![c] = [@ EXCEPT !.pc = "similar", !.topic = t]]
      BY <1>1 DEF PostReminder
    <2> DEFINE new == [caller[c] EXCEPT !.pc = "similar", !.topic = t]
    <2>2. caller' = [caller EXCEPT ![c] = new]
      BY <2>1
    <2>3. new \in CallerRow /\ Sound(new)
      BY <1>0 DEF CallerRow, Sound
    <2> HIDE DEF new
    <2>4. RowsForward
      BY <1>1 DEF PostReminder, RowsForward
    <2>5. QED
      BY <2>2, <2>3, <2>4, CallerMoves
  <1>2. CASE SetStatusRead(c)
    <2>1. PICK i \in Reminders, s \in {"cancelled", "dismissed"} :
            caller' = [caller EXCEPT ![c] = [@ EXCEPT !.pc = "patchStatus", !.rem = {i}, !.status = s]]
      BY <1>2 DEF SetStatusRead
    <2> DEFINE new == [caller[c] EXCEPT !.pc = "patchStatus", !.rem = {i}, !.status = s]
    <2>2. caller' = [caller EXCEPT ![c] = new]
      BY <2>1
    <2>3. new \in CallerRow /\ Sound(new)
      BY <1>0 DEF CallerRow, Sound
    <2> HIDE DEF new
    <2>4. RowsForward
      BY <1>2 DEF SetStatusRead, RowsForward
    <2>5. QED
      BY <2>2, <2>3, <2>4, CallerMoves
  <1>3. CASE UpdateRead(c)
    <2>1. PICK i \in Reminders : caller' = [caller EXCEPT ![c] = [@ EXCEPT !.pc = "patchDue", !.rem = {i}]]
      BY <1>3 DEF UpdateRead
    <2> DEFINE new == [caller[c] EXCEPT !.pc = "patchDue", !.rem = {i}]
    <2>2. caller' = [caller EXCEPT ![c] = new]
      BY <2>1
    <2>3. new \in CallerRow /\ Sound(new)
      BY <1>0 DEF CallerRow, Sound
    <2> HIDE DEF new
    <2>4. RowsForward
      BY <1>3 DEF UpdateRead, RowsForward
    <2>5. QED
      BY <2>2, <2>3, <2>4, CallerMoves
  <1>4. CASE FindSimilar(c) \/ GiveUp(c)
    <2>1. RowsForward
      BY <1>4 DEF FindSimilar, GiveUp, RowsForward
    <2>2. CASE Answer(c)
      BY <1>i, <2>1, <2>2, CallerMoves DEF Answer
    <2>3. CASE caller[c].pc = "similar" /\ caller' = [caller EXCEPT ![c].pc = "insert"]
      <3> DEFINE new == [caller[c] EXCEPT !.pc = "insert"]
      <3>2. caller' = [caller EXCEPT ![c] = new]
        BY <2>3
      <3>3. new \in CallerRow /\ Sound(new)
        BY <1>0, <2>3 DEF CallerRow, Sound
      <3> HIDE DEF new
      <3>4. QED
        BY <2>1, <3>2, <3>3, CallerMoves
    <2>4. QED
      BY <1>4, <2>2, <2>3 DEF FindSimilar, GiveUp
  <1>5. CASE InsertReminder(c) \/ SetStatusWrite(c) \/ UpdateWrite(c)
    <2>1. RowsForward
      <3>1. CASE InsertReminder(c)
        <4>1. caller[c].topic \in Topics /\ \E i \in Reminders : Created(i, caller[c].topic)
          BY <1>0, <3>1 DEF InsertReminder, Sound
        <4>2. QED
          BY <4>1 DEF RowsForward
      <3>2. CASE SetStatusWrite(c)
        <4>1. PICK i \in caller[c].rem : rem' = [rem EXCEPT ![i].status = caller[c].status]
          BY <3>2 DEF SetStatusWrite
        <4>2. i \in Reminders /\ caller[c].status \in {"cancelled", "dismissed"}
          BY <1>0, <3>2 DEF SetStatusWrite, Sound, CallerRow
        <4>3. QED
          BY <4>1, <4>2 DEF RowsForward
      <3>3. CASE UpdateWrite(c)
        <4>1. PICK i \in caller[c].rem : rem' = [rem EXCEPT ![i].due = FALSE]
          BY <3>3 DEF UpdateWrite
        <4>2. i \in Reminders
          BY <1>0 DEF CallerRow
        <4>3. QED
          BY <4>1, <4>2 DEF RowsForward
      <3>4. QED
        BY <1>5, <3>1, <3>2, <3>3
    <2>2. Answer(c)
      BY <1>5 DEF InsertReminder, SetStatusWrite, UpdateWrite
    <2>3. QED
      BY <1>i, <2>1, <2>2, CallerMoves DEF Answer
  <1>6. QED
    BY <1>1, <1>2, <1>3, <1>4, <1>5 DEF CallerStep

LEMMA RemindersForward ==
  ASSUME RemindersInv, [Next]_vars
  PROVE  RemindersInv' /\ RowsForward
  <1>0. ASSUME UNCHANGED caller, RowsForward PROVE RemindersInv'
    BY <1>0, ForwardRows DEF RemindersInv
  <1>1. CASE UNCHANGED <<rem, caller>>
    BY <1>0, <1>1 DEF RowsForward
  <1>2. ASSUME NEW s \in Servers, SchedulerStep(s) \/ TickEnds(s) PROVE RemindersInv' /\ RowsForward
    <2>1. UNCHANGED caller
      BY <1>2 DEF SchedulerStep, ListDueScheduled, ClaimFired, TickEnds
    <2>2. CASE ClaimFired(s)
      <3>1. PICK i \in tick[s] : IF rem[i].status = "scheduled" THEN rem' = [rem EXCEPT ![i].status = "fired"] ELSE UNCHANGED rem
        BY <2>2 DEF ClaimFired
      <3>2. CASE i \in Reminders
        BY <1>0, <2>1, <3>1, <3>2 DEF RowsForward
      <3>3. CASE i \notin Reminders
        <4>1. UNCHANGED rem
          BY <3>1, <3>3 DEF RemindersInv
        <4>2. QED
          BY <1>1, <2>1, <4>1
      <3>4. QED
        BY <3>2, <3>3
    <2>3. CASE ListDueScheduled(s) \/ TickEnds(s)
      BY <1>1, <2>1, <2>3 DEF ListDueScheduled, TickEnds
    <2>4. QED
      BY <1>2, <2>2, <2>3 DEF SchedulerStep
  <1>3. ASSUME NEW i \in Reminders, ComesDue(i) PROVE RemindersInv' /\ RowsForward
    BY <1>0, <1>3 DEF ComesDue, RowsForward
  <1>4. CASE InboxNext
    <2>1. UNCHANGED caller
      BY <1>4 DEF InboxNext, ExtractorStep, Extract, FindOpenIntent, CreateIntent, FindAgain, MatchIntent, SpawnFromIntent,
         CreateActionRun, RequestStep, ConfirmRead, CancelRead, DismissRead, ConfirmWrite, Start, Effect, EffectSimilar, EffectInsert,
         Record, MarkIntentActed, CancelWrite, DismissWrite, DismissRuns, Abandon, RecordRequest, SettleApproval, remVars
    <2>2. UNCHANGED rem \/ \E u \in Requests : EffectInsert(u)
      BY <1>4 DEF InboxNext, ExtractorStep, Extract, FindOpenIntent, CreateIntent, FindAgain, MatchIntent, SpawnFromIntent,
         CreateActionRun, RequestStep, ConfirmRead, CancelRead, DismissRead, ConfirmWrite, Start, Effect, EffectSimilar,
         Record, MarkIntentActed, CancelWrite, DismissWrite, DismissRuns, Abandon, RecordRequest, SettleApproval, remVars
    <2>3. CASE \E u \in Requests : EffectInsert(u)
      BY <1>0, <2>1, <2>3 DEF EffectInsert, RowsForward
    <2>4. QED
      BY <1>1, <2>1, <2>2, <2>3
  <1>5. CASE RemindersNext
    BY <1>2, <1>3, <1>5, CallersForward DEF RemindersNext
  <1>6. QED
    BY <1>1, <1>4, <1>5 DEF Next, vars, remVars

\* A reminder only moves forward (storage/reminders_store.go), for any number of
\* callers, servers and confirmed proposals: what a request had read and what a
\* scheduler had listed never schedules again one that has fired, nor brings
\* back one that was cancelled or dismissed.
THEOREM RemindersNeverComeBack == Spec => ReminderMovesForward
  <1>1. Init => RemindersInv
    BY DEF Init, RemindersInit, RemindersInv, NoReminder, IdleCaller, ReminderStatuses
  <1>2. RemindersInv /\ [Next]_vars => RemindersInv' /\ \A i \in Reminders : Rank(rem[i].status) <= Rank(rem'[i].status)
    BY RemindersForward, ForwardRows
  <1>3. QED
    BY <1>1, <1>2, PTL DEF Spec, ReminderMovesForward

-----------------------------------------------------------------------------
(* NoteTags.  What a request has read holds the tags the user has chosen,     *)
(* unless they have changed since.                                          *)

TaggerRow == [pc : {"idle", "read", "lock", "resolve", "reject", "done"}, want : {{}}, hint : Hints \cup {NoTag}, seen : SUBSET TagNames]
HintRows == [Hints -> [tag : TagNames \cup {NoTag}, status : {"none", "pending", "accepted", "rejected"}]]

TagsTypes ==
  /\ noteTags \in [TagNames -> {"none", "auto", "locked"}]
  /\ aliasOf \in [TagNames -> TagNames]
  /\ hints \in HintRows
  /\ tagger \in [Taggers -> TaggerRow]
  /\ enricher.auto \in SUBSET TagNames /\ enricher.soft \in SUBSET TagNames
  /\ chosen \in SUBSET TagNames

\* A request is about a suggestion that was made, and that one names a tag.
AboutHint(row) == row.pc \in {"read", "lock", "resolve", "reject"} => row.hint \in Hints /\ hints[row.hint].status # "none"
HintsNameTags == \A h \in Hints : hints[h].status # "none" => hints[h].tag \in TagNames

ChosenAreSeen ==
  \/ overrun
  \/ /\ \A t \in chosen : noteTags[t] = "locked"
     /\ \A r \in Taggers : tagger[r].pc = "lock" /\ r \notin since => chosen \in SUBSET tagger[r].seen

TagsInv ==
  /\ TagsTypes /\ HintsNameTags
  /\ \A r \in Taggers : AboutHint(tagger[r])
  /\ ChosenAreSeen

LEMMA TagsInitially == TagsInit => TagsInv
  <1> SUFFICES ASSUME TagsInit PROVE TagsInv
    OBVIOUS
  <1>1. TagsTypes
    BY DEF TagsInit, TagsTypes, IdleTagger, IdleEnricher, TaggerRow, HintRows
  <1>2. HintsNameTags /\ \A r \in Taggers : AboutHint(tagger[r])
    BY DEF TagsInit, HintsNameTags, AboutHint, IdleTagger
  <1>3. ChosenAreSeen
    BY DEF TagsInit, ChosenAreSeen
  <1>4. QED
    BY <1>1, <1>2, <1>3 DEF TagsInv

\* A request of the user moves.
LEMMA TaggerMoves ==
  ASSUME TagsInv, NEW r \in Taggers, NEW new \in TaggerRow, tagger' = [tagger EXCEPT ![r] = new],
         \A h \in Hints : hints[h].status # "none" => hints'[h].status # "none",
         new.pc \in {"read", "lock", "resolve", "reject"} => new.hint \in Hints /\ hints'[new.hint].status # "none"
  PROVE  /\ tagger' \in [Taggers -> TaggerRow] /\ \A q \in Taggers : AboutHint(tagger[q])'
         /\ tagger'[r] = new /\ \A q \in Taggers \ {r} : tagger'[q] = tagger[q]
  <1>1. tagger'[r] = new /\ \A q \in Taggers \ {r} : tagger'[q] = tagger[q]
    BY DEF TagsInv, TagsTypes
  <1>2. tagger' \in [Taggers -> TaggerRow]
    BY DEF TagsInv, TagsTypes
  <1>3. ASSUME NEW q \in Taggers PROVE AboutHint(tagger[q])'
    BY <1>1 DEF AboutHint, TagsInv
  <1>4. QED
    BY <1>1, <1>2, <1>3

LEMMA TaggerStepKeeps ==
  ASSUME TagsInv, NEW r \in Taggers,
         SetNoteTags(r) \/ ResolveTagSuggestion(r) \/ GetTagsForNote(r) \/ GetTagsFails(r) \/ AcceptTag(r)
         \/ UpdateSuggestionStatus(r) \/ ResolveFails(r) \/ TagCommand(r) \/ ApplyHashtagTags(r)
  PROVE  TagsInv'
  <1> DEFINE me == tagger[r]
  <1>0. me \in TaggerRow /\ AboutHint(me)
    BY DEF TagsInv, TagsTypes
  <1>t. /\ noteTags \in [TagNames -> {"none", "auto", "locked"}] /\ aliasOf \in [TagNames -> TagNames]
        /\ hints \in HintRows /\ tagger \in [Taggers -> TaggerRow] /\ chosen \in SUBSET TagNames
    BY DEF TagsInv, TagsTypes
  <1>e. UNCHANGED enricher
    BY DEF SetNoteTags, ResolveTagSuggestion, GetTagsForNote, GetTagsFails, AcceptTag, UpdateSuggestionStatus, ResolveFails,
           TagCommand, ApplyHashtagTags
  <1>1. PICK new \in TaggerRow :
          /\ tagger' = [tagger EXCEPT ![r] = new]
          /\ new.pc \in {"read", "lock", "resolve", "reject"} => new.hint \in Hints /\ hints[new.hint].status # "none"
          /\ new.pc = "lock" => \/ me.pc = "read" /\ new.seen = OnNote /\ UNCHANGED <<noteTags, hints, chosen, since, overrun>>
                                \/ me.pc = "read" /\ new.seen = {} /\ r \in since' /\ UNCHANGED <<noteTags, hints, chosen, overrun>>
    <2>1. CASE SetNoteTags(r) \/ TagCommand(r) \/ ApplyHashtagTags(r) \/ UpdateSuggestionStatus(r) \/ ResolveFails(r)
      <3> DEFINE new == [me EXCEPT !.pc = "done"]
      <3>1. tagger' = [tagger EXCEPT ![r] = new]
        BY <2>1 DEF SetNoteTags, TagCommand, ApplyHashtagTags, UpdateSuggestionStatus, ResolveFails
      <3>2. new \in TaggerRow /\ new.pc = "done"
        BY <1>0 DEF TaggerRow
      <3> HIDE DEF new
      <3>3. QED
        BY <3>1, <3>2
    <2>2. CASE ResolveTagSuggestion(r)
      <3>1. PICK h \in Hints, pc \in {"read", "reject"} :
              hints[h].status = "pending" /\ tagger' = [tagger EXCEPT ![r] = [@ EXCEPT !.pc = pc, !.hint = h]]
        BY <2>2 DEF ResolveTagSuggestion
      <3> DEFINE new == [me EXCEPT !.pc = pc, !.hint = h]
      <3>2. tagger' = [tagger EXCEPT ![r] = new]
        BY <3>1
      <3>3. new \in TaggerRow /\ new.pc = pc /\ new.hint = h
        BY <1>0 DEF TaggerRow
      <3> HIDE DEF new
      <3>4. QED
        BY <3>1, <3>2, <3>3
    <2>3. CASE GetTagsForNote(r)
      <3> DEFINE new == [me EXCEPT !.pc = "lock", !.seen = OnNote]
      <3>1. tagger' = [tagger EXCEPT ![r] = new] /\ me.pc = "read" /\ UNCHANGED <<noteTags, hints, chosen, since, overrun>>
        BY <2>3 DEF GetTagsForNote
      <3>2. OnNote \in SUBSET TagNames
        BY DEF OnNote
      <3>3. new \in TaggerRow /\ new.pc = "lock" /\ new.hint = me.hint /\ new.seen = OnNote
        BY <1>0, <3>2 DEF TaggerRow
      <3> HIDE DEF new
      <3>4. QED
        BY <1>0, <3>1, <3>3 DEF AboutHint
    <2>4. CASE GetTagsFails(r)
      <3> DEFINE new == [me EXCEPT !.pc = "lock", !.seen = {}]
      <3>1. tagger' = [tagger EXCEPT ![r] = new] /\ me.pc = "read" /\ UNCHANGED <<noteTags, hints, chosen, overrun>> /\ r \in since'
        BY <2>4 DEF GetTagsFails
      <3>2. new \in TaggerRow /\ new.pc = "lock" /\ new.hint = me.hint /\ new.seen = {}
        BY <1>0 DEF TaggerRow
      <3> HIDE DEF new
      <3>3. QED
        BY <1>0, <3>1, <3>2 DEF AboutHint
    <2>5. CASE AcceptTag(r)
      <3> DEFINE new == [me EXCEPT !.pc = "resolve"]
      <3>1. tagger' = [tagger EXCEPT ![r] = new] /\ me.pc = "lock"
        BY <2>5 DEF AcceptTag
      <3>2. new \in TaggerRow /\ new.pc = "resolve" /\ new.hint = me.hint
        BY <1>0 DEF TaggerRow
      <3> HIDE DEF new
      <3>3. QED
        BY <1>0, <3>1, <3>2 DEF AboutHint
    <2>6. QED
      BY <2>1, <2>2, <2>3, <2>4, <2>5
  <1>2. /\ hints' \in HintRows /\ HintsNameTags'
        /\ \A h \in Hints : hints[h].status # "none" => hints'[h].status # "none"
    <2>1. CASE UNCHANGED hints
      BY <1>t, <2>1 DEF HintsNameTags, TagsInv
    <2>2. CASE UpdateSuggestionStatus(r)
      <3>1. /\ me.hint \in Hints /\ hints[me.hint].status # "none"
            /\ \E s \in {"accepted", "rejected"} : hints' = [hints EXCEPT ![me.hint].status = s]
        BY <1>0, <2>2 DEF UpdateSuggestionStatus, AboutHint
      <3>2. hints' \in HintRows
        BY <1>t, <3>1 DEF HintRows
      <3>3. \A h \in Hints : hints'[h].tag = hints[h].tag /\ (hints[h].status # "none" <=> hints'[h].status # "none")
        BY <1>t, <3>1 DEF HintRows
      <3>4. QED
        BY <3>2, <3>3 DEF HintsNameTags, TagsInv
    <2>3. QED
      BY <2>1, <2>2 DEF SetNoteTags, ResolveTagSuggestion, GetTagsForNote, GetTagsFails, AcceptTag, ResolveFails,
           TagCommand, ApplyHashtagTags
  <1>3. /\ tagger' \in [Taggers -> TaggerRow] /\ \A q \in Taggers : AboutHint(tagger[q])'
        /\ tagger'[r] = new /\ \A q \in Taggers \ {r} : tagger'[q] = tagger[q]
    BY <1>1, <1>2, TaggerMoves
  <1>k. ASSUME \A t \in chosen' : noteTags'[t] = "locked", Changed(r), new.pc # "lock" PROVE ChosenAreSeen'
    <2>1. ASSUME NEW q \in Taggers, tagger'[q].pc = "lock", q \notin since' PROVE FALSE
      BY <1>3, <1>k, <2>1 DEF Changed
    <2>2. QED
      BY <1>k, <2>1 DEF ChosenAreSeen
  <1>4. /\ noteTags' \in [TagNames -> {"none", "auto", "locked"}] /\ aliasOf' \in [TagNames -> TagNames]
        /\ chosen' \in SUBSET TagNames /\ ChosenAreSeen'
    <2>1. CASE SetNoteTags(r)
      <3>1. PICK ts \in SUBSET TagNames : SetLocked(ts) /\ chosen' = ts
        BY <2>1 DEF SetNoteTags
      <3>2. UNCHANGED aliasOf /\ Changed(r) /\ tagger' = [tagger EXCEPT ![r].pc = "done"]
        BY <2>1 DEF SetNoteTags
      <3>3. new.pc # "lock"
        BY <1>0, <1>t, <1>3, <3>2 DEF TaggerRow
      <3>4. QED
        BY <1>t, <1>k, <3>1, <3>2, <3>3 DEF SetLocked
    <2>2. CASE AcceptTag(r)
      <3> DEFINE tag == hints[me.hint].tag
      <3>1. /\ me.pc = "lock" /\ SetLocked(me.seen \cup {tag}) /\ chosen' = chosen \cup {tag} /\ UNCHANGED aliasOf
            /\ overrun' = (overrun \/ r \in since) /\ Changed(r) /\ tagger' = [tagger EXCEPT ![r].pc = "resolve"]
        BY <2>2 DEF AcceptTag, Accepted
      <3>2. tag \in TagNames /\ me.seen \in SUBSET TagNames
        BY <1>0, <3>1 DEF AboutHint, TagsInv, HintsNameTags, TaggerRow
      <3>3. new.pc # "lock"
        BY <1>0, <1>t, <1>3, <3>1 DEF TaggerRow
      <3> HIDE DEF tag
      <3>4. noteTags' \in [TagNames -> {"none", "auto", "locked"}] /\ chosen' \in SUBSET TagNames
        BY <1>t, <3>1, <3>2 DEF SetLocked
      <3>5. CASE overrun'
        BY <1>t, <3>1, <3>4, <3>5 DEF ChosenAreSeen
      <3>6. CASE ~overrun'
        <4>1. ~overrun /\ r \notin since
          BY <3>1, <3>6, Zenon
        <4>2. chosen \in SUBSET me.seen
          BY <3>1, <4>1 DEF TagsInv, ChosenAreSeen
        <4>3. \A t \in chosen' : noteTags'[t] = "locked"
          BY <3>1, <3>2, <4>2 DEF SetLocked
        <4>4. QED
          BY <1>t, <1>k, <3>1, <3>3, <3>4, <4>3
      <3>7. QED
        BY <3>5, <3>6
    <2>3. CASE TagCommand(r)
      <3>1. PICK s \in TagNames, c \in TagNames :
              /\ s # c
              /\ \/ Moved(s, c) /\ aliasOf' = [aliasOf EXCEPT ![s] = c] /\ Changed(r)
                 \/ Moved(s, c) /\ UNCHANGED aliasOf /\ Changed(r)
                 \/ aliasOf' = [aliasOf EXCEPT ![s] = c] /\ UNCHANGED <<noteTags, chosen, since>>
        BY <2>3 DEF TagCommand
      <3>2. UNCHANGED overrun /\ tagger' = [tagger EXCEPT ![r].pc = "done"]
        BY <2>3 DEF TagCommand
      <3>3. new.pc = "done"
        BY <1>0, <1>t, <1>3, <3>2 DEF TaggerRow
      <3>4. aliasOf' \in [TagNames -> TagNames]
        BY <1>t, <3>1
      <3>5. CASE UNCHANGED <<noteTags, chosen, since>>
        <4>1. ChosenAreSeen'
          BY <1>3, <3>2, <3>3, <3>5 DEF TagsInv, ChosenAreSeen
        <4>2. QED
          BY <1>t, <3>4, <3>5, <4>1
      <3>6. CASE Moved(s, c) /\ Changed(r)
        <4> DEFINE at(x) == IF "locked" \in {noteTags[c], noteTags[s]} THEN "locked"
                            ELSE IF noteTags[c] = "none" THEN noteTags[s] ELSE noteTags[c]
        <4>1. noteTags' = [noteTags EXCEPT ![c] = at(0), ![s] = "none"]
              /\ chosen' = IF s \in chosen THEN (chosen \ {s}) \cup {c} ELSE chosen
          BY <3>6 DEF Moved
        <4>2. at(0) \in {"none", "auto", "locked"} /\ (noteTags[c] = "locked" \/ noteTags[s] = "locked" => at(0) = "locked")
          BY <1>t
        <4> HIDE DEF at
        <4>3. noteTags' \in [TagNames -> {"none", "auto", "locked"}] /\ chosen' \in SUBSET TagNames
          BY <1>t, <3>1, <4>1, <4>2
        <4>4. noteTags'[c] = at(0) /\ \A t \in TagNames \ {s, c} : noteTags'[t] = noteTags[t]
          BY <1>t, <3>1, <4>1
        <4>5. CASE overrun
          BY <3>2, <3>4, <4>3, <4>5 DEF ChosenAreSeen
        <4>6. CASE ~overrun
          <5>1. \A t \in chosen : noteTags[t] = "locked"
            BY <4>6 DEF TagsInv, ChosenAreSeen
          <5>2. \A t \in chosen' : noteTags'[t] = "locked"
            BY <1>t, <3>1, <4>1, <4>2, <4>4, <5>1
          <5>3. QED
            BY <1>k, <3>3, <3>4, <3>6, <4>3, <5>2
        <4>7. QED
          BY <4>5, <4>6
      <3>7. QED
        BY <3>1, <3>5, <3>6
    <2>4. CASE ApplyHashtagTags(r)
      <3>1. PICK t \in TagNames : noteTags' = [noteTags EXCEPT ![t] = "locked"] /\ chosen' = chosen \cup {t}
        BY <2>4 DEF ApplyHashtagTags
      <3>2. UNCHANGED <<aliasOf, overrun>> /\ Changed(r) /\ tagger' = [tagger EXCEPT ![r].pc = "done"]
        BY <2>4 DEF ApplyHashtagTags
      <3>3. new.pc = "done"
        BY <1>0, <1>t, <1>3, <3>2 DEF TaggerRow
      <3>4. CASE overrun
        BY <1>t, <3>1, <3>2, <3>4 DEF ChosenAreSeen
      <3>5. CASE ~overrun
        BY <1>t, <1>k, <3>1, <3>2, <3>3, <3>5 DEF TagsInv, ChosenAreSeen
      <3>6. QED
        BY <3>4, <3>5
    <2>5. CASE GetTagsForNote(r)
      <3>1. UNCHANGED <<noteTags, aliasOf, chosen, since, overrun>> /\ new.pc = "lock" /\ new.seen = OnNote
        <4>1. tagger' = [tagger EXCEPT ![r] = [@ EXCEPT !.pc = "lock", !.seen = OnNote]]
          BY <2>5 DEF GetTagsForNote
        <4>2. new.pc = "lock" /\ new.seen = OnNote
          BY <1>0, <1>t, <1>3, <4>1 DEF TaggerRow
        <4>3. QED
          BY <2>5, <4>2 DEF GetTagsForNote
      <3>2. ~overrun => chosen \in SUBSET OnNote
        BY <1>t DEF TagsInv, ChosenAreSeen, OnNote
      <3>3. QED
        BY <1>t, <1>3, <3>1, <3>2 DEF TagsInv, ChosenAreSeen
    <2>6. CASE GetTagsFails(r)
      <3>1. UNCHANGED <<noteTags, aliasOf, chosen, overrun>> /\ since' = since \cup {r}
        BY <2>6 DEF GetTagsFails
      <3>2. QED
        BY <1>t, <1>3, <3>1 DEF TagsInv, ChosenAreSeen
    <2>7. CASE ResolveTagSuggestion(r) \/ UpdateSuggestionStatus(r) \/ ResolveFails(r)
      <3>1. UNCHANGED <<noteTags, aliasOf, chosen, since, overrun>>
        BY <2>7 DEF ResolveTagSuggestion, UpdateSuggestionStatus, ResolveFails
      <3>2. new.pc # "lock"
        <4>1. \E pc \in {"read", "reject", "done"} : new.pc = pc
          <5>1. CASE ResolveTagSuggestion(r)
            <6>1. PICK h \in Hints, pc \in {"read", "reject"} : tagger' = [tagger EXCEPT ![r] = [@ EXCEPT !.pc = pc, !.hint = h]]
              BY <5>1 DEF ResolveTagSuggestion
            <6>2. QED
              BY <1>0, <1>t, <1>3, <6>1 DEF TaggerRow
          <5>2. CASE tagger' = [tagger EXCEPT ![r].pc = "done"]
            BY <1>0, <1>t, <1>3, <5>2 DEF TaggerRow
          <5>3. QED
            BY <2>7, <5>1, <5>2 DEF UpdateSuggestionStatus, ResolveFails
        <4>2. QED
          BY <4>1
      <3>3. QED
        BY <1>t, <1>3, <3>1, <3>2 DEF TagsInv, ChosenAreSeen
    <2>8. QED
      BY <2>1, <2>2, <2>3, <2>4, <2>5, <2>6, <2>7
  <1>5. QED
    BY <1>e, <1>2, <1>3, <1>4 DEF TagsInv, TagsTypes

LEMMA EnricherStepKeeps ==
  ASSUME TagsInv, ProposeTags \/ InsertTagSuggestion \/ ApplyAutoTags \/ EnrichFails
  PROVE  TagsInv'
  <1>t. TagsTypes /\ HintsNameTags /\ ChosenAreSeen /\ \A r \in Taggers : AboutHint(tagger[r])
    BY DEF TagsInv
  <1>1. UNCHANGED <<aliasOf, tagger, chosen, since, overrun>>
    BY DEF ProposeTags, InsertTagSuggestion, ApplyAutoTags, EnrichFails
  <1>2. enricher'.auto \in SUBSET TagNames /\ enricher'.soft \in SUBSET TagNames
    <2>1. CASE ProposeTags
      BY <1>t, <2>1 DEF ProposeTags, TagsTypes
    <2>2. CASE InsertTagSuggestion
      BY <1>t, <2>2 DEF InsertTagSuggestion, EnricherAt, TagsTypes
    <2>3. CASE ApplyAutoTags \/ EnrichFails
      BY <2>3 DEF ApplyAutoTags, EnrichFails, IdleEnricher
    <2>4. QED
      BY <2>1, <2>2, <2>3
  <1>3. /\ hints' \in HintRows /\ HintsNameTags'
        /\ \A h \in Hints : hints[h].status # "none" => hints'[h].status # "none"
    <2>1. CASE UNCHANGED hints
      BY <1>t, <2>1 DEF TagsTypes, HintsNameTags
    <2>2. ASSUME NEW t \in enricher.soft, NEW g \in Hints, hints' = [hints EXCEPT ![g] = [tag |-> t, status |-> "pending"]]
          PROVE  /\ hints' \in HintRows /\ HintsNameTags'
                 /\ \A h \in Hints : hints[h].status # "none" => hints'[h].status # "none"
      <3>1. t \in TagNames
        BY <1>t DEF TagsTypes
      <3>2. hints' \in HintRows
        BY <1>t, <2>2, <3>1 DEF TagsTypes, HintRows
      <3>3. \A h \in Hints : hints'[h] = IF h = g THEN [tag |-> t, status |-> "pending"] ELSE hints[h]
        BY <1>t, <2>2 DEF TagsTypes, HintRows
      <3>4. QED
        BY <1>t, <3>1, <3>2, <3>3 DEF HintsNameTags
    <2>3. QED
      BY <2>1, <2>2 DEF ProposeTags, InsertTagSuggestion, ApplyAutoTags, EnrichFails
  <1>4. noteTags' \in [TagNames -> {"none", "auto", "locked"}] /\ \A t \in TagNames : noteTags[t] = "locked" => noteTags'[t] = "locked"
    <2>1. CASE ApplyAutoTags
      BY <1>t, <2>1 DEF ApplyAutoTags, TagsTypes
    <2>2. QED
      BY <1>t, <2>1 DEF ProposeTags, InsertTagSuggestion, EnrichFails, TagsTypes
  <1>5. ChosenAreSeen'
    BY <1>t, <1>1, <1>4 DEF ChosenAreSeen, TagsTypes
  <1>6. \A r \in Taggers : AboutHint(tagger[r])'
    BY <1>t, <1>1, <1>3 DEF AboutHint
  <1>7. QED
    BY <1>t, <1>1, <1>2, <1>3, <1>4, <1>5, <1>6 DEF TagsInv, TagsTypes

\* The tags a user has chosen for a note stay on it and locked (notes/smart_tag.go,
\* storage/notes_taxonomy.go), whatever the enrichment does, for any number of
\* tags, suggestions and requests; unless a suggestion is accepted over tags that
\* have changed, or could not be read.
THEOREM ChosenTagsAreKept == TagsSpec => []ChosenTagsStay
  <1>1. TagsInv /\ [TagsNext]_tagVars => TagsInv'
    <2>1. ASSUME TagsInv, UNCHANGED tagVars PROVE TagsInv'
      BY <2>1 DEF tagVars, TagsInv, TagsTypes, HintsNameTags, AboutHint, ChosenAreSeen
    <2>2. QED
      BY <2>1, TaggerStepKeeps, EnricherStepKeeps DEF TagsNext
  <1>2. TagsInv => ChosenTagsStay
    BY DEF TagsInv, ChosenAreSeen, ChosenTagsStay
  <1>3. QED
    BY <1>1, <1>2, TagsInitially, PTL DEF TagsSpec

-----------------------------------------------------------------------------
(* Preferences.  What a cache, or a request about to fill it, has of the      *)
(* model was the choice until at most one life of an entry before it expires. *)

AnyModel == Models \cup {NoModel, Placeholder}
Chosen == Models \cup {NoModel}
AskerRow == [pc : {"idle", "persona", "model", "load", "get", "put", "zone", "given", "invalidate", "done"},
             server : PrefServers \cup {NoModel}, todo : SUBSET {"persona", "model", "zone"},
             want : Chosen, row : AnyModel, at : Nat]

\* The model m is the choice, or was less than a TTL before t.
Recent(m, t) == m = chosenModel \/ leftAt[m] + TTL >= t

PrefsTypes ==
  /\ prefs \in AnyModel /\ cache \in [PrefServers -> [row : AnyModel, expires : Nat]]
  /\ asker \in [Askers -> AskerRow]
  /\ clock \in Nat /\ chosenModel \in Chosen /\ leftAt \in [Chosen -> Nat]

AskerKnows(a) ==
  /\ asker[a].at <= clock
  /\ asker[a].pc # "idle" => asker[a].server \in PrefServers
  /\ "model" \in asker[a].todo => asker[a].want \in Models
  /\ asker[a].pc = "model" => "model" \in asker[a].todo
  /\ restored \/ /\ asker[a].pc = "put" => Recent(Choice(asker[a].row), asker[a].at + TTL)
                 /\ asker[a].pc = "given" => Recent(Choice(asker[a].row), asker[a].at + 1)

CacheKnows ==
  \A s \in PrefServers : /\ cache[s].expires <= clock + TTL
                         /\ restored \/ Recent(Choice(cache[s].row), cache[s].expires)

PrefsInv ==
  /\ PrefsTypes /\ CacheKnows
  /\ restored \/ Choice(prefs) = chosenModel
  /\ \A a \in Askers : AskerKnows(a)

LEMMA TTLPositive == TTL \in Nat /\ TTL > 0
  BY PreferencesAssumption

LEMMA ChoiceChosen ==
  ASSUME NEW m \in AnyModel PROVE Choice(m) \in Chosen /\ (m \in Chosen => Choice(m) = m)
  BY PreferencesAssumption DEF Choice, AnyModel, Chosen

\* A choice leaves what was recent so, up to the life of an entry that begins now.
LEMMA ChoiceKeepsRecent ==
  ASSUME PrefsTypes, NEW w \in Chosen, Choose(w), NEW m \in Chosen, NEW t \in Nat, t <= clock + TTL, Recent(m, t)
  PROVE  Recent(m, t)'
  <1>1. CASE chosenModel = w
    BY <1>1 DEF Choose, Recent
  <1>2. CASE chosenModel # w
    <2>1. leftAt' = [leftAt EXCEPT ![chosenModel] = clock] /\ chosenModel' = w
      BY <1>2 DEF Choose
    <2>2. CASE m = chosenModel
      <3>1. leftAt'[m] = clock
        BY <2>1, <2>2 DEF PrefsTypes
      <3>2. QED
        BY <3>1, TTLPositive DEF Recent, PrefsTypes
    <2>3. CASE m # chosenModel
      <3>1. leftAt'[m] = leftAt[m]
        BY <2>1, <2>3 DEF PrefsTypes
      <3>2. QED
        BY <2>3, <3>1 DEF Recent
    <2>4. QED
      BY <2>2, <2>3
  <1>3. QED
    BY <1>1, <1>2

LEMMA PrefsInitially == PrefsInit => PrefsInv
  <1> SUFFICES ASSUME PrefsInit PROVE PrefsInv
    OBVIOUS
  <1>1. IdleAsker \in AskerRow /\ IdleAsker.pc = "idle" /\ IdleAsker.todo = {} /\ IdleAsker.at = 0
    BY DEF IdleAsker, AskerRow, AnyModel, Chosen
  <1>2. PrefsTypes
    BY <1>1, TTLPositive DEF PrefsInit, PrefsTypes, AnyModel, Chosen
  <1>3. Choice(NoModel) = NoModel
    BY ChoiceChosen DEF AnyModel, Chosen
  <1>4. CacheKnows
    <2>1. ASSUME NEW s \in PrefServers PROVE cache[s].row = NoModel /\ cache[s].expires = 0
      BY DEF PrefsInit
    <2>2. clock = TTL /\ chosenModel = NoModel
      BY DEF PrefsInit
    <2>3. ASSUME NEW s \in PrefServers PROVE cache[s].expires <= clock + TTL /\ Recent(Choice(cache[s].row), cache[s].expires)
      <3>1. Choice(cache[s].row) = chosenModel
        BY <1>3, <2>1, <2>2
      <3>2. cache[s].expires <= clock + TTL
        BY <2>1, <2>2, TTLPositive
      <3>3. QED
        BY <3>1, <3>2 DEF Recent
    <2>4. QED
      BY <2>3 DEF CacheKnows
  <1>5. \A a \in Askers : AskerKnows(a)
    BY <1>1, TTLPositive DEF PrefsInit, AskerKnows
  <1>6. QED
    BY <1>2, <1>3, <1>4, <1>5 DEF PrefsInv, PrefsInit

\* A request moves, and the choice stays.
LEMMA AskerMoves ==
  ASSUME PrefsInv, NEW a \in Askers, NEW new \in AskerRow, asker' = [asker EXCEPT ![a] = new],
         UNCHANGED <<clock, chosenModel, leftAt>>, restored => restored',
         AskerKnows(a)'
  PROVE  asker' \in [Askers -> AskerRow] /\ \A b \in Askers : AskerKnows(b)'
  <1>1. asker' \in [Askers -> AskerRow] /\ \A b \in Askers \ {a} : asker'[b] = asker[b]
    BY DEF PrefsInv, PrefsTypes
  <1>2. ASSUME NEW b \in Askers \ {a} PROVE AskerKnows(b)'
    <2>1. AskerKnows(b) /\ asker'[b] = asker[b]
      BY <1>1 DEF PrefsInv
    <2>2. QED
      BY <2>1 DEF AskerKnows, Recent
  <1>3. QED
    BY <1>1, <1>2

\* Where the row, the cache and the choice stay.
LEMMA OnlyAsker ==
  ASSUME PrefsInv, NEW a \in Askers, NEW new \in AskerRow, asker' = [asker EXCEPT ![a] = new],
         UNCHANGED <<prefs, cache, clock, chosenModel, leftAt, restored>>,
         new.at <= clock, new.pc # "idle" => new.server \in PrefServers,
         "model" \in new.todo => new.want \in Models,
         new.pc = "model" => "model" \in new.todo,
         restored \/ /\ new.pc = "put" => Recent(Choice(new.row), new.at + TTL)
                     /\ new.pc = "given" => Recent(Choice(new.row), new.at + 1)
  PROVE  PrefsInv'
  <1>1. asker'[a] = new
    BY DEF PrefsInv, PrefsTypes
  <1>2. AskerKnows(a)'
    BY <1>1 DEF AskerKnows, Recent
  <1>3. asker' \in [Askers -> AskerRow] /\ \A b \in Askers : AskerKnows(b)'
    BY <1>2, AskerMoves
  <1>4. CacheKnows'
    BY DEF PrefsInv, CacheKnows, Recent
  <1>5. QED
    BY <1>3, <1>4 DEF PrefsInv, PrefsTypes

\* The answers of the cache and of the row.
LEMMA ReadsKeep ==
  ASSUME PrefsInv, NEW a \in Askers, UpdatePreferences(a) \/ GetPreferences(a) \/ LoadRow(a) \/ GetRow(a)
  PROVE  PrefsInv'
  <1> DEFINE me == asker[a]
  <1>0. me \in AskerRow /\ AskerKnows(a) /\ CacheKnows /\ PrefsTypes
    BY DEF PrefsInv, PrefsTypes
  <1>u. UNCHANGED <<prefs, cache, clock, chosenModel, leftAt, restored>>
    BY DEF UpdatePreferences, GetPreferences, LoadRow, GetRow
  <1>c. clock \in Nat /\ 0 <= clock /\ clock <= clock
    BY <1>0 DEF PrefsTypes
  <1>i. IdleAsker \in AskerRow /\ IdleAsker.at = 0 /\ IdleAsker.todo = {}
    BY DEF IdleAsker, AskerRow, AnyModel, Chosen
  <1>1. CASE UpdatePreferences(a)
    <2>1. PICK s \in PrefServers, todo \in Updates, m \in Chosen :
            /\ ("model" \in todo) = (m # NoModel)
            /\ asker' = [asker EXCEPT ![a] = [IdleAsker EXCEPT !.pc = After(todo), !.server = s, !.todo = todo, !.want = m]]
      BY <1>1, Zenon DEF UpdatePreferences, Chosen
    <2>t. todo \in SUBSET {"persona", "model", "zone"}
      BY PreferencesAssumption
    <2>a. After(todo) \in {"persona", "model", "load", "done"} /\ (After(todo) = "model" => "model" \in todo)
      BY DEF After
    <2>w. "model" \in todo => m \in Models
      BY <2>1 DEF Chosen
    <2> DEFINE new == [IdleAsker EXCEPT !.pc = After(todo), !.server = s, !.todo = todo, !.want = m]
    <2>2. asker' = [asker EXCEPT ![a] = new]
      BY <2>1, Zenon
    <2>3. /\ new \in AskerRow /\ new.pc = After(todo) /\ new.server = s /\ new.todo = todo /\ new.want = m
          /\ new.at = 0
      BY <1>i, <2>a, <2>t DEF AskerRow
    <2> HIDE DEF new
    <2>4. QED
      BY <1>c, <1>u, <2>2, <2>3, <2>a, <2>w, OnlyAsker
  <1>2. CASE GetPreferences(a)
    <2>1. PICK s \in PrefServers : asker' = [asker EXCEPT ![a] = [IdleAsker EXCEPT !.pc = "load", !.server = s]]
      BY <1>2 DEF GetPreferences
    <2> DEFINE new == [IdleAsker EXCEPT !.pc = "load", !.server = s]
    <2>2. asker' = [asker EXCEPT ![a] = new]
      BY <2>1
    <2>3. new \in AskerRow /\ new.pc = "load" /\ new.server = s /\ new.todo = {} /\ new.at = 0
      BY <1>i DEF AskerRow
    <2> HIDE DEF new
    <2>4. QED
      BY <1>c, <1>u, <2>2, <2>3, OnlyAsker
  <1>3. CASE LoadRow(a)
    <2>1. me.pc = "load" /\ me.server \in PrefServers
      BY <1>0, <1>3 DEF LoadRow, AskerKnows
    <2> DEFINE entry == cache[me.server]
    <2>e. entry \in [row : AnyModel, expires : Nat] /\ (restored \/ Recent(Choice(entry.row), entry.expires))
      BY <1>0, <2>1 DEF CacheKnows, PrefsTypes
    <2>2. CASE entry.expires > clock
      <3> DEFINE new == [me EXCEPT !.pc = Loaded(a), !.row = entry.row, !.at = clock]
      <3>1. asker' = [asker EXCEPT ![a] = new]
        BY <1>3, <2>2 DEF LoadRow
      <3>2. Loaded(a) \in {"zone", "given"}
        BY DEF Loaded
      <3>3. /\ new \in AskerRow /\ new.pc = Loaded(a) /\ new.row = entry.row /\ new.at = clock
            /\ new.server = me.server /\ new.todo = me.todo /\ new.want = me.want
        BY <1>0, <2>e, <3>2 DEF AskerRow, PrefsTypes
      <3>4. restored \/ Recent(Choice(entry.row), clock + 1)
        <4>1. Choice(entry.row) \in Chosen
          BY <2>e, ChoiceChosen
        <4>2. QED
          BY <1>0, <2>2, <2>e, <4>1, TTLPositive DEF Recent, PrefsTypes
      <3> HIDE DEF new, entry, me
      <3>5. "model" \in me.todo => me.want \in Models
        BY <1>0 DEF AskerKnows, me
      <3>6. QED
        BY <1>c, <1>u, <2>1, <3>1, <3>2, <3>3, <3>4, <3>5, OnlyAsker
    <2>3. CASE ~(entry.expires > clock)
      <3> DEFINE new == [me EXCEPT !.pc = "get", !.at = clock]
      <3>1. asker' = [asker EXCEPT ![a] = new]
        BY <1>3, <2>3 DEF LoadRow
      <3>3. /\ new \in AskerRow /\ new.pc = "get" /\ new.at = clock
            /\ new.server = me.server /\ new.todo = me.todo /\ new.want = me.want
        BY <1>0 DEF AskerRow, PrefsTypes
      <3>5. "model" \in me.todo => me.want \in Models
        BY <1>0 DEF AskerKnows
      <3> HIDE DEF new, entry, me
      <3>6. QED
        BY <1>c, <1>u, <2>1, <3>1, <3>3, <3>5, OnlyAsker
    <2>4. QED
      BY <2>2, <2>3
  <1>4. CASE GetRow(a)
    <2>1. me.pc = "get" /\ me.server \in PrefServers /\ me.at <= clock /\ ("model" \in me.todo => me.want \in Models)
      BY <1>0, <1>4 DEF GetRow, AskerKnows
    <2> DEFINE new == [me EXCEPT !.pc = "put", !.row = prefs]
    <2>2. asker' = [asker EXCEPT ![a] = new]
      BY <1>4 DEF GetRow
    <2>3. /\ new \in AskerRow /\ new.pc = "put" /\ new.row = prefs
          /\ new.server = me.server /\ new.todo = me.todo /\ new.want = me.want /\ new.at = me.at
      BY <1>0 DEF AskerRow, PrefsTypes
    <2>4. restored \/ Recent(Choice(prefs), me.at + TTL)
      BY DEF PrefsInv, Recent
    <2> HIDE DEF new, me
    <2>5. QED
      BY <1>u, <2>1, <2>2, <2>3, <2>4, OnlyAsker
  <1>5. QED
    BY <1>1, <1>2, <1>3, <1>4

\* A request goes on to another step with what it knows.
LEMMA AskerSteps ==
  ASSUME PrefsInv, NEW a \in Askers, NEW p \in {"zone", "given", "invalidate", "done"}, AskerAt(a, p)
  PROVE  \E new \in AskerRow : /\ asker' = [asker EXCEPT ![a] = new] /\ asker'[a] = new /\ new.pc = p
                               /\ new.server = asker[a].server /\ new.todo = asker[a].todo /\ new.want = asker[a].want
                               /\ new.row = asker[a].row /\ new.at = asker[a].at
  <1> DEFINE new == [asker[a] EXCEPT !.pc = p]
  <1>1. asker' = [asker EXCEPT ![a] = new] /\ asker[a] \in AskerRow /\ asker'[a] = new
    BY DEF AskerAt, PrefsInv, PrefsTypes
  <1>2. /\ new \in AskerRow /\ new.pc = p /\ new.server = asker[a].server /\ new.todo = asker[a].todo
        /\ new.want = asker[a].want /\ new.row = asker[a].row /\ new.at = asker[a].at
    BY <1>1 DEF AskerRow
  <1> HIDE DEF new
  <1>3. QED
    BY <1>1, <1>2

LEMMA WritesKeep ==
  ASSUME PrefsInv, NEW a \in Askers,
         \/ PutRow(a) \/ SetPersona(a) \/ SetLLMModel(a) \/ SetTimezone(a) \/ Invalidate(a)
         \/ GetRowFails(a) \/ SetFails(a) \/ SetAnswerLost(a)
  PROVE  PrefsInv'
  <1> DEFINE me == asker[a]
  <1>0. me \in AskerRow /\ AskerKnows(a) /\ CacheKnows /\ PrefsTypes /\ \A b \in Askers : AskerKnows(b)
    BY DEF PrefsInv, PrefsTypes
  <1>m. ("model" \in me.todo => me.want \in Models) /\ me.at <= clock
    BY <1>0 DEF AskerKnows
  <1>1. CASE SetPersona(a) \/ GetRowFails(a) \/ SetFails(a)
    <2>1. UNCHANGED <<prefs, cache, clock, chosenModel, leftAt, restored>> /\ me.pc # "idle"
      BY <1>1 DEF SetPersona, GetRowFails, SetFails
    <2>2. \E p \in {"zone", "invalidate", "done"} : AskerAt(a, p)
      BY <1>1 DEF SetPersona, GetRowFails, SetFails
    <2>3. PICK new \in AskerRow : /\ asker' = [asker EXCEPT ![a] = new] /\ new.pc \in {"zone", "invalidate", "done"}
                               /\ new.server = me.server /\ new.todo = me.todo /\ new.want = me.want
                               /\ new.row = me.row /\ new.at = me.at
      BY <2>2, AskerSteps
    <2>4. me.server \in PrefServers
      BY <1>0, <2>1 DEF AskerKnows
    <2> HIDE DEF me
    <2>5. QED
      BY <1>m, <2>1, <2>3, <2>4, OnlyAsker
  <1>2. CASE PutRow(a)
    <2>1. /\ me.pc = "put" /\ UNCHANGED <<prefs, clock, chosenModel, leftAt, restored>>
          /\ cache' = [cache EXCEPT ![me.server] = [row |-> me.row, expires |-> me.at + TTL]]
          /\ AskerAt(a, Loaded(a))
      BY <1>2 DEF PutRow, Expiry
    <2>2. Loaded(a) \in {"zone", "given"}
      BY DEF Loaded
    <2>3. PICK new \in AskerRow : /\ asker' = [asker EXCEPT ![a] = new] /\ asker'[a] = new /\ new.pc = Loaded(a)
                               /\ new.server = me.server /\ new.todo = me.todo /\ new.want = me.want
                               /\ new.row = me.row /\ new.at = me.at
      BY <2>1, <2>2, AskerSteps
    <2>4. me.server \in PrefServers /\ (restored \/ Recent(Choice(me.row), me.at + TTL)) /\ me.at <= clock
      BY <1>0, <2>1 DEF AskerKnows
    <2>5. me.row \in AnyModel /\ me.at \in Nat /\ Choice(me.row) \in Chosen
      BY <1>0, ChoiceChosen DEF AskerRow
    <2>6. restored \/ Recent(Choice(me.row), me.at + 1)
      BY <1>0, <2>4, <2>5, TTLPositive DEF Recent, PrefsTypes
    <2> HIDE DEF me
    <2>7. AskerKnows(a)'
      BY <1>m, <2>1, <2>2, <2>3, <2>4, <2>6 DEF AskerKnows, Recent
    <2>8. asker' \in [Askers -> AskerRow] /\ \A b \in Askers : AskerKnows(b)'
      BY <2>1, <2>3, <2>7, AskerMoves
    <2>9. cache' \in [PrefServers -> [row : AnyModel, expires : Nat]]
      BY <1>0, <2>1, <2>4, <2>5, TTLPositive DEF PrefsTypes
    <2>10. CacheKnows'
      <3>1. ASSUME NEW s \in PrefServers PROVE cache'[s].expires <= clock + TTL /\ (restored \/ Recent(Choice(cache'[s].row), cache'[s].expires))
        <4>1. CASE s = me.server
          <5>1. cache'[s] = [row |-> me.row, expires |-> me.at + TTL]
            BY <1>0, <2>1, <2>4, <4>1 DEF PrefsTypes
          <5>2. QED
            BY <1>0, <2>4, <2>5, <5>1, TTLPositive DEF PrefsTypes
        <4>2. CASE s # me.server
          BY <1>0, <2>1, <4>2 DEF CacheKnows, PrefsTypes
        <4>3. QED
          BY <4>1, <4>2
      <3>2. QED
        BY <2>1, <3>1 DEF CacheKnows, Recent
    <2>11. QED
      BY <1>0, <2>1, <2>8, <2>9, <2>10 DEF PrefsInv, PrefsTypes
  <1>3. CASE SetLLMModel(a) \/ SetAnswerLost(a)
    <2>1. me.pc = "model" /\ Choose(me.want) /\ UNCHANGED <<cache, clock, restored>> /\ \E p \in {"invalidate", "done"} : AskerAt(a, p)
      BY <1>3 DEF SetLLMModel, SetAnswerLost
    <2>2. me.server \in PrefServers /\ me.want \in Models
      BY <1>0, <2>1 DEF AskerKnows
    <2>w. PICK w \in Models : w = me.want
      BY <2>2
    <2>3. PICK new \in AskerRow : /\ asker' = [asker EXCEPT ![a] = new] /\ asker'[a] = new /\ new.pc \in {"invalidate", "done"}
                               /\ new.server = me.server /\ new.todo = me.todo /\ new.want = me.want
                               /\ new.row = me.row /\ new.at = me.at
      BY <2>1, AskerSteps
    <2>4. w \in Chosen /\ Choose(w)
      BY <2>1, <2>w DEF Chosen
    <2>5. asker' \in [Askers -> AskerRow] /\ \A b \in Askers \ {a} : asker'[b] = asker[b]
      BY <1>0, <2>3 DEF PrefsTypes
    <2>6. prefs' \in AnyModel /\ chosenModel' \in Chosen /\ leftAt' \in [Chosen -> Nat] /\ Choice(prefs') = chosenModel'
      BY <1>0, <2>4, <2>w, PreferencesAssumption DEF Choose, PrefsTypes, AnyModel, Chosen, Choice
    <2>7. CacheKnows'
      <3>1. ASSUME NEW s \in PrefServers, ~restored PROVE Recent(Choice(cache[s].row), cache[s].expires)'
        <4>1. cache[s].row \in AnyModel /\ cache[s].expires \in Nat /\ cache[s].expires <= clock + TTL
              /\ Recent(Choice(cache[s].row), cache[s].expires)
          BY <1>0, <3>1 DEF CacheKnows, PrefsTypes
        <4>2. PICK m \in Chosen, t \in Nat : m = Choice(cache[s].row) /\ t = cache[s].expires
          BY <4>1, ChoiceChosen
        <4>3. Recent(m, t)'
          BY <1>0, <2>4, <4>1, <4>2, ChoiceKeepsRecent
        <4>4. QED
          BY <2>1, <4>2, <4>3 DEF Recent
      <3>2. QED
        BY <1>0, <2>1, <3>1 DEF CacheKnows, PrefsTypes
    <2>8. AskerKnows(a)'
      <3> HIDE DEF me
      <3>1. QED
        BY <1>m, <2>1, <2>2, <2>3 DEF AskerKnows
    <2>9. ASSUME NEW b \in Askers \ {a} PROVE AskerKnows(b)'
      <3>1. AskerKnows(b) /\ asker'[b] = asker[b] /\ asker[b] \in AskerRow
        BY <1>0, <2>5 DEF PrefsTypes
      <3>2. PICK m \in Chosen, t \in Nat : m = Choice(asker[b].row) /\ t = asker[b].at
        BY <3>1, ChoiceChosen DEF AskerRow
      <3>3. t <= clock /\ clock \in Nat
        BY <1>0, <3>1, <3>2 DEF AskerKnows, PrefsTypes
      <3>4. Recent(m, t + TTL) => Recent(m, t + TTL)'
        <4>1. t + TTL \in Nat /\ t + TTL <= clock + TTL
          BY <3>3, TTLPositive
        <4>2. QED
          BY <1>0, <2>4, <4>1, ChoiceKeepsRecent DEF Recent
      <3>5. Recent(m, t + 1) => Recent(m, t + 1)'
        <4>1. t + 1 \in Nat /\ t + 1 <= clock + TTL
          BY <3>3, TTLPositive
        <4>2. QED
          BY <1>0, <2>4, <4>1, ChoiceKeepsRecent DEF Recent
      <3>6. QED
        BY <2>1, <3>1, <3>2, <3>4, <3>5 DEF AskerKnows, Recent
    <2>10. QED
      BY <1>0, <2>1, <2>5, <2>6, <2>7, <2>8, <2>9 DEF PrefsInv, PrefsTypes
  <1>4. CASE SetTimezone(a)
    <2>1. /\ me.pc = "zone" /\ AskerAt(a, "invalidate") /\ prefs' = (IF me.row = NoModel THEN Placeholder ELSE me.row)
          /\ restored' = (restored \/ Choice(me.row) # chosenModel)
          /\ UNCHANGED <<cache, clock, chosenModel, leftAt>>
      BY <1>4 DEF SetTimezone
    <2>2. me.server \in PrefServers /\ me.row \in AnyModel
      BY <1>0, <2>1 DEF AskerKnows, AskerRow
    <2>3. PICK new \in AskerRow : /\ asker' = [asker EXCEPT ![a] = new] /\ asker'[a] = new /\ new.pc = "invalidate"
                               /\ new.server = me.server /\ new.todo = me.todo /\ new.want = me.want
                               /\ new.row = me.row /\ new.at = me.at
      BY <2>1, AskerSteps
    <2>4. prefs' \in AnyModel /\ Choice(prefs') = Choice(me.row)
      BY <2>1, <2>2, PreferencesAssumption DEF Choice, AnyModel
    <2>5. restored => restored'
      BY <2>1, Zenon
    <2>6. restored' \/ Choice(prefs') = chosenModel'
      <3>1. CASE Choice(me.row) # chosenModel
        BY <2>1, <3>1, Zenon
      <3>2. CASE Choice(me.row) = chosenModel
        BY <2>1, <2>4, <3>2
      <3>3. QED
        BY <3>1, <3>2
    <2> HIDE DEF me
    <2>7. AskerKnows(a)'
      BY <1>m, <2>1, <2>2, <2>3 DEF AskerKnows
    <2>8. asker' \in [Askers -> AskerRow] /\ \A b \in Askers : AskerKnows(b)'
      BY <2>1, <2>3, <2>5, <2>7, AskerMoves
    <2>9. CacheKnows'
      <3>1. UNCHANGED <<cache, clock, chosenModel, leftAt>>
        BY <2>1
      <3>2. QED
        BY <1>0, <2>5, <3>1 DEF CacheKnows, Recent
    <2>10. PrefsTypes'
      BY <1>0, <2>1, <2>4, <2>8 DEF PrefsTypes
    <2>11. QED
      BY <2>6, <2>8, <2>9, <2>10 DEF PrefsInv
  <1>5. CASE Invalidate(a)
    <2> DEFINE first == IF "persona" \in me.todo THEN {"persona"} ELSE IF "model" \in me.todo THEN {"model"} ELSE {"zone"}
               todo == me.todo \ first
               new == [me EXCEPT !.pc = After(todo), !.todo = todo]
    <2>1. /\ me.pc = "invalidate" /\ Invalidated(me.server) /\ asker' = [asker EXCEPT ![a] = new]
          /\ UNCHANGED <<prefs, clock, chosenModel, leftAt, restored>>
      BY <1>5 DEF Invalidate
    <2>2. me.server \in PrefServers
      BY <1>0, <2>1 DEF AskerKnows
    <2>3. todo \in SUBSET {"persona", "model", "zone"} /\ todo \in SUBSET me.todo
      BY <1>0 DEF AskerRow
    <2>4. After(todo) \in {"persona", "model", "load", "done"} /\ (After(todo) = "model" => "model" \in todo)
      BY DEF After
    <2> HIDE DEF todo
    <2>5. /\ new \in AskerRow /\ new.pc = After(todo) /\ new.server = me.server /\ new.todo = todo /\ new.want = me.want /\ new.at = me.at
      BY <1>0, <2>3, <2>4 DEF AskerRow
    <2> HIDE DEF new, me
    <2>6. asker'[a] = new
      BY <1>0, <2>1 DEF PrefsTypes
    <2>7. AskerKnows(a)'
      BY <1>m, <2>1, <2>2, <2>3, <2>4, <2>5, <2>6 DEF AskerKnows
    <2>8. asker' \in [Askers -> AskerRow] /\ \A b \in Askers : AskerKnows(b)'
      BY <2>1, <2>5, <2>7, AskerMoves
    <2>9. cache' = [cache EXCEPT ![me.server].expires = 0]
      BY <2>1 DEF Invalidated
    <2>10. cache' \in [PrefServers -> [row : AnyModel, expires : Nat]]
      BY <1>0, <2>9 DEF PrefsTypes
    <2>11. CacheKnows'
      <3>1. ASSUME NEW s \in PrefServers PROVE cache'[s].expires <= clock + TTL /\ (restored \/ Recent(Choice(cache'[s].row), cache'[s].expires))
        <4>1. CASE s = me.server
          <5>1. cache'[s].expires = 0 /\ cache'[s].row \in AnyModel
            BY <1>0, <2>9, <4>1 DEF PrefsTypes
          <5>2. Choice(cache'[s].row) \in Chosen
            BY <5>1, ChoiceChosen
          <5>3. QED
            BY <1>0, <5>1, <5>2, TTLPositive DEF PrefsTypes, Recent
        <4>2. CASE s # me.server
          BY <1>0, <2>9, <4>2 DEF CacheKnows, PrefsTypes
        <4>3. QED
          BY <4>1, <4>2
      <3>2. QED
        BY <2>1, <3>1 DEF CacheKnows, Recent
    <2>12. QED
      BY <1>0, <2>1, <2>8, <2>10, <2>11 DEF PrefsInv, PrefsTypes
  <1>6. QED
    BY <1>1, <1>2, <1>3, <1>4, <1>5

\* A turn is answered by the model the user has chosen, or by one left less than
\* the life of a cache entry before the turn began (storage/preferences.go), for
\* any number of servers, requests and models and however long a request takes;
\* unless a timezone was set over another choice.
THEOREM ChosenModelIsRead == PrefsSpec => []ChosenModelAnswers
  <1>1. PrefsInv /\ [PrefsNext]_prefVars => PrefsInv'
    <2>1. ASSUME PrefsInv, UNCHANGED prefVars PROVE PrefsInv'
      BY <2>1 DEF prefVars, PrefsInv, PrefsTypes, CacheKnows, AskerKnows, Recent
    <2>2. ASSUME PrefsInv, Tick PROVE PrefsInv'
      <3>1. clock' = clock + 1 /\ clock \in Nat /\ UNCHANGED <<prefs, cache, asker, chosenModel, leftAt, restored>>
        BY <2>2 DEF Tick, PrefsInv, PrefsTypes
      <3>2. PrefsTypes'
        BY <2>2, <3>1 DEF PrefsInv, PrefsTypes
      <3>3. CacheKnows'
        BY <2>2, <3>1, TTLPositive DEF PrefsInv, PrefsTypes, CacheKnows, Recent
      <3>4. ASSUME NEW a \in Askers PROVE AskerKnows(a)'
        <4>1. AskerKnows(a) /\ asker[a].at \in Nat
          BY <2>2 DEF PrefsInv, PrefsTypes, AskerRow
        <4>2. QED
          BY <3>1, <4>1 DEF AskerKnows, Recent
      <3>5. QED
        BY <2>2, <3>1, <3>2, <3>3, <3>4 DEF PrefsInv
    <2>3. QED
      BY <2>1, <2>2, ReadsKeep, WritesKeep DEF PrefsNext
  <1>2. PrefsInv => ChosenModelAnswers
    <2> SUFFICES ASSUME PrefsInv, NEW a \in Askers, asker[a].pc = "given", ~restored
                 PROVE  Choice(asker[a].row) = chosenModel \/ leftAt[Choice(asker[a].row)] + TTL > asker[a].at
      BY DEF ChosenModelAnswers
    <2>1. Recent(Choice(asker[a].row), asker[a].at + 1) /\ asker[a] \in AskerRow
      BY DEF PrefsInv, PrefsTypes, AskerKnows
    <2>2. Choice(asker[a].row) \in Chosen /\ asker[a].at \in Nat
      BY <2>1, ChoiceChosen DEF AskerRow
    <2>3. QED
      BY <2>1, <2>2, TTLPositive DEF Recent, PrefsInv, PrefsTypes
  <1>3. QED
    BY <1>1, <1>2, PrefsInitially, PTL DEF PrefsSpec

-----------------------------------------------------------------------------
(* AccountExport.  Of what the user had when an export began and still has,   *)
(* the tables read so far are in it; of the conversations gone through their *)
(* turns and audio, and of the sources their files.                         *)

ExportRow ==
  [pc : {"idle", "limited", "read", "turns", "audio", "assets", "manifest", "sent", "failed"}, section : 1..9,
   todo : SUBSET Things, of : Things \cup {"none"},
   entries : SUBSET Holdings, since : SUBSET Holdings, skipped : SUBSET Holdings]

Has(e, h) == h \in e.since => h \in e.entries \/ h \in e.skipped

TablesRead(e) ==
  \A n \in 1..9 :
    e.pc \in {"manifest", "sent"} \/ n < e.section \/ (n = e.section /\ e.pc \in {"turns", "audio", "assets"})
      => \A c \in Things : Has(e, <<Sections[n], c>>)

TurnsRead(e) ==
  e.section > 3 \/ e.pc \in {"turns", "audio"} =>
    \A c \in Things : <<"conversations", c>> \in e.since =>
      \/ e.pc \in {"turns", "audio"} /\ c \in e.todo
      \/ /\ Has(e, <<"turns", c>>)
         /\ (e.pc = "audio" /\ e.of = c) \/ (<<"turns", c>> \in e.since => Has(e, <<"audio", c>>))

FilesRead(e) ==
  e.section > 4 \/ e.pc = "assets" =>
    \A c \in Things : <<"sources", c>> \in e.since => (e.pc = "assets" /\ c \in e.todo) \/ Has(e, <<"assets", c>>)

InPlace(e) ==
  /\ e.pc = "idle" => e.section = 1
  /\ e.pc \in {"turns", "audio"} => e.section = 3
  /\ e.pc = "assets" => e.section = 4
  /\ e.pc \in {"manifest", "sent"} => e.section >= 8
  /\ e.pc = "audio" => e.of \in Things

WholeSoFar(e) ==
  /\ e \in ExportRow /\ e.since \in SUBSET held /\ InPlace(e)
  /\ e.pc \notin {"idle", "limited", "failed"} => TablesRead(e) /\ TurnsRead(e) /\ FilesRead(e)

ExportInv ==
  /\ held \in SUBSET Holdings /\ export \in [ExportCalls -> ExportRow]
  /\ \A x \in ExportCalls : WholeSoFar(export[x])

LEMMA SectionNames ==
  /\ \A n \in 1..9 : /\ Sections[n] = "conversations" <=> n = 3
                     /\ Sections[n] = "sources" <=> n = 4
                     /\ Sections[n] = "connections" <=> n = 8
                     /\ Sections[n] = "items" <=> n = 9
                     /\ Sections[n] \notin {"turns", "audio", "assets"}
  /\ \A n \in 1..9, c \in Things : <<Sections[n], c>> \in Holdings
  /\ \A c \in Things : <<"turns", c>> \in Holdings /\ <<"audio", c>> \in Holdings /\ <<"assets", c>> \in Holdings
  <1>1. /\ Sections[1] = "profile" /\ Sections[2] = "preferences" /\ Sections[3] = "conversations" /\ Sections[4] = "sources"
        /\ Sections[5] = "notes" /\ Sections[6] = "facts" /\ Sections[7] = "log" /\ Sections[8] = "connections" /\ Sections[9] = "items"
    BY DEF Sections
  <1>2. \A n \in 1..9 : n \in {1, 2, 3, 4, 5, 6, 7, 8, 9}
    OBVIOUS
  <1>3. \A n \in 1..9 :
          /\ Sections[n] = "conversations" <=> n = 3
          /\ Sections[n] = "sources" <=> n = 4
          /\ Sections[n] = "connections" <=> n = 8
          /\ Sections[n] = "items" <=> n = 9
          /\ Sections[n] \notin {"turns", "audio", "assets"}
    <2> TAKE n \in 1..9
    <2>1. n = 1 \/ n = 2 \/ n = 3 \/ n = 4 \/ n = 5 \/ n = 6 \/ n = 7 \/ n = 8 \/ n = 9
      OBVIOUS
    <2>2. CASE n \in {1, 2, 5, 6, 7}
      BY <1>1, <2>2
    <2>3. CASE n = 3
      BY <1>1, <2>3
    <2>4. CASE n = 4
      BY <1>1, <2>4
    <2>5. CASE n = 8
      BY <1>1, <2>5
    <2>6. CASE n = 9
      BY <1>1, <2>6
    <2>7. QED
      BY <2>1, <2>2, <2>3, <2>4, <2>5, <2>6
  <1>4. ASSUME NEW n \in 1..9, NEW c \in Things PROVE <<Sections[n], c>> \in Holdings
    BY DEF Holdings
  <1>5. \A c \in Things : <<"turns", c>> \in Holdings /\ <<"audio", c>> \in Holdings /\ <<"assets", c>> \in Holdings
    BY DEF Holdings
  <1>6. QED
    BY <1>3, <1>4, <1>5

\* One export moves; what the user has stays.
LEMMA ExportMoves ==
  ASSUME ExportInv, NEW x \in ExportCalls, NEW new, export' = [export EXCEPT ![x] = new], WholeSoFar(new), UNCHANGED held
  PROVE  ExportInv'
  <1>1. export'[x] = new /\ \A y \in ExportCalls \ {x} : export'[y] = export[y]
    BY DEF ExportInv
  <1>2. new \in ExportRow
    BY DEF WholeSoFar
  <1>3. export' \in [ExportCalls -> ExportRow]
    BY <1>2 DEF ExportInv
  <1>4. \A y \in ExportCalls : WholeSoFar(export'[y])
    BY <1>1 DEF ExportInv
  <1>5. QED
    BY <1>3, <1>4 DEF ExportInv, WholeSoFar

\* What is done with a section: the next is read, or the manifest written.
LEMMA OnwardWhole ==
  ASSUME NEW e, WholeSoFar(e), e.pc \in {"read", "turns", "assets"},
         e.pc \in {"turns", "assets"} => e.todo = {},
         e.pc = "read" => e.section \notin {3, 4} /\ \A c \in Things : Has(e, <<Sections[e.section], c>>)
  PROVE  WholeSoFar(Onward(e))
  <1>0. e \in ExportRow /\ e.section \in 1..9 /\ TablesRead(e) /\ TurnsRead(e) /\ FilesRead(e) /\ InPlace(e) /\ e.since \in SUBSET held
    BY DEF WholeSoFar, ExportRow
  <1>1. \A c \in Things : Has(e, <<Sections[e.section], c>>)
    BY <1>0 DEF TablesRead
  <1>2. CASE Sections[e.section] = "items"
    <2> DEFINE new == [e EXCEPT !.pc = "manifest"]
    <2>1. Onward(e) = new /\ e.section = 9 /\ e.pc = "read"
      BY <1>0, <1>2, SectionNames DEF Onward, InPlace
    <2>2. /\ new \in ExportRow /\ new.pc = "manifest" /\ new.section = 9 /\ new.since = e.since
          /\ new.entries = e.entries /\ new.skipped = e.skipped
      BY <1>0, <2>1 DEF ExportRow
    <2> HIDE DEF new
    <2>3. TablesRead(new)
      BY <1>0, <1>1, <2>1, <2>2 DEF TablesRead, Has
    <2>4. TurnsRead(new) /\ FilesRead(new)
      BY <1>0, <2>1, <2>2 DEF TurnsRead, FilesRead, Has
    <2>5. QED
      BY <1>0, <2>1, <2>2, <2>3, <2>4 DEF WholeSoFar, InPlace
  <1>3. CASE Sections[e.section] # "items"
    <2> DEFINE new == [e EXCEPT !.pc = "read", !.section = @ + 1]
    <2>1. Onward(e) = new /\ e.section \in 1..8
      BY <1>0, <1>3, SectionNames DEF Onward
    <2>0. e.section + 1 \in 1..9
      BY <2>1
    <2>2. /\ new \in ExportRow /\ new.pc = "read" /\ new.section = e.section + 1 /\ new.since = e.since
          /\ new.entries = e.entries /\ new.skipped = e.skipped
      BY <1>0, <2>0 DEF ExportRow
    <2> HIDE DEF new
    <2>3. TablesRead(new)
      BY <1>0, <1>1, <2>1, <2>2 DEF TablesRead, Has
    <2>4. TurnsRead(new)
      BY <1>0, <2>1, <2>2 DEF TurnsRead, Has, InPlace
    <2>5. FilesRead(new)
      BY <1>0, <2>1, <2>2 DEF FilesRead, Has, InPlace
    <2>6. QED
      BY <1>0, <2>1, <2>2, <2>3, <2>4, <2>5 DEF WholeSoFar, InPlace
  <1>4. QED
    BY <1>2, <1>3

\* A row of the export of x and what is true of it.
LEMMA RowOf ==
  ASSUME ExportInv, NEW x \in ExportCalls
  PROVE  /\ export[x] \in ExportRow /\ WholeSoFar(export[x]) /\ InPlace(export[x]) /\ export[x].since \in SUBSET held
         /\ held \in SUBSET Holdings
         /\ export[x].pc \notin {"idle", "limited", "failed"} =>
              TablesRead(export[x]) /\ TurnsRead(export[x]) /\ FilesRead(export[x])
  BY DEF ExportInv, WholeSoFar

LEMMA ReadsWhole ==
  ASSUME ExportInv, NEW x \in ExportCalls, ReadSection(x)
  PROVE  ExportInv'
  <1> DEFINE e == export[x]
             mine == Listing(Section(x))
             read == [e EXCEPT !.entries = @ \cup mine]
             ids == {h[2] : h \in mine}
  <1>0. /\ e \in ExportRow /\ e.section \in 1..9 /\ e.pc = "read" /\ InPlace(e) /\ e.since \in SUBSET held
        /\ held \in SUBSET Holdings /\ TablesRead(e) /\ TurnsRead(e) /\ FilesRead(e)
    BY RowOf DEF ReadSection, ExportRow
  <1>1. mine \in SUBSET Holdings /\ \A h \in mine : h \in held /\ h[1] = Sections[e.section]
    BY <1>0 DEF Listing, Section
  <1>2. \A c \in Things : <<Sections[e.section], c>> \in held => <<Sections[e.section], c>> \in mine
    BY DEF Listing, Section
  <1>3. ids \in SUBSET Things
    BY <1>1 DEF Holdings
  <1>4. \A c \in Things : <<Sections[e.section], c>> \in held => c \in ids
    <2> SUFFICES ASSUME NEW c \in Things, <<Sections[e.section], c>> \in held PROVE c \in ids
      OBVIOUS
    <2>1. <<Sections[e.section], c>> \in mine /\ <<Sections[e.section], c>>[2] = c
      BY <1>2
    <2> HIDE DEF mine
    <2>2. QED
      BY <2>1
  <1>5. export' = [export EXCEPT ![x] =
           CASE Section(x) = "conversations" -> [read EXCEPT !.pc = "turns", !.todo = ids]
             [] Section(x) = "sources" -> [read EXCEPT !.pc = "assets", !.todo = ids]
             [] OTHER -> Onward(read)] /\ UNCHANGED held
    BY DEF ReadSection
  <1> HIDE DEF mine, ids
  <1>6. /\ read \in ExportRow /\ read.pc = "read" /\ read.section = e.section /\ read.since = e.since
        /\ read.entries = e.entries \cup mine /\ read.skipped = e.skipped
    BY <1>0, <1>1 DEF ExportRow
  <1> HIDE DEF read
  <1>7. \A c \in Things : Has(read, <<Sections[e.section], c>>)
    BY <1>0, <1>2, <1>6 DEF Has
  <1>8. TablesRead(read) /\ TurnsRead(read) /\ FilesRead(read) /\ InPlace(read) /\ read.since \in SUBSET held
    <2>1. TablesRead(read)
      BY <1>0, <1>6 DEF TablesRead, Has
    <2>2. TurnsRead(read)
      BY <1>0, <1>6 DEF TurnsRead, Has
    <2>3. FilesRead(read)
      BY <1>0, <1>6 DEF FilesRead, Has
    <2>4. QED
      BY <1>0, <1>6, <2>1, <2>2, <2>3 DEF InPlace
  <1>9. CASE e.section = 3
    <2> DEFINE new == [read EXCEPT !.pc = "turns", !.todo = ids]
    <2>1. export' = [export EXCEPT ![x] = new]
      BY <1>5, <1>0, <1>9, SectionNames DEF Section
    <2>2. /\ new \in ExportRow /\ new.pc = "turns" /\ new.todo = ids /\ new.section = 3 /\ new.since = e.since
          /\ new.entries = read.entries /\ new.skipped = e.skipped
      BY <1>3, <1>6, <1>9 DEF ExportRow
    <2> HIDE DEF new
    <2>3. TablesRead(new)
      BY <1>6, <1>7, <1>8, <1>9, <2>2 DEF TablesRead, Has
    <2>4. TurnsRead(new)
      BY <1>0, <1>4, <1>9, <2>2, SectionNames DEF TurnsRead
    <2>5. FilesRead(new) /\ InPlace(new)
      BY <2>2 DEF FilesRead, InPlace
    <2>6. QED
      BY <1>0, <1>5, <2>1, <2>2, <2>3, <2>4, <2>5, ExportMoves DEF WholeSoFar
  <1>10. CASE e.section = 4
    <2> DEFINE new == [read EXCEPT !.pc = "assets", !.todo = ids]
    <2>1. export' = [export EXCEPT ![x] = new]
      BY <1>5, <1>0, <1>10, SectionNames DEF Section
    <2>2. /\ new \in ExportRow /\ new.pc = "assets" /\ new.todo = ids /\ new.section = 4 /\ new.since = e.since
          /\ new.entries = read.entries /\ new.skipped = e.skipped
      BY <1>3, <1>6, <1>10 DEF ExportRow
    <2> HIDE DEF new
    <2>3. TablesRead(new)
      BY <1>6, <1>7, <1>8, <1>10, <2>2 DEF TablesRead, Has
    <2>4. FilesRead(new) /\ InPlace(new)
      BY <1>0, <1>4, <1>10, <2>2, SectionNames DEF FilesRead, InPlace
    <2>5. TurnsRead(new)
      BY <1>6, <1>8, <1>10, <2>2 DEF TurnsRead, Has
    <2>6. QED
      BY <1>0, <1>5, <2>1, <2>2, <2>3, <2>4, <2>5, ExportMoves DEF WholeSoFar
  <1>11. CASE e.section \notin {3, 4}
    <2>1. export' = [export EXCEPT ![x] = Onward(read)]
      BY <1>5, <1>0, <1>11, SectionNames DEF Section
    <2>2. WholeSoFar(read)
      BY <1>6, <1>8 DEF WholeSoFar
    <2>3. WholeSoFar(Onward(read))
      BY <1>6, <1>7, <1>11, <2>2, OnwardWhole
    <2>4. QED
      BY <1>5, <2>1, <2>3, ExportMoves
  <1>12. QED
    BY <1>9, <1>10, <1>11

LEMMA TurnsWhole ==
  ASSUME ExportInv, NEW x \in ExportCalls, ReadTurns(x) \/ DownloadAudio(x) \/ DownloadAsset(x) \/ DownloadFails(x)
  PROVE  ExportInv'
  <1> DEFINE e == export[x]
  <1>0. /\ e \in ExportRow /\ e.pc \in {"turns", "audio", "assets"} /\ InPlace(e) /\ e.since \in SUBSET held
        /\ held \in SUBSET Holdings /\ TablesRead(e) /\ TurnsRead(e) /\ FilesRead(e) /\ UNCHANGED held
    BY RowOf DEF ReadTurns, DownloadAudio, DownloadAsset, DownloadFails
  <1>1. CASE ReadTurns(x)
    <2>1. PICK c \in e.todo :
            export' = [export EXCEPT ![x] = [e EXCEPT !.entries = @ \cup Found("turns", c), !.todo = @ \ {c}, !.of = c,
                                                     !.pc = IF Found("turns", c) = {} THEN "turns" ELSE "audio"]]
      BY <1>1 DEF ReadTurns
    <2> DEFINE p == IF Found("turns", c) = {} THEN "turns" ELSE "audio"
               new == [e EXCEPT !.entries = @ \cup Found("turns", c), !.todo = @ \ {c}, !.of = c, !.pc = p]
    <2>2. export' = [export EXCEPT ![x] = new]
      BY <2>1
    <2>3. e.pc = "turns" /\ c \in Things /\ e.section = 3
      BY <1>0, <1>1 DEF ReadTurns, ExportRow, InPlace
    <2>4. /\ Found("turns", c) \in SUBSET Holdings
          /\ <<"turns", c>> \in held => <<"turns", c>> \in Found("turns", c)
          /\ p = "turns" => <<"turns", c>> \notin held
          /\ p \in {"turns", "audio"}
      BY <1>0 DEF Found
    <2> HIDE DEF p
    <2>5. /\ new \in ExportRow /\ new.pc = p /\ new.todo = e.todo \ {c} /\ new.of = c /\ new.section = 3
          /\ new.since = e.since /\ new.entries = e.entries \cup Found("turns", c) /\ new.skipped = e.skipped
      BY <1>0, <2>3, <2>4 DEF ExportRow
    <2> HIDE DEF new
    <2>6. TablesRead(new)
      BY <1>0, <2>3, <2>4, <2>5 DEF TablesRead, Has
    <2>7. TurnsRead(new)
      <3>1. ASSUME NEW d \in Things, <<"conversations", d>> \in e.since
            PROVE  \/ d \in new.todo
                   \/ /\ Has(new, <<"turns", d>>)
                      /\ (p = "audio" /\ new.of = d) \/ (<<"turns", d>> \in e.since => Has(new, <<"audio", d>>))
        <4>1. CASE d = c
          BY <1>0, <2>4, <2>5, <4>1 DEF Has
        <4>2. CASE d # c
          BY <1>0, <2>3, <2>5, <3>1, <4>2 DEF TurnsRead, Has
        <4>3. QED
          BY <4>1, <4>2
      <3>2. QED
        BY <2>4, <2>5, <3>1 DEF TurnsRead
    <2>8. FilesRead(new) /\ InPlace(new)
      BY <2>3, <2>4, <2>5 DEF FilesRead, InPlace
    <2>9. QED
      BY <1>0, <2>2, <2>5, <2>6, <2>7, <2>8, ExportMoves DEF WholeSoFar
  <1>2. ASSUME e.pc = "audio",
               NEW more \in SUBSET Holdings, NEW less \in SUBSET Holdings,
               <<"audio", e.of>> \in held => <<"audio", e.of>> \in more \cup less,
               NEW new, export' = [export EXCEPT ![x] = new],
               new \in ExportRow, new.pc = "turns", new.todo = e.todo, new.section = e.section, new.since = e.since,
               new.entries = e.entries \cup more, new.skipped = e.skipped \cup less
        PROVE  ExportInv'
    <2>1. e.section = 3 /\ e.of \in Things
      BY <1>0, <1>2 DEF InPlace
    <2>2. TablesRead(new)
      BY <1>0, <1>2, <2>1 DEF TablesRead, Has
    <2>3. TurnsRead(new)
      BY <1>0, <1>2, <2>1 DEF TurnsRead, Has
    <2>4. FilesRead(new) /\ InPlace(new)
      BY <1>2, <2>1 DEF FilesRead, InPlace
    <2>5. QED
      BY <1>0, <1>2, <2>2, <2>3, <2>4, ExportMoves DEF WholeSoFar
  <1>3. ASSUME e.pc = "assets", NEW s \in e.todo,
               NEW more \in SUBSET Holdings, NEW less \in SUBSET Holdings,
               <<"assets", s>> \in held => <<"assets", s>> \in more \cup less,
               NEW new, export' = [export EXCEPT ![x] = new],
               new \in ExportRow, new.pc = "assets", new.todo = e.todo \ {s}, new.section = e.section, new.since = e.since,
               new.entries = e.entries \cup more, new.skipped = e.skipped \cup less
        PROVE  ExportInv'
    <2>1. e.section = 4
      BY <1>0, <1>3 DEF InPlace
    <2>2. TablesRead(new)
      BY <1>0, <1>3, <2>1 DEF TablesRead, Has
    <2>3. TurnsRead(new)
      BY <1>0, <1>3, <2>1 DEF TurnsRead, Has
    <2>4. FilesRead(new) /\ InPlace(new)
      BY <1>0, <1>3, <2>1 DEF FilesRead, InPlace, Has
    <2>5. QED
      BY <1>0, <1>3, <2>2, <2>3, <2>4, ExportMoves DEF WholeSoFar
  <1>4. CASE DownloadAudio(x)
    <2> DEFINE file == Found("audio", e.of)
               new == [e EXCEPT !.pc = "turns", !.entries = @ \cup file]
    <2>1. e.pc = "audio" /\ export' = [export EXCEPT ![x] = new]
      BY <1>4 DEF DownloadAudio, WithFile
    <2>2. file \in SUBSET Holdings /\ (<<"audio", e.of>> \in held => <<"audio", e.of>> \in file)
      BY <1>0 DEF Found
    <2> HIDE DEF file
    <2>3. /\ new \in ExportRow /\ new.pc = "turns" /\ new.todo = e.todo /\ new.section = e.section
          /\ new.since = e.since /\ new.entries = e.entries \cup file /\ new.skipped = e.skipped \cup {}
      BY <1>0, <2>2 DEF ExportRow
    <2> HIDE DEF new
    <2>4. QED
      BY <1>2, <2>1, <2>2, <2>3
  <1>5. CASE DownloadAsset(x)
    <2>0. PICK s \in e.todo : export' = [export EXCEPT ![x] = [e EXCEPT !.entries = @ \cup Found("assets", s), !.todo = @ \ {s}]]
      BY <1>5 DEF DownloadAsset
    <2> DEFINE file == Found("assets", s)
               new == [e EXCEPT !.entries = @ \cup file, !.todo = @ \ {s}]
    <2>1. e.pc = "assets" /\ export' = [export EXCEPT ![x] = new]
      BY <1>5, <2>0 DEF DownloadAsset
    <2>2. file \in SUBSET Holdings /\ (<<"assets", s>> \in held => <<"assets", s>> \in file)
      BY <1>0 DEF Found
    <2> HIDE DEF file
    <2>3. /\ new \in ExportRow /\ new.pc = "assets" /\ new.todo = e.todo \ {s} /\ new.section = e.section
          /\ new.since = e.since /\ new.entries = e.entries \cup file /\ new.skipped = e.skipped \cup {}
      BY <1>0, <2>1, <2>2 DEF ExportRow
    <2> HIDE DEF new
    <2>4. QED
      BY <1>3, <2>1, <2>2, <2>3
  <1>6. CASE DownloadFails(x)
    <2>1. CASE /\ e.pc = "audio"
               /\ export' = [export EXCEPT ![x] = [e EXCEPT !.pc = "turns", !.skipped = @ \cup {<<"audio", e.of>>}]]
      <3> DEFINE new == [e EXCEPT !.pc = "turns", !.skipped = @ \cup {<<"audio", e.of>>}]
      <3>1. export' = [export EXCEPT ![x] = new]
        BY <2>1
      <3>2. {<<"audio", e.of>>} \in SUBSET Holdings
        BY <1>0, <2>1, SectionNames DEF InPlace
      <3>3. /\ new \in ExportRow /\ new.pc = "turns" /\ new.todo = e.todo /\ new.section = e.section
            /\ new.since = e.since /\ new.entries = e.entries \cup {} /\ new.skipped = e.skipped \cup {<<"audio", e.of>>}
        BY <1>0, <3>2 DEF ExportRow
      <3> HIDE DEF new
      <3>4. QED
        BY <1>2, <2>1, <3>1, <3>2, <3>3
    <2>2. CASE /\ e.pc = "assets"
               /\ \E s \in e.todo :
                    export' = [export EXCEPT ![x] = [e EXCEPT !.todo = @ \ {s}, !.skipped = @ \cup {<<"assets", s>>}]]
      <3>0. PICK s \in e.todo : export' = [export EXCEPT ![x] = [e EXCEPT !.todo = @ \ {s}, !.skipped = @ \cup {<<"assets", s>>}]]
        BY <2>2
      <3> DEFINE new == [e EXCEPT !.todo = @ \ {s}, !.skipped = @ \cup {<<"assets", s>>}]
      <3>1. export' = [export EXCEPT ![x] = new]
        BY <3>0
      <3>2. {<<"assets", s>>} \in SUBSET Holdings
        BY <1>0, SectionNames DEF ExportRow
      <3>3. /\ new \in ExportRow /\ new.pc = "assets" /\ new.todo = e.todo \ {s} /\ new.section = e.section
            /\ new.since = e.since /\ new.entries = e.entries \cup {} /\ new.skipped = e.skipped \cup {<<"assets", s>>}
        BY <1>0, <2>2, <3>2 DEF ExportRow
      <3> HIDE DEF new
      <3>4. QED
        BY <1>3, <2>2, <3>1, <3>2, <3>3
    <2>3. QED
      BY <1>6, <2>1, <2>2 DEF DownloadFails
  <1>7. QED
    BY <1>1, <1>4, <1>5, <1>6

LEMMA OthersWhole ==
  ASSUME ExportInv, NEW x \in ExportCalls,
         StartExport(x) \/ NoneLeft(x) \/ WriteManifest(x) \/ ExportFails(x) \/ IntegrationsSkipped(x)
  PROVE  ExportInv'
  <1> DEFINE e == export[x]
  <1>0. /\ e \in ExportRow /\ WholeSoFar(e) /\ InPlace(e) /\ e.since \in SUBSET held /\ held \in SUBSET Holdings
        /\ e.pc \notin {"idle", "limited", "failed"} => TablesRead(e) /\ TurnsRead(e) /\ FilesRead(e)
    BY RowOf
  <1>u. UNCHANGED held
    BY DEF StartExport, NoneLeft, WriteManifest, ExportFails, IntegrationsSkipped
  <1>1. CASE StartExport(x)
    <2>1. CASE export' = [export EXCEPT ![x] = [e EXCEPT !.pc = "limited"]]
      <3> DEFINE new == [e EXCEPT !.pc = "limited"]
      <3>1. export' = [export EXCEPT ![x] = new]
        BY <2>1
      <3>2. new \in ExportRow /\ new.pc = "limited" /\ new.since = e.since
        BY <1>0 DEF ExportRow
      <3> HIDE DEF new
      <3>3. WholeSoFar(new)
        BY <1>0, <3>2 DEF WholeSoFar, InPlace
      <3>4. QED
        BY <1>u, <3>1, <3>3, ExportMoves
    <2>2. CASE /\ e.pc = "idle" /\ e.section = 1
               /\ export' = [export EXCEPT ![x] = [e EXCEPT !.pc = "read", !.since = held]]
      <3> DEFINE new == [e EXCEPT !.pc = "read", !.since = held]
      <3>1. export' = [export EXCEPT ![x] = new]
        BY <2>2
      <3>2. new \in ExportRow /\ new.pc = "read" /\ new.since = held /\ new.section = 1
        BY <1>0, <2>2 DEF ExportRow
      <3> HIDE DEF new
      <3>3. WholeSoFar(new)
        BY <1>0, <3>2 DEF WholeSoFar, InPlace, TablesRead, TurnsRead, FilesRead
      <3>4. QED
        BY <1>u, <3>1, <3>3, ExportMoves
    <2>3. QED
      BY <1>0, <1>1, <2>1, <2>2 DEF StartExport, InPlace
  <1>2. CASE NoneLeft(x)
    BY <1>0, <1>u, <1>2, OnwardWhole, ExportMoves DEF NoneLeft
  <1>3. CASE WriteManifest(x)
    <2> DEFINE new == [e EXCEPT !.pc = "sent"]
    <2>1. export' = [export EXCEPT ![x] = new] /\ e.pc = "manifest"
      BY <1>3 DEF WriteManifest
    <2>2. /\ new \in ExportRow /\ new.pc = "sent" /\ new.since = e.since /\ new.section = e.section
          /\ new.entries = e.entries /\ new.skipped = e.skipped
      BY <1>0 DEF ExportRow
    <2> HIDE DEF new
    <2>3. TablesRead(new) /\ TurnsRead(new) /\ FilesRead(new) /\ InPlace(new)
      BY <1>0, <2>1, <2>2 DEF TablesRead, TurnsRead, FilesRead, Has, InPlace
    <2>4. QED
      BY <1>0, <1>u, <2>1, <2>2, <2>3, ExportMoves DEF WholeSoFar
  <1>4. CASE ExportFails(x)
    <2> DEFINE new == [e EXCEPT !.pc = "failed"]
    <2>1. export' = [export EXCEPT ![x] = new]
      BY <1>4 DEF ExportFails, AfterExportFailure
    <2>2. new \in ExportRow /\ new.pc = "failed" /\ new.since = e.since
      BY <1>0 DEF ExportRow
    <2> HIDE DEF new
    <2>3. WholeSoFar(new)
      BY <1>0, <2>2 DEF WholeSoFar, InPlace
    <2>4. QED
      BY <1>u, <2>1, <2>3, ExportMoves
  <1>5. CASE IntegrationsSkipped(x)
    <2> DEFINE less == {"items", Section(x)} \X Things
               new == [e EXCEPT !.pc = "manifest", !.skipped = @ \cup less]
    <2>1. export' = [export EXCEPT ![x] = new] /\ e.pc = "read" /\ Section(x) \in {"connections", "items"}
      BY <1>5 DEF IntegrationsSkipped
    <2>2. e.section \in {8, 9} /\ Section(x) = Sections[e.section]
      BY <1>0, <2>1, SectionNames DEF Section, ExportRow
    <2>3. Sections[9] = "items"
      BY SectionNames
    <2>4. less \in SUBSET Holdings
      BY <2>2, <2>3, SectionNames DEF Holdings
    <2>5. \A c \in Things : <<Sections[e.section], c>> \in less /\ <<Sections[9], c>> \in less
      BY <2>2, <2>3
    <2> HIDE DEF less
    <2>6. /\ new \in ExportRow /\ new.pc = "manifest" /\ new.since = e.since /\ new.section = e.section
          /\ new.entries = e.entries /\ new.skipped = e.skipped \cup less
      BY <1>0, <2>4 DEF ExportRow
    <2> HIDE DEF new
    <2>7. TablesRead(new)
      <3>1. ASSUME NEW n \in 1..9, NEW c \in Things PROVE Has(new, <<Sections[n], c>>)
        <4>1. CASE n < e.section
          BY <1>0, <2>1, <2>6, <4>1 DEF TablesRead, Has
        <4>2. CASE n = e.section \/ n = 9
          BY <2>5, <2>6, <4>2 DEF Has
        <4>3. QED
          BY <2>2, <4>1, <4>2
      <3>2. QED
        BY <3>1 DEF TablesRead
    <2>8. TurnsRead(new) /\ FilesRead(new) /\ InPlace(new)
      BY <1>0, <2>1, <2>2, <2>6 DEF TurnsRead, FilesRead, Has, InPlace
    <2>9. QED
      BY <1>0, <1>u, <2>1, <2>6, <2>7, <2>8, ExportMoves DEF WholeSoFar
  <1>6. QED
    BY <1>1, <1>2, <1>3, <1>4, <1>5

LEMMA HoldingsChange ==
  ASSUME ExportInv, AddHolding \/ RemoveHolding
  PROVE  ExportInv'
  <1>1. CASE AddHolding
    <2>1. held' \in SUBSET Holdings /\ held \subseteq held' /\ export' = export
      BY <1>1 DEF AddHolding, ExportInv
    <2>2. \A x \in ExportCalls : export[x].since \in SUBSET held'
      BY <2>1, RowOf
    <2>3. QED
      BY <2>1, <2>2 DEF ExportInv, WholeSoFar
  <1>2. CASE RemoveHolding
    <2>1. PICK h \in held : /\ held' = held \ With(h)
                            /\ export' = [x \in ExportCalls |-> [export[x] EXCEPT !.since = @ \ With(h)]]
      BY <1>2 DEF RemoveHolding
    <2> DEFINE kept(x) == [export[x] EXCEPT !.since = @ \ With(h)]
    <2>2. ASSUME NEW x \in ExportCalls
          PROVE  WholeSoFar(export[x])'
      <3> DEFINE e == export[x]
                 gone == With(h)
                 new == [e EXCEPT !.since = @ \ gone]
      <3>1. export'[x] = new /\ held' = held \ gone
        BY <2>1
      <3>2. /\ e \in ExportRow /\ InPlace(e) /\ e.since \in SUBSET held /\ held \in SUBSET Holdings
            /\ e.pc \notin {"idle", "limited", "failed"} => TablesRead(e) /\ TurnsRead(e) /\ FilesRead(e)
        BY RowOf
      <3> HIDE DEF gone
      <3>3. /\ new \in ExportRow /\ new.pc = e.pc /\ new.section = e.section /\ new.todo = e.todo /\ new.of = e.of
            /\ new.entries = e.entries /\ new.skipped = e.skipped /\ new.since = e.since \ gone
        BY <3>2 DEF ExportRow
      <3> HIDE DEF new
      <3>4. InPlace(new) /\ new.since \in SUBSET held'
        BY <3>1, <3>2, <3>3 DEF InPlace
      <3>5. ASSUME e.pc \notin {"idle", "limited", "failed"}
            PROVE  TablesRead(new) /\ TurnsRead(new) /\ FilesRead(new)
        <4>1. TablesRead(new)
          BY <3>2, <3>3, <3>5 DEF TablesRead, Has
        <4>2. TurnsRead(new)
          BY <3>2, <3>3, <3>5 DEF TurnsRead, Has
        <4>3. FilesRead(new)
          BY <3>2, <3>3, <3>5 DEF FilesRead, Has
        <4>4. QED
          BY <4>1, <4>2, <4>3
      <3>6. QED
        BY <3>1, <3>3, <3>4, <3>5 DEF WholeSoFar
    <2>3. held' \in SUBSET Holdings
      BY <2>1 DEF ExportInv
    <2>4. \A x \in ExportCalls : export'[x] \in ExportRow
      BY <2>2 DEF WholeSoFar
    <2>5. export' = [x \in ExportCalls |-> export'[x]]
      <3>1. export' = [x \in ExportCalls |-> kept(x)]
        BY <2>1
      <3> HIDE DEF kept
      <3>2. QED
        BY <3>1
    <2>6. export' \in [ExportCalls -> ExportRow]
      BY <2>4, <2>5
    <2>7. QED
      BY <2>2, <2>3, <2>6 DEF ExportInv
  <1>3. QED
    BY <1>1, <1>2

LEMMA ExportStarts == ExportInit => ExportInv
  <1> SUFFICES ASSUME ExportInit PROVE ExportInv
    OBVIOUS
  <1>1. /\ NoExport \in ExportRow /\ NoExport.pc = "idle" /\ NoExport.section = 1 /\ NoExport.since = {}
    BY DEF NoExport, ExportRow
  <1>2. export = [x \in ExportCalls |-> NoExport] /\ held = Holdings
    BY DEF ExportInit
  <1>3. WholeSoFar(NoExport)
    BY <1>1 DEF WholeSoFar, InPlace
  <1>4. QED
    BY <1>1, <1>2, <1>3 DEF ExportInv

LEMMA ExportSteps == ExportInv /\ [ExportNext]_exportVars => ExportInv'
  <1> SUFFICES ASSUME ExportInv, [ExportNext]_exportVars PROVE ExportInv'
    OBVIOUS
  <1>1. CASE UNCHANGED exportVars \/ LimitEnds
    <2>1. UNCHANGED <<held, export>>
      BY <1>1 DEF exportVars, LimitEnds
    <2>2. QED
      BY <2>1 DEF ExportInv, WholeSoFar
  <1>2. CASE AddHolding \/ RemoveHolding
    BY <1>2, HoldingsChange
  <1>3. CASE \E x \in ExportCalls :
               StartExport(x) \/ ReadSection(x) \/ NoneLeft(x) \/ ReadTurns(x) \/ DownloadAudio(x) \/ DownloadAsset(x)
               \/ WriteManifest(x) \/ ExportFails(x) \/ DownloadFails(x) \/ IntegrationsSkipped(x)
    BY <1>3, ReadsWhole, TurnsWhole, OthersWhole
  <1>4. QED
    BY <1>1, <1>2, <1>3 DEF ExportNext

LEMMA WholeWhenSent == ExportInv => ExportIsWhole
  <1> SUFFICES ASSUME ExportInv, NEW x \in ExportCalls, export[x].pc = "sent",
                      NEW h \in export[x].since, Named(h, export[x].since)
               PROVE  h \in export[x].entries \/ h \in export[x].skipped
    BY DEF ExportIsWhole
  <1> DEFINE e == export[x]
  <1>1. /\ e \in ExportRow /\ e.section >= 8 /\ e.section \in 1..9 /\ TablesRead(e) /\ TurnsRead(e) /\ FilesRead(e)
        /\ h \in Holdings
    BY RowOf DEF InPlace, ExportRow
  <1>2. PICK c \in Things : \/ \E n \in 1..9 : h = <<Sections[n], c>>
                            \/ h = <<"turns", c>> \/ h = <<"audio", c>> \/ h = <<"assets", c>>
    BY <1>1 DEF Holdings
  <1>3. CASE \E n \in 1..9 : h = <<Sections[n], c>>
    BY <1>1, <1>3 DEF TablesRead, Has
  <1>4. CASE h = <<"turns", c>>
    <2>1. <<"conversations", c>> \in e.since
      BY <1>4 DEF Named
    <2>0. e.section > 3 /\ e.pc \notin {"turns", "audio"}
      BY <1>1
    <2> HIDE DEF e
    <2>2. Has(e, <<"turns", c>>)
      BY <1>1, <2>0, <2>1, Zenon DEF TurnsRead
    <2> USE DEF e
    <2>3. QED
      BY <1>4, <2>2 DEF Has
  <1>5. CASE h = <<"audio", c>>
    <2>1. <<"conversations", c>> \in e.since /\ <<"turns", c>> \in e.since
      BY <1>5 DEF Named
    <2>2. QED
      BY <1>1, <1>5, <2>1 DEF TurnsRead, Has
  <1>6. CASE h = <<"assets", c>>
    <2>1. <<"sources", c>> \in e.since
      BY <1>6 DEF Named
    <2>2. QED
      BY <1>1, <1>6, <2>1 DEF FilesRead, Has
  <1>7. QED
    BY <1>2, <1>3, <1>4, <1>5, <1>6

\* GET /account/export: an export with a manifest holds what the user had when
\* it began and still has, whatever the rest of the server adds and removes
\* while the tables are read and whichever calls fail.
THEOREM ExportHoldsEverything == ExportSpec => []ExportIsWhole
  <1>1. ExportSpec => []ExportInv
    BY ExportStarts, ExportSteps, PTL DEF ExportSpec
  <1>2. QED
    BY <1>1, WholeWhenSent, PTL

-----------------------------------------------------------------------------
(* CalendarEvents: what is booked is what was said.                          *)

\* A set of numbers has a least one.
LEMMA LeastNumber ==
  ASSUME NEW S \in SUBSET Nat, S # {}
  PROVE  \E n \in S : \A m \in S : n <= m
  <1>1. PICK n \in S : \A m \in S : ~(<<m, n>> \in OpToRel(<, Nat))
    BY NatLessThanWellFounded, WFMin
  <1>2. \A m \in S : ~(m < n)
    BY <1>1 DEF OpToRel
  <1> QED  BY <1>2

-----------------------------------------------------------------------------
(* Clocks *)

\* The clock that is best so far, after one more.
BestAfter(best, c) == IF IsClock(c) THEN Better(best, c) ELSE best

\* f lists the best clock of each beginning of cs, up to the first n.
BestOf(f, cs, n) == f = [k \in 0..n |-> IF k = 0 THEN <<>> ELSE BestAfter(f[k - 1], cs[k])]

\* A list of the best clocks can be continued by one more.
LEMMA BestContinued ==
  ASSUME NEW cs, NEW n \in Nat, NEW f, BestOf(f, cs, n)
  PROVE  \E g : BestOf(g, cs, n + 1)
  <1> DEFINE G(k) == IF k = n + 1 THEN BestAfter(f[n], cs[n + 1]) ELSE f[k]
             g == [k \in 0..(n + 1) |-> G(k)]
  <1>1. ASSUME NEW k \in 0..(n + 1)
        PROVE  g[k] = IF k = 0 THEN <<>> ELSE BestAfter(g[k - 1], cs[k])
    <2>1. CASE k = 0
      <3>1. f[0] = <<>> /\ 0 # n + 1 /\ 0 \in 0..(n + 1)
        BY DEF BestOf
      <3> QED  BY <2>1, <3>1
    <2>2. CASE k = n + 1
      <3>1. k - 1 = n /\ n \in 0..(n + 1) /\ n # n + 1 /\ k # 0
        BY <2>2
      <3>2. g[k - 1] = f[n] /\ g[k] = BestAfter(f[n], cs[k])
        BY <2>2, <3>1
      <3> QED  BY <3>1, <3>2
    <2>3. CASE k # 0 /\ k # n + 1
      <3>1. k \in 0..n /\ k - 1 \in 0..n /\ k - 1 \in 0..(n + 1) /\ k - 1 # n + 1
        BY <2>3
      <3>2. g[k] = f[k] /\ g[k - 1] = f[k - 1]
        BY <2>3, <3>1
      <3>3. f[k] = BestAfter(f[k - 1], cs[k])
        BY <2>3, <3>1 DEF BestOf
      <3> QED  BY <2>3, <3>2, <3>3
    <2> QED  BY <2>1, <2>2, <2>3
  <1>2. g = [k \in 0..(n + 1) |-> IF k = 0 THEN <<>> ELSE BestAfter(g[k - 1], cs[k])]
    <2> HIDE DEF g
    <2>1. g = [k \in 0..(n + 1) |-> g[k]]
      BY DEF g
    <2> QED  BY <1>1, <2>1
  <1> QED  BY <1>2 DEF BestOf

LEMMA BestExists ==
  ASSUME NEW cs, NEW n \in Nat
  PROVE  \E f : BestOf(f, cs, n)
  <1> DEFINE Bad == {k \in Nat : ~\E f : BestOf(f, cs, k)}
  <1> SUFFICES ASSUME Bad # {} PROVE FALSE
    OBVIOUS
  <1>1. PICK k \in Bad : \A l \in Bad : k <= l
    <2>1. Bad \in SUBSET Nat
      OBVIOUS
    <2> QED  BY <2>1, LeastNumber
  <1>2. CASE k = 0
    <2> DEFINE f == [l \in 0..0 |-> <<>>]
    <2>1. f = [l \in 0..0 |-> IF l = 0 THEN <<>> ELSE BestAfter(f[l - 1], cs[l])]
      OBVIOUS
    <2>2. BestOf(f, cs, 0)
      BY <2>1 DEF BestOf
    <2> QED  BY <1>1, <1>2, <2>2
  <1>3. CASE k # 0
    <2>1. k - 1 \in Nat /\ ~(k <= k - 1) /\ k - 1 + 1 = k
      BY <1>1, <1>3
    <2>2. PICK f : BestOf(f, cs, k - 1)
      BY <1>1, <2>1
    <2>3. \E g : BestOf(g, cs, k)
      BY <2>1, <2>2, BestContinued
    <2> QED  BY <1>1, <2>3
  <1> QED  BY <1>2, <1>3

\* extractClock goes through the clocks and keeps the best one.
LEMMA ExtractIsBest ==
  ASSUME NEW p \in Phrase
  PROVE  \E f : BestOf(f, p.clocks, Len(p.clocks)) /\ ExtractClock(p) = f[Len(p.clocks)]
  <1>1. p.clocks \in Seq(ClockFound) /\ Len(p.clocks) \in Nat
    BY DEF Phrase
  <1> DEFINE Is(f) == f = [n \in 0..Len(p.clocks) |->
                             IF n = 0 THEN <<>>
                             ELSE IF IsClock(p.clocks[n]) THEN Better(f[n - 1], p.clocks[n]) ELSE f[n - 1]]
             best == CHOOSE f : Is(f)
  <1>2. \E f : Is(f)
    BY <1>1, BestExists DEF BestOf, BestAfter
  <1>3. Is(best)
    <2> HIDE DEF Is
    <2> QED  BY <1>2
  <1>4. BestOf(best, p.clocks, Len(p.clocks))
    <2> HIDE DEF best
    <2> QED  BY <1>3 DEF BestOf, BestAfter
  <1>5. ExtractClock(p) = best[Len(p.clocks)]
    BY DEF ExtractClock
  <1> QED  BY <1>4, <1>5

\* No clock among the first n is one that can be told, or best holds the most
\* explicit of them, and the last of those.
Foremost(best, cs, n) ==
  LET said == {k \in 1..n : IsClock(cs[k])}
  IN  \/ said = {} /\ best = <<>>
      \/ \E k \in said : /\ best = <<cs[k]>>
                         /\ \A l \in said \ {k} : Score(cs[l]) < Score(cs[k]) \/ (Score(cs[l]) = Score(cs[k]) /\ l < k)

LEMMA ScoreIs ==
  ASSUME NEW c \in ClockFound, IsClock(c)
  PROVE  Score(c) \in 1..3
  BY DEF Score, ClockFound, IsClock

LEMMA ForemostAfter ==
  ASSUME NEW cs \in Seq(ClockFound), NEW n \in Nat, n + 1 \in 1..Len(cs), NEW best, Foremost(best, cs, n)
  PROVE  Foremost(BestAfter(best, cs[n + 1]), cs, n + 1)
  <1> DEFINE said == {k \in 1..n : IsClock(cs[k])}
             told == {k \in 1..(n + 1) : IsClock(cs[k])}
             c == cs[n + 1]
  <1>1. \A k \in told : cs[k] \in ClockFound /\ Score(cs[k]) \in 1..3
    BY ScoreIs
  <1>2. CASE ~IsClock(c)
    <2>1. told = said
      BY <1>2
    <2>2. BestAfter(best, c) = best
      BY <1>2 DEF BestAfter
    <2> QED  BY <2>1, <2>2 DEF Foremost
  <1>3. CASE IsClock(c)
    <2>1. told = said \cup {n + 1} /\ n + 1 \notin said
      BY <1>3
    <2>2. BestAfter(best, c) = IF best = <<>> THEN <<c>> ELSE IF Score(c) >= Score(best[1]) THEN <<c>> ELSE best
      BY <1>3 DEF BestAfter, Better
    <2> HIDE DEF said, told, c
    <2>3. CASE said = {} /\ best = <<>>
      <3>1. told \ {n + 1} = {} /\ BestAfter(best, c) = <<c>>
        BY <2>1, <2>2, <2>3
      <3> QED  BY <2>1, <3>1 DEF Foremost, told, c
    <2>4. CASE ~(said = {} /\ best = <<>>)
      <3>1. PICK k \in said : /\ best = <<cs[k]>>
                              /\ \A l \in said \ {k} : \/ Score(cs[l]) < Score(cs[k])
                                                       \/ Score(cs[l]) = Score(cs[k]) /\ l < k
        BY <2>4 DEF Foremost, said
      <3>2. best # <<>> /\ best[1] = cs[k]
        BY <3>1
      <3>3. \A l \in said : l \in Nat /\ l < n + 1 /\ l # n + 1
        BY DEF said
      <3>4. Score(c) \in Int /\ \A l \in said : Score(cs[l]) \in Int
        BY <1>1, <2>1 DEF c
      <3>5. CASE Score(c) >= Score(cs[k])
        <4>1. BestAfter(best, c) = <<c>>
          BY <2>2, <3>2, <3>5
        <4>2. ASSUME NEW l \in told \ {n + 1}
              PROVE  Score(cs[l]) < Score(c) \/ (Score(cs[l]) = Score(c) /\ l < n + 1)
          <5>1. l \in said
            BY <2>1, <4>2
          <5>2. Score(cs[l]) <= Score(cs[k])
            BY <3>1, <3>4, <5>1
          <5> QED  BY <3>3, <3>4, <3>5, <5>1, <5>2
        <4> QED  BY <2>1, <4>1, <4>2 DEF Foremost, told, c
      <3>6. CASE ~(Score(c) >= Score(cs[k]))
        <4>1. BestAfter(best, c) = best
          BY <2>2, <3>2, <3>6
        <4>2. ASSUME NEW l \in told \ {k}
              PROVE  Score(cs[l]) < Score(cs[k]) \/ (Score(cs[l]) = Score(cs[k]) /\ l < k)
          <5>1. CASE l = n + 1
            BY <3>4, <3>6, <5>1 DEF c
          <5>2. CASE l # n + 1
            BY <2>1, <3>1, <4>2, <5>2
          <5> QED  BY <5>1, <5>2
        <4>3. k \in told
          BY <2>1, <3>1
        <4>4. best = <<cs[k]>>
          BY <3>1
        <4> QED  BY <4>1, <4>2, <4>3, <4>4 DEF Foremost, told, c
      <3> QED  BY <3>5, <3>6
    <2> QED  BY <2>3, <2>4
  <1> QED  BY <1>2, <1>3

LEMMA BestIsForemost ==
  ASSUME NEW cs \in Seq(ClockFound), NEW f, BestOf(f, cs, Len(cs))
  PROVE  Foremost(f[Len(cs)], cs, Len(cs))
  <1> DEFINE Bad == {n \in 0..Len(cs) : ~Foremost(f[n], cs, n)}
  <1>0. Len(cs) \in Nat
    OBVIOUS
  <1> SUFFICES ASSUME Bad # {} PROVE FALSE
    BY <1>0
  <1>1. PICK n \in Bad : \A m \in Bad : n <= m
    <2>1. Bad \in SUBSET Nat
      BY <1>0
    <2> QED  BY <2>1, LeastNumber
  <1>2. CASE n = 0
    <2>1. f[0] = <<>>
      BY <1>0 DEF BestOf
    <2>2. {k \in 1..0 : IsClock(cs[k])} = {}
      OBVIOUS
    <2>3. Foremost(f[0], cs, 0)
      BY <2>1, <2>2 DEF Foremost
    <2> QED  BY <1>1, <1>2, <2>3
  <1>3. CASE n # 0
    <2> DEFINE m == n - 1
    <2>1. m \in Nat /\ m \in 0..Len(cs) /\ m + 1 = n /\ n \in 1..Len(cs) /\ ~(n <= m)
      BY <1>0, <1>1, <1>3
    <2>2. Foremost(f[m], cs, m)
      BY <1>1, <2>1
    <2>3. f[n] = BestAfter(f[m], cs[n])
      BY <1>0, <1>1, <1>3 DEF BestOf
    <2> HIDE DEF m
    <2>4. Foremost(f[n], cs, n)
      BY <2>1, <2>2, <2>3, ForemostAfter
    <2> QED  BY <1>1, <2>4
  <1> QED  BY <1>2, <1>3

LEMMA ClockFoundIsForemost ==
  ASSUME NEW p \in Phrase
  PROVE  p.clocks \in Seq(ClockFound) /\ Foremost(ExtractClock(p), p.clocks, Len(p.clocks))
  <1>1. p.clocks \in Seq(ClockFound)
    BY DEF Phrase
  <1> QED  BY <1>1, ExtractIsBest, BestIsForemost

LEMMA Minutes == Hour = 60 /\ Day = 1440 /\ DefaultTime = 540
  <1>1. Hour = 60
    BY DEF Hour
  <1> QED  BY <1>1 DEF Day, DefaultTime

LEMMA MinuteInDay ==
  ASSUME NEW c \in ClockFound, IsClock(c)
  PROVE  MinuteOfDay(c) \in 0..(Day - 1)
  <1>1. c.hour \in Nat /\ c.minute \in 0..59 /\ c.form \in {"am", "pm", "at", "colon"}
    BY DEF ClockFound, IsClock
  <1>2. CASE c.form \in {"am", "pm"}
    <2>1. PICK h \in 0..23 : MinuteOfDay(c) = Hour * h + c.minute
      <3>1. c.hour % 12 \in 0..11
        BY <1>1
      <3>2. 12 + (c.hour % 12) \in 0..23 /\ c.hour % 12 \in 0..23
        BY <3>1
      <3> QED  BY <1>2, <3>2 DEF MinuteOfDay
    <2> QED  BY <1>1, <2>1, Minutes
  <1>3. CASE c.form \in {"at", "colon"}
    <2>1. Score(c) # 3
      BY <1>3 DEF Score
    <2>2. c.hour <= 23
      BY <2>1 DEF IsClock
    <2>3. MinuteOfDay(c) = Hour * c.hour + c.minute
      BY <1>3 DEF MinuteOfDay
    <2> QED  BY <1>1, <2>2, <2>3, Minutes
  <1> QED  BY <1>1, <1>2, <1>3

LEMMA PartOfDayIs ==
  ASSUME NEW words
  PROVE  PartOfDay(words) \in {<<>>, <<18 * Hour>>, <<15 * Hour>>, <<9 * Hour>>, <<12 * Hour>>}
  BY DEF PartOfDay

\* The time found is one the phrase says.
LEMMA TimeIsSaid ==
  ASSUME NEW p \in Phrase
  PROVE  LET time == TimeOr(TimeOfDay(p), DefaultTime)
         IN  time \in 0..(Day - 1) /\ SaysTime(p, time)
  <1> DEFINE said == {n \in DOMAIN p.clocks : IsClock(p.clocks[n])}
             time == TimeOr(TimeOfDay(p), DefaultTime)
  <1>1. /\ p.clocks \in Seq(ClockFound) /\ DOMAIN p.clocks = 1..Len(p.clocks)
        /\ Foremost(ExtractClock(p), p.clocks, Len(p.clocks))
    BY ClockFoundIsForemost
  <1>2. CASE said = {}
    <2>1. ExtractClock(p) = <<>>
      BY <1>1, <1>2 DEF Foremost
    <2>2. time = TimeOr(PartOfDay(p.words), DefaultTime)
      BY <2>1 DEF TimeOfDay
    <2>3. time \in 0..(Day - 1)
      <3>1. PICK part : part = PartOfDay(p.words)
        OBVIOUS
      <3>2. part \in {<<>>, <<18 * Hour>>, <<15 * Hour>>, <<9 * Hour>>, <<12 * Hour>>}
        BY <3>1, PartOfDayIs
      <3>3. time = IF part = <<>> THEN DefaultTime ELSE part[1]
        BY <2>2, <3>1 DEF TimeOr
      <3>4. part \in {<<>>, <<1080>>, <<900>>, <<540>>, <<720>>}
        BY <3>2, Minutes
      <3>5. part = <<>> \/ part[1] \in {1080, 900, 540, 720}
        BY <3>4
      <3> HIDE DEF time
      <3> QED  BY <3>3, <3>5, Minutes
    <2>4. SaysTime(p, time)
      BY <1>2, <2>2 DEF SaysTime
    <2> QED  BY <2>3, <2>4
  <1>3. CASE said # {}
    <2>1. PICK n \in said :
            /\ ExtractClock(p) = <<p.clocks[n]>>
            /\ \A k \in said \ {n} : \/ Score(p.clocks[k]) < Score(p.clocks[n])
                                     \/ Score(p.clocks[k]) = Score(p.clocks[n]) /\ k < n
      BY <1>1, <1>3 DEF Foremost
    <2>2. time = MinuteOfDay(p.clocks[n])
      <3>1. ExtractClock(p) # <<>> /\ ExtractClock(p)[1] = p.clocks[n]
        BY <2>1
      <3>2. TimeOfDay(p) = <<MinuteOfDay(p.clocks[n])>>
        BY <3>1 DEF TimeOfDay
      <3> QED  BY <3>2 DEF TimeOr
    <2>3. p.clocks[n] \in ClockFound /\ IsClock(p.clocks[n])
      BY <1>1, <2>1
    <2>4. time \in 0..(Day - 1)
      BY <2>2, <2>3, MinuteInDay
    <2>5. SaysTime(p, time)
      <3> HIDE DEF time
      <3> QED  BY <1>3, <2>1, <2>2 DEF SaysTime
    <2> QED  BY <2>4, <2>5
  <1> QED  BY <1>2, <1>3

-----------------------------------------------------------------------------
(* Days and years *)

LEMMA DayParts ==
  ASSUME NEW t \in Int
  PROVE  /\ DayOf(t) \in Int /\ t % Day \in 0..(Day - 1)
         /\ StartOfDay(t) = DayOf(t) * Day /\ t = DayOf(t) * Day + (t % Day)
  BY Minutes DEF DayOf, StartOfDay

\* A time that is so far into a day falls on it.
LEMMA DayIs ==
  ASSUME NEW d \in Int, NEW m \in 0..(Day - 1)
  PROVE  DayOf(d * Day + m) = d /\ (d * Day + m) % Day = m
  <1>1. m \in 0..1439
    BY Minutes
  <1>2. (d * 1440 + m) \div 1440 = d /\ (d * 1440 + m) % 1440 = m
    BY <1>1
  <1> QED  BY <1>2, Minutes DEF DayOf

LEMMA Grows ==
  ASSUME NEW a \in Int, NEW b \in Int, NEW c \in Nat, a <= b
  PROVE  a * c <= b * c
  OBVIOUS

\* A day is of one year, and of one place in it.
LEMMA YearParts ==
  ASSUME NEW d \in Int
  PROVE  /\ d \div YearDays \in Int /\ d % YearDays \in 0..(YearDays - 1)
         /\ d = (d \div YearDays) * YearDays + (d % YearDays)
  BY CalendarAssumption

LEMMA EarlierYear ==
  ASSUME NEW y \in Int, NEW z \in Int, NEW n \in 0..(YearDays - 1), NEW m \in 0..(YearDays - 1),
         y * YearDays + n <= z * YearDays + m
  PROVE  y <= z
  <1>1. YearDays \in Nat \ {0}
    BY CalendarAssumption
  <1> SUFFICES ASSUME z + 1 <= y PROVE FALSE
    OBVIOUS
  <1>2. (z + 1) * YearDays <= y * YearDays
    BY <1>1, Grows
  <1>3. (z + 1) * YearDays = z * YearDays + YearDays
    BY <1>1
  <1>4. z * YearDays \in Int /\ y * YearDays \in Int
    BY <1>1
  <1> QED  BY <1>1, <1>2, <1>3, <1>4

LEMMA YearIs ==
  ASSUME NEW y \in Int, NEW n \in 0..(YearDays - 1)
  PROVE  (y * YearDays + n) \div YearDays = y /\ (y * YearDays + n) % YearDays = n
  <1> DEFINE d == y * YearDays + n
  <1>1. YearDays \in Nat \ {0} /\ d \in Int
    BY CalendarAssumption
  <1>2. /\ d \div YearDays \in Int /\ d % YearDays \in 0..(YearDays - 1)
        /\ d = (d \div YearDays) * YearDays + (d % YearDays)
    BY <1>1, YearParts
  <1>3. d \div YearDays <= y /\ y <= d \div YearDays
    <2> DEFINE q == d \div YearDays
               r == d % YearDays
    <2>1. q \in Int /\ r \in 0..(YearDays - 1) /\ y * YearDays + n = q * YearDays + r
      BY <1>2
    <2>2. y * YearDays + n \in Int
      BY <1>1
    <2>3. y * YearDays + n <= q * YearDays + r /\ q * YearDays + r <= y * YearDays + n
      BY <2>1, <2>2
    <2> HIDE DEF q, r, d
    <2>4. y <= q /\ q <= y
      BY <2>1, <2>3, EarlierYear
    <2> QED  BY <2>4 DEF q
  <1>4. d \div YearDays = y
    BY <1>2, <1>3
  <1>5. d % YearDays = n
    BY <1>1, <1>2, <1>4
  <1> QED  BY <1>4, <1>5

-----------------------------------------------------------------------------
(* parseSingleTime finds the first time that is meant. *)

SaidTime(p) == TimeOr(TimeOfDay(p), DefaultTime)

LEMMA FirstDay ==
  ASSUME NEW p \in Phrase, NEW now \in Int, NEW zone, NEW d \in Int,
         p.at = <<>>, p.in = <<>>, OnDaySaid(p, now, d * Day + SaidTime(p)),
         \A e \in DayOf(now)..(d - 1) : ~OnDaySaid(p, now, e * Day + SaidTime(p))
  PROVE  Meant(p, now, zone, d * Day + SaidTime(p))
  <1> DEFINE time == SaidTime(p)
             t == d * Day + time
  <1>1. time \in 0..(Day - 1) /\ SaysTime(p, time)
    BY TimeIsSaid DEF SaidTime
  <1> HIDE DEF time
  <1>2. DayOf(t) = d /\ t % Day = time
    BY <1>1, DayIs
  <1>3. OnDaySaid(p, now, t) /\ \A e \in DayOf(now)..(d - 1) : ~OnDaySaid(p, now, e * Day + time)
    BY DEF time
  <1> HIDE DEF t
  <1>4. Meant(p, now, zone, t)
    BY <1>1, <1>2, <1>3 DEF Meant
  <1> QED  BY <1>4 DEF t, time

LEMMA OnDate ==
  ASSUME NEW p, NEW now, NEW t, p.date # <<>>
  PROVE  OnDaySaid(p, now, t) <=> /\ DayOf(t) % YearDays = p.date[1]
                                  /\ IF Len(p.date) = 2 THEN YearOf(t) = p.date[2] ELSE DayOf(t) - DayOf(now) >= 0
  BY DEF OnDaySaid

LEMMA DateMeant ==
  ASSUME NEW p \in Phrase, NEW now \in Int, NEW zone, p.at = <<>>, p.date # <<>>
  PROVE  EnglishDate(p, now) \in Int /\ Meant(p, now, zone, EnglishDate(p, now))
  <1> DEFINE day == p.date[1]
             year == IF Len(p.date) = 2 THEN p.date[2] ELSE InYear(day, now)
             d == year * YearDays + day
             today == DayOf(now)
             thisYear == today \div YearDays
             time == SaidTime(p)
  <1>1. YearDays \in Nat \ {0} /\ day \in 0..(YearDays - 1) /\ p.in = <<>> /\ p.date \in Seq(Int)
    BY CalendarAssumption DEF Phrase
  <1>2. today \in Int /\ time \in 0..(Day - 1)
    BY DayParts, TimeIsSaid DEF SaidTime
  <1>3. /\ thisYear \in Int /\ today % YearDays \in 0..(YearDays - 1)
        /\ today = thisYear * YearDays + (today % YearDays)
    BY <1>2, YearParts
  <1>4. InYear(day, now) = IF thisYear * YearDays + day < today THEN thisYear + 1 ELSE thisYear
    <2>1. StartOfDay(now) = today * 1440 /\ DateOf(thisYear, day) = (thisYear * YearDays + day) * 1440
      BY Minutes DEF StartOfDay, DateOf
    <2>2. thisYear * YearDays + day \in Int
      <3> HIDE DEF thisYear, day
      <3> QED  BY <1>1, <1>3
    <2>3. DateOf(thisYear, day) < StartOfDay(now) <=> thisYear * YearDays + day < today
      BY <1>2, <2>1, <2>2
    <2> QED  BY <2>3 DEF InYear, YearOf
  <1>5. year \in Int /\ d \in Int
    <2>1. CASE Len(p.date) = 2
      <3>1. year \in Int
        BY <1>1, <2>1
      <3> QED  BY <1>1, <3>1
    <2>2. CASE Len(p.date) # 2
      <3>1. year \in Int
        BY <1>3, <1>4, <2>2
      <3> QED  BY <1>1, <3>1
    <2> QED  BY <2>1, <2>2
  <1>6. EnglishDate(p, now) = d * Day + time
    BY DEF EnglishDate, DateOf, SaidTime
  <1>13. EnglishDate(p, now) \in Int
    <2> HIDE DEF d, time
    <2> QED  BY <1>2, <1>5, <1>6, Minutes
  <1>7. d \div YearDays = year /\ d % YearDays = day
    BY <1>1, <1>5, YearIs
  <1>8. \A e \in Int : DayOf(e * Day + time) = e
    BY <1>2, DayIs
  <1>9. ASSUME NEW e \in Int
        PROVE  OnDaySaid(p, now, e * Day + time) <=>
                 /\ e % YearDays = day
                 /\ IF Len(p.date) = 2 THEN e \div YearDays = year ELSE e >= today
    <2>1. DayOf(e * Day + time) = e
      BY <1>8
    <2>2. e - today >= 0 <=> e >= today
      BY <1>2
    <2>3. PICK t : t = e * Day + time
      OBVIOUS
    <2>4. YearOf(t) = e \div YearDays /\ DayOf(t) = e
      BY <2>1, <2>3 DEF YearOf
    <2>5. OnDaySaid(p, now, t) <=> /\ DayOf(t) % YearDays = day
                                   /\ IF Len(p.date) = 2 THEN YearOf(t) = p.date[2] ELSE DayOf(t) - today >= 0
      BY OnDate
    <2>6. OnDaySaid(p, now, t) <=> /\ e % YearDays = day
                                   /\ IF Len(p.date) = 2 THEN e \div YearDays = p.date[2] ELSE e >= today
      BY <2>2, <2>4, <2>5
    <2> QED  BY <2>3, <2>6
  <1>10. CASE Len(p.date) = 2
    <2>1. OnDaySaid(p, now, d * Day + time)
      BY <1>5, <1>7, <1>9, <1>10
    <2>2. ASSUME NEW e \in today..(d - 1), OnDaySaid(p, now, e * Day + time)
          PROVE  FALSE
      <3>1. e \in Int /\ e < d
        BY <1>2, <1>5
      <3>2. e % YearDays = day /\ e \div YearDays = year
        BY <1>9, <1>10, <2>2, <3>1
      <3>3. e = year * YearDays + day
        BY <3>1, <3>2, YearParts
      <3> QED  BY <3>1, <3>3
    <2>3. \A e \in DayOf(now)..(d - 1) : ~OnDaySaid(p, now, e * Day + SaidTime(p))
      BY <2>2
    <2>4. OnDaySaid(p, now, d * Day + SaidTime(p)) /\ EnglishDate(p, now) = d * Day + SaidTime(p)
      BY <1>6, <2>1
    <2> HIDE DEF d
    <2> QED  BY <1>1, <1>5, <1>13, <2>3, <2>4, FirstDay
  <1>11. CASE Len(p.date) # 2
    <2> DEFINE rest == today % YearDays
    <2>0. rest \in 0..(YearDays - 1) /\ today = thisYear * YearDays + rest
      BY <1>3
    <2>1. year = IF thisYear * YearDays + day < today THEN thisYear + 1 ELSE thisYear
      BY <1>4, <1>11
    <2>2. d >= today
      <3>1. CASE thisYear * YearDays + day < today
        <4>1. d = thisYear * YearDays + YearDays + day
          <5>1. d = (thisYear + 1) * YearDays + day
            BY <2>1, <3>1
          <5> HIDE DEF d, thisYear, day
          <5>2. (thisYear + 1) * YearDays = thisYear * YearDays + YearDays
            BY <1>1, <1>3
          <5> QED  BY <5>1, <5>2
        <4>2. thisYear * YearDays \in Int
          BY <1>1, <1>3
        <4> HIDE DEF d, rest, day, thisYear
        <4> QED  BY <1>1, <1>2, <2>0, <4>1, <4>2
      <3>2. CASE ~(thisYear * YearDays + day < today)
        <4>1. d = thisYear * YearDays + day
          BY <2>1, <3>2
        <4> QED  BY <1>2, <1>5, <3>2, <4>1
      <3> QED  BY <3>1, <3>2
    <2>3. OnDaySaid(p, now, d * Day + time)
      BY <1>5, <1>7, <1>9, <1>11, <2>2
    <2>4. ASSUME NEW e \in today..(d - 1), OnDaySaid(p, now, e * Day + time)
          PROVE  FALSE
      <3> DEFINE y == e \div YearDays
      <3>1. e \in Int /\ e < d /\ e >= today
        BY <1>2, <1>5
      <3>2. e % YearDays = day
        BY <1>9, <1>11, <2>4, <3>1
      <3>3. y \in Int /\ e = y * YearDays + day
        BY <3>1, <3>2, YearParts
      <3>4. y <= year /\ thisYear <= y
        <4>1. y * YearDays + day <= year * YearDays + day
          BY <1>5, <3>1, <3>3
        <4>2. thisYear * YearDays + rest <= y * YearDays + day
          BY <2>0, <3>1, <3>3
        <4> HIDE DEF y, year, thisYear, rest, day
        <4> QED  BY <1>1, <1>3, <1>5, <2>0, <3>3, <4>1, <4>2, EarlierYear
      <3>5. y # year
        BY <3>1, <3>3
      <3>6. thisYear * YearDays + day < today /\ year = thisYear + 1
        BY <1>3, <2>1, <3>3, <3>4, <3>5
      <3>7. y = thisYear
        BY <1>3, <3>3, <3>4, <3>5, <3>6
      <3> HIDE DEF y, d, thisYear, today, day
      <3> QED  BY <1>1, <1>2, <3>1, <3>3, <3>6, <3>7
    <2>5. \A e \in DayOf(now)..(d - 1) : ~OnDaySaid(p, now, e * Day + SaidTime(p))
      BY <2>4
    <2>6. OnDaySaid(p, now, d * Day + SaidTime(p)) /\ EnglishDate(p, now) = d * Day + SaidTime(p)
      BY <1>6, <2>3
    <2> HIDE DEF d
    <2> QED  BY <1>1, <1>5, <1>13, <2>5, <2>6, FirstDay
  <1> QED  BY <1>10, <1>11

\* The days ahead of now that are meant, when a day is said by its name.
DayAhead(p, ahead) ==
  IF "dayAfterTomorrow" \in p.words THEN ahead = 2
  ELSE IF "tomorrow" \in p.words THEN ahead = 1
  ELSE p.words \cap {"today", "tonight"} # {} /\ ahead = 0

LEMMA WordsOnDay ==
  ASSUME NEW p, NEW now, NEW t, p.date = <<>>,
         p.words \cap {"dayAfterTomorrow", "tomorrow", "today", "tonight"} # {}
  PROVE  OnDaySaid(p, now, t) <=> DayAhead(p, DayOf(t) - DayOf(now))
  BY DEF OnDaySaid, DayAhead

LEMMA WeekdayOnDay ==
  ASSUME NEW p, NEW now, NEW t, p.date = <<>>, p.weekday # <<>>,
         p.words \cap {"dayAfterTomorrow", "tomorrow", "today", "tonight"} = {}
  PROVE  OnDaySaid(p, now, t) <=> /\ Weekday(t) = p.weekday[1]
                                  /\ DayOf(t) - DayOf(now) >= (IF p.weekday[2] THEN 1 ELSE 0)
  BY DEF OnDaySaid

LEMMA NoDayOnDay ==
  ASSUME NEW p, NEW now, NEW t, p.date = <<>>, p.weekday = <<>>,
         p.words \cap {"dayAfterTomorrow", "tomorrow", "today", "tonight"} = {}
  PROVE  OnDaySaid(p, now, t) <=> t > now
  BY DEF OnDaySaid

LEMMA RelativeDay ==
  ASSUME NEW p \in Phrase, NEW now \in Int, NEW n \in Int, DayOffset(p, now) = <<n>>
  PROVE  Relative(p, now) = <<(DayOf(now) + n) * Day + SaidTime(p)>>
  <1> DEFINE time == SaidTime(p)
             today == DayOf(now)
  <1>1. today \in Int /\ time \in Int /\ StartOfDay(now) = today * Day
    <2>1. Day - 1 \in Int
      BY Minutes
    <2> QED  BY <2>1, DayParts, TimeIsSaid DEF SaidTime
  <1>2. <<n>> # <<>> /\ <<n>>[1] = n
    OBVIOUS
  <1>3. Relative(p, now) = <<StartOfDay(now) + time + n * Day>>
    BY <1>2 DEF Relative, SaidTime
  <1> HIDE DEF time, today
  <1>4. StartOfDay(now) + time + n * Day = (today + n) * Day + time
    BY <1>1, Minutes
  <1>5. Relative(p, now) = <<(today + n) * Day + time>>
    BY <1>3, <1>4
  <1> QED  BY <1>5 DEF time, today

\* "today", "tomorrow": the only day of that name.
LEMMA WordsMeant ==
  ASSUME NEW p \in Phrase, NEW now \in Int, NEW zone, p.at = <<>>, p.in = <<>>, p.date = <<>>,
         p.words \cap {"dayAfterTomorrow", "tomorrow", "today", "tonight"} # {}
  PROVE  \E t \in Int : Relative(p, now) = <<t>> /\ Meant(p, now, zone, t)
  <1> DEFINE time == SaidTime(p)
             today == DayOf(now)
  <1>1. today \in Int /\ time \in 0..(Day - 1) /\ StartOfDay(now) = today * Day
    BY DayParts, TimeIsSaid DEF SaidTime
  <1> DEFINE n == IF "dayAfterTomorrow" \in p.words THEN 2 ELSE IF "tomorrow" \in p.words THEN 1 ELSE 0
  <1>2. n \in 0..2 /\ DayOffset(p, now) = <<n>> /\ \A ahead \in Int : DayAhead(p, ahead) <=> ahead = n
    <2>1. "dayAfterTomorrow" \in p.words \/ "tomorrow" \in p.words \/ p.words \cap {"today", "tonight"} # {}
      OBVIOUS
    <2>2. n \in 0..2 /\ DayOffset(p, now) = <<n>>
      BY <2>1 DEF DayOffset
    <2>3. \A ahead \in Int : DayAhead(p, ahead) <=> ahead = n
      BY <2>1 DEF DayAhead
    <2> QED  BY <2>2, <2>3
  <1> HIDE DEF n
  <1> DEFINE d == today + n
             t == d * Day + time
  <1>3. Relative(p, now) = <<t>>
    BY <1>2, RelativeDay
  <1> HIDE DEF time, today
  <1>4. d \in Int /\ t \in Int
    BY <1>1, <1>2, Minutes
  <1>5. ASSUME NEW e \in Int
        PROVE  OnDaySaid(p, now, e * Day + time) <=> e = d
    <2>1. DayOf(e * Day + time) = e
      BY <1>1, DayIs
    <2>2. OnDaySaid(p, now, e * Day + time) <=> DayAhead(p, e - today)
      BY <2>1, WordsOnDay DEF today
    <2>3. DayAhead(p, e - today) <=> e - today = n
      BY <1>1, <1>2
    <2> QED  BY <1>1, <1>2, <2>2, <2>3
  <1>6. Meant(p, now, zone, t)
    <2>1. OnDaySaid(p, now, d * Day + SaidTime(p))
      BY <1>4, <1>5 DEF time
    <2>2. \A e \in DayOf(now)..(d - 1) : ~OnDaySaid(p, now, e * Day + SaidTime(p))
      <3>1. \A e \in DayOf(now)..(d - 1) : e \in Int /\ e # d
        BY <1>1, <1>2, <1>4 DEF today
      <3> HIDE DEF d
      <3> QED  BY <1>5, <3>1 DEF time
    <2> HIDE DEF d
    <2> QED  BY <1>4, <2>1, <2>2, FirstDay DEF time
  <1> QED  BY <1>3, <1>4, <1>6

LEMMA UntilWeekday ==
  ASSUME NEW today \in Int, NEW target \in 0..6, NEW next \in BOOLEAN
  PROVE  LET n == DaysUntilWeekday(today % 7, target, next)
         IN  /\ n \in 0..7 /\ (today + n) % 7 = target /\ (next => n > 0)
             /\ \A e \in today..(today + n - 1) : ~(e % 7 = target /\ (next => e > today))
  <1> DEFINE from == today % 7
             delta == (target - from + 7) % 7
             n == DaysUntilWeekday(from, target, next)
  <1>1. PICK week \in Int : today = 7 * week + from /\ from \in 0..6
    <2>1. today = 7 * (today \div 7) + (today % 7) /\ today % 7 \in 0..6 /\ today \div 7 \in Int
      OBVIOUS
    <2> QED  BY <2>1
  <1>2. n = IF delta = 0 /\ next THEN 7 ELSE delta
    BY DEF DaysUntilWeekday
  <1> HIDE DEF n, from
  <1>3. delta \in 0..6 /\ (target - from = delta \/ target - from = delta - 7)
    BY <1>1
  <1> HIDE DEF delta
  <1>4. n \in 0..7 /\ (next => n > 0)
    BY <1>2, <1>3
  <1>5. (today + n) % 7 = target
    <2>1. \/ today + n = 7 * week + target
          \/ today + n = 7 * week + target + 7
      BY <1>1, <1>2, <1>3
    <2> QED  BY <2>1
  <1>6. ASSUME NEW e \in today..(today + n - 1), e % 7 = target, next => e > today
        PROVE  FALSE
    <2>1. e \in Int /\ today <= e /\ e < today + n
      BY <1>4
    <2>2. PICK w \in Int : e = 7 * w + target
      <3>1. e = 7 * (e \div 7) + (e % 7) /\ e \div 7 \in Int
        BY <2>1
      <3> QED  BY <1>6, <3>1
    <2>3. e - today = 7 * (w - week) + (target - from) /\ e - today \in Int
      BY <1>1, <2>1, <2>2
    <2>4. \/ e - today = 7 * (w - week) + delta
          \/ e - today = 7 * (w - week - 1) + delta
      BY <1>1, <1>3, <2>2, <2>3
    <2>5. e - today >= 0 /\ e - today < n
      BY <1>1, <1>4, <2>1
    <2>6. PICK k \in Int : e - today = 7 * k + delta
      <3>1. w - week \in Int /\ w - week - 1 \in Int
        BY <1>1, <2>2
      <3> QED  BY <2>4, <3>1
    <2>7. CASE delta = 0 /\ next
      BY <1>2, <1>6, <2>1, <2>5, <2>6, <2>7
    <2>8. CASE ~(delta = 0 /\ next)
      BY <1>2, <1>3, <2>5, <2>6, <2>8
    <2> QED  BY <2>7, <2>8
  <1> QED  BY <1>4, <1>5, <1>6 DEF n, from

LEMMA WeekdayMeant ==
  ASSUME NEW p \in Phrase, NEW now \in Int, NEW zone, p.at = <<>>, p.in = <<>>, p.date = <<>>, p.weekday # <<>>,
         p.words \cap {"dayAfterTomorrow", "tomorrow", "today", "tonight"} = {}
  PROVE  \E t \in Int : Relative(p, now) = <<t>> /\ Meant(p, now, zone, t)
  <1> DEFINE time == SaidTime(p)
             today == DayOf(now)
             target == p.weekday[1]
             next == p.weekday[2]
             n == DaysUntilWeekday(today % 7, target, next)
             d == today + n
             t == d * Day + time
  <1>1. today \in Int /\ time \in 0..(Day - 1) /\ StartOfDay(now) = today * Day
    BY DayParts, TimeIsSaid DEF SaidTime
  <1>2. target \in 0..6 /\ next \in BOOLEAN
    BY DEF Phrase
  <1>3. /\ n \in 0..7 /\ (today + n) % 7 = target /\ (next => n > 0)
        /\ \A e \in today..(today + n - 1) : ~(e % 7 = target /\ (next => e > today))
    <2> HIDE DEF today, target, next
    <2> QED  BY <1>1, <1>2, UntilWeekday
  <1>4. Relative(p, now) = <<t>>
    <2>1. DayOffset(p, now) = <<n>>
      BY DEF DayOffset, Weekday
    <2> HIDE DEF n
    <2> QED  BY <1>3, <2>1, RelativeDay
  <1>5. ASSUME NEW e \in Int
        PROVE  OnDaySaid(p, now, e * Day + time) <=> e % 7 = target /\ e - today >= (IF next THEN 1 ELSE 0)
    <2>1. DayOf(e * Day + time) = e
      BY <1>1, DayIs
    <2> QED  BY <2>1, WeekdayOnDay DEF Weekday
  <1> HIDE DEF time, today, n, target, next
  <1>6. d \in Int /\ t \in Int
    BY <1>1, <1>3, Minutes
  <1>7. Meant(p, now, zone, t)
    <2>1. OnDaySaid(p, now, d * Day + SaidTime(p))
      <3>1. d - today >= (IF next THEN 1 ELSE 0) /\ d % 7 = target
        BY <1>1, <1>2, <1>3
      <3> HIDE DEF d
      <3> QED  BY <1>5, <1>6, <3>1 DEF time
    <2>2. \A e \in DayOf(now)..(d - 1) : ~OnDaySaid(p, now, e * Day + SaidTime(p))
      <3> SUFFICES ASSUME NEW e \in today..(d - 1), OnDaySaid(p, now, e * Day + time) PROVE FALSE
        BY DEF today, time
      <3>1. e \in Int /\ e \in today..(today + n - 1)
        BY <1>1, <1>3, <1>6
      <3>2. e % 7 = target /\ e - today >= (IF next THEN 1 ELSE 0)
        BY <1>5, <3>1
      <3>3. next => e > today
        BY <1>1, <3>1, <3>2
      <3> QED  BY <1>3, <3>1, <3>2, <3>3
    <2> HIDE DEF d
    <2> QED  BY <1>6, <2>1, <2>2, FirstDay DEF time
  <1> QED  BY <1>4, <1>6, <1>7

\* A clock without a day: today's, or tomorrow's when that is over.
LEMMA ClockMeant ==
  ASSUME NEW p \in Phrase, NEW now \in Int, NEW zone, p.at = <<>>, p.in = <<>>, p.date = <<>>, p.weekday = <<>>,
         p.words \cap {"dayAfterTomorrow", "tomorrow", "today", "tonight"} = {}, Relative(p, now) # <<>>
  PROVE  \E t \in Int : Relative(p, now) = <<t>> /\ Meant(p, now, zone, t)
  <1> DEFINE time == SaidTime(p)
             today == DayOf(now)
             d == IF today * Day + time > now THEN today ELSE today + 1
             t == d * Day + time
  <1>1. /\ today \in Int /\ time \in 0..(Day - 1) /\ StartOfDay(now) = today * Day
        /\ now % Day \in 0..(Day - 1) /\ now = today * Day + (now % Day)
    BY DayParts, TimeIsSaid DEF SaidTime
  <1>2. PICK hand : hand = today * Day + time
    OBVIOUS
  <1>3. Relative(p, now) = <<IF hand > now THEN hand ELSE hand + Day>>
    <2>1. DayOffset(p, now) = <<>>
      BY DEF DayOffset
    <2>2. TimeOfDay(p) # <<>> /\ StartOfDay(now) + TimeOr(TimeOfDay(p), DefaultTime) = hand
      <3>1. TimeOfDay(p) # <<>>
        BY <2>1 DEF Relative
      <3> QED  BY <1>1, <1>2, <3>1 DEF SaidTime
    <2> QED  BY <2>1, <2>2 DEF Relative
  <1>4. hand \in Int /\ d \in Int /\ t \in Int /\ (IF hand > now THEN hand ELSE hand + Day) = t /\ t > now
    <2> HIDE DEF time, today
    <2> DEFINE rest == now % Day
    <2>1. rest \in 0..(Day - 1) /\ now = today * Day + rest
      BY <1>1
    <2> HIDE DEF rest
    <2> QED  BY <1>1, <1>2, <2>1, Minutes
  <1>5. \A e \in Int : OnDaySaid(p, now, e * Day + time) <=> e * Day + time > now
    BY NoDayOnDay
  <1> HIDE DEF time, today
  <1>6. Meant(p, now, zone, t)
    <2>1. OnDaySaid(p, now, d * Day + SaidTime(p))
      <3>1. d \in Int /\ d * Day + time > now
        BY <1>4
      <3> HIDE DEF d
      <3> QED  BY <1>5, <3>1 DEF time
    <2>2. \A e \in DayOf(now)..(d - 1) : ~OnDaySaid(p, now, e * Day + SaidTime(p))
      <3> SUFFICES ASSUME NEW e \in today..(d - 1), OnDaySaid(p, now, e * Day + time) PROVE FALSE
        BY DEF today, time
      <3>1. e = today /\ ~(today * Day + time > now)
        BY <1>1, <1>4
      <3> QED  BY <1>1, <1>5, <3>1
    <2>3. d \in Int
      BY <1>4
    <2> HIDE DEF d
    <2> QED  BY <2>1, <2>2, <2>3, FirstDay DEF time
  <1>7. Relative(p, now) = <<t>>
    <2> HIDE DEF t
    <2> QED  BY <1>3, <1>4
  <1> HIDE DEF t
  <1> QED  BY <1>4, <1>6, <1>7

Offsets == Zones \cup {Utc}

LEMMA OffsetIs ==
  ASSUME NEW zone \in Offsets
  PROVE  OffsetOf(zone) \in Int
  BY CalendarAssumption DEF Offsets, OffsetOf

LEMMA AbsoluteIs ==
  ASSUME NEW p \in Phrase, NEW zone \in Offsets, p.at # <<>>
  PROVE  Absolute(p.at, zone) \in Int
  <1>1. p.at[1] \in {"instant", "local", "date"} /\ p.at[2] \in Int
    BY DEF Phrase
  <1>2. StartOfDay(p.at[2]) \in Int
    <2>1. PICK minute \in Int : minute = p.at[2]
      BY <1>1
    <2>2. StartOfDay(minute) \in Int
      BY DayParts, Minutes
    <2> QED  BY <2>1, <2>2
  <1>3. OffsetOf(zone) \in Int /\ DefaultTime \in Int
    BY OffsetIs, Minutes
  <1> QED  BY <1>1, <1>2, <1>3 DEF Absolute

LEMMA RelativeMeant ==
  ASSUME NEW p \in Phrase, NEW now \in Int, NEW zone, p.at = <<>>, p.in = <<>>, p.date = <<>>, Relative(p, now) # <<>>
  PROVE  \E t \in Int : Relative(p, now) = <<t>> /\ Meant(p, now, zone, t)
  <1> DEFINE named == p.words \cap {"dayAfterTomorrow", "tomorrow", "today", "tonight"}
  <1>1. CASE named # {}
    BY <1>1, WordsMeant
  <1>2. CASE named = {} /\ p.weekday # <<>>
    BY <1>2, WeekdayMeant
  <1>3. CASE named = {} /\ p.weekday = <<>>
    BY <1>3, ClockMeant
  <1> QED  BY <1>1, <1>2, <1>3

\* What a phrase is read as is what it means.
LEMMA ReadAsMeant ==
  ASSUME NEW p \in Phrase, NEW now \in Int, NEW zone \in Offsets, ParseSingle(p, now, zone) # <<>>
  PROVE  \E t \in Int : ParseSingle(p, now, zone) = <<t>> /\ Meant(p, now, zone, t)
  <1>1. CASE p.at # <<>>
    <2>1. ParseSingle(p, now, zone) = <<Absolute(p.at, zone)>> /\ Meant(p, now, zone, Absolute(p.at, zone))
      BY <1>1 DEF ParseSingle, Meant
    <2> QED  BY <1>1, <2>1, AbsoluteIs
  <1>2. CASE p.at = <<>> /\ p.date # <<>>
    <2>1. ParseSingle(p, now, zone) = <<EnglishDate(p, now)>>
      BY <1>2 DEF ParseSingle
    <2> QED  BY <1>2, <2>1, DateMeant
  <1>3. CASE p.at = <<>> /\ p.date = <<>> /\ p.in # <<>>
    <2>1. ParseSingle(p, now, zone) = <<now + p.in[1]>> /\ Meant(p, now, zone, now + p.in[1])
      BY <1>3 DEF ParseSingle, Meant
    <2>2. p.in[1] \in Nat
      BY <1>3 DEF Phrase
    <2> QED  BY <2>1, <2>2
  <1>4. CASE p.at = <<>> /\ p.date = <<>> /\ p.in = <<>>
    <2>1. ParseSingle(p, now, zone) = Relative(p, now)
      BY <1>4 DEF ParseSingle
    <2> QED  BY <1>4, <2>1, RelativeMeant
  <1> QED  BY <1>1, <1>2, <1>3, <1>4

-----------------------------------------------------------------------------
(* Ranges and windows *)

LEMMA JoinedIsPhrase ==
  ASSUME NEW p \in Phrase, NEW q \in Phrase
  PROVE  Joined(p, q) \in Phrase
  <1> DEFINE j == Joined(p, q)
  <1>1. /\ j = [at |-> j.at, in |-> j.in, date |-> j.date, words |-> j.words, weekday |-> j.weekday,
                clocks |-> j.clocks, other |-> j.other]
        /\ j.at = <<>> /\ j.in = <<>> /\ j.date \in {p.date, q.date} /\ j.words = p.words \cup q.words
        /\ j.weekday \in {p.weekday, q.weekday} /\ j.clocks = p.clocks \o q.clocks /\ j.other = TRUE
    BY DEF Joined
  <1>2. j.clocks \in Seq(ClockFound) /\ j.words \in SUBSET STRING
    BY <1>1 DEF Phrase
  <1>3. j.date \in Seq(Int) /\ (j.date # <<>> => j.date[1] \in 0..(YearDays - 1))
    BY <1>1 DEF Phrase
  <1>4. j.weekday \in {<<>>} \cup ((0..6) \X BOOLEAN)
    BY <1>1 DEF Phrase
  <1>5. j.in \in Seq(Nat)
    BY <1>1
  <1> HIDE DEF j
  <1>6. j \in Phrase
    BY <1>1, <1>2, <1>3, <1>4, <1>5 DEF Phrase
  <1> QED  BY <1>6 DEF j

\* A text is read as one phrase, or as the two it has.
LEMMA PartsOfText ==
  ASSUME NEW text \in Text, text # <<>>
  PROVE  LET parts == SplitRange(text)
         IN  /\ parts[1] \in Phrase
             /\ Len(parts) = 1 \/ (parts = text /\ Len(text) = 2 /\ text[2] \in Phrase)
             /\ Len(text) = 2 /\ IsClockOnly(text[2]) => parts = text
  <1>1. text \in Seq(Phrase) /\ Len(text) \in {1, 2} /\ text[1] \in Phrase /\ (Len(text) = 2 => text[2] \in Phrase)
    <2>1. text \in Seq(Phrase) /\ Len(text) <= 2
      BY DEF Text
    <2>2. Len(text) # 0 /\ Len(text) \in Nat
      BY <2>1, EmptySeq
    <2>3. PICK n \in Nat : n = Len(text) /\ n # 0 /\ n <= 2
      BY <2>1, <2>2
    <2>4. n = 1 \/ n = 2
      BY <2>3
    <2>5. Len(text) \in {1, 2}
      BY <2>3, <2>4
    <2> QED  BY <2>1, <2>5
  <1>2. CASE Len(text) = 1
    BY <1>1, <1>2 DEF SplitRange
  <1>3. CASE Len(text) = 2 /\ LooksLikeEnd(text[2])
    BY <1>1, <1>3 DEF SplitRange
  <1>4. CASE Len(text) = 2 /\ ~LooksLikeEnd(text[2])
    <2>1. PICK joined \in Phrase : joined = Joined(text[1], text[2])
      BY <1>1, <1>4, JoinedIsPhrase
    <2>2. SplitRange(text) = <<joined>>
      BY <1>1, <1>4, <2>1 DEF SplitRange
    <2>3. ~IsClockOnly(text[2])
      BY <1>4 DEF LooksLikeEnd
    <2> QED  BY <2>2, <2>3
  <1> QED  BY <1>1, <1>2, <1>3, <1>4

LEMMA RangeEndsLater ==
  ASSUME NEW q, NEW start, NEW now, NEW zone, RangeEnd(q, start, now, zone) # <<>>
  PROVE  \E end : RangeEnd(q, start, now, zone) = <<end>> /\ end > start
  BY DEF RangeEnd

\* A mere clock is read as its time on the day the range begins.
LEMMA ClockEnds ==
  ASSUME NEW q \in Phrase, NEW start \in Int, NEW now \in Int, NEW zone, IsClockOnly(q),
         NEW n \in DOMAIN q.clocks, IsClock(q.clocks[n]),
         StartOfDay(start) + MinuteOfDay(q.clocks[n]) > start
  PROVE  RangeEnd(q, start, now, zone) = <<StartOfDay(start) + MinuteOfDay(q.clocks[n])>>
  <1> DEFINE time == MinuteOfDay(q.clocks[n])
             today == DayOf(now)
             relative == StartOfDay(now) + time
             read == IF relative > now THEN relative ELSE relative + Day
             end == StartOfDay(start) + time
  <1>1. /\ q.clocks \in Seq(ClockFound) /\ Len(q.clocks) = 1 /\ n = 1
        /\ Foremost(ExtractClock(q), q.clocks, Len(q.clocks))
    <2>1. q.clocks \in Seq(ClockFound) /\ Foremost(ExtractClock(q), q.clocks, Len(q.clocks))
      BY ClockFoundIsForemost
    <2>2. Len(q.clocks) = 1
      BY DEF IsClockOnly
    <2>3. DOMAIN q.clocks = 1..1
      BY <2>1, <2>2
    <2> QED  BY <2>1, <2>2, <2>3
  <1>2. /\ q.at = <<>> /\ q.in = <<>> /\ q.date = <<>> /\ q.words = {} /\ q.weekday = <<>>
    BY DEF IsClockOnly, Nothing
  <1>3. ExtractClock(q) = <<q.clocks[n]>>
    <2>1. n \in {k \in 1..Len(q.clocks) : IsClock(q.clocks[k])} /\ \A k \in 1..Len(q.clocks) : k = n
      BY <1>1
    <2> QED  BY <1>1, <2>1 DEF Foremost
  <1>4. TimeOfDay(q) = <<time>>
    BY <1>3 DEF TimeOfDay
  <1>5. time \in 0..(Day - 1)
    BY <1>1, MinuteInDay
  <1>6. ParseSingle(q, now, zone) = <<read>>
    <2>1. DayOffset(q, now) = <<>>
      BY <1>2 DEF DayOffset
    <2>2. TimeOr(TimeOfDay(q), DefaultTime) = time
      BY <1>4 DEF TimeOr
    <2>3. TimeOfDay(q) # <<>>
      BY <1>4
    <2> HIDE DEF time
    <2>4. Relative(q, now) = <<read>>
      BY <2>1, <2>2, <2>3 DEF Relative
    <2> QED  BY <1>2, <2>4 DEF ParseSingle
  <1> HIDE DEF time
  <1>7. read % Day = time
    <2>1. today \in Int /\ StartOfDay(now) = today * Day
      BY DayParts
    <2> HIDE DEF today
    <2>2. read = today * Day + time \/ read = (today + 1) * Day + time
      BY <1>5, <2>1, Minutes
    <2>3. today + 1 \in Int
      BY <2>1
    <2> QED  BY <1>5, <2>1, <2>2, <2>3, DayIs
  <1>8. OnDayOf(start, read) = end
    BY <1>7 DEF OnDayOf
  <1> HIDE DEF read
  <1>9. <<read>> # <<>> /\ <<read>>[1] = read
    OBVIOUS
  <1>10. end > start
    BY DEF time
  <1> HIDE DEF end
  <1>11. RangeEnd(q, start, now, zone) = <<end>>
    BY <1>6, <1>8, <1>9, <1>10 DEF RangeEnd
  <1> QED  BY <1>11 DEF end, time

LEMMA ExpressionIsText ==
  ASSUME NEW slots \in SaidSlots
  PROVE  /\ slots.when \in Text /\ slots.start \in Text /\ slots.summary \in Text /\ slots.end \in Text
         /\ slots.duration \in Seq(Nat \ {0})
         /\ Expression(slots) \in Text /\ ReminderText(slots) \in Text
  <1>1. /\ slots.when \in Text /\ slots.start \in Text /\ slots.summary \in Text /\ slots.end \in Text
        /\ slots.duration \in Seq(Nat \ {0})
    BY SaidAssumption
  <1>2. PickExpression(slots.when, slots.start) \in Text
    BY <1>1 DEF PickExpression
  <1>3. Expression(slots) \in {slots.summary, PickExpression(slots.when, slots.start)}
    BY DEF Expression
  <1>4. ReminderText(slots) \in Text
    BY <1>1 DEF ReminderText
  <1> QED  BY <1>1, <1>2, <1>3, <1>4

\* Where a text is read, its first part is.
LEMMA RangeRead ==
  ASSUME NEW text \in Text, text # <<>>, NEW now \in Int, NEW zone \in Offsets, ParseRange(text, now, zone).start # <<>>
  PROVE  LET range == ParseRange(text, now, zone)
         IN  /\ \E t \in Int : range.start = <<t>> /\ Meant(SplitRange(text)[1], now, zone, t)
             /\ range.end # <<>> => \E end : range.end = <<end>> /\ end > range.start[1]
             /\ Len(text) = 2 /\ IsClockOnly(text[2]) => range.end = RangeEnd(text[2], range.start[1], now, zone)
  <1> DEFINE parts == SplitRange(text)
             range == ParseRange(text, now, zone)
  <1>1. /\ parts[1] \in Phrase
        /\ Len(parts) = 1 \/ (parts = text /\ Len(text) = 2 /\ text[2] \in Phrase)
        /\ Len(text) = 2 /\ IsClockOnly(text[2]) => parts = text
    BY PartsOfText
  <1>2. /\ range.start = ParseSingle(parts[1], now, zone)
        /\ range.end = IF range.start = <<>> \/ Len(parts) = 1 THEN <<>>
                       ELSE RangeEnd(parts[2], range.start[1], now, zone)
    BY DEF ParseRange
  <1> HIDE DEF parts, range
  <1>3. range.start # <<>>
    BY DEF range
  <1>4. PICK t \in Int : range.start = <<t>> /\ Meant(parts[1], now, zone, t)
    BY <1>1, <1>2, <1>3, ReadAsMeant
  <1>5. ASSUME range.end # <<>>
        PROVE  \E end : range.end = <<end>> /\ end > range.start[1]
    <2>1. range.end = RangeEnd(parts[2], range.start[1], now, zone)
      BY <1>2, <1>5
    <2> QED  BY <1>5, <2>1, RangeEndsLater
  <1>6. ASSUME Len(text) = 2, IsClockOnly(text[2])
        PROVE  range.end = RangeEnd(text[2], range.start[1], now, zone)
    BY <1>1, <1>2, <1>3, <1>6
  <1> QED  BY <1>4, <1>5, <1>6 DEF parts, range

\* A clock said for the end is the end, on the day of the start, if that is later.
EndsAsSaid(text, start, end) ==
  Len(text) = 2 => \A n \in DOMAIN text[2].clocks :
    LET t == StartOfDay(start) + MinuteOfDay(text[2].clocks[n])
    IN  IsClock(text[2].clocks[n]) /\ IsClockOnly(text[2]) /\ t > start => end = t

LEMMA EndIsLater ==
  ASSUME NEW slots \in SaidSlots, NEW start \in Int, NEW now \in Int, NEW zone
  PROVE  EndOf(slots, start, now, zone) > start
  <1> DEFINE parsed == IF slots.end = <<>> THEN <<>> ELSE ParseRange(slots.end, now, zone).start
  <1>1. start + Hour > start
    BY Minutes
  <1>2. CASE slots.end # <<>>
    <2> HIDE DEF parsed
    <2>1. EndOf(slots, start, now, zone) = IF parsed # <<>> /\ parsed[1] > start THEN parsed[1] ELSE start + Hour
      BY <1>2 DEF EndOf, parsed
    <2> QED  BY <1>1, <2>1
  <1>3. CASE slots.end = <<>>
    <2>1. EndOf(slots, start, now, zone) = start + TimeOr(slots.duration, Hour)
      BY <1>3 DEF EndOf
    <2>2. TimeOr(slots.duration, Hour) \in Nat \ {0}
      <3>1. slots.duration \in Seq(Nat \ {0})
        BY ExpressionIsText
      <3>2. slots.duration # <<>> => slots.duration[1] \in Nat \ {0}
        BY <3>1, EmptySeq
      <3> QED  BY <3>2, Minutes DEF TimeOr
    <2> QED  BY <2>1, <2>2
  <1> QED  BY <1>2, <1>3

\* The window of what was said begins when it is meant to and ends later.
LEMMA WindowRead ==
  ASSUME NEW slots \in SaidSlots, NEW now \in Int, NEW zone \in Offsets, Window(slots, now, zone) # <<>>
  PROVE  LET text == Expression(slots)
         IN  \E start, end :
               /\ start \in Int
               /\ Window(slots, now, zone) = <<[start |-> start, end |-> end, zone |-> zone]>>
               /\ end > start
               /\ text # <<>> => Meant(SplitRange(text)[1], now, zone, start) /\ EndsAsSaid(text, start, end)
  <1> DEFINE text == Expression(slots)
             range == IF text = <<>> THEN [start |-> <<NextLocalHour(now)>>, end |-> <<>>] ELSE ParseRange(text, now, zone)
             start == range.start[1]
             end == IF range.end # <<>> THEN range.end[1] ELSE EndOf(slots, start, now, zone)
  <1>1. text \in Text
    BY ExpressionIsText
  <1>2. /\ range.start # <<>>
        /\ Window(slots, now, zone) = <<[start |-> start, end |-> end, zone |-> zone]>>
    BY DEF Window
  <1>3. CASE text = <<>>
    <2>1. range.start = <<NextLocalHour(now)>> /\ range.end = <<>>
      BY <1>3
    <2>2. start \in Int
      <3>1. NextLocalHour(now) \in Int
        BY Minutes DEF NextLocalHour
      <3> HIDE DEF range
      <3> QED  BY <2>1, <3>1
    <2>3. end = EndOf(slots, start, now, zone)
      BY <2>1
    <2>4. end > start
      <3> HIDE DEF start, end
      <3> QED  BY <2>2, <2>3, EndIsLater
    <2> HIDE DEF start, end
    <2> QED  BY <1>2, <1>3, <2>2, <2>4 DEF text
  <1>4. CASE text # <<>>
    <2>1. range = ParseRange(text, now, zone)
      BY <1>4
    <2> HIDE DEF range, text
    <2>2. /\ \E t \in Int : range.start = <<t>> /\ Meant(SplitRange(text)[1], now, zone, t)
          /\ range.end # <<>> => \E e : range.end = <<e>> /\ e > range.start[1]
          /\ Len(text) = 2 /\ IsClockOnly(text[2]) => range.end = RangeEnd(text[2], range.start[1], now, zone)
      BY <1>1, <1>2, <1>4, <2>1, RangeRead
    <2>3. start \in Int /\ Meant(SplitRange(text)[1], now, zone, start)
      BY <2>2
    <2>4. end > start
      <3>1. CASE range.end # <<>>
        <4>1. PICK e : range.end = <<e>> /\ e > start
          BY <2>2, <3>1
        <4>2. end = e
          BY <3>1, <4>1
        <4> QED  BY <4>1, <4>2
      <3>2. CASE range.end = <<>>
        <4>1. end = EndOf(slots, start, now, zone)
          BY <3>2
        <4> HIDE DEF start, end
        <4> QED  BY <2>3, <4>1, EndIsLater
      <3> QED  BY <3>1, <3>2
    <2>5. EndsAsSaid(text, start, end)
      <3> SUFFICES ASSUME Len(text) = 2, NEW n \in DOMAIN text[2].clocks,
                          IsClock(text[2].clocks[n]), IsClockOnly(text[2]),
                          StartOfDay(start) + MinuteOfDay(text[2].clocks[n]) > start
                   PROVE  end = StartOfDay(start) + MinuteOfDay(text[2].clocks[n])
        <4> HIDE DEF start, end
        <4> QED  BY DEF EndsAsSaid
      <3>1. text[2] \in Phrase
        <4>1. text \in Seq(Phrase)
          BY <1>1 DEF Text
        <4>2. 2 \in 1..Len(text)
          OBVIOUS
        <4> QED  BY <4>1, <4>2, ElementOfSeq
      <3>2. range.end = RangeEnd(text[2], start, now, zone)
        BY <2>2
      <3>3. range.end = <<StartOfDay(start) + MinuteOfDay(text[2].clocks[n])>>
        <4> HIDE DEF start, end
        <4> QED  BY <2>3, <3>1, <3>2, ClockEnds
      <3> QED  BY <3>3
    <2> HIDE DEF start, end
    <2> QED  BY <1>2, <2>3, <2>4, <2>5 DEF text
  <1> QED  BY <1>3, <1>4

-----------------------------------------------------------------------------
(* What was meant when it was said is what is meant when it is booked, but   *)
(* for what has been overtaken.                                              *)

LEMMA SameDayMeant ==
  ASSUME NEW p, NEW then, NEW now, NEW t, DayOf(then) = DayOf(now),
         \/ p.date # <<>> \/ p.weekday # <<>>
         \/ p.words \cap {"dayAfterTomorrow", "tomorrow", "today", "tonight"} # {}
  PROVE  OnDaySaid(p, now, t) <=> OnDaySaid(p, then, t)
  BY DEF OnDaySaid

Overtaken(p, then, now, zone, start) ==
  \/ DayOf(then) # DayOf(now)
  \/ p.in # <<>> /\ now # then
  \/ \E d \in {0, Day} : LET t == StartOfDay(then) + d + (start % Day)
                         IN  Meant(p, then, zone, t) /\ t <= now

LEMMA StillMeant ==
  ASSUME NEW p, NEW then \in Int, NEW now \in Int, NEW zone, NEW t \in Int,
         then <= now, Meant(p, now, zone, t), ~Overtaken(p, then, now, zone, t)
  PROVE  Meant(p, then, zone, t)
  <1>1. DayOf(then) = DayOf(now) /\ (p.in # <<>> => now = then)
    BY DEF Overtaken
  <1>2. CASE p.at # <<>> \/ p.in # <<>>
    BY <1>1, <1>2 DEF Meant
  <1>3. CASE /\ p.at = <<>> /\ p.in = <<>>
             /\ \/ p.date # <<>> \/ p.weekday # <<>>
                \/ p.words \cap {"dayAfterTomorrow", "tomorrow", "today", "tonight"} # {}
    <2>1. \A u : OnDaySaid(p, now, u) <=> OnDaySaid(p, then, u)
      BY <1>1, <1>3, SameDayMeant
    <2> QED  BY <1>1, <1>3, <2>1 DEF Meant
  <1>4. CASE /\ p.at = <<>> /\ p.in = <<>> /\ p.date = <<>> /\ p.weekday = <<>>
             /\ p.words \cap {"dayAfterTomorrow", "tomorrow", "today", "tonight"} = {}
    <2> DEFINE time == t % Day
               today == DayOf(then)
    <2>1. /\ today \in Int /\ time \in 0..(Day - 1) /\ StartOfDay(then) = today * Day
          /\ DayOf(t) \in Int /\ t = DayOf(t) * Day + time
          /\ then % Day \in 0..(Day - 1) /\ then = today * Day + (then % Day)
          /\ now % Day \in 0..(Day - 1) /\ now = today * Day + (now % Day)
      BY <1>1, DayParts
    <2>2. \A m, u : OnDaySaid(p, m, u) <=> u > m
      BY <1>4, NoDayOnDay
    <2>3. /\ t > now /\ SaysTime(p, time)
          /\ \A d \in today..(DayOf(t) - 1) : ~(d * Day + time > now)
      BY <1>1, <1>4, <2>2 DEF Meant
    <2> HIDE DEF time, today
    <2>4. t > then
      BY <2>3
    <2>5. ASSUME NEW d \in today..(DayOf(t) - 1), d * Day + time > then
          PROVE  FALSE
      <3>1. d \in Int /\ d >= today /\ d * Day + time <= now
        BY <2>1, <2>3, Minutes
      <3>2. d = today
        <4> DEFINE restNow == now % Day
        <4>1. restNow \in 0..(Day - 1) /\ now = today * Day + restNow
          BY <2>1
        <4> HIDE DEF restNow
        <4>2. /\ restNow \in 0..1439 /\ time \in 0..1439
              /\ d * 1440 + time <= today * 1440 + restNow
          BY <2>1, <3>1, <4>1, Minutes
        <4>3. today \in Int /\ d \in Int /\ d >= today
          BY <2>1, <3>1
        <4>4. ASSUME d >= today + 1 PROVE FALSE
          <5>1. d * 1440 >= today * 1440 + 1440 /\ d * 1440 \in Int /\ today * 1440 \in Int
            BY <4>3, <4>4
          <5>2. time \in Int /\ time >= 0 /\ restNow \in Int /\ restNow <= 1439
            BY <4>2
          <5> QED  BY <4>2, <5>1, <5>2
        <4> QED  BY <4>3, <4>4
      <3> DEFINE u == StartOfDay(then) + 0 + time
      <3>3. u = today * Day + time /\ DayOf(u) = today /\ u % Day = time
        <4>1. u = today * Day + time
          BY <2>1, Minutes
        <4> HIDE DEF u
        <4> QED  BY <2>1, <4>1, DayIs
      <3> HIDE DEF u
      <3>4. Meant(p, then, zone, u)
        <4>1. u > then
          BY <2>5, <3>2, <3>3
        <4>2. \A e \in DayOf(then)..(DayOf(u) - 1) : FALSE
          BY <2>1, <3>3 DEF today
        <4> QED  BY <1>4, <2>2, <2>3, <3>3, <4>1, <4>2 DEF Meant
      <3>5. u <= now
        BY <3>1, <3>2, <3>3
      <3> QED  BY <3>4, <3>5 DEF Overtaken, u, time
    <2>6. \A d \in DayOf(then)..(DayOf(t) - 1) : ~OnDaySaid(p, then, d * Day + time)
      BY <2>2, <2>5 DEF today
    <2> QED  BY <1>4, <2>2, <2>3, <2>4, <2>6 DEF Meant, time
  <1> QED  BY <1>2, <1>3, <1>4

-----------------------------------------------------------------------------
(* The life of a booking *)

Bookings == {"none", "proposed", "google", "create", "booked", "reminder", "failed"}

\* What was said was said before it is booked, and an event on its way is for
\* the zone that was asked for, if one was.
CalendarInv ==
  /\ moment \in Nat /\ prefZone \in Zones \cup {Utc, NoZone}
  /\ booking = [pc |-> booking.pc, slots |-> booking.slots, zone |-> booking.zone, said |-> booking.said,
                at |-> booking.at, event |-> booking.event]
  /\ booking.pc \in Bookings
  /\ booking.pc # "none" => /\ booking.slots \in SaidSlots /\ booking.zone \in Zones \cup {Utc, NoZone}
                            /\ booking.said \in Nat /\ booking.said <= moment
  /\ booking.pc \in {"google", "create"} => booking.event[1].zone = booking.zone \/ booking.zone = NoZone
  /\ EventAsSaid

\* Until it is booked, or due, nothing is claimed of it.
LEMMA NotYetBooked ==
  ASSUME booking.pc \notin {"booked", "reminder"}
  PROVE  EventAsSaid
  BY DEF EventAsSaid

LEMMA CalendarInitially == CalendarInit => CalendarInv
  <1> SUFFICES ASSUME CalendarInit PROVE CalendarInv
    OBVIOUS
  <1>1. booking = NoBooking /\ moment \in Nat /\ prefZone \in Zones \cup {Utc, NoZone}
    BY CalendarAssumption DEF CalendarInit
  <1>2. booking.pc = "none"
    BY <1>1 DEF NoBooking
  <1>3. EventAsSaid
    BY <1>2, NotYetBooked
  <1>4. booking = [pc |-> booking.pc, slots |-> booking.slots, zone |-> booking.zone, said |-> booking.said,
                   at |-> booking.at, event |-> booking.event]
    BY <1>1 DEF NoBooking
  <1> QED  BY <1>1, <1>2, <1>3, <1>4 DEF CalendarInv, Bookings

\* What is there of EventAsSaid for one event.
AsSaid(text, zone, said, at, event) ==
  LET p == SplitRange(text)[1]
      then == said + OffsetOf(event.zone)
      now == at + OffsetOf(event.zone)
  IN  /\ text # <<>> => /\ Meant(p, then, event.zone, event.start) \/ Overtaken(p, then, now, event.zone, event.start)
                        /\ Meant(p, now, event.zone, event.start)

LEMMA ReadWhenBooked ==
  ASSUME NEW text, NEW zone \in Offsets, NEW said \in Nat, NEW at \in Nat, said <= at, NEW start \in Int, NEW event,
         event.zone = zone, event.start = start,
         text # <<>> => Meant(SplitRange(text)[1], at + OffsetOf(zone), zone, start)
  PROVE  AsSaid(text, zone, said, at, event)
  <1> DEFINE p == SplitRange(text)[1]
             then == said + OffsetOf(zone)
             now == at + OffsetOf(zone)
  <1>1. then \in Int /\ now \in Int /\ then <= now
    BY OffsetIs
  <1> HIDE DEF p, then, now
  <1>2. ASSUME text # <<>>
        PROVE  Meant(p, now, zone, start) /\ (Meant(p, then, zone, start) \/ Overtaken(p, then, now, zone, start))
    <2>1. Meant(p, now, zone, start)
      BY <1>2 DEF p, now
    <2> QED  BY <1>1, <2>1, StillMeant
  <1> QED  BY <1>2 DEF AsSaid, p, then, now

\* An event that is created is what was said.
LEMMA CreateKeeps == CalendarInv /\ CreateEvent => CalendarInv'
  <1> SUFFICES ASSUME CalendarInv, CreateEvent PROVE CalendarInv'
    OBVIOUS
  <1>1. /\ booking.pc = "create" /\ UNCHANGED <<moment, prefZone, google, zoneSets>>
        /\ booking.slots \in SaidSlots /\ booking.zone \in Zones \cup {Utc, NoZone}
        /\ booking.said \in Nat /\ booking.said <= moment /\ moment \in Nat
        /\ booking.event[1].zone = booking.zone \/ booking.zone = NoZone
    BY DEF CalendarInv, CreateEvent
  <1>2. PICK setting, primary, zone :
          /\ zone = CalendarZone(booking.event[1].zone, setting, primary)
          /\ LET window == IF zone = NoZone THEN <<>> ELSE Window(booking.slots, moment + OffsetOf(zone), zone)
             IN  IF window = <<>> THEN MayRetry
                 ELSE booking' = [booking EXCEPT !.pc = "booked", !.at = moment, !.event = window]
    <2>1. PICK setting \in Zones \cup {Utc, NoZone}, primary \in Zones \cup {Utc, NoZone} :
            LET zone == CalendarZone(booking.event[1].zone, setting, primary)
                window == IF zone = NoZone THEN <<>> ELSE Window(booking.slots, moment + OffsetOf(zone), zone)
            IN  IF window = <<>> THEN MayRetry
                ELSE booking' = [booking EXCEPT !.pc = "booked", !.at = moment, !.event = window]
      BY DEF CreateEvent
    <2>2. PICK zone : zone = CalendarZone(booking.event[1].zone, setting, primary)
      OBVIOUS
    <2> QED  BY <2>1, <2>2
  <1>3. CASE MayRetry
    <2>1. booking' = [booking EXCEPT !.pc = "proposed", !.event = <<>>]
      BY <1>3 DEF MayRetry
    <2>2. booking' = [pc |-> "proposed", slots |-> booking.slots, zone |-> booking.zone, said |-> booking.said,
                      at |-> booking.at, event |-> <<>>]
      BY <2>1 DEF CalendarInv
    <2>3. EventAsSaid'
      <3>1. booking'.pc = "proposed"
        BY <2>2
      <3> QED  BY <3>1 DEF EventAsSaid
    <2> QED  BY <1>1, <2>2, <2>3 DEF CalendarInv, Bookings
  <1>4. CASE ~MayRetry
    <2>1. /\ zone # NoZone /\ Window(booking.slots, moment + OffsetOf(zone), zone) # <<>>
          /\ booking' = [booking EXCEPT !.pc = "booked", !.at = moment,
                           !.event = Window(booking.slots, moment + OffsetOf(zone), zone)]
      BY <1>2, <1>4
    <2>2. zone \in Zones /\ zone \in Offsets /\ (booking.zone \in Zones => zone = booking.zone)
      BY <1>1, <1>2, <2>1, CalendarAssumption DEF CalendarZone, Offsets
    <2> DEFINE now == moment + OffsetOf(zone)
               text == Expression(booking.slots)
    <2>3. now \in Int
      BY <1>1, <2>2, OffsetIs
    <2>4. PICK start, end :
            /\ start \in Int
            /\ Window(booking.slots, now, zone) = <<[start |-> start, end |-> end, zone |-> zone]>>
            /\ end > start
            /\ text # <<>> => Meant(SplitRange(text)[1], now, zone, start) /\ EndsAsSaid(text, start, end)
      <3> HIDE DEF now
      <3>1. Window(booking.slots, now, zone) # <<>>
        BY <2>1 DEF now
      <3> QED  BY <1>1, <2>2, <2>3, <3>1, WindowRead
    <2>5. PICK event : event = [start |-> start, end |-> end, zone |-> zone]
      OBVIOUS
    <2>6. booking' = [pc |-> "booked", slots |-> booking.slots, zone |-> booking.zone, said |-> booking.said,
                      at |-> moment, event |-> <<event>>]
      <3> HIDE DEF now
      <3>1. booking' = [booking EXCEPT !.pc = "booked", !.at = moment, !.event = <<event>>]
        BY <2>1, <2>4, <2>5 DEF now
      <3> QED  BY <3>1 DEF CalendarInv
    <2>7. event.zone = zone /\ event.start = start /\ event.end = end
      BY <2>5
    <2>8. AsSaid(text, zone, booking.said, moment, event)
      <3> HIDE DEF text
      <3> QED  BY <1>1, <2>2, <2>4, <2>7, ReadWhenBooked
    <2>9. EventAsSaid'
      <3>1. ASSUME Len(text) = 2,
                   NEW t \in {StartOfDay(start) + MinuteOfDay(c) : c \in {c \in {text[2].clocks[n] : n \in DOMAIN text[2].clocks} : IsClock(c)}},
                   IsClockOnly(text[2]), t > start
            PROVE  end = t
        <4>1. PICK n \in DOMAIN text[2].clocks : IsClock(text[2].clocks[n]) /\ t = StartOfDay(start) + MinuteOfDay(text[2].clocks[n])
          BY <3>1
        <4>2. text # <<>>
          <5>1. Len(<<>>) = 0
            BY EmptySeq
          <5> QED  BY <3>1, <5>1
        <4>3. EndsAsSaid(text, start, end)
          BY <2>4, <4>2
        <4> HIDE DEF text
        <4> QED  BY <3>1, <4>1, <4>3 DEF EndsAsSaid
      <3>2. booking'.pc = "booked" /\ booking'.event[1] = event /\ booking'.slots = booking.slots
            /\ booking'.said = booking.said /\ booking'.at = moment /\ booking'.zone = booking.zone
        BY <2>6
      <3> HIDE DEF text
      <3>3. AsSaid(text, zone, booking.said, moment, event) /\ text = Expression(booking.slots)
        BY <2>8 DEF text
      <3> QED  BY <2>2, <2>4, <2>7, <3>1, <3>2, <3>3 DEF EventAsSaid, AsSaid, Overtaken
    <2> QED  BY <1>1, <2>6, <2>9 DEF CalendarInv, Bookings
  <1> QED  BY <1>3, <1>4

\* So is a reminder that is made.
LEMMA ReminderKeeps == CalendarInv /\ CreateReminder => CalendarInv'
  <1> SUFFICES ASSUME CalendarInv, CreateReminder PROVE CalendarInv'
    OBVIOUS
  <1>1. UNCHANGED <<moment, prefZone, google, zoneSets>> /\ moment \in Nat /\ prefZone \in Zones \cup {Utc, NoZone}
    BY DEF CalendarInv, CreateReminder
  <1>2. PICK slots \in SaidSlots, asked \in Zones \cup {Utc, NoZone}, said \in Nat :
          said <= moment /\ ResolveReminder(slots, asked, said)
    <2>1. CASE \E slots \in SaidSlots, z \in {NoZone, Utc} \cup Zones : ResolveReminder(slots, z, moment)
      BY <1>1, <2>1
    <2>2. CASE booking.pc = "proposed" /\ ResolveReminder(booking.slots, booking.zone, booking.said)
      BY <2>2 DEF CalendarInv
    <2> QED  BY <2>1, <2>2 DEF CreateReminder
  <1> DEFINE text == ReminderText(slots)
             DueIn(now, zone) == IF text = <<>> THEN <<now + DefaultLead>> ELSE ParseRange(text, now, zone).start
  <1>3. PICK zone \in {asked} \cup (IF asked = NoZone THEN {prefZone} ELSE {}) :
          /\ zone # NoZone
          /\ DueIn(moment + OffsetOf(zone), zone) # <<>>
          /\ booking' = [NoBooking EXCEPT !.pc = "reminder", !.slots = slots, !.said = said, !.at = moment,
                           !.event = <<[start |-> DueIn(moment + OffsetOf(zone), zone)[1],
                                        end |-> DueIn(moment + OffsetOf(zone), zone)[1], zone |-> zone]>>]
    BY <1>2 DEF ResolveReminder
  <1> DEFINE now == moment + OffsetOf(zone)
             due == DueIn(now, zone)
             start == due[1]
  <1>4. zone \in Offsets
    BY <1>1, <1>2, <1>3 DEF Offsets
  <1>5. text \in Text /\ now \in Int
    BY <1>1, <1>4, ExpressionIsText, OffsetIs
  <1>6. start \in Int /\ (text # <<>> => Meant(SplitRange(text)[1], now, zone, start))
    <2>1. CASE text = <<>>
      <3>1. due = <<now + DefaultLead>> /\ DefaultLead \in Int
        BY <2>1, Minutes DEF DefaultLead
      <3> HIDE DEF due, now
      <3> QED  BY <1>5, <2>1, <3>1
    <2>2. CASE text # <<>>
      <3>1. due = ParseRange(text, now, zone).start /\ due # <<>>
        BY <1>3, <2>2
      <3> HIDE DEF due, now, text
      <3>2. PICK t \in Int : due = <<t>> /\ Meant(SplitRange(text)[1], now, zone, t)
        BY <1>4, <1>5, <2>2, <3>1, RangeRead
      <3> QED  BY <3>2
    <2> QED  BY <2>1, <2>2
  <1>7. PICK event : event = [start |-> start, end |-> start, zone |-> zone]
    OBVIOUS
  <1>8. booking' = [NoBooking EXCEPT !.pc = "reminder", !.slots = slots, !.said = said, !.at = moment, !.event = <<event>>]
    BY <1>3, <1>7
  <1> HIDE DEF text, start, due
  <1>9. booking' = [pc |-> "reminder", slots |-> slots, zone |-> NoZone, said |-> said, at |-> moment, event |-> <<event>>]
    BY <1>8 DEF NoBooking
  <1>10. event.zone = zone /\ event.start = start
    BY <1>7
  <1>11. AsSaid(text, zone, said, moment, event)
    BY <1>1, <1>2, <1>4, <1>6, <1>10, ReadWhenBooked
  <1>12. EventAsSaid'
    <2>1. /\ booking'.pc = "reminder" /\ booking'.event[1] = event /\ booking'.slots = slots
          /\ booking'.said = said /\ booking'.at = moment
      BY <1>9
    <2>2. AsSaid(text, zone, said, moment, event) /\ text = ReminderText(slots)
      BY <1>11 DEF text
    <2> QED  BY <2>1, <2>2 DEF EventAsSaid, AsSaid, Overtaken
  <1> QED  BY <1>1, <1>2, <1>9, <1>12 DEF CalendarInv, Bookings

\* Time and settings pass by a booking.
LEMMA PassingKeeps ==
  ASSUME CalendarInv, UNCHANGED booking, moment' \in Nat, moment' >= moment, prefZone' \in Zones \cup {Utc, NoZone}
  PROVE  CalendarInv'
  <1>1. EventAsSaid'
    BY DEF CalendarInv, EventAsSaid
  <1> QED  BY <1>1 DEF CalendarInv

\* A step on the way to the booking, or back.
LEMMA OnTheWayKeeps ==
  ASSUME CalendarInv, UNCHANGED <<moment, prefZone>>, NEW pc \in {"proposed", "google", "create", "failed"}, NEW event,
         booking.pc # "none", booking' = [booking EXCEPT !.pc = pc, !.event = event],
         pc \in {"google", "create"} => event[1].zone = booking.zone \/ booking.zone = NoZone
  PROVE  CalendarInv'
  <1>1. booking' = [pc |-> pc, slots |-> booking.slots, zone |-> booking.zone, said |-> booking.said,
                    at |-> booking.at, event |-> event]
    BY DEF CalendarInv
  <1>2. EventAsSaid'
    <2>1. booking'.pc = pc
      BY <1>1
    <2> QED  BY <2>1 DEF EventAsSaid
  <1> QED  BY <1>1, <1>2 DEF CalendarInv, Bookings

LEMMA CalendarStep == CalendarInv /\ [CalendarNext]_calendarVars => CalendarInv'
  <1> SUFFICES ASSUME CalendarInv, [CalendarNext]_calendarVars PROVE CalendarInv'
    OBVIOUS
  <1>0. moment \in Nat /\ prefZone \in Zones \cup {Utc, NoZone}
    BY DEF CalendarInv
  <1>1. CASE TimePasses
    <2>1. UNCHANGED <<prefZone, booking>> /\ moment' \in Nat /\ moment' >= moment
      BY <1>0, <1>1, CalendarAssumption DEF TimePasses
    <2> QED  BY <1>0, <2>1, PassingKeeps
  <1>2. CASE ChangeTimezone
    <2>1. UNCHANGED <<moment, booking>> /\ prefZone' \in Zones \cup {Utc, NoZone}
      BY <1>2 DEF ChangeTimezone
    <2> QED  BY <1>0, <2>1, PassingKeeps
  <1>3. CASE ChangeConnection \/ UNCHANGED calendarVars
    <2>1. UNCHANGED <<moment, prefZone, booking>>
      BY <1>3 DEF ChangeConnection, calendarVars
    <2> QED  BY <1>0, <2>1, PassingKeeps
  <1>4. CASE ProposeEvent
    <2>1. PICK slots \in SaidSlots, z \in {NoZone, Utc} \cup Zones :
            booking' = [NoBooking EXCEPT !.pc = "proposed", !.slots = slots, !.zone = z, !.said = moment]
      BY <1>4 DEF ProposeEvent
    <2>2. booking' = [pc |-> "proposed", slots |-> slots, zone |-> z, said |-> moment, at |-> 0, event |-> <<>>]
      BY <2>1 DEF NoBooking
    <2>3. EventAsSaid'
      <3>1. booking'.pc = "proposed"
        BY <2>2
      <3> QED  BY <3>1 DEF EventAsSaid
    <2>4. UNCHANGED <<moment, prefZone>>
      BY <1>4 DEF ProposeEvent
    <2> QED  BY <1>0, <2>2, <2>3, <2>4 DEF CalendarInv, Bookings
  <1>5. CASE ConfirmEvent
    <2>1. PICK read \in {prefZone, NoZone} :
            booking' = [booking EXCEPT !.pc = "google",
                          !.event = <<[zone |-> IF booking.zone = NoZone THEN read ELSE booking.zone]>>]
      BY <1>5 DEF ConfirmEvent
    <2>2. PICK event : event = <<[zone |-> IF booking.zone = NoZone THEN read ELSE booking.zone]>>
      OBVIOUS
    <2>3. event[1].zone = booking.zone \/ booking.zone = NoZone
      BY <2>2
    <2>4. booking' = [booking EXCEPT !.pc = "google", !.event = event]
      BY <2>1, <2>2
    <2>5. UNCHANGED <<moment, prefZone>> /\ booking.pc # "none"
      BY <1>5 DEF ConfirmEvent
    <2> QED  BY <2>3, <2>4, <2>5, OnTheWayKeeps
  <1>6. CASE MayRetry /\ UNCHANGED <<moment, prefZone>> /\ booking.pc # "none"
    BY <1>6, OnTheWayKeeps DEF MayRetry
  <1>7. CASE WithGoogle
    <2>1. booking.pc = "google" /\ UNCHANGED <<moment, prefZone>>
      BY <1>7 DEF WithGoogle
    <2>2. CASE booking' = [booking EXCEPT !.pc = "create"]
      <3>1. booking' = [booking EXCEPT !.pc = "create", !.event = booking.event]
        BY <2>2 DEF CalendarInv
      <3>2. booking.event[1].zone = booking.zone \/ booking.zone = NoZone
        BY <2>1 DEF CalendarInv
      <3> QED  BY <2>1, <3>1, <3>2, OnTheWayKeeps
    <2> QED  BY <1>6, <1>7, <2>1, <2>2 DEF WithGoogle
  <1>8. CASE RefreshFails
    BY <1>6, <1>8 DEF RefreshFails
  <1>9. CASE CreateFails
    <2>1. /\ booking' = [booking EXCEPT !.pc = "failed", !.event = <<>>]
          /\ booking.pc # "none" /\ UNCHANGED <<moment, prefZone>>
      BY <1>9 DEF CreateFails
    <2> QED  BY <2>1, OnTheWayKeeps
  <1> QED
    BY <1>1, <1>2, <1>3, <1>4, <1>5, <1>7, <1>8, <1>9, CreateKeeps, ReminderKeeps DEF CalendarNext

\* An event begins at the first time that what was said can mean, in the zone it
\* is booked in, and as it was meant when it was said unless that has been
\* overtaken; it is never booked in UTC nor in another timezone than was asked
\* for, and ends after it begins, at the clock said for its end if that is later.
\* A reminder is due when what was said means (internal/connectors/google/calendar.go,
\* internal/reminders/service.go).
THEOREM EventsAreAsSaid == CalendarSpec => []EventAsSaid
  <1>1. CalendarInv => EventAsSaid
    BY DEF CalendarInv
  <1> QED  BY <1>1, CalendarInitially, CalendarStep, PTL DEF CalendarSpec
=============================================================================
