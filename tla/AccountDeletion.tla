-------------------------- MODULE AccountDeletion --------------------------
(***************************************************************************)
(* DELETE /account (internal/account/delete.go): list the user's files in  *)
(* a bucket, page by page, delete them, batch by batch, then the rows of   *)
(* one table after another, and at last the account itself.  The first     *)
(* step that fails ends the request; the user may ask again, and a request *)
(* that a client gave up may still be at work beside the next.  Meanwhile  *)
(* the rest of the server goes on adding and removing files and rows.      *)
(***************************************************************************)
EXTENDS Naturals, FiniteSets

CONSTANTS
  Deleters,    \* requests
  NumFiles,    \* bound: files, listed by name: 1..NumFiles
  NumTables,   \* bound: tables cleared, one after another: 1..NumTables
  PageSize,
  BatchSize,
  MaxFailures, \* bound: calls that fail
  MaxStray     \* bound: files and rows the rest of the server adds or removes

ASSUME DeletionAssumption ==
  /\ IsFiniteSet(Deleters) /\ {NumFiles, NumTables, PageSize, BatchSize} \subseteq Nat \ {0}
  /\ {MaxFailures, MaxStray} \subseteq Nat

VARIABLES
  files,      \* in the bucket
  rows,       \* tables in which the user has rows
  account,    \* the auth user exists
  deleter,    \* request: [pc, offset, listed, before, table]
  failures, strays,
  shifted     \* history: a file was removed between two pages of a listing

deletionVars == <<files, rows, account, deleter, failures, strays, shifted>>

Files == 1..NumFiles
Request(pc, before) == [pc |-> pc, offset |-> 0, listed |-> {}, before |-> before, table |-> 1]
Nobody == Request("idle", [files |-> {}, rows |-> {}])

DeletionInit ==
  /\ files \in SUBSET Files /\ rows = 1..NumTables /\ account = TRUE
  /\ deleter = [d \in Deleters |-> Nobody]
  /\ failures = 0 /\ strays = 0 /\ shifted = [d \in Deleters |-> FALSE]

\* What is listed from an offset on: the files in order, as they are now.
Place(f) == Cardinality({g \in files : g <= f})
Page(offset) == {f \in files : offset < Place(f) /\ Place(f) <= offset + PageSize}
BatchOf(listed) == {f \in listed : Cardinality({g \in listed : g <= f}) <= BatchSize}
Removed(gone) ==
  shifted' = [d \in Deleters |-> shifted[d] \/ (deleter[d].pc = "list" /\ deleter[d].offset > 0 /\ gone \cap files # {})]

-----------------------------------------------------------------------------
(* DeleteUser *)
StartDeletion(d) ==
  /\ deleter[d].pc = "idle"
  /\ deleter' = [deleter EXCEPT ![d] = Request("list", [files |-> files, rows |-> rows])]
  /\ UNCHANGED <<files, rows, account, failures, strays, shifted>>

\* A page that is not full is the last.
LastPage(page) == Cardinality(page) < PageSize

ListPage(d) ==
  LET me == deleter[d]  page == Page(me.offset)
  IN  /\ me.pc = "list"
      /\ deleter' = [deleter EXCEPT ![d] =
           [me EXCEPT !.listed = me.listed \cup page, !.offset = me.offset + PageSize,
                      !.pc = IF LastPage(page) THEN "files" ELSE "list"]]
      /\ UNCHANGED <<files, rows, account, failures, strays, shifted>>

DeleteBatch(d) ==
  LET me == deleter[d]
  IN  /\ me.pc = "files"
      /\ IF me.listed = {}
         THEN deleter' = [deleter EXCEPT ![d].pc = "tables"] /\ UNCHANGED <<files, shifted>>
         ELSE /\ files' = files \ BatchOf(me.listed)
              /\ deleter' = [deleter EXCEPT ![d].listed = @ \ BatchOf(@)]
              /\ Removed(BatchOf(me.listed))
      /\ UNCHANGED <<rows, account, failures, strays>>

DeleteTable(d) ==
  LET me == deleter[d]
  IN  /\ me.pc = "tables"
      /\ rows' = rows \ {me.table}
      /\ deleter' = [deleter EXCEPT ![d] =
           IF me.table < NumTables THEN [me EXCEPT !.table = me.table + 1] ELSE [me EXCEPT !.pc = "account"]]
      /\ UNCHANGED <<files, account, failures, strays, shifted>>

\* The account of a user who has none any more: not found, an error.
DeleteAuthUser(d) ==
  /\ deleter[d].pc = "account"
  /\ account' = FALSE
  /\ deleter' = [deleter EXCEPT ![d].pc = IF account THEN "ok" ELSE "error"]
  /\ UNCHANGED <<files, rows, failures, strays, shifted>>

\* Slip: a bucket whose files cannot be listed or deleted is passed over.
AfterFailure_Onwards(d) == IF deleter[d].pc \in {"list", "files"} THEN "tables" ELSE "error"
AfterFailure(d) == "error"

DeletionFails(d) ==
  /\ deleter[d].pc \in {"list", "files", "tables", "account"} /\ failures < MaxFailures
  /\ failures' = failures + 1
  /\ deleter' = [deleter EXCEPT ![d].pc = AfterFailure(d)]
  /\ UNCHANGED <<files, rows, account, strays, shifted>>

-----------------------------------------------------------------------------
(* The rest of the server *)
AddFile(f) ==
  /\ f \notin files /\ files' = files \cup {f}
  /\ UNCHANGED <<rows, shifted>>
RemoveFile(f) ==
  /\ f \in files /\ files' = files \ {f} /\ Removed({f})
  /\ UNCHANGED rows
AddRow(t) ==
  /\ account /\ t \notin rows /\ rows' = rows \cup {t}
  /\ UNCHANGED <<files, shifted>>

Stray ==
  /\ strays < MaxStray /\ strays' = strays + 1
  /\ (\E f \in Files : AddFile(f) \/ RemoveFile(f)) \/ (\E t \in 1..NumTables : AddRow(t))
  /\ deleter' = [d \in Deleters |->    \* what was added is not of before
       [deleter[d] EXCEPT !.before = [files |-> deleter[d].before.files \ (files' \ files),
                                      rows |-> deleter[d].before.rows \ (rows' \ rows)]]]
  /\ UNCHANGED <<account, failures>>

DeletionNext ==
  \/ Stray
  \/ \E d \in Deleters :
       StartDeletion(d) \/ ListPage(d) \/ DeleteBatch(d) \/ DeleteTable(d) \/ DeleteAuthUser(d) \/ DeletionFails(d)

DeletionSpec == DeletionInit /\ [][DeletionNext]_deletionVars

-----------------------------------------------------------------------------
(* Properties *)

\* Once a deletion is answered with ok, no file and no row that was there when
\* it began is there still, however it was interleaved with another deletion
\* and with the rest of the server; files that the listing missed because others
\* were removed between two of its pages excepted.
NothingIsLeft ==
  \A d \in Deleters :
    deleter[d].pc = "ok" =>
      /\ shifted[d] \/ files \cap deleter[d].before.files = {}
      /\ rows \cap deleter[d].before.rows = {}
=============================================================================
