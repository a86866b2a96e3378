--------------------------- MODULE AccountExport ---------------------------
(***************************************************************************)
(* GET /account/export (internal/account/export.go): a zip written into    *)
(* the response while the user's rows are read, one table after another,   *)
(* the turns of each conversation and the files of turns and sources in    *)
(* between, and last the manifest.  The status is sent before the first    *)
(* row is read: an export that fails is a zip like any other that lacks    *)
(* what was to follow.  Meanwhile the rest of the server goes on adding    *)
(* and removing rows and files.                                            *)
(***************************************************************************)
EXTENDS Naturals, FiniteSets

CONSTANTS
  ExportCalls,     \* requests of one user, to one server
  Things,          \* what a table has rows of; a turn and its audio go by their conversation, a file by its source
  MaxExportFaults, \* bound: calls that fail
  MaxChanges       \* bound: rows and files the rest of the server adds or removes

ASSUME ExportAssumption == IsFiniteSet(Things) /\ {MaxExportFaults, MaxChanges} \subseteq Nat

VARIABLES
  held,         \* rows and files of the user
  lastExport,   \* lastExports: an export was admitted within exportRateLimit
  export,       \* request: [pc, section, todo, of, entries, since, skipped]
  exportFaults, changes

exportVars == <<held, lastExport, export, exportFaults, changes>>

Sections == <<"profile", "preferences", "conversations", "sources", "notes", "facts", "log", "connections", "items">>
Holdings == ({Sections[n] : n \in 1..9} \cup {"turns", "audio", "assets"}) \X Things

NoExport == [pc |-> "idle", section |-> 1, todo |-> {}, of |-> "none", entries |-> {}, since |-> {}, skipped |-> {}]

ExportInit ==
  /\ held = Holdings /\ lastExport \in BOOLEAN
  /\ export = [x \in ExportCalls |-> NoExport]
  /\ exportFaults = 0 /\ changes = 0

Section(x) == Sections[export[x].section]
Listing(t) == {h \in held : h[1] = t}
Found(t, thing) == {<<t, thing>>} \cap held

Onward(e) == IF Sections[e.section] = "items" THEN [e EXCEPT !.pc = "manifest"]
                                              ELSE [e EXCEPT !.pc = "read", !.section = @ + 1]

-----------------------------------------------------------------------------
(* PreCheck, then ExportUser *)
StartExport(x) ==
  /\ export[x].pc = "idle"
  /\ lastExport' = TRUE
  /\ export' = [export EXCEPT ![x] = IF lastExport THEN [@ EXCEPT !.pc = "limited"]
                                                   ELSE [@ EXCEPT !.pc = "read", !.since = held]]
  /\ UNCHANGED <<held, exportFaults, changes>>

LimitEnds ==
  /\ lastExport /\ lastExport' = FALSE
  /\ UNCHANGED <<held, export, exportFaults, changes>>

\* One file of the zip holds a whole table; of conversations and sources the
\* export goes through what it has read, in the order of their creation.
ReadSection(x) ==
  /\ export[x].pc = "read"
  /\ LET rows == Listing(Section(x))
         read == [export[x] EXCEPT !.entries = @ \cup rows]
     IN  export' = [export EXCEPT ![x] =
           CASE Section(x) = "conversations" -> [read EXCEPT !.pc = "turns", !.todo = {r[2] : r \in rows}]
             [] Section(x) = "sources" -> [read EXCEPT !.pc = "assets", !.todo = {r[2] : r \in rows}]
             [] OTHER -> Onward(read)]
  /\ UNCHANGED <<held, lastExport, exportFaults, changes>>

NoneLeft(x) ==
  /\ export[x].pc \in {"turns", "assets"} /\ export[x].todo = {}
  /\ export' = [export EXCEPT ![x] = Onward(@)]
  /\ UNCHANGED <<held, lastExport, exportFaults, changes>>

\* loadTurns, then the audio of the turns that have any.
ReadTurns(x) ==
  /\ export[x].pc = "turns"
  /\ \E c \in export[x].todo :
       LET turns == Found("turns", c)
       IN  export' = [export EXCEPT ![x] = [export[x] EXCEPT !.entries = @ \cup turns, !.todo = @ \ {c}, !.of = c,
                                                     !.pc = IF turns = {} THEN "turns" ELSE "audio"]]
  /\ UNCHANGED <<held, lastExport, exportFaults, changes>>

\* writeTurnAudio, and the file of a source: what is not to be had is left out.
WithFile(x, file) == export' = [export EXCEPT ![x] = [export[x] EXCEPT !.pc = "turns", !.entries = @ \cup file]]

DownloadAudio(x) ==
  /\ export[x].pc = "audio"
  /\ WithFile(x, Found("audio", export[x].of))
  /\ UNCHANGED <<held, lastExport, exportFaults, changes>>

DownloadAsset(x) ==
  /\ export[x].pc = "assets"
  /\ \E s \in export[x].todo :
       export' = [export EXCEPT ![x] = [export[x] EXCEPT !.entries = @ \cup Found("assets", s), !.todo = @ \ {s}]]
  /\ UNCHANGED <<held, lastExport, exportFaults, changes>>

WriteManifest(x) ==
  /\ export[x].pc = "manifest"
  /\ export' = [export EXCEPT ![x].pc = "sent"]
  /\ UNCHANGED <<held, lastExport, exportFaults, changes>>

-----------------------------------------------------------------------------
(* Calls that fail, and a client that is gone *)
ExportFault == exportFaults < MaxExportFaults /\ exportFaults' = exportFaults + 1

\* Slip: what cannot be read is left out.
AfterExportFailure_Onward(e) == IF e.pc = "read" THEN Onward(e) ELSE [e EXCEPT !.pc = "failed"]
AfterExportFailure(e) == [e EXCEPT !.pc = "failed"]

ExportFails(x) ==
  /\ \/ export[x].pc = "read" /\ Section(x) # "items"
     \/ export[x].pc = "manifest"
     \/ export[x].pc = "turns" /\ export[x].todo # {}
  /\ ExportFault
  /\ export' = [export EXCEPT ![x] = AfterExportFailure(@)]
  /\ UNCHANGED <<held, lastExport, changes>>

DownloadFails(x) ==
  /\ ExportFault
  /\ \/ /\ export[x].pc = "audio"
        /\ export' = [export EXCEPT ![x] = [export[x] EXCEPT !.pc = "turns", !.skipped = @ \cup {<<"audio", export[x].of>>}]]
     \/ /\ export[x].pc = "assets"
        /\ \E s \in export[x].todo :
             export' = [export EXCEPT ![x] = [export[x] EXCEPT !.todo = @ \ {s}, !.skipped = @ \cup {<<"assets", s>>}]]
  /\ UNCHANGED <<held, lastExport, changes>>

\* The items of the connections may be missing; and if PostgREST refuses the
\* connections, as when it does not know the table, their file is left out.
IntegrationsSkipped(x) ==
  /\ export[x].pc = "read" /\ Section(x) \in {"connections", "items"} /\ ExportFault
  /\ export' = [export EXCEPT ![x] = [export[x] EXCEPT !.pc = "manifest",
       !.skipped = @ \cup ({"items", Section(x)} \X Things)]]
  /\ UNCHANGED <<held, lastExport, changes>>

-----------------------------------------------------------------------------
(* The rest of the server *)
Change == changes < MaxChanges /\ changes' = changes + 1

AddHolding ==
  /\ Change
  /\ \E h \in Holdings \ held : held' = held \cup {h}
  /\ UNCHANGED <<lastExport, export, exportFaults>>

\* A conversation goes with its turns; files are not rows and may stay or go.
With(h) == IF h[1] = "conversations" THEN {h, <<"turns", h[2]>>} ELSE {h}

RemoveHolding ==
  /\ Change
  /\ \E h \in held :
       /\ held' = held \ With(h)
       /\ export' = [x \in ExportCalls |-> [export[x] EXCEPT !.since = @ \ With(h)]]
  /\ UNCHANGED <<lastExport, exportFaults>>

ExportNext ==
  \/ LimitEnds \/ AddHolding \/ RemoveHolding
  \/ \E x \in ExportCalls :
       StartExport(x) \/ ReadSection(x) \/ NoneLeft(x) \/ ReadTurns(x) \/ DownloadAudio(x) \/ DownloadAsset(x)
       \/ WriteManifest(x) \/ ExportFails(x) \/ DownloadFails(x) \/ IntegrationsSkipped(x)

ExportSpec == ExportInit /\ [][ExportNext]_exportVars

-----------------------------------------------------------------------------
(* Properties *)

\* An export with a manifest is whole: what the user had from before it began,
\* and still has, is in it, whatever was added and removed while the tables
\* were read one after another, and whatever call failed, except for the files
\* that could not be downloaded and the integrations that could not be read.
\* A turn counts as long as its conversation is there, a file as long as what
\* names it is.
Named(h, there) ==
  CASE h[1] = "turns" -> <<"conversations", h[2]>> \in there
    [] h[1] = "audio" -> {<<"conversations", h[2]>>, <<"turns", h[2]>>} \subseteq there
    [] h[1] = "assets" -> <<"sources", h[2]>> \in there
    [] OTHER -> TRUE

ExportIsWhole ==
  \A x \in ExportCalls :
    export[x].pc = "sent" =>
      {h \in export[x].since : Named(h, export[x].since)} \subseteq export[x].entries \cup export[x].skipped
=============================================================================
