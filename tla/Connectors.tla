----------------------------- MODULE Connectors -----------------------------
(***************************************************************************)
(* The Granola connection of one user: its row in integration_connections,  *)
(* the syncs that work under the row's lease, the requests that connect,    *)
(* enable, disconnect and purge it, the live tools that refresh its token,  *)
(* and what the syncs import (internal/connectors).                         *)
(*                                                                         *)
(* One meeting stands for all: its row in integration_items says which      *)
(* content is imported, its note and its rows of kb_sources hold it.  Every *)
(* call to the store is a step; a refresh writes back the whole row as it   *)
(* was read.  The summary and the chunks of a transcript are one source.    *)
(***************************************************************************)
EXTENDS Integers, Sequences

CONSTANTS Syncs,      \* goroutines of runSyncJob
          Requests,   \* goroutines of the handlers, and turns that load live tools
          Texts,      \* contents the meeting may have when it is fetched
          NoSync,     \* nobody holds the lease
          NoText,     \* a row that is gone, no content in hand
          MaxRows,    \* bound: notes, and sources
          MaxActs,    \* bound: requests, syncs started
          MaxFaults   \* bound: failed calls, lapsed leases, dead servers

ASSUME ConnectorsBounds == {MaxRows, MaxActs, MaxFaults} \subseteq Nat
ASSUME ConnectorsNulls == NoText \notin Texts /\ NoSync \notin Syncs /\ Syncs \cap Requests = {}

VARIABLES conn,      \* the connection: status, enabled, token, initial
          lease,     \* its lease: owner, lapsed
          oauth,     \* the row of integration_oauth_states: none, open or used
          item,      \* the row of integration_items: hash of the content imported, its
                     \* note, and the sources it maps (item_sources), by id
          notes,     \* notes inserted by imports, by id
          sources,   \* kb_sources inserted by imports, by id
          go,        \* go[p]: program counter and locals of a goroutine
          acts, faults,
          raced,     \* history: two syncs work because the lease could not tell
          broken,    \* history: an import or a purge failed half-way, or they met
          stuck,     \* history: the last word on the status was lost
          cut,       \* history: the user disconnected and has not connected since
          midway     \* history: somebody had the credentials in hand at that moment

history == <<raced, broken, stuck, cut, midway>>
vars == <<conn, lease, oauth, item, notes, sources, go, acts, faults, history>>

-----------------------------------------------------------------------------
Initials == {"pending", "running", "completed", "partial", "failed"}
\* token: the columns with the credentials are set.
Row == [status : {"none", "disconnected", "connected", "syncing", "reauth_required", "error", "partial"},
        enabled : BOOLEAN, token : BOOLEAN, initial : Initials]
NoRow == [status |-> "none", enabled |-> FALSE, token |-> FALSE, initial |-> "pending"]
NoItem == [hash |-> NoText, note |-> 0, maps |-> {}]

Procs == Syncs \cup Requests
Idle == [pc |-> "idle", full |-> FALSE, row |-> NoRow, text |-> NoText,
         note |-> 0, source |-> 0, result |-> "ok"]

Act == acts < MaxActs /\ acts' = acts + 1
Fault == faults < MaxFaults /\ faults' = faults + 1
store == <<conn, lease, oauth, item, notes, sources>>

Goto(p, pc) == go' = [go EXCEPT ![p].pc = pc]
Ends(p) == go' = [go EXCEPT ![p] = Idle]

Init ==
  /\ \/ conn = NoRow
     \/ conn = [status |-> "connected", enabled |-> TRUE, token |-> TRUE, initial |-> "completed"]
  /\ lease = [owner |-> NoSync, lapsed |-> FALSE]
  /\ oauth = "none"
  /\ item = NoItem /\ notes = <<>> /\ sources = <<>>
  /\ go = [p \in Procs |-> Idle]
  /\ acts = 0 /\ faults = 0
  /\ raced = FALSE /\ broken = FALSE /\ stuck = FALSE /\ cut = FALSE /\ midway = FALSE

\* Pcs at which a sync has taken the lease and has not yet said how it ended.
AtWork == {"load", "refresh", "verify", "markRunning", "fetch", "clear", "note", "source",
           "item", "map", "finish", "reauth"}
Importing == {"clear", "note", "source", "item", "map"}
Purging == {"purgeItems", "purgeNotes", "purgeSources"}
HasToken(p) ==
  \/ go[p].pc \in {"refresh", "live"} /\ go[p].row.token
  \/ go[p].pc \in {"verify", "markRunning", "fetch", "finish"} \cup Importing

-----------------------------------------------------------------------------
(* Starting a sync: POST /sync, the hourly worker, the callback              *)

Started(p, full) == go' = [go EXCEPT ![p] = [Idle EXCEPT !.pc = "readLease", !.full = full]]

ScheduleSync(p) ==
  /\ go[p].pc = "idle" /\ Act
  /\ conn.token /\ conn.status # "reauth_required"
  /\ Started(p, FALSE)
  /\ UNCHANGED <<store, faults, history>>

DueForSync == conn.status \in {"connected", "partial"} /\ conn.enabled

HourlyTick(p) ==
  /\ go[p].pc = "idle" /\ Act /\ DueForSync
  /\ Started(p, FALSE)
  /\ UNCHANGED <<store, faults, history>>

-----------------------------------------------------------------------------
(* runSyncJob *)

ReadLease(p) ==
  /\ go[p].pc = "readLease"
  /\ IF lease.owner = NoSync \/ lease.lapsed THEN Goto(p, "takeLease") ELSE Ends(p)
  /\ UNCHANGED <<store, acts, faults, history>>

\* By id: whatever the lease has become since it was read.
TakeLease(p) ==
  /\ go[p].pc = "takeLease"
  /\ lease' = [owner |-> p, lapsed |-> FALSE]
  /\ conn' = [conn EXCEPT !.status = "syncing"]
  /\ Goto(p, "load")
  /\ raced' = (\/ raced
               \/ lease.lapsed /\ go[lease.owner].pc \in AtWork
               \/ \E q \in Syncs \ {p} : go[q].pc = "takeLease")
  /\ stuck' = FALSE
  /\ UNCHANGED <<oauth, item, notes, sources, acts, faults, broken, cut, midway>>

Load(p) ==
  /\ go[p].pc = "load"
  /\ go' = [go EXCEPT ![p].pc = "refresh", ![p].row = conn]
  /\ UNCHANGED <<store, acts, faults, history>>

\* What of the row is still looked at after the refresh.
Kept(row) == [NoRow EXCEPT !.initial = row.initial]

\* Slip: a sync that cannot begin ends without a word.
Refused_Quietly(p) ==
  /\ go[p].pc = "refresh" /\ ~go[p].row.token
  /\ Goto(p, "readRelease")
  /\ UNCHANGED <<store, acts, faults, history>>

Refused(p) ==
  /\ go[p].pc = "refresh" /\ ~go[p].row.token
  /\ Goto(p, "reauth")
  /\ UNCHANGED <<store, acts, faults, history>>

StillValid(p) ==
  /\ go[p].pc = "refresh" /\ go[p].row.token
  /\ go' = [go EXCEPT ![p].pc = "verify", ![p].row = Kept(@)]
  /\ UNCHANGED <<store, acts, faults, history>>

\* All columns but those of the lease, as they are in hand.
UpsertConnection(row) == conn' = row

\* The row as it was loaded, with the new token.
Refresh(p) ==
  /\ go[p].pc = "refresh" /\ go[p].row.token
  /\ UpsertConnection(go[p].row)
  /\ go' = [go EXCEPT ![p].pc = "verify", ![p].row = Kept(@)]
  /\ UNCHANGED <<lease, oauth, item, notes, sources, acts, faults, history>>

Verify(p) ==
  /\ go[p].pc = "verify"
  /\ Goto(p, "markRunning")
  /\ UNCHANGED <<store, acts, faults, history>>

MarkRunning(p) ==
  /\ go[p].pc = "markRunning"
  /\ conn' = IF go[p].full \/ go[p].row.initial \in {"pending", "failed"}
             THEN [conn EXCEPT !.initial = "running"] ELSE conn
  /\ Goto(p, "fetch")
  /\ UNCHANGED <<lease, oauth, item, notes, sources, acts, faults, history>>

\* The patch at the end: by id, and by the initial status the row had when loaded.
Outcome(p) ==
  LET first == go[p].full \/ go[p].row.initial = "running" IN
  CASE go[p].result = "partial" ->
         [conn EXCEPT !.status = "partial", !.initial = IF first THEN "partial" ELSE @]
    [] go[p].result = "error" ->
         [conn EXCEPT !.status = "error", !.initial = IF first THEN "failed" ELSE @]
    [] OTHER ->
         [conn EXCEPT !.status = "connected",
           !.initial = IF first \/ go[p].row.initial = "partial" THEN "completed" ELSE @]

Release(p) == go' = [go EXCEPT ![p] = [Idle EXCEPT !.pc = "readRelease"]]

Finish(p) ==
  /\ go[p].pc = "finish"
  /\ conn' = Outcome(p)
  /\ Release(p)
  /\ UNCHANGED <<lease, oauth, item, notes, sources, acts, faults, history>>

ReauthRequired == [conn EXCEPT !.status = "reauth_required", !.enabled = FALSE]

MarkReauth(p) ==
  /\ go[p].pc = "reauth"
  /\ conn' = ReauthRequired
  /\ Release(p)
  /\ UNCHANGED <<lease, oauth, item, notes, sources, acts, faults, history>>

ReadRelease(p) ==
  /\ go[p].pc = "readRelease"
  /\ IF lease.owner \in {NoSync, p} THEN Goto(p, "release") ELSE Ends(p)
  /\ UNCHANGED <<store, acts, faults, history>>

\* By id again: a lease taken since the read is cleared.
ReleaseLease(p) ==
  /\ go[p].pc = "release"
  /\ lease' = [owner |-> NoSync, lapsed |-> FALSE]
  /\ Ends(p)
  /\ raced' = (raced \/ lease.owner \notin {NoSync, p})
  /\ UNCHANGED <<conn, oauth, item, notes, sources, acts, faults, broken, stuck, cut, midway>>

-----------------------------------------------------------------------------
(* RunSync: upsertMeeting and replaceMeetingContent *)

\* The meeting is not in the list, or its content is the one that was imported.
NothingNew(p) ==
  /\ go[p].pc = "fetch"
  /\ Goto(p, "finish")
  /\ UNCHANGED <<store, acts, faults, history>>

\* The content that is not there any more, or not as it was, is replaced.
Fetch(p) ==
  /\ go[p].pc = "fetch"
  /\ \E text \in Texts :
       /\ text # item.hash
       /\ go' = [go EXCEPT ![p] = [@ EXCEPT !.text = text, !.note = item.note,
                                  !.pc = IF item = NoItem THEN "note" ELSE "clear"]]
  /\ broken' = (broken \/ \E q \in Requests : go[q].pc \in Purging)
  /\ UNCHANGED <<store, acts, faults, raced, stuck, cut, midway>>

Cleared(ids) == sources' = [i \in DOMAIN sources |-> IF i \in ids THEN NoText ELSE sources[i]]

\* The sources the item maps now; an error is ignored.
ClearSources(p) ==
  /\ go[p].pc = "clear"
  /\ Cleared(item.maps)
  /\ Goto(p, "note")
  /\ UNCHANGED <<conn, lease, oauth, item, notes, acts, faults, history>>

\* Slip: the note of the former import is not used again.
WriteNote_Anew(p) ==
  /\ go[p].pc = "note" /\ Len(notes) < MaxRows
  /\ notes' = Append(notes, go[p].text)
  /\ go' = [go EXCEPT ![p].pc = "source", ![p].note = Len(notes) + 1]
  /\ UNCHANGED <<conn, lease, oauth, item, sources, acts, faults, history>>

\* A patch of a note that is gone changes no row, and is taken for done.
WriteNote(p) ==
  /\ go[p].pc = "note"
  /\ LET n == go[p].note IN
     IF n = 0 THEN
       /\ Len(notes) < MaxRows
       /\ notes' = Append(notes, go[p].text)
       /\ go' = [go EXCEPT ![p].pc = "source", ![p].note = Len(notes) + 1]
     ELSE
       /\ notes' = IF notes[n] = NoText THEN notes ELSE [notes EXCEPT ![n] = go[p].text]
       /\ Goto(p, "source")
  /\ UNCHANGED <<conn, lease, oauth, item, sources, acts, faults, history>>

InsertSource(p) ==
  /\ go[p].pc = "source" /\ Len(sources) < MaxRows
  /\ sources' = Append(sources, go[p].text)
  /\ go' = [go EXCEPT ![p].pc = "item", ![p].source = Len(sources) + 1]
  /\ UNCHANGED <<conn, lease, oauth, item, notes, acts, faults, history>>

UpsertItem(p) ==
  /\ go[p].pc = "item"
  /\ item' = [hash |-> go[p].text, note |-> go[p].note, maps |-> item.maps]
  /\ Goto(p, "map")
  /\ UNCHANGED <<conn, lease, oauth, notes, sources, acts, faults, history>>

\* What is left of an import once it is over, for good or not.
Imported(p, result) ==
  go' = [go EXCEPT ![p] = [Idle EXCEPT !.pc = "finish", !.full = go[p].full,
                                       !.row = go[p].row, !.result = result]]

MapSources(p) ==
  /\ go[p].pc = "map" /\ item # NoItem
  /\ item' = [item EXCEPT !.maps = {go[p].source}]
  /\ Imported(p, "ok")
  /\ UNCHANGED <<conn, lease, oauth, notes, sources, acts, faults, history>>

\* withRetry starts upsertMeeting again; the last attempt, or the end of the time
\* for a sync, leaves the meeting out; an answer of 401 ends the sync.
MeetingFails(p) ==
  /\ go[p].pc \in Importing \ {"clear"}
  /\ \/ Fault
     \/ go[p].pc = "map" /\ item = NoItem /\ UNCHANGED faults
  /\ \/ go' = [go EXCEPT ![p] = [Idle EXCEPT !.pc = "fetch", !.full = go[p].full, !.row = go[p].row]]
     \/ Imported(p, "partial")
     \/ Goto(p, "reauth")
  /\ broken' = TRUE
  /\ UNCHANGED <<store, acts, raced, stuck, cut, midway>>

-----------------------------------------------------------------------------
(* Requests *)

StartAuthorize(p) ==
  /\ go[p].pc = "idle" /\ Act
  /\ oauth' = "open"
  /\ UNCHANGED <<conn, lease, item, notes, sources, go, faults, history>>

StartsFrom(p, pc) ==
  /\ go[p].pc = "idle" /\ Act
  /\ go' = [go EXCEPT ![p] = [Idle EXCEPT !.pc = pc, !.row = IF pc = "live" THEN conn ELSE NoRow,
                                          !.note = IF pc = "purgeItems" THEN item.note ELSE 0]]
  /\ UNCHANGED <<store, faults>>

StartCallback(p) == oauth = "open" /\ StartsFrom(p, "consume") /\ UNCHANGED history

\* Patches where consumed_at is null; how many rows that changed is not looked at.
ConsumeOAuthState(p) ==
  /\ go[p].pc = "consume"
  /\ oauth' = "used"
  /\ Goto(p, "connect")
  /\ UNCHANGED <<conn, lease, item, notes, sources, acts, faults, history>>

\* The code is exchanged and the row written; a full sync is started if one is idle.
HandleCallback(p) ==
  /\ go[p].pc = "connect"
  /\ \E status \in {"connected", "error"} :
       UpsertConnection([status |-> status, enabled |-> TRUE, token |-> TRUE, initial |-> "pending"])
  /\ \/ \E q \in Syncs :
          /\ go[q].pc = "idle"
          /\ go' = [go EXCEPT ![p] = Idle, ![q] = [Idle EXCEPT !.pc = "readLease", !.full = TRUE]]
     \/ (\A q \in Syncs : go[q].pc # "idle") /\ Ends(p)
  /\ cut' = FALSE /\ midway' = FALSE
  /\ UNCHANGED <<lease, oauth, item, notes, sources, acts, faults, raced, broken, stuck>>

\* PATCH reads the row, then writes sync_enabled by id.
StartPatch(p) ==
  /\ conn.status # "none"
  /\ \/ conn.status # "reauth_required" /\ StartsFrom(p, "enable")
     \/ StartsFrom(p, "disable")
  /\ UNCHANGED history

PatchEnabled(p) ==
  /\ go[p].pc \in {"enable", "disable"}
  /\ conn' = [conn EXCEPT !.enabled = (go[p].pc = "enable")]
  /\ Ends(p)
  /\ UNCHANGED <<lease, oauth, item, notes, sources, acts, faults, history>>

StartDisconnect(p) == conn.status # "none" /\ StartsFrom(p, "disconnect") /\ UNCHANGED history

\* Slip: the row says disconnected, the credentials stay.
ClearCredentials_StatusOnly(p) ==
  /\ go[p].pc = "disconnect"
  /\ conn' = [conn EXCEPT !.status = "disconnected", !.enabled = FALSE]
  /\ Ends(p)
  /\ cut' = TRUE /\ midway' = \E q \in Procs : HasToken(q)
  /\ UNCHANGED <<lease, oauth, item, notes, sources, acts, faults, raced, broken, stuck>>

ClearCredentials(p) ==
  /\ go[p].pc = "disconnect"
  /\ conn' = [conn EXCEPT !.status = "disconnected", !.enabled = FALSE, !.token = FALSE]
  /\ Ends(p)
  /\ cut' = TRUE /\ midway' = \E q \in Procs : HasToken(q)
  /\ UNCHANGED <<lease, oauth, item, notes, sources, acts, faults, raced, broken, stuck>>

-----------------------------------------------------------------------------
(* DeleteImports: the lists are read first, the items go before the notes    *)

StartPurge(p) ==
  /\ StartsFrom(p, "purgeItems")
  /\ broken' = (broken \/ \E q \in Syncs : go[q].pc \in Importing)
  /\ UNCHANGED <<raced, stuck, cut, midway>>

PurgeItems(p) ==
  /\ go[p].pc = "purgeItems"
  /\ item' = NoItem
  /\ Goto(p, "purgeNotes")
  /\ UNCHANGED <<conn, lease, oauth, notes, sources, acts, faults, history>>

PurgeNotes(p) ==
  /\ go[p].pc = "purgeNotes"
  /\ notes' = IF go[p].note = 0 THEN notes ELSE [notes EXCEPT ![go[p].note] = NoText]
  /\ Goto(p, "purgeSources")
  /\ UNCHANGED <<conn, lease, oauth, item, sources, acts, faults, history>>

\* The listed ones, and every other source of the integration.
PurgeSources(p) ==
  /\ go[p].pc = "purgeSources"
  /\ Cleared(DOMAIN sources)
  /\ Ends(p)
  /\ UNCHANGED <<conn, lease, oauth, item, notes, acts, faults, history>>

\* The errors of the three are ignored.
PurgeLost(p) ==
  /\ Fault
  /\ \/ go[p].pc = "purgeItems" /\ Goto(p, "purgeNotes")
     \/ go[p].pc = "purgeNotes" /\ Goto(p, "purgeSources")
     \/ go[p].pc = "purgeSources" /\ Ends(p)
  /\ broken' = TRUE
  /\ UNCHANGED <<store, acts, raced, stuck, cut, midway>>

-----------------------------------------------------------------------------
(* LoadLiveToolsForUser, when the token is about to expire *)

LoadLiveTools(p) ==
  /\ conn.token /\ conn.status \in {"connected", "partial", "syncing"}
  /\ StartsFrom(p, "live") /\ UNCHANGED history

NobodyAtWork == \A q \in Syncs : go[q].pc \notin AtWork

\* The row as it was read: its status may be out of date.
LiveRefresh(p) ==
  /\ go[p].pc = "live"
  /\ UpsertConnection(go[p].row)
  /\ Ends(p)
  /\ stuck' = (stuck \/ (go[p].row.status = "syncing" /\ NobodyAtWork))
  /\ UNCHANGED <<lease, oauth, item, notes, sources, acts, faults, raced, broken, cut, midway>>

LiveRefused(p) ==
  /\ go[p].pc = "live" /\ Fault
  /\ conn' = ReauthRequired
  /\ Ends(p)
  /\ UNCHANGED <<lease, oauth, item, notes, sources, acts, history>>

-----------------------------------------------------------------------------
(* Failures *)

\* A call of a sync outside its import fails.  A refresh or a check of the workspace
\* that fails for any reason asks the user to connect again.
SyncFails(p) ==
  /\ Fault
  /\ \/ go[p].pc \in {"readLease", "takeLease", "readRelease", "release"} /\ Ends(p)
     \/ go[p].pc \in {"load", "finish", "reauth"} /\ Release(p)
     \/ go[p].pc \in {"refresh", "verify", "fetch"} /\ Goto(p, "reauth")
     \/ go[p].pc = "fetch" /\ Imported(p, "error")
  /\ stuck' = (stuck \/ (/\ go[p].pc \in {"load", "finish", "reauth"}
                        /\ \A q \in Syncs \ {p} : go[q].pc \notin AtWork))
  /\ UNCHANGED <<store, acts, raced, broken, cut, midway>>

\* The 45 minutes of a sync are over: so are those of the patch at its end.
TimesOut(p) ==
  /\ go[p].pc \in {"fetch"} \cup Importing /\ Fault
  /\ Release(p)
  /\ broken' = (broken \/ go[p].pc \in Importing)
  /\ stuck' = (stuck \/ \A q \in Syncs \ {p} : go[q].pc \notin AtWork)
  /\ UNCHANGED <<store, acts, raced, cut, midway>>

\* A note that cannot be patched is inserted again.
PatchNoteFails(p) ==
  /\ go[p].pc = "note" /\ go[p].note # 0 /\ Len(notes) < MaxRows /\ Fault
  /\ notes' = Append(notes, go[p].text)
  /\ go' = [go EXCEPT ![p].pc = "source", ![p].note = Len(notes) + 1]
  /\ broken' = TRUE
  /\ UNCHANGED <<conn, lease, oauth, item, sources, acts, raced, stuck, cut, midway>>

\* The errors of these two are ignored.
StepLost(p) ==
  /\ Fault
  /\ \/ go[p].pc = "markRunning" /\ Goto(p, "fetch") /\ UNCHANGED broken
     \/ go[p].pc = "clear" /\ Goto(p, "note") /\ broken' = TRUE
  /\ UNCHANGED <<store, acts, raced, stuck, cut, midway>>

RequestCut(p) ==
  /\ go[p].pc # "idle" /\ Fault
  /\ Ends(p)
  /\ broken' = (broken \/ go[p].pc \in Purging)
  /\ UNCHANGED <<store, acts, raced, stuck, cut, midway>>

Dies ==
  /\ (\E p \in Procs : go[p].pc # "idle") /\ Fault
  /\ go' = [p \in Procs |-> Idle]
  /\ broken' = (broken \/ \E p \in Procs : go[p].pc \in Importing \cup Purging)
  /\ stuck' = (stuck \/ conn.status = "syncing")
  /\ UNCHANGED <<store, acts, raced, cut, midway>>

\* Half an hour: a sync may take three quarters of one, a dead one holds on that long.
LeaseLapses ==
  /\ lease.owner # NoSync /\ ~lease.lapsed
  /\ IF go[lease.owner].pc \in AtWork THEN Fault ELSE UNCHANGED faults
  /\ lease' = [lease EXCEPT !.lapsed = TRUE]
  /\ UNCHANGED <<conn, oauth, item, notes, sources, go, acts, history>>

-----------------------------------------------------------------------------
Sync(p) ==
  \/ ScheduleSync(p) \/ HourlyTick(p) \/ ReadLease(p) \/ TakeLease(p) \/ Load(p) \/ Refused(p)
  \/ StillValid(p) \/ Refresh(p) \/ Verify(p) \/ MarkRunning(p) \/ Finish(p) \/ MarkReauth(p)
  \/ ReadRelease(p) \/ ReleaseLease(p) \/ NothingNew(p) \/ Fetch(p) \/ ClearSources(p)
  \/ WriteNote(p) \/ InsertSource(p) \/ UpsertItem(p) \/ MapSources(p) \/ MeetingFails(p)
  \/ SyncFails(p) \/ StepLost(p) \/ TimesOut(p) \/ PatchNoteFails(p)

Request(p) ==
  \/ StartAuthorize(p) \/ StartCallback(p) \/ ConsumeOAuthState(p) \/ HandleCallback(p)
  \/ StartPatch(p) \/ PatchEnabled(p) \/ StartDisconnect(p) \/ ClearCredentials(p)
  \/ StartPurge(p) \/ PurgeItems(p) \/ PurgeNotes(p) \/ PurgeSources(p) \/ PurgeLost(p)
  \/ LoadLiveTools(p) \/ LiveRefresh(p) \/ LiveRefused(p) \/ RequestCut(p)

Next ==
  \/ \E p \in Syncs : Sync(p)
  \/ \E p \in Requests : Request(p)
  \/ Dies \/ LeaseLapses

Spec == Init /\ [][Next]_vars

-----------------------------------------------------------------------------

\* What is imported is what the item says, and all of it is the item's: when no
\* import or purge is under way, the item's note and its one source hold the content
\* of its hash, and no other note or source of the meeting is left - after any number
\* of syncs, full or not, and purges, as long as the lease could keep the syncs apart
\* and none of them failed half-way.
Live(rows) == {i \in DOMAIN rows : rows[i] # NoText}
ImportsAreTracked ==
  ~raced /\ ~broken /\ (\A p \in Procs : go[p].pc \notin Importing \cup Purging) =>
    /\ Live(notes) = {item.note} \ {0}
    /\ Live(sources) = item.maps
    /\ item # NoItem => /\ notes[item.note] = item.hash
                        /\ \E i \in item.maps : sources[i] = item.hash /\ item.maps = {i}

\* "syncing" does not outlast the syncs: a sync is at work that will write another
\* status, whatever the requests wrote meanwhile - unless the sync died or its last
\* write failed, or live tools wrote back the row they had read during the sync.
SyncingIsAtWork == conn.status = "syncing" => stuck \/ ~NobodyAtWork

\* A disconnect that finds nobody with the credentials in hand holds until the user
\* connects again: the credentials stay away, the row is not shown as connected, and
\* nothing is imported - whichever syncs, patches and live tools were under way.
DisconnectHolds ==
  cut /\ ~midway =>
    /\ ~conn.token
    /\ conn.status \notin {"connected", "partial", "error"}
    /\ \A p \in Syncs : go[p].pc \notin Importing
=============================================================================
