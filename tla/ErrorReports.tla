--------------------------- MODULE ErrorReports ---------------------------
(***************************************************************************)
(* The error reporter (internal/errreport/reporter.go and handler.go):     *)
(* reports of the server and of POST /errors pass a bounded queue to one   *)
(* goroutine, which opens an issue for a new fingerprint and comments on   *)
(* the issue of a known one.  The map of known issues is in memory and is  *)
(* refreshed from the tracker, which users close issues in.                *)
(***************************************************************************)
EXTENDS Naturals, Sequences, FiniteSets

CONSTANTS
  Prints,      \* fingerprints
  QueueSize, IssuesPerHour,
  ListedIssues,  \* issues one page of the tracker holds
  MaxIssues,     \* bound: issues ever opened
  MaxErrors,     \* bound: reports
  MaxMishaps     \* bound: failed calls, lost answers, restarts

ASSUME ReportsAssumption ==
  /\ {QueueSize, IssuesPerHour, ListedIssues} \subseteq Nat \ {0}
  /\ {MaxIssues, MaxErrors, MaxMishaps} \subseteq Nat

VARIABLES
  reports,   \* the channel
  worker,    \* the goroutine, the report in its hand, and blind when it took it
  issues,    \* fingerprint -> number of its issue, 0 when unknown
  fresh,     \* listAge is at most issueListMaxAge ago
  created,   \* createdAt: issues opened in the last hour
  quiet,     \* fingerprints within commentCooldown of lastComment
  tracker,   \* the repository's issues, in the order opened: [fp, open]
  errors, mishaps,
  blind,     \* history: the listing that is still fresh failed, or was a page of more
  doubled    \* history: fingerprints whose issue was opened blindly, or its number lost

reportVars == <<reports, worker, issues, fresh, created, quiet, tracker, errors, mishaps, blind, doubled>>

Waiting == [pc |-> "wait", fp |-> "none", blind |-> FALSE]
Booting == [Waiting EXCEPT !.pc = "boot"]

ReportsInit ==
  /\ reports = <<>> /\ worker = Booting
  /\ issues = [p \in Prints |-> 0]
  /\ fresh = FALSE /\ created = 0 /\ quiet = {} /\ tracker = <<>>
  /\ errors = 0 /\ mishaps = 0 /\ blind = FALSE /\ doubled = {}

Mishap == mishaps < MaxMishaps /\ mishaps' = mishaps + 1
OpenIssues == {n \in DOMAIN tracker : tracker[n].open}

-----------------------------------------------------------------------------
(* Report: a full queue drops it *)
ReportError(p) ==
  /\ errors < MaxErrors /\ errors' = errors + 1
  /\ reports' = IF Len(reports) < QueueSize THEN Append(reports, p) ELSE reports
  /\ UNCHANGED <<worker, issues, fresh, created, quiet, tracker, mishaps, blind, doubled>>

\* Slip: the map that startup filled is trusted for good.
Unlisted_Never == FALSE

(* process, a cold miss: the listing is older than issueListMaxAge *)
Unlisted == ~fresh

(* where the report in hand goes next *)
Known(p, next) == [pc |-> IF issues[p] > 0 THEN "comment" ELSE next,
                   fp |-> p, blind |-> blind]

TakeReport ==
  /\ worker.pc = "wait" /\ reports # <<>>
  /\ worker' = Known(Head(reports), IF Unlisted THEN "list" ELSE "create")
  /\ reports' = Tail(reports)
  /\ UNCHANGED <<issues, fresh, created, quiet, tracker, errors, mishaps, blind, doubled>>

(* refreshIssues: the age is set first, numbers are added and never taken out *)
Listed == {n \in OpenIssues : Cardinality({m \in OpenIssues : m > n}) < ListedIssues}

RefreshIssues ==
  /\ worker.pc \in {"boot", "list"}
  /\ fresh' = TRUE
  /\ \/ /\ issues' = [p \in Prints |->
             LET found == {n \in Listed : tracker[n].fp = p} IN
             IF found = {} THEN issues[p] ELSE CHOOSE n \in found : \A m \in found : n <= m]
        /\ blind' = (Listed # OpenIssues)
        /\ UNCHANGED mishaps
     \/ blind' = TRUE /\ Mishap /\ UNCHANGED issues
  /\ worker' = IF worker.pc = "boot" THEN Waiting
               ELSE [worker EXCEPT !.pc = IF issues'[worker.fp] > 0 THEN "comment" ELSE "create",
                                   !.blind = blind']
  /\ UNCHANGED <<reports, created, quiet, tracker, errors, doubled>>

(* canCreateIssue and createIssue; an answer that does not arrive leaves the
   issue unknown and uncounted *)
DropReport ==
  /\ worker.pc = "create" /\ created >= IssuesPerHour
  /\ worker' = Waiting
  /\ UNCHANGED <<reports, issues, fresh, created, quiet, tracker, errors, mishaps, blind, doubled>>

CreateIssue ==
  /\ worker.pc = "create" /\ created < IssuesPerHour /\ Len(tracker) < MaxIssues
  /\ tracker' = Append(tracker, [fp |-> worker.fp, open |-> TRUE])
  /\ \/ /\ issues' = [issues EXCEPT ![worker.fp] = Len(tracker) + 1]
        /\ created' = created + 1
        /\ quiet' = quiet \cup {worker.fp}
        /\ doubled' = IF worker.blind THEN doubled \cup {worker.fp} ELSE doubled
        /\ UNCHANGED mishaps
     \/ /\ Mishap /\ doubled' = doubled \cup {worker.fp}
        /\ UNCHANGED <<issues, created, quiet>>
  /\ worker' = Waiting
  /\ UNCHANGED <<reports, fresh, errors, blind>>

(* commentOnIssue, on an open or a closed issue alike *)
CommentOnIssue ==
  /\ worker.pc = "comment"
  /\ \/ quiet' = quiet \cup {worker.fp} /\ UNCHANGED mishaps
     \/ worker.fp \notin quiet /\ Mishap /\ UNCHANGED quiet
  /\ worker' = Waiting
  /\ UNCHANGED <<reports, issues, fresh, created, tracker, errors, blind, doubled>>

(* do fails before the tracker has it *)
CreateFails ==
  /\ worker.pc = "create" /\ Mishap
  /\ worker' = Waiting
  /\ UNCHANGED <<reports, issues, fresh, created, quiet, tracker, errors, blind, doubled>>

(* time: the listing grows old, the cooldowns end, the hour is over *)
ListAges ==
  /\ fresh /\ fresh' = FALSE /\ blind' = FALSE
  /\ UNCHANGED <<reports, worker, issues, created, quiet, tracker, errors, mishaps, doubled>>

CooldownEnds(p) ==
  /\ p \in quiet /\ quiet' = quiet \ {p}
  /\ UNCHANGED <<reports, worker, issues, fresh, created, tracker, errors, mishaps, blind, doubled>>

HourEnds ==
  /\ created > 0 /\ created' = created - 1
  /\ UNCHANGED <<reports, worker, issues, fresh, quiet, tracker, errors, mishaps, blind, doubled>>

(* an engineer closes an issue *)
CloseIssue(n) ==
  /\ tracker' = [tracker EXCEPT ![n].open = FALSE]
  /\ UNCHANGED <<reports, worker, issues, fresh, created, quiet, errors, mishaps, blind, doubled>>

(* the process restarts with empty maps and an empty queue *)
RestartReporter ==
  /\ Mishap
  /\ reports' = <<>> /\ worker' = Booting
  /\ issues' = [p \in Prints |-> 0]
  /\ fresh' = FALSE /\ created' = 0 /\ quiet' = {} /\ blind' = FALSE
  /\ UNCHANGED <<tracker, errors, doubled>>

ReportsNext ==
  \/ \E p \in Prints : ReportError(p) \/ CooldownEnds(p)
  \/ TakeReport \/ RefreshIssues \/ DropReport \/ CreateIssue \/ CreateFails
  \/ CommentOnIssue \/ ListAges \/ HourEnds \/ RestartReporter
  \/ \E n \in OpenIssues : CloseIssue(n)

ReportsSpec == ReportsInit /\ [][ReportsNext]_reportVars

-----------------------------------------------------------------------------
\* A recurring error is one issue, "so repeats after a restart comment on the
\* existing issue instead of creating duplicates": two open issues share a
\* fingerprint only if one was opened while the listing that counts as fresh had
\* failed or been cut at a page, or its number never came back (doubled).
OneOpenIssue ==
  \A m, n \in OpenIssues :
    m # n /\ tracker[m].fp = tracker[n].fp => tracker[m].fp \in doubled
=============================================================================
