------------------------------ MODULE Shares ------------------------------
(***************************************************************************)
(* The share links of one conversation or of one agent run                 *)
(* (internal/storage/conversation_shares.go and agent_run_shares.go, which *)
(* are the same program over two tables): requests that make a link sure,  *)
(* revoke it, and viewers without an account who open it.                  *)
(***************************************************************************)
EXTENDS Naturals, FiniteSets

CONSTANTS
  Sharers,    \* requests POST .../share; the token each would make is the request
  Revokers,   \* requests DELETE .../share
  Viewers,    \* requests GET /share/{token}
  MaxLosses   \* bound: calls that fail, or whose answer is lost

ASSUME SharesAssumption == MaxLosses \in Nat

VARIABLES
  links,    \* rows: token -> "none", "active", "revoked"
  subject,  \* what is shared: "owned" or "gone"
  sharer, revoker, viewer,
  losses,
  patches   \* history: for a sharer, the revokes that took effect since it began

shareVars == <<links, subject, sharer, revoker, viewer, losses, patches>>

SharesInit ==
  /\ links = [t \in Sharers |-> "none"]
  /\ subject = "owned"
  /\ sharer = [u \in Sharers |-> [pc |-> "idle", link |-> "none"]]
  /\ revoker = [u \in Revokers |-> "idle"]
  /\ viewer = [v \in Viewers |-> [pc |-> "idle", link |-> "none", after |-> {}]]
  /\ losses = 0
  /\ patches = [u \in Sharers |-> 0]

Active == {t \in Sharers : links[t] = "active"}
Lose == losses < MaxLosses /\ losses' = losses + 1
GotoS(u, pc) == sharer' = [sharer EXCEPT ![u].pc = pc]
Handed(u, t) == sharer' = [sharer EXCEPT ![u] = [pc |-> "handed", link |-> t]]

-----------------------------------------------------------------------------
(* CreateShare: ownsConversation, or Get of the run *)
OwnsShared(u) ==
  /\ sharer[u].pc = "idle"
  /\ GotoS(u, IF subject = "owned" THEN "look" ELSE "refused")
  /\ patches' = [patches EXCEPT ![u] = 0]
  /\ UNCHANGED <<links, subject, revoker, viewer, losses>>

\* Slip: the filter on revoked_at is forgotten.
ActiveShares_Any == {t \in Sharers : links[t] # "none"}

(* getActiveShare: the rows not revoked, limit 1 *)
ActiveShares == Active

LookForShare(u) ==
  /\ sharer[u].pc \in {"look", "reread"}
  /\ \/ \E t \in ActiveShares : Handed(u, t)
     \/ ActiveShares = {} /\ GotoS(u, IF sharer[u].pc = "look" THEN "insert" ELSE "refused")
  /\ UNCHANGED <<links, subject, revoker, viewer, losses, patches>>

(* Insert: the table has one active row per conversation, a lost race reads again *)
InsertShare(u) ==
  /\ sharer[u].pc = "insert"
  /\ IF Active = {} /\ subject = "owned"
       THEN /\ links' = [links EXCEPT ![u] = "active"]
            /\ \/ Handed(u, u) /\ UNCHANGED losses
               \/ GotoS(u, "reread") /\ Lose
       ELSE GotoS(u, "reread") /\ UNCHANGED <<links, losses>>
  /\ UNCHANGED <<subject, revoker, viewer, patches>>

ShareFails(u) ==
  /\ sharer[u].pc \in {"look", "insert", "reread"} /\ Lose
  /\ GotoS(u, IF sharer[u].pc = "insert" THEN "reread" ELSE "refused")
  /\ UNCHANGED <<links, subject, revoker, viewer, patches>>

(* RevokeShare: the owner's row, then every row not revoked *)
OwnsRevoked(u) ==
  /\ revoker[u] = "idle"
  /\ revoker' = [revoker EXCEPT ![u] = IF subject = "owned" THEN "patch" ELSE "refused"]
  /\ UNCHANGED <<links, subject, sharer, viewer, losses, patches>>

RevokedLinks == [t \in Sharers |-> IF links[t] = "active" THEN "revoked" ELSE links[t]]

RevokeShare(u) ==
  /\ revoker[u] = "patch"
  /\ links' = RevokedLinks
  /\ patches' = [s \in Sharers |-> patches[s] + 1]
  /\ \/ revoker' = [revoker EXCEPT ![u] = "revoked"] /\ UNCHANGED losses
     \/ revoker' = [revoker EXCEPT ![u] = "refused"] /\ Lose
  /\ UNCHANGED <<subject, sharer, viewer>>

RevokeFails(u) ==
  /\ revoker[u] = "patch" /\ Lose
  /\ revoker' = [revoker EXCEPT ![u] = "refused"]
  /\ UNCHANGED <<links, subject, sharer, viewer, patches>>

(* the conversation is deleted, and its links with it *)
DeleteShared ==
  /\ subject = "owned"
  /\ subject' = "gone"
  /\ links' = RevokedLinks
  /\ patches' = [s \in Sharers |-> patches[s] + 1]
  /\ UNCHANGED <<sharer, revoker, viewer, losses>>

(* GetPublicByShareToken: the link's row, then what it names, then its turns *)
OpenLink(v) ==
  /\ viewer[v].pc = "idle"
  /\ \E u \in Sharers : sharer[u].pc = "handed" /\
       LET t == sharer[u].link IN
       viewer' = [viewer EXCEPT ![v] =
         [pc |-> IF links[t] = "active" THEN "load" ELSE "missing", link |-> t,
          after |-> {r \in Revokers : revoker[r] = "revoked"}]]
  /\ UNCHANGED <<links, subject, sharer, revoker, losses, patches>>

LoadShared(v) ==
  /\ viewer[v].pc \in {"load", "turns"}
  /\ \/ viewer' = [viewer EXCEPT ![v].pc =
          IF viewer[v].pc = "turns" THEN "shown"
          ELSE IF subject = "owned" THEN "turns" ELSE "missing"] /\ UNCHANGED losses
     \/ viewer' = [viewer EXCEPT ![v].pc = "missing"] /\ Lose
  /\ UNCHANGED <<links, subject, sharer, revoker, patches>>

SharesNext ==
  \/ \E u \in Sharers : OwnsShared(u) \/ LookForShare(u) \/ InsertShare(u) \/ ShareFails(u)
  \/ \E u \in Revokers : OwnsRevoked(u) \/ RevokeShare(u) \/ RevokeFails(u)
  \/ \E v \in Viewers : OpenLink(v) \/ LoadShared(v)
  \/ DeleteShared

SharesSpec == SharesInit /\ [][SharesNext]_shareVars

-----------------------------------------------------------------------------
\* Whoever asks for a link gets the one link that works: it is active as long as
\* no revoke has taken effect since the request began, whichever of two
\* concurrent requests inserted it and whatever answer was lost on the way.
LinkWorks ==
  /\ Cardinality(Active) <= 1
  /\ \A u \in Sharers :
       sharer[u].pc = "handed" /\ patches[u] = 0 => links[sharer[u].link] = "active"
=============================================================================
