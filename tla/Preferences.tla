---------------------------- MODULE Preferences -----------------------------
(***************************************************************************)
(* The preferences of one user (internal/storage/preferences.go and the    *)
(* handlers of internal/account): a row, a cache of it in each server that *)
(* entries leave after a minute, and requests that read the one through    *)
(* the other or change persona, model and timezone one after another.      *)
(* Of the row only the model is kept: setting the timezone writes back the *)
(* model it has read.                                                      *)
(***************************************************************************)
EXTENDS Naturals

CONSTANTS
  PrefServers,
  Askers,         \* requests
  Updates,        \* bound: what updates change, among "persona", "model" and "zone"
  Models,         \* a user may choose
  NoModel,        \* none chosen
  Placeholder,    \* model seeded with the first timezone
  TTL,            \* prefsCacheTTL
  MaxClock,       \* bound
  MaxPrefFaults   \* bound: calls that fail

ASSUME PreferencesAssumption ==
  /\ Updates \subseteq SUBSET {"persona", "model", "zone"} \ {{}}
  /\ {NoModel, Placeholder} \cap Models = {} /\ NoModel # Placeholder
  /\ TTL \in Nat \ {0} /\ {MaxClock, MaxPrefFaults} \subseteq Nat

VARIABLES
  prefs,       \* user_preferences.llm_model
  cache,       \* of each server: [row, expires], expired or empty when expires is past
  asker,       \* request: [pc, server, todo, want, row, at]
  clock, prefFaults,
  chosenModel, \* history: the model the user has chosen last
  leftAt,      \* history: when the user last left a model for another
  restored     \* history: a timezone was set by a request that had read another model than the chosen

prefVars == <<prefs, cache, asker, clock, prefFaults, chosenModel, leftAt, restored>>

IdleAsker == [pc |-> "idle", server |-> NoModel, todo |-> {}, want |-> NoModel, row |-> NoModel, at |-> 0]

\* Left never: one TTL before the clock starts, which starts there.
PrefsInit ==
  /\ prefs = NoModel /\ cache = [s \in PrefServers |-> [row |-> NoModel, expires |-> 0]]
  /\ asker = [a \in Askers |-> IdleAsker]
  /\ clock = TTL /\ prefFaults = 0
  /\ chosenModel = NoModel /\ leftAt = [m \in Models \cup {NoModel} |-> 0] /\ restored = FALSE

AskerAt(a, pc) == asker' = [asker EXCEPT ![a].pc = pc]
Invalidated(s) == cache' = [cache EXCEPT ![s].expires = 0]

\* updatePreferences: persona, model, timezone, as far as the request has them.
After(todo) ==
  IF "persona" \in todo THEN "persona" ELSE IF "model" \in todo THEN "model" ELSE IF "zone" \in todo THEN "load" ELSE "done"

Tick ==
  /\ clock < TTL + MaxClock /\ clock' = clock + 1
  /\ UNCHANGED <<prefs, cache, asker, prefFaults, chosenModel, leftAt, restored>>

UpdatePreferences(a) ==
  /\ asker[a].pc = "idle"
  /\ \E s \in PrefServers, todo \in Updates, m \in Models \cup {NoModel} :
       /\ ("model" \in todo) = (m # NoModel)
       /\ asker' = [asker EXCEPT ![a] = [IdleAsker EXCEPT !.pc = After(todo), !.server = s, !.todo = todo, !.want = m]]
  /\ UNCHANGED <<prefs, cache, clock, prefFaults, chosenModel, leftAt, restored>>

\* A turn of the chat, or the handler that shows the preferences.
GetPreferences(a) ==
  /\ asker[a].pc = "idle"
  /\ \E s \in PrefServers : asker' = [asker EXCEPT ![a] = [IdleAsker EXCEPT !.pc = "load", !.server = s]]
  /\ UNCHANGED <<prefs, cache, clock, prefFaults, chosenModel, leftAt, restored>>

-----------------------------------------------------------------------------
(* loadRow *)
Loaded(a) == IF "zone" \in asker[a].todo THEN "zone" ELSE "given"

LoadRow(a) ==
  LET entry == cache[asker[a].server]
  IN  /\ asker[a].pc = "load"
      /\ asker' = [asker EXCEPT ![a] =
           IF entry.expires > clock THEN [@ EXCEPT !.pc = Loaded(a), !.row = entry.row, !.at = clock]
                                    ELSE [@ EXCEPT !.pc = "get", !.at = clock]]
      /\ UNCHANGED <<prefs, cache, clock, prefFaults, chosenModel, leftAt, restored>>

GetRow(a) ==
  /\ asker[a].pc = "get"
  /\ asker' = [asker EXCEPT ![a] = [@ EXCEPT !.pc = "put", !.row = prefs]]
  /\ UNCHANGED <<prefs, cache, clock, prefFaults, chosenModel, leftAt, restored>>

\* Slip: the entry lives from when it is put.
Expiry_FromPut(a) == clock + TTL
Expiry(a) == asker[a].at + TTL

PutRow(a) ==
  /\ asker[a].pc = "put"
  /\ cache' = [cache EXCEPT ![asker[a].server] = [row |-> asker[a].row, expires |-> Expiry(a)]]
  /\ AskerAt(a, Loaded(a))
  /\ UNCHANGED <<prefs, clock, prefFaults, chosenModel, leftAt, restored>>

-----------------------------------------------------------------------------
(* SetPersona, SetLLMModel and SetTimezone: the row, then the cache *)
SetPersona(a) ==
  /\ asker[a].pc = "persona" /\ AskerAt(a, "invalidate")
  /\ UNCHANGED <<prefs, cache, clock, prefFaults, chosenModel, leftAt, restored>>

Choose(m) ==
  /\ prefs' = m /\ chosenModel' = m
  /\ leftAt' = IF chosenModel = m THEN leftAt ELSE [leftAt EXCEPT ![chosenModel] = clock]

SetLLMModel(a) ==
  /\ asker[a].pc = "model" /\ AskerAt(a, "invalidate")
  /\ Choose(asker[a].want)
  /\ UNCHANGED <<cache, clock, prefFaults, restored>>

Choice(row) == IF row = Placeholder THEN NoModel ELSE row

SetTimezone(a) ==
  LET row == asker[a].row
  IN  /\ asker[a].pc = "zone" /\ AskerAt(a, "invalidate")
      /\ prefs' = IF row = NoModel THEN Placeholder ELSE row
      /\ restored' = (restored \/ Choice(row) # chosenModel)
      /\ UNCHANGED <<cache, clock, prefFaults, chosenModel, leftAt>>

Invalidate(a) ==
  /\ asker[a].pc = "invalidate"
  /\ Invalidated(asker[a].server)
  /\ LET todo == asker[a].todo \ (IF "persona" \in asker[a].todo THEN {"persona"}
                                  ELSE IF "model" \in asker[a].todo THEN {"model"} ELSE {"zone"})
     IN  asker' = [asker EXCEPT ![a] = [@ EXCEPT !.pc = After(todo), !.todo = todo]]
  /\ UNCHANGED <<prefs, clock, prefFaults, chosenModel, leftAt, restored>>

PrefFault == prefFaults < MaxPrefFaults /\ prefFaults' = prefFaults + 1

\* A row that cannot be read is no row to SetTimezone; a turn goes on without.
GetRowFails(a) ==
  /\ asker[a].pc = "get" /\ PrefFault
  /\ AskerAt(a, IF "zone" \in asker[a].todo THEN "zone" ELSE "done")
  /\ UNCHANGED <<prefs, cache, clock, chosenModel, leftAt, restored>>

\* A write that fails ends the request; what went before it stays.
SetFails(a) ==
  /\ asker[a].pc \in {"persona", "model", "zone"} /\ PrefFault
  /\ AskerAt(a, "done")
  /\ UNCHANGED <<prefs, cache, clock, chosenModel, leftAt, restored>>

\* Or only its answer is lost: the row has changed, the cache is left.
SetAnswerLost(a) ==
  /\ asker[a].pc = "model" /\ PrefFault
  /\ AskerAt(a, "done") /\ Choose(asker[a].want)
  /\ UNCHANGED <<cache, clock, restored>>

PrefsNext ==
  \/ Tick
  \/ \E a \in Askers :
       UpdatePreferences(a) \/ GetPreferences(a) \/ LoadRow(a) \/ GetRow(a) \/ PutRow(a) \/ SetPersona(a)
       \/ SetLLMModel(a) \/ SetTimezone(a) \/ Invalidate(a) \/ GetRowFails(a) \/ SetFails(a) \/ SetAnswerLost(a)

PrefsSpec == PrefsInit /\ [][PrefsNext]_prefVars

-----------------------------------------------------------------------------
(* Properties *)

\* A turn is answered by the model the user has chosen, or by one the user left
\* less than the life of a cache entry before the turn began: however slowly
\* rows are read and entries put, on whichever server the choice was made, and
\* although setting the timezone writes the model too; except after a timezone
\* was set by a request that had read another model, or could read none.
ChosenModelAnswers ==
  \A a \in Askers :
    asker[a].pc = "given" =>
      LET m == Choice(asker[a].row)
      IN  m = chosenModel \/ leftAt[m] + TTL > asker[a].at \/ restored
=============================================================================
