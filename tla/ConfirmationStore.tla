------------------------- MODULE ConfirmationStore -------------------------
(***************************************************************************)
(* The deprecated confirmation protocol (plan_hash, nonce, expires_at): the *)
(* SQLite ledger of confirmation_store.py, the dry-runs that issue a plan,  *)
(* the confirmed calls of manage_graph_data and manage_schema that consume  *)
(* it, and the plan store's migration of the ledger.  Each dry-run also     *)
(* saves a canonical plan, whose confirmation is one step here; the module  *)
(* WriteExecution has its details.                                          *)
(*                                                                          *)
(* Each SQLite transaction is one action.  issue and consume read the clock *)
(* before they wait for the database lock, so they act on an old reading.   *)
(***************************************************************************)
EXTENDS Naturals, WritePlan

CONSTANTS
  Nonces,     \* nonces, generated or supplied by the client
  Payloads,   \* compiled change plans and schema operations
  Tools,      \* tools in use, of the two below
  Previews,   \* dry-run calls, each made once
  Confirms,   \* confirmed calls with the legacy locator, each made once
  TTL,        \* DEFAULT_PLAN_TTL_SECONDS
  MaxClock    \* bound: time stops here

\* delete_graph_data_tool executes the payload kept in the ledger,
\* apply_schema_tool the operations its caller submits again.
KnownTools == {"delete_graph_data_tool", "apply_schema_tool"}

ASSUME LedgerAssumption ==
  /\ Tools \subseteq KnownTools
  /\ Previews \cap Confirms = {}
  /\ TTL \in Nat \ {0}
  /\ MaxClock \in Nat

\* compute_plan_hash: a hash determines what was hashed (SHA-256 is taken as
\* injective; the configuration and the schema, also hashed, are fixed here).
Hashes == [tool : KnownTools, payload : Payloads, nonce : Nonces, exp : Nat]

VARIABLES
  clock,       \* int(time.time())
  issued,      \* issued_confirmations: nonce -> hash, issued_at, payload
  consumed,    \* consumed_confirmations: nonce -> hash
  operations,  \* write_operations of the ledger: hash -> status
  migrated,    \* legacy rows of the plan store: hash -> status
  plans,       \* canonical plans of the plan store: dry-run -> hash, status
  preview,     \* local state of each dry-run
  confirm,     \* local state of each confirmed call
  executed     \* history: who sent a write, under which hash, with which payload

ledger == <<issued, consumed, operations>>
store == <<migrated, plans>>
vars == <<clock, issued, consumed, operations, migrated, plans, preview,
          confirm, executed>>

----------------------------------------------------------------------------
(* Tables                                                                  *)

NoRows == [k \in {} |-> {}]
Put(table, k, row) == [x \in DOMAIN table \cup {k} |-> IF x = k THEN row ELSE table[x]]
Delete(table, keys) == [x \in DOMAIN table \ keys |-> table[x]]

IssuedRows == [hash : Hashes, at : Nat, payload : SUBSET Payloads]

\* Mutant: the record of what was executed expires with its confirmation.
cleanup_expired_all(now) ==
  /\ consumed' = Delete(consumed, {n \in DOMAIN consumed : consumed[n].exp < now})
  /\ issued' = Delete(issued, {n \in DOMAIN issued : issued[n].hash.exp < now})
  /\ operations' = Delete(operations, {h \in DOMAIN operations : h.exp < now})

\* _cleanup_expired commits a transaction of its own.
cleanup_expired(now) ==
  /\ consumed' = Delete(consumed, {n \in DOMAIN consumed : consumed[n].exp < now})
  /\ issued' = Delete(issued, {n \in DOMAIN issued : issued[n].hash.exp < now})
  /\ UNCHANGED operations

\* The window that issued_payload and consume check.
Open(row, now) == now <= row.hash.exp /\ row.hash.exp <= row.at + TTL

\* Mutant: the raw name of the table where the plan store wants a status.
legacy_status_raw(h) ==
  IF h \in DOMAIN operations THEN operations[h]
  ELSE IF \E n \in DOMAIN consumed : consumed[n] = h THEN "CONSUMED"
  ELSE "ISSUED"

\* The status under which the plan store copies a ledger row.
legacy_status(h) ==
  IF h \in DOMAIN operations THEN operations[h]
  ELSE IF \E n \in DOMAIN consumed : consumed[n] = h THEN "LEGACY_UNKNOWN"
  ELSE "ISSUED"

LedgerHashes ==
  {issued[n].hash : n \in DOMAIN issued} \cup {consumed[n] : n \in DOMAIN consumed}
    \cup DOMAIN operations

\* _migrate_legacy, run by every call of the plan store: INSERT OR IGNORE.
MigratedRows ==
  [h \in DOMAIN migrated \cup LedgerHashes |->
     IF h \in DOMAIN migrated THEN migrated[h] ELSE legacy_status(h)]
migrate_legacy == migrated' = MigratedRows

----------------------------------------------------------------------------
(* Dry-runs: issue the legacy confirmation, then save the canonical plan   *)

Idle == [pc |-> "idle"]
Done == [pc |-> "done"]

RunningPreviews == [pc : {"cleanup", "issue", "prepare", "save"}, t : Nat, hash : Hashes]

ConfirmPCs == {"load", "verify", "cleanup", "consume", "execute", "record"}
RunningConfirms ==
  [pc : ConfirmPCs, t : Nat, tool : KnownTools, hash : Hashes, payload : Payloads]

StopPreview(d) == preview' = [preview EXCEPT ![d] = Done]
StopConfirm(c) == confirm' = [confirm EXCEPT ![c] = Done]

\* The ledger of an older version may hold consumed rows without an operation.
Init ==
  /\ clock = 0
  /\ issued = NoRows
  /\ \E old \in SUBSET Nonces, p \in Payloads, tool \in Tools :
       consumed = [n \in old |-> [tool |-> tool, payload |-> p, nonce |-> n, exp |-> TTL]]
  /\ operations = NoRows
  /\ migrated = NoRows
  /\ plans = NoRows
  /\ preview = [d \in Previews |-> Idle]
  /\ confirm = [c \in Confirms |-> Idle]
  /\ executed = {}

\* build_plan_context fixes the hash and the time window.
build_plan_context(d) ==
  /\ preview[d].pc = "idle"
  /\ \E tool \in Tools, p \in Payloads, n \in Nonces :
       preview' = [preview EXCEPT ![d] =
         [pc |-> "cleanup", t |-> clock,
          hash |-> [tool |-> tool, payload |-> p, nonce |-> n, exp |-> clock + TTL]]]
  /\ UNCHANGED <<clock, ledger, store, confirm, executed>>

\* issue reads the clock, checks the window and cleans up ...
IssueCleanup(d) ==
  /\ preview[d].pc = "cleanup"
  /\ \E now \in preview[d].t .. clock :
       \/ /\ preview[d].hash.exp > now
          /\ cleanup_expired(now)
          /\ preview' = [preview EXCEPT ![d] =
                           [pc |-> "issue", t |-> now, hash |-> preview[d].hash]]
       \/ /\ preview[d].hash.exp <= now
          /\ StopPreview(d)
          /\ UNCHANGED ledger
  /\ UNCHANGED <<clock, store, confirm, executed>>

\* ... and inserts the row in a second transaction, which is rolled back when
\* the nonce is bound to another plan.  Only graph plans store their payload.
issue(d) ==
  /\ preview[d].pc = "issue"
  /\ LET h == preview[d].hash
         row == [hash |-> h, at |-> preview[d].t,
                 payload |-> IF h.tool = "delete_graph_data_tool" THEN {h.payload} ELSE {}]
         taken == h.nonce \in DOMAIN issued /\ issued[h.nonce].hash # h
     IN  \/ /\ taken
            /\ StopPreview(d)
            /\ UNCHANGED issued
         \/ /\ ~taken
            /\ issued' = Put(issued, h.nonce, row)
            /\ preview' = [preview EXCEPT ![d] =
                             [pc |-> "prepare", t |-> preview[d].t, hash |-> h]]
  /\ UNCHANGED <<clock, consumed, operations, store, confirm, executed>>

\* save_plan first migrates the ledger ...
prepare(d) ==
  /\ preview[d].pc = "prepare"
  /\ migrate_legacy
  /\ preview' = [preview EXCEPT ![d] =
                   [pc |-> "save", t |-> preview[d].t, hash |-> preview[d].hash]]
  /\ UNCHANGED <<clock, ledger, plans, confirm, executed>>

\* ... and inserts the canonical plan; the dry-run returns both locators.
save_plan(d) ==
  /\ preview[d].pc = "save"
  /\ plans' = Put(plans, d, [hash |-> preview[d].hash, status |-> "ISSUED"])
  /\ StopPreview(d)
  /\ UNCHANGED <<clock, ledger, migrated, confirm, executed>>

\* A dry-run ends early: a store is unavailable or the process dies.
PreviewFails(d) ==
  /\ preview[d].pc \notin {"idle", "done"}
  /\ StopPreview(d)
  /\ UNCHANGED <<clock, ledger, store, confirm, executed>>

----------------------------------------------------------------------------
(* Confirmed calls with the legacy locator                                 *)

Step(c, pc) == [confirm[c] EXCEPT !.pc = pc]
Move(c, pc) == confirm' = [confirm EXCEPT ![c] = Step(c, pc)]

\* replayed_plan_error, on a locator some dry-run returned.  When the ledger
\* cannot be read the call goes on.  A locator that nobody issued is refused
\* by verify_plan_hash or by consume and is left out.
replayed_plan_error(c) ==
  /\ confirm[c].pc = "idle"
  /\ \E d \in DOMAIN plans, tool \in Tools, p \in Payloads :
       \/ /\ plans[d].hash.nonce \in DOMAIN consumed
          /\ StopConfirm(c)
       \/ confirm' = [confirm EXCEPT ![c] =
            [pc |-> IF tool = "delete_graph_data_tool" THEN "load" ELSE "verify",
             t |-> 0, tool |-> tool, hash |-> plans[d].hash, payload |-> p]]
  /\ UNCHANGED <<clock, ledger, store, preview, executed>>

\* load_issued_plan: the stored payload replaces what the caller submitted.
load_issued_plan(c) ==
  /\ confirm[c].pc = "load"
  /\ LET h == confirm[c].hash
         matches == /\ h.nonce \in DOMAIN issued
                    /\ issued[h.nonce].hash = h
                    /\ Open(issued[h.nonce], clock)
         stored == IF matches THEN issued[h.nonce].payload ELSE {}
     IN  \/ \E p \in stored :
              confirm' = [confirm EXCEPT ![c] = [Step(c, "verify") EXCEPT !.payload = p]]
         \/ stored = {} /\ StopConfirm(c)
  /\ UNCHANGED <<clock, ledger, store, preview, executed>>

\* verify_plan_hash: the hash recomputed from the tool and the payload.
verify_plan_hash(c) ==
  /\ confirm[c].pc = "verify"
  /\ LET h == confirm[c].hash
         valid == /\ clock <= h.exp
                  /\ h = [h EXCEPT !.tool = confirm[c].tool, !.payload = confirm[c].payload]
     IN  \/ valid /\ confirm' = [confirm EXCEPT ![c] = [Step(c, "cleanup") EXCEPT !.t = clock]]
         \/ ~valid /\ StopConfirm(c)
  /\ UNCHANGED <<clock, ledger, store, preview, executed>>

\* consume reads the clock, cleans up and goes on when that fails.
ConsumeCleanup(c) ==
  /\ confirm[c].pc = "cleanup"
  /\ \E now \in confirm[c].t .. clock :
       /\ cleanup_expired(now) \/ UNCHANGED ledger
       /\ confirm' = [confirm EXCEPT ![c] = [Step(c, "consume") EXCEPT !.t = now]]
  /\ UNCHANGED <<clock, store, preview, executed>>

\* Mutant: INSERT OR REPLACE into the permanent write_operations.
Consumable_replaces(h, now) ==
  /\ h.nonce \notin DOMAIN consumed
  /\ h.nonce \in DOMAIN issued
  /\ issued[h.nonce].hash = h
  /\ Open(issued[h.nonce], now)

\* Mutant: the row is found by its nonce alone.
Consumable_unbound(h, now) ==
  /\ h.nonce \notin DOMAIN consumed
  /\ h.nonce \in DOMAIN issued
  /\ Open(issued[h.nonce], now)
  /\ \A g \in DOMAIN operations : g.nonce # h.nonce

\* What consume's transaction requires: an unused nonce, the approved row, an
\* open window, and no operation ever recorded for the nonce (UNIQUE).
Consumable(h, now) ==
  /\ h.nonce \notin DOMAIN consumed
  /\ h.nonce \in DOMAIN issued
  /\ issued[h.nonce].hash = h
  /\ Open(issued[h.nonce], now)
  /\ \A g \in DOMAIN operations : g.nonce # h.nonce

\* The graph tool takes the payload from the ledger, and stops if it has none.
consume(c) ==
  /\ confirm[c].pc = "consume"
  /\ LET h == confirm[c].hash
         stored == issued[h.nonce].payload
     IN  \/ /\ Consumable(h, confirm[c].t)
            /\ consumed' = Put(consumed, h.nonce, h)
            /\ operations' = Put(operations, h, "EXECUTING")
            /\ issued' = Delete(issued, {h.nonce})
            /\ IF confirm[c].tool = "apply_schema_tool" THEN Move(c, "execute")
               ELSE IF stored = {} THEN StopConfirm(c)
               ELSE \E p \in stored :
                      confirm' = [confirm EXCEPT ![c] =
                                    [Step(c, "execute") EXCEPT !.payload = p]]
         \/ /\ ~Consumable(h, confirm[c].t)
            /\ StopConfirm(c)
            /\ UNCHANGED ledger
  /\ UNCHANGED <<clock, store, preview, executed>>

\* execute_graph_change_plan or apply_schema_operations.
Execute(c) ==
  /\ confirm[c].pc = "execute"
  /\ executed' = executed \cup
       {[by |-> c, hash |-> confirm[c].hash, payload |-> confirm[c].payload]}
  /\ Move(c, "record")
  /\ UNCHANGED <<clock, ledger, store, preview>>

\* The outcomes that the two tools record.
Outcomes(tool) ==
  {"APPLIED", "ALREADY_APPLIED", "CONFLICT", "UNKNOWN"} \cup
    IF tool = "delete_graph_data_tool" THEN {"REJECTED", "PARTIAL"} ELSE {}

\* UPDATE ... WHERE plan_hash = h: a missing row is not created.
record_outcome(c) ==
  /\ confirm[c].pc = "record"
  /\ \E s \in Outcomes(confirm[c].tool) :
       operations' = [h \in DOMAIN operations |->
                        IF h = confirm[c].hash THEN s ELSE operations[h]]
  /\ StopConfirm(c)
  /\ UNCHANGED <<clock, issued, consumed, store, preview, executed>>

\* A confirmed call raises, returns early or dies.
ConfirmFails(c) ==
  /\ confirm[c].pc \notin {"idle", "done"}
  /\ StopConfirm(c)
  /\ UNCHANGED <<clock, ledger, store, preview, executed>>

----------------------------------------------------------------------------
(* The canonical protocol on the same dry-run, and the environment         *)

\* WriteExecutor.confirm of the dry-run's plan_id, as one step.
ConfirmPlan(d) ==
  /\ d \in DOMAIN plans
  /\ plans[d].status = "ISSUED"
  /\ migrate_legacy
  /\ LET h == plans[d].hash
     IN  \/ /\ clock > h.exp
            /\ plans' = [plans EXCEPT ![d] = [hash |-> h, status |-> "EXPIRED"]]
            /\ UNCHANGED executed
         \/ /\ clock <= h.exp
            /\ plans' = [plans EXCEPT ![d] = [hash |-> h, status |-> "EXECUTING"]]
            /\ executed' = executed \cup {[by |-> d, hash |-> h, payload |-> h.payload]}
  /\ UNCHANGED <<clock, ledger, preview, confirm>>

\* get_write_status_tool only reads, but the plan store migrates first.
get_write_status ==
  /\ migrate_legacy
  /\ UNCHANGED <<clock, ledger, plans, preview, confirm, executed>>

Tick ==
  /\ clock < MaxClock
  /\ clock' = clock + 1
  /\ UNCHANGED <<ledger, store, preview, confirm, executed>>

PreviewStep(d) ==
  \/ build_plan_context(d)
  \/ IssueCleanup(d)
  \/ issue(d)
  \/ prepare(d)
  \/ save_plan(d)
  \/ PreviewFails(d)

ConfirmStep(c) ==
  \/ replayed_plan_error(c)
  \/ load_issued_plan(c)
  \/ verify_plan_hash(c)
  \/ ConsumeCleanup(c)
  \/ consume(c)
  \/ Execute(c)
  \/ record_outcome(c)
  \/ ConfirmFails(c)

Next ==
  \/ \E d \in Previews : PreviewStep(d) \/ ConfirmPlan(d)
  \/ \E c \in Confirms : ConfirmStep(c)
  \/ get_write_status
  \/ Tick

Spec == Init /\ [][Next]_vars

----------------------------------------------------------------------------
(* Properties                                                              *)

LedgerTypeOK ==
  /\ DOMAIN issued \subseteq Nonces
  /\ \A n \in DOMAIN issued : issued[n] \in IssuedRows /\ issued[n].hash.nonce = n
  /\ DOMAIN consumed \subseteq Nonces
  /\ \A n \in DOMAIN consumed : consumed[n] \in Hashes /\ consumed[n].nonce = n
  /\ DOMAIN operations \subseteq Hashes
  /\ \A h \in DOMAIN operations : operations[h] \in PlanStatus

StoreTypeOK ==
  /\ DOMAIN migrated \subseteq Hashes
  /\ \A h \in DOMAIN migrated : migrated[h] \in PlanStatus
  /\ DOMAIN plans \subseteq Previews
  /\ \A d \in DOMAIN plans : plans[d] \in [hash : Hashes, status : PlanStatus]

\* The type of every variable; a row of the ledger is filed under its nonce.
TypeOK ==
  /\ clock \in 0 .. MaxClock
  /\ LedgerTypeOK
  /\ StoreTypeOK
  /\ preview \in [Previews -> {Idle, Done} \cup RunningPreviews]
  /\ confirm \in [Confirms -> {Idle, Done} \cup RunningConfirms]
  /\ executed \subseteq [by : Previews \cup Confirms, hash : Hashes, payload : Payloads]

Legacy == {e \in executed : e.by \in Confirms}

\* A nonce authorises at most one write attempt, whatever cleanup removed,
\* whichever dry-runs used the nonce again, and however old the clock readings
\* are that issue and consume act on.
SingleUse == \A e, f \in Legacy : e.hash.nonce = f.hash.nonce => e = f

\* What a confirmed call writes is what was hashed for its caller to approve,
\* also when the nonce was issued again while the call was under way.
ExecutedWhatWasApproved == \A e \in executed : e.payload = e.hash.payload

\* Every write attempt of the ledger stays on record, past its expiry.
ExecutedIsOnRecord == \A e \in Legacy : e.hash \in DOMAIN operations

\* A recorded outcome is never replaced, deleted or reset to EXECUTING.
OutcomeFinal ==
  [][\A h \in DOMAIN operations :
       operations[h] # "EXECUTING" =>
         h \in DOMAIN operations' /\ operations'[h] = operations[h]]_vars

\* README: the persisted plan is the sole execution authority, so one dry-run
\* is executed at most once, by either protocol.
SoleAuthority ==
  \A e \in Legacy, f \in executed \ Legacy : e.hash # f.hash
=============================================================================
