----------------------- MODULE ConfirmationStoreProofs -----------------------
(***************************************************************************)
(* What the confirmation ledger guarantees for every number of nonces,     *)
(* dry-runs and confirmed calls, every TTL and every length of time.       *)
(***************************************************************************)
EXTENDS ConfirmationStore, TLAPS

----------------------------------------------------------------------------
(* Local states                                                            *)

\* A call whose pc is neither "idle" nor "done" carries its locals.
LEMMA Running ==
  ASSUME TypeOK
  PROVE  /\ \A c \in Confirms : confirm[c].pc \notin {"idle", "done"}
              => confirm[c] \in RunningConfirms
         /\ \A d \in Previews : preview[d].pc \notin {"idle", "done"}
              => preview[d] \in RunningPreviews
BY DEF TypeOK, Idle, Done

\* Moving a running call changes its pc and nothing else.
LEMMA StepFacts ==
  ASSUME NEW c, confirm[c] \in RunningConfirms, NEW pc \in ConfirmPCs
  PROVE  /\ Step(c, pc) \in RunningConfirms
         /\ Step(c, pc).pc = pc
         /\ Step(c, pc).hash = confirm[c].hash
         /\ Step(c, pc).payload = confirm[c].payload
         /\ Step(c, pc).tool = confirm[c].tool
BY DEF Step, RunningConfirms

\* Storing a payload in a running call.
LEMMA StepPayload ==
  ASSUME NEW c, confirm[c] \in RunningConfirms, NEW pc \in ConfirmPCs, NEW p \in Payloads
  PROVE  LET r == [Step(c, pc) EXCEPT !.payload = p]
         IN  r \in RunningConfirms
<1>1. Step(c, pc) \in RunningConfirms
  BY StepFacts
<1>. QED  BY <1>1 DEF RunningConfirms

\* The same for a clock reading, which keeps hash and payload.
LEMMA StepTime ==
  ASSUME NEW c, confirm[c] \in RunningConfirms, NEW pc \in ConfirmPCs, NEW now \in Nat
  PROVE  LET r == [Step(c, pc) EXCEPT !.t = now]
         IN  r \in RunningConfirms /\ r.pc = pc /\ r.hash = confirm[c].hash
             /\ r.payload = confirm[c].payload
<1>1. Step(c, pc) \in RunningConfirms /\ Step(c, pc).pc = pc
      /\ Step(c, pc).hash = confirm[c].hash /\ Step(c, pc).payload = confirm[c].payload
  BY StepFacts
<1>. QED  BY <1>1 DEF RunningConfirms

----------------------------------------------------------------------------
(* Type correctness                                                        *)

\* _cleanup_expired leaves well-typed rows under their own nonce.
LEMMA CleanupType ==
  ASSUME LedgerTypeOK, NEW now, cleanup_expired(now)
  PROVE  LedgerTypeOK'
<1>. DEFINE C == {n \in DOMAIN consumed : consumed[n].exp < now}
            I == {n \in DOMAIN issued : issued[n].hash.exp < now}
<1>1. consumed' = Delete(consumed, C) /\ issued' = Delete(issued, I)
      /\ operations' = operations
  BY DEF cleanup_expired
<1>. HIDE DEF C, I
<1>2. /\ DOMAIN consumed' = DOMAIN consumed \ C
      /\ \A n \in DOMAIN consumed' : consumed'[n] = consumed[n]
      /\ DOMAIN issued' = DOMAIN issued \ I
      /\ \A n \in DOMAIN issued' : issued'[n] = issued[n]
  BY <1>1 DEF Delete
<1>. QED  BY <1>1, <1>2 DEF LedgerTypeOK

\* _migrate_legacy copies hashes of the ledger under statuses of the enumeration.
LEMMA MigrateType ==
  ASSUME LedgerTypeOK, StoreTypeOK, migrate_legacy
  PROVE  /\ DOMAIN migrated' \subseteq Hashes
         /\ \A h \in DOMAIN migrated' : migrated'[h] \in PlanStatus
<1>1. LedgerHashes \subseteq Hashes
  BY DEF LedgerTypeOK, LedgerHashes, IssuedRows
<1>2. \A h : legacy_status(h) \in PlanStatus
  BY DEF LedgerTypeOK, legacy_status, PlanStatus, ApplyStatus
<1>. QED  BY <1>1, <1>2 DEF StoreTypeOK, migrate_legacy, MigratedRows

\* The empty ledger, or that of an older version, is well typed.
LEMMA InitType == Init => TypeOK
<1>. SUFFICES ASSUME Init PROVE TypeOK
  OBVIOUS
<1>1. DOMAIN NoRows = {}
  BY DEF NoRows
<1>2. PICK old \in SUBSET Nonces, p \in Payloads, tool \in Tools :
        consumed = [n \in old |-> [tool |-> tool, payload |-> p, nonce |-> n, exp |-> TTL]]
  BY DEF Init
<1>3. /\ DOMAIN consumed \subseteq Nonces
      /\ \A n \in DOMAIN consumed : consumed[n] \in Hashes /\ consumed[n].nonce = n
  BY <1>2, LedgerAssumption DEF Hashes
<1>4. LedgerTypeOK
  BY <1>1, <1>3 DEF Init, LedgerTypeOK
<1>5. StoreTypeOK
  BY <1>1 DEF Init, StoreTypeOK
<1>. QED  BY <1>4, <1>5, LedgerAssumption DEF Init, TypeOK

\* A finished call.
LEMMA StopTypes ==
  ASSUME TypeOK
  PROVE  /\ \A d \in Previews : StopPreview(d) =>
              preview' \in [Previews -> {Idle, Done} \cup RunningPreviews]
         /\ \A c \in Confirms : StopConfirm(c) =>
              confirm' \in [Confirms -> {Idle, Done} \cup RunningConfirms]
BY DEF TypeOK, StopPreview, StopConfirm

\* The steps of a dry-run: build_plan_context, issue, save_plan.
LEMMA PreviewType ==
  ASSUME TypeOK, NEW d \in Previews, PreviewStep(d)
  PROVE  TypeOK'
<1>. USE LedgerAssumption
<1>1. CASE build_plan_context(d)
  <2>1. PICK tool \in Tools, p \in Payloads, n \in Nonces :
          preview' = [preview EXCEPT ![d] =
            [pc |-> "cleanup", t |-> clock,
             hash |-> [tool |-> tool, payload |-> p, nonce |-> n, exp |-> clock + TTL]]]
    BY <1>1 DEF build_plan_context
  <2>2. [pc |-> "cleanup", t |-> clock,
         hash |-> [tool |-> tool, payload |-> p, nonce |-> n, exp |-> clock + TTL]]
          \in RunningPreviews
    BY DEF TypeOK, RunningPreviews, Hashes
  <2>. QED  BY <1>1, <2>1, <2>2
            DEF build_plan_context, TypeOK, LedgerTypeOK, StoreTypeOK, ledger, store
<1>2. CASE IssueCleanup(d)
  <2>1. preview[d] \in RunningPreviews
    BY <1>2, Running DEF IssueCleanup
  <2>2. PICK now \in preview[d].t .. clock :
          \/ /\ cleanup_expired(now)
             /\ preview' = [preview EXCEPT ![d] =
                              [pc |-> "issue", t |-> now, hash |-> preview[d].hash]]
          \/ StopPreview(d) /\ UNCHANGED ledger
    BY <1>2 DEF IssueCleanup
  <2>3. now \in Nat
    BY <2>1 DEF TypeOK, RunningPreviews
  <2>4. [pc |-> "issue", t |-> now, hash |-> preview[d].hash] \in RunningPreviews
    BY <2>1, <2>3 DEF RunningPreviews
  <2>5. LedgerTypeOK'
    BY <2>2, CleanupType DEF TypeOK, LedgerTypeOK, ledger
  <2>6. preview' \in [Previews -> {Idle, Done} \cup RunningPreviews]
    BY <2>2, <2>4, StopTypes DEF TypeOK
  <2>. QED  BY <1>2, <2>5, <2>6 DEF IssueCleanup, TypeOK, StoreTypeOK, store
<1>3. CASE issue(d)
  <2>1. preview[d] \in RunningPreviews
    BY <1>3, Running DEF issue
  <2>. DEFINE h == preview[d].hash
              row == [hash |-> h, at |-> preview[d].t,
                      payload |-> IF h.tool = "delete_graph_data_tool" THEN {h.payload} ELSE {}]
  <2>2. h \in Hashes /\ h.nonce \in Nonces /\ row \in IssuedRows /\ row.hash = h
    BY <2>1 DEF RunningPreviews, Hashes, IssuedRows
  <2>3. [pc |-> "prepare", t |-> preview[d].t, hash |-> h] \in RunningPreviews
    BY <2>1 DEF RunningPreviews
  <2>4. \/ StopPreview(d) /\ UNCHANGED issued
        \/ /\ issued' = Put(issued, h.nonce, row)
           /\ preview' = [preview EXCEPT ![d] =
                            [pc |-> "prepare", t |-> preview[d].t, hash |-> h]]
    BY <1>3 DEF issue
  <2>. HIDE DEF h, row
  <2>5. LedgerTypeOK'
    <3>1. CASE UNCHANGED issued
      BY <1>3, <3>1 DEF issue, TypeOK, LedgerTypeOK
    <3>2. CASE issued' = Put(issued, h.nonce, row)
      <4>1. /\ DOMAIN issued' = DOMAIN issued \cup {h.nonce}
            /\ issued'[h.nonce] = row
            /\ \A x \in DOMAIN issued : x # h.nonce => issued'[x] = issued[x]
        BY <3>2 DEF Put
      <4>. QED  BY <1>3, <2>2, <4>1 DEF issue, TypeOK, LedgerTypeOK
    <3>. QED  BY <2>4, <3>1, <3>2
  <2>6. preview' \in [Previews -> {Idle, Done} \cup RunningPreviews]
    BY <2>3, <2>4, StopTypes DEF TypeOK
  <2>. QED  BY <1>3, <2>5, <2>6 DEF issue, TypeOK, StoreTypeOK, store
<1>4. CASE prepare(d)
  <2>1. preview[d] \in RunningPreviews
    BY <1>4, Running DEF prepare
  <2>2. [pc |-> "save", t |-> preview[d].t, hash |-> preview[d].hash] \in RunningPreviews
    BY <2>1 DEF RunningPreviews
  <2>3. StoreTypeOK'
    BY <1>4, MigrateType DEF prepare, TypeOK, StoreTypeOK
  <2>. QED  BY <1>4, <2>2, <2>3 DEF prepare, TypeOK, LedgerTypeOK, ledger
<1>5. CASE save_plan(d)
  <2>1. preview[d] \in RunningPreviews
    BY <1>5, Running DEF save_plan
  <2>. DEFINE row == [hash |-> preview[d].hash, status |-> "ISSUED"]
  <2>2. row \in [hash : Hashes, status : PlanStatus]
    BY <2>1 DEF RunningPreviews, PlanStatus
  <2>3. plans' = Put(plans, d, row)
    BY <1>5 DEF save_plan
  <2>. HIDE DEF row
  <2>4. /\ DOMAIN plans' = DOMAIN plans \cup {d}
        /\ plans'[d] = row
        /\ \A x \in DOMAIN plans : x # d => plans'[x] = plans[x]
    BY <2>3 DEF Put
  <2>5. StoreTypeOK'
    BY <1>5, <2>2, <2>4 DEF save_plan, TypeOK, StoreTypeOK
  <2>. QED  BY <1>5, <2>5, StopTypes DEF save_plan, TypeOK, LedgerTypeOK, ledger
<1>6. CASE PreviewFails(d)
  BY <1>6, StopTypes DEF PreviewFails, TypeOK, LedgerTypeOK, StoreTypeOK, ledger, store
<1>. QED  BY <1>1, <1>2, <1>3, <1>4, <1>5, <1>6 DEF PreviewStep

\* The steps of a confirmed call, from the replay check to record_outcome.
LEMMA ConfirmType ==
  ASSUME TypeOK, NEW c \in Confirms, ConfirmStep(c)
  PROVE  TypeOK'
<1>. USE LedgerAssumption
<1>. DEFINE Calls == [Confirms -> {Idle, Done} \cup RunningConfirms]
<1>0. \A r \in RunningConfirms : [confirm EXCEPT ![c] = r] \in Calls
  BY DEF TypeOK
<1>1. CASE replayed_plan_error(c)
  <2>1. confirm' \in Calls
    <3>1. CASE StopConfirm(c)
      BY <3>1, StopTypes
    <3>2. CASE ~StopConfirm(c)
      <4>1. PICK d \in DOMAIN plans, tool \in Tools, p \in Payloads :
              confirm' = [confirm EXCEPT ![c] =
                [pc |-> IF tool = "delete_graph_data_tool" THEN "load" ELSE "verify",
                 t |-> 0, tool |-> tool, hash |-> plans[d].hash, payload |-> p]]
        BY <1>1, <3>2 DEF replayed_plan_error
      <4>2. [pc |-> IF tool = "delete_graph_data_tool" THEN "load" ELSE "verify",
             t |-> 0, tool |-> tool, hash |-> plans[d].hash, payload |-> p]
               \in RunningConfirms
        BY DEF TypeOK, StoreTypeOK, RunningConfirms, ConfirmPCs
      <4>. QED  BY <1>0, <4>1, <4>2
    <3>. QED  BY <3>1, <3>2
  <2>. QED  BY <1>1, <2>1
            DEF replayed_plan_error, TypeOK, LedgerTypeOK, StoreTypeOK, ledger, store
<1>2. CASE load_issued_plan(c)
  <2>1. confirm[c] \in RunningConfirms
    BY <1>2, Running DEF load_issued_plan
  <2>2. confirm' \in Calls
    <3>1. CASE StopConfirm(c)
      BY <3>1, StopTypes
    <3>2. CASE ~StopConfirm(c)
      <4>1. PICK p : /\ confirm[c].hash.nonce \in DOMAIN issued
                     /\ p \in issued[confirm[c].hash.nonce].payload
                     /\ confirm' = [confirm EXCEPT ![c] =
                                      [Step(c, "verify") EXCEPT !.payload = p]]
        BY <1>2, <3>2 DEF load_issued_plan
      <4>2. p \in Payloads
        BY <4>1 DEF TypeOK, LedgerTypeOK, IssuedRows
      <4>3. [Step(c, "verify") EXCEPT !.payload = p] \in RunningConfirms
        BY <2>1, <4>2, StepPayload DEF ConfirmPCs
      <4>. QED  BY <1>0, <4>1, <4>3
    <3>. QED  BY <3>1, <3>2
  <2>. QED  BY <1>2, <2>2
            DEF load_issued_plan, TypeOK, LedgerTypeOK, StoreTypeOK, ledger, store
<1>3. CASE verify_plan_hash(c)
  <2>1. confirm[c] \in RunningConfirms
    BY <1>3, Running DEF verify_plan_hash
  <2>2. [Step(c, "cleanup") EXCEPT !.t = clock] \in RunningConfirms
    BY <2>1, StepTime DEF ConfirmPCs, TypeOK
  <2>3. \/ confirm' = [confirm EXCEPT ![c] = [Step(c, "cleanup") EXCEPT !.t = clock]]
        \/ StopConfirm(c)
    BY <1>3 DEF verify_plan_hash
  <2>4. confirm' \in Calls
    BY <1>0, <2>2, <2>3, StopTypes
  <2>. QED  BY <1>3, <2>4
            DEF verify_plan_hash, TypeOK, LedgerTypeOK, StoreTypeOK, ledger, store
<1>4. CASE ConsumeCleanup(c)
  <2>1. confirm[c] \in RunningConfirms
    BY <1>4, Running DEF ConsumeCleanup
  <2>2. PICK now \in confirm[c].t .. clock :
          /\ cleanup_expired(now) \/ UNCHANGED ledger
          /\ confirm' = [confirm EXCEPT ![c] = [Step(c, "consume") EXCEPT !.t = now]]
    BY <1>4 DEF ConsumeCleanup
  <2>3. now \in Nat
    BY <2>1 DEF TypeOK, RunningConfirms
  <2>4. [Step(c, "consume") EXCEPT !.t = now] \in RunningConfirms
    BY <2>1, <2>3, StepTime DEF ConfirmPCs
  <2>5. LedgerTypeOK'
    BY <2>2, CleanupType DEF TypeOK, LedgerTypeOK, ledger
  <2>6. confirm' \in Calls
    BY <1>0, <2>2, <2>4
  <2>. QED  BY <1>4, <2>5, <2>6 DEF ConsumeCleanup, TypeOK, StoreTypeOK, store
<1>5. CASE consume(c)
  <2>1. confirm[c] \in RunningConfirms
    BY <1>5, Running DEF consume
  <2>. DEFINE h == confirm[c].hash
  <2>2. h \in Hashes /\ h.nonce \in Nonces
    BY <2>1 DEF RunningConfirms, Hashes
  <2>3. CASE StopConfirm(c) /\ UNCHANGED ledger
    BY <1>5, <2>3, StopTypes DEF consume, TypeOK, LedgerTypeOK, StoreTypeOK, ledger, store
  <2>4. CASE /\ Consumable(h, confirm[c].t)
             /\ consumed' = Put(consumed, h.nonce, h)
             /\ operations' = Put(operations, h, "EXECUTING")
             /\ issued' = Delete(issued, {h.nonce})
             /\ \/ Move(c, "execute")
                \/ StopConfirm(c)
                \/ \E p \in issued[h.nonce].payload :
                     confirm' = [confirm EXCEPT ![c] = [Step(c, "execute") EXCEPT !.payload = p]]
    <3>1. DOMAIN issued' \subseteq Nonces
          /\ \A n \in DOMAIN issued' : issued'[n] \in IssuedRows /\ issued'[n].hash.nonce = n
      BY <2>4 DEF TypeOK, LedgerTypeOK, Delete
    <3>2. DOMAIN consumed' \subseteq Nonces
          /\ \A n \in DOMAIN consumed' : consumed'[n] \in Hashes /\ consumed'[n].nonce = n
      BY <2>2, <2>4 DEF TypeOK, LedgerTypeOK, Put
    <3>3. DOMAIN operations' \subseteq Hashes
          /\ \A g \in DOMAIN operations' : operations'[g] \in PlanStatus
      BY <2>2, <2>4 DEF TypeOK, LedgerTypeOK, Put, PlanStatus
    <3>4. issued[h.nonce].payload \subseteq Payloads
      BY <2>4 DEF Consumable, TypeOK, LedgerTypeOK, IssuedRows
    <3>5. confirm' \in Calls
      <4>1. CASE StopConfirm(c)
        BY <4>1, StopTypes
      <4>2. CASE Move(c, "execute")
        BY <1>0, <2>1, <4>2, StepFacts DEF Move, ConfirmPCs
      <4>3. ASSUME NEW p \in issued[h.nonce].payload,
                   confirm' = [confirm EXCEPT ![c] = [Step(c, "execute") EXCEPT !.payload = p]]
            PROVE  confirm' \in Calls
        <5>1. [Step(c, "execute") EXCEPT !.payload = p] \in RunningConfirms
          BY <2>1, <3>4, <4>3, StepPayload DEF ConfirmPCs
        <5>. QED  BY <1>0, <4>3, <5>1
      <4>. QED  BY <2>4, <4>1, <4>2, <4>3
    <3>6. LedgerTypeOK'
      BY <3>1, <3>2, <3>3 DEF LedgerTypeOK
    <3>. QED  BY <1>5, <3>5, <3>6 DEF consume, TypeOK, StoreTypeOK, store
  <2>. QED  BY <1>5, <2>3, <2>4 DEF consume
<1>6. CASE Execute(c)
  <2>1. confirm[c] \in RunningConfirms
    BY <1>6, Running DEF Execute
  <2>2. confirm' \in Calls
    BY <1>0, <1>6, <2>1, StepFacts DEF Execute, Move, ConfirmPCs
  <2>3. [by |-> c, hash |-> confirm[c].hash, payload |-> confirm[c].payload]
          \in [by : Previews \cup Confirms, hash : Hashes, payload : Payloads]
    BY <2>1 DEF RunningConfirms
  <2>. QED  BY <1>6, <2>2, <2>3
            DEF Execute, TypeOK, LedgerTypeOK, StoreTypeOK, ledger, store
<1>7. CASE record_outcome(c)
  <2>1. PICK s \in Outcomes(confirm[c].tool) :
          operations' = [h \in DOMAIN operations |->
                           IF h = confirm[c].hash THEN s ELSE operations[h]]
    BY <1>7 DEF record_outcome
  <2>2. s \in PlanStatus
    BY DEF Outcomes, PlanStatus, ApplyStatus
  <2>3. LedgerTypeOK'
    BY <1>7, <2>1, <2>2 DEF record_outcome, TypeOK, LedgerTypeOK
  <2>. QED  BY <1>7, <2>3, StopTypes DEF record_outcome, TypeOK, StoreTypeOK, store
<1>8. CASE ConfirmFails(c)
  BY <1>8, StopTypes DEF ConfirmFails, TypeOK, LedgerTypeOK, StoreTypeOK, ledger, store
<1>. QED  BY <1>1, <1>2, <1>3, <1>4, <1>5, <1>6, <1>7, <1>8 DEF ConfirmStep

\* The canonical confirmation of the same dry-run.
LEMMA ConfirmPlanType ==
  ASSUME TypeOK, NEW d \in Previews, ConfirmPlan(d)
  PROVE  TypeOK'
<1>. DEFINE h == plans[d].hash
<1>1. h \in Hashes
  BY DEF ConfirmPlan, TypeOK, StoreTypeOK
<1>2. [by |-> d, hash |-> h, payload |-> h.payload]
        \in [by : Previews \cup Confirms, hash : Hashes, payload : Payloads]
  BY <1>1 DEF Hashes
<1>3. executed' \subseteq [by : Previews \cup Confirms, hash : Hashes, payload : Payloads]
  BY <1>2 DEF ConfirmPlan, TypeOK
<1>4. DOMAIN plans' \subseteq Previews
      /\ \A x \in DOMAIN plans' : plans'[x] \in [hash : Hashes, status : PlanStatus]
  <2>1. \A s \in {"EXPIRED", "EXECUTING"} :
          [hash |-> h, status |-> s] \in [hash : Hashes, status : PlanStatus]
    BY <1>1 DEF PlanStatus
  <2>2. \/ plans' = [plans EXCEPT ![d] = [hash |-> h, status |-> "EXPIRED"]]
        \/ plans' = [plans EXCEPT ![d] = [hash |-> h, status |-> "EXECUTING"]]
    BY DEF ConfirmPlan
  <2>. QED  BY <2>1, <2>2 DEF TypeOK, StoreTypeOK
<1>5. StoreTypeOK'
  BY <1>4, MigrateType DEF ConfirmPlan, TypeOK, StoreTypeOK
<1>. QED  BY <1>3, <1>5 DEF ConfirmPlan, TypeOK, LedgerTypeOK, ledger

\* Every variable of the ledger protocol keeps its type, for all constants.
THEOREM LedgerTypeCorrect == Spec => []TypeOK
<1>1. Init => TypeOK
  BY InitType
<1>2. TypeOK /\ [Next]_vars => TypeOK'
  <2>. SUFFICES ASSUME TypeOK, [Next]_vars PROVE TypeOK'
    OBVIOUS
  <2>1. CASE get_write_status
    BY <2>1, MigrateType DEF get_write_status, TypeOK, LedgerTypeOK, StoreTypeOK, ledger
  <2>2. CASE Tick
    BY <2>2, LedgerAssumption DEF Tick, TypeOK, LedgerTypeOK, StoreTypeOK, ledger, store
  <2>3. CASE UNCHANGED vars
    BY <2>3 DEF vars, TypeOK, LedgerTypeOK, StoreTypeOK
  <2>. QED  BY <2>1, <2>2, <2>3, PreviewType, ConfirmType, ConfirmPlanType DEF Next
<1>. QED  BY <1>1, <1>2, PTL DEF Spec

----------------------------------------------------------------------------
(* A nonce authorises at most one write attempt                            *)

\* The strengthening of SingleUse: a call that consumed its nonce has a row in
\* the operations of the ledger, which no step removes, and consume finds no
\* such row for the nonce.  So at most one call is about to execute, and none
\* once an execution is on record.
OneHolder ==
  /\ \A c \in Confirms : confirm[c].pc = "execute" => confirm[c].hash \in DOMAIN operations
  /\ ExecutedIsOnRecord
  /\ \A b, c \in Confirms :
       confirm[b].pc = "execute" /\ confirm[c].pc = "execute"
         /\ confirm[b].hash.nonce = confirm[c].hash.nonce => b = c
  /\ \A c \in Confirms, e \in Legacy :
       confirm[c].pc = "execute" => confirm[c].hash.nonce # e.hash.nonce
  /\ SingleUse

\* The steps that neither reach "execute" nor add a legacy execution.
QuietStep ==
  /\ DOMAIN operations \subseteq DOMAIN operations'
  /\ Legacy' = Legacy
  /\ \A c \in Confirms : confirm'[c].pc = "execute" => confirm'[c] = confirm[c]

\* A quiet step keeps the invariant: rows of write_operations are never deleted.
LEMMA QuietKeepsOneHolder == OneHolder /\ QuietStep => OneHolder'
<1>. SUFFICES ASSUME OneHolder, QuietStep PROVE OneHolder'
  OBVIOUS
<1>1. \A c \in Confirms : confirm'[c].pc = "execute" =>
        confirm[c].pc = "execute" /\ confirm'[c].hash = confirm[c].hash
  BY DEF QuietStep
<1>2. (\A c \in Confirms : confirm[c].pc = "execute" => confirm[c].hash \in DOMAIN operations)'
  BY <1>1 DEF OneHolder, QuietStep
<1>3. ExecutedIsOnRecord'
  BY DEF OneHolder, QuietStep, ExecutedIsOnRecord
<1>4. SingleUse'
  BY DEF OneHolder, QuietStep, SingleUse
<1>. QED  BY <1>1, <1>2, <1>3, <1>4 DEF OneHolder, QuietStep

\* Dry-runs, reads, failures, cleanups and outcomes are quiet.
LEMMA QuietSteps ==
  ASSUME TypeOK, Next, ~ \E c \in Confirms : consume(c) \/ Execute(c)
  PROVE  QuietStep
<1>1. ASSUME UNCHANGED <<operations, executed>>,
             NEW c \in Confirms, NEW r,
             confirm' = [confirm EXCEPT ![c] = r], r.pc # "execute"
      PROVE  QuietStep
  BY <1>1 DEF QuietStep, Legacy, TypeOK
<1>2. ASSUME NEW c \in Confirms, StopConfirm(c), executed' = executed,
             DOMAIN operations' = DOMAIN operations
      PROVE  QuietStep
  BY <1>2 DEF QuietStep, Legacy, TypeOK, StopConfirm, Done
<1>3. CASE \E d \in Previews : PreviewStep(d)
  BY <1>3 DEF PreviewStep, build_plan_context, IssueCleanup, issue, prepare, save_plan,
              PreviewFails, cleanup_expired, ledger, QuietStep, Legacy
<1>4. CASE \E d \in Previews : ConfirmPlan(d)
  <2>1. PICK d \in Previews : ConfirmPlan(d)
    BY <1>4
  <2>2. \A e \in executed' \ executed : e.by = d
    BY <2>1 DEF ConfirmPlan
  <2>3. Legacy' = Legacy
    BY <2>1, <2>2, LedgerAssumption DEF ConfirmPlan, Legacy
  <2>. QED  BY <2>1, <2>3 DEF ConfirmPlan, ledger, QuietStep
<1>5. CASE get_write_status \/ Tick
  BY <1>5 DEF get_write_status, Tick, ledger, QuietStep, Legacy
<1>6. ASSUME NEW c \in Confirms, ConfirmStep(c), ~consume(c), ~Execute(c)
      PROVE  QuietStep
  <2>1. CASE replayed_plan_error(c)
    <3>1. CASE StopConfirm(c)
      BY <1>2, <2>1, <3>1 DEF replayed_plan_error, ledger
    <3>2. CASE ~StopConfirm(c)
      <4>1. PICK d \in DOMAIN plans, tool \in Tools, p \in Payloads :
              confirm' = [confirm EXCEPT ![c] =
                [pc |-> IF tool = "delete_graph_data_tool" THEN "load" ELSE "verify",
                 t |-> 0, tool |-> tool, hash |-> plans[d].hash, payload |-> p]]
        BY <2>1, <3>2 DEF replayed_plan_error
      <4>. DEFINE r == [pc |-> IF tool = "delete_graph_data_tool" THEN "load" ELSE "verify",
                        t |-> 0, tool |-> tool, hash |-> plans[d].hash, payload |-> p]
      <4>2. r.pc # "execute"
        OBVIOUS
      <4>3. confirm' = [confirm EXCEPT ![c] = r] /\ UNCHANGED <<operations, executed>>
        BY <2>1, <4>1 DEF replayed_plan_error, ledger
      <4>. HIDE DEF r
      <4>. QED  BY <1>1, <4>2, <4>3
    <3>. QED  BY <3>1, <3>2
  <2>2. CASE load_issued_plan(c)
    <3>1. CASE StopConfirm(c)
      BY <1>2, <2>2, <3>1 DEF load_issued_plan, ledger
    <3>2. CASE ~StopConfirm(c)
      <4>1. PICK p : /\ confirm[c].hash.nonce \in DOMAIN issued
                     /\ p \in issued[confirm[c].hash.nonce].payload
                     /\ confirm' = [confirm EXCEPT ![c] =
                                      [Step(c, "verify") EXCEPT !.payload = p]]
        BY <2>2, <3>2 DEF load_issued_plan
      <4>2. confirm[c] \in RunningConfirms /\ p \in Payloads /\ "verify" \in ConfirmPCs
        BY <2>2, <4>1, Running
           DEF load_issued_plan, TypeOK, LedgerTypeOK, IssuedRows, ConfirmPCs
      <4>3. [Step(c, "verify") EXCEPT !.payload = p].pc = "verify"
        <5>1. Step(c, "verify") \in RunningConfirms /\ Step(c, "verify").pc = "verify"
          BY <4>2, StepFacts
        <5>. QED  BY <5>1 DEF RunningConfirms
      <4>. QED  BY <1>1, <2>2, <4>1, <4>3 DEF load_issued_plan, ledger
    <3>. QED  BY <3>1, <3>2
  <2>3. CASE verify_plan_hash(c)
    <3>1. CASE StopConfirm(c)
      BY <1>2, <2>3, <3>1 DEF verify_plan_hash, ledger
    <3>2. CASE confirm' = [confirm EXCEPT ![c] = [Step(c, "cleanup") EXCEPT !.t = clock]]
      <4>1. confirm[c] \in RunningConfirms /\ clock \in Nat
        BY <2>3, Running DEF verify_plan_hash, TypeOK
      <4>2. [Step(c, "cleanup") EXCEPT !.t = clock].pc = "cleanup"
        BY <4>1, StepTime DEF ConfirmPCs
      <4>. QED  BY <1>1, <2>3, <3>2, <4>2 DEF verify_plan_hash, ledger
    <3>. QED  BY <2>3, <3>1, <3>2 DEF verify_plan_hash
  <2>4. CASE ConsumeCleanup(c)
    <3>1. PICK now \in confirm[c].t .. clock :
            /\ cleanup_expired(now) \/ UNCHANGED ledger
            /\ confirm' = [confirm EXCEPT ![c] = [Step(c, "consume") EXCEPT !.t = now]]
      BY <2>4 DEF ConsumeCleanup
    <3>2. confirm[c] \in RunningConfirms
      BY <2>4, Running DEF ConsumeCleanup
    <3>3. now \in Nat
      BY <3>2 DEF TypeOK, RunningConfirms
    <3>4. [Step(c, "consume") EXCEPT !.t = now].pc = "consume"
      BY <3>2, <3>3, StepTime DEF ConfirmPCs
    <3>. QED  BY <1>1, <2>4, <3>1, <3>4 DEF ConsumeCleanup, cleanup_expired, ledger
  <2>5. CASE record_outcome(c)
    BY <1>2, <2>5 DEF record_outcome
  <2>6. CASE ConfirmFails(c)
    BY <1>2, <2>6 DEF ConfirmFails, ledger
  <2>. QED  BY <1>6, <2>1, <2>2, <2>3, <2>4, <2>5, <2>6 DEF ConfirmStep
<1>. QED  BY <1>3, <1>4, <1>5, <1>6 DEF Next

\* consume admits one call per nonce: the UNIQUE nonce of write_operations.
LEMMA ConsumeKeepsOneHolder ==
  ASSUME TypeOK, OneHolder, NEW c \in Confirms, consume(c)
  PROVE  OneHolder'
<1>. DEFINE h == confirm[c].hash
<1>1. confirm[c] \in RunningConfirms
  BY Running DEF consume
<1>2. CASE StopConfirm(c)
  <2>1. DOMAIN operations \subseteq DOMAIN operations'
    BY DEF consume, ledger, Put
  <2>2. \A b \in Confirms : confirm'[b].pc = "execute" => confirm'[b] = confirm[b]
    BY <1>2 DEF StopConfirm, Done, TypeOK
  <2>3. QuietStep
    BY <2>1, <2>2 DEF QuietStep, Legacy, consume
  <2>. QED  BY <2>3, QuietKeepsOneHolder
<1>3. CASE ~StopConfirm(c)
  <2>1. Consumable(h, confirm[c].t) /\ operations' = Put(operations, h, "EXECUTING")
    BY <1>3 DEF consume
  <2>2. DOMAIN operations' = DOMAIN operations \cup {h}
    BY <2>1 DEF Put
  <2>3. \A g \in DOMAIN operations : g.nonce # h.nonce
    BY <2>1 DEF Consumable
  <2>4. PICK r : confirm' = [confirm EXCEPT ![c] = r] /\ r.pc = "execute" /\ r.hash = h
    <3>0. "execute" \in ConfirmPCs
      BY DEF ConfirmPCs
    <3>1. CASE Move(c, "execute")
      <4>1. Step(c, "execute").pc = "execute" /\ Step(c, "execute").hash = h
        BY <1>1, <3>0, StepFacts
      <4>. QED  BY <3>1, <4>1 DEF Move
    <3>2. CASE ~Move(c, "execute")
      <4>1. PICK p \in issued[h.nonce].payload :
              confirm' = [confirm EXCEPT ![c] = [Step(c, "execute") EXCEPT !.payload = p]]
        BY <1>3, <3>2 DEF consume
      <4>2. p \in Payloads
        BY <2>1, <4>1 DEF Consumable, TypeOK, LedgerTypeOK, IssuedRows
      <4>3. /\ [Step(c, "execute") EXCEPT !.payload = p].pc = "execute"
            /\ [Step(c, "execute") EXCEPT !.payload = p].hash = h
        <5>1. /\ Step(c, "execute") \in RunningConfirms
              /\ Step(c, "execute").pc = "execute" /\ Step(c, "execute").hash = h
          BY <1>1, <3>0, StepFacts
        <5>. QED  BY <5>1 DEF RunningConfirms
      <4>. QED  BY <4>1, <4>3
    <3>. QED  BY <3>1, <3>2
  <2>5. /\ confirm'[c].pc = "execute" /\ confirm'[c].hash = h
        /\ \A b \in Confirms : b # c => confirm'[b] = confirm[b]
    BY <2>4 DEF TypeOK
  <2>6. executed' = executed /\ Legacy' = Legacy
    BY DEF consume, Legacy
  <2>. HIDE DEF h
  <2>7. \A b \in Confirms : b # c /\ confirm[b].pc = "execute" => confirm[b].hash.nonce # h.nonce
    BY <2>3 DEF OneHolder
  <2>8. \A e \in Legacy : e.hash.nonce # h.nonce
    BY <2>3 DEF OneHolder, ExecutedIsOnRecord
  <2>9. (\A b \in Confirms : confirm[b].pc = "execute" => confirm[b].hash \in DOMAIN operations)'
    BY <2>2, <2>5 DEF OneHolder
  <2>10. ExecutedIsOnRecord' /\ SingleUse'
    BY <2>2, <2>6 DEF OneHolder, ExecutedIsOnRecord, SingleUse
  <2>11. \A a, b \in Confirms :
           confirm'[a].pc = "execute" /\ confirm'[b].pc = "execute"
             /\ confirm'[a].hash.nonce = confirm'[b].hash.nonce => a = b
    BY <2>5, <2>7 DEF OneHolder
  <2>12. \A b \in Confirms, e \in Legacy' :
           confirm'[b].pc = "execute" => confirm'[b].hash.nonce # e.hash.nonce
    BY <2>5, <2>6, <2>8 DEF OneHolder
  <2>. QED  BY <2>9, <2>10, <2>11, <2>12 DEF OneHolder
<1>. QED  BY <1>2, <1>3

\* The holder of a nonce executes once and then holds it no longer.
LEMMA ExecuteKeepsOneHolder ==
  ASSUME TypeOK, OneHolder, NEW c \in Confirms, Execute(c)
  PROVE  OneHolder'
<1>. DEFINE new == [by |-> c, hash |-> confirm[c].hash, payload |-> confirm[c].payload]
<1>1. confirm[c] \in RunningConfirms /\ confirm[c].pc = "execute"
  BY Running DEF Execute
<1>2. Step(c, "record").pc = "record"
  BY <1>1, StepFacts DEF ConfirmPCs
<1>3. /\ confirm'[c].pc = "record"
      /\ \A b \in Confirms : b # c => confirm'[b] = confirm[b]
  BY <1>2 DEF Execute, Move, TypeOK
<1>4. Legacy' = Legacy \cup {new}
  BY DEF Execute, Legacy
<1>5. DOMAIN operations' = DOMAIN operations
  BY DEF Execute, ledger
<1>6. new.hash = confirm[c].hash
  OBVIOUS
<1>. HIDE DEF new
<1>7. (\A b \in Confirms : confirm[b].pc = "execute" => confirm[b].hash \in DOMAIN operations)'
  BY <1>3, <1>5 DEF OneHolder
<1>8. ExecutedIsOnRecord'
  BY <1>1, <1>4, <1>5, <1>6 DEF OneHolder, ExecutedIsOnRecord
<1>9. SingleUse'
  <2>1. \A e \in Legacy : e.hash.nonce # new.hash.nonce
    BY <1>1, <1>6 DEF OneHolder
  <2>. QED  BY <1>4, <2>1 DEF OneHolder, SingleUse
<1>10. \A a, b \in Confirms :
         confirm'[a].pc = "execute" /\ confirm'[b].pc = "execute"
           /\ confirm'[a].hash.nonce = confirm'[b].hash.nonce => a = b
  BY <1>3 DEF OneHolder
<1>11. \A b \in Confirms, e \in Legacy' :
         confirm'[b].pc = "execute" => confirm'[b].hash.nonce # e.hash.nonce
  BY <1>1, <1>3, <1>4, <1>6 DEF OneHolder
<1>. QED  BY <1>7, <1>8, <1>9, <1>10, <1>11 DEF OneHolder

\* The inductive invariant of the ledger.
LEMMA OneHolderInvariant == Spec => []OneHolder
<1>1. Init => OneHolder
  BY DEF Init, OneHolder, ExecutedIsOnRecord, SingleUse, Legacy, Idle
<1>2. TypeOK /\ OneHolder /\ [Next]_vars => OneHolder'
  <2>. SUFFICES ASSUME TypeOK, OneHolder, [Next]_vars PROVE OneHolder'
    OBVIOUS
  <2>1. CASE UNCHANGED vars
    <3>1. QuietStep
      BY <2>1 DEF vars, QuietStep, Legacy
    <3>. QED  BY <3>1, QuietKeepsOneHolder
  <2>. QED  BY <2>1, QuietSteps, QuietKeepsOneHolder, ConsumeKeepsOneHolder,
               ExecuteKeepsOneHolder
<1>. QED  BY <1>1, <1>2, LedgerTypeCorrect, PTL DEF Spec

\* A nonce of the confirmation ledger authorises at most one write attempt, for
\* any number of dry-runs and confirmed calls, with cleanup, reuse of the nonce
\* and clock readings of any age: ConfirmationStore.consume is single-use.
THEOREM NonceIsSingleUse == Spec => []SingleUse
<1>1. OneHolder => SingleUse
  BY DEF OneHolder
<1>. QED  BY <1>1, OneHolderInvariant, PTL

\* Every attempt stays on record, past the expiry of its confirmation.
THEOREM AttemptStaysOnRecord == Spec => []ExecutedIsOnRecord
<1>1. OneHolder => ExecutedIsOnRecord
  BY DEF OneHolder
<1>. QED  BY <1>1, OneHolderInvariant, PTL
----------------------------------------------------------------------------
(* What is written is what was approved                                    *)

\* A step from one record of a call to the next: everything after verify keeps
\* the hash, and the payload that is executed is the verified or the stored one.
Advances(c, r) ==
  \/ r.pc \in {"done", "load", "verify"}
  \/ /\ confirm[c].pc = "verify" /\ r.pc = "cleanup"
     /\ r.hash = confirm[c].hash
     /\ r.payload = confirm[c].hash.payload
  \/ /\ <<confirm[c].pc, r.pc>> \in {<<"cleanup", "consume">>, <<"execute", "record">>}
     /\ r.hash = confirm[c].hash
     /\ r.payload = confirm[c].payload
  \/ /\ confirm[c].pc = "consume" /\ r.pc = "execute"
     /\ Consumable(confirm[c].hash, confirm[c].t)
     /\ r.hash = confirm[c].hash
     /\ \/ r.payload = confirm[c].payload
        \/ r.payload \in issued[r.hash.nonce].payload

\* Every step of a confirmed call advances it in one of these ways.
LEMMA ConfirmAdvances ==
  ASSUME TypeOK, NEW c \in Confirms, ConfirmStep(c)
  PROVE  \E r : confirm' = [confirm EXCEPT ![c] = r] /\ Advances(c, r)
<1>1. StopConfirm(c) => \E r : confirm' = [confirm EXCEPT ![c] = r] /\ Advances(c, r)
  <2>1. Advances(c, Done)
    BY DEF Done, Advances
  <2>. QED  BY <2>1 DEF StopConfirm
<1>2. CASE replayed_plan_error(c) /\ ~StopConfirm(c)
  <2>1. PICK d \in DOMAIN plans, tool \in Tools, p \in Payloads :
          confirm' = [confirm EXCEPT ![c] =
            [pc |-> IF tool = "delete_graph_data_tool" THEN "load" ELSE "verify",
             t |-> 0, tool |-> tool, hash |-> plans[d].hash, payload |-> p]]
    BY <1>2 DEF replayed_plan_error
  <2>. DEFINE r == [pc |-> IF tool = "delete_graph_data_tool" THEN "load" ELSE "verify",
                    t |-> 0, tool |-> tool, hash |-> plans[d].hash, payload |-> p]
  <2>2. r.pc \in {"load", "verify"}
    OBVIOUS
  <2>. QED  BY <2>1, <2>2 DEF Advances
<1>3. CASE load_issued_plan(c) /\ ~StopConfirm(c)
  <2>1. PICK p : /\ confirm[c].hash.nonce \in DOMAIN issued
                 /\ p \in issued[confirm[c].hash.nonce].payload
                 /\ confirm' = [confirm EXCEPT ![c] =
                                  [Step(c, "verify") EXCEPT !.payload = p]]
    BY <1>3 DEF load_issued_plan
  <2>2. Step(c, "verify") \in RunningConfirms /\ Step(c, "verify").pc = "verify"
    BY <1>3, Running, StepFacts DEF load_issued_plan, ConfirmPCs
  <2>3. [Step(c, "verify") EXCEPT !.payload = p].pc = "verify"
    BY <2>2 DEF RunningConfirms
  <2>. QED  BY <2>1, <2>3 DEF Advances
<1>4. CASE verify_plan_hash(c) /\ ~StopConfirm(c)
  <2>. DEFINE h == confirm[c].hash
              r == [Step(c, "cleanup") EXCEPT !.t = clock]
  <2>1. /\ confirm' = [confirm EXCEPT ![c] = r]
        /\ h = [h EXCEPT !.tool = confirm[c].tool, !.payload = confirm[c].payload]
    BY <1>4 DEF verify_plan_hash
  <2>2. confirm[c] \in RunningConfirms /\ clock \in Nat /\ confirm[c].pc = "verify"
    BY <1>4, Running DEF verify_plan_hash, TypeOK
  <2>3. r.pc = "cleanup" /\ r.hash = h /\ r.payload = confirm[c].payload
    <3>1. "cleanup" \in ConfirmPCs
      BY DEF ConfirmPCs
    <3>. QED  BY <2>2, <3>1, StepTime
  <2>4. h.payload = confirm[c].payload
    <3>1. h \in Hashes
      BY <2>2 DEF RunningConfirms
    <3>. QED  BY <2>1, <3>1 DEF Hashes
  <2>. QED  BY <2>1, <2>2, <2>3, <2>4 DEF Advances
<1>5. CASE ConsumeCleanup(c)
  <2>1. PICK now \in confirm[c].t .. clock :
          confirm' = [confirm EXCEPT ![c] = [Step(c, "consume") EXCEPT !.t = now]]
    BY <1>5 DEF ConsumeCleanup
  <2>2. confirm[c] \in RunningConfirms /\ confirm[c].pc = "cleanup"
    BY <1>5, Running DEF ConsumeCleanup
  <2>3. now \in Nat
    BY <2>2 DEF TypeOK, RunningConfirms
  <2>. DEFINE r == [Step(c, "consume") EXCEPT !.t = now]
  <2>4. r.pc = "consume" /\ r.hash = confirm[c].hash /\ r.payload = confirm[c].payload
    BY <2>2, <2>3, StepTime DEF ConfirmPCs
  <2>. QED  BY <2>1, <2>2, <2>4 DEF Advances
<1>6. CASE consume(c) /\ ~StopConfirm(c)
  <2>. DEFINE h == confirm[c].hash
  <2>1. Consumable(h, confirm[c].t) /\ confirm[c].pc = "consume"
    BY <1>6 DEF consume
  <2>2. /\ Step(c, "execute") \in RunningConfirms /\ Step(c, "execute").pc = "execute"
        /\ Step(c, "execute").hash = h /\ Step(c, "execute").payload = confirm[c].payload
    BY <2>1, Running, StepFacts DEF ConfirmPCs
  <2>3. CASE Move(c, "execute")
    BY <2>1, <2>2, <2>3 DEF Move, Advances
  <2>4. CASE ~Move(c, "execute")
    <3>1. PICK p \in issued[h.nonce].payload :
            confirm' = [confirm EXCEPT ![c] = [Step(c, "execute") EXCEPT !.payload = p]]
      BY <1>6, <2>4 DEF consume
    <3>. DEFINE r == [Step(c, "execute") EXCEPT !.payload = p]
    <3>2. r.pc = "execute" /\ r.hash = h /\ r.payload = p
      BY <2>2 DEF RunningConfirms
    <3>. QED  BY <2>1, <3>1, <3>2 DEF Advances
  <2>. QED  BY <2>3, <2>4
<1>7. CASE Execute(c)
  <2>1. confirm[c].pc = "execute" /\ Move(c, "record")
    BY <1>7 DEF Execute
  <2>2. /\ Step(c, "record").pc = "record" /\ Step(c, "record").hash = confirm[c].hash
        /\ Step(c, "record").payload = confirm[c].payload
    BY <2>1, Running, StepFacts DEF ConfirmPCs
  <2>. QED  BY <2>1, <2>2 DEF Move, Advances
<1>. QED  BY <1>1, <1>2, <1>3, <1>4, <1>5, <1>6, <1>7
          DEF ConfirmStep, record_outcome, ConfirmFails

\* The strengthening of ExecutedWhatWasApproved: a stored payload is the hashed
\* one, and so is the payload of every call that has passed verify_plan_hash.
Approved ==
  /\ \A n \in DOMAIN issued : issued[n].payload \subseteq {issued[n].hash.payload}
  /\ \A c \in Confirms : confirm[c].pc \in {"cleanup", "consume", "execute", "record"} =>
       confirm[c].payload = confirm[c].hash.payload
  /\ ExecutedWhatWasApproved

\* Rows of issued_confirmations carry the payload that was hashed: cleanup and
\* consume only delete rows, issue writes the payload of the hash.
LEMMA IssuedApproved ==
  ASSUME TypeOK, Approved, [Next]_vars
  PROVE  (\A n \in DOMAIN issued : issued[n].payload \subseteq {issued[n].hash.payload})'
<1>1. ASSUME NEW keys, issued' = Delete(issued, keys)
      PROVE  \A n \in DOMAIN issued' : issued'[n].payload \subseteq {issued'[n].hash.payload}
  BY <1>1 DEF Delete, Approved
<1>2. ASSUME UNCHANGED issued
      PROVE  \A n \in DOMAIN issued' : issued'[n].payload \subseteq {issued'[n].hash.payload}
  BY <1>2 DEF Approved
<1>3. ASSUME NEW d \in Previews, PreviewStep(d)
      PROVE  \A n \in DOMAIN issued' : issued'[n].payload \subseteq {issued'[n].hash.payload}
  <2>1. CASE issue(d)
    <3>. DEFINE h == preview[d].hash
                row == [hash |-> h, at |-> preview[d].t,
                        payload |-> IF h.tool = "delete_graph_data_tool" THEN {h.payload} ELSE {}]
    <3>1. UNCHANGED issued \/ issued' = Put(issued, h.nonce, row)
      BY <2>1 DEF issue
    <3>2. row.payload \subseteq {row.hash.payload}
      OBVIOUS
    <3>. HIDE DEF row, h
    <3>3. ASSUME issued' = Put(issued, h.nonce, row)
          PROVE  \A n \in DOMAIN issued' : issued'[n].payload \subseteq {issued'[n].hash.payload}
      <4>1. \A n \in DOMAIN issued' :
              n \in DOMAIN issued \cup {h.nonce} /\ issued'[n] = IF n = h.nonce THEN row ELSE issued[n]
        BY <3>3 DEF Put
      <4>. QED  BY <3>2, <4>1 DEF Approved
    <3>. QED  BY <1>2, <3>1, <3>3
  <2>2. CASE IssueCleanup(d)
    BY <1>1, <1>2, <2>2 DEF IssueCleanup, cleanup_expired, ledger
  <2>. QED  BY <1>2, <1>3, <2>1, <2>2
            DEF PreviewStep, build_plan_context, prepare, save_plan, PreviewFails, ledger
<1>4. ASSUME NEW c \in Confirms, ConfirmStep(c)
      PROVE  \A n \in DOMAIN issued' : issued'[n].payload \subseteq {issued'[n].hash.payload}
  BY <1>1, <1>2, <1>4
  DEF ConfirmStep, replayed_plan_error, load_issued_plan, verify_plan_hash, ConsumeCleanup,
      cleanup_expired, consume, Execute, record_outcome, ConfirmFails, ledger
<1>. QED  BY <1>2, <1>3, <1>4 DEF Next, ConfirmPlan, get_write_status, Tick, ledger, vars

\* What a confirmed call writes is the payload that was hashed and approved, for
\* any number of calls, nonces and reissues: neither the load before verify_plan_hash
\* nor the second read of the payload in consume can substitute another one.
THEOREM WritesAreApproved == Spec => []ExecutedWhatWasApproved
<1>1. Init => Approved
  BY DEF Init, Approved, ExecutedWhatWasApproved, NoRows, Idle
<1>2. TypeOK /\ Approved /\ [Next]_vars => Approved'
  <2>. SUFFICES ASSUME TypeOK, Approved, [Next]_vars PROVE Approved'
    OBVIOUS
  <2>1. (\A n \in DOMAIN issued : issued[n].payload \subseteq {issued[n].hash.payload})'
    BY IssuedApproved
  <2>2. ASSUME UNCHANGED confirm, ExecutedWhatWasApproved'
        PROVE  Approved'
    BY <2>1, <2>2 DEF Approved
  <2>3. CASE \E d \in Previews : PreviewStep(d)
    BY <2>2, <2>3 DEF Approved, ExecutedWhatWasApproved, PreviewStep, build_plan_context,
       IssueCleanup, issue, prepare, save_plan, PreviewFails
  <2>4. CASE \E d \in Previews : ConfirmPlan(d)
    BY <2>2, <2>4 DEF Approved, ExecutedWhatWasApproved, ConfirmPlan
  <2>5. CASE get_write_status \/ Tick \/ UNCHANGED vars
    BY <2>2, <2>5 DEF Approved, ExecutedWhatWasApproved, get_write_status, Tick, vars
  <2>6. ASSUME NEW c \in Confirms, ConfirmStep(c) PROVE Approved'
    <3>1. PICK r : confirm' = [confirm EXCEPT ![c] = r] /\ Advances(c, r)
      BY <2>6, ConfirmAdvances
    <3>2. confirm'[c] = r /\ \A b \in Confirms : b # c => confirm'[b] = confirm[b]
      BY <3>1 DEF TypeOK
    <3>3. r.pc \in {"cleanup", "consume", "execute", "record"} => r.payload = r.hash.payload
      <4>1. CASE confirm[c].pc = "consume" /\ r.pc = "execute"
        <5>1. /\ Consumable(confirm[c].hash, confirm[c].t) /\ r.hash = confirm[c].hash
              /\ \/ r.payload = confirm[c].payload
                 \/ r.payload \in issued[r.hash.nonce].payload
          BY <3>1, <4>1 DEF Advances
        <5>. QED  BY <4>1, <5>1 DEF Approved, Consumable
      <4>2. CASE ~(confirm[c].pc = "consume" /\ r.pc = "execute")
        BY <3>1, <4>2 DEF Advances, Approved
      <4>. QED  BY <4>1, <4>2
    <3>4. ExecutedWhatWasApproved'
      <4>1. CASE Execute(c)
        BY <4>1 DEF Execute, Approved, ExecutedWhatWasApproved
      <4>2. CASE ~Execute(c)
        <5>1. executed' = executed
          BY <2>6, <4>2 DEF ConfirmStep, replayed_plan_error, load_issued_plan,
             verify_plan_hash, ConsumeCleanup, consume, record_outcome, ConfirmFails
        <5>. QED  BY <5>1 DEF Approved, ExecutedWhatWasApproved
      <4>. QED  BY <4>1, <4>2
    <3>. QED  BY <2>1, <3>2, <3>3, <3>4 DEF Approved
  <2>. QED  BY <2>3, <2>4, <2>5, <2>6 DEF Next
<1>3. Approved => ExecutedWhatWasApproved
  BY DEF Approved
<1>. QED  BY <1>1, <1>2, <1>3, LedgerTypeCorrect, PTL DEF Spec

----------------------------------------------------------------------------
(* A recorded outcome is final                                             *)

\* The call that holds an operation is the only one, and its row has no outcome
\* yet: no other call can record or reset one for the same hash.
Pending ==
  /\ \A c \in Confirms : confirm[c].pc \in {"execute", "record"} =>
       confirm[c].hash \in DOMAIN operations /\ operations[confirm[c].hash] = "EXECUTING"
  /\ \A b, c \in Confirms :
       confirm[b].pc \in {"execute", "record"} /\ confirm[c].pc \in {"execute", "record"}
         /\ confirm[b].hash = confirm[c].hash => b = c

FinalKept ==
  \A h \in DOMAIN operations :
    operations[h] # "EXECUTING" => h \in DOMAIN operations' /\ operations'[h] = operations[h]

\* Steps that leave write_operations alone and bring no call to its execution.
LEMMA PendingFrame ==
  ASSUME Pending, UNCHANGED operations,
         \A c \in Confirms : confirm'[c].pc \in {"execute", "record"} =>
           confirm[c].pc \in {"execute", "record"} /\ confirm'[c].hash = confirm[c].hash
  PROVE  Pending' /\ FinalKept
BY DEF Pending, FinalKept

\* consume inserts a row for a nonce that has none.
LEMMA ConsumePending ==
  ASSUME TypeOK, Pending, NEW c \in Confirms, consume(c)
  PROVE  Pending' /\ FinalKept
<1>. DEFINE h == confirm[c].hash
<1>1. PICK r : confirm' = [confirm EXCEPT ![c] = r] /\ Advances(c, r)
  BY ConfirmAdvances DEF ConfirmStep
<1>2. confirm'[c] = r /\ \A b \in Confirms : b # c => confirm'[b] = confirm[b]
  BY <1>1 DEF TypeOK
<1>3. confirm[c].pc = "consume" /\ (r.pc \in {"execute", "record"} => r.pc = "execute" /\ r.hash = h)
  BY <1>1 DEF Advances, consume
<1>4. CASE UNCHANGED ledger
  <2>1. StopConfirm(c)
    <3>1. ~(consumed' = Put(consumed, h.nonce, h) /\ Consumable(h, confirm[c].t))
      BY <1>4 DEF Put, Consumable, ledger
    <3>. QED  BY <3>1 DEF consume
  <2>2. r.pc = "done"
    BY <1>2, <2>1 DEF StopConfirm, Done, TypeOK
  <2>. QED  BY <1>2, <1>4, <2>2, PendingFrame DEF ledger
<1>5. CASE ~UNCHANGED ledger
  <2>1. Consumable(h, confirm[c].t) /\ operations' = Put(operations, h, "EXECUTING")
    BY <1>5 DEF consume
  <2>2. \A g \in DOMAIN operations : g # h
    BY <2>1 DEF Consumable
  <2>. HIDE DEF h
  <2>3. /\ DOMAIN operations' = DOMAIN operations \cup {h}
        /\ operations'[h] = "EXECUTING"
        /\ \A g \in DOMAIN operations : operations'[g] = operations[g]
    BY <2>1, <2>2 DEF Put
  <2>. QED  BY <1>2, <1>3, <2>2, <2>3 DEF Pending, FinalKept
<1>. QED  BY <1>4, <1>5

\* record_outcome writes the row of the call that holds it, which has no outcome.
LEMMA RecordPending ==
  ASSUME TypeOK, Pending, NEW c \in Confirms, record_outcome(c)
  PROVE  Pending' /\ FinalKept
<1>. DEFINE h == confirm[c].hash
<1>1. h \in DOMAIN operations /\ operations[h] = "EXECUTING"
  BY DEF record_outcome, Pending
<1>2. /\ DOMAIN operations' = DOMAIN operations
      /\ \A g \in DOMAIN operations : g # h => operations'[g] = operations[g]
  BY DEF record_outcome
<1>3. confirm'[c].pc = "done" /\ \A b \in Confirms : b # c => confirm'[b] = confirm[b]
  BY DEF record_outcome, StopConfirm, Done, TypeOK
<1>4. \A b \in Confirms : confirm'[b].pc \in {"execute", "record"} =>
        confirm[b].pc \in {"execute", "record"} /\ confirm'[b].hash # h
        /\ confirm'[b].hash = confirm[b].hash
  BY <1>3 DEF record_outcome, Pending
<1>. HIDE DEF h
<1>5. FinalKept
  BY <1>1, <1>2 DEF FinalKept
<1>. QED  BY <1>2, <1>4, <1>5 DEF Pending

\* Every step keeps Pending and every outcome.
LEMMA StepPending ==
  ASSUME TypeOK, Pending, [Next]_vars
  PROVE  Pending' /\ FinalKept
<1>1. ASSUME UNCHANGED <<operations, confirm>> PROVE Pending' /\ FinalKept
  BY <1>1, PendingFrame
<1>2. ASSUME NEW c \in Confirms, ConfirmStep(c), ~consume(c), ~record_outcome(c)
      PROVE  Pending' /\ FinalKept
  <2>1. PICK r : confirm' = [confirm EXCEPT ![c] = r] /\ Advances(c, r)
    BY <1>2, ConfirmAdvances
  <2>2. confirm'[c] = r /\ \A b \in Confirms : b # c => confirm'[b] = confirm[b]
    BY <2>1 DEF TypeOK
  <2>3. UNCHANGED operations
    BY <1>2 DEF ConfirmStep, replayed_plan_error, load_issued_plan, verify_plan_hash,
       ConsumeCleanup, cleanup_expired, Execute, ConfirmFails, ledger
  <2>4. confirm[c].pc # "consume" \/ r.pc = "done"
    <3>1. confirm[c].pc = "consume" => ConfirmFails(c)
      BY <1>2 DEF ConfirmStep, replayed_plan_error, load_issued_plan, verify_plan_hash,
         ConsumeCleanup, Execute
    <3>. QED  BY <2>2, <3>1 DEF ConfirmFails, StopConfirm, Done, TypeOK
  <2>5. r.pc \in {"execute", "record"} => confirm[c].pc = "execute" /\ r.hash = confirm[c].hash
    BY <2>1, <2>4 DEF Advances
  <2>. QED  BY <2>2, <2>3, <2>5, PendingFrame
<1>3. CASE \E d \in Previews : PreviewStep(d) \/ ConfirmPlan(d)
  BY <1>1, <1>3 DEF PreviewStep, build_plan_context, IssueCleanup, issue, prepare, save_plan,
     PreviewFails, cleanup_expired, ConfirmPlan, ledger
<1>4. CASE get_write_status \/ Tick \/ UNCHANGED vars
  BY <1>1, <1>4 DEF get_write_status, Tick, ledger, vars
<1>. QED  BY <1>2, <1>3, <1>4, ConsumePending, RecordPending DEF Next

\* Once an outcome is recorded for an approved plan, no call, cleanup, reissue or
\* migration replaces it, deletes it or sets it back to EXECUTING.
THEOREM OutcomesAreFinal == Spec => OutcomeFinal
<1>1. Init => Pending
  BY DEF Init, Pending, Idle
<1>2. TypeOK /\ Pending /\ [Next]_vars => Pending' /\ [FinalKept]_vars
  BY StepPending
<1>. QED  BY <1>1, <1>2, LedgerTypeCorrect, PTL DEF Spec, OutcomeFinal, FinalKept
=============================================================================
