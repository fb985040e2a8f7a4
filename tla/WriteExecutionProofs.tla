------------------------ MODULE WriteExecutionProofs ------------------------
(***************************************************************************)
(* Proofs about WriteExecution, for any number of operations, calls and    *)
(* reconcilers and any lease length.                                       *)
(***************************************************************************)
EXTENDS WriteExecution, TLAPS

OpStatus == Receipts \cup {"ISSUED", "EXECUTING"}

----------------------------------------------------------------------------
(* What the operators return                                               *)

\* aggregate_persisted_statuses returns a status of the enumeration.
LEMMA AggregateType ==
  ASSUME NEW S PROVE aggregate_persisted_statuses(S) \in PlanStatus
BY DEF aggregate_persisted_statuses, aggregate_plan_status, PlanStatus, ApplyStatus

\* The adapters and the reconciler only produce the receipts listed.
LEMMA VerdictTypes ==
  ASSUME NEW kind \in Kinds, NEW reply \in Replies, NEW obs \in ObjectStates,
         NEW claimed \in BOOLEAN
  PROVE  /\ before_write(obs) \in Receipts \cup {"WRITE"}
         /\ after_write(kind, reply, obs) \in Receipts
         /\ reconcile_verdict(obs, claimed) \in Receipts
BY DEF before_write, after_write, reconcile_verdict, reconcile_operation_state,
       Receipts, ApplyStatus, Kinds, Replies, ObjectStates

\* Local records keep their type when a call starts or ends.
LEMMA IdleTypes ==
  /\ IdleExec \in [pc : ExecPCs, t : Nat, seen : PlanStatus, todo : SUBSET Ops,
                   op : Ops, attempt : Nat, reply : Replies, receipt : Receipts]
  /\ IdleRecon \in [pc : ReconPCs, fresh : SUBSET Ops, open : SUBSET Ops,
                    claimed : SUBSET Ops, verdict : Receipts]
BY ConstantsAssumption
DEF IdleExec, IdleRecon, ExecPCs, ReconPCs, PlanStatus, ApplyStatus, Receipts,
    Replies, Ops

----------------------------------------------------------------------------
(* Type correctness                                                        *)

ExecType == [pc : ExecPCs, t : Nat, seen : PlanStatus, todo : SUBSET Ops,
             op : Ops, attempt : Nat, reply : Replies, receipt : Receipts]
ReconType == [pc : ReconPCs, fresh : SUBSET Ops, open : SUBSET Ops,
              claimed : SUBSET Ops, verdict : Receipts]

\* Ending an executor's call keeps the type of the local states.
LEMMA FinishType ==
  ASSUME exec \in [Executors -> ExecType], NEW e \in Executors, Finish(e)
  PROVE  exec' \in [Executors -> ExecType]
<1>1. [IdleExec EXCEPT !.pc = "done"] \in ExecType
  BY IdleTypes DEF ExecType, ExecPCs
<1>2. QED BY <1>1 DEF Finish

\* Ending a reconciler's call keeps the type of the local states.
LEMMA LeaveType ==
  ASSUME recon \in [Reconcilers -> ReconType], NEW r \in Reconcilers, Leave(r)
  PROVE  recon' \in [Reconcilers -> ReconType]
<1>1. IdleRecon \in ReconType
  BY IdleTypes DEF ReconType
<1>2. QED BY <1>1 DEF Leave

\* Replacing one call's record by another record keeps the type.
LEMMA ExecUpdate ==
  ASSUME exec \in [Executors -> ExecType], NEW e \in Executors, NEW x \in ExecType,
         exec' = [exec EXCEPT ![e] = x]
  PROVE  exec' \in [Executors -> ExecType]
OBVIOUS

\* A record keeps its type when the program counter moves.
LEMMA MovePC ==
  ASSUME NEW x \in ExecType, NEW p \in ExecPCs
  PROVE  [x EXCEPT !.pc = p] \in ExecType
BY DEF ExecType

\* A receipt handed back by an adapter is stored with its type.
LEMMA ReceiveType ==
  ASSUME exec \in [Executors -> ExecType], NEW e \in Executors,
         NEW s \in Receipts, Receive(e, s)
  PROVE  exec' \in [Executors -> ExecType]
<1>1. [exec[e] EXCEPT !.pc = "record", !.receipt = s] \in ExecType
  BY DEF ExecType, ExecPCs
<1>2. QED BY <1>1, ExecUpdate DEF Receive

\* Init establishes the type invariant.
LEMMA InitType == Init => TypeOK
BY ConstantsAssumption, IdleTypes
DEF Init, TypeOK, NoLease, PlanStatus, ApplyStatus, Receipts, ObjectStates,
    Executors, Ops, Requests

\* Every step of an executing call keeps the type invariant.
LEMMA ExecuteType ==
  ASSUME TypeOK, NEW e \in Executors, Execute(e)
  PROVE  TypeOK'
<1>0. exec \in [Executors -> ExecType]
  BY DEF TypeOK, ExecType
<1>1. CASE ConfirmRead(e)
  <2>1. exec' \in [Executors -> ExecType]
    <3>1. [exec[e] EXCEPT !.pc = "claim", !.t = clock] \in ExecType
      BY <1>0 DEF ExecType, ExecPCs, TypeOK
    <3>2. exec' = [exec EXCEPT ![e] = [exec[e] EXCEPT !.pc = "claim", !.t = clock]]
          => exec' \in [Executors -> ExecType]
      BY <1>0, <3>1, ExecUpdate
    <3>3. exec' = [exec EXCEPT ![e].pc = "expire"] => exec' \in [Executors -> ExecType]
      BY <1>0, MovePC DEF ExecPCs
    <3>4. QED BY <1>0, <1>1, <3>2, <3>3, FinishType DEF ConfirmRead
  <2>2. QED BY <1>1, <2>1 DEF ConfirmRead, TypeOK, ExecType, store, backend
<1>2. CASE ConfirmExpire(e)
  <2>1. exec' \in [Executors -> ExecType]
    BY <1>0, <1>2, FinishType DEF ConfirmExpire
  <2>2. QED BY <1>2, <2>1 DEF ConfirmExpire, TypeOK, ExecType, backend, PlanStatus
<1>3. CASE ResumeReadPlan(e)
  <2>1. exec' \in [Executors -> ExecType]
    <3>1. plan.status \in PlanStatus /\ clock \in Nat
      BY DEF TypeOK
    <3>2. [exec[e] EXCEPT !.pc = "resume_ops", !.seen = plan.status, !.t = clock] \in ExecType
      BY <1>0, <3>1 DEF ExecType, ExecPCs
    <3>3. QED BY <1>0, <1>3, <3>2, ExecUpdate DEF ResumeReadPlan
  <2>2. QED BY <1>3, <2>1 DEF ResumeReadPlan, TypeOK, ExecType, store, backend
<1>4. CASE ResumeReadOps(e)
  <2>1. exec' \in [Executors -> ExecType]
    <3>1. Finish(e) \/ exec' = [exec EXCEPT ![e].pc = "claim"]
      BY <1>4 DEF ResumeReadOps
    <3>2. QED BY <1>0, <3>1, FinishType, MovePC DEF ExecPCs
  <2>2. QED BY <1>4, <2>1 DEF ResumeReadOps, TypeOK, ExecType, store, backend
<1>5. CASE claim_plan(e)
  <2>1. exec' \in [Executors -> ExecType]
    BY <1>0, <1>5, FinishType DEF claim_plan, ExecType, ExecPCs
  <2>2. plan' \in [status : PlanStatus, owner : Executors \cup {NoOwner}, lease : Nat]
    BY <1>0, <1>5, ConstantsAssumption
    DEF claim_plan, TypeOK, ExecType, PlanStatus, ApplyStatus
  <2>3. QED BY <1>5, <2>1, <2>2 DEF claim_plan, TypeOK, ExecType, backend
<1>6. CASE LoadOperations(e)
  <2>1. exec' \in [Executors -> ExecType]
    <3> DEFINE todo == {o \in Ops : ops[o].status =
                          IF e \in Resumers THEN "RETRYABLE_NOT_APPLIED" ELSE "ISSUED"}
    <3>1. [exec[e] EXCEPT !.pc = "claim_op", !.todo = todo] \in ExecType
      BY <1>0 DEF ExecType, ExecPCs
    <3>2. \/ Finish(e)
          \/ exec' = [exec EXCEPT ![e] = [exec[e] EXCEPT !.pc = "claim_op", !.todo = todo]]
      BY <1>6 DEF LoadOperations
    <3>3. QED BY <1>0, <3>1, <3>2, FinishType, ExecUpdate
  <2>2. QED BY <1>6, <2>1 DEF LoadOperations, TypeOK, ExecType, store, backend
<1>7. CASE claim_operation(e)
  <2>1. PICK o \in exec[e].todo :
          \/ /\ ops' = [ops EXCEPT ![o] = [status |-> "EXECUTING",
                                           attempt |-> ops[o].attempt + 1,
                                           token |-> e, reconciled |-> FALSE]]
             /\ plan' = [plan EXCEPT !.lease = clock + LeaseSeconds]
             /\ exec' = [exec EXCEPT ![e] =
                           [@ EXCEPT !.pc = "adapter", !.op = o,
                                     !.todo = exec[e].todo \ {o},
                                     !.attempt = ops[o].attempt + 1]]
          \/ Finish(e) /\ UNCHANGED store
    BY <1>7 DEF claim_operation
  <2>2. o \in Ops
    <3>1. exec[e] \in ExecType
      BY <1>0
    <3>2. QED BY <3>1 DEF ExecType
  <2>a. ops[o].attempt + 1 \in Nat
    BY <2>2 DEF TypeOK
  <2>3. exec' \in [Executors -> ExecType]
    <3>1. [exec[e] EXCEPT !.pc = "adapter", !.op = o, !.todo = exec[e].todo \ {o},
                          !.attempt = ops[o].attempt + 1] \in ExecType
      BY <1>0, <2>2, <2>a DEF ExecType, ExecPCs
    <3>2. QED BY <1>0, <2>1, <3>1, FinishType, ExecUpdate
  <2>4. ops' \in [Ops -> [status : OpStatus, attempt : Nat,
                          token : Executors \cup {NoOwner}, reconciled : BOOLEAN]]
    <3>1. [status |-> "EXECUTING", attempt |-> ops[o].attempt + 1,
           token |-> e, reconciled |-> FALSE]
          \in [status : OpStatus, attempt : Nat,
              token : Executors \cup {NoOwner}, reconciled : BOOLEAN]
      BY <2>a DEF OpStatus
    <3>2. QED BY <2>1, <2>2, <3>1 DEF TypeOK, OpStatus, store
  <2>5. plan' \in [status : PlanStatus, owner : Executors \cup {NoOwner}, lease : Nat]
    BY <2>1, ConstantsAssumption DEF TypeOK, store
  <2>6. QED BY <1>7, <2>3, <2>4, <2>5
        DEF claim_operation, TypeOK, ExecType, OpStatus, backend
<1>8. CASE AdapterReject(e)
  <2>1. exec' \in [Executors -> ExecType]
    BY <1>0, <1>8, ReceiveType DEF AdapterReject, Receipts, ApplyStatus
  <2>2. QED BY <1>8, <2>1 DEF AdapterReject, TypeOK, ExecType, store, backend
<1>9. CASE AdapterReadBefore(e)
  <2>1. graph[exec[e].op] \in ObjectStates
    BY <1>0 DEF TypeOK, ExecType
  <2>2. before_write(graph[exec[e].op]) \in Receipts \cup {"WRITE"}
    BY <2>1 DEF before_write, Receipts, ApplyStatus, ObjectStates
  <2>3. "UNKNOWN" \in Receipts
    BY DEF Receipts, ApplyStatus
  <2>4. exec' \in [Executors -> ExecType]
    <3>1. CASE Receive(e, "UNKNOWN")
      BY <1>0, <2>3, <3>1, ReceiveType
    <3>2. CASE before_write(graph[exec[e].op]) # "WRITE"
               /\ Receive(e, before_write(graph[exec[e].op]))
      BY <1>0, <2>2, <3>2, ReceiveType
    <3>3. CASE exec' = [exec EXCEPT ![e].pc = "write"]
      BY <1>0, <3>3 DEF ExecType, ExecPCs
    <3>4. QED BY <1>9, <3>1, <3>2, <3>3 DEF AdapterReadBefore
  <2>5. QED BY <1>9, <2>4 DEF AdapterReadBefore, TypeOK, ExecType, store, backend
<1>10. CASE AdapterWrite(e)
  <2>1. exec' \in [Executors -> ExecType]
    BY <1>0, <1>10 DEF AdapterWrite, ExecType, ExecPCs
  <2>2. <<e, exec[e].op>> \in Requests
    BY <1>0 DEF ExecType, Requests
  <2>3. QED BY <1>10, <2>1, <2>2 DEF AdapterWrite, TypeOK, ExecType, store
<1>11. CASE AdapterWriteRefused(e)
  <2>1. exec' \in [Executors -> ExecType]
    BY <1>0, <1>11 DEF AdapterWriteRefused, ExecType, ExecPCs, Replies
  <2>2. QED BY <1>11, <2>1 DEF AdapterWriteRefused, TypeOK, ExecType, store, backend
<1>12. CASE AdapterReply(e)
  <2>1. exec' \in [Executors -> ExecType]
    <3>1. PICK reply \in Replies :
            exec' = [exec EXCEPT ![e] = [exec[e] EXCEPT !.pc = "verify", !.reply = reply]]
      BY <1>12 DEF AdapterReply
    <3>2. [exec[e] EXCEPT !.pc = "verify", !.reply = reply] \in ExecType
      BY <1>0 DEF ExecType, ExecPCs
    <3>3. QED BY <1>0, <3>1, <3>2, ExecUpdate
  <2>2. QED BY <1>12, <2>1 DEF AdapterReply, TypeOK, ExecType, store, backend
<1>13. CASE AdapterVerify(e)
  <2>1. /\ graph[exec[e].op] \in ObjectStates
        /\ KindOf[exec[e].op] \in Kinds
        /\ exec[e].reply \in Replies
    BY <1>0, ConstantsAssumption DEF TypeOK, ExecType
  <2>2. after_write(KindOf[exec[e].op], exec[e].reply, graph[exec[e].op]) \in Receipts
    BY <2>1, VerdictTypes
  <2>3. "UNKNOWN" \in Receipts
    BY DEF Receipts, ApplyStatus
  <2>4. exec' \in [Executors -> ExecType]
    BY <1>0, <1>13, <2>2, <2>3, ReceiveType DEF AdapterVerify
  <2>5. QED BY <1>13, <2>4 DEF AdapterVerify, TypeOK, ExecType, store, backend
<1>14. CASE record_receipt(e)
  <2> DEFINE rows == [ops EXCEPT ![exec[e].op].status = exec[e].receipt]
             aggregate == aggregate_persisted_statuses(StatusesOf(rows))
  <2>1. \/ /\ ops' = rows
           /\ plan'.status = aggregate
           /\ plan' = [status |-> plan'.status, owner |-> plan'.owner, lease |-> plan'.lease]
           /\ plan'.owner \in {plan.owner, NoOwner}
           /\ plan'.lease \in {plan.lease, NoLease}
           /\ \/ exec' = [exec EXCEPT ![e].pc = "claim_op"]
              \/ Finish(e)
        \/ Finish(e) /\ UNCHANGED store
    BY <1>14 DEF record_receipt
  <2>2. aggregate \in PlanStatus
    BY AggregateType
  <2>3. exec' \in [Executors -> ExecType]
    BY <1>0, <2>1, FinishType DEF ExecType, ExecPCs
  <2>4. ops' \in [Ops -> [status : OpStatus, attempt : Nat,
                          token : Executors \cup {NoOwner}, reconciled : BOOLEAN]]
    <3>1. exec[e].op \in Ops /\ exec[e].receipt \in OpStatus
      BY <1>0 DEF ExecType, OpStatus
    <3>2. [ops[exec[e].op] EXCEPT !.status = exec[e].receipt]
          \in [status : OpStatus, attempt : Nat,
              token : Executors \cup {NoOwner}, reconciled : BOOLEAN]
      <4>1. ops[exec[e].op] \in [status : OpStatus, attempt : Nat,
              token : Executors \cup {NoOwner}, reconciled : BOOLEAN]
        BY <3>1 DEF TypeOK, OpStatus
      <4>2. QED BY <3>1, <4>1
    <3>3. QED BY <2>1, <3>1, <3>2 DEF TypeOK, OpStatus, store
  <2>5. plan' \in [status : PlanStatus, owner : Executors \cup {NoOwner}, lease : Nat]
    BY <2>1, <2>2 DEF TypeOK, store, NoLease
  <2>6. QED BY <1>14, <2>3, <2>4, <2>5
        DEF record_receipt, TypeOK, ExecType, OpStatus, backend
<1>15. CASE ExecutorCrash(e)
  <2>1. exec' \in [Executors -> ExecType]
    BY <1>0, <1>15, FinishType DEF ExecutorCrash
  <2>2. QED BY <1>15, <2>1 DEF ExecutorCrash, TypeOK, ExecType, store, backend
<1>16. QED
  BY <1>1, <1>2, <1>3, <1>4, <1>5, <1>6, <1>7, <1>8, <1>9, <1>10, <1>11, <1>12,
     <1>13, <1>14, <1>15 DEF Execute

\* Recording a reconciliation keeps the type invariant.
LEMMA RecordReconciliationType ==
  ASSUME TypeOK, NEW r \in Reconcilers, NEW o \in Ops, NEW s \in Receipts,
         record_reconciliation_receipt(r, o, s), UNCHANGED <<clock, exec, backend>>
  PROVE  TypeOK'
<1> DEFINE rows == [ops EXCEPT ![o] = [@ EXCEPT !.status = s, !.reconciled = TRUE]]
           next == [pc |-> "each", fresh |-> recon[r].fresh \ {o},
                    open |-> recon[r].open \ {o},
                    claimed |-> recon[r].claimed \ {o}, verdict |-> "UNKNOWN"]
<1>0. recon \in [Reconcilers -> ReconType]
  BY DEF TypeOK, ReconType
<1>1. /\ \/ ops' = rows /\ plan' = [plan EXCEPT !.status =
                                      aggregate_persisted_statuses(StatusesOf(rows))]
         \/ UNCHANGED store
      /\ \/ Leave(r)
         \/ recon' = [recon EXCEPT ![r] = next]
  BY DEF record_reconciliation_receipt
<1>2. recon' \in [Reconcilers -> ReconType]
  <2>1. next \in ReconType
    BY <1>0 DEF ReconType, ReconPCs, Receipts, ApplyStatus
  <2>2. QED BY <1>0, <1>1, <2>1, LeaveType
<1>3. ops' \in [Ops -> [status : OpStatus, attempt : Nat,
                        token : Executors \cup {NoOwner}, reconciled : BOOLEAN]]
  <2>1. ops[o] \in [status : OpStatus, attempt : Nat,
                    token : Executors \cup {NoOwner}, reconciled : BOOLEAN]
    BY DEF TypeOK, OpStatus
  <2>2. [ops[o] EXCEPT !.status = s, !.reconciled = TRUE]
        \in [status : OpStatus, attempt : Nat,
             token : Executors \cup {NoOwner}, reconciled : BOOLEAN]
    BY <2>1 DEF OpStatus
  <2>3. QED BY <1>1, <2>2 DEF TypeOK, OpStatus, store
<1>4. plan' \in [status : PlanStatus, owner : Executors \cup {NoOwner}, lease : Nat]
  <2>1. aggregate_persisted_statuses(StatusesOf(rows)) \in PlanStatus
    BY AggregateType
  <2>2. QED BY <1>1, <2>1 DEF TypeOK, store
<1>5. QED BY <1>2, <1>3, <1>4 DEF TypeOK, ReconType, OpStatus, backend

\* Every step of a reconciler keeps the type invariant.
LEMMA ReconcileType ==
  ASSUME TypeOK, NEW r \in Reconcilers, Reconcile(r) \/ ReconcilerCrash(r)
  PROVE  TypeOK'
<1>0. recon \in [Reconcilers -> ReconType]
  BY DEF TypeOK, ReconType
<1>1. CASE begin_reconcile(r)
  <2>1. recon' \in [Reconcilers -> ReconType]
    BY <1>0, <1>1 DEF begin_reconcile, ReconType, ReconPCs
  <2>2. plan' \in [status : PlanStatus, owner : Executors \cup {NoOwner}, lease : Nat]
    BY <1>1 DEF begin_reconcile, TypeOK, PlanStatus, ApplyStatus, NoLease
  <2>3. QED BY <1>1, <2>1, <2>2 DEF begin_reconcile, TypeOK, ReconType, backend
<1>2. CASE ReconcileReadPlan(r)
  <2>1. recon' \in [Reconcilers -> ReconType]
    BY <1>0, <1>2, LeaveType DEF ReconcileReadPlan, ReconType, ReconPCs
  <2>2. QED BY <1>2, <2>1 DEF ReconcileReadPlan, TypeOK, ReconType, store, backend
<1>3. CASE ReconcileSnapshot(r)
  <2> DEFINE fresh == {o \in Ops : ops[o].status = "ISSUED"}
             open == {o \in Ops : ops[o].status \in {"EXECUTING", "UNKNOWN", "LEGACY_UNKNOWN"}}
             next == [pc |-> "each", fresh |-> fresh, open |-> open,
                      claimed |-> {o \in open : ops[o].attempt > 0},
                      verdict |-> "UNKNOWN"]
  <2>1. next \in ReconType
    BY DEF ReconType, ReconPCs, Receipts, ApplyStatus
  <2>2. Leave(r) \/ recon' = [recon EXCEPT ![r] = next]
    BY <1>3 DEF ReconcileSnapshot
  <2>3. recon' \in [Reconcilers -> ReconType]
    BY <1>0, <2>1, <2>2, LeaveType
  <2>4. QED BY <1>3, <2>3 DEF ReconcileSnapshot, TypeOK, ReconType, store, backend
<1>4. CASE ReconcileObserve(r)
  <2>1. PICK o \in recon[r].open :
          recon' = [recon EXCEPT ![r] =
            [recon[r] EXCEPT !.pc = "record",
               !.verdict = reconcile_verdict(graph[o], o \in recon[r].claimed)]]
    BY <1>4 DEF ReconcileObserve
  <2>2. reconcile_verdict(graph[o], o \in recon[r].claimed) \in Receipts
    BY DEF reconcile_verdict, reconcile_operation_state, Receipts, ApplyStatus
  <2>3. [recon[r] EXCEPT !.pc = "record",
           !.verdict = reconcile_verdict(graph[o], o \in recon[r].claimed)] \in ReconType
    BY <1>0, <2>2 DEF ReconType, ReconPCs
  <2>4. recon' \in [Reconcilers -> ReconType]
    BY <1>0, <2>1, <2>3
  <2>5. QED BY <1>4, <2>4 DEF ReconcileObserve, TypeOK, ReconType, store, backend
<1>5. CASE ReconcileRecordFresh(r)
  <2>1. PICK o \in recon[r].fresh :
          record_reconciliation_receipt(r, o, "RETRYABLE_NOT_APPLIED")
    BY <1>5 DEF ReconcileRecordFresh
  <2>2. o \in Ops
    BY <1>0, <2>1 DEF ReconType
  <2>3. "RETRYABLE_NOT_APPLIED" \in Receipts
    BY DEF Receipts, ApplyStatus
  <2>4. QED BY <1>5, <2>1, <2>2, <2>3, RecordReconciliationType DEF ReconcileRecordFresh
<1>6. CASE ReconcileRecordObserved(r)
  <2>1. PICK o \in recon[r].open :
          record_reconciliation_receipt(r, o, recon[r].verdict)
    BY <1>6 DEF ReconcileRecordObserved
  <2>2. o \in Ops /\ recon[r].verdict \in Receipts
    BY <1>0, <2>1 DEF ReconType
  <2>3. QED BY <1>6, <2>1, <2>2, RecordReconciliationType DEF ReconcileRecordObserved
<1>7. CASE ReconcilerCrash(r)
  <2>1. recon' \in [Reconcilers -> ReconType]
    BY <1>0, <1>7, LeaveType DEF ReconcilerCrash
  <2>2. QED BY <1>7, <2>1 DEF ReconcilerCrash, TypeOK, ReconType, store, backend
<1>8. QED
  BY <1>1, <1>2, <1>3, <1>4, <1>5, <1>6, <1>7 DEF Reconcile

\* Time, the backend and other clients keep the type invariant.
LEMMA EnvironmentType ==
  ASSUME TypeOK,
         \/ Tick
         \/ \E req \in Requests : Land(req) \/ Drop(req)
         \/ \E o \in Ops : ForeignWrite(o)
  PROVE  TypeOK'
<1>1. CASE Tick
  BY <1>1 DEF Tick, TypeOK, store, backend
<1>2. ASSUME NEW req \in Requests, Land(req) PROVE TypeOK'
  <2>1. req[2] \in Ops
    BY DEF Requests
  <2>2. graph' \in [Ops -> ObjectStates] /\ reached' \subseteq Ops
    BY <1>2, <2>1 DEF Land, TypeOK, ObjectStates
  <2>3. QED BY <1>2, <2>2 DEF Land, TypeOK, store
<1>3. ASSUME NEW req \in Requests, Drop(req) PROVE TypeOK'
  BY <1>3 DEF Drop, TypeOK, store
<1>4. ASSUME NEW o \in Ops, ForeignWrite(o) PROVE TypeOK'
  <2>1. graph' \in [Ops -> ObjectStates] /\ reached' \subseteq Ops
    BY <1>4, ConstantsAssumption DEF ForeignWrite, TypeOK
  <2>2. QED BY <1>4, <2>1 DEF ForeignWrite, TypeOK, store
<1>5. QED BY <1>1, <1>2, <1>3, <1>4

\* Every reachable state of the plan store, the calls and the backend is well
\* typed; in particular no row ever holds a status its column cannot.
THEOREM TypeCorrect == Spec => []TypeOK
<1>1. Init => TypeOK
  BY InitType
<1>2. TypeOK /\ [Next]_vars => TypeOK'
  <2> SUFFICES ASSUME TypeOK, [Next]_vars PROVE TypeOK'
    OBVIOUS
  <2>1. CASE Next
    BY <2>1, ExecuteType, ReconcileType, EnvironmentType DEF Next
  <2>2. CASE UNCHANGED vars
    BY <2>2 DEF vars, TypeOK
  <2>3. QED BY <2>1, <2>2
<1>3. QED BY <1>1, <1>2, PTL DEF Spec

----------------------------------------------------------------------------
(* Recorded success rests on evidence                                      *)

\* AppliedWasReached is not inductive: a receipt that is decided but not yet
\* recorded must rest on the same evidence.
Evidence ==
  /\ \A o \in Ops : graph[o] = "desired" => o \in reached
  /\ \A e \in Executors :
       exec[e].pc = "record" /\ exec[e].receipt \in Success => exec[e].op \in reached
  /\ \A r \in Reconcilers :
       recon[r].pc = "record" /\ recon[r].verdict \in Success =>
         \A o \in recon[r].open : IsFirst(o, recon[r].fresh \cup recon[r].open) => o \in reached
  /\ AppliedWasReached

\* Only an object in its desired state yields a successful outcome.
LEMMA SuccessNeedsDesired ==
  ASSUME NEW kind, NEW reply, NEW obs, NEW claimed
  PROVE  /\ before_write(obs) \in Success => obs = "desired"
         /\ after_write(kind, reply, obs) \in Success => obs = "desired"
         /\ reconcile_verdict(obs, claimed) \in Success => obs = "desired"
BY DEF before_write, after_write, reconcile_verdict, reconcile_operation_state, Success

RowType == [status : OpStatus, attempt : Nat,
            token : Executors \cup {NoOwner}, reconciled : BOOLEAN]

\* Writing the status of one row changes that row's status and no other row.
LEMMA RowUpdate ==
  ASSUME TypeOK, NEW o \in Ops, NEW s,
         \/ ops' = [ops EXCEPT ![o].status = s]
         \/ ops' = [ops EXCEPT ![o] = [@ EXCEPT !.status = s, !.reconciled = TRUE]]
  PROVE  /\ ops'[o].status = s
         /\ ops'[o].attempt = ops[o].attempt
         /\ ops'[o].token = ops[o].token
         /\ \A p \in Ops : p # o => ops'[p] = ops[p]
<1>1. ops \in [Ops -> RowType]
  BY DEF TypeOK, RowType, OpStatus
<1>2. ops[o] \in RowType
  BY <1>1
<1>3. \/ ops'[o] = [ops[o] EXCEPT !.status = s]
      \/ ops'[o] = [ops[o] EXCEPT !.status = s, !.reconciled = TRUE]
  BY <1>1
<1>4. /\ ops'[o].status = s
      /\ ops'[o].attempt = ops[o].attempt
      /\ ops'[o].token = ops[o].token
  BY <1>2, <1>3 DEF RowType
<1>5. \A p \in Ops : p # o => ops'[p] = ops[p]
  BY <1>1
<1>6. QED BY <1>4, <1>5

\* An executor's step that leaves the rows and the backend's history alone
\* keeps Evidence when the record it leaves behind needs no new evidence.
LEMMA ExecFrame ==
  ASSUME TypeOK, Evidence, NEW e \in Executors, NEW x,
         exec' = [exec EXCEPT ![e] = x],
         x.pc = "record" /\ x.receipt \in Success => x.op \in reached,
         UNCHANGED <<ops, recon, graph, reached>>
  PROVE  Evidence'
<1>1. \A f \in Executors :
        exec'[f].pc = "record" /\ exec'[f].receipt \in Success => exec'[f].op \in reached'
  BY DEF Evidence, TypeOK
<1>2. QED BY <1>1 DEF Evidence, AppliedWasReached, Applied, IsFirst

\* Finishing a call needs no evidence.
LEMMA FinishEvidence ==
  ASSUME TypeOK, Evidence, NEW e \in Executors, Finish(e),
         UNCHANGED <<ops, recon, graph, reached>>
  PROVE  Evidence'
<1>1. [IdleExec EXCEPT !.pc = "done"].pc # "record"
  BY DEF IdleExec
<1>2. QED BY <1>1, ExecFrame DEF Finish

\* Every step of an executing call keeps Evidence.
LEMMA ExecuteEvidence ==
  ASSUME TypeOK, Evidence, NEW e \in Executors, Execute(e)
  PROVE  Evidence'
<1>0. exec[e] \in ExecType /\ exec \in [Executors -> ExecType]
  BY DEF TypeOK, ExecType
<1>1. ASSUME UNCHANGED <<ops, recon, graph, reached>>,
             \/ Finish(e)
             \/ \E x : x.pc # "record" /\ exec' = [exec EXCEPT ![e] = x]
      PROVE  Evidence'
  BY <1>1, FinishEvidence, ExecFrame
<1>2. ASSUME UNCHANGED <<ops, recon, graph, reached>>, NEW s, Receive(e, s),
             s \in Success => graph[exec[e].op] = "desired"
      PROVE  Evidence'
  <2>1. exec[e].op \in Ops
    BY <1>0 DEF ExecType
  <2>2. s \in Success => exec[e].op \in reached
    BY <1>2, <2>1 DEF Evidence
  <2> DEFINE x == [exec[e] EXCEPT !.pc = "record", !.receipt = s]
  <2>3. x.op = exec[e].op /\ x.receipt = s
    BY <1>0 DEF ExecType
  <2>4. exec' = [exec EXCEPT ![e] = x]
    BY <1>2 DEF Receive
  <2>5. QED BY <1>2, <2>2, <2>3, <2>4, ExecFrame
<1>3. CASE ConfirmRead(e)
  BY <1>0, <1>1, <1>3 DEF ConfirmRead, store, backend, ExecType
<1>4. CASE ConfirmExpire(e)
  BY <1>1, <1>4 DEF ConfirmExpire, backend
<1>5. CASE ResumeReadPlan(e)
  BY <1>0, <1>1, <1>5 DEF ResumeReadPlan, store, backend, ExecType
<1>6. CASE ResumeReadOps(e)
  BY <1>0, <1>1, <1>6 DEF ResumeReadOps, store, backend, ExecType
<1>7. CASE claim_plan(e)
  BY <1>0, <1>1, <1>7 DEF claim_plan, backend, ExecType
<1>8. CASE LoadOperations(e)
  BY <1>0, <1>1, <1>8 DEF LoadOperations, store, backend, ExecType
<1>9. CASE claim_operation(e)
  <2>1. PICK o \in exec[e].todo :
          \/ /\ ops' = [ops EXCEPT ![o] = [status |-> "EXECUTING",
                                           attempt |-> ops[o].attempt + 1,
                                           token |-> e, reconciled |-> FALSE]]
             /\ exec' = [exec EXCEPT ![e] =
                           [@ EXCEPT !.pc = "adapter", !.op = o,
                                     !.todo = exec[e].todo \ {o},
                                     !.attempt = ops[o].attempt + 1]]
          \/ Finish(e) /\ UNCHANGED ops
    BY <1>9 DEF claim_operation, store
  <2>2. UNCHANGED <<recon, graph, reached>>
    BY <1>9 DEF claim_operation, backend
  <2>3. o \in Ops
    BY <1>0 DEF ExecType
  <2>4. CASE Finish(e) /\ UNCHANGED ops
    BY <1>1, <2>2, <2>4
  <2>5. CASE ~(Finish(e) /\ UNCHANGED ops)
    <3>1. \A f \in Executors : f # e => exec'[f] = exec[f]
      BY <2>1, <2>5 DEF TypeOK
    <3>2. exec'[e].pc = "adapter"
      BY <1>0, <2>1, <2>5 DEF ExecType
    <3>3. \A p \in Ops : ops'[p].status \in Success => ops[p].status \in Success
      BY <2>1, <2>3, <2>5 DEF TypeOK, Success
    <3>4. AppliedWasReached'
      BY <2>2, <3>3 DEF Evidence, AppliedWasReached, Applied
    <3>5. QED BY <2>2, <3>1, <3>2, <3>4 DEF Evidence, IsFirst
  <2>6. QED BY <2>4, <2>5
<1>10. CASE AdapterReject(e)
  BY <1>2, <1>10 DEF AdapterReject, store, backend, Success
<1>11. CASE AdapterReadBefore(e)
  BY <1>0, <1>1, <1>2, <1>11, SuccessNeedsDesired
  DEF AdapterReadBefore, store, backend, Success, ExecType
<1>12. CASE AdapterWrite(e)
  BY <1>0, <1>1, <1>12 DEF AdapterWrite, store, ExecType
<1>13. CASE AdapterWriteRefused(e)
  BY <1>0, <1>1, <1>13 DEF AdapterWriteRefused, store, backend, ExecType
<1>14. CASE AdapterReply(e)
  BY <1>0, <1>1, <1>14 DEF AdapterReply, store, backend, ExecType
<1>15. CASE AdapterVerify(e)
  BY <1>2, <1>15, SuccessNeedsDesired DEF AdapterVerify, store, backend, Success
<1>16. CASE record_receipt(e)
  <2>1. \/ /\ ops' = [ops EXCEPT ![exec[e].op].status = exec[e].receipt]
           /\ \/ exec' = [exec EXCEPT ![e].pc = "claim_op"]
              \/ Finish(e)
        \/ Finish(e) /\ UNCHANGED ops
    BY <1>16 DEF record_receipt, store
  <2>2. UNCHANGED <<recon, graph, reached>> /\ exec[e].pc = "record"
    BY <1>16 DEF record_receipt, backend
  <2>3. exec[e].op \in Ops
    BY <1>0 DEF ExecType
  <2>4. AppliedWasReached'
    <3>1. \A p \in Ops : ops'[p].status # ops[p].status =>
            p = exec[e].op /\ ops'[p].status = exec[e].receipt
      <4>1. CASE ops' = [ops EXCEPT ![exec[e].op].status = exec[e].receipt]
        BY <2>3, <4>1, RowUpdate
      <4>2. CASE UNCHANGED ops
        BY <4>2
      <4>3. QED BY <2>1, <4>1, <4>2
    <3>2. QED BY <2>2, <3>1 DEF Evidence, AppliedWasReached, Applied
  <2>5. /\ \A f \in Executors : f # e => exec'[f] = exec[f]
        /\ exec'[e].pc # "record"
    BY <1>0, <2>1 DEF Finish, IdleExec, ExecType
  <2>6. QED BY <2>2, <2>4, <2>5 DEF Evidence, IsFirst
<1>17. CASE ExecutorCrash(e)
  BY <1>1, <1>17 DEF ExecutorCrash, store, backend
<1>18. QED
  BY <1>3, <1>4, <1>5, <1>6, <1>7, <1>8, <1>9, <1>10, <1>11, <1>12,
     <1>13, <1>14, <1>15, <1>16, <1>17 DEF Execute

\* A reconciler's record that is not about to be recorded needs no evidence.
LEMMA ReconFrame ==
  ASSUME TypeOK, Evidence, NEW r \in Reconcilers, NEW x,
         recon' = [recon EXCEPT ![r] = x],
         x.pc = "record" /\ x.verdict \in Success =>
           \A o \in x.open : IsFirst(o, x.fresh \cup x.open) => o \in reached,
         UNCHANGED <<exec, graph, reached>>, AppliedWasReached'
  PROVE  Evidence'
<1>1. \A q \in Reconcilers : q # r => recon'[q] = recon[q]
  BY DEF TypeOK
<1>2. recon'[r] = x
  BY DEF TypeOK
<1>3. QED BY <1>1, <1>2 DEF Evidence, IsFirst

\* Recording a verdict that rests on evidence keeps Evidence.
LEMMA RecordReconciliationEvidence ==
  ASSUME TypeOK, Evidence, NEW r \in Reconcilers, NEW o \in Ops, NEW s,
         record_reconciliation_receipt(r, o, s), s \in Success => o \in reached,
         UNCHANGED <<clock, exec, backend>>
  PROVE  Evidence'
<1>1. \/ ops' = [ops EXCEPT ![o] = [@ EXCEPT !.status = s, !.reconciled = TRUE]]
      \/ UNCHANGED ops
  BY DEF record_reconciliation_receipt, store
<1>2. AppliedWasReached'
  <2>1. \A p \in Ops : ops'[p].status # ops[p].status => p = o /\ ops'[p].status = s
    <3>1. CASE ops' = [ops EXCEPT ![o] = [@ EXCEPT !.status = s, !.reconciled = TRUE]]
      BY <3>1, RowUpdate
    <3>2. CASE UNCHANGED ops
      BY <3>2
    <3>3. QED BY <1>1, <3>1, <3>2
  <2>2. QED BY <2>1 DEF Evidence, AppliedWasReached, Applied, backend
<1>3. PICK x : x.pc # "record" /\ recon' = [recon EXCEPT ![r] = x]
  BY DEF record_reconciliation_receipt, Leave, IdleRecon
<1>4. QED BY <1>2, <1>3, ReconFrame DEF backend

\* Every step of a reconciler keeps Evidence.
LEMMA ReconcileEvidence ==
  ASSUME TypeOK, Evidence, NEW r \in Reconcilers, Reconcile(r) \/ ReconcilerCrash(r)
  PROVE  Evidence'
<1>0. recon[r] \in ReconType
  BY DEF TypeOK, ReconType
<1>1. ASSUME UNCHANGED <<ops, exec, graph, reached>>,
             \E x : x.pc # "record" /\ recon' = [recon EXCEPT ![r] = x]
      PROVE  Evidence'
  <2>1. AppliedWasReached'
    BY <1>1 DEF Evidence, AppliedWasReached, Applied
  <2>2. QED BY <1>1, <2>1, ReconFrame
<1>2. Leave(r) => \E x : x.pc # "record" /\ recon' = [recon EXCEPT ![r] = x]
  BY DEF Leave, IdleRecon
<1>3. CASE begin_reconcile(r)
  BY <1>0, <1>1, <1>3 DEF begin_reconcile, backend, ReconType
<1>4. CASE ReconcileReadPlan(r)
  BY <1>0, <1>1, <1>2, <1>4 DEF ReconcileReadPlan, store, backend, ReconType
<1>5. CASE ReconcileSnapshot(r)
  BY <1>1, <1>2, <1>5 DEF ReconcileSnapshot, store, backend
<1>6. CASE ReconcileObserve(r)
  <2>1. PICK o \in recon[r].open :
          /\ IsFirst(o, recon[r].fresh \cup recon[r].open)
          /\ recon' = [recon EXCEPT ![r] =
               [recon[r] EXCEPT !.pc = "record",
                  !.verdict = reconcile_verdict(graph[o], o \in recon[r].claimed)]]
    BY <1>6 DEF ReconcileObserve
  <2> DEFINE x == [recon[r] EXCEPT !.pc = "record",
                     !.verdict = reconcile_verdict(graph[o], o \in recon[r].claimed)]
  <2>2. /\ x.open = recon[r].open
        /\ x.fresh = recon[r].fresh
        /\ x.verdict = reconcile_verdict(graph[o], o \in recon[r].claimed)
    BY <1>0 DEF ReconType
  <2>3. \A p \in recon[r].open :
          IsFirst(p, recon[r].fresh \cup recon[r].open) => p = o
    BY <1>0, <2>1, ConstantsAssumption DEF IsFirst, ReconType, Ops
  <2>4. o \in Ops
    BY <1>0 DEF ReconType
  <2>5. x.verdict \in Success => o \in reached
    BY <2>2, <2>4, SuccessNeedsDesired DEF Evidence
  <2>6. AppliedWasReached'
    BY <1>6 DEF ReconcileObserve, store, backend, Evidence, AppliedWasReached, Applied
  <2>7. UNCHANGED <<exec, graph, reached>>
    BY <1>6 DEF ReconcileObserve, backend
  <2>8. x.pc = "record" /\ x.verdict \in Success =>
          \A p \in x.open : IsFirst(p, x.fresh \cup x.open) => p \in reached
    BY <2>2, <2>3, <2>5
  <2>9. recon' = [recon EXCEPT ![r] = x]
    BY <2>1
  <2>10. QED BY <2>6, <2>7, <2>8, <2>9, ReconFrame
<1>7. CASE ReconcileRecordFresh(r)
  <2>1. PICK o \in recon[r].fresh :
          record_reconciliation_receipt(r, o, "RETRYABLE_NOT_APPLIED")
    BY <1>7 DEF ReconcileRecordFresh
  <2>2. o \in Ops /\ "RETRYABLE_NOT_APPLIED" \notin Success
    BY <1>0 DEF ReconType, Success
  <2>3. QED BY <1>7, <2>1, <2>2, RecordReconciliationEvidence DEF ReconcileRecordFresh
<1>8. CASE ReconcileRecordObserved(r)
  <2>1. PICK o \in recon[r].open :
          record_reconciliation_receipt(r, o, recon[r].verdict)
    BY <1>8 DEF ReconcileRecordObserved
  <2>2. o \in Ops
    BY <1>0 DEF ReconType
  <2>3. recon[r].verdict \in Success => o \in reached
    BY <1>8, <2>1
    DEF ReconcileRecordObserved, record_reconciliation_receipt, Evidence
  <2>4. QED BY <1>8, <2>1, <2>2, <2>3, RecordReconciliationEvidence
        DEF ReconcileRecordObserved
<1>9. CASE ReconcilerCrash(r)
  BY <1>1, <1>2, <1>9 DEF ReconcilerCrash, store, backend
<1>10. QED
  BY <1>3, <1>4, <1>5, <1>6, <1>7, <1>8, <1>9 DEF Reconcile

\* Evidence is an invariant: whatever is decided, recorded or not, rests on it.
LEMMA EvidenceInvariant == Spec => []Evidence
<1>1. Init => Evidence
  BY DEF Init, Evidence, IdleExec, IdleRecon, AppliedWasReached, Applied, Success
<1>2. TypeOK /\ Evidence /\ [Next]_vars => Evidence'
  <2> SUFFICES ASSUME TypeOK, Evidence, [Next]_vars PROVE Evidence'
    OBVIOUS
  <2>1. ASSUME NEW e \in Executors, Execute(e) PROVE Evidence'
    BY <2>1, ExecuteEvidence
  <2>2. ASSUME NEW r \in Reconcilers, Reconcile(r) \/ ReconcilerCrash(r) PROVE Evidence'
    BY <2>2, ReconcileEvidence
  <2>3. CASE Tick
    BY <2>3 DEF Tick, store, backend, Evidence, AppliedWasReached, Applied, IsFirst
  <2>4. ASSUME NEW req \in Requests, Land(req) \/ Drop(req) PROVE Evidence'
    <3>1. req[2] \in Ops
      BY DEF Requests
    <3>2. reached \subseteq reached' /\ \A o \in Ops : graph'[o] = "desired" => o \in reached'
      BY <2>4, <3>1 DEF Land, Drop, Evidence, TypeOK
    <3>3. UNCHANGED <<ops, exec, recon>>
      BY <2>4 DEF Land, Drop, store
    <3>4. QED BY <3>2, <3>3 DEF Evidence, AppliedWasReached, Applied, IsFirst
  <2>5. ASSUME NEW o \in Ops, ForeignWrite(o) PROVE Evidence'
    <3>1. reached \subseteq reached' /\ \A p \in Ops : graph'[p] = "desired" => p \in reached'
      BY <2>5 DEF ForeignWrite, Evidence, TypeOK
    <3>2. UNCHANGED <<ops, exec, recon>>
      BY <2>5 DEF ForeignWrite, store
    <3>3. QED BY <3>1, <3>2 DEF Evidence, AppliedWasReached, Applied, IsFirst
  <2>6. CASE UNCHANGED vars
    BY <2>6 DEF vars, Evidence, AppliedWasReached, Applied, IsFirst
  <2>7. QED BY <2>1, <2>2, <2>3, <2>4, <2>5, <2>6 DEF Next
<1>3. QED BY <1>1, <1>2, TypeCorrect, PTL DEF Spec

\* Recorded success rests on evidence in every reachable state: no crash, late
\* receipt or stale reconciliation makes the store claim an effect the graph
\* never had.
THEOREM SuccessIsProven == Spec => []AppliedWasReached
<1>1. Evidence => AppliedWasReached
  BY DEF Evidence
<1>2. QED BY <1>1, EvidenceInvariant, PTL

----------------------------------------------------------------------------
(* The plan's status and its operations                                    *)

\* The statuses an operation row can hold.
LEMMA RowStatuses ==
  OpStatus = {"APPLIED", "ALREADY_APPLIED", "REJECTED", "CONFLICT", "UNKNOWN",
              "RETRYABLE_NOT_APPLIED", "ISSUED", "EXECUTING"}
BY DEF OpStatus, Receipts, ApplyStatus

\* What the aggregate of rows says about them, once one row has an outcome.
LEMMA AggregateMeaning ==
  ASSUME NEW S \in SUBSET OpStatus, NEW s \in Receipts, s \in S,
         NEW a, a = aggregate_persisted_statuses(S)
  PROVE  /\ a \in Success <=> S \subseteq Success
         /\ a = "PARTIAL" <=> S \cap Success # {} /\ ~(S \subseteq Success)
         /\ a = "CONFLICT" <=> "CONFLICT" \in S /\ "UNKNOWN" \notin S /\ S \cap Success = {}
         /\ a = "REJECTED" <=> S \subseteq {"REJECTED", "ISSUED", "EXECUTING"}
         /\ a \notin {"ISSUED", "EXPIRED", "EXECUTING", "LEGACY_UNKNOWN"}
<1>1. CASE S \subseteq ApplyStatus
  <2>1. S \cap ApplyStatus = S /\ "PARTIAL" \notin S
    BY <1>1, RowStatuses
  <2>2. a = aggregate_plan_status(S)
    BY <1>1, <2>1 DEF aggregate_persisted_statuses
  <2>. QED  BY <1>1, <2>1, <2>2, RowStatuses DEF aggregate_plan_status, Success, ApplyStatus
<1>2. CASE ~(S \subseteq ApplyStatus)
  <2>1. s \in S \cap ApplyStatus
    BY DEF Receipts
  <2>2. a = IF (S \cap ApplyStatus) \cap Success # {} THEN "PARTIAL"
      ELSE IF "UNKNOWN" \in S \cap ApplyStatus THEN "UNKNOWN"
      ELSE IF "CONFLICT" \in S \cap ApplyStatus THEN "CONFLICT"
      ELSE IF "RETRYABLE_NOT_APPLIED" \in S \cap ApplyStatus THEN "RETRYABLE_NOT_APPLIED"
      ELSE IF S \cap ApplyStatus = {"REJECTED"} THEN "REJECTED"
      ELSE "EXECUTING"
    BY <1>2 DEF aggregate_persisted_statuses
  <2>. QED  BY <1>2, <2>1, <2>2, RowStatuses DEF Success, ApplyStatus
<1>. QED  BY <1>1, <1>2

\* What a step may do to the rows of the plan store: nothing, ...
Expires ==
  /\ plan.status = "ISSUED" /\ plan'.status = "EXPIRED" /\ plan'.owner = plan.owner
  /\ ops' = ops

\* ... claim_plan, ...
Claims(e) ==
  /\ exec[e].pc = "claim"
  /\ plan.status \in {"ISSUED", "RETRYABLE_NOT_APPLIED", "PARTIAL"}
  /\ e \notin Resumers => plan.status = "ISSUED"
  /\ plan'.status = IF plan.status = "PARTIAL" THEN "PARTIAL" ELSE "EXECUTING"
  /\ plan'.owner = e
  /\ ops' = ops

\* ... claim_operation, ...
Starts(e, o) ==
  /\ exec[e].pc = "claim_op"
  /\ o \in exec[e].todo /\ IsFirst(o, exec[e].todo)
  /\ plan.owner = e
  /\ ops[o].status \in {"ISSUED", "RETRYABLE_NOT_APPLIED"}
  /\ ops'[o].status = "EXECUTING" /\ ops'[o].attempt > 0
  /\ \A p \in Ops : p # o => ops'[p] = ops[p]
  /\ plan'.status = plan.status /\ plan'.owner = plan.owner

\* ... a receipt s for operation o, of the executor or of the reconciler, ...
Records(o, s) ==
  /\ ops'[o].status = s
  /\ ops'[o].attempt = ops[o].attempt
  /\ \A p \in Ops : p # o => ops'[p] = ops[p]
  /\ plan'.status = aggregate_persisted_statuses(StatusesOf(ops'))

Receipt(e) ==
  /\ exec[e].pc = "record" /\ Fenced(e)
  /\ Records(exec[e].op, exec[e].receipt)
  /\ \/ plan'.owner = NoOwner
     \/ /\ plan'.owner = e
        /\ exec[e].receipt \in Success
        /\ plan'.status \in {"EXECUTING", "PARTIAL"}

Reconciliation(r, o, s) ==
  /\ \/ recon[r].pc = "each" /\ o \in recon[r].fresh /\ s = "RETRYABLE_NOT_APPLIED"
     \/ recon[r].pc = "record" /\ o \in recon[r].open /\ s = recon[r].verdict
  /\ IsFirst(o, recon[r].fresh \cup recon[r].open)
  /\ plan.owner = NoOwner /\ plan'.owner = NoOwner
  /\ ops[o].status \in {"ISSUED", "EXECUTING", "UNKNOWN", "LEGACY_UNKNOWN"}
  /\ Records(o, s)

\* ... or begin_reconcile.
Fences ==
  /\ plan.status \in {"EXECUTING", "UNKNOWN", "LEGACY_UNKNOWN", "PARTIAL"}
  /\ plan'.status = IF plan.status = "EXECUTING" THEN "UNKNOWN" ELSE plan.status
  /\ plan'.owner = NoOwner
  /\ ops' = ops

\* The steps of executors that touch the store.
LEMMA ExecutorStoreSteps ==
  ASSUME TypeOK, NEW e \in Executors, Execute(e)
  PROVE  UNCHANGED store \/ Expires \/ Claims(e) \/ (\E o \in Ops : Starts(e, o)) \/ Receipt(e)
<1>0. /\ plan \in [status : PlanStatus, owner : Executors \cup {NoOwner}, lease : Nat]
      /\ ops \in [Ops -> RowType]
      /\ exec[e] \in ExecType
  BY DEF TypeOK, ExecType, RowType, OpStatus
<1>1. CASE ConfirmExpire(e)
  BY <1>0, <1>1 DEF ConfirmExpire, Expires, store
<1>2. CASE claim_plan(e)
  BY <1>2 DEF claim_plan, Claims, store
<1>3. CASE claim_operation(e)
  <2>1. PICK o \in exec[e].todo :
          /\ IsFirst(o, exec[e].todo)
          /\ \/ /\ plan.owner = e
                /\ ops[o].status \in {"ISSUED", "RETRYABLE_NOT_APPLIED"}
                /\ ops' = [ops EXCEPT ![o] = [status |-> "EXECUTING",
                                              attempt |-> ops[o].attempt + 1,
                                              token |-> e, reconciled |-> FALSE]]
                /\ plan' = [plan EXCEPT !.lease = clock + LeaseSeconds]
             \/ UNCHANGED store
    BY <1>3 DEF claim_operation
  <2>2. o \in Ops
    BY <1>0 DEF ExecType
  <2>3. ops[o].attempt \in Nat
    BY <1>0, <2>2 DEF RowType
  <2>4. CASE ~UNCHANGED store
    <3>1. /\ ops'[o].status = "EXECUTING" /\ ops'[o].attempt = ops[o].attempt + 1
          /\ \A p \in Ops : p # o => ops'[p] = ops[p]
      BY <1>0, <2>1, <2>2, <2>4
    <3>2. plan'.status = plan.status /\ plan'.owner = plan.owner
      BY <1>0, <2>1, <2>4
    <3>3. Starts(e, o)
      BY <1>3, <2>1, <2>3, <2>4, <3>1, <3>2 DEF Starts, claim_operation
    <3>. QED  BY <2>2, <3>3
  <2>. QED  BY <2>4
<1>4. CASE record_receipt(e) /\ ~UNCHANGED store
  <2>. DEFINE o == exec[e].op
              s == exec[e].receipt
              rows == [ops EXCEPT ![o].status = s]
              aggregate == aggregate_persisted_statuses(StatusesOf(rows))
              keepLease == s \in Success /\ aggregate \in {"EXECUTING", "PARTIAL"}
  <2>1. /\ exec[e].pc = "record" /\ Fenced(e)
        /\ ops' = rows
        /\ plan' = [status |-> aggregate,
                    owner |-> IF keepLease THEN plan.owner ELSE NoOwner,
                    lease |-> IF keepLease THEN plan.lease ELSE NoLease]
    BY <1>4 DEF record_receipt
  <2>2. o \in Ops
    BY <1>0 DEF ExecType
  <2>3. Records(o, s)
    BY <2>1, <2>2, RowUpdate DEF Records
  <2>4. plan.owner = e
    BY <2>1 DEF Fenced
  <2>. QED  BY <2>1, <2>3, <2>4 DEF Receipt
<1>. QED  BY <1>1, <1>2, <1>3, <1>4
     DEF Execute, ConfirmRead, ResumeReadPlan, ResumeReadOps, LoadOperations, AdapterReject,
         AdapterReadBefore, AdapterWrite, AdapterWriteRefused, AdapterReply, AdapterVerify,
         ExecutorCrash

\* The steps of reconcilers that touch the store.
LEMMA ReconcilerStoreSteps ==
  ASSUME TypeOK, NEW r \in Reconcilers, Reconcile(r) \/ ReconcilerCrash(r)
  PROVE  \/ UNCHANGED store \/ Fences
         \/ \E o \in Ops, s \in Receipts : Reconciliation(r, o, s)
<1>0. /\ plan \in [status : PlanStatus, owner : Executors \cup {NoOwner}, lease : Nat]
      /\ recon[r] \in ReconType
  BY DEF TypeOK, ReconType
<1>1. CASE begin_reconcile(r)
  BY <1>0, <1>1 DEF begin_reconcile, Fences, store
<1>2. ASSUME NEW o \in Ops, NEW s \in Receipts, record_reconciliation_receipt(r, o, s),
             \/ recon[r].pc = "each" /\ o \in recon[r].fresh /\ s = "RETRYABLE_NOT_APPLIED"
             \/ recon[r].pc = "record" /\ o \in recon[r].open /\ s = recon[r].verdict,
             ~UNCHANGED store
      PROVE  Reconciliation(r, o, s)
  <2>. DEFINE rows == [ops EXCEPT ![o] = [@ EXCEPT !.status = s, !.reconciled = TRUE]]
  <2>1. /\ IsFirst(o, recon[r].fresh \cup recon[r].open)
        /\ plan.owner = NoOwner
        /\ ops[o].status \in {"ISSUED", "EXECUTING", "UNKNOWN", "LEGACY_UNKNOWN"}
        /\ ops' = rows
        /\ plan' = [plan EXCEPT !.status = aggregate_persisted_statuses(StatusesOf(rows))]
    BY <1>2 DEF record_reconciliation_receipt
  <2>2. /\ ops'[o].status = s /\ ops'[o].attempt = ops[o].attempt
        /\ \A p \in Ops : p # o => ops'[p] = ops[p]
    BY <2>1, RowUpdate
  <2>3. /\ plan'.status = aggregate_persisted_statuses(StatusesOf(ops'))
        /\ plan'.owner = plan.owner
    BY <1>0, <2>1
  <2>. QED  BY <1>2, <2>1, <2>2, <2>3 DEF Reconciliation, Records
<1>3. CASE ReconcileRecordFresh(r)
  <2>1. PICK o \in recon[r].fresh :
          record_reconciliation_receipt(r, o, "RETRYABLE_NOT_APPLIED")
    BY <1>3 DEF ReconcileRecordFresh
  <2>2. o \in Ops /\ "RETRYABLE_NOT_APPLIED" \in Receipts /\ recon[r].pc = "each"
    BY <1>0, <1>3 DEF ReconcileRecordFresh, ReconType, Receipts, ApplyStatus
  <2>. QED  BY <1>2, <2>1, <2>2
<1>4. CASE ReconcileRecordObserved(r)
  <2>1. PICK o \in recon[r].open :
          record_reconciliation_receipt(r, o, recon[r].verdict)
    BY <1>4 DEF ReconcileRecordObserved
  <2>2. o \in Ops /\ recon[r].verdict \in Receipts /\ recon[r].pc = "record"
    BY <1>0, <1>4 DEF ReconcileRecordObserved, ReconType
  <2>. QED  BY <1>2, <2>1, <2>2
<1>. QED  BY <1>1, <1>3, <1>4
     DEF Reconcile, ReconcilerCrash, ReconcileReadPlan, ReconcileSnapshot, ReconcileObserve

\* The inductive strengthening of ReportedAgreesWithOperations: it is stated of
\* the stored status, and a plan that has an owner is being executed.
Agreement ==
  /\ plan.status \in Success <=> \A o \in Ops : Applied(o)
  /\ plan.status = "PARTIAL" <=> (\E o \in Ops : Applied(o)) /\ (\E o \in Ops : ~Applied(o))
  /\ plan.status \in {"ISSUED", "EXPIRED"} =>
       \A o \in Ops : ops[o].attempt = 0 /\ ops[o].status = "ISSUED"
  /\ plan.owner # NoOwner => plan.status \in {"EXECUTING", "PARTIAL"}

\* A recorded receipt makes the plan agree with its rows again.
LEMMA RecordsAgree ==
  ASSUME TypeOK', NEW o \in Ops, NEW s \in Receipts, Records(o, s)
  PROVE  /\ plan'.status \in Success <=> \A p \in Ops : Applied(p)'
         /\ plan'.status = "PARTIAL" <=>
              (\E p \in Ops : Applied(p)') /\ (\E p \in Ops : ~Applied(p)')
         /\ plan'.status \notin {"ISSUED", "EXPIRED"}
<1>. DEFINE S == StatusesOf(ops')
<1>1. S \in SUBSET OpStatus
  BY DEF StatusesOf, TypeOK, OpStatus
<1>2. s \in S
  BY DEF StatusesOf, Records
<1>3. /\ S \subseteq Success <=> \A p \in Ops : Applied(p)'
      /\ S \cap Success # {} <=> \E p \in Ops : Applied(p)'
  BY DEF StatusesOf, Applied
<1>4. plan'.status = aggregate_persisted_statuses(S)
  BY DEF Records
<1>. HIDE DEF S
<1>. QED  BY <1>1, <1>2, <1>3, <1>4, AggregateMeaning

\* Every step keeps the agreement.
LEMMA AgreementStep ==
  ASSUME TypeOK, TypeOK', Agreement, [Next]_vars
  PROVE  Agreement'
<1>0. 1 \in Ops
  BY ConstantsAssumption DEF Ops
<1>1. CASE UNCHANGED store
  BY <1>1 DEF store, Agreement, Applied
<1>2. CASE Expires
  BY <1>0, <1>2 DEF Expires, Agreement, Applied, Success
<1>3. ASSUME NEW e \in Executors, Claims(e) PROVE Agreement'
  BY <1>0, <1>3 DEF Claims, Agreement, Applied, Success
<1>4. ASSUME NEW e \in Executors, NEW o \in Ops, Starts(e, o) PROVE Agreement'
  <2>1. e # NoOwner
    BY ConstantsAssumption
  <2>2. plan.status \in {"EXECUTING", "PARTIAL"}
    BY <1>4, <2>1 DEF Starts, Agreement
  <2>3. \A p \in Ops : Applied(p)' <=> Applied(p)
    BY <1>4 DEF Starts, Applied, Success
  <2>. QED  BY <1>4, <2>2, <2>3 DEF Starts, Agreement
<1>5. ASSUME NEW e \in Executors, Receipt(e) PROVE Agreement'
  <2>1. exec[e].op \in Ops /\ exec[e].receipt \in Receipts
    BY DEF TypeOK
  <2>. QED  BY <1>5, <2>1, RecordsAgree DEF Receipt, Agreement
<1>6. CASE Fences
  BY <1>0, <1>6 DEF Fences, Agreement, Applied, Success
<1>7. ASSUME NEW r \in Reconcilers, NEW o \in Ops, NEW s \in Receipts, Reconciliation(r, o, s)
      PROVE  Agreement'
  BY <1>7, RecordsAgree DEF Reconciliation, Agreement
<1>8. CASE Tick \/ (\E req \in Requests : Land(req) \/ Drop(req)) \/ (\E o \in Ops : ForeignWrite(o))
           \/ UNCHANGED vars
  BY <1>1, <1>8 DEF Tick, Land, Drop, ForeignWrite, vars, store
<1>. QED  BY <1>1, <1>2, <1>3, <1>4, <1>5, <1>6, <1>7, <1>8, ExecutorStoreSteps,
             ReconcilerStoreSteps DEF Next

\* The inductive invariant behind the reported status.
LEMMA AgreementInvariant == Spec => []Agreement
<1>1. Init => Agreement
  <2>1. 1 \in Ops
    BY ConstantsAssumption DEF Ops
  <2>. QED  BY <2>1 DEF Init, Agreement, Applied, Success
<1>2. TypeOK /\ TypeOK' /\ Agreement /\ [Next]_vars => Agreement'
  BY AgreementStep
<1>. QED  BY <1>1, <1>2, TypeCorrect, PTL DEF Spec

\* What get_write_status reports agrees with the recorded evidence at every
\* moment of every execution, with any number of confirm, resume and reconcile
\* calls racing, dying and being fenced: success means all operations, PARTIAL
\* means some, and ISSUED or EXPIRED means that no operation was ever claimed.
THEOREM ReportIsTruthful == Spec => []ReportedAgreesWithOperations
<1>1. Agreement => ReportedAgreesWithOperations
  BY DEF Agreement, ReportedAgreesWithOperations, ReportedStatus, Success
<1>. QED  BY <1>1, AgreementInvariant, PTL
=============================================================================
