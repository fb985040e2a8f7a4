----------------------- MODULE WriteRefinementProofs -----------------------
(***************************************************************************)
(* Proofs about the server as it is shipped: plans are confirmed and       *)
(* reconciled, and no tool calls WriteExecutor.resume, so Resumers = {}.   *)
(* For any number of operations, confirm calls and reconcilers the backend *)
(* is written in order, by one call, and the store implements PlanOutcome. *)
(***************************************************************************)
EXTENDS WriteExecutionProofs, WriteRefinement

----------------------------------------------------------------------------
(* The inductive invariant                                                 *)

AtOp(e) == exec[e].pc \in {"adapter", "write", "await", "verify", "record"}
Working(e) == AtOp(e) \/ exec[e].pc \in {"load", "claim_op"}

AllRegistered == \A o \in Ops : KindOf[o] \in Registered

\* claim_plan takes an ISSUED plan, once: one call works on the plan, all that
\* was sent was sent by it, and it works only if all kinds are registered.
SoleExecutor ==
  /\ plan.status = "ISSUED" => (\A e \in Executors : ~Working(e)) /\ dispatched = {}
  /\ \A e, f \in Executors : Working(e) /\ Working(f) => e = f
  /\ \A e \in Executors, req \in dispatched : Working(e) => req[1] = e
  /\ \A req, other \in dispatched : req[1] = other[1]
  /\ \A e \in Executors : exec[e].pc # "resume_ops"
  /\ \A e \in Executors : exec[e].pc = "claim" \/ Working(e) => AllRegistered

\* A row was claimed exactly if it left ISSUED, other than by an authorisation
\* for replay; rows are claimed in order, each after the one before succeeded.
ClaimedInOrder ==
  /\ \A o \in Ops : ops[o].status = "ISSUED" => ops[o].attempt = 0
  /\ \A o \in Ops : ops[o].attempt = 0 => ops[o].status \in {"ISSUED", "RETRYABLE_NOT_APPLIED"}
  /\ \A o, p \in Ops : p < o /\ ops[o].attempt > 0 => Applied(p)
  /\ \A e \in Executors : AtOp(e) => ops[exec[e].op].attempt > 0
  /\ \A req \in dispatched : ops[req[2]].attempt > 0

\* While the executor holds its lease the rows are as it left them: what is
\* still to do is untouched, what it did succeeded.
LeaseGuardsRows ==
  \A e \in Executors : plan.owner = e =>
    /\ exec[e].pc = "load" => \A o \in Ops : ops[o].status = "ISSUED"
    /\ exec[e].pc = "claim_op" \/ AtOp(e) =>
         \A o \in Ops : IF o \in exec[e].todo THEN ops[o].status = "ISSUED"
                        ELSE Applied(o) \/ (AtOp(e) /\ o = exec[e].op)

\* What was refused before it was sent was not sent, and a REJECTED plan has
\* sent nothing and will not.
RefusedUnsent ==
  /\ \A e \in Executors :
       (exec[e].pc \in {"adapter", "write"} \/ (exec[e].pc = "record" /\ exec[e].receipt = "REJECTED"))
         => <<e, exec[e].op>> \notin dispatched
  /\ plan.status = "REJECTED" => dispatched = {} /\ \A e \in Executors : ~Working(e)
  /\ inflight \cup landed \subseteq dispatched

\* A reconciler past its read of the plan works on a plan that was claimed and
\* not refused; what it holds for unresolved has been claimed.
PastRead(r) == recon[r].pc \in {"snapshot", "each", "record"}
ReconcilersLate ==
  /\ plan.status # "LEGACY_UNKNOWN"
  /\ \A r \in Reconcilers :
       /\ recon[r].verdict # "REJECTED"
       /\ PastRead(r) => plan.status \in {"UNKNOWN", "PARTIAL", "CONFLICT",
                                          "RETRYABLE_NOT_APPLIED"} \cup Success
       /\ \A o \in recon[r].open : ops[o].attempt > 0
  /\ plan.status = "CONFLICT" =>
       /\ \E o \in Ops : ops[o].status = "CONFLICT"
       /\ \A o \in Ops : ops[o].status # "UNKNOWN"

----------------------------------------------------------------------------
(* What a step of an executor does, when nobody resumes                    *)

\* The call does not work on the plan after the step, ...
Rests(e) ==
  /\ exec'[e].pc \in {"expire", "claim", "done"}
  /\ exec'[e].pc = "claim" => AllRegistered
  /\ dispatched' = dispatched
  /\ UNCHANGED store \/ Expires \/ Receipt(e)

\* ... it has claimed the plan, ...
Enters(e) == Claims(e) /\ exec'[e].pc = "load" /\ dispatched' = dispatched

\* ... has chosen what to do, ...
Loads(e) ==
  /\ exec[e].pc = "load" /\ exec'[e].pc = "claim_op"
  /\ exec'[e].todo = {o \in Ops : ops[o].status = "ISSUED"}
  /\ UNCHANGED <<store, dispatched>>

\* ... has claimed an operation, ...
Picks(e, o) ==
  /\ Starts(e, o)
  /\ exec'[e].pc = "adapter" /\ exec'[e].op = o /\ exec'[e].todo = exec[e].todo \ {o}
  /\ dispatched' = dispatched

\* ... is at work in the adapter, where it may send the operation's request, ...
Adapts(e) ==
  /\ AtOp(e) /\ exec[e].pc # "record" /\ AtOp(e)'
  /\ exec'[e].op = exec[e].op /\ exec'[e].todo = exec[e].todo
  /\ exec'[e].pc \in {"adapter", "write"} => exec[e].pc = "adapter"
  /\ exec'[e].pc = "record" /\ exec'[e].receipt = "REJECTED" =>
       exec[e].pc = "adapter" \/ KindOf[exec[e].op] = "CREATE_VERTEX"
  /\ \/ dispatched' = dispatched
     \/ exec'[e].pc = "await" /\ dispatched' = dispatched \cup {<<e, exec[e].op>>}
  /\ UNCHANGED store

\* ... or has recorded a success and goes on with the next operation.
GoesOn(e) ==
  /\ Receipt(e) /\ exec[e].receipt \in Success
  /\ exec'[e].pc = "claim_op" /\ exec'[e].todo = exec[e].todo
  /\ dispatched' = dispatched

\* Only a vertex create can be rejected after it was sent.
LEMMA RejectedBeforeSending ==
  ASSUME NEW kind \in Kinds, NEW reply, NEW obs \in ObjectStates
  PROVE  /\ before_write(obs) # "REJECTED"
         /\ after_write(kind, reply, obs) = "REJECTED" => kind = "CREATE_VERTEX"
         /\ \A claimed \in BOOLEAN : reconcile_verdict(obs, claimed) # "REJECTED"
BY DEF before_write, after_write, reconcile_verdict, reconcile_operation_state, Kinds,
       ObjectStates

\* Every step of a confirm call is one of these.
LEMMA ExecutorMoves ==
  ASSUME TypeOK, Resumers = {}, NEW e \in Executors, exec[e].pc # "resume_ops", Execute(e)
  PROVE  /\ \A f \in Executors : f # e => exec'[f] = exec[f]
         /\ recon' = recon
         /\ \/ Rests(e) \/ Enters(e) \/ Loads(e) \/ (\E o \in Ops : Picks(e, o))
            \/ Adapts(e) \/ GoesOn(e)
<1>0. exec \in [Executors -> ExecType] /\ exec[e] \in ExecType /\ e \notin Resumers
  BY DEF TypeOK, ExecType
<1>1. ASSUME NEW x, exec' = [exec EXCEPT ![e] = x]
      PROVE  (\A f \in Executors : f # e => exec'[f] = exec[f]) /\ exec'[e] = x
  BY <1>0, <1>1
<1>2. ASSUME Finish(e)
      PROVE  (\A f \in Executors : f # e => exec'[f] = exec[f]) /\ exec'[e].pc = "done"
  BY <1>0, <1>2 DEF Finish, IdleExec
<1>3. CASE ExecutorCrash(e)
  BY <1>2, <1>3 DEF ExecutorCrash, Rests, backend
<1>4. CASE ConfirmRead(e)
  <2>1. CASE Finish(e)
    BY <1>2, <1>4, <2>1 DEF ConfirmRead, Rests, backend
  <2>2. CASE exec' = [exec EXCEPT ![e].pc = "expire"]
    BY <1>0, <1>4, <2>2 DEF ConfirmRead, Rests, backend, ExecType
  <2>3. CASE /\ exec' = [exec EXCEPT ![e] = [@ EXCEPT !.pc = "claim", !.t = clock]]
             /\ AllRegistered
    BY <1>0, <1>4, <2>3 DEF ConfirmRead, Rests, backend, ExecType
  <2>. QED  BY <1>4, <2>1, <2>2, <2>3 DEF ConfirmRead, AllRegistered
<1>5. CASE ConfirmExpire(e)
  <2>1. UNCHANGED store \/ Expires
    BY <1>5 DEF ConfirmExpire, Expires, store, TypeOK
  <2>. QED  BY <1>2, <1>5, <2>1 DEF ConfirmExpire, Rests, backend
<1>6. CASE ResumeReadPlan(e) \/ ResumeReadOps(e)
  BY <1>0, <1>6 DEF ResumeReadPlan, ResumeReadOps
<1>7. CASE claim_plan(e)
  <2>1. CASE Finish(e) /\ UNCHANGED plan
    BY <1>2, <1>7, <2>1 DEF claim_plan, Rests, store, backend
  <2>2. CASE ~(Finish(e) /\ UNCHANGED plan)
    <3>1. exec' = [exec EXCEPT ![e].pc = "load"]
      BY <1>7, <2>2 DEF claim_plan
    <3>2. Claims(e)
      BY <1>0, <1>7, <2>2 DEF claim_plan, Claims
    <3>. QED  BY <1>0, <1>7, <3>1, <3>2 DEF claim_plan, Enters, backend, ExecType
  <2>. QED  BY <2>1, <2>2
<1>8. CASE LoadOperations(e)
  <2>. DEFINE todo == {o \in Ops : ops[o].status = "ISSUED"}
  <2>1. \/ Finish(e)
        \/ exec' = [exec EXCEPT ![e] = [@ EXCEPT !.pc = "claim_op", !.todo = todo]]
    BY <1>0, <1>8 DEF LoadOperations
  <2>2. CASE Finish(e)
    BY <1>2, <1>8, <2>2 DEF LoadOperations, Rests, backend
  <2>3. CASE exec' = [exec EXCEPT ![e] = [@ EXCEPT !.pc = "claim_op", !.todo = todo]]
    BY <1>0, <1>8, <2>3 DEF LoadOperations, Loads, store, backend, ExecType
  <2>. QED  BY <2>1, <2>2, <2>3
<1>9. CASE claim_operation(e)
  <2>1. PICK o \in exec[e].todo :
          /\ IsFirst(o, exec[e].todo)
          /\ \/ Finish(e) /\ UNCHANGED store
             \/ /\ ops' = [ops EXCEPT ![o] = [status |-> "EXECUTING",
                                              attempt |-> ops[o].attempt + 1,
                                              token |-> e, reconciled |-> FALSE]]
                /\ exec' = [exec EXCEPT ![e] =
                              [@ EXCEPT !.pc = "adapter", !.op = o,
                                        !.todo = exec[e].todo \ {o},
                                        !.attempt = ops[o].attempt + 1]]
    BY <1>9 DEF claim_operation
  <2>2. CASE Finish(e) /\ UNCHANGED store
    BY <1>2, <1>9, <2>2 DEF claim_operation, Rests, backend
  <2>3. CASE ~(Finish(e) /\ UNCHANGED store)
    <3>1. o \in Ops /\ ops[o] \in RowType /\ ops \in [Ops -> RowType]
      BY <1>0 DEF ExecType, TypeOK, RowType, OpStatus
    <3>2. ops'[o].attempt # ops[o].attempt
      BY <2>1, <2>3, <3>1 DEF RowType
    <3>3. PICK p \in Ops : Starts(e, p)
      BY <3>2, <1>9, ExecutorStoreSteps
      DEF store, Expires, Claims, Receipt, claim_operation, Execute
    <3>4. p = o
      BY <2>1, <3>1, <3>3, <1>0, ConstantsAssumption DEF Starts, IsFirst, Ops, ExecType
    <3>5. /\ exec'[e].pc = "adapter" /\ exec'[e].op = o
          /\ exec'[e].todo = exec[e].todo \ {o}
          /\ \A f \in Executors : f # e => exec'[f] = exec[f]
      BY <1>0, <2>1, <2>3 DEF ExecType
    <3>. QED  BY <1>9, <3>1, <3>3, <3>4, <3>5 DEF claim_operation, Picks, backend
  <2>. QED  BY <2>2, <2>3
<1>10. ASSUME UNCHANGED <<store, recon, dispatched>>, exec[e].pc \in {"adapter", "verify"},
              NEW s, Receive(e, s),
              s = "REJECTED" => exec[e].pc = "adapter" \/ KindOf[exec[e].op] = "CREATE_VERTEX"
       PROVE  (\A f \in Executors : f # e => exec'[f] = exec[f]) /\ Adapts(e)
  BY <1>0, <1>10 DEF Receive, Adapts, AtOp, ExecType
<1>11. CASE AdapterReject(e)
  BY <1>10, <1>11 DEF AdapterReject, backend
<1>12. CASE AdapterReadBefore(e)
  <2>1. CASE exec' = [exec EXCEPT ![e].pc = "write"]
    BY <1>0, <1>12, <2>1 DEF AdapterReadBefore, Adapts, AtOp, backend, ExecType
  <2>2. ASSUME NEW s, Receive(e, s)
        PROVE  (\A f \in Executors : f # e => exec'[f] = exec[f]) /\ Adapts(e)
    BY <1>10, <1>12, <2>2 DEF AdapterReadBefore, backend
  <2>. QED  BY <1>12, <2>1, <2>2 DEF AdapterReadBefore
<1>13. CASE AdapterWrite(e)
  BY <1>0, <1>13 DEF AdapterWrite, Adapts, AtOp, backend, ExecType
<1>14. CASE AdapterWriteRefused(e)
  BY <1>0, <1>14 DEF AdapterWriteRefused, Adapts, AtOp, backend, ExecType
<1>15. CASE AdapterReply(e)
  BY <1>0, <1>15 DEF AdapterReply, Adapts, AtOp, backend, ExecType
<1>16. CASE AdapterVerify(e)
  <2>1. KindOf[exec[e].op] \in Kinds /\ graph[exec[e].op] \in ObjectStates
    BY <1>0, ConstantsAssumption DEF TypeOK, ExecType
  <2>2. PICK s : /\ Receive(e, s)
                 /\ \/ s = "UNKNOWN"
                    \/ s = after_write(KindOf[exec[e].op], exec[e].reply, graph[exec[e].op])
    BY <1>16 DEF AdapterVerify
  <2>3. s = "REJECTED" => KindOf[exec[e].op] = "CREATE_VERTEX"
    BY <2>1, <2>2, RejectedBeforeSending
  <2>. QED  BY <1>10, <1>16, <2>2, <2>3 DEF AdapterVerify, backend
<1>17. CASE record_receipt(e)
  <2>1. UNCHANGED <<recon, dispatched>> /\ exec[e].pc = "record"
    BY <1>17 DEF record_receipt, backend
  <2>2. CASE UNCHANGED store /\ Finish(e)
    BY <1>2, <2>1, <2>2 DEF Rests
  <2>3. CASE ~(UNCHANGED store /\ Finish(e))
    <3>1. /\ \/ Finish(e)
             \/ exec' = [exec EXCEPT ![e].pc = "claim_op"] /\ exec[e].receipt \in Success
          /\ ops[exec[e].op].status = "EXECUTING"
          /\ ops' = [ops EXCEPT ![exec[e].op].status = exec[e].receipt]
      BY <1>17, <2>3 DEF record_receipt, Fenced
    <3>2. exec[e].op \in Ops /\ exec[e].receipt # "EXECUTING"
      BY <1>0 DEF ExecType, Receipts, ApplyStatus
    <3>3. ops'[exec[e].op].status # ops[exec[e].op].status
      BY <3>1, <3>2, RowUpdate
    <3>4. Receipt(e)
      BY <2>1, <3>3, ExecutorStoreSteps DEF Expires, Claims, Starts, store
    <3>5. CASE Finish(e)
      BY <1>2, <2>1, <3>4, <3>5 DEF Rests
    <3>6. CASE exec' = [exec EXCEPT ![e].pc = "claim_op"] /\ exec[e].receipt \in Success
      BY <1>0, <2>1, <3>4, <3>6 DEF GoesOn, ExecType
    <3>. QED  BY <3>1, <3>5, <3>6
  <2>. QED  BY <2>2, <2>3
<1>. QED  BY <1>3, <1>4, <1>5, <1>6, <1>7, <1>8, <1>9, <1>11, <1>12, <1>13, <1>14, <1>15,
             <1>16, <1>17 DEF Execute
\* Every step of a reconciler: it keeps its distance from executors and backend,
\* enters the loop from an unresolved plan, and holds unresolved rows only.
LEMMA ReconcilerMoves ==
  ASSUME TypeOK, NEW r \in Reconcilers, recon[r].verdict # "REJECTED",
         Reconcile(r) \/ ReconcilerCrash(r)
  PROVE  /\ UNCHANGED <<exec, inflight, landed, dispatched>>
         /\ \A q \in Reconcilers : q # r => recon'[q] = recon[q]
         /\ recon'[r].verdict # "REJECTED"
         /\ PastRead(r)' =>
              \/ PastRead(r)
              \/ plan.status \in {"UNKNOWN", "LEGACY_UNKNOWN", "PARTIAL"} /\ UNCHANGED store
         /\ \/ recon'[r].open \subseteq recon[r].open
            \/ /\ UNCHANGED store
               /\ \A o \in recon'[r].open : o \in Ops /\
                    ops[o].status \in {"EXECUTING", "UNKNOWN", "LEGACY_UNKNOWN"}
<1>0. recon \in [Reconcilers -> ReconType] /\ recon[r] \in ReconType
  BY DEF TypeOK, ReconType
<1>1. Leave(r) => /\ \A q \in Reconcilers : q # r => recon'[q] = recon[q]
                  /\ recon'[r].verdict = "UNKNOWN"
                  /\ recon'[r].open = {} /\ recon'[r].pc = "idle"
  BY <1>0 DEF Leave, IdleRecon
<1>2. CASE begin_reconcile(r)
  BY <1>0, <1>2 DEF begin_reconcile, backend, ReconType, PastRead
<1>3. CASE ReconcileReadPlan(r)
  BY <1>0, <1>1, <1>3 DEF ReconcileReadPlan, store, backend, ReconType, PastRead
<1>4. CASE ReconcileSnapshot(r)
  <2>1. CASE Leave(r)
    BY <1>1, <1>4, <2>1 DEF ReconcileSnapshot, backend, PastRead
  <2>2. CASE ~Leave(r)
    <3>1. /\ \A q \in Reconcilers : q # r => recon'[q] = recon[q]
          /\ recon'[r].verdict = "UNKNOWN"
          /\ recon'[r].open =
               {o \in Ops : ops[o].status \in {"EXECUTING", "UNKNOWN", "LEGACY_UNKNOWN"}}
      BY <1>0, <1>4, <2>2 DEF ReconcileSnapshot
    <3>. QED  BY <1>4, <3>1 DEF ReconcileSnapshot, store, backend, PastRead
  <2>. QED  BY <2>1, <2>2
<1>5. CASE ReconcileObserve(r)
  <2>1. PICK o \in recon[r].open :
          recon' = [recon EXCEPT ![r] =
            [recon[r] EXCEPT !.pc = "record",
               !.verdict = reconcile_verdict(graph[o], o \in recon[r].claimed)]]
    BY <1>5 DEF ReconcileObserve
  <2>2. o \in Ops
    BY <1>0 DEF ReconType
  <2>3. reconcile_verdict(graph[o], o \in recon[r].claimed) # "REJECTED"
    BY DEF reconcile_verdict, reconcile_operation_state
  <2>4. /\ \A q \in Reconcilers : q # r => recon'[q] = recon[q]
        /\ recon'[r].verdict # "REJECTED" /\ recon'[r].open = recon[r].open
    BY <1>0, <2>1, <2>3 DEF ReconType
  <2>. QED  BY <1>5, <2>4 DEF ReconcileObserve, backend, PastRead
<1>6. ASSUME PastRead(r), UNCHANGED <<clock, exec, backend>>, NEW o, NEW s,
             record_reconciliation_receipt(r, o, s)
      PROVE  /\ UNCHANGED <<exec, inflight, landed, dispatched>>
             /\ \A q \in Reconcilers : q # r => recon'[q] = recon[q]
             /\ recon'[r].verdict # "REJECTED"
             /\ recon'[r].open \subseteq recon[r].open
  <2>1. CASE Leave(r)
    BY <1>1, <1>6, <2>1 DEF backend
  <2>2. CASE ~Leave(r)
    <3>1. recon' = [recon EXCEPT ![r] =
                        [pc |-> "each", fresh |-> recon[r].fresh \ {o},
                         open |-> recon[r].open \ {o},
                         claimed |-> recon[r].claimed \ {o}, verdict |-> "UNKNOWN"]]
      BY <1>6, <2>2 DEF record_reconciliation_receipt
    <3>2. /\ \A q \in Reconcilers : q # r => recon'[q] = recon[q]
          /\ recon'[r].verdict = "UNKNOWN" /\ recon'[r].open = recon[r].open \ {o}
      BY <1>0, <3>1
    <3>. QED  BY <1>6, <3>2 DEF backend
  <2>. QED  BY <2>1, <2>2
<1>7. CASE ReconcileRecordFresh(r)
  BY <1>6, <1>7 DEF ReconcileRecordFresh, PastRead
<1>8. CASE ReconcileRecordObserved(r)
  BY <1>6, <1>8 DEF ReconcileRecordObserved, PastRead
<1>9. CASE ReconcilerCrash(r)
  BY <1>1, <1>9 DEF ReconcilerCrash, backend, PastRead
<1>. QED  BY <1>2, <1>3, <1>4, <1>5, <1>7, <1>8, <1>9 DEF Reconcile

----------------------------------------------------------------------------
(* The invariant is inductive                                              *)

Exclusive == SoleExecutor /\ ClaimedInOrder /\ LeaseGuardsRows /\ ReconcilersLate

\* The aggregate of rows of which one has an outcome.
LEMMA AggregateOfRows ==
  ASSUME TypeOK', NEW o \in Ops, NEW s \in Receipts, Records(o, s)
  PROVE  /\ plan'.status \in PlanStatus \ {"ISSUED", "EXPIRED", "EXECUTING", "LEGACY_UNKNOWN"}
         /\ \A p \in Ops : ops'[p].status \in Success => plan'.status \in Success \cup {"PARTIAL"}
         /\ plan'.status = "REJECTED" =>
              \A p \in Ops : ops'[p].status \in {"REJECTED", "ISSUED", "EXECUTING"}
         /\ plan'.status = "CONFLICT" <=>
              /\ \E p \in Ops : ops'[p].status = "CONFLICT"
              /\ \A p \in Ops : ops'[p].status # "UNKNOWN" /\ ops'[p].status \notin Success
<1>. DEFINE S == StatusesOf(ops')
<1>1. S \in SUBSET OpStatus
  BY DEF StatusesOf, TypeOK, OpStatus
<1>2. s \in S /\ \A p \in Ops : ops'[p].status \in S
  BY DEF StatusesOf, Records
<1>3. /\ "CONFLICT" \in S <=> \E p \in Ops : ops'[p].status = "CONFLICT"
      /\ "UNKNOWN" \notin S /\ S \cap Success = {} <=>
           \A p \in Ops : ops'[p].status # "UNKNOWN" /\ ops'[p].status \notin Success
  BY DEF StatusesOf
<1>4. plan'.status = aggregate_persisted_statuses(S) /\ plan'.status \in PlanStatus
  BY AggregateType DEF Records
<1>. HIDE DEF S
<1>5. /\ plan'.status \in Success <=> S \subseteq Success
      /\ plan'.status = "PARTIAL" <=> S \cap Success # {} /\ ~(S \subseteq Success)
      /\ plan'.status = "CONFLICT" <=>
           "CONFLICT" \in S /\ "UNKNOWN" \notin S /\ S \cap Success = {}
      /\ plan'.status = "REJECTED" <=> S \subseteq {"REJECTED", "ISSUED", "EXECUTING"}
      /\ plan'.status \notin {"ISSUED", "EXPIRED", "EXECUTING", "LEGACY_UNKNOWN"}
  BY <1>1, <1>2, <1>4, AggregateMeaning
<1>. QED  BY <1>2, <1>3, <1>4, <1>5

\* The plan stays ISSUED only as long as nobody claims it.
LEMMA SoleExecutorStep ==
  ASSUME TypeOK, TypeOK', Resumers = {}, SoleExecutor,
         NEW e \in Executors, Execute(e)
  PROVE  SoleExecutor'
<1>1. /\ \A f \in Executors : f # e => exec'[f] = exec[f]
      /\ \/ Rests(e) \/ Enters(e) \/ Loads(e) \/ (\E o \in Ops : Picks(e, o))
         \/ Adapts(e) \/ GoesOn(e)
  BY ExecutorMoves DEF SoleExecutor
<1>2. \A f \in Executors : f # e => (Working(f)' <=> Working(f))
  BY <1>1 DEF Working, AtOp
<1>3. Receipt(e) => plan'.status # "ISSUED"
  BY AggregateOfRows DEF Receipt, TypeOK
<1>4. CASE Rests(e)
  <2>1. ~Working(e)' /\ exec'[e].pc # "resume_ops"
    BY <1>4 DEF Rests, Working, AtOp
  <2>2. plan'.status = "ISSUED" => plan.status = "ISSUED"
    BY <1>3, <1>4 DEF Rests, store, Expires
  <2>. QED  BY <1>1, <1>2, <1>4, <2>1, <2>2 DEF SoleExecutor, Rests
<1>5. CASE Enters(e)
  <2>1. plan.status = "ISSUED" /\ plan'.status # "ISSUED" /\ exec[e].pc = "claim"
    BY <1>5 DEF Enters, Claims
  <2>2. exec'[e].pc = "load" /\ dispatched' = {}
    BY <1>5, <2>1 DEF Enters, SoleExecutor
  <2>. QED  BY <1>1, <1>2, <2>1, <2>2 DEF SoleExecutor
<1>6. CASE Loads(e) \/ (\E o \in Ops : Picks(e, o)) \/ Adapts(e) \/ GoesOn(e)
  <2>1. /\ Working(e) /\ exec'[e].pc \notin {"resume_ops", "claim"}
        /\ \/ dispatched' = dispatched
           \/ dispatched' = dispatched \cup {<<e, exec[e].op>>}
    BY <1>6 DEF Loads, Picks, Starts, Adapts, GoesOn, Receipt, Working, AtOp
  <2>2. plan'.status # "ISSUED"
    BY <1>3, <1>6, <2>1
    DEF Loads, Picks, Starts, Adapts, GoesOn, store, SoleExecutor
  <2>3. \A req \in dispatched' : req \in dispatched \/ req[1] = e
    BY <2>1
  <2>. QED  BY <1>1, <1>2, <2>1, <2>2, <2>3 DEF SoleExecutor
<1>. QED  BY <1>1, <1>4, <1>5, <1>6
\* Rows as the executor's steps may change them: a row that succeeded stays, an
\* attempt is never taken back, and a row is changed by the owner of the plan.
RowsAdvance(e) ==
  /\ \A p \in Ops : Applied(p) => ops'[p] = ops[p]
  /\ \A p \in Ops : ops[p].attempt > 0 => ops'[p].attempt > 0
  /\ ops' # ops => plan.owner = e

\* Every step of an executor changes the rows like that.
LEMMA ExecutorRows ==
  ASSUME TypeOK, NEW e \in Executors,
         \/ UNCHANGED store \/ Expires \/ Claims(e) \/ Receipt(e)
         \/ \E o \in Ops : Starts(e, o)
  PROVE  RowsAdvance(e)
<1>1. exec[e].op \in Ops
  BY DEF TypeOK
<1>2. CASE Receipt(e)
  BY <1>1, <1>2 DEF Receipt, Records, Fenced, RowsAdvance, Applied, Success
<1>3. CASE \E o \in Ops : Starts(e, o)
  BY <1>3 DEF Starts, RowsAdvance, Applied, Success
<1>. QED  BY <1>2, <1>3 DEF store, Expires, Claims, RowsAdvance

\* A row is claimed only by the owner of the plan, after all earlier ones.
LEMMA ClaimedInOrderStep ==
  ASSUME TypeOK, TypeOK', Resumers = {}, SoleExecutor, ClaimedInOrder, LeaseGuardsRows,
         NEW e \in Executors, Execute(e)
  PROVE  ClaimedInOrder'
<1>1. /\ \A f \in Executors : f # e => exec'[f] = exec[f]
      /\ \/ Rests(e) \/ Enters(e) \/ Loads(e) \/ (\E o \in Ops : Picks(e, o))
         \/ Adapts(e) \/ GoesOn(e)
  BY ExecutorMoves DEF SoleExecutor
<1>2. RowsAdvance(e)
  BY ExecutorRows, ExecutorStoreSteps
<1>3. /\ \A f \in Executors : exec[f].op \in Ops
      /\ \A req \in dispatched : req[2] \in Ops
  BY DEF TypeOK, Requests
<1>4. \A f \in Executors : f # e /\ AtOp(f)' => ops'[exec'[f].op].attempt > 0
  BY <1>1, <1>2, <1>3 DEF ClaimedInOrder, RowsAdvance, AtOp
<1>5. \A req \in dispatched : ops'[req[2]].attempt > 0
  BY <1>2, <1>3 DEF ClaimedInOrder, RowsAdvance
<1>6. CASE ops' = ops
  <2>1. AtOp(e)' => ops[exec'[e].op].attempt > 0
    <3>1. ~\E o \in Ops : Picks(e, o)
      BY <1>6 DEF Picks, Starts
    <3>. QED  BY <1>1, <3>1
         DEF Rests, Enters, Loads, Adapts, GoesOn, AtOp, ClaimedInOrder
  <2>2. \A req \in dispatched' : ops[req[2]].attempt > 0
    BY <1>1, <1>6
       DEF Rests, Enters, Loads, Picks, Adapts, GoesOn, ClaimedInOrder
  <2>. QED  BY <1>4, <1>6, <2>1, <2>2 DEF ClaimedInOrder, Applied
<1>7. ASSUME NEW o \in Ops, Picks(e, o) PROVE ClaimedInOrder'
  <2>1. /\ exec[e].pc = "claim_op" /\ ~AtOp(e) /\ o \in exec[e].todo
        /\ \A p \in Ops : p < o => p \notin exec[e].todo
        /\ plan.owner = e
    BY <1>7, ConstantsAssumption DEF Picks, Starts, IsFirst, AtOp, Ops
  <2>2. \A p \in Ops : p < o => Applied(p)
    BY <2>1 DEF LeaseGuardsRows
  <2>3. ops'[o].status = "EXECUTING" /\ ops'[o].attempt > 0 /\ ~Applied(o)
    BY <1>7 DEF Picks, Starts, Applied, Success
  <2>4. \A p \in Ops : p # o => ops'[p] = ops[p]
    BY <1>7 DEF Picks, Starts
  <2>5. \A q, p \in Ops : p < q /\ ops'[q].attempt > 0 => Applied(p)'
    <3>1. \A p \in Ops : Applied(p) => Applied(p)'
      BY <1>2 DEF RowsAdvance, Applied
    <3>. QED  BY <2>2, <2>3, <2>4, <3>1 DEF ClaimedInOrder
  <2>6. exec'[e].op = o /\ dispatched' = dispatched
    BY <1>7 DEF Picks
  <2>. QED  BY <1>4, <1>5, <2>3, <2>4, <2>5, <2>6 DEF ClaimedInOrder
<1>8. CASE Receipt(e) /\ ~AtOp(e)' /\ dispatched' = dispatched
  <2>. DEFINE o == exec[e].op
  <2>1. o \in Ops /\ ops[o].attempt > 0 /\ exec[e].receipt \in Receipts
    BY <1>3, <1>8 DEF Receipt, ClaimedInOrder, AtOp, TypeOK
  <2>2. /\ ops'[o].status = exec[e].receipt /\ ops'[o].attempt = ops[o].attempt
        /\ \A p \in Ops : p # o => ops'[p] = ops[p]
    BY <1>8 DEF Receipt, Records
  <2>3. ops'[o].status # "ISSUED"
    BY <2>1, <2>2 DEF Receipts, ApplyStatus
  <2>4. \A q, p \in Ops : p < q /\ ops'[q].attempt > 0 => Applied(p)'
    <3>1. \A p \in Ops : Applied(p) => Applied(p)'
      BY <1>2 DEF RowsAdvance, Applied
    <3>. QED  BY <2>2, <3>1 DEF ClaimedInOrder
  <2>. QED  BY <1>4, <1>5, <1>8, <2>1, <2>2, <2>3, <2>4 DEF ClaimedInOrder
<1>9. CASE Rests(e) \/ GoesOn(e)
  <2>1. ~AtOp(e)' /\ dispatched' = dispatched
    BY <1>9 DEF Rests, GoesOn, AtOp
  <2>2. ops' = ops \/ Receipt(e)
    BY <1>9 DEF Rests, GoesOn, Expires, store
  <2>. QED  BY <1>6, <1>8, <2>1, <2>2
<1>10. CASE Enters(e) \/ Loads(e) \/ Adapts(e)
  BY <1>6, <1>10 DEF Enters, Claims, Loads, Adapts, store
<1>. QED  BY <1>1, <1>7, <1>9, <1>10

\* The owner's steps keep the rows as it knows them; nobody else changes them.
LEMMA LeaseGuardsRowsStep ==
  ASSUME TypeOK, TypeOK', Resumers = {}, SoleExecutor, ClaimedInOrder, LeaseGuardsRows,
         Agreement, NEW e \in Executors, Execute(e)
  PROVE  LeaseGuardsRows'
<1>1. /\ \A f \in Executors : f # e => exec'[f] = exec[f]
      /\ \/ Rests(e) \/ Enters(e) \/ Loads(e) \/ (\E o \in Ops : Picks(e, o))
         \/ Adapts(e) \/ GoesOn(e)
  BY ExecutorMoves DEF SoleExecutor
<1>2. RowsAdvance(e)
  BY ExecutorRows, ExecutorStoreSteps
<1>3. plan'.owner \in {plan.owner, e, NoOwner}
  BY ExecutorStoreSteps DEF store, Expires, Claims, Starts, Receipt
<1>4. \A f \in Executors : f # NoOwner
  BY ConstantsAssumption
<1>5. ASSUME NEW f \in Executors, f # e, plan'.owner = f
      PROVE  plan.owner = f /\ exec'[f] = exec[f] /\ ops' = ops
  BY <1>1, <1>2, <1>3, <1>4, <1>5 DEF RowsAdvance
<1>6. ASSUME plan'.owner = e
      PROVE  /\ exec'[e].pc = "load" => \A o \in Ops : ops'[o].status = "ISSUED"
             /\ exec'[e].pc = "claim_op" \/ AtOp(e)' =>
                  \A o \in Ops : IF o \in exec'[e].todo THEN ops'[o].status = "ISSUED"
                                 ELSE Applied(o)' \/ (AtOp(e)' /\ o = exec'[e].op)
  <2>1. CASE Rests(e)
    BY <2>1 DEF Rests, AtOp
  <2>2. CASE Enters(e)
    BY <2>2 DEF Enters, Claims, AtOp, Agreement
  <2>3. plan.owner = e \/ Claims(e)
    BY <1>4, <1>6, ExecutorStoreSteps DEF store, Expires, Starts, Receipt, Fenced
  <2>4. CASE Loads(e)
    <3>1. plan.owner = e
      BY <2>3, <2>4 DEF Loads, Claims
    <3>. QED  BY <2>4, <3>1 DEF Loads, store, LeaseGuardsRows, AtOp
  <2>5. ASSUME NEW o \in Ops, Picks(e, o) PROVE <1>6!2
    <3>1. plan.owner = e /\ exec[e].pc = "claim_op" /\ ~AtOp(e) /\ o \in exec[e].todo
      BY <2>5 DEF Picks, Starts, AtOp
    <3>2. \A p \in Ops : p # o => ops'[p] = ops[p]
      BY <2>5 DEF Picks, Starts
    <3>3. AtOp(e)' /\ exec'[e].op = o /\ exec'[e].todo = exec[e].todo \ {o} /\ exec'[e].pc # "load"
      BY <2>5 DEF Picks, AtOp
    <3>. QED  BY <3>1, <3>2, <3>3 DEF LeaseGuardsRows, Applied
  <2>6. CASE Adapts(e)
    BY <2>3, <2>6 DEF Adapts, Claims, LeaseGuardsRows, AtOp, Applied, store
  <2>7. CASE GoesOn(e)
    <3>1. /\ plan.owner = e /\ AtOp(e) /\ exec[e].op \in Ops
          /\ exec'[e].pc = "claim_op" /\ exec'[e].todo = exec[e].todo
      BY <2>7 DEF GoesOn, Receipt, Fenced, AtOp, TypeOK
    <3>2. ops'[exec[e].op].status \in Success /\ \A p \in Ops : p # exec[e].op => ops'[p] = ops[p]
      BY <2>7 DEF GoesOn, Receipt, Records, Applied
    <3>3. exec[e].op \notin exec[e].todo
      BY <2>7, <3>1 DEF GoesOn, Receipt, Fenced, LeaseGuardsRows
    <3>. QED  BY <3>1, <3>2, <3>3 DEF LeaseGuardsRows, Applied
  <2>. QED  BY <1>1, <2>1, <2>2, <2>4, <2>5, <2>6, <2>7
<1>. QED  BY <1>5, <1>6 DEF LeaseGuardsRows, AtOp, Applied
\* A plan that a reconciler works on is not put back to work or refused.
LEMMA ReconcilersLateStep ==
  ASSUME TypeOK, TypeOK', Resumers = {}, SoleExecutor, ReconcilersLate, Agreement,
         NEW e \in Executors, Execute(e)
  PROVE  ReconcilersLate'
<1>1. recon' = recon /\ e \notin Resumers /\ e # NoOwner
  BY ExecutorMoves, ConstantsAssumption DEF SoleExecutor
<1>2. RowsAdvance(e)
  BY ExecutorRows, ExecutorStoreSteps
<1>3. \A r \in Reconcilers : recon[r].open \subseteq Ops
  BY DEF TypeOK
<1>4. \A r \in Reconcilers : \A o \in recon'[r].open : ops'[o].attempt > 0
  BY <1>1, <1>2, <1>3 DEF RowsAdvance, ReconcilersLate
<1>5. CASE UNCHANGED store
  BY <1>1, <1>4, <1>5 DEF store, ReconcilersLate, PastRead
<1>6. CASE Expires \/ Claims(e)
  BY <1>1, <1>4, <1>6 DEF Expires, Claims, ReconcilersLate, PastRead, Success
<1>7. ASSUME NEW o \in Ops, Starts(e, o) PROVE ReconcilersLate'
  <2>1. plan.status \in {"EXECUTING", "PARTIAL"} /\ plan'.status = plan.status
    BY <1>1, <1>7 DEF Starts, Agreement
  <2>. QED  BY <1>1, <1>4, <2>1 DEF ReconcilersLate, PastRead
<1>8. CASE Receipt(e)
  <2>1. exec[e].op \in Ops /\ exec[e].receipt \in Receipts
    BY DEF TypeOK
  <2>2. Records(exec[e].op, exec[e].receipt) /\ plan.status \in {"EXECUTING", "PARTIAL"}
    BY <1>1, <1>8 DEF Receipt, Fenced, Agreement
  <2>3. plan.status = "PARTIAL" => plan'.status \in Success \cup {"PARTIAL"}
    <3>1. plan.status = "PARTIAL" => \E p \in Ops : ops'[p].status \in Success
      BY <1>2 DEF Agreement, RowsAdvance, Applied
    <3>. QED  BY <2>1, <2>2, <3>1, AggregateOfRows
  <2>4. /\ plan'.status # "LEGACY_UNKNOWN"
        /\ plan'.status = "CONFLICT" =>
             /\ \E p \in Ops : ops'[p].status = "CONFLICT"
             /\ \A p \in Ops : ops'[p].status # "UNKNOWN"
    BY <2>1, <2>2, AggregateOfRows
  <2>. QED  BY <1>1, <1>4, <2>2, <2>3, <2>4 DEF ReconcilersLate, PastRead, Success
<1>. QED  BY <1>5, <1>6, <1>7, <1>8, ExecutorStoreSteps

\* A reconciler records only what is unresolved, and never a rejection.
LEMMA ReconcileExclusive ==
  ASSUME TypeOK, TypeOK', Exclusive, NEW r \in Reconcilers, Reconcile(r) \/ ReconcilerCrash(r)
  PROVE  Exclusive'
<1>1. /\ UNCHANGED <<exec, inflight, landed, dispatched>>
      /\ \A q \in Reconcilers : q # r => recon'[q] = recon[q]
      /\ recon'[r].verdict # "REJECTED"
      /\ PastRead(r)' =>
           \/ PastRead(r)
           \/ plan.status \in {"UNKNOWN", "LEGACY_UNKNOWN", "PARTIAL"} /\ UNCHANGED store
      /\ \/ recon'[r].open \subseteq recon[r].open
         \/ /\ UNCHANGED store
            /\ \A o \in recon'[r].open : o \in Ops /\
                 ops[o].status \in {"EXECUTING", "UNKNOWN", "LEGACY_UNKNOWN"}
  BY ReconcilerMoves DEF Exclusive, ReconcilersLate
<1>2. \A f \in Executors : f # NoOwner /\ exec[f].op \in Ops
  BY ConstantsAssumption DEF TypeOK
<1>3. \A req \in dispatched : req[2] \in Ops
  BY DEF TypeOK, Requests
<1>4. \A q \in Reconcilers : recon[q].open \subseteq Ops
  BY DEF TypeOK
<1>5. ASSUME ops' = ops,
             \/ UNCHANGED plan
             \/ plan'.owner = NoOwner /\ plan'.status \in {plan.status, "UNKNOWN"}
      PROVE  SoleExecutor' /\ ClaimedInOrder' /\ LeaseGuardsRows'
  <2>1. SoleExecutor'
    BY <1>1, <1>5 DEF Exclusive, SoleExecutor, Working, AtOp
  <2>2. ClaimedInOrder'
    BY <1>1, <1>5 DEF Exclusive, ClaimedInOrder, AtOp, Applied
  <2>3. LeaseGuardsRows'
    BY <1>1, <1>2, <1>5 DEF Exclusive, LeaseGuardsRows, AtOp, Applied
  <2>. QED  BY <2>1, <2>2, <2>3
<1>6. ASSUME ops' = ops PROVE \A q \in Reconcilers : \A o \in recon'[q].open : ops'[o].attempt > 0
  <2>1. \A o \in Ops : ops[o].status \in {"EXECUTING", "UNKNOWN", "LEGACY_UNKNOWN"} =>
          ops[o].attempt > 0
    <3>1. \A o \in Ops : ops[o].attempt \in Nat
      BY DEF TypeOK
    <3>. QED  BY <3>1 DEF Exclusive, ClaimedInOrder
  <2>. QED  BY <1>1, <1>6, <2>1 DEF Exclusive, ReconcilersLate
<1>7. CASE UNCHANGED store
  <2>1. ReconcilersLate'
    BY <1>1, <1>6, <1>7 DEF store, Exclusive, ReconcilersLate, PastRead
  <2>. QED  BY <1>5, <1>7, <2>1 DEF store, Exclusive
<1>8. CASE Fences
  <2>1. ReconcilersLate'
    <3>1. PastRead(r)' => PastRead(r) \/ plan.status \in {"UNKNOWN", "PARTIAL"}
      BY <1>1 DEF Exclusive, ReconcilersLate
    <3>. QED  BY <1>1, <1>6, <1>8, <3>1 DEF Fences, Exclusive, ReconcilersLate, PastRead, Success
  <2>. QED  BY <1>5, <1>8, <2>1 DEF Fences, Exclusive
<1>9. ASSUME NEW o \in Ops, NEW s \in Receipts, Reconciliation(r, o, s) PROVE Exclusive'
  <2>1. Records(o, s) /\ plan'.owner = NoOwner /\ s # "REJECTED" /\ PastRead(r) /\ ~Applied(o)
    BY <1>9 DEF Reconciliation, Exclusive, ReconcilersLate, PastRead, Applied, Success
  <2>2. /\ ops'[o].status = s /\ ops'[o].attempt = ops[o].attempt
        /\ \A p \in Ops : p # o => ops'[p] = ops[p]
    BY <2>1 DEF Records
  <2>3. \A p \in Ops : ops'[p].attempt = ops[p].attempt /\ (Applied(p) => Applied(p)')
    BY <2>1, <2>2 DEF Applied
  <2>4. SoleExecutor'
    <3>1. plan'.status # "ISSUED"
      BY <2>1, AggregateOfRows
    <3>. QED  BY <1>1, <3>1 DEF Exclusive, SoleExecutor, Working, AtOp
  <2>5. ClaimedInOrder'
    <3>1. s # "ISSUED"
      BY DEF Receipts, ApplyStatus
    <3>2. ops[o].attempt > 0 \/ s = "RETRYABLE_NOT_APPLIED"
      BY <1>9 DEF Reconciliation, Exclusive, ReconcilersLate
    <3>3. ops[o].attempt \in Nat
      BY DEF TypeOK
    <3>4. \A q, p \in Ops : p < q /\ ops'[q].attempt > 0 => Applied(p)'
      BY <2>3 DEF Exclusive, ClaimedInOrder
    <3>5. \A p \in Ops : /\ ops'[p].status = "ISSUED" => ops'[p].attempt = 0
                         /\ ops'[p].attempt = 0 =>
                              ops'[p].status \in {"ISSUED", "RETRYABLE_NOT_APPLIED"}
      BY <2>2, <3>1, <3>2, <3>3 DEF Exclusive, ClaimedInOrder
    <3>6. /\ \A e \in Executors : AtOp(e)' => ops'[exec'[e].op].attempt > 0
          /\ \A req \in dispatched' : ops'[req[2]].attempt > 0
      BY <1>1, <1>2, <1>3, <2>3 DEF Exclusive, ClaimedInOrder, AtOp
    <3>. QED  BY <3>4, <3>5, <3>6 DEF ClaimedInOrder
  <2>6. LeaseGuardsRows'
    BY <1>2, <2>1 DEF LeaseGuardsRows
  <2>7. ReconcilersLate'
    <3>1. /\ plan'.status \in PlanStatus \ {"ISSUED", "EXPIRED", "EXECUTING", "LEGACY_UNKNOWN",
                                            "REJECTED"}
          /\ plan'.status = "CONFLICT" =>
               /\ \E p \in Ops : ops'[p].status = "CONFLICT"
               /\ \A p \in Ops : ops'[p].status # "UNKNOWN"
      <4>1. s \notin {"REJECTED", "ISSUED", "EXECUTING"}
        BY <2>1 DEF Receipts, ApplyStatus
      <4>. QED  BY <2>1, <2>2, <4>1, AggregateOfRows
    <3>2. plan'.status \in {"UNKNOWN", "PARTIAL", "CONFLICT", "RETRYABLE_NOT_APPLIED"} \cup Success
      BY <3>1 DEF PlanStatus, ApplyStatus, Success
    <3>3. \A q \in Reconcilers : \A p \in recon'[q].open : ops'[p].attempt > 0
      <4>1. CASE recon'[r].open \subseteq recon[r].open
        BY <1>1, <1>4, <2>3, <4>1 DEF Exclusive, ReconcilersLate
      <4>2. CASE UNCHANGED store
        BY <1>6, <4>2 DEF store
      <4>. QED  BY <1>1, <4>1, <4>2
    <3>4. \A q \in Reconcilers : recon'[q].verdict # "REJECTED"
      BY <1>1 DEF Exclusive, ReconcilersLate
    <3>. QED  BY <3>1, <3>2, <3>3, <3>4 DEF ReconcilersLate
  <2>. QED  BY <2>4, <2>5, <2>6, <2>7 DEF Exclusive
<1>. QED  BY <1>7, <1>8, <1>9, ReconcilerStoreSteps

\* The invariant holds of every state when nobody resumes.
LEMMA ExclusiveInvariant ==
  ASSUME Resumers = {}
  PROVE  Spec => []Exclusive
<1>1. Init => Exclusive
  <2>. SUFFICES ASSUME Init PROVE Exclusive
    OBVIOUS
  <2>1. /\ \A e \in Executors : exec[e].pc = "idle"
        /\ \A r \in Reconcilers : recon[r].pc = "idle" /\ recon[r].verdict = "UNKNOWN"
                                  /\ recon[r].open = {}
        /\ \A o \in Ops : ops[o].status = "ISSUED" /\ ops[o].attempt = 0
        /\ plan.status = "ISSUED" /\ dispatched = {}
    BY DEF Init, IdleExec, IdleRecon
  <2>2. SoleExecutor
    BY <2>1 DEF SoleExecutor, Working, AtOp
  <2>3. ClaimedInOrder
    BY <2>1 DEF ClaimedInOrder, AtOp
  <2>4. LeaseGuardsRows
    BY <2>1 DEF LeaseGuardsRows, AtOp
  <2>5. ReconcilersLate
    BY <2>1 DEF ReconcilersLate, PastRead
  <2>. QED  BY <2>2, <2>3, <2>4, <2>5 DEF Exclusive
<1>2. TypeOK /\ TypeOK' /\ Agreement /\ Exclusive /\ [Next]_vars => Exclusive'
  <2>. SUFFICES ASSUME TypeOK, TypeOK', Agreement, Exclusive, [Next]_vars PROVE Exclusive'
    OBVIOUS
  <2>1. ASSUME NEW e \in Executors, Execute(e) PROVE Exclusive'
    BY <2>1, SoleExecutorStep, ClaimedInOrderStep, LeaseGuardsRowsStep, ReconcilersLateStep
    DEF Exclusive
  <2>2. ASSUME NEW r \in Reconcilers, Reconcile(r) \/ ReconcilerCrash(r) PROVE Exclusive'
    BY <2>2, ReconcileExclusive
  <2>3. ASSUME UNCHANGED <<store, exec, recon, dispatched>> PROVE Exclusive'
    <3>1. SoleExecutor'
      BY <2>3 DEF store, Exclusive, SoleExecutor, Working, AtOp
    <3>2. ClaimedInOrder'
      BY <2>3 DEF store, Exclusive, ClaimedInOrder, AtOp, Applied
    <3>3. LeaseGuardsRows'
      BY <2>3 DEF store, Exclusive, LeaseGuardsRows, AtOp, Applied
    <3>4. ReconcilersLate'
      BY <2>3 DEF store, Exclusive, ReconcilersLate, PastRead
    <3>. QED  BY <3>1, <3>2, <3>3, <3>4 DEF Exclusive
  <2>4. CASE Tick \/ (\E req \in Requests : Land(req) \/ Drop(req))
             \/ (\E o \in Ops : ForeignWrite(o)) \/ UNCHANGED vars
    BY <2>3, <2>4 DEF Tick, Land, Drop, ForeignWrite, vars, store, backend
  <2>. QED  BY <2>1, <2>2, <2>4 DEF Next
<1>. QED  BY <1>1, <1>2, TypeCorrect, AgreementInvariant, PTL DEF Spec

\* The backend receives at most one request for an operation: confirm calls
\* that race, lose their lease, crash or are reconciled meanwhile send nothing
\* that another call has sent.
THEOREM SentAtMostOnce ==
  ASSUME Resumers = {}
  PROVE  Spec => []DispatchedAtMostOnce
<1>1. Exclusive => DispatchedAtMostOnce
  BY DEF Exclusive, SoleExecutor, DispatchedAtMostOnce
<1>. QED  BY <1>1, ExclusiveInvariant, PTL

\* An operation is sent only after every earlier one succeeded, and those
\* successes are never revised afterwards.
THEOREM SentInOrder ==
  ASSUME Resumers = {}
  PROVE  Spec => []DispatchedInOrder
<1>1. Exclusive => DispatchedInOrder
  BY DEF Exclusive, ClaimedInOrder, DispatchedInOrder
<1>. QED  BY <1>1, ExclusiveInvariant, PTL
----------------------------------------------------------------------------
(* A refused plan is untouched                                             *)

\* No step sends what was refused, when vertex creates are not enabled.
LEMMA RefusedUnsentStep ==
  ASSUME TypeOK, TypeOK', Resumers = {}, "CREATE_VERTEX" \notin Registered, Agreement,
         Exclusive, RefusedUnsent, [Next]_vars
  PROVE  RefusedUnsent'
<1>1. ASSUME NEW e \in Executors, Execute(e) PROVE RefusedUnsent'
  <2>1. /\ \A f \in Executors : f # e => exec'[f] = exec[f]
        /\ \/ Rests(e) \/ Enters(e) \/ Loads(e) \/ (\E o \in Ops : Picks(e, o))
           \/ Adapts(e) \/ GoesOn(e)
    BY <1>1, ExecutorMoves DEF Exclusive, SoleExecutor
  <2>2. inflight' \cup landed' \subseteq dispatched'
    BY <1>1
    DEF RefusedUnsent, Execute, ConfirmRead, ConfirmExpire, ResumeReadPlan, ResumeReadOps,
        claim_plan, LoadOperations, claim_operation, AdapterReject, AdapterReadBefore,
        AdapterWrite, AdapterWriteRefused, AdapterReply, AdapterVerify, record_receipt,
        ExecutorCrash, backend
  <2>3. ASSUME NEW f \in Executors, f # e,
               exec'[f].pc \in {"adapter", "write"} \/ (exec'[f].pc = "record" /\ exec'[f].receipt = "REJECTED")
        PROVE  <<f, exec'[f].op>> \notin dispatched'
    BY <2>1, <2>3 DEF RefusedUnsent, Rests, Enters, Loads, Picks, Adapts, GoesOn
  <2>4. (exec'[e].pc \in {"adapter", "write"} \/ (exec'[e].pc = "record" /\ exec'[e].receipt = "REJECTED"))
          => <<e, exec'[e].op>> \notin dispatched'
    <3>1. CASE Adapts(e)
      <4>1. KindOf[exec[e].op] # "CREATE_VERTEX"
        <5>1. AllRegistered /\ exec[e].op \in Ops
          BY <3>1 DEF Adapts, Exclusive, SoleExecutor, Working, TypeOK
        <5>. QED  BY <5>1 DEF AllRegistered
      <4>. QED  BY <3>1, <4>1 DEF Adapts, RefusedUnsent
    <3>2. ASSUME NEW o \in Ops, Picks(e, o) PROVE <<e, o>> \notin dispatched'
      <4>1. plan.owner = e /\ exec[e].pc = "claim_op" /\ o \in exec[e].todo
        BY <3>2 DEF Picks, Starts
      <4>2. ops[o].attempt = 0
        BY <4>1 DEF Exclusive, LeaseGuardsRows, ClaimedInOrder
      <4>. QED  BY <3>2, <4>2 DEF Picks, Exclusive, ClaimedInOrder
    <3>. QED  BY <2>1, <3>1, <3>2 DEF Rests, Enters, Loads, Picks, GoesOn
  <2>5. plan'.status = "REJECTED" => dispatched' = {} /\ \A f \in Executors : ~Working(f)'
    <3>1. CASE UNCHANGED store /\ ~Enters(e)
      <4>1. Working(e)' => Working(e)
        BY <2>1, <3>1 DEF Rests, Loads, Picks, Starts, Adapts, GoesOn, Receipt, Working, AtOp
      <4>2. dispatched' # dispatched => Working(e)
        BY <2>1 DEF Rests, Enters, Loads, Picks, Adapts, GoesOn, Working, AtOp
      <4>. QED  BY <2>1, <3>1, <4>1, <4>2 DEF RefusedUnsent, store, Working, AtOp
    <3>2. CASE Receipt(e)
      <4>. SUFFICES ASSUME plan'.status = "REJECTED"
                    PROVE  dispatched' = {} /\ \A f \in Executors : ~Working(f)'
        OBVIOUS
      <4>. DEFINE o == exec[e].op
      <4>1. /\ o \in Ops /\ exec[e].receipt \in Receipts /\ Records(o, exec[e].receipt)
            /\ AtOp(e) /\ exec[e].pc = "record" /\ plan.owner = e
        BY <3>2 DEF Receipt, Fenced, AtOp, TypeOK
      <4>2. \A p \in Ops : ops'[p].status \in {"REJECTED", "ISSUED", "EXECUTING"}
        BY <4>1, AggregateOfRows
      <4>3. exec[e].receipt = "REJECTED"
        BY <4>1, <4>2 DEF Records, Receipts, ApplyStatus
      <4>4. Rests(e) /\ dispatched' = dispatched
        BY <2>1, <4>1, <4>3
        DEF Rests, Enters, Claims, Loads, Picks, Starts, Adapts, GoesOn, Success
      <4>5. \A f \in Executors : ~Working(f)'
        BY <2>1, <4>1, <4>4 DEF Rests, Exclusive, SoleExecutor, Working, AtOp
      <4>6. ASSUME NEW req \in dispatched PROVE FALSE
        <5>1. req = <<e, req[2]>> /\ req[2] \in Ops /\ ops[req[2]].attempt > 0
          BY <4>1 DEF Exclusive, SoleExecutor, Working, TypeOK, Requests, ClaimedInOrder
        <5>2. req[2] # o
          BY <4>1, <4>3, <5>1 DEF RefusedUnsent
        <5>3. ~Applied(req[2])
          BY <4>1, <4>2, <5>1, <5>2 DEF Records, Applied, Success
        <5>4. ops[req[2]].status = "ISSUED"
          BY <4>1, <5>1, <5>2, <5>3 DEF Exclusive, LeaseGuardsRows
        <5>. QED  BY <5>1, <5>4 DEF Exclusive, ClaimedInOrder
      <4>. QED  BY <4>4, <4>5, <4>6
    <3>3. CASE (~UNCHANGED store /\ ~Receipt(e)) \/ Enters(e)
      <4>1. e \in Executors /\ e # NoOwner /\ e \notin Resumers
        BY ConstantsAssumption
      <4>. QED  BY <1>1, <3>3, <4>1, ExecutorStoreSteps
           DEF Enters, Expires, Claims, Starts, Agreement
    <3>. QED  BY <3>1, <3>2, <3>3
  <2>. QED  BY <2>2, <2>3, <2>4, <2>5 DEF RefusedUnsent
<1>2. ASSUME NEW r \in Reconcilers, Reconcile(r) \/ ReconcilerCrash(r) PROVE RefusedUnsent'
  <2>1. UNCHANGED <<exec, inflight, landed, dispatched>>
    BY <1>2, ReconcilerMoves DEF Exclusive, ReconcilersLate
  <2>2. plan'.status = "REJECTED" => plan.status = "REJECTED"
    <3>1. ASSUME NEW o \in Ops, NEW s \in Receipts, Reconciliation(r, o, s)
          PROVE  plan'.status # "REJECTED"
      <4>1. s \notin {"REJECTED", "ISSUED", "EXECUTING"}
        BY <3>1 DEF Reconciliation, Exclusive, ReconcilersLate, Receipts, ApplyStatus
      <4>2. Records(o, s) /\ ops'[o].status = s
        BY <3>1 DEF Reconciliation, Records
      <4>. QED  BY <4>1, <4>2, AggregateOfRows
    <3>. QED  BY <1>2, <3>1, ReconcilerStoreSteps DEF store, Fences
  <2>. QED  BY <2>1, <2>2 DEF RefusedUnsent, Working, AtOp
<1>3. CASE Tick \/ (\E req \in Requests : Land(req) \/ Drop(req))
           \/ (\E o \in Ops : ForeignWrite(o)) \/ UNCHANGED vars
  <2>1. UNCHANGED <<store, exec, dispatched>> /\ inflight' \cup landed' \subseteq dispatched'
    BY <1>3 DEF Tick, Land, Drop, ForeignWrite, vars, store, backend, RefusedUnsent
  <2>. QED  BY <2>1 DEF store, RefusedUnsent, Working, AtOp
<1>. QED  BY <1>1, <1>2, <1>3 DEF Next

\* A plan reported as REJECTED has changed nothing and will not: with the
\* adapters that the server registers (edge deletes and schema creates), no
\* request of it was ever sent, so none is committed or may still commit.
THEOREM RejectedIsUntouched ==
  ASSUME Resumers = {}, "CREATE_VERTEX" \notin Registered
  PROVE  Spec => []RejectedMeansUntouched
<1>1. Init => RefusedUnsent
  BY DEF Init, RefusedUnsent, IdleExec
<1>2. TypeOK /\ TypeOK' /\ Agreement /\ Exclusive /\ RefusedUnsent /\ [Next]_vars
      => RefusedUnsent'
  BY RefusedUnsentStep
<1>3. RefusedUnsent => RejectedMeansUntouched
  BY DEF RefusedUnsent, RejectedMeansUntouched, ReportedStatus
<1>. QED  BY <1>1, <1>2, <1>3, TypeCorrect, AgreementInvariant, ExclusiveInvariant, PTL DEF Spec
----------------------------------------------------------------------------
(* The store implements PlanOutcome                                        *)

Shown(o) == EvidenceOf(ops[o].status)

\* A recorded receipt decides an open plan as the promise allows: the row was
\* open, success is shown only for what happened, and the verdict is that of
\* all the rows.
LEMMA RecordsDecide ==
  ASSUME TypeOK, TypeOK', NEW o \in Ops, NEW s \in Receipts, Records(o, s),
         Shown(o) = "open", s \in Success => o \in reached,
         VerdictOf(plan.status) = "open", reached' = reached
  PROVE  Outcome!Decide
<1>. DEFINE ev == [p \in Ops |-> EvidenceOf(ops'[p].status)]
<1>1. ev \in [Ops -> {"open", "done", "refused"}]
  BY DEF EvidenceOf
<1>2. \A p \in Ops : \/ ev[p] = Shown(p)
                     \/ Shown(p) = "open" /\ (ev[p] = "done" => p \in reached)
  BY DEF Records, Shown, EvidenceOf, Success
<1>3. VerdictOf(plan'.status) \in
        {"open"} \cup (IF \A p \in Ops : ev[p] = "done" THEN {"success"} ELSE {})
                 \cup (IF \A p \in Ops : ev[p] # "done" THEN {"failure"} ELSE {})
  <2>1. plan'.status \in Success => \A p \in Ops : ev[p] = "done"
    BY RecordsAgree DEF Applied, EvidenceOf, Success
  <2>2. plan'.status \in Terminal \ Success => \A p \in Ops : ev[p] # "done"
    <3>1. plan'.status \in {"REJECTED", "CONFLICT"} => \A p \in Ops : ops'[p].status \notin Success
      BY AggregateOfRows DEF Success
    <3>2. plan'.status # "EXPIRED"
      BY AggregateOfRows
    <3>. QED  BY <3>1, <3>2 DEF Terminal, Success, EvidenceOf
  <2>. QED  BY <2>1, <2>2 DEF VerdictOf
<1>4. [p \in Ops |-> EvidenceOf(ops[p].status)]' = ev
  OBVIOUS
<1>. HIDE DEF ev
<1>. QED  BY <1>1, <1>2, <1>3, <1>4 DEF Outcome!Decide, Outcome!Settled, Outcome!Verdicts, Shown

\* Every step of the protocol is a step of the promise or none.
LEMMA StepImplements ==
  ASSUME TypeOK, TypeOK', Resumers = {}, Agreement, Evidence, Exclusive, [Next]_vars
  PROVE  [Outcome!Next]_Outcome!outcomeVars
<1>. DEFINE Steady == \A o \in Ops : EvidenceOf(ops'[o].status) = Shown(o)
<1>1. ASSUME Steady
      PROVE  [o \in Ops |-> EvidenceOf(ops[o].status)]' = [o \in Ops |-> EvidenceOf(ops[o].status)]
  BY <1>1 DEF Shown
<1>2. ASSUME Steady, reached' = reached, VerdictOf(plan'.status) = VerdictOf(plan.status)
      PROVE  UNCHANGED Outcome!outcomeVars
  BY <1>1, <1>2 DEF Outcome!outcomeVars
<1>3. CASE UNCHANGED store /\ reached' = reached
  BY <1>2, <1>3 DEF store, Shown
<1>4. ASSUME NEW e \in Executors, Execute(e) PROVE [Outcome!Next]_Outcome!outcomeVars
  <2>1. reached' = reached
    BY <1>4
    DEF Execute, ConfirmRead, ConfirmExpire, ResumeReadPlan, ResumeReadOps,
        claim_plan, LoadOperations, claim_operation, AdapterReject, AdapterReadBefore,
        AdapterWrite, AdapterWriteRefused, AdapterReply, AdapterVerify, record_receipt,
        ExecutorCrash, backend
  <2>2. CASE Expires
    <3>1. \A o \in Ops : Shown(o) = "open" /\ ops'[o].status = ops[o].status
      BY <2>2 DEF Expires, Agreement, Shown, EvidenceOf, Success
    <3>2. VerdictOf(plan.status) = "open" /\ VerdictOf(plan'.status) = "failure"
      BY <2>2 DEF Expires, VerdictOf, Terminal, Success
    <3>. DEFINE ev == [p \in Ops |-> EvidenceOf(ops[p].status)]
    <3>3. ev \in [Ops -> {"open", "done", "refused"}] /\ \A p \in Ops : ev[p] = "open"
      BY <3>1 DEF Shown
    <3>4. ev' = ev
      BY <3>1
    <3>5. Outcome!Decide
      BY <2>1, <3>2, <3>3, <3>4 DEF Outcome!Decide, Outcome!Settled, Outcome!Verdicts
    <3>. QED  BY <3>5 DEF Outcome!Next
  <2>3. CASE Claims(e)
    <3>1. plan.status \in {"ISSUED", "RETRYABLE_NOT_APPLIED", "PARTIAL"}
          /\ plan'.status \in {"PARTIAL", "EXECUTING"} /\ ops' = ops
      BY <2>3 DEF Claims
    <3>. QED  BY <1>2, <2>1, <3>1 DEF VerdictOf, Terminal, Success, Shown
  <2>4. ASSUME NEW o \in Ops, Starts(e, o) PROVE [Outcome!Next]_Outcome!outcomeVars
    <3>1. Steady
      BY <2>4 DEF Starts, Shown, EvidenceOf, Success
    <3>. QED  BY <1>2, <2>1, <2>4, <3>1 DEF Starts
  <2>5. CASE Receipt(e)
    <3>1. exec[e].op \in Ops /\ exec[e].receipt \in Receipts
      BY DEF TypeOK
    <3>2. /\ Records(exec[e].op, exec[e].receipt)
          /\ Shown(exec[e].op) = "open"
          /\ exec[e].receipt \in Success => exec[e].op \in reached
      BY <2>5 DEF Receipt, Fenced, Evidence, Shown, EvidenceOf, Success
    <3>3. VerdictOf(plan.status) = "open"
      <4>1. e # NoOwner /\ plan.owner = e
        BY <2>5, ConstantsAssumption DEF Receipt, Fenced
      <4>. QED  BY <4>1 DEF Agreement, VerdictOf, Terminal, Success
    <3>. QED  BY <2>1, <3>1, <3>2, <3>3, RecordsDecide DEF Outcome!Next
  <2>. QED  BY <1>3, <1>4, <2>1, <2>2, <2>3, <2>4, <2>5, ExecutorStoreSteps
<1>5. ASSUME NEW r \in Reconcilers, Reconcile(r) \/ ReconcilerCrash(r)
      PROVE  [Outcome!Next]_Outcome!outcomeVars
  <2>1. reached' = reached
    BY <1>5
    DEF Reconcile, begin_reconcile, ReconcileReadPlan, ReconcileSnapshot, ReconcileObserve,
        ReconcileRecordFresh, ReconcileRecordObserved, ReconcilerCrash, backend
  <2>2. CASE Fences
    <3>1. plan.status \notin Terminal /\ plan'.status \notin Terminal /\ ops' = ops
      BY <2>2 DEF Fences, Terminal
    <3>2. VerdictOf(plan'.status) = VerdictOf(plan.status)
      BY <3>1 DEF VerdictOf, Terminal, Success
    <3>. QED  BY <1>2, <2>1, <3>1, <3>2 DEF Shown
  <2>3. ASSUME NEW o \in Ops, NEW s \in Receipts, Reconciliation(r, o, s)
        PROVE  [Outcome!Next]_Outcome!outcomeVars
    <3>1. /\ Records(o, s) /\ PastRead(r) /\ ~Applied(o) /\ Shown(o) = "open"
          /\ ops[o].status \in {"ISSUED", "EXECUTING", "UNKNOWN", "LEGACY_UNKNOWN"}
      BY <2>3 DEF Reconciliation, PastRead, Applied, Shown, EvidenceOf, Success
    <3>2. s \in Success => o \in reached
      BY <2>3 DEF Reconciliation, Evidence, Success
    <3>3. CASE VerdictOf(plan.status) = "open"
      BY <2>1, <3>1, <3>2, <3>3, RecordsDecide DEF Outcome!Next
    <3>4. CASE VerdictOf(plan.status) # "open"
      <4>1. plan.status = "CONFLICT"
        BY <3>1, <3>4
        DEF VerdictOf, Agreement, Exclusive, ReconcilersLate, Terminal, Success
      <4>2. PICK c \in Ops : ops[c].status = "CONFLICT"
        BY <4>1 DEF Exclusive, ReconcilersLate
      <4>3. \A p \in Ops : ~Applied(p) /\ ops[p].status # "UNKNOWN"
        BY <4>1, <3>1 DEF Agreement, Exclusive, ReconcilersLate, Success
      <4>4. ops[c].attempt > 0 /\ c # o
        <5>1. ops[c].attempt \in Nat
          BY DEF TypeOK
        <5>. QED  BY <3>1, <4>2, <5>1 DEF Exclusive, ClaimedInOrder
      <4>5. ops[o].attempt = 0 \/ ~(ops[o].attempt > 0)
        BY <4>3, <4>4, ConstantsAssumption DEF Exclusive, ClaimedInOrder, Ops
      <4>6. s = "RETRYABLE_NOT_APPLIED"
        BY <2>3, <4>5 DEF Reconciliation, Exclusive, ReconcilersLate
      <4>7. ops'[o].status = s /\ \A p \in Ops : p # o => ops'[p] = ops[p]
        BY <3>1 DEF Records
      <4>8. plan'.status = "CONFLICT"
        <5>1. ops'[c].status = "CONFLICT"
          BY <4>2, <4>4, <4>7
        <5>2. \A p \in Ops : ops'[p].status # "UNKNOWN" /\ ops'[p].status \notin Success
          BY <4>3, <4>6, <4>7 DEF Applied, Success
        <5>. QED  BY <3>1, <5>1, <5>2, AggregateOfRows
      <4>9. Steady
        BY <3>1, <4>6, <4>7 DEF Shown, EvidenceOf, Success
      <4>. QED  BY <1>2, <2>1, <4>1, <4>8, <4>9
    <3>. QED  BY <3>3, <3>4
  <2>. QED  BY <1>3, <1>5, <2>1, <2>2, <2>3, ReconcilerStoreSteps
<1>6. CASE Tick \/ (\E req \in Requests : Drop(req)) \/ UNCHANGED vars
  BY <1>3, <1>6 DEF Tick, Drop, vars, store, backend
<1>7. ASSUME UNCHANGED store, NEW o \in Ops, reached' = reached \cup {o}
      PROVE  [Outcome!Next]_Outcome!outcomeVars
  <2>1. Steady /\ VerdictOf(plan'.status) = VerdictOf(plan.status)
    BY <1>7 DEF store, Shown
  <2>2. Outcome!Happen
    BY <1>1, <1>7, <2>1 DEF Outcome!Happen
  <2>. QED  BY <2>2 DEF Outcome!Next
<1>8. ASSUME NEW req \in Requests, Land(req) PROVE [Outcome!Next]_Outcome!outcomeVars
  <2>1. req[2] \in Ops
    BY DEF Requests
  <2>. QED  BY <1>7, <1>8, <2>1 DEF Land
<1>9. ASSUME NEW o \in Ops, ForeignWrite(o) PROVE [Outcome!Next]_Outcome!outcomeVars
  BY <1>3, <1>7, <1>9 DEF ForeignWrite
<1>. QED  BY <1>4, <1>5, <1>6, <1>8, <1>9 DEF Next

\* The confirmed write protocol keeps the promise of PlanOutcome, for any plan
\* and any number of confirm calls and reconcilers: success is shown only for
\* what happened, no evidence is revised, and a plan is decided once, from the
\* evidence of all its operations.
THEOREM ConfirmKeepsPromise ==
  ASSUME Resumers = {}
  PROVE  Spec => ImplementsPlanOutcome
<1>1. Init => Outcome!Init
  <2>. SUFFICES ASSUME Init PROVE Outcome!Init
    OBVIOUS
  <2>1. /\ \A o \in Ops : EvidenceOf(ops[o].status) = "open"
        /\ VerdictOf(plan.status) = "open" /\ reached = {}
    BY DEF Init, EvidenceOf, VerdictOf, Terminal, Success
  <2>. QED  BY <2>1 DEF Outcome!Init
<1>2. TypeOK /\ TypeOK' /\ Agreement /\ Evidence /\ Exclusive /\ [Next]_vars
      => [Outcome!Next]_Outcome!outcomeVars
  BY StepImplements
<1>. QED  BY <1>1, <1>2, TypeCorrect, AgreementInvariant, EvidenceInvariant,
             ExclusiveInvariant, PTL DEF Spec, ImplementsPlanOutcome, Outcome!Spec
=============================================================================
