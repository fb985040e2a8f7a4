--------------------------- MODULE WriteExecution ---------------------------
(***************************************************************************)
(* One durable write plan of the HugeGraph MCP server: its rows in the     *)
(* SQLite plan store, the calls that execute it (WriteExecutor.confirm and *)
(* .resume), the calls that reconcile it (WriteReconciler.reconcile), and  *)
(* the graph backend they write to and read from.                          *)
(*                                                                         *)
(* Every transaction of the store is one atomic action (BEGIN IMMEDIATE);  *)
(* every read outside a transaction, every backend request, every reply    *)
(* and the passing of time is an action of its own, so the calls           *)
(* interleave at every point where another process can run.  A call that   *)
(* raises, returns or dies simply takes no further step.                   *)
(***************************************************************************)
EXTENDS Naturals, FiniteSets, WriteAdapters

CONSTANTS
  NumOps,        \* operations of the plan, claimed in order 1..NumOps
  KindOf,        \* kind of each operation
  Registered,    \* kinds that have a registered write adapter
  Confirmers,    \* calls of WriteExecutor.confirm, each made once
  Resumers,      \* calls of WriteExecutor.resume, each made once
  Reconcilers,   \* callers of WriteReconciler.reconcile, each calls repeatedly
  NoOwner,       \* NULL in the columns lease_owner and attempt_token
  LeaseSeconds,  \* length of an execution lease
  ExpiresAt,     \* expires_at of the plan
  MaxClock,      \* bound: time stops here
  ForeignStates  \* states in which other clients may leave an object

Ops == 1 .. NumOps
Executors == Confirmers \cup Resumers
Requests == Executors \X Ops

ASSUME ConstantsAssumption ==
  /\ NumOps \in Nat \ {0}
  /\ KindOf \in [Ops -> Kinds]
  /\ Registered \subseteq Kinds
  /\ Confirmers \cap Resumers = {}
  /\ NoOwner \notin Executors
  /\ LeaseSeconds \in Nat \ {0}
  /\ ExpiresAt \in Nat
  /\ MaxClock \in Nat
  /\ ForeignStates \subseteq ObjectStates

VARIABLES
  clock,       \* int(time.time())
  plan,        \* the row of write_plans: status, lease_owner, lease_expires_at
  ops,         \* the rows of write_operations
  exec,        \* local state of each confirm or resume call
  recon,       \* local state of each reconcile caller
  graph,       \* state of the object each operation is about
  inflight,    \* requests sent to the backend and not yet settled
  landed,      \* requests that the backend committed
  dispatched,  \* history: every request ever sent
  reached      \* history: operations whose object has been "desired" once

store == <<plan, ops>>
backend == <<graph, inflight, landed, dispatched, reached>>
vars == <<clock, plan, ops, exec, recon, graph, inflight, landed, dispatched, reached>>

----------------------------------------------------------------------------
(* Local states                                                            *)

\* Outcomes an adapter or a reconciler can record for one operation.
Receipts == ApplyStatus \ {"PARTIAL", "LEGACY_UNKNOWN"}

\* lease_expires_at is 0 for NULL: the store only asks whether it is <= now.
NoLease == 0

ExecPCs == {"idle", "expire", "resume_ops", "claim", "load", "claim_op",
            "adapter", "write", "await", "verify", "record", "done"}

IdleExec == [pc |-> "idle", t |-> 0, seen |-> "ISSUED", todo |-> {}, op |-> 1,
             attempt |-> 0, reply |-> "ok", receipt |-> "UNKNOWN"]

ReconPCs == {"idle", "plan_status", "snapshot", "each", "record"}

IdleRecon == [pc |-> "idle", fresh |-> {}, open |-> {}, claimed |-> {},
              verdict |-> "UNKNOWN"]

\* The call is over: it returned, raised or died.
Finish(e) == exec' = [exec EXCEPT ![e] = [IdleExec EXCEPT !.pc = "done"]]
Leave(r) == recon' = [recon EXCEPT ![r] = IdleRecon]

\* o is the earliest operation of S: the loops follow the plan's order.
IsFirst(o, S) == o \in S /\ \A p \in S : o <= p

\* Bound: leases are taken only while time can still pass them.
WithinHorizon == clock + LeaseSeconds < MaxClock

StatusesOf(rows) == {rows[o].status : o \in Ops}

\* save_plan has committed; the preview saw every object as expected.
Init ==
  /\ clock = 0
  /\ plan = [status |-> "ISSUED", owner |-> NoOwner, lease |-> NoLease]
  /\ ops = [o \in Ops |-> [status |-> "ISSUED", attempt |-> 0,
                           token |-> NoOwner, reconciled |-> FALSE]]
  /\ exec = [e \in Executors |-> IdleExec]
  /\ recon = [r \in Reconcilers |-> IdleRecon]
  /\ graph = [o \in Ops |-> "expected"]
  /\ inflight = {}
  /\ landed = {}
  /\ dispatched = {}
  /\ reached = {}

----------------------------------------------------------------------------
(* WriteExecutor.confirm and WriteExecutor.resume up to the plan claim     *)

\* confirm: get_plan, the expiry check and the adapter check.
ConfirmRead(e) ==
  /\ e \in Confirmers
  /\ exec[e].pc = "idle"
  /\ IF clock > ExpiresAt /\ plan.status = "ISSUED"
     THEN exec' = [exec EXCEPT ![e].pc = "expire"]
     ELSE IF \A o \in Ops : KindOf[o] \in Registered
          THEN exec' = [exec EXCEPT ![e] = [@ EXCEPT !.pc = "claim", !.t = clock]]
          ELSE Finish(e)
  /\ UNCHANGED <<clock, store, recon, backend>>

\* transition_plan(ISSUED -> EXPIRED): a compare-and-set that raises when it
\* lost the race.
ConfirmExpire(e) ==
  /\ exec[e].pc = "expire"
  /\ plan' = IF plan.status = "ISSUED" THEN [plan EXCEPT !.status = "EXPIRED"]
                                       ELSE plan
  /\ Finish(e)
  /\ UNCHANGED <<clock, ops, recon, backend>>

\* resume reads the plan row first ...
ResumeReadPlan(e) ==
  /\ e \in Resumers
  /\ exec[e].pc = "idle"
  /\ exec' = [exec EXCEPT ![e] = [@ EXCEPT !.pc = "resume_ops",
                                           !.seen = plan.status, !.t = clock]]
  /\ UNCHANGED <<clock, store, recon, backend>>

\* ... and the operation rows in a second read, then decides on both.
ResumeReadOps(e) ==
  /\ exec[e].pc = "resume_ops"
  /\ LET retryable == {o \in Ops : ops[o].status = "RETRYABLE_NOT_APPLIED"}
     IN  IF /\ exec[e].seen \in {"RETRYABLE_NOT_APPLIED", "PARTIAL"}
            /\ retryable # {}
            /\ StatusesOf(ops) \subseteq Success \cup {"RETRYABLE_NOT_APPLIED"}
            /\ \A o \in retryable : ops[o].reconciled
            /\ \A o \in retryable : KindOf[o] \in Registered
         THEN exec' = [exec EXCEPT ![e].pc = "claim"]
         ELSE Finish(e)
  /\ UNCHANGED <<clock, store, recon, backend>>

\* Mutant: an expired execution is taken over without reconciliation.
claim_plan_takeover(e) ==
  /\ exec[e].pc = "claim"
  /\ WithinHorizon
  /\ IF plan.status \in {"ISSUED", "EXECUTING"} /\ plan.lease <= clock
     THEN /\ plan' = [status |-> "EXECUTING", owner |-> e, lease |-> clock + LeaseSeconds]
          /\ exec' = [exec EXCEPT ![e].pc = "load"]
     ELSE /\ Finish(e)
          /\ UNCHANGED plan
  /\ UNCHANGED <<clock, ops, recon, backend>>

\* claim_plan.  Its clock reading precedes BEGIN IMMEDIATE, so it is any
\* instant since the call's previous read.
claim_plan(e) ==
  /\ exec[e].pc = "claim"
  /\ WithinHorizon
  /\ \E now \in exec[e].t .. clock :
       LET claimable == IF e \in Resumers
                        THEN {"ISSUED", "RETRYABLE_NOT_APPLIED", "PARTIAL"}
                        ELSE {"ISSUED"}
       IN  IF plan.status \in claimable /\ plan.lease <= now
           THEN /\ plan' = [status |-> IF plan.status = "PARTIAL" THEN "PARTIAL"
                                                                  ELSE "EXECUTING",
                            owner |-> e, lease |-> now + LeaseSeconds]
                /\ exec' = [exec EXCEPT ![e].pc = "load"]
           ELSE /\ Finish(e)
                /\ UNCHANGED plan
  /\ UNCHANGED <<clock, ops, recon, backend>>

\* _execute_claimed reads the rows again and selects what it may claim.
LoadOperations(e) ==
  /\ exec[e].pc = "load"
  /\ LET claimable == IF e \in Resumers THEN "RETRYABLE_NOT_APPLIED" ELSE "ISSUED"
         todo == {o \in Ops : ops[o].status = claimable}
     IN  IF todo = {} THEN Finish(e)
         ELSE exec' = [exec EXCEPT ![e] = [@ EXCEPT !.pc = "claim_op", !.todo = todo]]
  /\ UNCHANGED <<clock, store, recon, backend>>

----------------------------------------------------------------------------
(* _execute_claimed: one operation at a time                               *)

\* claim_operation: fenced by the live lease, which it renews.
claim_operation(e) ==
  /\ exec[e].pc = "claim_op"
  /\ WithinHorizon
  /\ \E o \in exec[e].todo :
       /\ IsFirst(o, exec[e].todo)
       /\ IF /\ plan.lease > clock
             /\ plan.owner = e
             /\ ops[o].status \in {"ISSUED", "RETRYABLE_NOT_APPLIED"}
          THEN /\ ops' = [ops EXCEPT ![o] = [status |-> "EXECUTING",
                                             attempt |-> ops[o].attempt + 1,
                                             token |-> e, reconciled |-> FALSE]]
               /\ plan' = [plan EXCEPT !.lease = clock + LeaseSeconds]
               /\ exec' = [exec EXCEPT ![e] =
                             [@ EXCEPT !.pc = "adapter", !.op = o,
                                       !.todo = exec[e].todo \ {o},
                                       !.attempt = ops[o].attempt + 1]]
          ELSE /\ Finish(e)
               /\ UNCHANGED store
  /\ UNCHANGED <<clock, recon, backend>>

\* The adapter returned (or raised, which is an UNKNOWN receipt).
Receive(e, receipt) ==
  exec' = [exec EXCEPT ![e] = [@ EXCEPT !.pc = "record", !.receipt = receipt]]

\* Target or principal changed, or the capability guard refuses: rejected
\* before anything is read.
AdapterReject(e) ==
  /\ exec[e].pc = "adapter"
  /\ Receive(e, "REJECTED")
  /\ UNCHANGED <<clock, store, recon, backend>>

\* The read before the write; a failed read raises.
AdapterReadBefore(e) ==
  /\ exec[e].pc = "adapter"
  /\ \/ Receive(e, "UNKNOWN")
     \/ LET decision == before_write(graph[exec[e].op])
        IN  IF decision = "WRITE"
            THEN exec' = [exec EXCEPT ![e].pc = "write"]
            ELSE Receive(e, decision)
  /\ UNCHANGED <<clock, store, recon, backend>>

\* The write request leaves the server ...
AdapterWrite(e) ==
  /\ exec[e].pc = "write"
  /\ dispatched' = dispatched \cup {<<e, exec[e].op>>}
  /\ inflight' = inflight \cup {<<e, exec[e].op>>}
  /\ exec' = [exec EXCEPT ![e].pc = "await"]
  /\ UNCHANGED <<clock, store, recon, graph, landed, reached>>

\* ... or the client library refuses it before sending.
AdapterWriteRefused(e) ==
  /\ exec[e].pc = "write"
  /\ exec' = [exec EXCEPT ![e] = [@ EXCEPT !.pc = "verify", !.reply = "refused"]]
  /\ UNCHANGED <<clock, store, recon, backend>>

\* The reply: a success or a definite error only once the request is
\* settled, a timeout or a broken connection at any time.
AdapterReply(e) ==
  /\ exec[e].pc = "await"
  /\ \E reply \in Replies :
       /\ reply = "ok" => <<e, exec[e].op>> \in landed
       /\ reply = "refused" => <<e, exec[e].op>> \notin inflight \cup landed
       /\ exec' = [exec EXCEPT ![e] = [@ EXCEPT !.pc = "verify", !.reply = reply]]
  /\ UNCHANGED <<clock, store, recon, backend>>

\* The read after the write; a failed read raises.
AdapterVerify(e) ==
  /\ exec[e].pc = "verify"
  /\ \/ Receive(e, "UNKNOWN")
     \/ Receive(e, after_write(KindOf[exec[e].op], exec[e].reply, graph[exec[e].op]))
  /\ UNCHANGED <<clock, store, recon, backend>>

\* record_receipt: the receipt must carry the row's attempt and token and the
\* executor must still hold the live lease; a transition outside the table
\* rolls the whole receipt back.
Fenced(e) ==
  LET row == ops[exec[e].op]
  IN  /\ row.status = "EXECUTING"
      /\ row.attempt = exec[e].attempt
      /\ row.token = e
      /\ plan.owner = e
      /\ plan.lease > clock

record_receipt(e) ==
  /\ exec[e].pc = "record"
  /\ LET receipt == exec[e].receipt
         rows == [ops EXCEPT ![exec[e].op].status = receipt]
         aggregate == aggregate_persisted_statuses(StatusesOf(rows))
         keepLease == receipt \in Success /\ aggregate \in {"EXECUTING", "PARTIAL"}
     IN  IF Fenced(e) /\ (plan.status = aggregate \/ can_transition(plan.status, aggregate))
         THEN /\ ops' = rows
              /\ plan' = [status |-> aggregate,
                          owner |-> IF keepLease THEN plan.owner ELSE NoOwner,
                          lease |-> IF keepLease THEN plan.lease ELSE NoLease]
              /\ IF receipt \in Success /\ exec[e].todo # {}
                 THEN exec' = [exec EXCEPT ![e].pc = "claim_op"]
                 ELSE Finish(e)
         ELSE /\ Finish(e)
              /\ UNCHANGED store
  /\ UNCHANGED <<clock, recon, backend>>

\* The process running the call dies.
ExecutorCrash(e) ==
  /\ exec[e].pc \notin {"idle", "done"}
  /\ Finish(e)
  /\ UNCHANGED <<clock, store, recon, backend>>

----------------------------------------------------------------------------
(* WriteReconciler.reconcile                                               *)

\* Mutant: the expired lease is cleared but the plan stays EXECUTING.
begin_reconcile_keeps_status(r) ==
  /\ recon[r].pc = "idle"
  /\ plan.lease <= clock
  /\ plan' = [plan EXCEPT !.owner = NoOwner, !.lease = NoLease]
  /\ recon' = [recon EXCEPT ![r].pc = "plan_status"]
  /\ UNCHANGED <<clock, ops, exec, backend>>

\* begin_reconcile: refused while the lease is live, fences an expired one.
begin_reconcile(r) ==
  /\ recon[r].pc = "idle"
  /\ plan.lease <= clock
  /\ plan' = CASE plan.status = "EXECUTING" ->
                    [status |-> "UNKNOWN", owner |-> NoOwner, lease |-> NoLease]
               [] plan.status \in {"UNKNOWN", "LEGACY_UNKNOWN", "PARTIAL"} ->
                    [plan EXCEPT !.owner = NoOwner, !.lease = NoLease]
               [] OTHER -> plan
  /\ recon' = [recon EXCEPT ![r].pc = "plan_status"]
  /\ UNCHANGED <<clock, ops, exec, backend>>

\* The plan row is read back outside the transaction.
ReconcileReadPlan(r) ==
  /\ recon[r].pc = "plan_status"
  /\ IF plan.status \in {"UNKNOWN", "LEGACY_UNKNOWN", "PARTIAL"}
     THEN recon' = [recon EXCEPT ![r].pc = "snapshot"]
     ELSE Leave(r)
  /\ UNCHANGED <<clock, store, exec, backend>>

\* One read of the operation rows serves the whole loop.
ReconcileSnapshot(r) ==
  /\ recon[r].pc = "snapshot"
  /\ LET fresh == {o \in Ops : ops[o].status = "ISSUED"}
         open == {o \in Ops : ops[o].status \in {"EXECUTING", "UNKNOWN", "LEGACY_UNKNOWN"}}
     IN  IF fresh \cup open = {} THEN Leave(r)
         ELSE recon' = [recon EXCEPT ![r] =
                [pc |-> "each", fresh |-> fresh, open |-> open,
                 claimed |-> {o \in open : ops[o].attempt > 0},
                 verdict |-> "UNKNOWN"]]
  /\ UNCHANGED <<clock, store, exec, backend>>

\* The reader observes the object of an unresolved operation.
ReconcileObserve(r) ==
  /\ recon[r].pc = "each"
  /\ \E o \in recon[r].open :
       /\ IsFirst(o, recon[r].fresh \cup recon[r].open)
       /\ recon' = [recon EXCEPT ![r] =
            [@ EXCEPT !.pc = "record",
                      !.verdict = reconcile_verdict(graph[o], o \in recon[r].claimed)]]
  /\ UNCHANGED <<clock, store, exec, backend>>

\* Mutant: the row's current status is not checked before it is overwritten.
record_reconciliation_overwrites(r, o, status) ==
  LET rows == [ops EXCEPT ![o] = [@ EXCEPT !.status = status, !.reconciled = TRUE]]
  IN  /\ IsFirst(o, recon[r].fresh \cup recon[r].open)
      /\ plan.owner = NoOwner
      /\ ops' = rows
      /\ plan' = [plan EXCEPT !.status = aggregate_persisted_statuses(StatusesOf(rows))]
      /\ Leave(r)

\* record_reconciliation_receipt: needs a fenced executor and a row that is
\* still reconcilable; the plan's status is overwritten by the aggregate.
record_reconciliation_receipt(r, o, status) ==
  LET todo == (recon[r].fresh \cup recon[r].open) \ {o}
      rows == [ops EXCEPT ![o] = [@ EXCEPT !.status = status, !.reconciled = TRUE]]
  IN  /\ IsFirst(o, recon[r].fresh \cup recon[r].open)
      /\ IF /\ plan.owner = NoOwner
            /\ ops[o].status \in {"ISSUED", "EXECUTING", "UNKNOWN", "LEGACY_UNKNOWN"}
         THEN /\ ops' = rows
              /\ plan' = [plan EXCEPT !.status =
                            aggregate_persisted_statuses(StatusesOf(rows))]
              /\ IF todo = {} THEN Leave(r)
                 ELSE recon' = [recon EXCEPT ![r] =
                        [pc |-> "each", fresh |-> recon[r].fresh \ {o},
                         open |-> recon[r].open \ {o},
                         claimed |-> recon[r].claimed \ {o}, verdict |-> "UNKNOWN"]]
         ELSE /\ Leave(r)
              /\ UNCHANGED store

\* An operation the snapshot shows as never claimed is authorised for replay.
ReconcileRecordFresh(r) ==
  /\ recon[r].pc = "each"
  /\ \E o \in recon[r].fresh :
       record_reconciliation_receipt(r, o, "RETRYABLE_NOT_APPLIED")
  /\ UNCHANGED <<clock, exec, backend>>

ReconcileRecordObserved(r) ==
  /\ recon[r].pc = "record"
  /\ \E o \in recon[r].open :
       record_reconciliation_receipt(r, o, recon[r].verdict)
  /\ UNCHANGED <<clock, exec, backend>>

\* The call ends early: a reader raised or the process died.
ReconcilerCrash(r) ==
  /\ recon[r].pc # "idle"
  /\ Leave(r)
  /\ UNCHANGED <<clock, store, exec, backend>>

----------------------------------------------------------------------------
(* Environment: time, the graph server and its other clients               *)

Tick ==
  /\ clock < MaxClock
  /\ clock' = clock + 1
  /\ UNCHANGED <<store, exec, recon, backend>>

\* A request commits, also long after its caller gave up.  The server refuses
\* to create a schema object over a different one.
Land(req) ==
  /\ req \in inflight
  /\ KindOf[req[2]] = "CREATE_SCHEMA" => graph[req[2]] # "other"
  /\ inflight' = inflight \ {req}
  /\ landed' = landed \cup {req}
  /\ graph' = [graph EXCEPT ![req[2]] = "desired"]
  /\ reached' = reached \cup {req[2]}
  /\ UNCHANGED <<clock, store, exec, recon, dispatched>>

\* A request is lost or refused without effect.
Drop(req) ==
  /\ req \in inflight
  /\ inflight' = inflight \ {req}
  /\ UNCHANGED <<clock, store, exec, recon, graph, landed, dispatched, reached>>

\* Another client of the graph changes the object.
ForeignWrite(o) ==
  /\ \E s \in ForeignStates \ {graph[o]} :
       /\ graph' = [graph EXCEPT ![o] = s]
       /\ reached' = IF s = "desired" THEN reached \cup {o} ELSE reached
  /\ UNCHANGED <<clock, store, exec, recon, inflight, landed, dispatched>>

----------------------------------------------------------------------------
Execute(e) ==
  \/ ConfirmRead(e) \/ ConfirmExpire(e)
  \/ ResumeReadPlan(e) \/ ResumeReadOps(e)
  \/ claim_plan(e) \/ LoadOperations(e) \/ claim_operation(e)
  \/ AdapterReject(e) \/ AdapterReadBefore(e)
  \/ AdapterWrite(e) \/ AdapterWriteRefused(e) \/ AdapterReply(e) \/ AdapterVerify(e)
  \/ record_receipt(e)
  \/ ExecutorCrash(e)

Reconcile(r) ==
  \/ begin_reconcile(r) \/ ReconcileReadPlan(r) \/ ReconcileSnapshot(r)
  \/ ReconcileObserve(r) \/ ReconcileRecordFresh(r) \/ ReconcileRecordObserved(r)

Next ==
  \/ \E e \in Executors : Execute(e)
  \/ \E r \in Reconcilers : Reconcile(r) \/ ReconcilerCrash(r)
  \/ Tick
  \/ \E req \in Requests : Land(req) \/ Drop(req)
  \/ \E o \in Ops : ForeignWrite(o)

Spec == Init /\ [][Next]_vars

\* Fairness: time passes, the caller of reconcile keeps calling it, and a call
\* that is made again and again gets through.  Nothing is assumed of the
\* executors, which may die, nor of the backend's requests, which may hang.
FairSpec ==
  /\ Spec
  /\ WF_vars(Tick)
  /\ \A r \in Reconcilers :
       /\ WF_vars(begin_reconcile(r))
       /\ SF_vars(ReconcileReadPlan(r))
       /\ SF_vars(ReconcileSnapshot(r))
       /\ SF_vars(ReconcileObserve(r))
       /\ SF_vars(ReconcileRecordFresh(r))
       /\ SF_vars(ReconcileRecordObserved(r))

----------------------------------------------------------------------------
(* Properties                                                              *)

\* The type of every variable: rows hold statuses of the enumerations, tokens
\* and lease owners are calls, and locals are what the calls really read.
TypeOK ==
  /\ clock \in Nat
  /\ plan \in [status : PlanStatus, owner : Executors \cup {NoOwner}, lease : Nat]
  /\ ops \in [Ops -> [status : Receipts \cup {"ISSUED", "EXECUTING"}, attempt : Nat,
                      token : Executors \cup {NoOwner}, reconciled : BOOLEAN]]
  /\ exec \in [Executors -> [pc : ExecPCs, t : Nat, seen : PlanStatus,
                             todo : SUBSET Ops, op : Ops, attempt : Nat,
                             reply : Replies, receipt : Receipts]]
  /\ recon \in [Reconcilers -> [pc : ReconPCs, fresh : SUBSET Ops,
                                open : SUBSET Ops, claimed : SUBSET Ops,
                                verdict : Receipts]]
  /\ graph \in [Ops -> ObjectStates]
  /\ inflight \subseteq Requests
  /\ landed \subseteq Requests
  /\ dispatched \subseteq Requests
  /\ reached \subseteq Ops

\* What get_write_status reports for the plan.
ReportedStatus ==
  IF \/ plan.status = "LEGACY_UNKNOWN"
     \/ plan.status = "EXECUTING" /\ plan.lease <= clock
  THEN "UNKNOWN" ELSE plan.status

Applied(o) == ops[o].status \in Success

\* "APPLIED means all operations are proven applied": an operation recorded as
\* successful, by an executor or by a reconciler, has had its desired state in
\* the graph at some moment.
AppliedWasReached == \A o \in Ops : Applied(o) => o \in reached

\* The reported status and the operations' evidence agree: success is reported
\* exactly when every operation succeeded, PARTIAL exactly when some did and
\* some did not, and a plan that is still ISSUED or EXPIRED was never touched.
ReportedAgreesWithOperations ==
  /\ ReportedStatus \in Success <=> \A o \in Ops : Applied(o)
  /\ ReportedStatus = "PARTIAL" <=>
       (\E o \in Ops : Applied(o)) /\ (\E o \in Ops : ~Applied(o))
  /\ ReportedStatus \in {"ISSUED", "EXPIRED"} =>
       \A o \in Ops : ops[o].attempt = 0 /\ ops[o].status = "ISSUED"

\* "The backend proves no mutation occurred": no request of a plan reported as
\* REJECTED is committed or may still commit.
RejectedMeansUntouched ==
  ReportedStatus = "REJECTED" => landed = {} /\ inflight = {}

\* "Only never-claimed operations are safe to authorize for replay": no request
\* was ever sent for an operation that resume may claim.
ReplayOnlyNeverDispatched ==
  \A o \in Ops : ops[o].status = "RETRYABLE_NOT_APPLIED" =>
    \A e \in Executors : <<e, o>> \notin dispatched

\* The backend receives at most one request for an operation, whatever calls
\* race, crash, retry or reconcile.
DispatchedAtMostOnce ==
  \A o \in Ops : \A e, f \in Executors :
    <<e, o>> \in dispatched /\ <<f, o>> \in dispatched => e = f

\* An operation is sent only after every earlier operation of the plan, which
\* it may depend on, succeeded.
DispatchedInOrder ==
  \A o, p \in Ops : \A e \in Executors :
    <<e, o>> \in dispatched /\ p < o => Applied(p)

\* A request that may still commit is never recorded as conflicting: "claimed
\* requests remain unknown while an in-flight commit cannot be excluded".
InFlightStaysUnknown ==
  \A req \in inflight : ops[req[2]].status \in {"EXECUTING", "UNKNOWN"} \cup Success

\* A plan whose executor died does not stay EXECUTING.
ExecutionEnds == plan.status = "EXECUTING" ~> plan.status # "EXECUTING"

\* A claimed operation whose effect stays in the graph does not stay unresolved.
LastingEffectIsReported ==
  \A o \in Ops :
    <>[](graph[o] = "desired") =>
      <>[](ops[o].status \notin {"EXECUTING", "UNKNOWN"})
=============================================================================
