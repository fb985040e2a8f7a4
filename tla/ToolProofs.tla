------------------------------ MODULE ToolProofs ------------------------------
(***************************************************************************)
(* Proofs about the two tools that change a graph through the MCP server:  *)
(* GraphChange, for any graph, plan and payload and any interference of    *)
(* other clients; and SchemaTool, for every batch, every schema and every  *)
(* number of calls and of other clients' steps.                            *)
(***************************************************************************)
EXTENDS GraphChange, SchemaTool, FiniteSetTheorems, WellFoundedInduction, TLAPS

----------------------------------------------------------------------------
(* Deletes: the invariant                                                  *)

DeleteSteps == {"start", "issued", "exists", "write", "verify", "record", "done"}

\* The fields of a delete call.
DeleteFields(d) ==
  /\ d = [plan |-> d.plan, targets |-> d.targets, results |-> d.results, failed |-> d.failed,
          removed |-> d.removed, step |-> d.step, recorded |-> d.recorded, answer |-> d.answer]
  /\ d.plan \in DeletePlans /\ d.step \in DeleteSteps
  /\ d.results \in Seq(Success) /\ d.failed \in {"none", "UNKNOWN", "REJECTED"}
  /\ d.recorded \in {"none"} \union PlanStatus

\* Until the dry run nothing is bound; then every operation is bound to an edge.
Bound(d) ==
  /\ d.step \in {"start", "issued"} => d.results = <<>> /\ d.removed = {}
  /\ d.step \notin {"start", "done"} =>
       d.targets \in [DOMAIN d.plan -> GraphEdges]
  /\ d.step \in {"exists", "write", "verify"} => Len(d.results) < Len(d.plan)
  /\ d.step \notin {"record", "done"} => d.failed = "none"
  /\ d.step # "done" => d.recorded = "none" /\ d.answer = "none"

\* Operation i of the call stands for a removal: it was applied, or its outcome is not
\* decided yet or unknown.
Accounts(d, i) ==
  \/ i \in DOMAIN d.results /\ d.results[i] = "APPLIED"
  \/ i = Len(d.results) + 1 /\ d.step = "verify"
  \/ i = Len(d.results) + 1 /\ d.step = "record" /\ d.failed = "UNKNOWN"

\* What was removed is gone, was the target of an operation, and is accounted for.
Accounted(d, edges) ==
  /\ d.removed \cap edges = {}
  /\ \A e \in d.removed : \E i \in DOMAIN d.targets : d.targets[i] = e
  /\ d.step # "done" =>
       \A e \in d.removed : \E i \in DOMAIN d.targets : d.targets[i] = e /\ Accounts(d, i)
  /\ d.removed # {} =>
       {d.answer, d.recorded} \cap {"REJECTED", "ALREADY_APPLIED", "CONFLICT"} = {}

DeleteInv ==
  /\ graph_edges \subseteq GraphEdges
  /\ DeleteFields(delete_call) /\ Bound(delete_call) /\ Accounted(delete_call, graph_edges)

----------------------------------------------------------------------------
(* Deletes: the steps                                                      *)

\* Initially nothing has been done.
LEMMA DeleteInitOK == ChangeInit => DeleteInv
BY DEF ChangeInit, DeleteInv, NewDelete, DeleteFields, Bound, Accounted, DeleteSteps, PlanStatus, Success

\* The dry run binds every operation to the one edge it selects.
LEMMA DryRunOK == DeleteInv /\ delete_dry_run => DeleteInv'
<1> SUFFICES ASSUME DeleteInv, delete_dry_run PROVE DeleteInv'
  OBVIOUS
<1> DEFINE d == delete_call
<1>0. /\ d.step = "start" /\ d.results = <<>> /\ d.removed = {} /\ d.failed = "none"
      /\ d.recorded = "none" /\ graph_edges' = graph_edges
  BY DEF DeleteInv, Bound, delete_dry_run
<1>1. CASE \E a \in {"CONNECTION_FAILED", "INVALID_GRAPH_DATA", "PREVIEW"} :
             delete_call' = [delete_call EXCEPT !.step = "done", !.answer = a]
  BY <1>0, <1>1 DEF DeleteInv, DeleteFields, Bound, Accounted, DeleteSteps, PlanStatus, Success
<1>2. CASE /\ DeletePlanValid(d.plan) /\ \A i \in DOMAIN d.plan : d.plan[i].op = "delete_edge"
           /\ delete_call' = [delete_call EXCEPT
                !.step = "issued",
                !.targets = [i \in DOMAIN d.plan |-> CHOOSE e \in edge_match_query(d.plan[i]) : TRUE]]
  <2>1. ASSUME NEW i \in DOMAIN d.plan
        PROVE  (CHOOSE e \in edge_match_query(d.plan[i]) : TRUE) \in GraphEdges
    <3>1. Cardinality(edge_match_query(d.plan[i])) = 1
      BY <1>2 DEF DeletePlanValid
    <3>2. edge_match_query(d.plan[i]) # {}
      BY <3>1, FS_EmptySet
    <3>. QED  BY <3>2 DEF edge_match_query, DeleteInv
  <2> DEFINE t == [i \in DOMAIN d.plan |-> CHOOSE e \in edge_match_query(d.plan[i]) : TRUE]
  <2>2. t \in [DOMAIN d.plan -> GraphEdges]
    BY <2>1
  <2> HIDE DEF t
  <2>3. delete_call' = [d EXCEPT !.step = "issued", !.targets = t]
    BY <1>2 DEF t
  <2>4. /\ delete_call'.plan = d.plan /\ delete_call'.targets = t /\ delete_call'.step = "issued"
        /\ delete_call'.results = d.results /\ delete_call'.failed = d.failed
        /\ delete_call'.removed = d.removed /\ delete_call'.recorded = d.recorded
        /\ delete_call'.answer = d.answer
    BY <2>3 DEF DeleteInv, DeleteFields
  <2>5. DeleteFields(delete_call)'
    BY <2>3, <2>4 DEF DeleteInv, DeleteFields, DeleteSteps
  <2>6. Bound(delete_call)'
    BY <1>0, <2>2, <2>4 DEF DeleteInv, Bound
  <2>7. Accounted(delete_call, graph_edges)'
    BY <1>0, <2>4 DEF DeleteInv, Bound, Accounted
  <2>. QED  BY <1>0, <2>5, <2>6, <2>7 DEF DeleteInv
<1>. QED  BY <1>1, <1>2 DEF delete_dry_run

\* A confirmation starts the execution or refuses it.
LEMMA ConfirmOK == DeleteInv /\ delete_confirm => DeleteInv'
<1> SUFFICES ASSUME DeleteInv, delete_confirm PROVE DeleteInv'
  OBVIOUS
<1> DEFINE d == delete_call
<1>0. /\ d.step = "issued" /\ d.results = <<>> /\ d.removed = {} /\ d.failed = "none"
      /\ d.recorded = "none" /\ graph_edges' = graph_edges
  BY DEF DeleteInv, Bound, delete_confirm
<1>1. d.plan # <<>> => Len(d.results) < Len(d.plan)
  <2>1. d.plan \in Seq(Range(d.plan))
    BY ChangeAssumption DEF DeleteInv, DeleteFields
  <2>. QED  BY <1>0, <2>1
<1>2. CASE delete_call' = [delete_call EXCEPT !.step = IF delete_call.plan = <<>> THEN "record" ELSE "exists"]
  BY <1>0, <1>1, <1>2 DEF DeleteInv, DeleteFields, Bound, Accounted, DeleteSteps
<1>3. CASE \E a \in {"READONLY_VIOLATION", "CONNECTION_FAILED", "PLAN_HASH_MISMATCH"} :
             delete_call' = [delete_call EXCEPT !.step = "done", !.answer = a]
  BY <1>0, <1>3 DEF DeleteInv, DeleteFields, Bound, Accounted, DeleteSteps
<1>. QED  BY <1>2, <1>3 DEF delete_confirm

\* The operation under way is one of the plan, bound to an edge.
LEMMA OperationBound ==
  ASSUME DeleteInv, delete_call.step \in {"exists", "write", "verify"}
  PROVE  /\ Len(delete_call.results) \in Nat /\ Operation = Len(delete_call.results) + 1
         /\ DOMAIN delete_call.results = 1 .. Len(delete_call.results)
         /\ DOMAIN delete_call.targets = 1 .. Len(delete_call.plan)
         /\ Operation \in DOMAIN delete_call.targets /\ delete_call.targets[Operation] \in GraphEdges
<1>1. delete_call.plan \in Seq(Range(delete_call.plan))
  BY ChangeAssumption DEF DeleteInv, DeleteFields
<1>. QED  BY <1>1 DEF DeleteInv, DeleteFields, Bound, Operation

\* What the read or the delete of a target finds is the target itself.
LEMMA TargetFound ==
  ASSUME DeleteInv, delete_call.step \in {"exists", "write", "verify"}
  PROVE  delete_target_query(Operation) = {delete_call.targets[Operation]} \cap graph_edges
<1>1. delete_call.targets[Operation] \in GraphEdges /\ graph_edges \subseteq GraphEdges
  BY OperationBound DEF DeleteInv
<1>. QED  BY <1>1, ChangeAssumption DEF delete_target_query

\* A failure is recorded as the operation's status.
LEMMA FailureOK ==
  ASSUME DeleteInv, delete_call.step \in {"exists", "write", "verify"}, graph_edges' = graph_edges,
         NEW s \in {"UNKNOWN", "REJECTED"}, execution_failure(s),
         s = "REJECTED" /\ delete_call.step = "verify" => delete_call.targets[Operation] \in graph_edges
  PROVE  DeleteInv'
<1> DEFINE d == delete_call
<1>0. /\ delete_call' = [d EXCEPT !.failed = s, !.step = "record"]
      /\ delete_call'.plan = d.plan /\ delete_call'.targets = d.targets /\ delete_call'.step = "record"
      /\ delete_call'.results = d.results /\ delete_call'.failed = s
      /\ delete_call'.removed = d.removed /\ delete_call'.recorded = d.recorded
      /\ delete_call'.answer = d.answer
  BY DEF execution_failure, DeleteInv, DeleteFields
<1>1. DeleteFields(delete_call)'
  BY <1>0 DEF DeleteInv, DeleteFields, DeleteSteps
<1>2. Bound(delete_call)'
  BY <1>0 DEF DeleteInv, Bound
<1>3. ASSUME NEW e \in d.removed
      PROVE  \E i \in DOMAIN d.targets : d.targets[i] = e /\ Accounts(delete_call', i)
  <2>1. PICK i \in DOMAIN d.targets : d.targets[i] = e /\ Accounts(d, i)
    BY DEF DeleteInv, Accounted
  <2>2. e \notin graph_edges
    BY DEF DeleteInv, Accounted
  <2>. QED  BY <1>0, <2>1, <2>2, OperationBound DEF Accounts
<1>4. Accounted(delete_call, graph_edges)'
  BY <1>0, <1>3 DEF DeleteInv, Accounted
<1>. QED  BY <1>1, <1>2, <1>4 DEF DeleteInv

\* A result is appended, and the next operation starts or the plan is complete.
LEMMA ResultOK ==
  ASSUME DeleteInv, delete_call.step \in {"exists", "verify"}, graph_edges' = graph_edges,
         NEW s \in Success, Result(s), delete_call.step = "verify" => s = "APPLIED"
  PROVE  DeleteInv'
<1> DEFINE d == delete_call
           n == IF Operation = Len(d.plan) THEN "record" ELSE "exists"
<1>0. /\ delete_call' = [d EXCEPT !.results = Append(d.results, s), !.step = n]
      /\ delete_call'.plan = d.plan /\ delete_call'.targets = d.targets /\ delete_call'.step = n
      /\ delete_call'.results = Append(d.results, s) /\ delete_call'.failed = d.failed
      /\ delete_call'.removed = d.removed /\ delete_call'.recorded = d.recorded
      /\ delete_call'.answer = d.answer
  BY DEF Result, DeleteInv, DeleteFields
<1>1. /\ d.results \in Seq(Success) /\ Append(d.results, s) \in Seq(Success)
      /\ Len(Append(d.results, s)) = Len(d.results) + 1
      /\ \A i \in 1 .. Len(d.results) : Append(d.results, s)[i] = d.results[i]
      /\ Append(d.results, s)[Len(d.results) + 1] = s
  BY DEF DeleteInv, DeleteFields
<1>2. DeleteFields(delete_call)'
  BY <1>0, <1>1 DEF DeleteInv, DeleteFields, DeleteSteps
<1>3. Len(d.results) + 1 # Len(d.plan) => Len(d.results) + 1 < Len(d.plan)
  <2>1. d.plan \in Seq(Range(d.plan))
    BY ChangeAssumption DEF DeleteInv, DeleteFields
  <2>. QED  BY <1>1, <2>1 DEF DeleteInv, Bound
<1>4. Bound(delete_call)'
  BY <1>0, <1>1, <1>3, OperationBound DEF DeleteInv, Bound
<1>5. ASSUME NEW e \in d.removed
      PROVE  \E i \in DOMAIN d.targets : d.targets[i] = e /\ Accounts(delete_call', i)
  <2>1. PICK i \in DOMAIN d.targets : d.targets[i] = e /\ Accounts(d, i)
    BY DEF DeleteInv, Accounted
  <2>2. DOMAIN Append(d.results, s) = 1 .. Len(d.results) + 1
    BY <1>1
  <2>. QED  BY <1>0, <1>1, <2>1, <2>2, OperationBound DEF Accounts
<1>6. Accounted(delete_call, graph_edges)'
  BY <1>0, <1>5 DEF DeleteInv, Accounted
<1>. QED  BY <1>2, <1>4, <1>6 DEF DeleteInv

\* The read before the write.
LEMMA ExistsOK == DeleteInv /\ execute_exists => DeleteInv'
<1> SUFFICES ASSUME DeleteInv, execute_exists PROVE DeleteInv'
  OBVIOUS
<1>0. delete_call.step = "exists" /\ graph_edges' = graph_edges
  BY DEF execute_exists
<1>1. CASE execution_failure("REJECTED")
  BY <1>0, <1>1, FailureOK
<1>2. CASE Result("ALREADY_APPLIED")
  BY <1>0, <1>2, ResultOK DEF Success
<1>3. CASE delete_call' = [delete_call EXCEPT !.step = "write"]
  BY <1>0, <1>3, OperationBound DEF DeleteInv, DeleteFields, Bound, Accounted, Accounts, DeleteSteps
<1>. QED  BY <1>1, <1>2, <1>3 DEF execute_exists

\* The delete: a removal is accounted for from the step that makes it.
LEMMA WriteOK == DeleteInv /\ execute_write => DeleteInv'
<1> SUFFICES ASSUME DeleteInv, execute_write PROVE DeleteInv'
  OBVIOUS
<1> DEFINE d == delete_call
           found == delete_target_query(Operation)
<1>0. d.step = "write"
  BY DEF execute_write
<1>1. CASE /\ graph_edges' = graph_edges \ found
           /\ \E lost \in BOOLEAN :
                delete_call' = [delete_call EXCEPT
                  !.removed = @ \union found, !.step = IF lost THEN "record" ELSE "verify",
                  !.failed = IF lost THEN "UNKNOWN" ELSE @]
  <2>1. PICK lost \in BOOLEAN :
          delete_call' = [d EXCEPT
            !.removed = d.removed \union found, !.step = IF lost THEN "record" ELSE "verify",
            !.failed = IF lost THEN "UNKNOWN" ELSE d.failed]
    BY <1>1
  <2>2. found = {d.targets[Operation]} \cap graph_edges
    BY <1>0, TargetFound
  <2>3. /\ delete_call'.plan = d.plan /\ delete_call'.targets = d.targets
        /\ delete_call'.step = IF lost THEN "record" ELSE "verify"
        /\ delete_call'.results = d.results /\ delete_call'.failed = IF lost THEN "UNKNOWN" ELSE d.failed
        /\ delete_call'.removed = d.removed \union found /\ delete_call'.recorded = d.recorded
        /\ delete_call'.answer = d.answer
    BY <2>1 DEF DeleteInv, DeleteFields
  <2>4. DeleteFields(delete_call)'
    BY <2>1, <2>3 DEF DeleteInv, DeleteFields, DeleteSteps
  <2>5. Bound(delete_call)'
    BY <1>0, <2>3 DEF DeleteInv, Bound
  <2>6. ASSUME NEW e \in d.removed \union found
        PROVE  \E i \in DOMAIN d.targets : d.targets[i] = e /\ Accounts(delete_call', i)
    <3>1. CASE e \in d.removed
      <4>1. PICK i \in DOMAIN d.targets : d.targets[i] = e /\ Accounts(d, i)
        BY <1>0, <3>1 DEF DeleteInv, Accounted
      <4>. QED  BY <1>0, <2>3, <4>1 DEF Accounts
    <3>2. CASE e \in found
      <4>1. d.targets[Operation] = e /\ Operation \in DOMAIN d.targets
        BY <1>0, <2>2, <3>2, OperationBound
      <4>2. Accounts(delete_call', Operation)
        BY <1>0, <2>3 DEF Accounts, Operation
      <4>. QED  BY <4>1, <4>2
    <3>. QED  BY <3>1, <3>2
  <2>7. Accounted(delete_call, graph_edges)'
    <3>1. delete_call'.answer = "none" /\ delete_call'.recorded = "none"
      BY <1>0, <2>3 DEF DeleteInv, Bound
    <3>2. delete_call'.removed \cap graph_edges' = {}
      BY <1>1, <2>3 DEF DeleteInv, Accounted
    <3>. QED  BY <2>3, <2>6, <3>1, <3>2 DEF Accounted
  <2>8. graph_edges' \subseteq GraphEdges
    BY <1>1 DEF DeleteInv
  <2>. QED  BY <2>4, <2>5, <2>7, <2>8 DEF DeleteInv
<1>2. CASE (execution_failure("UNKNOWN") \/ execution_failure("REJECTED")) /\ graph_edges' = graph_edges
  BY <1>0, <1>2, FailureOK
<1>3. CASE delete_call' = [delete_call EXCEPT !.step = "verify"] /\ graph_edges' = graph_edges
  BY <1>0, <1>3, OperationBound DEF DeleteInv, DeleteFields, Bound, Accounted, Accounts, DeleteSteps
<1>. QED  BY <1>1, <1>2, <1>3 DEF execute_write

\* The read after the write: a target that is there again was not removed for good.
LEMMA VerifyOK == DeleteInv /\ execute_verify => DeleteInv'
<1> SUFFICES ASSUME DeleteInv, execute_verify PROVE DeleteInv'
  OBVIOUS
<1>0. delete_call.step = "verify" /\ graph_edges' = graph_edges
  BY DEF execute_verify
<1>1. CASE execution_failure("UNKNOWN")
  BY <1>0, <1>1, FailureOK
<1>2. CASE delete_target_query(Operation) = {} /\ Result("APPLIED")
  BY <1>0, <1>2, ResultOK DEF Success
<1>3. CASE delete_target_query(Operation) # {} /\ execution_failure("REJECTED")
  <2>1. delete_call.targets[Operation] \in graph_edges
    BY <1>0, <1>3, TargetFound
  <2>. QED  BY <1>0, <1>3, <2>1, FailureOK
<1>. QED  BY <1>1, <1>2, <1>3 DEF execute_verify

\* The aggregate over a removal that is accounted for does not say that nothing was deleted.
LEMMA AggregateAccounts ==
  ASSUME NEW S \in SUBSET ApplyStatus, "APPLIED" \in S \/ "UNKNOWN" \in S
  PROVE  aggregate_plan_status(S) \in {"APPLIED", "PARTIAL", "UNKNOWN"}
BY DEF aggregate_plan_status, ApplyStatus, Success

\* The outcome is recorded.
LEMMA RecordOK == DeleteInv /\ delete_record => DeleteInv'
<1> SUFFICES ASSUME DeleteInv, delete_record PROVE DeleteInv'
  OBVIOUS
<1> DEFINE d == delete_call
           status == normalize_execute_result(d)
<1>0. d.step = "record" /\ graph_edges' = graph_edges
  BY DEF delete_record
<1>1. operation_statuses(d) \in SUBSET ApplyStatus
  BY DEF DeleteInv, DeleteFields, operation_statuses, Success, ApplyStatus
<1>2. status \in PlanStatus
  BY <1>1 DEF normalize_execute_result, aggregate_plan_status, PlanStatus, ApplyStatus, Success
<1>3. d.removed # {} => status \in {"APPLIED", "PARTIAL", "UNKNOWN"}
  <2> SUFFICES ASSUME d.removed # {} PROVE status \in {"APPLIED", "PARTIAL", "UNKNOWN"}
    OBVIOUS
  <2>1. PICK i \in DOMAIN d.targets : Accounts(d, i)
    BY <1>0 DEF DeleteInv, Accounted
  <2>2. "APPLIED" \in operation_statuses(d) \/ "UNKNOWN" \in operation_statuses(d)
    BY <1>0, <2>1 DEF Accounts, operation_statuses
  <2>. QED  BY <1>1, <2>2, AggregateAccounts DEF normalize_execute_result
<1> HIDE DEF status
<1>4. PICK saved \in BOOLEAN :
        delete_call' = [d EXCEPT
          !.step = "done", !.recorded = IF saved THEN status ELSE d.recorded,
          !.answer = IF status \in Success /\ ~saved THEN "WRITE_OUTCOME_UNKNOWN" ELSE status]
  BY DEF delete_record, status
<1>. QED
  BY <1>0, <1>2, <1>3, <1>4 DEF DeleteInv, DeleteFields, Bound, Accounted, DeleteSteps, PlanStatus

\* Another client changes an edge; one that it creates again does not count as removed.
LEMMA ForeignOK == DeleteInv /\ ForeignEdge => DeleteInv'
<1> SUFFICES ASSUME DeleteInv, ForeignEdge PROVE DeleteInv'
  OBVIOUS
<1> DEFINE d == delete_call
<1>1. PICK e \in GraphEdges :
        /\ graph_edges' = IF e \in graph_edges THEN graph_edges \ {e} ELSE graph_edges \union {e}
        /\ delete_call' = [d EXCEPT !.removed = d.removed \ {e}]
  BY DEF ForeignEdge
<1>2. /\ delete_call'.plan = d.plan /\ delete_call'.targets = d.targets /\ delete_call'.step = d.step
      /\ delete_call'.results = d.results /\ delete_call'.failed = d.failed
      /\ delete_call'.removed = d.removed \ {e} /\ delete_call'.recorded = d.recorded
      /\ delete_call'.answer = d.answer
  BY <1>1 DEF DeleteInv, DeleteFields
<1>3. DeleteFields(delete_call)'
  BY <1>1, <1>2 DEF DeleteInv, DeleteFields
<1>4. Bound(delete_call)'
  BY <1>2 DEF DeleteInv, Bound
<1>5. \A i : Accounts(delete_call', i) <=> Accounts(d, i)
  BY <1>2 DEF Accounts
<1>6. Accounted(delete_call, graph_edges)'
  BY <1>1, <1>2, <1>5 DEF DeleteInv, Accounted
<1>. QED  BY <1>1, <1>3, <1>4, <1>6 DEF DeleteInv

\* Whatever other clients do, a delete removes only edges that were previewed, and what it
\* removed is never reported as if nothing had been deleted (execute_graph_change_plan).
THEOREM DeletesAreReported == ChangeSpec => []DeletionsPreviewedAndReported
<1>1. DeleteInv /\ [ChangeNext]_changeVars => DeleteInv'
  <2> SUFFICES ASSUME DeleteInv, [ChangeNext]_changeVars PROVE DeleteInv'
    OBVIOUS
  <2>1. CASE UNCHANGED <<graph_edges, delete_call>>
    BY <2>1 DEF DeleteInv
  <2>2. CASE DeleteNext
    BY <2>2, DryRunOK, ConfirmOK, ExistsOK, WriteOK, VerifyOK, RecordOK, ForeignOK DEF DeleteNext
  <2>3. CASE ImportNext \/ mutate_graph_properties \/ UNCHANGED changeVars
    BY <2>1, <2>3 DEF ImportNext, manage_graph_data_import, mutate_graph_properties, changeVars
  <2>. QED  BY <2>2, <2>3 DEF ChangeNext
<1>2. DeleteInv => DeletionsPreviewedAndReported
  BY DEF DeleteInv, Accounted, DeletionsPreviewedAndReported
<1>. QED  BY <1>1, <1>2, DeleteInitOK, PTL DEF ChangeSpec

----------------------------------------------------------------------------
(* Imports: an edge runs between the vertices its endpoints name           *)

\* Two members of a set of at most one member are the same.
LEMMA AtMostOne ==
  ASSUME NEW S, IsFiniteSet(S), Cardinality(S) <= 1, NEW a \in S, NEW b \in S
  PROVE  a = b
<1> SUFFICES ASSUME a # b PROVE FALSE
  OBVIOUS
<1>1. IsFiniteSet(S \ {a}) /\ Cardinality(S \ {a}) = Cardinality(S) - 1
  BY FS_RemoveElement
<1>2. Cardinality(S \ {a}) \in Nat /\ Cardinality(S) \in Nat
  BY <1>1, FS_CardinalityType
<1>3. Cardinality(S \ {a}) = 0
  BY <1>1, <1>2
<1>4. S \ {a} = {}
  BY <1>1, <1>3, FS_EmptySet
<1>. QED  BY <1>4

\* The positions of a list are finitely many.
LEMMA Positions ==
  ASSUME NEW vs, vs \in Seq(Range(vs)), NEW S, S \subseteq DOMAIN vs
  PROVE  IsFiniteSet(S)
<1>1. Len(vs) \in Nat /\ DOMAIN vs = 1 .. Len(vs)
  OBVIOUS
<1>2. IsFiniteSet(1 .. Len(vs))
  BY <1>1, FS_Interval
<1>. QED  BY <1>1, <1>2, FS_Subset

\* A set of positions that is not empty has a last one.
LEMMA LastPosition ==
  ASSUME NEW n \in Nat, NEW S, S \subseteq 1 .. n, S # {}
  PROVE  Max(S) \in S
<1> DEFINE T == {n - i : i \in S}
<1>1. T \subseteq Nat /\ T # {}
  <2>1. \A i \in S : n - i \in Nat
    OBVIOUS
  <2>. QED  BY <2>1
<1> DEFINE R == OpToRel(<, Nat)
<1>2. \A x, y \in Nat : <<y, x>> \in R <=> y < x
  BY DEF OpToRel
<1>3. \E x \in T : \A y \in T : ~ (<<y, x>> \in R)
  <2> HIDE DEF T, R
  <2>1. IsWellFoundedOn(R, Nat)
    BY NatLessThanWellFounded DEF R
  <2>. QED  BY <1>1, <2>1, WFMin
<1> HIDE DEF R
<1>4. PICK x \in T : \A y \in T : ~ (y < x)
  <2> HIDE DEF T, R
  <2>. QED  BY <1>1, <1>2, <1>3
<1>5. PICK i \in S : x = n - i
  BY <1>4
<1>6. \A j \in S : i >= j
  BY <1>4, <1>5
<1>. QED  BY <1>5, <1>6 DEF Max

\* What a dictionary of the mapping holds for a text is the id, or key, of a vertex of the
\* payload that is written so, and it holds one when there is such a vertex.
LEMMA LookedUp ==
  \A vs, label, text :
    vs \in Seq(Range(vs)) =>
      /\ LET id == vertex_ids_by_label(vs, label, text) IN
         IF Present(id) THEN \E i \in WrittenAs(vs, "id", label, text) : id = vs[i].id
         ELSE WrittenAs(vs, "id", label, text) = {}
      /\ HasPrimaryKey(label) =>
           LET pk == vertex_primary_key_values(vs, label, text) IN
           IF Present(pk) THEN \E i \in WrittenAs(vs, "pk", label, text) : pk = vs[i].pk
           ELSE WrittenAs(vs, "pk", label, text) = {}
<1> SUFFICES ASSUME NEW vs, NEW label, NEW text, vs \in Seq(Range(vs))
             PROVE  /\ LET id == vertex_ids_by_label(vs, label, text) IN
                       IF Present(id) THEN \E i \in WrittenAs(vs, "id", label, text) : id = vs[i].id
                       ELSE WrittenAs(vs, "id", label, text) = {}
                    /\ HasPrimaryKey(label) =>
                         LET pk == vertex_primary_key_values(vs, label, text) IN
                         IF Present(pk) THEN \E i \in WrittenAs(vs, "pk", label, text) : pk = vs[i].pk
                         ELSE WrittenAs(vs, "pk", label, text) = {}
  OBVIOUS
<1>1. ~Present(Absent)
  BY DEF Present, Absent, Str
<1>2. ASSUME NEW field
      PROVE  /\ WrittenAs(vs, field, label, text) \subseteq 1 .. Len(vs)
             /\ \A i \in WrittenAs(vs, field, label, text) : Present(vs[i][field])
  BY DEF WrittenAs
<1>3. ASSUME NEW field, WrittenAs(vs, field, label, text) # {}
      PROVE  Max(WrittenAs(vs, field, label, text)) \in WrittenAs(vs, field, label, text)
  <2>1. Len(vs) \in Nat
    OBVIOUS
  <2>. QED  BY <1>2, <1>3, <2>1, LastPosition
<1>4. LET id == vertex_ids_by_label(vs, label, text) IN
      IF Present(id) THEN \E i \in WrittenAs(vs, "id", label, text) : id = vs[i].id
      ELSE WrittenAs(vs, "id", label, text) = {}
  <2> DEFINE at == WrittenAs(vs, "id", label, text)
  <2>1. vertex_ids_by_label(vs, label, text) = IF at = {} THEN Absent ELSE vs[Max(at)].id
    BY DEF vertex_ids_by_label
  <2>2. at # {} => Max(at) \in at /\ Present(vs[Max(at)].id)
    BY <1>2, <1>3
  <2> HIDE DEF at
  <2>3. IF Present(vertex_ids_by_label(vs, label, text))
        THEN \E i \in at : vertex_ids_by_label(vs, label, text) = vs[i].id ELSE at = {}
    BY <1>1, <2>1, <2>2
  <2>. QED  BY <2>3 DEF at
<1>5. ASSUME HasPrimaryKey(label)
      PROVE  LET pk == vertex_primary_key_values(vs, label, text) IN
             IF Present(pk) THEN \E i \in WrittenAs(vs, "pk", label, text) : pk = vs[i].pk
             ELSE WrittenAs(vs, "pk", label, text) = {}
  <2> DEFINE at == WrittenAs(vs, "pk", label, text)
  <2>1. vertex_primary_key_values(vs, label, text) = IF at = {} THEN Absent ELSE vs[Max(at)].pk
    BY <1>5 DEF vertex_primary_key_values
  <2>2. at # {} => Max(at) \in at /\ Present(vs[Max(at)].pk)
    BY <1>2, <1>3
  <2> HIDE DEF at
  <2>3. IF Present(vertex_primary_key_values(vs, label, text))
        THEN \E i \in at : vertex_primary_key_values(vs, label, text) = vs[i].pk ELSE at = {}
    BY <1>1, <2>1, <2>2
  <2>. QED  BY <2>3 DEF at
<1>. QED  BY <1>4, <1>5

\* A vertex satisfies a selector, and no vertex of the payload but it does.
TheOne(vs, label, m, v) ==
  /\ v.label = label /\ planned_vertex_matches(v, m)
  /\ \A j \in planned_endpoint_indexes(vs, label, m) : v = vs[j]

\* A selector that one vertex satisfies, planned or live, is compiled to it.
LEMMA CompiledIsTheOne ==
  \A vs, label, m :
    vs \in Seq(Range(vs)) /\ append_edge_endpoint_counts(vs, label, m)
      => TheOne(vs, label, m, CompiledEndpoint(vs, label, m))
<1> SUFFICES ASSUME NEW vs, vs \in Seq(Range(vs)), NEW label, NEW m,
                    append_edge_endpoint_counts(vs, label, m)
             PROVE  TheOne(vs, label, m, CompiledEndpoint(vs, label, m))
  OBVIOUS
<1>v. PICK v : v = CompiledEndpoint(vs, label, m)
  OBVIOUS
<1> DEFINE P == planned_endpoint_indexes(vs, label, m)
           L == source_vertex_match_query(label, m)
           C == {vs[i] : i \in P} \union L
<1>1. IsFiniteSet(P) /\ IsFiniteSet(L)
  <2>1. IsFiniteSet(1 .. Len(vs)) /\ P \subseteq 1 .. Len(vs)
    BY FS_Interval DEF planned_endpoint_indexes
  <2>2. L \subseteq LiveVertices /\ IsFiniteSet(LiveVertices)
    BY ChangeAssumption DEF source_vertex_match_query
  <2>. QED  BY <2>1, <2>2, FS_Subset
<1>2. Cardinality(P) \in Nat /\ Cardinality(L) \in Nat /\ Cardinality(P) + Cardinality(L) = 1
  BY <1>1, FS_CardinalityType DEF append_edge_endpoint_counts
<1>3. v \in C
  <2>1. Cardinality(P) # 0 \/ Cardinality(L) # 0
    BY <1>2
  <2>2. P # {} \/ L # {}
    BY <2>1, FS_EmptySet
  <2>3. C # {}
    BY <2>2
  <2>. QED  BY <1>v, <2>3 DEF CompiledEndpoint
<1>4. v.label = label /\ planned_vertex_matches(v, m)
  BY <1>3 DEF planned_endpoint_indexes, source_vertex_match_query
<1>5. ASSUME NEW j \in P
      PROVE  v = vs[j]
  <2>1. Cardinality(P) # 0
    BY <1>1, FS_EmptySet
  <2>2. Cardinality(P) <= 1 /\ Cardinality(L) = 0
    BY <1>2, <2>1
  <2>3. L = {}
    BY <1>1, <2>2, FS_EmptySet
  <2>4. \A k \in P : k = j
    BY <1>1, <2>2, AtMostOne
  <2>. QED  BY <1>3, <2>3, <2>4
<1>. QED  BY <1>v, <1>4, <1>5 DEF TheOne

\* An endpoint has passed validation and the dry run, and no other value is written like it.
Checked(vs, label, e) ==
  /\ vs \in Seq(Range(vs))
  /\ e.form \in {"scalar", "object", "backend", "mixed"}
  /\ \A i \in DOMAIN vs : Present(vs[i].pk) => HasPrimaryKey(vs[i].label)
  /\ validate_payload_endpoint(vs, label, e)
  /\ append_edge_endpoint_counts(vs, label, edge_endpoint_match(vs, label, e))
  /\ ~MistakenByText(vs, label, e)

\* A value that no id or key of the payload is mistaken for is looked up as it is.
LEMMA SameValue ==
  \A vs, label, e, n :
    vs \in Seq(Range(vs)) /\ e.form # "object" /\ ~MistakenByText(vs, label, e) /\ n \in {e.id, Tail_(e.id)} =>
      /\ LET id == vertex_ids_by_label(vs, label, n.text) IN
         IF Present(id)
         THEN id.value = n.value /\ \E i \in DOMAIN vs : vs[i].label = label /\ vs[i].id.value = n.value
         ELSE \A i \in DOMAIN vs : vs[i].label = label /\ Present(vs[i].id) => vs[i].id.value # n.value
      /\ HasPrimaryKey(label) =>
           LET pk == vertex_primary_key_values(vs, label, n.text) IN
           IF Present(pk) THEN pk.value = n.value
           ELSE \A i \in DOMAIN vs : vs[i].label = label /\ Present(vs[i].pk) => vs[i].pk.value # n.value
<1> SUFFICES ASSUME NEW vs, NEW label, NEW e, NEW n, vs \in Seq(Range(vs)), e.form # "object",
                    ~MistakenByText(vs, label, e), n \in {e.id, Tail_(e.id)}
             PROVE  /\ LET id == vertex_ids_by_label(vs, label, n.text) IN
                       IF Present(id)
                       THEN id.value = n.value /\ \E i \in DOMAIN vs : vs[i].label = label /\ vs[i].id.value = n.value
                       ELSE \A i \in DOMAIN vs : vs[i].label = label /\ Present(vs[i].id) => vs[i].id.value # n.value
                    /\ HasPrimaryKey(label) =>
                         LET pk == vertex_primary_key_values(vs, label, n.text) IN
                         IF Present(pk) THEN pk.value = n.value
                         ELSE \A i \in DOMAIN vs : vs[i].label = label /\ Present(vs[i].pk) => vs[i].pk.value # n.value
  OBVIOUS
<1>1. \A j \in DOMAIN vs : vs[j].label = label =>
        /\ (vs[j].id.text = n.text) <=> (vs[j].id.value = n.value)
        /\ (vs[j].pk.text = n.text) <=> (vs[j].pk.value = n.value)
  BY DEF MistakenByText
<1>2. \A i : /\ i \in WrittenAs(vs, "id", label, n.text) <=>
                  i \in DOMAIN vs /\ vs[i].label = label /\ Present(vs[i].id) /\ vs[i].id.text = n.text
             /\ i \in WrittenAs(vs, "pk", label, n.text) <=>
                  i \in DOMAIN vs /\ vs[i].label = label /\ Present(vs[i].pk) /\ vs[i].pk.text = n.text
  BY DEF WrittenAs
<1>i. PICK id : id = vertex_ids_by_label(vs, label, n.text)
  OBVIOUS
<1>k. PICK pk : pk = vertex_primary_key_values(vs, label, n.text)
  OBVIOUS
<1>3. /\ IF Present(id) THEN \E i \in WrittenAs(vs, "id", label, n.text) : id = vs[i].id
         ELSE WrittenAs(vs, "id", label, n.text) = {}
      /\ HasPrimaryKey(label) =>
           IF Present(pk) THEN \E i \in WrittenAs(vs, "pk", label, n.text) : pk = vs[i].pk
           ELSE WrittenAs(vs, "pk", label, n.text) = {}
  BY <1>i, <1>k, LookedUp
<1>4. IF Present(id)
      THEN id.value = n.value /\ \E i \in DOMAIN vs : vs[i].label = label /\ vs[i].id.value = n.value
      ELSE \A i \in DOMAIN vs : vs[i].label = label /\ Present(vs[i].id) => vs[i].id.value # n.value
  BY <1>1, <1>2, <1>3
<1>5. HasPrimaryKey(label) =>
        IF Present(pk) THEN pk.value = n.value
        ELSE \A i \in DOMAIN vs : vs[i].label = label /\ Present(vs[i].pk) => vs[i].pk.value # n.value
  BY <1>1, <1>2, <1>3
<1>. QED  BY <1>i, <1>k, <1>4, <1>5

\* An endpoint that passes validation is compiled to a vertex it names, and no other
\* vertex of the payload has the name, unless it is a primary key with a colon in it.
LEMMA EndpointAsNamed ==
  \A vs, label, e :
    Checked(vs, label, e)
      => NamesOnly(vs, label, e, CompiledEndpoint(vs, label, edge_endpoint_match(vs, label, e)))
<1> SUFFICES ASSUME NEW vs, NEW label, NEW e, Checked(vs, label, e)
             PROVE  NamesOnly(vs, label, e, CompiledEndpoint(vs, label, edge_endpoint_match(vs, label, e)))
  BY Zenon
<1>c. /\ vs \in Seq(Range(vs))
      /\ e.form \in {"scalar", "object", "backend", "mixed"}
      /\ \A i \in DOMAIN vs : Present(vs[i].pk) => HasPrimaryKey(vs[i].label)
      /\ validate_payload_endpoint(vs, label, e)
      /\ append_edge_endpoint_counts(vs, label, edge_endpoint_match(vs, label, e))
      /\ ~MistakenByText(vs, label, e)
  BY DEF Checked
<1>m. PICK m : m = edge_endpoint_match(vs, label, e)
  OBVIOUS
<1>v. PICK v : v = CompiledEndpoint(vs, label, m)
  OBVIOUS
<1> SUFFICES NamesOnly(vs, label, e, v)
  BY <1>m, <1>v
<1> DEFINE P == planned_endpoint_indexes(vs, label, m)
<1>0. /\ v.label = label /\ planned_vertex_matches(v, m)
      /\ \A j \in P : v = vs[j]
  <2>1. append_edge_endpoint_counts(vs, label, m)
    BY <1>c, <1>m
  <2>2. TheOne(vs, label, m, v)
    BY <1>c, <1>v, <2>1, CompiledIsTheOne
  <2>. QED  BY <2>2 DEF TheOne
<1>1. m = edge_endpoint_match(vs, label, e) /\ e.form # "mixed"
  BY <1>c, <1>m DEF validate_payload_endpoint
<1>a. ~Present(Absent)
  BY DEF Present, Absent, Str
<1>2. CASE e.form = "object"
  <2>1. m = Match(e.id, e.pk)
    BY <1>1, <1>2 DEF edge_endpoint_match
  <2>2. ASSUME NEW j \in DOMAIN vs, Names(e, label, vs[j]) PROVE j \in P
    BY <1>0, <1>2, <2>1, <2>2 DEF Names, planned_endpoint_indexes, planned_vertex_matches, Match
  <2>. QED  BY <1>0, <1>2, <2>1, <2>2 DEF NamesOnly, Names, planned_vertex_matches, Match
\* What the lookups of an endpoint that is no object give.
<1>i. PICK id : id = vertex_ids_by_label(vs, label, e.id.text)
  OBVIOUS
<1>k. PICK key : /\ key[1] = vertex_primary_key_values(vs, label, e.id.text)
                 /\ key[2] = vertex_primary_key_values(vs, label, Tail_(e.id).text)
  <2> WITNESS <<vertex_primary_key_values(vs, label, e.id.text),
                vertex_primary_key_values(vs, label, Tail_(e.id).text)>>
  <2>. QED  OBVIOUS
<1>s. ASSUME e.form # "object"
      PROVE  /\ IF Present(id)
                THEN /\ id.value = e.id.value
                     /\ \E i \in DOMAIN vs : vs[i].label = label /\ vs[i].id.value = e.id.value
                ELSE \A i \in DOMAIN vs : vs[i].label = label /\ Present(vs[i].id) => vs[i].id.value # e.id.value
             /\ HasPrimaryKey(label) =>
                  /\ IF Present(key[1]) THEN key[1].value = e.id.value
                     ELSE \A i \in DOMAIN vs :
                            vs[i].label = label /\ Present(vs[i].pk) => vs[i].pk.value # e.id.value
                  /\ Present(key[2]) => key[2].value = Tail_(e.id).value
  BY <1>c, <1>i, <1>k, <1>s, SameValue
\* The vertices that a selector by an id alone, or a key alone, has.
<1>p. \A x : /\ m = Match(x, Absent) /\ Present(x) =>
                  v.id.value = x.value /\ \A j \in DOMAIN vs : vs[j].label = label /\ vs[j].id.value = x.value => vs[j] = v
             /\ m = Match(Absent, x) /\ Present(x) =>
                  v.pk.value = x.value /\ \A j \in DOMAIN vs : vs[j].label = label /\ vs[j].pk.value = x.value => vs[j] = v
             /\ m = Match(x, Absent) \/ m = Match(Absent, x) => Present(x)
  BY <1>0, <1>a DEF planned_endpoint_indexes, planned_vertex_matches, Match
<1>3. CASE e.form = "backend"
  <2>1. PICK x \in {id, e.id} : m = Match(x, Absent) /\ (x = id => Present(id) \/ x = e.id)
    BY <1>1, <1>3, <1>i DEF edge_endpoint_match
  <2>2. x.value = e.id.value
    BY <1>3, <1>s, <2>1
  <2>3. v.id.value = e.id.value /\ \A j \in DOMAIN vs : vs[j].label = label /\ vs[j].id.value = e.id.value => vs[j] = v
    BY <1>p, <2>1, <2>2
  <2>. QED  BY <1>0, <1>3, <2>3 DEF NamesOnly, Names
<1>4. CASE e.form = "scalar"
  <2>0. \A w : Names(e, label, w) <=>
          /\ w.label = label
          /\ w.id.value = e.id.value \/ (Present(w.pk) /\ w.pk.value \in {e.id.value, Tail_(e.id).value})
    BY <1>4 DEF Names
  <2>t. Tail_(e.id).value # e.id.value => HasColon(e.id)
    BY DEF Tail_
  <2>1. CASE Present(id)
    <3>1. m = Match(id, Absent)
      BY <1>1, <1>4, <1>i, <2>1 DEF edge_endpoint_match
    <3>2. id.value = e.id.value /\ Present(e.id)
      BY <1>4, <1>s, <2>1 DEF Present
    <3>3. PICK i \in DOMAIN vs : vs[i].label = label /\ vs[i].id.value = e.id.value
      BY <1>4, <1>s, <2>1
    <3>4. /\ v.id.value = e.id.value /\ v = vs[i]
          /\ \A j \in DOMAIN vs : vs[j].label = label /\ vs[j].id.value = e.id.value => vs[j] = v
      BY <1>p, <2>1, <3>1, <3>2, <3>3
    <3>6. ASSUME NEW j \in DOMAIN vs, vs[j].label = label, Present(vs[j].pk), vs[j].pk.value = Tail_(e.id).value
          PROVE  vs[j] = v
      <4> DEFINE S == {k \in DOMAIN vs : vertex_identities(vs[k]) \cap endpoint_identities(label, e) # {}}
      <4>1. HasPrimaryKey(label)
        BY <1>c, <3>6
      <4>2. <<label, "pk", vs[j].pk.value>> \in vertex_identities(vs[j]) \cap endpoint_identities(label, e)
        BY <1>4, <3>6, <4>1 DEF vertex_identities, endpoint_identities
      <4>3. <<label, "id", e.id.value>> \in vertex_identities(vs[i]) \cap endpoint_identities(label, e)
        BY <1>4, <3>2, <3>3 DEF vertex_identities, endpoint_identities, Present
      <4>4. i \in S /\ j \in S
        BY <4>2, <4>3
      <4>5. IsFiniteSet(S) /\ Cardinality(S) <= 1
        <5>1. S \subseteq DOMAIN vs
          OBVIOUS
        <5>2. Cardinality(S) <= 1
          BY <1>c DEF validate_payload_endpoint
        <5> HIDE DEF S
        <5>. QED  BY <1>c, <5>1, <5>2, Positions
      <4> HIDE DEF S
      <4>. QED  BY <3>4, <4>4, <4>5, AtMostOne
    <3>7. ASSUME NEW j \in DOMAIN vs, Names(e, label, vs[j]), vs[j] # v
          PROVE  HasColon(e.id) /\ e.id.value = vs[j].pk.value
      BY <2>0, <2>t, <3>4, <3>6, <3>7
    <3>8. Names(e, label, v)
      BY <1>0, <2>0, <3>4
    <3>. QED  BY <1>4, <3>7, <3>8 DEF NamesOnly
  <2>2. CASE ~Present(id) /\ HasPrimaryKey(label)
    <3> DEFINE x == IF Present(key[1]) THEN key[1] ELSE IF Present(key[2]) THEN key[2] ELSE e.id
    <3>1. m = Match(Absent, x)
      BY <1>1, <1>4, <1>i, <1>k, <2>2 DEF edge_endpoint_match
    <3>2. x.value \in {e.id.value, Tail_(e.id).value}
      BY <1>4, <1>s, <2>2
    <3> HIDE DEF x
    <3>3. /\ Present(x) /\ v.pk.value = x.value /\ Present(v.pk)
          /\ \A j \in DOMAIN vs : vs[j].label = label /\ vs[j].pk.value = x.value => vs[j] = v
      BY <1>p, <3>1 DEF Present
    <3>4. ASSUME NEW j \in DOMAIN vs, vs[j].label = label PROVE vs[j].id.value # e.id.value
      <4>1. Present(e.id)
        BY <3>2, <3>3, ChangeAssumption DEF Present, Tail_, HasColon
      <4>. QED  BY <1>4, <1>s, <2>2, <3>4, <4>1 DEF Present
    <3>7. ASSUME NEW j \in DOMAIN vs, Names(e, label, vs[j]), vs[j] # v
          PROVE  HasColon(e.id) /\ e.id.value \in {vs[j].pk.value, v.pk.value}
      <4>1. /\ vs[j].label = label /\ vs[j].pk.value \in {e.id.value, Tail_(e.id).value}
            /\ vs[j].pk.value # v.pk.value
        BY <2>0, <3>3, <3>4, <3>7
      <4>2. v.pk.value \in {e.id.value, Tail_(e.id).value}
        BY <3>2, <3>3
      <4>. QED  BY <2>t, <4>1, <4>2
    <3>8. Names(e, label, v)
      BY <1>0, <2>0, <3>2, <3>3
    <3>. QED  BY <1>4, <3>7, <3>8 DEF NamesOnly
  <2>3. CASE ~Present(id) /\ ~HasPrimaryKey(label)
    <3>1. m = Match(e.id, Absent)
      BY <1>1, <1>4, <1>i, <2>3 DEF edge_endpoint_match
    <3>2. /\ v.id.value = e.id.value
          /\ \A j \in DOMAIN vs : vs[j].label = label /\ vs[j].id.value = e.id.value => vs[j] = v
      BY <1>p, <3>1
    <3>3. ASSUME NEW j \in DOMAIN vs, Names(e, label, vs[j]) PROVE vs[j] = v
      BY <1>c, <2>0, <2>3, <3>2, <3>3
    <3>4. Names(e, label, v)
      BY <1>0, <2>0, <3>2
    <3>. QED  BY <3>3, <3>4 DEF NamesOnly
  <2>. QED  BY <2>1, <2>2, <2>3
<1>. QED  BY <1>c, <1>1, <1>2, <1>3, <1>4

\* The payload of the import is one a caller may send, and it is compiled once, when it
\* has passed every check.
ImportInv ==
  /\ DOMAIN import_call = {"payload", "confirm", "answer", "compiled"}
  /\ import_call.payload \in ImportPayloads
  /\ ImportedEndpointsAsNamed

\* A payload that passes validation and the dry run is compiled to what it names.
LEMMA CompiledAsNamed ==
  ASSUME NEW p \in ImportPayloads, validate_graph_payload(p), dry_run_graph_change_plan(p),
         NEW i \in DOMAIN p.edges, NEW side \in {"source", "target"}
  PROVE  \/ MistakenByText(p.vertices, EdgeEnds[p.edges[i].label][side], p.edges[i][side])
         \/ NamesOnly(p.vertices, EdgeEnds[p.edges[i].label][side], p.edges[i][side],
                      compile_operations(p)[i][side])
<1>1. /\ p.vertices \in Seq(Range(p.vertices))
      /\ p.edges[i].source.form \in {"scalar", "object", "backend", "mixed"}
      /\ p.edges[i].target.form \in {"scalar", "object", "backend", "mixed"}
      /\ \A j \in DOMAIN p.vertices : Present(p.vertices[j].pk) => HasPrimaryKey(p.vertices[j].label)
  BY ChangeAssumption DEF HasPrimaryKey, Present
<1>2. /\ p.edges[i].source_label = EdgeEnds[p.edges[i].label].source
      /\ p.edges[i].target_label = EdgeEnds[p.edges[i].label].target
      /\ validate_payload_endpoint(p.vertices, p.edges[i].source_label, p.edges[i].source)
      /\ validate_payload_endpoint(p.vertices, p.edges[i].target_label, p.edges[i].target)
  BY DEF validate_graph_payload
<1> DEFINE ms == edge_endpoint_match(p.vertices, p.edges[i].source_label, p.edges[i].source)
           mt == edge_endpoint_match(p.vertices, p.edges[i].target_label, p.edges[i].target)
<1>3. /\ append_edge_endpoint_counts(p.vertices, p.edges[i].source_label, ms)
      /\ append_edge_endpoint_counts(p.vertices, p.edges[i].target_label, mt)
  BY DEF dry_run_graph_change_plan, graph_data_to_change_plan
<1>4. /\ compile_operations(p)[i].source = CompiledEndpoint(p.vertices, p.edges[i].source_label, ms)
      /\ compile_operations(p)[i].target = CompiledEndpoint(p.vertices, p.edges[i].target_label, mt)
  BY DEF compile_operations, graph_data_to_change_plan
<1> HIDE DEF ms, mt
<1>5. \/ MistakenByText(p.vertices, p.edges[i].source_label, p.edges[i].source)
      \/ NamesOnly(p.vertices, p.edges[i].source_label, p.edges[i].source, compile_operations(p)[i].source)
  <2>1. append_edge_endpoint_counts(p.vertices, p.edges[i].source_label,
          edge_endpoint_match(p.vertices, p.edges[i].source_label, p.edges[i].source))
    BY <1>3 DEF ms
  <2>. QED  BY <1>1, <1>2, <1>4, <2>1, EndpointAsNamed DEF ms, Checked
<1>6. \/ MistakenByText(p.vertices, p.edges[i].target_label, p.edges[i].target)
      \/ NamesOnly(p.vertices, p.edges[i].target_label, p.edges[i].target, compile_operations(p)[i].target)
  <2>1. append_edge_endpoint_counts(p.vertices, p.edges[i].target_label,
          edge_endpoint_match(p.vertices, p.edges[i].target_label, p.edges[i].target))
    BY <1>3 DEF mt
  <2>. QED  BY <1>1, <1>2, <1>4, <2>1, EndpointAsNamed DEF mt, Checked
<1>. QED  BY <1>2, <1>5, <1>6

\* In an import that is previewed as valid, every edge runs between the vertices its
\* endpoints name, for every payload, schema and live graph, save for the two exceptions the
\* property names: a key with a colon, and values that compare otherwise than their texts
\* (manage_graph_data in mode import: validate_graph_payload, graph_data_to_change_plan,
\* dry_run_graph_change_plan).
THEOREM ImportsAreAsNamed == ChangeSpec => []ImportedEndpointsAsNamed
<1>1. ChangeInit => ImportInv
  BY DEF ChangeInit, NewImport, ImportInv, ImportedEndpointsAsNamed
<1>2. ImportInv /\ [ChangeNext]_changeVars => ImportInv'
  <2> SUFFICES ASSUME ImportInv, [ChangeNext]_changeVars PROVE ImportInv'
    OBVIOUS
  <2>1. CASE UNCHANGED import_call
    BY <2>1 DEF ImportInv, ImportedEndpointsAsNamed
  <2>2. CASE manage_graph_data_import
    <3> DEFINE p == import_call.payload
    <3>1. PICK a, c : /\ import_call' = [import_call EXCEPT !.answer = a, !.compiled = c]
                      /\ a = "PREVIEW" => /\ validate_graph_payload(p) /\ dry_run_graph_change_plan(p)
                                          /\ c = compile_operations(p)
      <4> DEFINE Ends(a, c) == import_call' = [import_call EXCEPT !.answer = a, !.compiled = c]
      <4>1. \/ \E a \in {"FEATURE_DISABLED", "CONNECTION_FAILED", "SCHEMA_MISMATCH", "INVALID_GRAPH_DATA"} :
                 Ends(a, <<>>)
            \/ /\ validate_graph_payload(p) /\ dry_run_graph_change_plan(p)
               /\ Ends("PREVIEW", compile_operations(p))
        BY <2>2, Zenon DEF manage_graph_data_import
      <4>. QED  BY <4>1
    <3>2. /\ DOMAIN import_call' = DOMAIN import_call
          /\ import_call'.payload = p /\ import_call'.answer = a /\ import_call'.compiled = c
      BY <3>1 DEF ImportInv
    <3>3. CASE a = "PREVIEW"
      <4>1. \A i \in DOMAIN p.edges : \A side \in {"source", "target"} :
              \/ MistakenByText(p.vertices, EdgeEnds[p.edges[i].label][side], p.edges[i][side])
              \/ NamesOnly(p.vertices, EdgeEnds[p.edges[i].label][side], p.edges[i][side], c[i][side])
        BY <3>1, <3>3, CompiledAsNamed DEF ImportInv
      <4>. QED  BY <3>2, <4>1 DEF ImportInv, ImportedEndpointsAsNamed
    <3>4. CASE a # "PREVIEW"
      BY <3>2, <3>4 DEF ImportInv, ImportedEndpointsAsNamed
    <3>. QED  BY <3>3, <3>4
  <2>3. CASE mutate_graph_properties \/ DeleteNext \/ UNCHANGED changeVars
    BY <2>1, <2>3 DEF mutate_graph_properties, DeleteNext, delete_dry_run, delete_confirm,
       execute_exists, execute_write, execute_verify, delete_record, ForeignEdge, changeVars
  <2>. QED  BY <2>2, <2>3 DEF ChangeNext, ImportNext
<1>3. ImportInv => ImportedEndpointsAsNamed
  BY DEF ImportInv
<1>. QED  BY <1>1, <1>2, <1>3, PTL DEF ChangeSpec

----------------------------------------------------------------------------
(* A valid batch applies.                                                   *)

\* The operation types, spelled out.
LEMMA OperationTypes ==
  ALLOWED_OPERATION_TYPES = {"create_property_key", "create_vertex_label", "create_edge_label",
                             "create_index_label"}
BY DEF ALLOWED_OPERATION_TYPES, SUPPORTED_FIELD_SPECS

\* Every type has a name, and it is required.
LEMMA NameRequired ==
  ASSUME NEW op, op.type \in ALLOWED_OPERATION_TYPES, validate_identifier_field(op)
  PROVE  "name" \in DOMAIN op.args /\ op.args.name # <<>> /\ Arg(op, "name") = op.args.name
<1>1. "name" \in REQUIRED_FIELDS[op.type]
  BY OperationTypes DEF REQUIRED_FIELDS
<1>. QED  BY <1>1 DEF validate_identifier_field, Arg, Given, IsEmpty

\* An object is created under the name the operation gives it.
LEMMA AppliedName ==
  ASSUME NEW op, op.type \in ALLOWED_OPERATION_TYPES, validate_identifier_field(op)
  PROVE  apply_one_operation(op).type = op.type /\ apply_one_operation(op).fields.name = op.args.name
<1>1. CASE op.type = "create_property_key"
  BY <1>1 DEF apply_one_operation, apply_property_key_options
<1>2. CASE op.type = "create_vertex_label"
  BY <1>2 DEF apply_one_operation, apply_vertex_label_options
<1>3. CASE op.type = "create_edge_label"
  BY <1>3 DEF apply_one_operation, apply_edge_label_options
<1>4. CASE op.type = "create_index_label"
  <2>1. ~IsEmpty(Arg(op, "name")) /\ Arg(op, "name") = op.args.name
    BY NameRequired, OperationTypes DEF validate_identifier_field, REQUIRED_FIELDS
  <2>2. "name" \in DOMAIN field_specs_for_operation(op.type)
    BY <1>4 DEF field_specs_for_operation, SUPPORTED_FIELD_SPECS
  <2>3. apply_one_operation(op).fields.name = OrElse(op, "name", <<>>)
    BY <1>4, <2>2 DEF apply_one_operation
  <2>. QED  BY <2>1, <2>3 DEF OrElse, apply_one_operation
<1>. QED  BY <1>1, <1>2, <1>3, <1>4, OperationTypes

\* A list of a batch, its operations named by one string each, that validation accepts.
ValidBatch(ops, schema) ==
  /\ ops \in Seq(Range(ops))
  /\ \A i \in DOMAIN ops :
       "name" \in DOMAIN ops[i].args /\ ops[i].args.name # <<>>
         => ops[i].args.name = <<ops[i].args.name[1]>>
  /\ validate_schema_operations(ops, schema)

\* An operation of a valid batch, as it was validated.
LEMMA ValidOperation ==
  ASSUME NEW ops, NEW schema, ValidBatch(ops, schema), NEW i \in DOMAIN ops
  PROVE  /\ ops[i].type \in ALLOWED_OPERATION_TYPES
         /\ validate_identifier_field(ops[i])
         /\ ops[i].args.name = <<ops[i].args.name[1]>>
         /\ Arg(ops[i], "name") = ops[i].args.name
         /\ validate_operation(ops, i, schema)
<1>1. validate_operation(ops, i, schema)
  BY DEF ValidBatch, validate_schema_operations
<1>2. ops[i].type \in ALLOWED_OPERATION_TYPES /\ validate_identifier_field(ops[i])
  BY <1>1 DEF validate_operation
<1>3. "name" \in DOMAIN ops[i].args /\ ops[i].args.name # <<>> /\ Arg(ops[i], "name") = ops[i].args.name
  BY <1>2, NameRequired
<1>. QED  BY <1>1, <1>2, <1>3 DEF ValidBatch

\* What an operation may refer to is on the server when its turn comes.
LEMMA AvailableIsThere ==
  ASSUME NEW ops, NEW schema, ValidBatch(ops, schema), NEW i \in DOMAIN ops,
         NEW t \in ALLOWED_OPERATION_TYPES
  PROVE  available(ops, i, schema)[t] \subseteq schema_items(SchemaAfter(ops, i - 1, schema), t)
<1> DEFINE after == SchemaAfter(ops, i - 1, schema)
<1>0. i \in Nat /\ 1 .. (i - 1) \subseteq DOMAIN ops
  <2>1. Len(ops) \in Nat /\ DOMAIN ops = 1 .. Len(ops)
    BY DEF ValidBatch
  <2>. QED  BY <2>1
<1>1. schema_items(schema, t) \subseteq schema_items(after, t)
  BY DEF schema_items, SchemaAfter
<1>2. ASSUME NEW j \in 1 .. (i - 1), ops[j].type = t
      PROVE  ops[j].args.name[1] \in schema_items(after, t)
  <2>1. j \in DOMAIN ops
    BY <1>0
  <2>2. apply_one_operation(ops[j]).type = t /\ apply_one_operation(ops[j]).fields.name = ops[j].args.name
    BY <1>2, <2>1, ValidOperation, AppliedName
  <2>3. apply_one_operation(ops[j]) \in after
    BY DEF SchemaAfter
  <2>. QED  BY <2>2, <2>3 DEF schema_items
<1>3. available(ops, i, schema)[t] = schema_items(schema, t)
        \union {ops[j].args.name[1] : j \in {k \in 1 .. (i - 1) : ops[k].type = t}}
  BY DEF available
<1>. QED  BY <1>1, <1>2, <1>3

\* A name of the schema is the name of one of its objects.
LEMMA ItemOf ==
  ASSUME NEW schema, NEW t, NEW x \in schema_items(schema, t)
  PROVE  \E o \in schema : o.type = t /\ o.fields.name[1] = x
BY DEF schema_items

\* No earlier operation has taken the name.
LEMMA NameIsFree ==
  ASSUME NEW ops, NEW schema, ValidBatch(ops, schema), NEW i \in DOMAIN ops
  PROVE  ops[i].args.name[1] \notin schema_items(SchemaAfter(ops, i - 1, schema), ops[i].type)
<1> DEFINE after == SchemaAfter(ops, i - 1, schema)
<1>0. i \in Nat /\ 1 .. (i - 1) \subseteq DOMAIN ops
  <2>1. Len(ops) \in Nat /\ DOMAIN ops = 1 .. Len(ops)
    BY DEF ValidBatch
  <2>. QED  BY <2>1
<1> SUFFICES ASSUME ops[i].args.name[1] \in schema_items(after, ops[i].type) PROVE FALSE
  OBVIOUS
<1>o. PICK o \in after : o.type = ops[i].type /\ o.fields.name[1] = ops[i].args.name[1]
  <2> HIDE DEF after
  <2>. QED  BY ItemOf
<1>1. CASE o \in schema
  <2>1. o.fields.name[1] \in schema_items(schema, o.type)
    BY <1>1 DEF schema_items
  <2>2. ops[i].args.name[1] \notin schema_items(schema, ops[i].type)
    BY ValidOperation DEF validate_operation
  <2>. QED  BY <1>o, <2>1, <2>2
<1>2. ASSUME NEW j \in 1 .. (i - 1), o = apply_one_operation(ops[j])
      PROVE  FALSE
  <2>1. j \in DOMAIN ops /\ j < i
    BY <1>0
  <2>2. /\ ops[j].type = o.type /\ o.fields.name = ops[j].args.name
        /\ ops[j].args.name = <<ops[j].args.name[1]>> /\ Arg(ops[j], "name") = ops[j].args.name
    BY <1>o, <1>2, <2>1, ValidOperation, AppliedName
  <2>3. ops[i].args.name = <<ops[i].args.name[1]>> /\ Arg(ops[i], "name") = ops[i].args.name
    BY ValidOperation
  <2>4. Arg(ops[i], "name") = Arg(ops[j], "name")
    BY <1>o, <2>2, <2>3
  <2>5. Arg(ops[j], "name") # Arg(ops[i], "name")
    BY <1>o, <2>1, <2>2 DEF ValidBatch, validate_schema_operations, collect_planned_creates
  <2>. QED  BY <2>4, <2>5
<1>. QED  BY <1>1, <1>2 DEF SchemaAfter

\* The references of an object that its operation gives, and apply forwards.
LEMMA ReferencesForwarded ==
  ASSUME NEW op, NEW f, NEW keys, validate_property_references(op, f, keys)
  PROVE  ToSet(OrElse(op, f, <<>>)) \subseteq keys
<1>1. ToSet(<<>>) = {}
  BY DEF ToSet
<1>. QED  BY <1>1 DEF validate_property_references, OrElse

LEMMA SubsetForwarded ==
  ASSUME NEW op, NEW f, NEW keys, validate_property_subset_references(op, f, keys)
  PROVE  ToSet(OrElse(op, f, <<>>)) \subseteq keys
<1>1. ToSet(<<>>) = {}
  BY DEF ToSet
<1>. QED  BY <1>1 DEF validate_property_subset_references, OrElse, IsEmpty

\* The server accepts the i-th operation of a valid batch after the ones before it.
LEMMA Accepted ==
  ASSUME NEW ops, NEW schema, ValidBatch(ops, schema), NEW i \in DOMAIN ops,
         ~UncheckedKeys(ops[i])
  PROVE  ServerAccepts(apply_one_operation(ops[i]), SchemaAfter(ops, i - 1, schema))
<1> DEFINE op == ops[i]
           o == apply_one_operation(op)
           after == SchemaAfter(ops, i - 1, schema)
           av == available(ops, i, schema)
           Keys(f) == IF f \in DOMAIN o.fields THEN ToSet(o.fields[f]) ELSE {}
<1>1. /\ op.type \in ALLOWED_OPERATION_TYPES /\ validate_identifier_field(op)
      /\ validate_operation(ops, i, schema)
  BY ValidOperation
<1>2. o.type = op.type /\ o.fields.name = op.args.name
  BY <1>1, AppliedName
<1>3. o.fields.name[1] \notin schema_items(after, o.type)
  BY <1>2, NameIsFree
<1>4. /\ av.create_property_key \subseteq schema_items(after, "create_property_key")
      /\ av.create_vertex_label \subseteq schema_items(after, "create_vertex_label")
      /\ av.create_edge_label \subseteq schema_items(after, "create_edge_label")
  BY AvailableIsThere, OperationTypes
<1> HIDE DEF after, av
<1> SUFFICES
      /\ \A f \in {"properties", "primary_keys", "nullable_keys", "sort_keys", "fields"} :
           Keys(f) \subseteq schema_items(after, "create_property_key")
      /\ Keys("source_label") \union Keys("target_label") \subseteq schema_items(after, "create_vertex_label")
      /\ o.type = "create_index_label" =>
           Keys("base_label") \subseteq
             schema_items(after, IF Keys("base_type") = {"VERTEX"} THEN "create_vertex_label"
                                 ELSE "create_edge_label")
  BY <1>3 DEF ServerAccepts, after
<1>5. CASE op.type = "create_property_key"
  <2>1. o.fields = apply_property_key_options(op)
    BY <1>5 DEF apply_one_operation
  <2>2. DOMAIN o.fields = {"name", "data_type", "cardinality", "aggregate_type", "user_data"}
    BY <2>1 DEF apply_property_key_options
  <2>. QED  BY <1>2, <1>5, <2>2
<1>6. CASE op.type = "create_vertex_label"
  <2>1. o.fields = apply_vertex_label_options(op)
    BY <1>6 DEF apply_one_operation
  <2>2. /\ DOMAIN o.fields = {"name", "id_strategy", "properties", "primary_keys", "nullable_keys",
                              "index_labels", "enable_label_index", "user_data"}
        /\ o.fields.properties = OrElse(op, "properties", <<>>)
        /\ o.fields.primary_keys = OrElse(op, "primary_keys", <<>>)
        /\ o.fields.nullable_keys = OrElse(op, "nullable_keys", <<>>)
    BY <2>1 DEF apply_vertex_label_options
  <2>3. validate_vertex_label(op, av)
    BY <1>1, <1>6 DEF validate_operation, av
  <2>4. /\ ToSet(o.fields.properties) \subseteq av.create_property_key
        /\ ToSet(o.fields.nullable_keys) \subseteq av.create_property_key
    BY <2>2, <2>3, ReferencesForwarded, SubsetForwarded DEF validate_vertex_label
  <2>5. ToSet(o.fields.primary_keys) \subseteq av.create_property_key
    <3>1. CASE IsEmpty(Arg(op, "primary_keys"))
      BY <2>2, <3>1 DEF OrElse, ToSet
    <3>2. CASE ~IsEmpty(Arg(op, "primary_keys"))
      <4>1. OrElse(op, "id_strategy", <<"PRIMARY_KEY">>) = <<"PRIMARY_KEY">>
        BY <1>6, <3>2 DEF UncheckedKeys
      <4>2. validate_property_subset_references(op, "primary_keys", av.create_property_key)
        BY <2>3, <4>1 DEF validate_vertex_label, validate_vertex_primary_keys
      <4>. QED  BY <2>2, <4>2, SubsetForwarded
    <3>. QED  BY <3>1, <3>2
  <2>. QED  BY <1>2, <1>4, <1>6, <2>2, <2>4, <2>5
<1>7. CASE op.type = "create_edge_label"
  <2>1. o.fields = apply_edge_label_options(op)
    BY <1>7 DEF apply_one_operation
  <2>2. /\ DOMAIN o.fields = {"name", "source_label", "target_label", "properties", "nullable_keys",
                              "sort_keys", "frequency", "enable_label_index", "user_data"}
        /\ o.fields.source_label = op.args.source_label
        /\ o.fields.target_label = op.args.target_label
        /\ o.fields.properties = OrElse(op, "properties", <<>>)
        /\ o.fields.nullable_keys = OrElse(op, "nullable_keys", <<>>)
        /\ o.fields.sort_keys = OrElse(op, "sort_keys", <<>>)
    BY <2>1 DEF apply_edge_label_options
  <2>3. validate_edge_label(op, av)
    BY <1>1, <1>7 DEF validate_operation, av
  <2>4. Arg(op, "source_label") = op.args.source_label /\ Arg(op, "target_label") = op.args.target_label
    BY <1>1, <1>7 DEF validate_identifier_field, REQUIRED_FIELDS, Arg, IsEmpty
  <2>5. /\ ToSet(o.fields.properties) \subseteq av.create_property_key
        /\ ToSet(o.fields.nullable_keys) \subseteq av.create_property_key
        /\ ToSet(o.fields.sort_keys) \subseteq av.create_property_key
    BY <2>2, <2>3, ReferencesForwarded, SubsetForwarded DEF validate_edge_label
  <2>6. /\ ToSet(o.fields.source_label) \subseteq av.create_vertex_label
        /\ ToSet(o.fields.target_label) \subseteq av.create_vertex_label
    BY <2>2, <2>3, <2>4 DEF validate_edge_label, validate_edge_endpoints
  <2>. QED  BY <1>2, <1>4, <1>7, <2>2, <2>5, <2>6
<1>8. CASE op.type = "create_index_label"
  <2>1. DOMAIN field_specs_for_operation(op.type)
          = {"name", "base_type", "base_label", "fields", "index_type", "unique"}
    BY <1>8 DEF field_specs_for_operation, SUPPORTED_FIELD_SPECS
  <2>2. o.fields = [f \in DOMAIN field_specs_for_operation(op.type) |-> OrElse(op, f, <<>>)]
    BY <1>8 DEF apply_one_operation
  <2>3. /\ DOMAIN o.fields = {"name", "base_type", "base_label", "fields", "index_type", "unique"}
        /\ o.fields["base_type"] = OrElse(op, "base_type", <<>>)
        /\ o.fields["base_label"] = OrElse(op, "base_label", <<>>)
        /\ o.fields["fields"] = OrElse(op, "fields", <<>>)
    BY <2>1, <2>2
  <2>4. validate_index_label(op, av)
    BY <1>1, <1>8 DEF validate_operation, av
  <2>5. /\ OrElse(op, "base_type", <<>>) = Arg(op, "base_type")
        /\ OrElse(op, "base_label", <<>>) = Arg(op, "base_label")
    BY <1>1, <1>8 DEF validate_identifier_field, REQUIRED_FIELDS, OrElse
  <2>6. ToSet(o.fields["fields"]) \subseteq av.create_property_key
    BY <2>3, <2>4, ReferencesForwarded DEF validate_index_label
  <2>7. ToSet(<<"VERTEX">>) = {"VERTEX"} /\ ToSet(<<"EDGE">>) # {"VERTEX"}
    BY DEF ToSet
  <2>8. \/ /\ Keys("base_type") = {"VERTEX"}
           /\ Keys("base_label") \subseteq av.create_vertex_label
        \/ /\ Keys("base_type") # {"VERTEX"}
           /\ Keys("base_label") \subseteq av.create_edge_label
    BY <2>3, <2>4, <2>5, <2>7 DEF validate_index_label
  <2>. QED  BY <1>2, <1>4, <1>8, <2>3, <2>6, <2>8
<1>. QED  BY <1>1, <1>5, <1>6, <1>7, <1>8, OperationTypes

\* The builder sends the object, or an edge label with its nullable keys in another order.
LEMMA BuilderSends ==
  ASSUME NEW op, NEW o \in builder_create(apply_one_operation(op))
  PROVE  LET a == apply_one_operation(op)
         IN  /\ a.type # "create_edge_label" => o = a
             /\ a.type = "create_edge_label" =>
                  /\ o.type = a.type /\ DOMAIN o.fields = DOMAIN a.fields
                  /\ ToSet(o.fields.nullable_keys) \subseteq ToSet(a.fields.nullable_keys)
                  /\ \A f \in DOMAIN a.fields : f # "nullable_keys" => o.fields[f] = a.fields[f]
<1> DEFINE a == apply_one_operation(op)
<1>1. CASE a.type # "create_edge_label"
  BY <1>1 DEF builder_create
<1>2. CASE a.type = "create_edge_label"
  <2>1. PICK keys \in SetToSeqs(ToSet(a.fields.nullable_keys)) :
               o = [a EXCEPT !.fields.nullable_keys = keys]
    BY <1>2 DEF builder_create
  <2>2. a = [type |-> a.type, fields |-> a.fields]
    BY DEF apply_one_operation
  <2>3. /\ a.fields = [f \in DOMAIN a.fields |-> a.fields[f]]
        /\ "nullable_keys" \in DOMAIN a.fields
    BY <1>2 DEF apply_one_operation, apply_edge_label_options
  <2>4. ToSet(keys) \subseteq ToSet(a.fields.nullable_keys)
    BY DEF SetToSeqs, ToSet
  <2> HIDE DEF a
  <2>5. o.type = a.type /\ o.fields = [a.fields EXCEPT !["nullable_keys"] = keys]
    BY <2>1, <2>2
  <2>6. /\ DOMAIN o.fields = DOMAIN a.fields /\ o.fields["nullable_keys"] = keys
        /\ \A f \in DOMAIN a.fields : f # "nullable_keys" => o.fields[f] = a.fields[f]
    BY <2>3, <2>5
  <2>. QED  BY <1>2, <2>4, <2>5, <2>6 DEF a
<1>. QED  BY <1>1, <1>2

\* Their order does not matter to the server.
LEMMA OrderAccepted ==
  ASSUME NEW op, NEW S, ServerAccepts(apply_one_operation(op), S),
         op.type \in ALLOWED_OPERATION_TYPES,
         NEW o \in builder_create(apply_one_operation(op))
  PROVE  ServerAccepts(o, S)
<1> DEFINE a == apply_one_operation(op)
<1>1. CASE a.type # "create_edge_label"
  BY <1>1, BuilderSends
<1>2. CASE a.type = "create_edge_label"
  <2>1. /\ o.type = a.type /\ DOMAIN o.fields = DOMAIN a.fields
        /\ ToSet(o.fields["nullable_keys"]) \subseteq ToSet(a.fields["nullable_keys"])
        /\ \A f \in DOMAIN a.fields : f # "nullable_keys" => o.fields[f] = a.fields[f]
    BY <1>2, BuilderSends
  <2>2. "name" \in DOMAIN a.fields /\ "nullable_keys" \in DOMAIN a.fields
    BY <1>2 DEF apply_one_operation, apply_edge_label_options
  <2> HIDE DEF a
  <2>3. ServerAccepts(a, S)
    BY DEF a
  <2>. QED  BY <1>2, <2>1, <2>2, <2>3 DEF ServerAccepts
<1>. QED  BY <1>1, <1>2

----------------------------------------------------------------------------
(* The calls.                                                               *)

CallFields == {"request", "pc", "schema", "valid", "committed", "observed", "status", "answer"}

\* Every call keeps the request it came with.
CallsOK ==
  /\ DOMAIN schema_call = SchemaCalls
  /\ \A c \in SchemaCalls : DOMAIN schema_call[c] = CallFields /\ schema_call[c].request \in SchemaRequests

\* A batch is found valid against the schema that the call keeps, and the call ends there.
ValidInv ==
  /\ CallsOK
  /\ \A c \in SchemaCalls :
       schema_call[c].valid =>
         /\ schema_call[c].pc = "done"
         /\ validate_schema_operations(schema_call[c].request.ops, schema_call[c].schema)

\* What the steps of a call change: its own record, in these ways.
LEMMA StepOf ==
  ASSUME CallsOK, NEW c \in SchemaCalls,
         \/ manage_schema_dry_run(c) \/ manage_schema_apply(c) \/ inspect_schema(c)
         \/ consume_schema_plan(c) \/ schema_create_adapter(c) \/ apply_existing(c)
         \/ apply_create(c) \/ apply_post_read(c) \/ record_schema_outcome(c)
  PROVE  /\ CallsOK' /\ schema_call[c].pc # "done"
         /\ \A d \in SchemaCalls : d # c => schema_call'[d] = schema_call[d]
         /\ schema_call'[c].request = schema_call[c].request /\ schema_call'[c].valid = schema_call[c].valid
<1>1. CASE manage_schema_dry_run(c) \/ manage_schema_apply(c) \/ inspect_schema(c) \/ consume_schema_plan(c)
  BY <1>1 DEF CallsOK, CallFields, manage_schema_dry_run, manage_schema_apply, inspect_schema,
     consume_schema_plan, CallAt, Answered
<1>2. CASE schema_create_adapter(c)
  BY <1>2 DEF CallsOK, CallFields, schema_create_adapter, CallAt
<1>3. CASE apply_existing(c) \/ apply_post_read(c)
  BY <1>3 DEF CallsOK, CallFields, apply_existing, apply_post_read, Received
<1>4. CASE apply_create(c)
  <2>0. schema_call[c].pc # "done"
    BY <1>4 DEF apply_create
  <2>1. CASE Received(c, "UNKNOWN", {})
    BY <2>0, <2>1 DEF CallsOK, CallFields, Received
  <2>2. ASSUME NEW lost \in BOOLEAN,
               schema_call' = [schema_call EXCEPT
                 ![c].committed = TRUE, ![c].status = IF lost THEN "UNKNOWN" ELSE @,
                 ![c].pc = IF lost THEN "record" ELSE "post_read"]
        PROVE  /\ CallsOK'
               /\ \A d \in SchemaCalls : d # c => schema_call'[d] = schema_call[d]
               /\ schema_call'[c].request = schema_call[c].request
               /\ schema_call'[c].valid = schema_call[c].valid
    BY <2>2 DEF CallsOK, CallFields
  <2>3. Received(c, "UNKNOWN", {}) \/ \E lost \in BOOLEAN :
          schema_call' = [schema_call EXCEPT
            ![c].committed = TRUE, ![c].status = IF lost THEN "UNKNOWN" ELSE @,
            ![c].pc = IF lost THEN "record" ELSE "post_read"]
    BY <1>4 DEF apply_create
  <2>. QED  BY <2>0, <2>1, <2>2, <2>3
<1>5. CASE record_schema_outcome(c)
  <2>1. \E a : Answered(c, a)
    BY <1>5 DEF record_schema_outcome
  <2>2. schema_call[c].pc # "done"
    BY <1>5 DEF record_schema_outcome
  <2>. QED  BY <2>1, <2>2 DEF CallsOK, CallFields, Answered
<1>. QED  BY <1>1, <1>2, <1>3, <1>4, <1>5

\* In a batch that validate accepts, every operation finds what it refers to and a free name
\* when its turn comes, whatever the batch and the live schema are, unless a vertex label of
\* it gives primary_keys with another id strategy (validate_schema_operations).
THEOREM ValidBatchesApply == SchemaSpec => []ValidBatchApplies
<1>1. SchemaInit => ValidInv
  BY DEF SchemaInit, ValidInv, CallsOK, CallFields, NewCall
<1>2. ValidInv /\ [SchemaNext]_schemaVars => ValidInv'
  <2> SUFFICES ASSUME ValidInv, [SchemaNext]_schemaVars PROVE ValidInv'
    OBVIOUS
  <2>1. CASE UNCHANGED schema_call
    BY <2>1 DEF ValidInv, CallsOK
  <2>2. ASSUME NEW c \in SchemaCalls, manage_schema_read(c) PROVE ValidInv'
    <3>1. CASE \E a : Answered(c, a)
      BY <3>1 DEF Answered, ValidInv, CallsOK, CallFields
    <3>2. CASE schema_call' = [schema_call EXCEPT
                 ![c].pc = "done", ![c].answer = "ok", ![c].schema = live_schema,
                 ![c].valid = validate_schema_operations(schema_call[c].request.ops, live_schema)]
      BY <3>2 DEF ValidInv, CallsOK, CallFields
    <3>. QED  BY <2>2, <3>1, <3>2 DEF manage_schema_read
  <2>3. ASSUME NEW c \in SchemaCalls,
               \/ manage_schema_dry_run(c) \/ manage_schema_apply(c) \/ inspect_schema(c)
               \/ consume_schema_plan(c) \/ schema_create_adapter(c) \/ apply_existing(c)
               \/ apply_create(c) \/ apply_post_read(c) \/ record_schema_outcome(c)
        PROVE  ValidInv'
    <3>1. /\ CallsOK' /\ schema_call[c].pc # "done"
          /\ \A d \in SchemaCalls : d # c => schema_call'[d] = schema_call[d]
          /\ schema_call'[c].request = schema_call[c].request /\ schema_call'[c].valid = schema_call[c].valid
      BY <2>3, StepOf DEF ValidInv
    <3>. QED  BY <3>1 DEF ValidInv
  <2>. QED  BY <2>1, <2>2, <2>3 DEF SchemaNext, ForeignSchemaChange, schemaVars
<1>3. ValidInv => ValidBatchApplies
  <2> SUFFICES ASSUME ValidInv, NEW c \in SchemaCalls, schema_call[c].valid,
                      \A j \in DOMAIN schema_call[c].request.ops :
                        ~UncheckedKeys(schema_call[c].request.ops[j]),
                      NEW i \in DOMAIN schema_call[c].request.ops,
                      NEW o \in builder_create(apply_one_operation(schema_call[c].request.ops[i]))
               PROVE  ServerAccepts(o, SchemaAfter(schema_call[c].request.ops, i - 1,
                                                   schema_call[c].schema))
    BY DEF ValidBatchApplies
  <2>1. ValidBatch(schema_call[c].request.ops, schema_call[c].schema)
    BY SchemaAssumption DEF ValidInv, CallsOK, ValidBatch
  <2>2. ServerAccepts(apply_one_operation(schema_call[c].request.ops[i]),
                      SchemaAfter(schema_call[c].request.ops, i - 1, schema_call[c].schema))
    BY <2>1, Accepted
  <2>3. schema_call[c].request.ops[i].type \in ALLOWED_OPERATION_TYPES
    BY <2>1, ValidOperation
  <2>. QED  BY <2>2, <2>3, OrderAccepted
<1>. QED  BY <1>1, <1>2, <1>3, PTL DEF SchemaSpec

----------------------------------------------------------------------------
(* What a call reports.                                                     *)

\* An operation that a dry run accepts.
Applicable(op) == op.type \in P0A_APPLY_OPERATION_TYPES /\ validate_identifier_field(op)

\* The data types of a schema have their canonical spelling.
CanonicalTypes(S) ==
  \A o \in S : o.type = "create_property_key" => o.fields.data_type \notin {<<"INTEGER">>, <<"BOOL">>}

\* An object has the fields an operation fixes, as apply forwards them.
AsForwarded(op, o) == \A f \in Fixed(op) : o.fields[f] = apply_one_operation(op).fields[f]

LEMMA AcceptedIsApplicable ==
  ASSUME NEW r \in SchemaRequests, NEW schema, dry_run_schema_operations(r.ops, schema)
  PROVE  Applicable(r.ops[1])
<1>1. r.ops \in Seq(Range(r.ops)) /\ Len(r.ops) = 1 /\ r.ops[1].type \in P0A_APPLY_OPERATION_TYPES
  BY SchemaAssumption DEF dry_run_schema_operations
<1>2. 1 \in DOMAIN r.ops
  BY <1>1
<1>3. validate_operation(r.ops, 1, schema)
  BY <1>2 DEF dry_run_schema_operations, validate_schema_operations
<1>. QED  BY <1>1, <1>3 DEF Applicable, validate_operation

\* The server never gets a data type in another spelling.
LEMMA CreatesCanonical ==
  ASSUME NEW op, NEW S, CanonicalTypes(S), NEW o \in builder_create(apply_one_operation(op))
  PROVE  CanonicalTypes(S \union {o})
<1>1. ASSUME op.type = "create_property_key"
      PROVE  apply_one_operation(op).fields.data_type \notin {<<"INTEGER">>, <<"BOOL">>}
  <2>1. apply_one_operation(op).fields.data_type
          = canonical_enum_value("data_type", OrElse(op, "data_type", <<"TEXT">>))
    BY <1>1 DEF apply_one_operation, apply_property_key_options
  <2>2. \A v : canonical_enum_value("data_type", v) \notin {<<"INTEGER">>, <<"BOOL">>}
    BY DEF canonical_enum_value
  <2>. QED  BY <2>1, <2>2
<1>2. apply_one_operation(op).type = op.type
  BY DEF apply_one_operation
<1>3. o.type = "create_property_key" => o = apply_one_operation(op)
  BY BuilderSends
<1>. QED  BY <1>1, <1>2, <1>3 DEF CanonicalTypes

\* What apply forwards for a field that the operation fixes.
LEMMA Forwarded ==
  ASSUME NEW op, Applicable(op), NEW f \in Fixed(op), f # "data_type"
  PROVE  apply_one_operation(op).fields[f]
           = IF Given(op, f) THEN op.args[f] ELSE field_specs_for_operation(op.type)[f].default
<1> DEFINE specs == field_specs_for_operation(op.type)
           a == apply_one_operation(op)
<1>0. /\ f \in DOMAIN specs
      /\ Given(op, f) => Arg(op, f) = op.args[f] /\ \A v : OrElse(op, f, v) = op.args[f]
      /\ ~Given(op, f) => specs[f].default # <<>> /\ \A v : OrElse(op, f, v) = v
  BY DEF Fixed, Defaulted, OrElse, Arg, IsEmpty
<1>1. CASE op.type = "create_property_key"
  <2>1. /\ DOMAIN specs = {"name", "data_type", "cardinality", "aggregate_type", "user_data"}
        /\ \A g \in DOMAIN specs : specs[g].default = IF g = "cardinality" THEN <<"SINGLE">> ELSE <<>>
    BY <1>1 DEF field_specs_for_operation, SUPPORTED_FIELD_SPECS, Field, Identity, Enum, Mapping
  <2>2. /\ a.fields["name"] = op.args.name
        /\ a.fields["cardinality"] = OrElse(op, "cardinality", <<"SINGLE">>)
        /\ a.fields["aggregate_type"] = OrElse(op, "aggregate_type", <<"NONE">>)
        /\ a.fields["user_data"] = OrElse(op, "user_data", <<>>)
    BY <1>1 DEF apply_one_operation, apply_property_key_options
  <2>. QED  BY <1>0, <2>1, <2>2
<1>2. CASE op.type = "create_vertex_label"
  <2>1. /\ DOMAIN specs = {"name", "id_strategy", "properties", "primary_keys", "nullable_keys",
                           "index_labels", "enable_label_index", "user_data"}
        /\ \A g \in DOMAIN specs : specs[g].default = IF g = "id_strategy" THEN <<"PRIMARY_KEY">> ELSE <<>>
    BY <1>2 DEF field_specs_for_operation, SUPPORTED_FIELD_SPECS, Field, Identity, List, Boolean, Mapping
  <2>2. /\ a.fields["name"] = op.args.name
        /\ a.fields["id_strategy"] = OrElse(op, "id_strategy", <<"PRIMARY_KEY">>)
        /\ a.fields["properties"] = OrElse(op, "properties", <<>>)
        /\ a.fields["primary_keys"] = OrElse(op, "primary_keys", <<>>)
        /\ a.fields["nullable_keys"] = OrElse(op, "nullable_keys", <<>>)
        /\ a.fields["index_labels"] = OrElse(op, "index_labels", <<>>)
        /\ a.fields["enable_label_index"] = OrElse(op, "enable_label_index", <<"true">>)
        /\ a.fields["user_data"] = OrElse(op, "user_data", <<>>)
    BY <1>2 DEF apply_one_operation, apply_vertex_label_options
  <2>. QED  BY <1>0, <2>1, <2>2
<1>3. CASE op.type = "create_edge_label"
  <2>1. /\ DOMAIN specs = {"name", "source_label", "target_label", "properties", "nullable_keys",
                           "sort_keys", "frequency", "enable_label_index", "user_data"}
        /\ \A g \in DOMAIN specs : specs[g].default = <<>>
    BY <1>3 DEF field_specs_for_operation, SUPPORTED_FIELD_SPECS, Field, Identity, Scalar, List, Enum,
       Boolean, Mapping
  <2>2. /\ a.fields["name"] = op.args.name
        /\ a.fields["source_label"] = op.args.source_label
        /\ a.fields["target_label"] = op.args.target_label
        /\ a.fields["properties"] = OrElse(op, "properties", <<>>)
        /\ a.fields["nullable_keys"] = OrElse(op, "nullable_keys", <<>>)
        /\ a.fields["sort_keys"] = OrElse(op, "sort_keys", <<>>)
        /\ a.fields["frequency"] = OrElse(op, "frequency", <<"SINGLE">>)
        /\ a.fields["enable_label_index"] = OrElse(op, "enable_label_index", <<"true">>)
        /\ a.fields["user_data"] = OrElse(op, "user_data", <<>>)
    BY <1>3 DEF apply_one_operation, apply_edge_label_options
  <2>. QED  BY <1>0, <2>1, <2>2
<1>. QED
  BY <1>1, <1>2, <1>3, OperationTypes DEF Applicable, P0A_APPLY_OPERATION_TYPES

\* An object that passes the comparison has every field the operation fixes as apply forwards it.
LEMMA MatchedIsForwarded ==
  ASSUME NEW op, Applicable(op), NEW S, CanonicalTypes(S), NEW o \in S,
         o.type = op.type, o.fields.name = Arg(op, "name"), operation_fields_match(op, o)
  PROVE  AsForwarded(op, o)
<1> SUFFICES ASSUME NEW f \in Fixed(op) PROVE o.fields[f] = apply_one_operation(op).fields[f]
  BY DEF AsForwarded
<1> DEFINE specs == field_specs_for_operation(op.type)
<1>0. op.type \in ALLOWED_OPERATION_TYPES /\ validate_identifier_field(op)
  BY DEF Applicable, P0A_APPLY_OPERATION_TYPES
<1>1. CASE f = "name"
  BY <1>0, <1>1, NameRequired, AppliedName
<1>2. CASE f = "data_type"
  <2>1. op.type = "create_property_key"
    <3>1. "data_type" \in DOMAIN specs
      BY <1>2 DEF Fixed
    <3>. QED  BY <1>0, <3>1, OperationTypes DEF field_specs_for_operation, SUPPORTED_FIELD_SPECS
  <2>2. specs["data_type"].kind = "enum"
    BY <2>1 DEF field_specs_for_operation, SUPPORTED_FIELD_SPECS, Field, Enum
  <2>3. Given(op, "data_type") /\ ~IsEmpty(op.args["data_type"])
        /\ OrElse(op, "data_type", <<"TEXT">>) = op.args["data_type"]
    <3>1. ~IsEmpty(Arg(op, "data_type"))
      BY <1>0, <2>1 DEF validate_identifier_field, REQUIRED_FIELDS
    <3>. QED  BY <3>1 DEF Arg, OrElse, IsEmpty
  <2>4. supported_field_matches(op, "data_type", o)
    BY <1>2, <2>3 DEF operation_fields_match, Fixed
  <2>5. canonical_enum_value("data_type", o.fields["data_type"])
          = canonical_enum_value("data_type", op.args["data_type"])
    BY <2>2, <2>3, <2>4 DEF supported_field_matches, IsEmpty
  <2>6. o.fields["data_type"] \notin {<<"INTEGER">>, <<"BOOL">>}
    BY <2>1 DEF CanonicalTypes
  <2>7. canonical_enum_value("data_type", o.fields["data_type"]) = o.fields["data_type"]
    BY <2>6 DEF canonical_enum_value
  <2>8. apply_one_operation(op).fields["data_type"] = canonical_enum_value("data_type", op.args["data_type"])
    BY <2>1, <2>3 DEF apply_one_operation, apply_property_key_options
  <2>. QED  BY <1>2, <2>5, <2>7, <2>8
<1>3. CASE f \notin {"name", "data_type"}
  <2>1. apply_one_operation(op).fields[f] = IF Given(op, f) THEN op.args[f] ELSE specs[f].default
    BY <1>3, Forwarded
  <2>2. supported_field_matches(op, f, o)
    BY <1>3 DEF operation_fields_match, Fixed, Defaulted
  <2>3. \A v : canonical_enum_value(f, v) = v
    BY <1>3 DEF canonical_enum_value
  <2>4. CASE specs[f].kind = "enum"
    <3>1. (IF Given(op, f) THEN op.args[f] ELSE specs[f].default) # Null
      <4>1. CASE Given(op, f)
        BY <4>1 DEF Fixed, IsEmpty
      <4>2. CASE ~Given(op, f)
        <5>1. f \in DOMAIN specs /\ specs[f].default # <<>>
          BY <4>2 DEF Fixed, Defaulted
        <5>2. specs[f].default \in {<<"SINGLE">>, <<"PRIMARY_KEY">>}
          BY <5>1, <1>0, OperationTypes DEF field_specs_for_operation, SUPPORTED_FIELD_SPECS, Field, Identity,
             Enum, List, Boolean, Mapping, Scalar
        <5>. QED  BY <4>2, <5>2 DEF Null
      <4>. QED  BY <4>1, <4>2
    <3>. QED  BY <2>1, <2>2, <2>3, <2>4, <3>1 DEF supported_field_matches
  <2>5. CASE specs[f].kind # "enum"
    <3>1. Given(op, f)
      <4>1. f \in DOMAIN specs /\ (Given(op, f) \/ specs[f].default # <<>>)
        BY DEF Fixed, Defaulted
      <4>2. specs[f].kind # "enum" => specs[f].default = <<>>
        BY <4>1, <1>0, OperationTypes DEF field_specs_for_operation, SUPPORTED_FIELD_SPECS, Field, Identity,
           Enum, List, Boolean, Mapping, Scalar
      <4>. QED  BY <2>5, <4>1, <4>2
    <3>. QED  BY <2>1, <2>2, <2>5, <3>1 DEF supported_field_matches
  <2>. QED  BY <2>4, <2>5
<1>. QED  BY <1>1, <1>2, <1>3

Writing == {"existing", "create", "post_read", "record"}
Outcomes == {"APPLIED", "ALREADY_APPLIED", "CONFLICT", "UNKNOWN"}
Reported == {"ok", "APPLIED", "UNKNOWN", "CONFLICT", "WRITE_OUTCOME_UNKNOWN", "WRITE_CONFLICT"}

\* What holds of a call: it writes an operation that a dry run accepted, creates once, and its
\* status is about the object it read.
CallTruth(call) ==
  /\ CanonicalTypes(call.schema)
  /\ call.pc \in Writing => Applicable(call.request.ops[1]) /\ call.request.mode \in {"apply", "confirm"}
  /\ call.pc \in {"start", "consume", "existing", "create"} => call.committed = FALSE
  /\ call.pc \in {"start", "consume", "existing", "create", "post_read"} => call.status = "none"
  /\ call.pc = "record" => call.status \in Outcomes
  /\ call.status \in {"APPLIED", "ALREADY_APPLIED"} =>
       \E o \in call.observed : AsForwarded(call.request.ops[1], o)
  /\ call.status = "ALREADY_APPLIED" => call.committed = FALSE
  /\ call.pc = "done" => call.committed = FALSE \/ call.answer \in Reported

PlanOf(call) == [ops |-> call.request.ops, schema |-> call.schema]

\* A call of the legacy protocol that writes has consumed its plan, and one that succeeded
\* has its outcome in the ledger.
WritesPlan(call) == call.request.mode = "apply" /\ call.pc \in Writing
Succeeded(call) == call.request.mode = "apply" /\ call.pc = "done" /\ call.answer = "ok"

Claimed(call, ledger) ==
  /\ WritesPlan(call) => PlanOf(call) \in DOMAIN ledger /\ ledger[PlanOf(call)] = "EXECUTING"
  /\ Succeeded(call) =>
       /\ PlanOf(call) \in DOMAIN ledger /\ ledger[PlanOf(call)] = call.status
       /\ call.status \in {"APPLIED", "ALREADY_APPLIED"}

\* The plans of the ledger were accepted, and no two calls consume the same plan.
LedgerTruth(ledger) == \A p \in DOMAIN ledger : Applicable(p.ops[1])

OnePlanEach ==
  \A c, d \in SchemaCalls :
    c # d /\ WritesPlan(schema_call[c]) /\ WritesPlan(schema_call[d])
      => PlanOf(schema_call[c]) # PlanOf(schema_call[d])

TruthInv ==
  /\ CallsOK
  /\ CanonicalTypes(live_schema)
  /\ LedgerTruth(schema_ledger)
  /\ \A c \in SchemaCalls : CallTruth(schema_call[c]) /\ Claimed(schema_call[c], schema_ledger)
  /\ OnePlanEach

\* A step of one call that leaves the ledger's other plans alone keeps the invariant, if it
\* does so for the call itself.
LEMMA OneCallSteps ==
  ASSUME TruthInv, NEW c \in SchemaCalls, CallsOK',
         \A d \in SchemaCalls : d # c => schema_call'[d] = schema_call[d],
         CanonicalTypes(live_schema)', LedgerTruth(schema_ledger'),
         CallTruth(schema_call'[c]), Claimed(schema_call'[c], schema_ledger'),
         DOMAIN schema_ledger \subseteq DOMAIN schema_ledger',
         \A p \in DOMAIN schema_ledger :
           schema_ledger'[p] = schema_ledger[p]
           \/ schema_ledger[p] = "ISSUED" \/ (WritesPlan(schema_call[c]) /\ p = PlanOf(schema_call[c])),
         WritesPlan(schema_call'[c]) =>
           \/ WritesPlan(schema_call[c]) /\ PlanOf(schema_call'[c]) = PlanOf(schema_call[c])
           \/ /\ PlanOf(schema_call'[c]) \in DOMAIN schema_ledger
              /\ schema_ledger[PlanOf(schema_call'[c])] = "ISSUED"
  PROVE  TruthInv'
<1>1. ASSUME NEW d \in SchemaCalls, d # c PROVE Claimed(schema_call'[d], schema_ledger')
  <2>1. schema_call'[d] = schema_call[d] /\ Claimed(schema_call[d], schema_ledger)
    BY <1>1 DEF TruthInv
  <2> DEFINE p == PlanOf(schema_call[d])
  <2>2. CASE WritesPlan(schema_call[d])
    <3>1. p \in DOMAIN schema_ledger /\ schema_ledger[p] = "EXECUTING" /\ ~Succeeded(schema_call[d])
      BY <2>1, <2>2 DEF Claimed, WritesPlan, Succeeded, Writing
    <3>2. WritesPlan(schema_call[c]) => p # PlanOf(schema_call[c])
      BY <1>1, <2>2 DEF TruthInv, OnePlanEach
    <3>3. schema_ledger'[p] = schema_ledger[p]
      BY <3>1, <3>2
    <3>. QED  BY <2>1, <3>1, <3>3 DEF Claimed
  <2>3. CASE Succeeded(schema_call[d])
    <3>1. /\ p \in DOMAIN schema_ledger /\ schema_ledger[p] = schema_call[d].status
          /\ schema_call[d].status \in {"APPLIED", "ALREADY_APPLIED"} /\ ~WritesPlan(schema_call[d])
      BY <2>1, <2>3 DEF Claimed, WritesPlan, Succeeded, Writing
    <3>2. WritesPlan(schema_call[c]) => schema_ledger[PlanOf(schema_call[c])] = "EXECUTING"
      BY DEF TruthInv, Claimed
    <3>3. schema_ledger'[p] = schema_ledger[p]
      BY <3>1, <3>2
    <3>. QED  BY <2>1, <3>1, <3>3 DEF Claimed
  <2>. QED  BY <2>1, <2>2, <2>3 DEF Claimed
<1>2. OnePlanEach'
  <2>1. ASSUME NEW d \in SchemaCalls, d # c, WritesPlan(schema_call'[c]), WritesPlan(schema_call'[d])
        PROVE  PlanOf(schema_call'[c]) # PlanOf(schema_call'[d])
    <3>1. /\ schema_call'[d] = schema_call[d] /\ WritesPlan(schema_call[d])
          /\ schema_ledger[PlanOf(schema_call[d])] = "EXECUTING"
      BY <2>1 DEF TruthInv, Claimed
    <3>2. WritesPlan(schema_call[c]) => PlanOf(schema_call[c]) # PlanOf(schema_call[d])
      BY <2>1, <3>1 DEF TruthInv, OnePlanEach
    <3>. QED  BY <2>1, <3>1, <3>2
  <2>2. ASSUME NEW d \in SchemaCalls, NEW e \in SchemaCalls, d # e, d # c, e # c,
               WritesPlan(schema_call'[d]), WritesPlan(schema_call'[e])
        PROVE  PlanOf(schema_call'[d]) # PlanOf(schema_call'[e])
    BY <2>2 DEF TruthInv, OnePlanEach
  <2>. QED  BY <2>1, <2>2 DEF OnePlanEach
<1>3. \A d \in SchemaCalls : CallTruth(schema_call'[d])
  BY DEF TruthInv
<1>. QED  BY <1>1, <1>2, <1>3 DEF TruthInv

\* A call that ends before it writes keeps the invariant.
LEMMA EndsEarly ==
  ASSUME TruthInv, NEW c \in SchemaCalls, schema_call[c].pc \in {"start", "consume"},
         NEW a, a # "ok" \/ schema_call[c].request.mode # "apply", Answered(c, a),
         UNCHANGED live_schema, LedgerTruth(schema_ledger'),
         DOMAIN schema_ledger \subseteq DOMAIN schema_ledger',
         \A p \in DOMAIN schema_ledger : schema_ledger'[p] = schema_ledger[p]
  PROVE  TruthInv'
<1>1. /\ CallsOK' /\ \A d \in SchemaCalls : d # c => schema_call'[d] = schema_call[d]
      /\ schema_call'[c] = [schema_call[c] EXCEPT !.pc = "done", !.answer = a]
  BY DEF TruthInv, CallsOK, CallFields, Answered
<1>2. /\ schema_call'[c].pc = "done" /\ schema_call'[c].answer = a
      /\ schema_call'[c].request = schema_call[c].request /\ schema_call'[c].schema = schema_call[c].schema
      /\ schema_call'[c].committed = schema_call[c].committed /\ schema_call'[c].status = schema_call[c].status
      /\ schema_call'[c].observed = schema_call[c].observed
  BY <1>1 DEF TruthInv, CallsOK, CallFields
<1>3. CallTruth(schema_call[c])
  BY DEF TruthInv
<1>4. CallTruth(schema_call'[c])
  BY <1>2, <1>3 DEF CallTruth, Writing
<1>5. ~WritesPlan(schema_call'[c]) /\ ~Succeeded(schema_call'[c])
  BY <1>2 DEF WritesPlan, Succeeded, Writing
<1>6. Claimed(schema_call'[c], schema_ledger')
  BY <1>5 DEF Claimed
<1>7. CanonicalTypes(live_schema)'
  BY DEF TruthInv, CanonicalTypes
<1>. QED  BY <1>1, <1>4, <1>5, <1>6, <1>7, OneCallSteps

LEMMA ReadKeepsTruth ==
  ASSUME TruthInv, NEW c \in SchemaCalls, manage_schema_read(c) \/ inspect_schema(c)
  PROVE  TruthInv'
<1>0. /\ UNCHANGED <<live_schema, schema_ledger>> /\ LedgerTruth(schema_ledger')
      /\ CanonicalTypes(live_schema)' /\ CanonicalTypes(live_schema)
  BY DEF manage_schema_read, inspect_schema, TruthInv, LedgerTruth, CanonicalTypes
<1>1. schema_call[c].pc = "start" /\ schema_call[c].request.mode # "apply"
  BY DEF manage_schema_read, inspect_schema, CallAt
<1>2. CASE \E a : Answered(c, a)
  BY <1>0, <1>1, <1>2, EndsEarly
<1>3. CASE schema_call' = [schema_call EXCEPT
             ![c].pc = "done", ![c].answer = "ok", ![c].schema = live_schema,
             ![c].valid = validate_schema_operations(schema_call[c].request.ops, live_schema)]
  <2>1. /\ CallsOK' /\ \A d \in SchemaCalls : d # c => schema_call'[d] = schema_call[d]
        /\ schema_call'[c].pc = "done"
        /\ schema_call'[c].request = schema_call[c].request /\ schema_call'[c].schema = live_schema
        /\ schema_call'[c].committed = schema_call[c].committed /\ schema_call'[c].status = schema_call[c].status
        /\ schema_call'[c].observed = schema_call[c].observed
    BY <1>3 DEF TruthInv, CallsOK, CallFields
  <2>2. CallTruth(schema_call[c])
    BY DEF TruthInv
  <2>3. CallTruth(schema_call'[c])
    BY <1>0, <1>1, <2>1, <2>2 DEF CallTruth, Writing
  <2>4. ~WritesPlan(schema_call'[c]) /\ ~Succeeded(schema_call'[c])
    BY <1>1, <2>1 DEF WritesPlan, Succeeded, Writing
  <2>5. Claimed(schema_call'[c], schema_ledger')
    BY <2>4 DEF Claimed
  <2>. QED  BY <1>0, <2>1, <2>3, <2>4, <2>5, OneCallSteps
<1>4. (\E a : Answered(c, a)) \/
      schema_call' = [schema_call EXCEPT
             ![c].pc = "done", ![c].answer = "ok", ![c].schema = live_schema,
             ![c].valid = validate_schema_operations(schema_call[c].request.ops, live_schema)]
  BY DEF manage_schema_read, inspect_schema
<1>. QED  BY <1>2, <1>3, <1>4

LEMMA DryRunKeepsTruth ==
  ASSUME TruthInv, NEW c \in SchemaCalls, manage_schema_dry_run(c)
  PROVE  TruthInv'
<1> DEFINE r == schema_call[c].request
           plan == [ops |-> r.ops, schema |-> live_schema]
           issues == dry_run_schema_operations(r.ops, live_schema) /\ ~r.readonly
<1>1. /\ schema_call[c].pc = "start" /\ r.mode # "apply" /\ UNCHANGED live_schema
      /\ \E a : Answered(c, a)
  BY DEF manage_schema_dry_run, CallAt
<1>2. \/ UNCHANGED schema_ledger
      \/ schema_ledger' = [p \in DOMAIN schema_ledger \union (IF issues THEN {plan} ELSE {}) |->
                             IF p \in DOMAIN schema_ledger THEN schema_ledger[p] ELSE "ISSUED"]
  BY DEF manage_schema_dry_run
<1>3. CASE UNCHANGED schema_ledger
  BY <1>1, <1>3, EndsEarly DEF TruthInv, LedgerTruth
<1>4. CASE schema_ledger' = [p \in DOMAIN schema_ledger \union (IF issues THEN {plan} ELSE {}) |->
                               IF p \in DOMAIN schema_ledger THEN schema_ledger[p] ELSE "ISSUED"]
  <2>1. /\ DOMAIN schema_ledger' = DOMAIN schema_ledger \union (IF issues THEN {plan} ELSE {})
        /\ \A p \in DOMAIN schema_ledger : schema_ledger'[p] = schema_ledger[p]
    BY <1>4
  <2>2. issues => Applicable(plan.ops[1])
    <3>1. issues => Applicable(r.ops[1])
      BY AcceptedIsApplicable DEF TruthInv, CallsOK
    <3>. QED  BY <3>1
  <2>3. LedgerTruth(schema_ledger')
    <3> HIDE DEF issues, plan
    <3>. QED  BY <2>1, <2>2 DEF TruthInv, LedgerTruth
  <2>4. DOMAIN schema_ledger \subseteq DOMAIN schema_ledger'
    BY <2>1
  <2>. QED  BY <1>1, <2>1, <2>3, <2>4, EndsEarly
<1>. QED  BY <1>2, <1>3, <1>4

LEMMA ApplyKeepsTruth ==
  ASSUME TruthInv, NEW c \in SchemaCalls, manage_schema_apply(c)
  PROVE  TruthInv'
<1>0. /\ UNCHANGED <<live_schema, schema_ledger>> /\ LedgerTruth(schema_ledger')
      /\ CanonicalTypes(live_schema)' /\ CanonicalTypes(live_schema)
  BY DEF manage_schema_apply, TruthInv, LedgerTruth, CanonicalTypes
<1>1. schema_call[c].pc = "start"
  BY DEF manage_schema_apply, CallAt
<1>2. \/ \E a \in {"REPLAYED", "CONNECTION_FAILED", "SCHEMA_MISMATCH", "READONLY_VIOLATION"} : Answered(c, a)
      \/ schema_call' = [schema_call EXCEPT ![c].pc = "consume", ![c].schema = live_schema]
  BY DEF manage_schema_apply
<1>3. CASE \E a \in {"REPLAYED", "CONNECTION_FAILED", "SCHEMA_MISMATCH", "READONLY_VIOLATION"} : Answered(c, a)
  BY <1>0, <1>1, <1>3, EndsEarly
<1>4. CASE schema_call' = [schema_call EXCEPT ![c].pc = "consume", ![c].schema = live_schema]
  <2>1. /\ CallsOK' /\ \A d \in SchemaCalls : d # c => schema_call'[d] = schema_call[d]
        /\ schema_call'[c].pc = "consume"
        /\ schema_call'[c].request = schema_call[c].request /\ schema_call'[c].schema = live_schema
        /\ schema_call'[c].committed = schema_call[c].committed /\ schema_call'[c].status = schema_call[c].status
        /\ schema_call'[c].observed = schema_call[c].observed
    BY <1>4 DEF TruthInv, CallsOK, CallFields
  <2>2. CallTruth(schema_call[c])
    BY DEF TruthInv
  <2>3. CallTruth(schema_call'[c])
    BY <1>0, <1>1, <2>1, <2>2 DEF CallTruth, Writing
  <2>4. ~WritesPlan(schema_call'[c]) /\ ~Succeeded(schema_call'[c])
    BY <2>1 DEF WritesPlan, Succeeded, Writing
  <2>5. Claimed(schema_call'[c], schema_ledger')
    BY <2>4 DEF Claimed
  <2>. QED  BY <1>0, <2>1, <2>3, <2>4, <2>5, OneCallSteps
<1>. QED  BY <1>2, <1>3, <1>4

LEMMA ConsumeKeepsTruth ==
  ASSUME TruthInv, NEW c \in SchemaCalls, consume_schema_plan(c)
  PROVE  TruthInv'
<1>0. UNCHANGED live_schema /\ CanonicalTypes(live_schema)'
  BY DEF consume_schema_plan, TruthInv, CanonicalTypes
<1>1. schema_call[c].pc = "consume" /\ schema_call[c].request.mode = "apply"
  BY DEF consume_schema_plan, CallAt
<1>2. CASE Answered(c, "PLAN_HASH_MISMATCH") /\ UNCHANGED schema_ledger
  BY <1>0, <1>1, <1>2, EndsEarly DEF TruthInv, LedgerTruth
<1>3. CASE /\ Plan(c) \in DOMAIN schema_ledger /\ schema_ledger[Plan(c)] = "ISSUED"
           /\ schema_ledger' = [schema_ledger EXCEPT ![Plan(c)] = "EXECUTING"]
           /\ schema_call' = [schema_call EXCEPT ![c].pc = "existing"]
  <2>1. /\ CallsOK' /\ \A d \in SchemaCalls : d # c => schema_call'[d] = schema_call[d]
        /\ schema_call'[c].pc = "existing"
        /\ schema_call'[c].request = schema_call[c].request /\ schema_call'[c].schema = schema_call[c].schema
        /\ schema_call'[c].committed = schema_call[c].committed /\ schema_call'[c].status = schema_call[c].status
        /\ schema_call'[c].observed = schema_call[c].observed
    BY <1>3 DEF TruthInv, CallsOK, CallFields
  <2>2. PICK p : p = Plan(c)
    OBVIOUS
  <2>3. p = PlanOf(schema_call[c]) /\ p = PlanOf(schema_call'[c]) /\ p.ops = schema_call[c].request.ops
    BY <2>1, <2>2 DEF Plan, PlanOf
  <2>4. /\ p \in DOMAIN schema_ledger /\ schema_ledger[p] = "ISSUED" /\ schema_ledger'[p] = "EXECUTING"
        /\ DOMAIN schema_ledger' = DOMAIN schema_ledger
        /\ \A q \in DOMAIN schema_ledger : q # p => schema_ledger'[q] = schema_ledger[q]
    BY <1>3, <2>2
  <2>5. CallTruth(schema_call[c]) /\ Applicable(schema_call[c].request.ops[1])
    BY <2>3, <2>4 DEF TruthInv, LedgerTruth
  <2>6. CallTruth(schema_call'[c])
    BY <1>1, <2>1, <2>5 DEF CallTruth, Writing
  <2>7. Claimed(schema_call'[c], schema_ledger')
    BY <2>1, <2>3, <2>4 DEF Claimed, Succeeded
  <2>8. LedgerTruth(schema_ledger')
    BY <2>4 DEF TruthInv, LedgerTruth
  <2>. QED  BY <1>0, <2>1, <2>3, <2>4, <2>6, <2>7, <2>8, OneCallSteps
<1>. QED  BY <1>2, <1>3 DEF consume_schema_plan

LEMMA AdapterKeepsTruth ==
  ASSUME TruthInv, NEW c \in SchemaCalls, schema_create_adapter(c)
  PROVE  TruthInv'
<1>0. /\ UNCHANGED <<live_schema, schema_ledger>> /\ LedgerTruth(schema_ledger')
      /\ CanonicalTypes(live_schema)' /\ CanonicalTypes(live_schema)
  BY DEF schema_create_adapter, TruthInv, LedgerTruth, CanonicalTypes
<1>1. schema_call[c].pc = "start" /\ schema_call[c].request.mode = "confirm"
  BY DEF schema_create_adapter, CallAt
<1>2. PICK p \in DOMAIN schema_ledger :
        /\ p.ops = schema_call[c].request.ops
        /\ \/ schema_call' = [schema_call EXCEPT ![c].pc = "done", ![c].status = "REJECTED"]
           \/ schema_call' = [schema_call EXCEPT ![c].pc = "existing", ![c].schema = live_schema]
  BY DEF schema_create_adapter
<1>3. Applicable(schema_call[c].request.ops[1]) /\ CallTruth(schema_call[c])
  BY <1>2 DEF TruthInv, LedgerTruth
<1>4. CallsOK' /\ \A d \in SchemaCalls : d # c => schema_call'[d] = schema_call[d]
  BY <1>2 DEF TruthInv, CallsOK, CallFields
<1>5. /\ schema_call'[c].request = schema_call[c].request
      /\ schema_call'[c].committed = schema_call[c].committed /\ schema_call'[c].observed = schema_call[c].observed
      /\ \/ /\ schema_call'[c].pc = "done" /\ schema_call'[c].status = "REJECTED"
            /\ schema_call'[c].schema = schema_call[c].schema
         \/ /\ schema_call'[c].pc = "existing" /\ schema_call'[c].status = schema_call[c].status
            /\ schema_call'[c].schema = live_schema
  BY <1>2 DEF TruthInv, CallsOK, CallFields
<1>6. CallTruth(schema_call'[c])
  BY <1>0, <1>1, <1>3, <1>5 DEF CallTruth, Writing
<1>7. ~WritesPlan(schema_call'[c]) /\ ~Succeeded(schema_call'[c])
  BY <1>1, <1>5 DEF WritesPlan, Succeeded
<1>8. Claimed(schema_call'[c], schema_ledger')
  BY <1>7 DEF Claimed
<1>. QED  BY <1>0, <1>4, <1>6, <1>7, <1>8, OneCallSteps

\* A call that goes on writing under the plan it has keeps the invariant.
LEMMA KeepsWriting ==
  ASSUME TruthInv, NEW c \in SchemaCalls, schema_call[c].pc \in Writing, UNCHANGED schema_ledger,
         CallsOK', \A d \in SchemaCalls : d # c => schema_call'[d] = schema_call[d],
         schema_call'[c].request = schema_call[c].request, schema_call'[c].schema = schema_call[c].schema,
         schema_call'[c].pc \in Writing, CallTruth(schema_call'[c]), CanonicalTypes(live_schema)'
  PROVE  TruthInv'
<1>1. /\ PlanOf(schema_call'[c]) = PlanOf(schema_call[c])
      /\ WritesPlan(schema_call'[c]) <=> WritesPlan(schema_call[c])
      /\ ~Succeeded(schema_call'[c]) /\ Claimed(schema_call[c], schema_ledger)
  BY DEF PlanOf, WritesPlan, Succeeded, Writing, TruthInv
<1>2. Claimed(schema_call'[c], schema_ledger')
  BY <1>1 DEF Claimed
<1>3. LedgerTruth(schema_ledger')
  BY DEF TruthInv, LedgerTruth
<1>. QED  BY <1>1, <1>2, <1>3, OneCallSteps

\* A receipt that says the object is there is about an object with the forwarded fields.
LEMMA ReceiptTruth ==
  ASSUME TruthInv, NEW c \in SchemaCalls, schema_call[c].pc \in Writing, NEW s, NEW S, CanonicalTypes(S),
         UNCHANGED schema_ledger, CanonicalTypes(live_schema)', s \in Outcomes, Received(c, s, S),
         s \in {"APPLIED", "ALREADY_APPLIED"}
           => schema_object_state(schema_call[c].request.ops[1], S) = "identical",
         s = "ALREADY_APPLIED" => schema_call[c].committed = FALSE
  PROVE  TruthInv'
<1> DEFINE op == schema_call[c].request.ops[1]
<1>1. /\ CallsOK' /\ \A d \in SchemaCalls : d # c => schema_call'[d] = schema_call[d]
      /\ schema_call'[c].pc = "record" /\ schema_call'[c].status = s
      /\ schema_call'[c].observed = find_schema_item(op, S)
      /\ schema_call'[c].request = schema_call[c].request /\ schema_call'[c].schema = schema_call[c].schema
      /\ schema_call'[c].committed = schema_call[c].committed
  BY DEF TruthInv, CallsOK, CallFields, Received
<1>2. CallTruth(schema_call[c]) /\ Applicable(op)
  BY DEF TruthInv, CallTruth
<1>3. ASSUME s \in {"APPLIED", "ALREADY_APPLIED"}
      PROVE  \E o \in find_schema_item(op, S) : AsForwarded(op, o)
  <2>1. \E o \in find_schema_item(op, S) : operation_fields_match(op, o)
    BY <1>3 DEF schema_object_state
  <2>2. PICK o \in find_schema_item(op, S) : operation_fields_match(op, o)
    BY <2>1
  <2>3. o \in S /\ o.type = op.type /\ o.fields.name = Arg(op, "name")
    BY DEF find_schema_item
  <2>4. AsForwarded(op, o)
    BY <1>2, <2>2, <2>3, MatchedIsForwarded
  <2>. QED  BY <2>4
<1>4. CallTruth(schema_call'[c])
  BY <1>1, <1>2, <1>3 DEF CallTruth, Writing
<1>5. schema_call'[c].pc \in Writing
  BY <1>1 DEF Writing
<1>. QED  BY <1>1, <1>4, <1>5, KeepsWriting

LEMMA ExistingKeepsTruth ==
  ASSUME TruthInv, NEW c \in SchemaCalls, apply_existing(c)
  PROVE  TruthInv'
<1> DEFINE state == schema_object_state(schema_call[c].request.ops[1], schema_call[c].schema)
<1>0. UNCHANGED <<live_schema, schema_ledger>> /\ CanonicalTypes(live_schema)'
  BY DEF apply_existing, TruthInv, CanonicalTypes
<1>1. schema_call[c].pc = "existing" /\ schema_call[c].pc \in Writing
  BY DEF apply_existing, Writing
<1>2. CallTruth(schema_call[c]) /\ CanonicalTypes(schema_call[c].schema) /\ schema_call[c].committed = FALSE
  BY <1>1 DEF TruthInv, CallTruth
<1>3. CASE state = "identical"
  BY <1>0, <1>1, <1>2, <1>3, ReceiptTruth DEF apply_existing, Outcomes
<1>4. CASE state = "conflict"
  BY <1>0, <1>1, <1>2, <1>4, ReceiptTruth DEF apply_existing, Outcomes
<1>5. CASE state \notin {"identical", "conflict"}
  <2>0. schema_call' = [schema_call EXCEPT ![c].pc = "create"]
    BY <1>5 DEF apply_existing
  <2>1. /\ CallsOK' /\ \A d \in SchemaCalls : d # c => schema_call'[d] = schema_call[d]
        /\ schema_call'[c].pc = "create" /\ schema_call'[c].status = schema_call[c].status
        /\ schema_call'[c].observed = schema_call[c].observed
        /\ schema_call'[c].request = schema_call[c].request /\ schema_call'[c].schema = schema_call[c].schema
        /\ schema_call'[c].committed = schema_call[c].committed
    BY <2>0 DEF TruthInv, CallsOK, CallFields
  <2>2. CallTruth(schema_call'[c]) /\ schema_call'[c].pc \in Writing
    BY <1>1, <1>2, <2>1 DEF CallTruth, Writing
  <2>. QED  BY <1>0, <1>1, <2>1, <2>2, KeepsWriting
<1>. QED  BY <1>3, <1>4, <1>5

LEMMA CreateKeepsTruth ==
  ASSUME TruthInv, NEW c \in SchemaCalls, apply_create(c)
  PROVE  TruthInv'
<1> DEFINE sent == builder_create(apply_one_operation(schema_call[c].request.ops[1]))
<1>1. /\ schema_call[c].pc = "create" /\ schema_call[c].pc \in Writing /\ UNCHANGED schema_ledger
      /\ CallTruth(schema_call[c]) /\ CanonicalTypes(live_schema)
  BY DEF apply_create, Writing, TruthInv
<1>2. CASE Received(c, "UNKNOWN", {}) /\ UNCHANGED live_schema
  <2>1. CanonicalTypes({}) /\ CanonicalTypes(live_schema)'
    BY <1>1, <1>2 DEF CanonicalTypes
  <2>. QED  BY <1>1, <1>2, <2>1, ReceiptTruth DEF Outcomes
<1>3. ASSUME NEW lost \in BOOLEAN, NEW o \in sent, live_schema' = live_schema \union {o},
             schema_call' = [schema_call EXCEPT
               ![c].committed = TRUE, ![c].status = IF lost THEN "UNKNOWN" ELSE @,
               ![c].pc = IF lost THEN "record" ELSE "post_read"]
      PROVE  TruthInv'
  <2>1. /\ CallsOK' /\ \A d \in SchemaCalls : d # c => schema_call'[d] = schema_call[d]
        /\ schema_call'[c].observed = schema_call[c].observed
        /\ schema_call'[c].request = schema_call[c].request /\ schema_call'[c].schema = schema_call[c].schema
    BY <1>3 DEF TruthInv, CallsOK, CallFields
  <2>2. \/ schema_call'[c].pc = "record" /\ schema_call'[c].status = "UNKNOWN"
        \/ schema_call'[c].pc = "post_read" /\ schema_call'[c].status = schema_call[c].status
    BY <1>3 DEF TruthInv, CallsOK, CallFields
  <2>3. schema_call[c].status = "none"
    BY <1>1 DEF CallTruth
  <2>4. CallTruth(schema_call'[c]) /\ schema_call'[c].pc \in Writing
    BY <1>1, <2>1, <2>2, <2>3 DEF CallTruth, Writing, Outcomes
  <2>5. CanonicalTypes(live_schema')
    BY <1>1, <1>3, CreatesCanonical
  <2>6. CanonicalTypes(live_schema)'
    BY <2>5 DEF CanonicalTypes
  <2>. QED  BY <1>1, <2>1, <2>4, <2>6, KeepsWriting
<1>4. \/ Received(c, "UNKNOWN", {}) /\ UNCHANGED live_schema
      \/ \E lost \in BOOLEAN, o \in sent :
           /\ live_schema' = live_schema \union {o}
           /\ schema_call' = [schema_call EXCEPT
                ![c].committed = TRUE, ![c].status = IF lost THEN "UNKNOWN" ELSE @,
                ![c].pc = IF lost THEN "record" ELSE "post_read"]
  BY DEF apply_create
<1>. QED  BY <1>2, <1>3, <1>4

LEMMA PostReadKeepsTruth ==
  ASSUME TruthInv, NEW c \in SchemaCalls, apply_post_read(c)
  PROVE  TruthInv'
<1> DEFINE state == schema_object_state(schema_call[c].request.ops[1], live_schema)
           status == CASE state = "conflict" -> "CONFLICT" [] state = "missing" -> "UNKNOWN"
                       [] OTHER -> "APPLIED"
<1>1. /\ schema_call[c].pc = "post_read" /\ schema_call[c].pc \in Writing
      /\ UNCHANGED <<live_schema, schema_ledger>>
      /\ CanonicalTypes(live_schema) /\ CanonicalTypes(live_schema)' /\ CanonicalTypes({})
  BY DEF apply_post_read, Writing, TruthInv, CanonicalTypes
<1>2. CASE Received(c, "UNKNOWN", {})
  BY <1>1, <1>2, ReceiptTruth DEF Outcomes
<1>3. CASE Received(c, status, live_schema)
  <2>1. state \in {"missing", "identical", "conflict"}
    BY DEF schema_object_state
  <2>2. status \in Outcomes /\ status # "ALREADY_APPLIED" /\ (status = "APPLIED" => state = "identical")
    BY <2>1 DEF Outcomes
  <2> HIDE DEF status
  <2>. QED  BY <1>1, <1>3, <2>2, ReceiptTruth
<1>. QED  BY <1>2, <1>3 DEF apply_post_read

\* A call that ends with its status in the ledger, if it needs to be there.
LEMMA RecordKeepsTruth ==
  ASSUME TruthInv, NEW c \in SchemaCalls, record_schema_outcome(c)
  PROVE  TruthInv'
<1> DEFINE status == schema_call[c].status
<1>1. /\ schema_call[c].pc = "record" /\ schema_call[c].pc \in Writing /\ UNCHANGED live_schema
      /\ CallTruth(schema_call[c]) /\ CanonicalTypes(live_schema)' /\ status \in Outcomes
      /\ schema_call[c].request.mode \in {"apply", "confirm"}
  BY DEF record_schema_outcome, Writing, TruthInv, CanonicalTypes, CallTruth
<1>2. PICK a : /\ Answered(c, a)
               /\ schema_call[c].request.mode = "confirm" => a = status /\ UNCHANGED schema_ledger
               /\ schema_call[c].request.mode = "apply" =>
                    /\ Recorded(c, status) \/ (UNCHANGED schema_ledger /\ a = "WRITE_OUTCOME_UNKNOWN")
                    /\ a \in {"WRITE_OUTCOME_UNKNOWN", "WRITE_CONFLICT", "ok"}
                    /\ a = "ok" => status \notin {"UNKNOWN", "CONFLICT"}
  BY <1>1 DEF record_schema_outcome
<1>3. /\ CallsOK' /\ \A d \in SchemaCalls : d # c => schema_call'[d] = schema_call[d]
      /\ schema_call'[c].pc = "done" /\ schema_call'[c].answer = a
      /\ schema_call'[c].request = schema_call[c].request /\ schema_call'[c].schema = schema_call[c].schema
      /\ schema_call'[c].committed = schema_call[c].committed /\ schema_call'[c].status = status
      /\ schema_call'[c].observed = schema_call[c].observed
  BY <1>2 DEF TruthInv, CallsOK, CallFields, Answered
<1>4. CallTruth(schema_call'[c])
  BY <1>1, <1>2, <1>3 DEF CallTruth, Writing, Outcomes, Reported
<1>5. PlanOf(schema_call'[c]) = PlanOf(schema_call[c]) /\ ~WritesPlan(schema_call'[c])
  BY <1>3 DEF PlanOf, WritesPlan, Writing
<1>6. CASE UNCHANGED schema_ledger /\ ~Succeeded(schema_call'[c])
  <2>1. Claimed(schema_call'[c], schema_ledger') /\ LedgerTruth(schema_ledger')
    BY <1>5, <1>6 DEF Claimed, TruthInv, LedgerTruth
  <2>. QED  BY <1>1, <1>3, <1>4, <1>5, <1>6, <2>1, OneCallSteps
<1>7. CASE Recorded(c, status) /\ schema_call[c].request.mode = "apply"
  <2>1. PICK p : p = PlanOf(schema_call[c])
    OBVIOUS
  <2>2. WritesPlan(schema_call[c]) /\ p \in DOMAIN schema_ledger
    BY <1>1, <1>7, <2>1 DEF WritesPlan, TruthInv, Claimed
  <2>3. /\ DOMAIN schema_ledger' = DOMAIN schema_ledger /\ schema_ledger'[p] = status
        /\ \A q \in DOMAIN schema_ledger : q # p => schema_ledger'[q] = schema_ledger[q]
    BY <1>7, <2>1, <2>2 DEF Recorded, Plan, PlanOf
  <2>4. LedgerTruth(schema_ledger')
    BY <2>3 DEF TruthInv, LedgerTruth
  <2>5. Claimed(schema_call'[c], schema_ledger')
    BY <1>1, <1>2, <1>3, <1>5, <1>7, <2>1, <2>2, <2>3 DEF Claimed, Succeeded, Outcomes
  <2>. QED  BY <1>1, <1>3, <1>4, <1>5, <2>1, <2>2, <2>3, <2>4, <2>5, OneCallSteps
<1>. QED  BY <1>1, <1>2, <1>3, <1>6, <1>7 DEF Succeeded

\* What a schema call reports is what happened, whatever the other calls and other clients
\* do meanwhile (apply_schema_operations, schema_create_adapter and the ledger).
THEOREM SchemaReportsTrue == SchemaSpec => []SchemaAnswersTruthful
<1>1. SchemaInit => TruthInv
  <2> SUFFICES ASSUME SchemaInit PROVE TruthInv
    OBVIOUS
  <2>1. CallsOK /\ schema_ledger = <<>> /\ live_schema = InitialSchema
    BY DEF SchemaInit, CallsOK, CallFields, NewCall
  <2>2. \A c \in SchemaCalls :
          /\ schema_call[c].pc = "start" /\ schema_call[c].schema = {} /\ schema_call[c].committed = FALSE
          /\ schema_call[c].status = "none" /\ schema_call[c].answer = "none"
    BY DEF SchemaInit, NewCall
  <2>3. \A c \in SchemaCalls : CallTruth(schema_call[c])
    BY <2>2 DEF CallTruth, CanonicalTypes, Writing
  <2>4. \A c \in SchemaCalls : ~WritesPlan(schema_call[c]) /\ ~Succeeded(schema_call[c])
    BY <2>2 DEF WritesPlan, Succeeded, Writing
  <2>5. (\A c \in SchemaCalls : Claimed(schema_call[c], schema_ledger)) /\ OnePlanEach
    BY <2>4 DEF Claimed, OnePlanEach
  <2>6. CanonicalTypes(live_schema) /\ LedgerTruth(schema_ledger)
    BY <2>1, SchemaAssumption DEF CanonicalTypes, LedgerTruth
  <2>. QED  BY <2>1, <2>3, <2>5, <2>6 DEF TruthInv
<1>2. TruthInv /\ [SchemaNext]_schemaVars => TruthInv'
  <2> SUFFICES ASSUME TruthInv, [SchemaNext]_schemaVars PROVE TruthInv'
    OBVIOUS
  <2>1. CASE UNCHANGED <<schema_call, schema_ledger>> /\ CanonicalTypes(live_schema)'
    BY <2>1 DEF TruthInv, CallsOK, LedgerTruth, OnePlanEach, CanonicalTypes
  <2>2. CASE ForeignSchemaChange
    <3>1. UNCHANGED <<schema_call, schema_ledger>>
      BY <2>2 DEF ForeignSchemaChange
    <3>2. live_schema' \subseteq live_schema \union ForeignObjects
      BY <2>2 DEF ForeignSchemaChange
    <3>3. CanonicalTypes(live_schema)'
      BY <3>2, SchemaAssumption DEF TruthInv, CanonicalTypes
    <3>. QED  BY <2>1, <3>1, <3>3
  <2>3. CASE UNCHANGED schemaVars
    BY <2>1, <2>3 DEF schemaVars, TruthInv, CanonicalTypes
  <2>4. ASSUME NEW c \in SchemaCalls,
               \/ manage_schema_read(c) \/ inspect_schema(c)
               \/ manage_schema_dry_run(c) \/ manage_schema_apply(c)
               \/ consume_schema_plan(c) \/ schema_create_adapter(c) \/ apply_existing(c)
               \/ apply_create(c) \/ apply_post_read(c) \/ record_schema_outcome(c)
        PROVE  TruthInv'
    BY <2>4, ReadKeepsTruth, DryRunKeepsTruth, ApplyKeepsTruth, ConsumeKeepsTruth, AdapterKeepsTruth,
       ExistingKeepsTruth, CreateKeepsTruth, PostReadKeepsTruth, RecordKeepsTruth
  <2>. QED  BY <2>2, <2>3, <2>4 DEF SchemaNext
<1>3. TruthInv => SchemaAnswersTruthful
  <2> SUFFICES ASSUME TruthInv, NEW c \in SchemaCalls, schema_call[c].pc = "done"
               PROVE
                 /\ schema_call[c].status \in {"APPLIED", "ALREADY_APPLIED"} =>
                      \E o \in schema_call[c].observed : \A f \in Fixed(schema_call[c].request.ops[1]) :
                        o.fields[f] = apply_one_operation(schema_call[c].request.ops[1]).fields[f]
                 /\ schema_call[c].status = "ALREADY_APPLIED" => ~schema_call[c].committed
                 /\ schema_call[c].committed =>
                      schema_call[c].answer \in {"ok", "APPLIED", "UNKNOWN", "CONFLICT",
                                                 "WRITE_OUTCOME_UNKNOWN", "WRITE_CONFLICT"}
                 /\ schema_call[c].request.mode = "apply" /\ schema_call[c].answer = "ok"
                      => schema_ledger[Plan(c)] = schema_call[c].status
    BY DEF SchemaAnswersTruthful
  <2>1. CallTruth(schema_call[c]) /\ Claimed(schema_call[c], schema_ledger)
    BY DEF TruthInv
  <2>2. Plan(c) = PlanOf(schema_call[c])
    BY DEF Plan, PlanOf
  <2>. QED  BY <2>1, <2>2 DEF CallTruth, Claimed, Succeeded, Reported, AsForwarded
<1>. QED  BY <1>1, <1>2, <1>3, PTL DEF SchemaSpec
=============================================================================
