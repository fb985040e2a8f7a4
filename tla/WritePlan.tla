----------------------------- MODULE WritePlan -----------------------------
(***************************************************************************)
(* The state rules of confirmed writes (hugegraph_mcp/write_plan.py and    *)
(* the aggregation of plan_store.py): the statuses of one operation and of *)
(* one plan, the explicit transition table, and the aggregate status of a  *)
(* plan.  Both aggregation functions only ask which statuses occur, so     *)
(* they take the SET of the operations' statuses.                          *)
(***************************************************************************)

\* Evidence-backed outcomes of one operation.
ApplyStatus == {"APPLIED", "ALREADY_APPLIED", "REJECTED", "CONFLICT", "PARTIAL",
                "UNKNOWN", "LEGACY_UNKNOWN", "RETRYABLE_NOT_APPLIED"}

\* Lifecycle and aggregate outcomes of a plan; operation rows use them too.
PlanStatus == ApplyStatus \cup {"ISSUED", "EXECUTING", "EXPIRED"}

Success == {"APPLIED", "ALREADY_APPLIED"}

ALLOWED_PLAN_TRANSITIONS ==
  [s \in PlanStatus |->
     CASE s = "ISSUED" -> {"EXECUTING", "EXPIRED"}
       [] s = "EXECUTING" -> {"APPLIED", "ALREADY_APPLIED", "REJECTED",
                              "CONFLICT", "PARTIAL", "UNKNOWN"}
       [] s \in {"UNKNOWN", "LEGACY_UNKNOWN"} ->
                             {"APPLIED", "CONFLICT", "RETRYABLE_NOT_APPLIED"}
       [] s = "RETRYABLE_NOT_APPLIED" -> {"EXECUTING"}
       [] s = "PARTIAL" -> {"PARTIAL", "APPLIED", "UNKNOWN"}
       [] OTHER -> {}]

can_transition(current, target) == target \in ALLOWED_PLAN_TRANSITIONS[current]

\* The statuses the table gives no way out of.
Terminal == {"APPLIED", "ALREADY_APPLIED", "REJECTED", "CONFLICT", "EXPIRED"}

\* Mutant: a status outside the enumeration.
aggregate_untyped(statuses) ==
  IF statuses \subseteq Success THEN "APPLIED" ELSE "NOT_APPLIED"

\* Aggregate over operations that all have an outcome.
aggregate_plan_status(statuses) ==
  IF statuses = {} THEN "ISSUED"
  ELSE IF statuses = {"ALREADY_APPLIED"} THEN "ALREADY_APPLIED"
  ELSE IF statuses \subseteq Success THEN "APPLIED"
  ELSE IF statuses \cap Success # {} \/ "PARTIAL" \in statuses THEN "PARTIAL"
  ELSE IF "UNKNOWN" \in statuses THEN "UNKNOWN"
  ELSE IF "CONFLICT" \in statuses THEN "CONFLICT"
  ELSE IF "RETRYABLE_NOT_APPLIED" \in statuses THEN "RETRYABLE_NOT_APPLIED"
  ELSE "REJECTED"

\* Mutant: pending rows are left out of the aggregate.
aggregate_ignores_pending(statuses) ==
  aggregate_plan_status(statuses \cap ApplyStatus)

\* Aggregate over the persisted rows, some of which may still be pending.
aggregate_persisted_statuses(statuses) ==
  LET completed == statuses \cap ApplyStatus
  IN  IF statuses \subseteq ApplyStatus THEN aggregate_plan_status(completed)
      ELSE IF completed \cap Success # {} THEN "PARTIAL"
      ELSE IF "UNKNOWN" \in completed THEN "UNKNOWN"
      ELSE IF "CONFLICT" \in completed THEN "CONFLICT"
      ELSE IF "RETRYABLE_NOT_APPLIED" \in completed THEN "RETRYABLE_NOT_APPLIED"
      ELSE IF completed = {"REJECTED"} THEN "REJECTED"
      ELSE "EXECUTING"
=============================================================================
