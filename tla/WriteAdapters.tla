--------------------------- MODULE WriteAdapters ---------------------------
(***************************************************************************)
(* The decisions of the atomic write adapters (tools/graph_write_adapter,  *)
(* tools/schema_write_adapter with apply_schema_operations) and of the     *)
(* reconciler, as functions of what they observe.  The object one          *)
(* operation is about is in one of three states: "expected", the           *)
(* precondition that was approved; "desired", the state the operation      *)
(* produces; "other", anything else.  For a delete, "desired" is any       *)
(* reading whose "exists" is False.                                        *)
(***************************************************************************)
EXTENDS WritePlan

Kinds == {"DELETE_EDGE", "CREATE_VERTEX", "CREATE_SCHEMA"}
ObjectStates == {"expected", "desired", "other"}

\* How the write call itself came back.  "ambiguous" stands for the error
\* types in _AMBIGUOUS_ERRORS, a lost response or an exception; "refused"
\* for a definite error of a request that had no effect.
Replies == {"ok", "ambiguous", "refused"}

\* The receipt decided by the read before the write, or "WRITE" to go on.
before_write(observed) ==
  IF observed = "desired" THEN "ALREADY_APPLIED"
  ELSE IF observed = "expected" THEN "WRITE" ELSE "CONFLICT"

\* Mutant: a delete that is not visible yet is taken for a rejected one.
after_write_unsettled(kind, reply, observed) ==
  IF observed = "desired" THEN "APPLIED" ELSE "REJECTED"

\* The receipt decided by the reply and the read after the write.
after_write(kind, reply, observed) ==
  IF kind = "CREATE_SCHEMA" /\ reply # "ok" THEN "UNKNOWN"
  ELSE IF observed = "desired" THEN "APPLIED"
  ELSE IF kind = "DELETE_EDGE" THEN "CONFLICT"
  ELSE IF kind = "CREATE_SCHEMA"
       THEN IF observed = "other" THEN "CONFLICT" ELSE "UNKNOWN"
  ELSE IF observed = "other"                                \* CREATE_VERTEX
       THEN IF reply = "ok" THEN "UNKNOWN" ELSE "CONFLICT"
       ELSE IF reply = "ambiguous" THEN "UNKNOWN" ELSE "REJECTED"

\* Mutant: the expected state counts as proof of success.
reconcile_optimistic(observed) ==
  IF observed = "other" THEN "CONFLICT" ELSE "APPLIED"

\* The reconciler's classification of a current backend reading.
reconcile_operation_state(observed) ==
  IF observed = "desired" THEN "APPLIED"
  ELSE IF observed = "expected" THEN "RETRYABLE_NOT_APPLIED" ELSE "CONFLICT"

\* Mutant: a reading of the expected state authorises replay after a claim.
reconcile_replays(observed, claimed) == reconcile_operation_state(observed)

\* Mutant: a claimed operation stays unknown whatever is observed.
reconcile_never(observed, claimed) ==
  IF claimed THEN "UNKNOWN" ELSE reconcile_operation_state(observed)

\* The status a reconciler records: a reading of the expected state excludes
\* an in-flight commit only when the operation was never claimed.
reconcile_verdict(observed, claimed) ==
  IF reconcile_operation_state(observed) = "RETRYABLE_NOT_APPLIED" /\ claimed
  THEN "UNKNOWN"
  ELSE reconcile_operation_state(observed)
=============================================================================
