-------------------------- MODULE WriteRefinement --------------------------
(***************************************************************************)
(* The confirmed write protocol implements PlanOutcome: what the store      *)
(* records of a plan and its operations, seen as evidence and a verdict.    *)
(***************************************************************************)
EXTENDS WriteExecution

\* A row that is not final is open: pending, unknown, or authorised for replay.
EvidenceOf(status) ==
  CASE status \in Success -> "done"
    [] status \in {"REJECTED", "CONFLICT"} -> "refused"
    [] OTHER -> "open"

VerdictOf(status) ==
  CASE status \in Success -> "success"
    [] status \in Terminal \ Success -> "failure"
    [] OTHER -> "open"

Outcome ==
  INSTANCE PlanOutcome WITH
    Parts <- Ops,
    happened <- reached,
    evidence <- [o \in Ops |-> EvidenceOf(ops[o].status)],
    verdict <- VerdictOf(plan.status)

\* Every step of calls, crashes, late commits, reconciliation and resumption is a step of the
\* promise or leaves it as it is: evidence is found only for what happened and is never revised, a
\* plan is decided once, from all its operations' evidence, and nothing is recorded for it afterwards
\* (PlanStore.record_receipt, PlanStore.record_reconciliation_receipt, WriteReconciler.reconcile).
ImplementsPlanOutcome == Outcome!Spec
=============================================================================
