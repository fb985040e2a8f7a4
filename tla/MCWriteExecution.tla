-------------------------- MODULE MCWriteExecution --------------------------
(* Instances of WriteExecution for TLC.                                    *)
EXTENDS WriteRefinement, TLC

AllDeletes == [o \in Ops |-> "DELETE_EDGE"]
AllSchema == [o \in Ops |-> "CREATE_SCHEMA"]

\* With a registry that also enables the vertex adapter, as the tests build it.
DeleteThenCreate == [o \in Ops |-> IF o = 1 THEN "DELETE_EDGE" ELSE "CREATE_VERTEX"]

Callers ==
  Permutations(Confirmers) \cup Permutations(Resumers) \cup Permutations(Reconcilers)

\* The store after an executor died behind its first operation and the plan
\* was reconciled: what is left is authorised for replay.  That executor is not
\* one of the modelled calls, so the token of its finished row is left out.
InitReconciled ==
  /\ clock = 0
  /\ plan = [status |-> "PARTIAL", owner |-> NoOwner, lease |-> NoLease]
  /\ ops = [o \in Ops |->
             IF o = 1
             THEN [status |-> "ALREADY_APPLIED", attempt |-> 1,
                   token |-> NoOwner, reconciled |-> FALSE]
             ELSE [status |-> "RETRYABLE_NOT_APPLIED", attempt |-> 0,
                   token |-> NoOwner, reconciled |-> TRUE]]
  /\ exec = [e \in Executors |-> IdleExec]
  /\ recon = [r \in Reconcilers |-> IdleRecon]
  /\ graph = [o \in Ops |-> IF o = 1 THEN "desired" ELSE "expected"]
  /\ inflight = {}
  /\ landed = {}
  /\ dispatched = {}
  /\ reached = {1}

SpecReconciled == InitReconciled /\ [][Next]_vars
=============================================================================
