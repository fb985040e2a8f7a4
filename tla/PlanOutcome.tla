---------------------------- MODULE PlanOutcome ----------------------------
(***************************************************************************)
(* What the confirmed write protocol promises a caller, without calls,      *)
(* leases, receipts or reconciliation: operations take effect, evidence is  *)
(* found for them, and the plan is decided from the evidence, once.         *)
(***************************************************************************)
CONSTANT Parts        \* the operations of the plan

VARIABLES happened,   \* the operations that have had their effect
          evidence,   \* per operation: "open", "done" or "refused"
          verdict     \* the plan: "open", "success" or "failure"

outcomeVars == <<happened, evidence, verdict>>

Init ==
  /\ happened = {}
  /\ evidence = [p \in Parts |-> "open"]
  /\ verdict = "open"

\* An operation takes effect, by this plan or by anyone else.
Happen ==
  /\ \E p \in Parts : happened' = happened \union {p}
  /\ UNCHANGED <<evidence, verdict>>

\* Open operations are settled: done only if they happened.
Settled(e) ==
  \A p \in Parts : e[p] = evidence[p] \/ (evidence[p] = "open" /\ (e[p] = "done" => p \in happened))

\* A plan succeeds when everything is done and fails when nothing is; what is done in
\* part stays open.
Verdicts(e) ==
  {"open"} \union (IF \A p \in Parts : e[p] = "done" THEN {"success"} ELSE {})
           \union (IF \A p \in Parts : e[p] # "done" THEN {"failure"} ELSE {})

\* Evidence is recorded while the plan is open, and decides it.
Decide ==
  /\ verdict = "open"
  /\ \E e \in [Parts -> {"open", "done", "refused"}] :
       Settled(e) /\ evidence' = e /\ verdict' \in Verdicts(e)
  /\ UNCHANGED happened

Next == Happen \/ Decide

Spec == Init /\ [][Next]_outcomeVars
=============================================================================
