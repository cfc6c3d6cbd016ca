---------------------------- MODULE EvalGrading ----------------------------
(***************************************************************************)
(* How the Eval Lab grades a run (eval/runner.py) and compares a snapshot  *)
(* with the seeded baseline (eval/regression.py).  Pure: what was read is  *)
(* a parameter.                                                            *)
(*                                                                         *)
(* A case has a scenario, a fixture ticket or Absent, the expected outcome *)
(* and approval routing, and the required evidence categories.  Which      *)
(* policy is cited is not told apart: a case's policy counts as seen when  *)
(* a trace cites policies at all.  The advisory draft_quality score blocks *)
(* nothing and is left out.                                                *)
(***************************************************************************)
EXTENDS RunCompliance

SupportedScenarios == {"duplicate_charge", "credit_refund_dispute"}

BlockingDimensions ==
  {"outcome_correctness", "required_evidence", "policy_compliance", "approval_routing",
   "mutation_safety", "tool_planning", "governance_compliance", "draft_safety"}

\* _evidence_categories_seen: what a read stands for, and what a reference does.
ReadCategories(policy) ==
  LET both == {"account_state", "charges", "credit_ledger", "invoice",
               "payment_status", "policy"}
  IN CASE policy = "read.billing_evidence" -> both \cup {"usage"}
       [] policy = "read.credit_refund_evidence" -> both \cup {"subscription"}
       [] OTHER -> {}

RefCategories(ref) ==
  CASE ref = "charge" -> {"charges", "payment_status"}
    [] ref = "credit" -> {"credit_ledger"}
    [] ref \in {"invoice", "usage", "subscription", "prior_adjustment", "policy"} -> {ref}
    [] OTHER -> {}

EvidenceSeen(traces) ==
  UNION {ReadCategories(traces[i].policy)
           \cup UNION {RefCategories(ref) : ref \in traces[i].refs}
           \cup (IF traces[i].cites THEN {"policy"} ELSE {}) : i \in DOMAIN traces}

\* trace_categories.index: the first trace of a policy.
FirstTrace(traces, policy) ==
  CHOOSE i \in DOMAIN traces :
    /\ traces[i].policy = policy
    /\ \A j \in 1..(i - 1) : traces[j].policy # policy

\* _check_tool_planning.  The metadata of an accepted plan.verify trace names
\* the contract's actions and targets (module PlanVerifier), so what is left
\* is the acceptance and the order of the traces.
PlanningPasses(traces, scenario) ==
  LET steps == <<"plan.verify">> \o ActionOrder(scenario)
      traced(policy) == \E i \in DOMAIN traces : traces[i].policy = policy
      first(i) == FirstTrace(traces, steps[i])
  IN /\ traced("plan.investigation")
     /\ \A i \in DOMAIN steps : traced(steps[i])
     /\ traces[first(1)].error = Absent
     /\ \A i \in 1..(Len(steps) - 1) : first(i) < first(i + 1)

\* _approval_routing_matches, given the requests and whether there is a
\* mutation of the run.
RoutingMatches(expected, status, requests, mutated) ==
  /\ ~mutated
  /\ CASE expected \in {"refund_requires_approval", "credit_requires_approval",
                        "goodwill_credit_requires_approval"} ->
            /\ status = "awaiting_approval"
            /\ \E request \in requests :
                 /\ requests = {request}
                 /\ request.status = "pending"
                 /\ \/ expected = "refund_requires_approval"
                    \/ request.action.type = "goodwill_credit"
       [] expected \in {"no_financial_action", "no_mutation_without_evidence",
                        "no_duplicate_mutation"} ->
            status = "completed_no_action" /\ requests = {}
       [] OTHER -> TRUE

\* A result: its status, the dimensions that passed and the blocked code.
Graded(passed) ==
  [status |-> IF BlockingDimensions \subseteq passed THEN "passed" ELSE "failed",
   passed |-> passed, code |-> Absent]
Blocked(code) == [status |-> "blocked", passed |-> {}, code |-> code]

\* The seeded baseline: every supported case passed, the others are blocked.
Baseline(scenario) ==
  IF scenario \in SupportedScenarios THEN Graded(BlockingDimensions)
                                     ELSE Blocked("scenario.runner_not_implemented")

\* _compare_case of two snapshots of the same schema version; `current` is
\* None when the run under comparison has no snapshot of the case.
Label(baseline, current) ==
  CASE current = None ->
         IF baseline.status = "blocked" THEN "coverage_gap" ELSE "incomparable"
    [] current # None /\ current.status = "blocked" ->
         IF current.code = "scenario.runner_not_implemented" THEN "coverage_gap"
                                                             ELSE "incomparable"
    [] OTHER ->
         CASE \/ baseline.status # "blocked" /\ baseline.passed \ current.passed # {}
              \/ baseline.status = "passed" /\ current.status = "failed" -> "regressed"
           [] OTHER ->
                IF \/ baseline.status # "blocked" /\ current.passed \ baseline.passed # {}
                   \/ baseline.status \in {"failed", "blocked"} /\ current.status = "passed"
                THEN "improved" ELSE "unchanged"
=============================================================================
