----------------------------- MODULE MCEvalLab -----------------------------
(* Instances of EvalLab for TLC, after the cases of seed_data.py.          *)
EXTENDS EvalLab, TLC

Symmetry == Permutations(Jobs)

Charge(id, at, status) == [id |-> id, at |-> at, money |-> "total", status |-> status]

\* EVAL_BILLING_EVIDENCE of a disputed duplicate charge, and of a credit dispute.
Duplicated(charges) ==
  [found |-> TRUE, scenario |-> "duplicate_charge", total |-> "total", charges |-> charges,
   credits |-> <<[id |-> "credit", disputed |-> Absent]>>,
   usage |-> TRUE, subscription |-> "none"]
Credited(disputed, subscription) ==
  [found |-> TRUE, scenario |-> "credit_refund_dispute", total |-> "total",
   charges |-> {Charge("first", 1, "captured")},
   credits |-> <<[id |-> "credit", disputed |-> disputed]>>,
   usage |-> TRUE, subscription |-> subscription]

SuiteFixtures ==
  [dup1 |-> Duplicated({Charge("first", 1, "captured"), Charge("second", 2, "captured")}),
   dup2 |-> Duplicated({Charge("first", 1, "captured"), Charge("second", 2, "authorized")}),
   dup3 |-> Duplicated({Charge("first", 1, "captured")}),
   cr1 |-> Credited("part", "late"),
   cr2 |-> Credited(Absent, "early"),
   cr3 |-> Credited("part", "late")]
SuiteTickets == DOMAIN SuiteFixtures
Evidences == {SuiteFixtures[ticket] : ticket \in SuiteTickets}

GoodwillCredit == [type |-> "goodwill_credit", target |-> "credit", money |-> "part"]
Refund(charge) == [type |-> "original_refund", target |-> charge, money |-> "total"]
Proposable == {GoodwillCredit, Refund("first"), Refund("second")}

\* EVAL_CASES.
SeedCase(scenario, ticket, outcome, routing, required) ==
  [scenario |-> scenario, ticket |-> ticket, outcome |-> outcome, routing |-> routing,
   evidence |-> required]
DuplicateCase(ticket, outcome, routing, required) ==
  SeedCase("duplicate_charge", ticket, outcome, routing, required \cup {"invoice", "charges", "policy"})
CreditCase(ticket, outcome, routing, required) ==
  SeedCase("credit_refund_dispute", ticket, outcome, routing, required \cup {"invoice", "policy"})
UsageCase(outcome, routing, required) ==
  SeedCase("usage_spike", Absent, outcome, routing, required \cup {"usage", "policy"})

RenewalCase ==
  CreditCase("cr2", "refund_requires_approval", "refund_requires_approval",
             {"subscription", "charges"})
SuiteCases ==
  [dup1 |-> DuplicateCase("dup1", "confirmed_duplicate_charge", "refund_requires_approval",
              {"credit_ledger", "usage"}),
   dup2 |-> DuplicateCase("dup2", "no_refund_expected_billing_behavior", "no_financial_action",
              {"payment_status"}),
   dup3 |-> DuplicateCase("dup3", "insufficient_evidence_human_review",
              "no_mutation_without_evidence", {"account_state"}),
   usage1 |-> UsageCase("expected_usage_no_refund", "goodwill_credit_requires_approval",
                {"invoice", "pricing"}),
   usage2 |-> UsageCase("human_review_possible_goodwill_credit", "credit_requires_approval",
                {"account_state", "alert_config"}),
   usage3 |-> UsageCase("insufficient_evidence_human_review", "no_mutation_without_evidence",
                {"invoice"}),
   cr1 |-> CreditCase("cr1", "goodwill_credit_requires_approval", "credit_requires_approval",
             {"credit_ledger", "subscription"}),
   cr2 |-> RenewalCase,
   cr3 |-> CreditCase("cr3", "prior_adjustment_already_applied", "no_duplicate_mutation",
             {"credit_ledger", "prior_adjustment"})]
SuiteOrder == <<"dup1", "dup2", "dup3", "usage1", "usage2", "usage3", "cr1", "cr2", "cr3">>

\* The whole suite, with the adjustment of its last case.
SuiteHistory == [w \in {<<"seed", "cr3">>} |-> [ticket |-> "cr3", action |-> GoodwillCredit]]
SuiteCallIds == Jobs \X DOMAIN SuiteCases
SuiteWorkflowIds == SuiteCallIds \cup DOMAIN SuiteHistory

\* Concurrent requests race for one fixture, that of the renewal captured after
\* the subscription was cancelled.
Cases == [cr2 |-> RenewalCase]
Order == <<"cr2">>
Fixtures == [cr2 |-> SuiteFixtures["cr2"]]
NoHistory == [w \in {} |-> None]
CallIds == Jobs \X DOMAIN Cases
RenewalActions == {GoodwillCredit, Refund("first")}
RenewalEvidence == {Fixtures["cr2"]}

\* A plan that names every action of its contract, and an empty one.
Contracted(scenario) ==
  [ticket |-> scenario, scenario |-> scenario,
   steps |-> [i \in DOMAIN ActionOrder(scenario) |->
     LET action == ActionOrder(scenario)[i] IN
     [id |-> action, action |-> action, rationale |-> TRUE, depends |-> {},
      targets |-> Contract(scenario).byAction[action]]]]
FewPlans == {Contracted("credit_refund_dispute"),
             [Contracted("credit_refund_dispute") EXCEPT !.steps = << >>]}
SuitePlans == FewPlans \cup {Contracted("duplicate_charge")}
=============================================================================
