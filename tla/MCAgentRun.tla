----------------------------- MODULE MCAgentRun -----------------------------
(* Small instances of AgentRun for TLC.                                    *)
EXTENDS AgentRun, TLC

Symmetry == Permutations(Calls) \cup Permutations(Keys)
              \cup Permutations(WorkflowIds) \cup Permutations(RunIds)

\* Two captures of the invoice total: the second is refunded.
Duplicate ==
  [found |-> TRUE, scenario |-> "duplicate_charge", total |-> "total",
   charges |-> {[id |-> "first", at |-> 1, money |-> "total", status |-> "captured"],
                [id |-> "second", at |-> 2, money |-> "total", status |-> "captured"]},
   credits |-> <<[id |-> "credit", disputed |-> Absent]>>,
   usage |-> TRUE, subscription |-> "none"]

\* A ticket without an account or invoice, and one without usage records.
NotFound == [Duplicate EXCEPT !.found = FALSE]
NoUsage == [Duplicate EXCEPT !.usage = FALSE]

\* A credit dispute in which nothing is owed.
NothingOwed == [Duplicate EXCEPT !.scenario = "credit_refund_dispute"]

AllEvidence == {Duplicate, NotFound, NoUsage, NothingOwed}

Proposable ==
  {[type |-> "original_refund", target |-> "second", money |-> "total"],
   [type |-> "goodwill_credit", target |-> "credit", money |-> "part"]}

-----------------------------------------------------------------------------
(* Plans of up to four steps whose steps are right or wrong in one way.    *)

Planned == {"read.billing_evidence", "read.prior_financial_actions",
            "decision.refund_eligibility"}

\* A step as its contract wants it, and one defect at a time.
Good(a) ==
  [id |-> a, action |-> a, rationale |-> TRUE, depends |-> {},
   targets |-> IF a \in Planned THEN DuplicateChargeContract.byAction[a] ELSE {}]

Steps ==
  {Good(a) : a \in Planned \cup {"draft.resolution", "plan.verify", "read.invoice"}}
  \cup UNION {{[Good(a) EXCEPT !.targets = @ \ {"prior_financial_actions", "usage"}],
               [Good(a) EXCEPT !.targets = @ \cup {"weather"}],
               [Good(a) EXCEPT !.depends = {"decision.refund_eligibility"}],
               [Good(a) EXCEPT !.depends = {"nowhere"}]} : a \in Planned}
  \cup {[Good("read.billing_evidence") EXCEPT !.rationale = FALSE]}

Bounded == UNION {[1..n -> Steps] : n \in 0..3} \cup
           {Append(s, Good(a)) : s \in [1..3 -> {Good(b) : b \in Planned}], a \in Planned}

DuplicateChargePlans ==
  {[ticket |-> "duplicate_charge", scenario |-> sc, steps |-> s] :
     sc \in {"duplicate_charge", "credit_refund_dispute"}, s \in Bounded}

\* Every arrangement of the other scenario's actions, and of one foreign action.
CreditActions == ContractActions(CreditRefundContract)
CreditSteps ==
  {[id |-> a, action |-> a, rationale |-> TRUE, depends |-> {},
    targets |-> CreditRefundContract.byAction[a]] : a \in CreditActions}
    \cup {Good("read.billing_evidence")}

CreditRefundPlans ==
  {[ticket |-> "credit_refund_dispute", scenario |-> "credit_refund_dispute", steps |-> s] :
     s \in UNION {[1..n -> CreditSteps] : n \in 0..4}}

AllPlans == DuplicateChargePlans \cup CreditRefundPlans
=============================================================================
