----------------------------- MODULE Decisions -----------------------------
(***************************************************************************)
(* The two deterministic decision tools of the agent loop (decision.py)    *)
(* and the billing evidence they are given (get_billing_evidence).  Pure.  *)
(*                                                                         *)
(* An evidence record has                                                  *)
(*   found          whether get_billing_evidence finds any                 *)
(*   scenario       of the ticket                                          *)
(*   total          of its invoice: amount and currency together           *)
(*   charges        the set of [id, at, money, status] of that invoice     *)
(*   credits        the sequence of [id, disputed]; disputed may be Absent *)
(*   usage          whether there are usage records                        *)
(*   subscription   "none", or whether it was cancelled "early" enough,    *)
(*                  before the renewal was captured, or "late"             *)
(* Statuses are compared in lower case by the code, so they are abstract   *)
(* here: "captured", "authorized" (three spellings) and anything else.     *)
(***************************************************************************)
EXTENDS Naturals, Sequences, FiniteSets, FiniteSetsExt, ToolPolicies

NoAction == [type |-> Absent, target |-> Absent, money |-> Absent]

\* The orders in which ORDER BY captured_at may return the charges: rows of
\* the same instant come in any order.
Readings(charges) ==
  {seq \in [1..Cardinality(charges) -> charges] :
     \A i, j \in 1..Cardinality(charges) : i < j =>
       seq[i] # seq[j] /\ seq[i].at <= seq[j].at}

\* Mutants of PaymentFacts: an authorization counts as money taken, or any
\* amount counts as the invoice's.
PaymentFactsAnyStatus(evidence, reading, status) ==
  {i \in DOMAIN reading : reading[i].money = evidence.total}
PaymentFactsAnyAmount(evidence, reading, status) ==
  {i \in DOMAIN reading : reading[i].status = status}

\* extract_duplicate_charge_payment_facts: where in the order read the charges
\* are that match the invoice total and have the status.
PaymentFacts(evidence, reading, status) ==
  {i \in DOMAIN reading :
     reading[i].money = evidence.total /\ reading[i].status = status}

\* An executed action of the same type and target: _metadata_matches over the
\* keys the tools look at.  The amount is not one of them.
MetadataMatches(type, target, executed) ==
  \E done \in executed : done.type = type /\ done.target = target

Conclude(outcome, refs) == [outcome |-> outcome, action |-> NoAction, refs |-> refs]
Propose(outcome, type, target, money, refs) ==
  [outcome |-> outcome, refs |-> refs,
   action |-> [type |-> type, target |-> target, money |-> money]]

\* DuplicateChargeDecisionTool.evaluate: the last of the captured charges for
\* the invoice total is the duplicate.
EvaluateDuplicateCharge(evidence, reading, executed) ==
  LET captured == PaymentFacts(evidence, reading, "captured")
      authorized == PaymentFacts(evidence, reading, "authorized")
      chargeRefs == IF reading = << >> THEN {} ELSE {"charge"}
      duplicate == reading[Max(captured)].id
  IN CASE Cardinality(captured) < 2 /\ authorized # {} ->
            Conclude("no_refund_expected_billing_behavior", {"invoice", "charge"})
       [] Cardinality(captured) < 2 /\ authorized = {} ->
            Conclude("insufficient_evidence_human_review", {"invoice"} \cup chargeRefs)
       [] Cardinality(captured) >= 2 /\ MetadataMatches("original_refund", duplicate, executed) ->
            Conclude("duplicate_action_already_executed", {"invoice", "charge"})
       [] OTHER ->
            Propose("confirmed_duplicate_charge", "original_refund", duplicate,
                    evidence.total, {"invoice", "charge", "policy"})

\* CreditRefundDecisionTool.evaluate.  A missing credit or subscription is
\* cited as "credit missing" or "subscription missing", which the governance
\* kernel counts as a reference of the category.
EvaluateCreditRefund(evidence, reading, executed) ==
  LET captured == {i \in DOMAIN reading : reading[i].status = "captured"}
      first == reading[Min(captured)]
      credited == evidence.credits # << >>
      credit == evidence.credits[1]
      refs == {"credit", "subscription", "invoice"}
      priorAdjustment == credited /\ MetadataMatches("goodwill_credit", credit.id, executed)
      refundable == evidence.subscription = "early" /\ captured # {}
  IN CASE priorAdjustment ->
            Conclude("prior_adjustment_already_applied",
                     refs \cup {"prior_adjustment", "policy"})
       [] ~priorAdjustment /\ refundable ->
            Propose("refund_requires_approval", "original_refund", first.id,
                    first.money, refs \cup {"charge", "policy"})
       [] /\ ~priorAdjustment /\ ~refundable
          /\ credited /\ evidence.subscription # "none" /\ credit.disputed # Absent ->
            Propose("goodwill_credit_requires_approval", "goodwill_credit", credit.id,
                    credit.disputed, refs \cup {"policy"})
       [] OTHER -> Conclude("insufficient_evidence_human_review", refs)

\* Mutant of CollectedRefs: the subscription is read but not cited.
CollectedRefsNoSubscription(evidence) ==
  {"invoice"}
    \cup (IF evidence.charges # {} THEN {"charge"} ELSE {})
    \cup (IF evidence.credits # << >> THEN {"credit"} ELSE {})
    \cup (IF evidence.usage THEN {"usage"} ELSE {})

\* The evidence_refs of the loop's first read, by category, and the trace it
\* leaves: the kernel refuses the read when a category has no reference.
CollectedRefs(evidence) ==
  {"invoice"}
    \cup (IF evidence.charges # {} THEN {"charge"} ELSE {})
    \cup (IF evidence.credits # << >> THEN {"credit"} ELSE {})
    \cup (IF evidence.scenario = "duplicate_charge"
          THEN IF evidence.usage THEN {"usage"} ELSE {}
          ELSE IF evidence.subscription # "none" THEN {"subscription"} ELSE {})

EvidenceTrace(evidence) ==
  Governed(IF evidence.scenario = "duplicate_charge" THEN "read.billing_evidence"
                                                     ELSE "read.credit_refund_evidence",
           CollectedRefs(evidence), TRUE, {}, Absent)

\* The tool run_ticket dispatches to.
Evaluate(evidence, reading, executed) ==
  IF evidence.scenario = "duplicate_charge"
  THEN EvaluateDuplicateCharge(evidence, reading, executed)
  ELSE EvaluateCreditRefund(evidence, reading, executed)
=============================================================================
