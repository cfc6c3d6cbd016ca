---------------------------- MODULE PlanVerifier ----------------------------
(***************************************************************************)
(* PlanContractVerifier.verify (planning.py): a language model proposes    *)
(* which governed actions an investigation will take, and this check       *)
(* accepts the plan or says why not.  AgentRun acts on the verdict.        *)
(*                                                                         *)
(* A plan has a scenario and a sequence of steps, a step an id, an action, *)
(* a set of evidence targets, whether it gives a rationale, and the ids of *)
(* the steps it depends on.  Of the verdict's list of reason codes the     *)
(* module keeps the set.                                                   *)
(***************************************************************************)
EXTENDS Naturals, Sequences, ToolPolicies

CONSTANT Plans

\* What planning.py validates a model's plan as, and the scenario of the ticket
\* it was asked for.
Scenarios == {"duplicate_charge", "credit_refund_dispute"}
PlannedSteps == [id : STRING, action : STRING, rationale : BOOLEAN,
                 targets : SUBSET STRING, depends : SUBSET STRING]

ASSUME PlansAssumption ==
  \A plan \in Plans : plan.ticket \in Scenarios /\ plan.steps \in Seq(PlannedSteps)

\* With them the code forbids whatever starts with "mutation.".
Forbidden == {"approval.create_request", "draft.resolution"} \cup MutationPolicies

DuplicateChargeContract ==
  LET billing == {"account_state", "invoice", "charges", "payment_status",
                   "credit_ledger", "usage", "policy"}
  IN [decision |-> "decision.refund_eligibility",
      targets |-> billing \cup {"prior_financial_actions"},
      byAction |->
        [a \in {"read.billing_evidence", "read.prior_financial_actions",
                "decision.refund_eligibility"} |->
           CASE a = "read.billing_evidence" -> billing
             [] a = "read.prior_financial_actions" -> {"prior_financial_actions"}
             [] OTHER -> {"invoice", "charges", "policy", "prior_financial_actions"}]]

CreditRefundContract ==
  LET billing == {"account_state", "invoice", "charges", "payment_status",
                   "credit_ledger", "subscription", "policy"}
  IN [decision |-> "decision.credit_refund_eligibility",
      targets |-> billing \cup {"prior_financial_actions"},
      byAction |->
        [a \in {"read.credit_refund_evidence", "read.prior_financial_actions",
                "decision.credit_refund_eligibility"} |->
           CASE a = "read.credit_refund_evidence" -> billing
             [] a = "read.prior_financial_actions" -> {"prior_financial_actions"}
             [] OTHER -> {"invoice", "charges", "credit_ledger", "subscription",
                          "policy", "prior_financial_actions"}]]

Contract(scenario) == IF scenario = "duplicate_charge" THEN DuplicateChargeContract
                                                       ELSE CreditRefundContract
ContractActions(contract) == DOMAIN contract.byAction

-----------------------------------------------------------------------------
\* The positions of the steps the verifier keeps in steps_by_action.
Admitted(contract, steps) ==
  {i \in DOMAIN steps : steps[i].action \in ContractActions(contract)}

\* Where an action is planned: its last step, which overwrites the others.
Position(steps, action) ==
  CHOOSE i \in DOMAIN steps :
    /\ steps[i].action = action
    /\ \A j \in DOMAIN steps : steps[j].action = action => j <= i

StepReasons(contract, plan) ==
  LET steps == plan.steps
      unsafe == {i \in DOMAIN steps : steps[i].action \in Forbidden}
      unknown == {i \in DOMAIN steps \ unsafe : steps[i].action \notin PolicyIds}
      kept == Admitted(contract, steps)
      ids == {steps[i].id : i \in DOMAIN steps}
      reason(code, where) == IF where = {} THEN {} ELSE {code}
  IN reason("plan.missing_rationale", {i \in DOMAIN steps : ~steps[i].rationale})
     \cup reason("plan.unsafe_financial_action", unsafe)
     \cup reason("plan.unknown_action", unknown)
     \cup reason("plan.disallowed_action", DOMAIN steps \ (unsafe \cup unknown \cup kept))
     \cup reason("plan.duplicate_action",
            {i \in kept : \E j \in kept : j < i /\ steps[j].action = steps[i].action})
     \cup reason("plan.unknown_target",
            {i \in kept : ~(steps[i].targets \subseteq contract.targets)})
     \cup reason("plan.missing_required_target",
            {i \in kept : ~(contract.byAction[steps[i].action] \subseteq steps[i].targets)})
     \cup reason("plan.dependency_violation",
            {i \in kept : ~(steps[i].depends \subseteq ids)})

\* Mutant of PlanReasons: only reads before the first decision are required.
PlanReasonsAnyOrder(contract, plan) ==
  LET planned == {plan.steps[i].action : i \in Admitted(contract, plan.steps)}
  IN IF ContractActions(contract) \subseteq planned
     THEN {} ELSE {"plan.missing_required_action"}

PlanReasons(contract, plan) ==
  LET steps == plan.steps
      planned == {steps[i].action : i \in Admitted(contract, steps)}
      late == {a \in planned \ {contract.decision} :
                 Position(steps, a) > Position(steps, contract.decision)}
      seen == UNION {steps[Position(steps, a)].targets : a \in planned}
  IN (IF ContractActions(contract) \subseteq planned
      THEN {} ELSE {"plan.missing_required_action"})
     \cup (IF contract.decision \in planned /\ late # {}
           THEN {"plan.dependency_violation"} ELSE {})
     \cup (IF contract.targets \subseteq seen
           THEN {} ELSE {"plan.missing_required_target"})

\* No ticket of another scenario reaches the verifier (run_ticket raises
\* UnsupportedScenarioError), so a contract is always found.
Reasons(plan) ==
  LET contract == Contract(plan.ticket)
  IN (IF plan.scenario # plan.ticket THEN {"plan.scenario_mismatch"} ELSE {})
     \cup StepReasons(contract, plan) \cup PlanReasons(contract, plan)

\* verify: the plan is accepted when there is nothing to object to.
Accepts(plan) == Reasons(plan) = {}

-----------------------------------------------------------------------------
\* What the loop does on a ticket of the plan's scenario, as the plan says it:
\* its actions, each once and the decision last, each with a rationale and
\* with every target of its contract, and with dependencies that exist.
Follows(plan) ==
  LET steps == plan.steps
      loop == ActionOrder(plan.ticket)
      contract == Contract(plan.ticket)
  IN /\ plan.scenario = plan.ticket
     /\ Len(steps) = Len(loop)
     /\ {steps[i].action : i \in DOMAIN steps} = {loop[i] : i \in DOMAIN loop}
     /\ steps[Len(steps)].action = loop[Len(loop)]
     /\ \A i \in DOMAIN steps :
          /\ steps[i].rationale
          /\ contract.byAction[steps[i].action] \subseteq steps[i].targets
          /\ steps[i].targets \subseteq contract.targets
          /\ steps[i].depends \subseteq {steps[j].id : j \in DOMAIN steps}

\* What may become of the plans a model may send: the verdict, and whether it
\* was right.
Verdicts == {[accepted |-> Accepts(plan), follows |-> Follows(plan)] : plan \in Plans}
=============================================================================
