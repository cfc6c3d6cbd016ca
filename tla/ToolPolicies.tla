---------------------------- MODULE ToolPolicies ----------------------------
(***************************************************************************)
(* The tool registry of the governance kernel (governance.py) and the      *)
(* metadata every governed trace carries.  Pure.                           *)
(*                                                                         *)
(* A trace row has                                                         *)
(*   policy     the governed action, tool_traces.category                  *)
(*   refs       the categories of its evidence_refs                        *)
(*   cites      whether it has policy_refs                                 *)
(*   approvals  its approval_refs                                          *)
(*   error      its error_state, or Absent                                 *)
(*   metadata   governance_metadata, or NoMetadata                         *)
(***************************************************************************)
EXTENDS Workflows

PolicyIds ==
  {"plan.investigation", "plan.verify", "read.billing_evidence",
   "read.prior_financial_actions", "read.credit_refund_evidence",
   "decision.refund_eligibility", "decision.credit_refund_eligibility",
   "draft.resolution", "approval.create_request", "mutation.mock_refund",
   "mutation.mock_credit_or_refund"}

RequiredEvidence ==
  [p \in PolicyIds |->
     CASE p \in {"plan.investigation", "plan.verify",
                 "read.prior_financial_actions"} -> {"ticket"}
       [] p = "read.billing_evidence" -> {"invoice", "charge", "credit", "usage"}
       [] p = "read.credit_refund_evidence" ->
            {"invoice", "charge", "credit", "subscription"}
       [] p = "decision.refund_eligibility" -> {"invoice", "charge"}
       [] p = "decision.credit_refund_eligibility" ->
            {"invoice", "credit", "subscription"}
       [] p = "mutation.mock_refund" -> {"invoice", "charge"}
       [] OTHER -> {"invoice"}]

RequiresPolicyRefs ==
  PolicyIds \ {"plan.investigation", "plan.verify", "read.prior_financial_actions"}

MutationPolicies == {"mutation.mock_refund", "mutation.mock_credit_or_refund"}

RequiresApprovalRef == MutationPolicies \cup {"approval.create_request"}

\* action_order of the plan contracts: what the loop takes, in its order.
ActionOrder(scenario) ==
  IF scenario = "duplicate_charge"
  THEN <<"read.billing_evidence", "read.prior_financial_actions",
         "decision.refund_eligibility">>
  ELSE <<"read.credit_refund_evidence", "read.prior_financial_actions",
         "decision.credit_refund_eligibility">>

MutationPolicy(type) == IF type = "original_refund" THEN "mutation.mock_refund"
                        ELSE "mutation.mock_credit_or_refund"

RequiredRefs(policy) ==
  RequiredEvidence[policy]
    \cup (IF policy \in RequiresPolicyRefs THEN {"policy"} ELSE {})
    \cup (IF policy \in RequiresApprovalRef THEN {"approval"} ELSE {})

\* An evidence ref "policy ..." satisfies the policy category too.
MissingRefs(policy, refs, cites, approvals) ==
  RequiredRefs(policy) \ (refs \cup (IF cites THEN {"policy"} ELSE {})
                               \cup (IF approvals # {} THEN {"approval"} ELSE {}))

NoMetadata == [form |-> "missing"]

\* _build_governance_metadata: the stored verdict on a trace's references.
Metadata(policy, missing, reason) ==
  [form |-> "current", policy |-> policy, missing |-> missing,
   gate |-> IF missing = {} THEN "allowed" ELSE "blocked",
   reason |-> IF reason # Absent THEN reason
              ELSE IF missing = {} THEN "governance.allowed"
              ELSE "governance.missing_required_ref"]

BlockedMetadata(policy, missing, code) ==
  [Metadata(policy, missing, code) EXCEPT !.gate = "blocked"]

Trace(policy, refs, cites, approvals, error, metadata) ==
  [policy |-> policy, refs |-> refs, cites |-> cites, approvals |-> approvals,
   error |-> error, metadata |-> metadata]

\* record_action for the low- and medium-risk actions of the loop: a trace that
\* lacks a reference is stored as blocked, and GovernanceViolation is raised.
Governed(policy, refs, cites, approvals, error) ==
  LET missing == MissingRefs(policy, refs, cites, approvals)
      blocked == "governance.missing_required_ref"
  IN IF missing = {}
     THEN Trace(policy, refs, cites, approvals, error, Metadata(policy, {}, Absent))
     ELSE Trace(policy, refs, cites, approvals, blocked,
                BlockedMetadata(policy, missing, blocked))

Raises(trace) == trace.metadata.missing # {}
=============================================================================
