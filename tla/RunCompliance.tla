--------------------------- MODULE RunCompliance ---------------------------
(***************************************************************************)
(* The read-only compliance check of a run (compliance.py): from the run's *)
(* traces, all approval requests and all mutations, each read by a query   *)
(* of its own, it recomputes what the governance metadata should say and   *)
(* whether approvals, mutations and traces agree.  Pure: the snapshots are *)
(* parameters.                                                             *)
(***************************************************************************)
EXTENDS CaseTables, ToolPolicies, Sequences

\* _check_trace: the reason codes of one trace.  `managed` says whether the
\* run's source is one of the governed loops.
TraceFailures(trace, managed) ==
  LET unless(code) == IF managed THEN code ELSE "governance.metadata_unsupported"
      missing == MissingRefs(trace.policy, trace.refs, trace.cites, trace.approvals)
      metadata == trace.metadata
  IN CASE trace.policy \notin PolicyIds -> {"governance.unknown_policy"}
       [] trace.policy \in PolicyIds /\ metadata.form # "current" ->
            CASE metadata.form = "missing" -> {unless("governance.metadata_missing")}
              [] metadata.form = "old" -> {unless("governance.metadata_schema_invalid")}
              [] OTHER -> {"governance.metadata_invalid"}
       [] OTHER ->
            CASE missing # {} -> {"governance.missing_required_ref"}
              [] missing = {} /\ (metadata.policy # trace.policy \/ metadata.missing # {}) ->
                   {"governance.metadata_mismatch"}
              [] missing = {} /\ metadata.policy = trace.policy /\ metadata.missing = {}
                 /\ (trace.error # Absent \/ metadata.gate = "blocked") -> {metadata.reason}
              [] OTHER -> {}

TracedApprovals(traces, policies) ==
  UNION {traces[i].approvals : i \in {j \in DOMAIN traces : traces[j].policy \in policies}}

\* _check_financial_state of run r of ticket t.  A workflow has at most one
\* request and one mutation, so `approvals` and `mutations` are by workflow.  A
\* fingerprint contains the ticket: a row deleted since it was read matches none.
FinancialFailures(r, t, traces, approvals, mutations) ==
  LET mine == {w \in WorkflowIds : approvals[w].status # Absent /\ approvals[w].run = r}
      mutated == {w \in WorkflowIds : mutations[w] # None}
      seen == {w \in mutated : workflow[w].ticket = t \/ approvals[w].run = r}
      same(v, w, what) ==
        /\ v # w /\ Exists(v) /\ Exists(w)
        /\ workflow[v].ticket = workflow[w].ticket /\ what[v] = what[w]
      actions == [w \in WorkflowIds |-> approvals[w].action]
      pending == {w \in WorkflowIds : approvals[w].status = "pending"}
      approved == {w \in mine : approvals[w].status = "approved"}
      reason(code, where) == IF where = {} THEN {} ELSE {code}
  IN reason("approval.pending_duplicate",
            {w \in pending : \E v \in pending : same(v, w, actions)})
     \cup reason("mutation.duplicate_action",
            {w \in mutated : \E v \in mutated : same(v, w, mutations)})
     \cup reason("approval.trace_missing",
            mine \ TracedApprovals(traces, {"approval.create_request"}))
     \cup reason("mutation.before_approval", mine \cap pending \cap mutated)
     \cup reason("mutation.after_rejection",
            {w \in mine \cap mutated : approvals[w].status = "rejected"})
     \cup reason("mutation.missing_for_approved_approval", approved \ mutated)
     \cup reason("mutation.trace_missing",
            (approved \cap mutated) \ TracedApprovals(traces, MutationPolicies))
     \cup reason("mutation.approval_missing",
            {w \in seen : approvals[w].status = Absent})
     \cup reason("mutation.approval_not_approved",
            {w \in seen : approvals[w].status \notin {Absent, "approved"}})
     \cup reason("mutation.fingerprint_mismatch",
            {w \in seen : /\ approvals[w].status # Absent
                          /\ approvals[w].action # mutations[w]})

Failures(r, t, managed, traces, approvals, mutations) ==
  UNION {TraceFailures(traces[i], managed) : i \in DOMAIN traces}
    \cup FinancialFailures(r, t, traces, approvals, mutations)
    \cup (IF traces # << >> THEN {}
          ELSE IF managed THEN {"governance.trace_missing"}
          ELSE {"governance.metadata_unsupported"})
=============================================================================
