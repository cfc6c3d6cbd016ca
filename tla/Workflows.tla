------------------------------ MODULE Workflows ------------------------------
(***************************************************************************)
(* The case-workflow state machine of MeterDesk (workflows.py): statuses,  *)
(* the transition table, and the role table of auth.py that says who may   *)
(* ask for which move.  The module is pure: it has no state.               *)
(***************************************************************************)

\* What `None` stands for in the code: the source of a workflow's first
\* transition, and the status of a row that does not exist.
Absent == "absent"

WorkflowStatuses ==
  {"investigating", "needs_retry", "awaiting_approval", "completed_no_action",
   "rejected", "mock_executed", "failed", "cancelled"}

TerminalStatuses ==
  {"completed_no_action", "rejected", "mock_executed", "failed", "cancelled"}

ActiveStatuses == {"investigating", "needs_retry", "awaiting_approval"}

InitialStatus == "investigating"

WorkflowTransitions ==
  [investigating     |-> {"needs_retry", "awaiting_approval",
                          "completed_no_action", "failed", "cancelled"},
   needs_retry       |-> {"investigating", "failed", "cancelled"},
   awaiting_approval |-> {"mock_executed", "rejected", "cancelled"}]

\* Terminal statuses have an empty row in the code's table; here they are
\* simply outside the table's domain.
CanTransition(source, target) ==
  IF source = Absent
  THEN target = InitialStatus
  ELSE source \in ActiveStatuses /\ target \in WorkflowTransitions[source]

RunStatuses == {"running", "completed", "failed", "cancelled"}

ApprovalStatuses == {"pending", "approved", "rejected", "withdrawn"}

-----------------------------------------------------------------------------
Roles == {"support_operator", "approver", "admin"}

RolePermissions ==
  [support_operator |-> {"business.read", "agent.run", "workflow.cancel"},
   approver         |-> {"business.read", "approval.decide"},
   admin            |-> {"business.read", "agent.run", "workflow.cancel",
                         "approval.decide", "eval.run"}]

May(role, permission) == permission \in RolePermissions[role]
=============================================================================
