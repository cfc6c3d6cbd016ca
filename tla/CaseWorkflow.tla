---------------------------- MODULE CaseWorkflow ----------------------------
(***************************************************************************)
(* What the workflow commands of the repository promise: each is one       *)
(* atomic step on the committed tables.  One action per command that       *)
(* commits something.  A command that answers from what it reads (a replay *)
(* of a known Idempotency-Key, a repeated approval or rejection) or that   *)
(* ends in a 404 or 409 changes no table and is a stuttering step here;    *)
(* module WorkflowSessions has these answers.                              *)
(***************************************************************************)
EXTENDS CaseTables

\* Mutant of StartCycle: a new cycle is opened beside an active one.
StartCycleBesideActive(t, k, w, r) ==
  /\ RunWithKey(t, k) = {}
  /\ ~Exists(w) /\ ~RunExists(r)
  /\ \E last \in CyclesOf(t) :
       /\ \A n \in CyclesOf(t) : n <= last
       /\ InsertCycle(t, k, w, r, last + 1)

\* start_or_replay_run on a ticket with no active workflow: the new cycle's
\* number is one more than the highest there is.
StartCycle(t, k, w, r) ==
  /\ RunWithKey(t, k) = {}
  /\ \A v \in WorkflowsOf(t) : ~Active(v)
  /\ ~Exists(w) /\ ~RunExists(r)
  /\ \E last \in CyclesOf(t) :
       /\ \A n \in CyclesOf(t) : n <= last
       /\ InsertCycle(t, k, w, r, last + 1)

\* Mutant of StartRetry: the retry reuses a key instead of replaying its run.
StartRetrySameKey(t, k, w, r) ==
  /\ w \in WorkflowsOf(t) /\ workflow[w].status = "needs_retry"
  /\ ~RunExists(r)
  /\ InsertRetry(t, k, w, r, workflow[w])

\* start_or_replay_run on a ticket whose active workflow needs a retry.
StartRetry(t, k, w, r) ==
  /\ RunWithKey(t, k) = {}
  /\ w \in WorkflowsOf(t) /\ workflow[w].status = "needs_retry"
  /\ ~RunExists(r)
  /\ InsertRetry(t, k, w, r, workflow[w])

\* The guard finalize_run and fail_run share: the run is still running and its
\* workflow may move to the target.
MayEnd(r, target) ==
  /\ run[r].status = "running"
  /\ CanTransition(workflow[run[r].workflow].status, target)

\* Mutant of FinalizeNoAction: a late answer does not look at the run's own
\* status, only at the workflow another attempt has taken over.
FinalizeNoActionLate(r) ==
  /\ RunExists(r)
  /\ CanTransition(workflow[run[r].workflow].status, "completed_no_action")
  /\ WriteNoAction(r, run[r].workflow, workflow[run[r].workflow])

\* finalize_run without an approval payload.
FinalizeNoAction(r) ==
  /\ MayEnd(r, "completed_no_action")
  /\ WriteNoAction(r, run[r].workflow, workflow[run[r].workflow])

\* Mutant of FinalizeForApproval: only a pending duplicate is looked for.
FinalizeForApprovalAgain(r, a) ==
  LET w == run[r].workflow IN
  /\ MayEnd(r, "awaiting_approval")
  /\ approval[w].status = Absent
  /\ ~IsPending(run[r].ticket, a)
  /\ WriteProposal(r, w, workflow[w], a)

\* finalize_run with an approval payload: the action must neither be pending
\* nor executed already.
FinalizeForApproval(r, a) ==
  LET w == run[r].workflow IN
  /\ MayEnd(r, "awaiting_approval")
  /\ approval[w].status = Absent
  /\ ~IsPending(run[r].ticket, a) /\ ~IsExecuted(run[r].ticket, a)
  /\ WriteProposal(r, w, workflow[w], a)

FailTarget(recoverable) == IF recoverable THEN "needs_retry" ELSE "failed"

FailRun(r, recoverable) ==
  /\ MayEnd(r, FailTarget(recoverable))
  /\ WriteFailure(r, run[r].workflow, workflow[run[r].workflow],
                  FailTarget(recoverable))

\* Mutants of CancelWorkflow: the running run, the pending request, or the
\* terminal status of the workflow is overlooked.
CancelWorkflowOnly(w, role) ==
  /\ May(role, "workflow.cancel")
  /\ Exists(w) /\ ~Terminal(w)
  /\ WriteCancellation(w, workflow[w],
       {v \in {w} : approval[v].status = "pending"}, {}, role)
CancelWorkflowAndRun(w, role) ==
  /\ May(role, "workflow.cancel")
  /\ Exists(w) /\ ~Terminal(w)
  /\ WriteCancellation(w, workflow[w], {},
       {r \in RunIds : run[r].workflow = w /\ run[r].status = "running"}, role)
CancelAnyWorkflow(w, role) ==
  /\ May(role, "workflow.cancel")
  /\ Exists(w)
  /\ WriteCancellation(w, workflow[w],
       {v \in {w} : approval[v].status = "pending"},
       {r \in RunIds : run[r].workflow = w /\ run[r].status = "running"}, role)

CancelWorkflow(w, role) ==
  /\ May(role, "workflow.cancel")
  /\ Exists(w) /\ ~Terminal(w)
  /\ WriteCancellation(w, workflow[w],
       {v \in {w} : approval[v].status = "pending"},
       {r \in RunIds : run[r].workflow = w /\ run[r].status = "running"}, role)

\* Mutant of ApproveAndExecute: the route asks for the wrong permission.
ApproveByOperator(w, role) ==
  /\ May(role, "agent.run")
  /\ approval[w].status = "pending"
  /\ workflow[w].status = "awaiting_approval"
  /\ mutation[w] = None
  /\ ~IsExecuted(workflow[w].ticket, approval[w].action)
  /\ WriteExecution(w, workflow[w], approval[w], role)

ApproveAndExecute(w, role) ==
  /\ May(role, "approval.decide")
  /\ approval[w].status = "pending"
  /\ workflow[w].status = "awaiting_approval"
  /\ mutation[w] = None
  /\ ~IsExecuted(workflow[w].ticket, approval[w].action)
  /\ WriteExecution(w, workflow[w], approval[w], role)

\* Mutant of RejectApproval: the route asks for the wrong permission.
RejectByOperator(w, role) ==
  /\ May(role, "workflow.cancel")
  /\ approval[w].status = "pending"
  /\ workflow[w].status = "awaiting_approval"
  /\ WriteRejection(w, workflow[w], approval[w], role)

RejectApproval(w, role) ==
  /\ May(role, "approval.decide")
  /\ approval[w].status = "pending"
  /\ workflow[w].status = "awaiting_approval"
  /\ WriteRejection(w, workflow[w], approval[w], role)

\* reset_demo_live_state, and the same deletes of reset_eval_fixture_state.
ResetTicket(t) == DeleteTicket(t)

Next ==
  \/ \E t \in Tickets, k \in Keys, w \in WorkflowIds, r \in RunIds :
       StartCycle(t, k, w, r) \/ StartRetry(t, k, w, r)
  \/ \E r \in RunIds :
       \/ FinalizeNoAction(r)
       \/ \E a \in Actions : FinalizeForApproval(r, a)
       \/ \E recoverable \in BOOLEAN : FailRun(r, recoverable)
  \/ \E w \in WorkflowIds, role \in Roles :
       \/ CancelWorkflow(w, role)
       \/ ApproveAndExecute(w, role)
       \/ RejectApproval(w, role)
  \/ \E t \in Tickets : ResetTicket(t)

Spec == Empty /\ [][Next]_tables
=============================================================================
