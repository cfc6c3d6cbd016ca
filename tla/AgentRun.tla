------------------------------ MODULE AgentRun ------------------------------
(***************************************************************************)
(* The governed agent loop (orchestrator.py): calls of run_ticket that     *)
(* start or replay a run, have a language model plan and draft, read the   *)
(* evidence, decide, leave a governed trace of every step, and finalize or *)
(* fail the run.  Every step that commits is an action, so calls           *)
(* interleave with each other and with the people who cancel, approve,     *)
(* reject and reset, and a call may die between any two of them.           *)
(*                                                                         *)
(* The repository's commands are atomic here (module CaseWorkflow, which   *)
(* WorkflowSessions implements); the trace log is a sequence per run.      *)
(***************************************************************************)
EXTENDS RunCompliance, Decisions, PlanVerifier

CONSTANTS
  Calls,        \* calls of run_ticket
  EvidenceSet,  \* the billing evidence a ticket may have
  MaxRefusals   \* bound on the refused approvals in a run's log

\* Actions has whatever the decision tools propose on the evidence there may be.
ASSUME ProposalsAssumption ==
  \A known \in EvidenceSet : \A reading \in Readings(known.charges) :
    \A executed \in SUBSET Actions :
      Evaluate(known, reading, executed).action \in Actions \cup {NoAction}

\* A ticket has finitely many charges.
ASSUME ChargesAssumption == \A known \in EvidenceSet : IsFiniteSet(known.charges)

VARIABLES
  call,         \* the local variables and the control point of each call
  trace,        \* tool_traces, grouped by run and in order
  evidence      \* of each ticket; nothing in the loop changes it

locals == <<call, trace, evidence>>
vars == <<tables, locals>>

Commands == INSTANCE CaseWorkflow
  WITH workflow <- workflow, ledger <- ledger, run <- run,
       approval <- approval, mutation <- mutation

\* Who cancels, approves, rejects and resets: one role that may do all.
Supervisor == "admin"

\* `cause` is why a call raised instead of ending its run; `follows` is a history
\* variable, whether the last plan said what the loop does (module PlanVerifier).
Idle == [pc |-> "idle", ticket |-> None, run |-> None, tries |-> 0,
         accepted |-> FALSE, follows |-> FALSE, executed |-> {}, decision |-> Conclude("not_started", {}), cause |-> Absent]

Ended == {"idle", "answered", "raised", "dead"}
Live(c) == call[c].pc \notin Ended

AgentInit ==
  /\ Empty
  /\ call = [c \in Calls |-> Idle]
  /\ trace = [r \in RunIds |-> << >>]
  /\ evidence \in [Tickets -> EvidenceSet]

-----------------------------------------------------------------------------
(* Starting.                                                               *)

Fresh(r) == \A c \in Calls : call[c].run # r

\* Mutant of Replay: the call goes on with the run it should only answer.
ReplayAndContinue(c, t, k) ==
  /\ call[c].pc = "idle"
  /\ \E r \in RunWithKey(t, k) :
       call' = [call EXCEPT ![c] = [Idle EXCEPT !.pc = "plan", !.ticket = t, !.run = r]]
  /\ UNCHANGED <<tables, trace, evidence>>

\* A known key answers with its run; a ticket whose active workflow needs no
\* retry answers 409.
Replay(c, t, k) ==
  /\ call[c].pc = "idle"
  /\ \/ RunWithKey(t, k) # {}
     \/ \E w \in WorkflowsOf(t) : Active(w) /\ workflow[w].status # "needs_retry"
  /\ call' = [call EXCEPT ![c] = [Idle EXCEPT !.pc = "answered", !.ticket = t]]
  /\ UNCHANGED <<tables, trace, evidence>>

Start(c, t, k, w, r) ==
  /\ call[c].pc = "idle" /\ Fresh(r)
  /\ Commands!StartCycle(t, k, w, r) \/ Commands!StartRetry(t, k, w, r)
  /\ call' = [call EXCEPT ![c] = [Idle EXCEPT !.pc = "plan", !.ticket = t, !.run = r]]
  /\ UNCHANGED <<trace, evidence>>

-----------------------------------------------------------------------------
(* Steps of a call.                                                        *)

Goto(c, pc) == call' = [call EXCEPT ![c].pc = pc]
Raise(c, cause) == call' = [call EXCEPT ![c].pc = "raised", ![c].cause = cause]

\* record_action: one committed trace.  A blocked trace raises, and a run that a
\* reset deleted in the meantime violates the foreign key of tool_traces.
Record(c, row, goto) ==
  LET r == call[c].run IN
  /\ IF RunExists(r)
     THEN /\ trace' = [trace EXCEPT ![r] = Append(@, row)]
          /\ IF Raises(row) THEN Raise(c, "evidence") ELSE goto
     ELSE Raise(c, "deleted") /\ UNCHANGED trace
  /\ UNCHANGED <<tables, evidence>>

\* What a call to the language model may come to: an answer, an
\* AgentProviderError, or an exception _post_chat_completion does not convert
\* (a reset connection, an undecodable body).
Escape(c, pc) ==
  /\ call[c].pc = pc
  /\ Raise(c, "escaped")
  /\ UNCHANGED <<tables, trace, evidence>>

\* Mutant of Plan: the attempts are not counted.
PlanAgain(c) ==
  /\ call[c].pc = "plan"
  /\ \/ call' = [call EXCEPT ![c].pc = "plan_trace", ![c].accepted = TRUE]
     \/ call' = [call EXCEPT ![c].tries = 1 - @]
  /\ UNCHANGED <<tables, trace, evidence>>

\* create_investigation_plan, verified: two blocked plans end the attempt.
Plan(c) ==
  /\ call[c].pc = "plan"
  /\ \/ \E verdict \in Verdicts :
          LET again == ~verdict.accepted /\ call[c].tries = 0 IN
          call' = [call EXCEPT ![c].pc = IF again THEN "plan" ELSE "plan_trace",
                               ![c].tries = IF again THEN 1 ELSE @,
                               ![c].accepted = verdict.accepted,
                               ![c].follows = verdict.follows]
     \/ Goto(c, "fail")
  /\ UNCHANGED <<tables, trace, evidence>>

RecordPlan(c) ==
  /\ call[c].pc = "plan_trace"
  /\ Record(c, Governed("plan.investigation", {"ticket"}, FALSE, {}, Absent),
            Goto(c, "verify_trace"))

\* Mutant of RecordVerdict: a blocked plan ends the call, not the run.
RecordVerdictOnly(c) ==
  /\ call[c].pc = "verify_trace"
  /\ Record(c, Governed("plan.verify", {"ticket"}, FALSE, {}, Absent),
            Goto(c, IF call[c].accepted THEN "evidence" ELSE "answered"))

RecordVerdict(c) ==
  /\ call[c].pc = "verify_trace"
  /\ Record(c, IF call[c].accepted
               THEN Governed("plan.verify", {"ticket"}, FALSE, {}, Absent)
               ELSE [Governed("plan.verify", {"ticket"}, FALSE, {}, "plan.blocked")
                       EXCEPT !.metadata.reason = "plan.blocked"],
            Goto(c, IF call[c].accepted THEN "evidence" ELSE "fail"))

ReadEvidence(c) ==
  /\ call[c].pc = "evidence"
  /\ LET found == evidence[call[c].ticket] IN
     IF found.found
     THEN Record(c, EvidenceTrace(found), Goto(c, "prior"))
     ELSE Goto(c, "fail") /\ UNCHANGED <<tables, trace, evidence>>

\* list_executed_action_metadata, read now and used by Decide.
ReadPrior(c) ==
  /\ call[c].pc = "prior"
  /\ LET t == call[c].ticket
         executed == {mutation[w] : w \in {v \in WorkflowsOf(t) : mutation[v] # None}}
     IN Record(c, Governed("read.prior_financial_actions", {"ticket"}, FALSE, {}, Absent),
               call' = [call EXCEPT ![c].pc = "decide", ![c].executed = executed])

DecisionPolicy(scenario) ==
  IF scenario = "duplicate_charge" THEN "decision.refund_eligibility"
                                   ELSE "decision.credit_refund_eligibility"

DecisionTrace(known, decision) ==
  Governed(DecisionPolicy(known.scenario), decision.refs, TRUE, {}, Absent)

Decide(c) ==
  /\ call[c].pc = "decide"
  /\ LET known == evidence[call[c].ticket] IN
     \E reading \in Readings(known.charges) :
       LET decision == Evaluate(known, reading, call[c].executed) IN
       Record(c, DecisionTrace(known, decision),
              call' = [call EXCEPT ![c].pc = "draft", ![c].tries = 0,
                                   ![c].decision = decision, ![c].executed = {}])

\* create_resolution and validate_provider_output, at most twice.
Draft(c) ==
  /\ call[c].pc = "draft"
  /\ \/ Goto(c, "finalize")
     \/ IF call[c].tries = 0 THEN call' = [call EXCEPT ![c].tries = 1]
                             ELSE Goto(c, "draft_trace")
  /\ UNCHANGED <<tables, trace, evidence>>

RecordDraftFailure(c) ==
  /\ call[c].pc = "draft_trace"
  /\ Record(c, Governed("draft.resolution", call[c].decision.refs, TRUE, {}, "provider.failed"),
            Goto(c, "fail"))

-----------------------------------------------------------------------------
(* Ending.                                                                 *)

\* fail_run, always recoverable here, or its 404 or 409.
Fail(c) ==
  LET r == call[c].run IN
  /\ call[c].pc = "fail"
  /\ \/ Commands!FailRun(r, TRUE) /\ Goto(c, "answered")
     \/ ~Commands!MayEnd(r, "needs_retry") /\ Raise(c, "superseded") /\ UNCHANGED tables
  /\ UNCHANGED <<trace, evidence>>

DraftTrace(c) == Governed("draft.resolution", call[c].decision.refs, TRUE, {}, Absent)
ApprovalTrace(c) ==
  Governed("approval.create_request", call[c].decision.refs, TRUE,
           {run[call[c].run].workflow}, Absent)

\* Mutant of Finalize: the approval trace is left to a later step.
FinalizeWithoutApprovalTrace(c) ==
  LET r == call[c].run
      action == call[c].decision.action
  IN /\ call[c].pc = "finalize" /\ RunExists(r)
     /\ IF action = NoAction THEN Commands!FinalizeNoAction(r)
                             ELSE Commands!FinalizeForApproval(r, action)
     /\ trace' = [trace EXCEPT ![r] = Append(@, DraftTrace(c))]
     /\ Goto(c, "answered") /\ UNCHANGED evidence

\* Mutant of Finalize: a late answer is written whatever became of its run.
FinalizeLate(c) ==
  LET r == call[c].run IN
  /\ call[c].pc = "finalize" /\ RunExists(r)
  /\ WriteNoAction(r, run[r].workflow, workflow[run[r].workflow])
  /\ Goto(c, "answered") /\ UNCHANGED <<trace, evidence>>

\* finalize_run: the run's output, its last traces and the transition.
Finalize(c) ==
  LET r == call[c].run
      action == call[c].decision.action
  IN /\ call[c].pc = "finalize" /\ RunExists(r)
     /\ \/ /\ action = NoAction
           /\ Commands!FinalizeNoAction(r)
           /\ trace' = [trace EXCEPT ![r] = Append(@, DraftTrace(c))]
        \/ /\ action # NoAction
           /\ Commands!FinalizeForApproval(r, action)
           /\ trace' = [trace EXCEPT ![r] = @ \o <<DraftTrace(c), ApprovalTrace(c)>>]
     /\ Goto(c, "answered")
     /\ UNCHANGED evidence

\* finalize_run answers 404 or 409: the run is gone, has ended or lost its
\* workflow, or the action is pending or was executed.
FinalizeRefused(c) ==
  LET r == call[c].run
      action == call[c].decision.action
      target == IF action = NoAction THEN "completed_no_action" ELSE "awaiting_approval"
      duplicate == action # NoAction /\ (\/ IsPending(call[c].ticket, action)
                                         \/ IsExecuted(call[c].ticket, action))
  IN /\ call[c].pc = "finalize"
     /\ \/ ~Commands!MayEnd(r, target) /\ Raise(c, "superseded")
        \/ Commands!MayEnd(r, target) /\ duplicate /\ Raise(c, "duplicate")
     /\ UNCHANGED <<tables, trace, evidence>>

\* The process dies, or its task is cancelled.
Die(c) ==
  /\ Live(c)
  /\ Goto(c, "dead")
  /\ UNCHANGED <<tables, trace, evidence>>

Step(c) ==
  \/ Plan(c) \/ RecordPlan(c) \/ RecordVerdict(c) \/ ReadEvidence(c) \/ ReadPrior(c)
  \/ Decide(c) \/ Draft(c) \/ RecordDraftFailure(c)
  \/ Fail(c) \/ Finalize(c) \/ FinalizeRefused(c)

-----------------------------------------------------------------------------
(* The people.                                                             *)

Cancel(w) == Commands!CancelWorkflow(w, Supervisor) /\ UNCHANGED locals
Reject(w) == Commands!RejectApproval(w, Supervisor) /\ UNCHANGED locals

\* What the traces of a request's execution cite: the request's evidence_refs.
ActionRefs(type) == IF type = "original_refund" THEN {"invoice", "charge"} ELSE {"invoice"}

\* approve_and_execute writes the mutation's trace in the same transaction.
Approve(w) ==
  LET r == approval[w].run
      type == approval[w].action.type
  IN /\ Commands!ApproveAndExecute(w, Supervisor)
     /\ trace' = [trace EXCEPT ![r] =
          Append(@, Governed(MutationPolicy(type), ActionRefs(type), TRUE, {w}, Absent))]
     /\ UNCHANGED <<call, evidence>>

\* Mutant of RefusalOf: a request that is approved by now is a conflict.
RefusalOfNoReplay(w) ==
  IF approval[w].status \in {"approved", "rejected", "withdrawn"}
  THEN "approval.terminal_conflict" ELSE Absent

\* The error approve_and_execute answers for a request that exists, in the order
\* of its checks; Absent if it executes it or answers with its execution.
RefusalOf(w) ==
  LET settled == approval[w].status \in {"rejected", "withdrawn"}
      pending == approval[w].status = "pending"
      awaiting == workflow[w].status = "awaiting_approval"
  IN CASE approval[w].status = "approved" /\ mutation[w] = None -> "approval.audit_incomplete"
       [] settled -> "approval.terminal_conflict"
       [] pending /\ ~awaiting -> "workflow.approval_conflict"
       [] pending /\ awaiting /\ mutation[w] # None -> "approval.audit_incomplete"
       [] pending /\ awaiting /\ mutation[w] = None
          /\ IsExecuted(workflow[w].ticket, approval[w].action) -> "mutation.duplicate_action"
       [] OTHER -> Absent

RefusedTrace(w) ==
  LET type == approval[w].action.type
      policy == MutationPolicy(type)
      missing == MissingRefs(policy, ActionRefs(type), TRUE, {w})
      code == RefusalOf(w)
  IN Trace(policy, ActionRefs(type), TRUE, {w}, code, BlockedMetadata(policy, missing, code))

Refusals(r) == Cardinality({i \in DOMAIN trace[r] : trace[r][i].error # Absent})

\* The command is refused: the kernel leaves a blocked trace on the run that
\* asked, in a transaction of its own.  A request that was refused once stays
\* refused or is deleted with its run, whose foreign key the trace then fails,
\* so this is one step.  Somebody may always have read the request, without a
\* lock, before it was settled; who reads it rejected is turned away earlier.
ApproveRefused(w) ==
  LET r == approval[w].run IN
  /\ approval[w].status # Absent /\ RefusalOf(w) # Absent
  /\ r # None /\ RunExists(r) /\ Refusals(r) < MaxRefusals
  /\ trace' = [trace EXCEPT ![r] = Append(@, RefusedTrace(w))]
  /\ UNCHANGED <<tables, call, evidence>>

\* reset_demo_live_state, and reset_eval_fixture_state before every case.
Reset(t) ==
  /\ Commands!ResetTicket(t)
  /\ trace' = [r \in RunIds |-> IF r \in RunsOf(t) THEN << >> ELSE trace[r]]
  /\ UNCHANGED <<call, evidence>>

AgentNext ==
  \/ \E c \in Calls, t \in Tickets, k \in Keys :
       \/ Replay(c, t, k)
       \/ \E w \in WorkflowIds, r \in RunIds : Start(c, t, k, w, r)
  \/ \E c \in Calls : Step(c) \/ Die(c) \/ Escape(c, "plan") \/ Escape(c, "draft")
  \/ \E w \in WorkflowIds : Cancel(w) \/ Reject(w) \/ Approve(w) \/ ApproveRefused(w)
  \/ \E t \in Tickets : Reset(t)

AgentSpec == AgentInit /\ [][AgentNext]_vars

\* A call whose process lives goes on: every await of the loop returns (the
\* model is asked with a timeout, statements wait only for short transactions).
FairSpec == AgentSpec /\ \A c \in Calls : WF_vars(Step(c))
-----------------------------------------------------------------------------
\* One loop writes a run: whatever keys are sent again, no two calls that still
\* go on, and no call that goes on and one that ended otherwise, share a run.
OneLoopPerRun ==
  \A c, d \in Calls : c # d /\ call[c].run # None => call[c].run # call[d].run

\* A run is left running, its ticket blocked until somebody cancels it, only by
\* a process that died or by the three errors the loop does not turn into a
\* failed run: refused evidence, an unconverted exception of the provider, and
\* an action that is pending or executed already.
OnlyRefusalsStrand ==
  \A r \in RunIds : run[r].status = "running" =>
    \E c \in Calls :
      /\ call[c].run = r
      /\ \/ Live(c)
         \/ call[c].pc = "dead"
         \/ call[c].pc = "raised" /\ call[c].cause \in {"evidence", "escaped", "duplicate"}

\* The verifier is the only thing between a model's plan and a trace that says
\* the loop followed it: a call goes on with the plans that say what the loop
\* will do, and with no other, whatever is wrong with them and wherever, and the
\* retry does not carry over the first plan's verdict.
AcceptanceIsExact == \A c \in Calls : call[c].accepted = call[c].follows

\* What the loop leaves behind passes its own compliance check: a run that
\* completed has every trace, with every reference, the check asks for, while
\* its request is pending and after it was approved, rejected or withdrawn.  The
\* check reports nothing but an approver who came too late, and that only of a
\* run whose request somebody rejected or withdrew: the second of two approvers
\* leaves no trace of a refusal on a run whose action was executed.
FinishedRunsComply ==
  \A r \in RunIds : run[r].status = "completed" =>
    LET failures == Failures(r, run[r].ticket, TRUE, trace[r], approval, mutation) IN
    \/ failures = {}
    \/ /\ failures = {"approval.terminal_conflict"}
       /\ \E w \in WorkflowIds : /\ approval[w].run = r
                                 /\ approval[w].status \in {"rejected", "withdrawn"}

\* A call whose run was cancelled or deleted under it changes no table any more,
\* however far it got; only its traces may still be appended.
LateLoopsChangeNothing ==
  [][\A c \in Calls :
       Live(c) /\ call'[c] # call[c] /\ call[c].run # None =>
         \/ run[call[c].run].status = "running"
         \/ UNCHANGED tables]_vars

\* Every call that was started ends, if its process lives.
CallsEnd == \A c \in Calls : Live(c) ~> ~Live(c)
=============================================================================
