--------------------------- MODULE DecisionTraces ---------------------------
(***************************************************************************)
(* The traces people's decisions leave on the run that asked for approval. *)
(* POST /approvals/{id}/approve goes through ApprovalDecisionService and   *)
(* GovernanceKernel.execute_approved_mock_financial_action: an unlocked    *)
(* read, the locked command, and, when the command answers 409, a blocked  *)
(* trace written by a transaction of its own.  Trace numbers are           *)
(* max(sequence) + 1, read without a lock.  Rejections, cancellations and  *)
(* the demo reset run in between; a session may die at any step.           *)
(*                                                                         *)
(* There is one request, pending at first, and one completed run that made *)
(* it.  Module WorkflowSessions has the commands on all tables.            *)
(***************************************************************************)
EXTENDS Naturals, FiniteSets

CONSTANTS
  Sessions,   \* HTTP requests that decide about the request
  Nobody      \* no session

ASSUME NobodyAssumption == Nobody \notin Sessions

VARIABLES
  request,    \* approval_requests.status; "deleted" with its run by the reset
  mutation,   \* the sessions whose transaction inserted a mock mutation
  traces,     \* tool_traces of the run
  lock,       \* the session holding the workflow and approval row locks
  at,         \* per session: its next step, or how it ended
  number      \* per session: the sequence it will insert

vars == <<request, mutation, traces, lock, at, number>>

\* The trace finalize_run stored for the request: approval.create_request.
Proposal == [number |-> 1, by |-> Nobody, blocked |-> FALSE]

Init ==
  /\ request = "pending" /\ mutation = {}
  /\ traces = {Proposal}
  /\ lock = Nobody
  /\ at = [s \in Sessions |-> "idle"]
  /\ number = [s \in Sessions |-> 0]

GoTo(s, step) == at' = [at EXCEPT ![s] = step]

\* Mutant of NextNumber: the highest number is given again.
NextNumberAgain ==
  IF traces = {} THEN 1
  ELSE CHOOSE n \in {t.number : t \in traces} : \A t \in traces : t.number <= n

NextNumber ==
  IF traces = {} THEN 1
  ELSE 1 + CHOOSE n \in {t.number : t \in traces} : \A t \in traces : t.number <= n

ReadNumber(s) == number' = [number EXCEPT ![s] = NextNumber]

TraceOf(s, blocked) == [number |-> number[s], by |-> s, blocked |-> blocked]

-----------------------------------------------------------------------------
\* The unlocked get_approval, on a request that is still there.
ApproveRead(s) ==
  /\ at[s] = "idle"
  /\ CASE request = "deleted" -> GoTo(s, "not_found")
       [] request = "rejected" -> GoTo(s, "turned_away")
       [] request = "approved" -> GoTo(s, "replayed")
       [] request \in {"pending", "withdrawn"} -> GoTo(s, "command")
  /\ UNCHANGED <<request, mutation, traces, lock, number>>

\* Mutant of ApproveLock: the row the session read before it waited is used.
ApproveLockStale(s) ==
  /\ at[s] = "command" /\ lock = Nobody
  /\ lock' = s /\ GoTo(s, "executing") /\ ReadNumber(s)
  /\ UNCHANGED <<request, mutation, traces>>

\* Mutant of ApproveLock: a request that is approved by now is a conflict.
ApproveLockNoReplay(s) ==
  /\ at[s] = "command" /\ lock = Nobody
  /\ IF request = "pending"
     THEN lock' = s /\ GoTo(s, "executing") /\ ReadNumber(s)
     ELSE GoTo(s, "block") /\ UNCHANGED <<lock, number>>
  /\ UNCHANGED <<request, mutation, traces>>

\* approve_and_execute: workflow and approval FOR UPDATE, the approval as it
\* is now, and max(sequence) for the execution trace.  A deleted request is
\* 404, which the kernel traces like any MeterDeskAPIError.
ApproveLock(s) ==
  /\ at[s] = "command" /\ lock = Nobody
  /\ CASE request = "pending" -> lock' = s /\ GoTo(s, "executing") /\ ReadNumber(s)
       [] request = "approved" -> GoTo(s, "replayed") /\ UNCHANGED <<lock, number>>
       [] OTHER -> GoTo(s, "block") /\ UNCHANGED <<lock, number>>
  /\ UNCHANGED <<request, mutation, traces>>

ApproveCommit(s) ==
  /\ at[s] = "executing"
  /\ request' = "approved" /\ mutation' = mutation \cup {s}
  /\ traces' = traces \cup {TraceOf(s, FALSE)}
  /\ lock' = Nobody
  /\ GoTo(s, "executed")
  /\ UNCHANGED number

\* _record_financial_block: add_tool_trace reads max(sequence), then inserts
\* and commits.  The reset may have deleted the run: the foreign key fails.
BlockRead(s) ==
  /\ at[s] = "block"
  /\ ReadNumber(s) /\ GoTo(s, "insert")
  /\ UNCHANGED <<request, mutation, traces, lock>>

BlockInsert(s) ==
  /\ at[s] = "insert"
  /\ IF request = "deleted"
     THEN GoTo(s, "internal_error") /\ UNCHANGED traces
     ELSE /\ GoTo(s, "conflict")
          /\ traces' = traces \cup {TraceOf(s, TRUE)}
  /\ UNCHANGED <<request, mutation, lock, number>>

-----------------------------------------------------------------------------
\* ApprovalDecisionService.reject and reject_approval; the unlocked read only
\* answers earlier what the locked one would.
Reject(s) ==
  /\ at[s] = "idle" /\ lock = Nobody
  /\ CASE request = "pending" -> request' = "rejected" /\ GoTo(s, "rejected")
       [] request = "rejected" -> GoTo(s, "replayed") /\ UNCHANGED request
       [] request = "deleted" -> GoTo(s, "not_found") /\ UNCHANGED request
       [] OTHER -> GoTo(s, "refused") /\ UNCHANGED request
  /\ UNCHANGED <<mutation, traces, lock, number>>

\* cancel_workflow withdraws the pending request.
Cancel(s) ==
  /\ at[s] = "idle" /\ lock = Nobody
  /\ request = "pending"
  /\ request' = "withdrawn" /\ GoTo(s, "cancelled")
  /\ UNCHANGED <<mutation, traces, lock, number>>

\* reset_demo_live_state deletes traces, mutations, requests and runs.
Reset ==
  /\ lock = Nobody /\ request # "deleted"
  /\ request' = "deleted" /\ mutation' = {} /\ traces' = {}
  /\ UNCHANGED <<lock, at, number>>

\* The process or the client's connection goes away: the open transaction
\* rolls back.
Steps == {"command", "executing", "block", "insert"}
Die(s) ==
  /\ at[s] \in Steps
  /\ GoTo(s, "dead")
  /\ lock' = IF lock = s THEN Nobody ELSE lock
  /\ UNCHANGED <<request, mutation, traces, number>>

Next ==
  \/ \E s \in Sessions :
       \/ ApproveRead(s) \/ ApproveLock(s) \/ ApproveCommit(s)
       \/ BlockRead(s) \/ BlockInsert(s)
       \/ Reject(s) \/ Cancel(s) \/ Die(s)
  \/ Reset

Spec == Init /\ [][Next]_vars

-----------------------------------------------------------------------------
\* However approvals, rejections and cancellations race, retry and die, the
\* money moves at most once, exactly when the request is approved, and the run
\* then has exactly one execution trace, by the same transaction.
OneExecutionTrace ==
  /\ request # "deleted" => (request = "approved" <=> mutation # {})
  /\ Cardinality(mutation) <= 1
  /\ {t.by : t \in {u \in traces : ~u.blocked}} \ {Nobody} = mutation

\* A run whose request was executed carries no blocked trace: an approver who
\* comes second does not make the first one's run fail the compliance check.
ExecutedRunsStayClean ==
  request = "approved" => \A t \in traces : ~t.blocked

\* Numbers are given without a lock, but only blocked attempts may share one:
\* the execution trace and the proposal keep their places.
OnlyBlockedTracesTie ==
  \A t, u \in traces : t # u /\ t.number = u.number => t.blocked /\ u.blocked
=============================================================================
