-------------------------- MODULE WorkflowSessions --------------------------
(***************************************************************************)
(* The workflow commands as concurrent database sessions execute them      *)
(* under Postgres READ COMMITTED: unlocked reads, SELECT ... FOR UPDATE on  *)
(* the workflow row and then on the run or approval row, decisions taken   *)
(* on what the ORM holds in memory, unique indexes checked when the rows    *)
(* are written, and a commit that publishes the writes and releases the     *)
(* locks.  A session may die at any point; its transaction rolls back.      *)
(*                                                                         *)
(* A session waits by having no enabled step: a lock is taken when it is    *)
(* free.  A row is written and committed in one step, since no other        *)
(* session sees it before; an insert that Postgres blocks behind another's  *)
(* uncommitted index entry is an insert that has not happened yet.          *)
(***************************************************************************)
EXTENDS CaseTables, FiniteSets

CONSTANT Sessions

ASSUME SessionsAssumption == None \notin Sessions

VARIABLES
  at,      \* per session: the step it executes next
  cmd,     \* per session: the command it was called with
  seen,    \* per session: the rows the ORM session holds in memory
  answer,  \* per session: the result, once there is one
  holder   \* per row: the session holding its FOR UPDATE lock

vars == <<tables, at, cmd, seen, answer, holder>>
local == <<at, cmd, seen, answer>>

-----------------------------------------------------------------------------
WorkflowRow(w) == <<"workflow", w>>
ApprovalRow(w) == <<"approval", w>>
RunRow(r) == <<"run", r>>
Rows == ({"workflow", "approval"} \X WorkflowIds) \cup ({"run"} \X RunIds)

\* A session may take a lock it already holds.
Free(s, row) == holder[row] \in {None, s}
Lock(s, row) == holder' = [holder EXCEPT ![row] = s]
ReleaseAll(s) ==
  holder' = [row \in Rows |-> IF holder[row] = s THEN None ELSE holder[row]]

NoCommand == [op |-> "none"]
NothingSeen == [workflow |-> NoWorkflow, run |-> NoRun, approval |-> NoApproval,
                pending |-> {}, running |-> {}, target |-> None]

GoTo(s, step) == at' = [at EXCEPT ![s] = step]
Answer(s, result) ==
  /\ GoTo(s, "answered")
  /\ answer' = [answer EXCEPT ![s] = result]
  /\ ReleaseAll(s)
  /\ UNCHANGED <<cmd, seen>>

\* An answer without a write.
Reply(s, result) == Answer(s, result) /\ UNCHANGED tables

\* A step that only reads: it goes on to `step` remembering `rows`.
Read(s, rows, step) ==
  /\ seen' = [seen EXCEPT ![s] = rows]
  /\ GoTo(s, step)
  /\ UNCHANGED <<tables, cmd, answer>>

\* Begin a command at its first step, with nothing in memory.
Begin(s, command, step) ==
  /\ at[s] = "idle"
  /\ cmd' = [cmd EXCEPT ![s] = command]
  /\ GoTo(s, step)
  /\ UNCHANGED <<tables, seen, answer, holder>>

-----------------------------------------------------------------------------
(* start_or_replay_run(ticket, key)                                        *)

CallStart(s, t, k) ==
  Begin(s, [op |-> "start", ticket |-> t, key |-> k], "lookup")

\* The run the unique index finds is the answer, whatever its status.
Replay(s) ==
  \E r \in RunWithKey(cmd[s].ticket, cmd[s].key) :
    Reply(s, [kind |-> "run", run |-> r, new |-> FALSE])

Lookup(s) ==
  /\ at[s] = "lookup"
  /\ \/ Replay(s)
     \/ /\ RunWithKey(cmd[s].ticket, cmd[s].key) = {}
        /\ Read(s, seen[s], "select_active")
        /\ UNCHANGED holder

\* The statement's snapshot: the ticket's active workflow, or none.
SelectActive(s) ==
  LET active == {w \in WorkflowsOf(cmd[s].ticket) : Active(w)} IN
  /\ at[s] = "select_active"
  /\ IF active = {}
     THEN Read(s, seen[s], "select_previous")
     ELSE \E w \in active :
            Read(s, [seen[s] EXCEPT !.target = w], "lock_active")
  /\ UNCHANGED holder

\* FOR UPDATE re-evaluates WHERE on the row's current version: a row that is no
\* longer active is skipped, and the query returns nothing.
LockActive(s) ==
  LET w == seen[s].target IN
  /\ at[s] = "lock_active"
  /\ Free(s, WorkflowRow(w))
  /\ IF Active(w)
     THEN /\ Lock(s, WorkflowRow(w))
          /\ Read(s, [seen[s] EXCEPT !.workflow = workflow[w]], "use_active")
     ELSE /\ UNCHANGED holder
          /\ Read(s, seen[s], "select_previous")

UseActive(s) ==
  LET w == seen[s].target
      known == RunWithKey(cmd[s].ticket, cmd[s].key)
  IN
  /\ at[s] = "use_active"
  /\ \/ /\ seen[s].workflow.status # "needs_retry"
        /\ \/ /\ \A r \in known : Free(s, RunRow(r))
              /\ Replay(s)
           \/ known = {} /\ Reply(s, [kind |-> "active_conflict"])
     \/ /\ seen[s].workflow.status = "needs_retry"
        /\ known = {}
        /\ \E r \in RunIds :
             /\ ~RunExists(r)
             /\ InsertRetry(cmd[s].ticket, cmd[s].key, w, r, seen[s].workflow)
             /\ Answer(s, [kind |-> "run", run |-> r, new |-> TRUE])
     \/ /\ seen[s].workflow.status = "needs_retry"
        /\ known # {}
        /\ ReleaseAll(s)
        /\ Read(s, seen[s], "reread")

SelectPrevious(s) ==
  /\ at[s] = "select_previous"
  /\ \E last \in CyclesOf(cmd[s].ticket) :
       /\ \A n \in CyclesOf(cmd[s].ticket) : n <= last
       /\ Read(s, [seen[s] EXCEPT !.workflow = [NoWorkflow EXCEPT !.cycle = last]],
               "insert_cycle")
  /\ UNCHANGED holder

\* The unique indexes on the active workflow of a ticket, on (ticket, cycle)
\* and on (ticket, key) let the inserts pass, or the transaction rolls back.
InsertCycleAllowed(t, k, cycle) ==
  /\ \A w \in WorkflowsOf(t) : ~Active(w) /\ workflow[w].cycle # cycle
  /\ RunWithKey(t, k) = {}

InsertNewCycle(s) ==
  LET t == cmd[s].ticket
      k == cmd[s].key
      cycle == seen[s].workflow.cycle + 1
  IN
  /\ at[s] = "insert_cycle"
  /\ \/ /\ InsertCycleAllowed(t, k, cycle)
        /\ \E w \in WorkflowIds, r \in RunIds :
             /\ ~Exists(w) /\ ~RunExists(r)
             /\ InsertCycle(t, k, w, r, cycle)
             /\ Answer(s, [kind |-> "run", run |-> r, new |-> TRUE])
     \/ /\ ~InsertCycleAllowed(t, k, cycle)
        /\ ReleaseAll(s)
        /\ Read(s, seen[s], "reread")

\* After an IntegrityError: the winner's run, if it has the same key.
Reread(s) ==
  /\ at[s] = "reread"
  /\ \/ Replay(s)
     \/ /\ RunWithKey(cmd[s].ticket, cmd[s].key) = {}
        /\ Reply(s, [kind |-> "start_conflict"])

-----------------------------------------------------------------------------
(* finalize_run(run, ...) and fail_run(run, ...): `target` is the status    *)
(* the workflow is to move to, `action` the proposed action if any.         *)

CallEnd(s, r, target, a) ==
  /\ RunExists(r)
  /\ a # None <=> target = "awaiting_approval"
  /\ Begin(s, [op |-> "end", run |-> r, workflow |-> run[r].workflow,
               target |-> target, action |-> a], "read_run")

\* run_ref, without a lock.
ReadRun(s) ==
  /\ at[s] = "read_run"
  /\ Read(s, [seen[s] EXCEPT !.run = run[cmd[s].run]], "lock_workflow")
  /\ UNCHANGED holder

\* Mutant of LockRun: the session keeps the run it read before the lock.
LockRunStale(s) ==
  LET r == cmd[s].run IN
  /\ at[s] = "lock_run"
  /\ Free(s, RunRow(r))
  /\ Lock(s, RunRow(r))
  /\ Read(s, seen[s], "check_end")

\* The locked SELECT of the run overwrites what the session remembers of it
\* (populate_existing).
LockRun(s) ==
  LET r == cmd[s].run IN
  /\ at[s] = "lock_run"
  /\ Free(s, RunRow(r))
  /\ Lock(s, RunRow(r))
  /\ Read(s, [seen[s] EXCEPT !.run = run[r]], "check_end")

CheckEnd(s) ==
  LET t == seen[s].run.ticket
      a == cmd[s].action
  IN
  /\ at[s] = "check_end"
  /\ IF /\ seen[s].run.status = "running"
        /\ CanTransition(seen[s].workflow.status, cmd[s].target)
        /\ a # None => ~IsPending(t, a) /\ ~IsExecuted(t, a)
     THEN /\ Read(s, seen[s], "commit_end")
          /\ UNCHANGED holder
     ELSE Reply(s, [kind |-> "conflict"])

\* Only an approval insert meets a unique index: one per workflow, and one
\* pending per fingerprint.
CommitEnd(s) ==
  LET r == cmd[s].run
      w == cmd[s].workflow
      row == seen[s].workflow
      ended == [kind |-> "ended", run |-> r]
  IN
  /\ at[s] = "commit_end"
  /\ \/ /\ cmd[s].target = "completed_no_action"
        /\ WriteNoAction(r, w, row)
        /\ Answer(s, ended)
     \/ /\ cmd[s].target \in {"needs_retry", "failed"}
        /\ WriteFailure(r, w, row, cmd[s].target)
        /\ Answer(s, ended)
     \/ /\ cmd[s].target = "awaiting_approval"
        /\ IF /\ approval[w].status = Absent
              /\ ~IsPending(row.ticket, cmd[s].action)
           THEN /\ WriteProposal(r, w, row, cmd[s].action)
                /\ Answer(s, ended)
           ELSE Reply(s, [kind |-> "conflict"])

-----------------------------------------------------------------------------
(* cancel_workflow(workflow), by a role that may                           *)

CallCancel(s, w, role) ==
  /\ Exists(w)
  /\ May(role, "workflow.cancel")
  /\ Begin(s, [op |-> "cancel", workflow |-> w, role |-> role], "lock_workflow")

\* The workflow's pending approval, if it has one; FOR UPDATE looks again.
LockPending(s) ==
  LET w == cmd[s].workflow IN
  /\ at[s] = "lock_pending"
  /\ IF approval[w].status = "pending"
     THEN /\ Free(s, ApprovalRow(w))
          /\ Lock(s, ApprovalRow(w))
          /\ Read(s, [seen[s] EXCEPT !.pending = {w}], "lock_running")
     ELSE /\ UNCHANGED holder
          /\ Read(s, seen[s], "lock_running")

LockRunning(s) ==
  LET running == {r \in RunIds : /\ run[r].workflow = cmd[s].workflow
                                 /\ run[r].status = "running"}
  IN
  /\ at[s] = "lock_running"
  /\ IF running = {}
     THEN /\ UNCHANGED holder
          /\ Read(s, seen[s], "commit_cancel")
     ELSE \E r \in running :
            /\ Free(s, RunRow(r))
            /\ Lock(s, RunRow(r))
            /\ Read(s, [seen[s] EXCEPT !.running = {r}], "commit_cancel")

CommitCancel(s) ==
  LET w == cmd[s].workflow IN
  /\ at[s] = "commit_cancel"
  /\ WriteCancellation(w, seen[s].workflow, seen[s].pending, seen[s].running,
                       cmd[s].role)
  /\ Answer(s, [kind |-> "cancelled", workflow |-> w])

-----------------------------------------------------------------------------
(* Approving and rejecting the request of a workflow: the service reads it  *)
(* without a lock, then approve_and_execute or reject_approval locks.       *)

CallDecide(s, w, role, decision) ==
  /\ approval[w].status # Absent
  /\ May(role, "approval.decide")
  /\ Begin(s, [op |-> decision, workflow |-> w, role |-> role], "read_approval")

Executed(w) == [kind |-> "executed", workflow |-> w]
Rejected(w) == [kind |-> "rejected", workflow |-> w]

\* Mutant of ReadApproval: the service locks the request before the workflow.
ReadApprovalForUpdate(s) ==
  LET w == cmd[s].workflow IN
  /\ at[s] = "read_approval"
  /\ Free(s, ApprovalRow(w))
  /\ Lock(s, ApprovalRow(w))
  /\ Read(s, [seen[s] EXCEPT !.approval = approval[w]], "lock_workflow")

\* GovernanceKernel.execute_approved_mock_financial_action and
\* ApprovalDecisionService.reject answer from the unlocked read if it is decided.
ReadApproval(s) ==
  LET w == cmd[s].workflow
      status == approval[w].status
  IN
  /\ at[s] = "read_approval"
  /\ \/ cmd[s].op = "approve" /\ status = "rejected" /\ Reply(s, [kind |-> "conflict"])
     \/ cmd[s].op = "approve" /\ status = "approved" /\ Reply(s, Executed(w))
     \/ cmd[s].op = "reject" /\ status = "approved" /\ Reply(s, [kind |-> "conflict"])
     \/ cmd[s].op = "reject" /\ status = "rejected" /\ Reply(s, Rejected(w))
     \/ /\ status \in {"pending", "withdrawn"}
        /\ Read(s, [seen[s] EXCEPT !.approval = approval[w]], "lock_workflow")
        /\ UNCHANGED holder

\* The locked SELECT overwrites what the session remembers of the request.
LockApproval(s) ==
  LET w == cmd[s].workflow IN
  /\ at[s] = "lock_approval"
  /\ Free(s, ApprovalRow(w))
  /\ Lock(s, ApprovalRow(w))
  /\ Read(s, [seen[s] EXCEPT !.approval = approval[w]],
          IF cmd[s].op = "approve" THEN "check_approve" ELSE "commit_reject")

CheckApprove(s) ==
  LET w == cmd[s].workflow
      request == seen[s].approval
  IN
  /\ at[s] = "check_approve"
  /\ \/ /\ request.status = "approved"
        /\ Reply(s, IF mutation[w] = None THEN [kind |-> "audit_incomplete"]
                    ELSE Executed(w))
     \/ /\ request.status # "approved"
        /\ IF /\ request.status = "pending"
              /\ seen[s].workflow.status = "awaiting_approval"
              /\ mutation[w] = None
              /\ ~IsExecuted(seen[s].workflow.ticket, request.action)
           THEN /\ Read(s, seen[s], "commit_approve")
                /\ UNCHANGED holder
           ELSE Reply(s, [kind |-> "conflict"])

\* mock_mutations has a row per workflow and per executed fingerprint.
CommitApprove(s) ==
  LET w == cmd[s].workflow
      request == seen[s].approval
  IN
  /\ at[s] = "commit_approve"
  /\ IF /\ mutation[w] = None
        /\ ~IsExecuted(seen[s].workflow.ticket, request.action)
     THEN /\ WriteExecution(w, seen[s].workflow, request, cmd[s].role)
          /\ Answer(s, Executed(w))
     ELSE Reply(s, [kind |-> "conflict"])

\* Mutant of CommitReject: a withdrawn request counts as rejected.
CommitRejectTerminal(s) ==
  LET w == cmd[s].workflow
      request == seen[s].approval
  IN
  /\ at[s] = "commit_reject"
  /\ \/ request.status \in {"rejected", "withdrawn"} /\ Reply(s, Rejected(w))
     \/ /\ request.status \notin {"rejected", "withdrawn"}
        /\ IF request.status = "pending" /\ seen[s].workflow.status = "awaiting_approval"
           THEN /\ WriteRejection(w, seen[s].workflow, request, cmd[s].role)
                /\ Answer(s, Rejected(w))
           ELSE Reply(s, [kind |-> "conflict"])

CommitReject(s) ==
  LET w == cmd[s].workflow
      request == seen[s].approval
  IN
  /\ at[s] = "commit_reject"
  /\ \/ request.status = "rejected" /\ Reply(s, Rejected(w))
     \/ /\ request.status # "rejected"
        /\ IF request.status = "pending" /\ seen[s].workflow.status = "awaiting_approval"
           THEN /\ WriteRejection(w, seen[s].workflow, request, cmd[s].role)
                /\ Answer(s, Rejected(w))
           ELSE Reply(s, [kind |-> "conflict"])

-----------------------------------------------------------------------------

\* SELECT ... FOR UPDATE of the command's workflow, the first lock of every
\* command on an existing workflow; cancellation checks for terminal here.
LockWorkflow(s) ==
  LET w == cmd[s].workflow IN
  /\ at[s] = "lock_workflow"
  /\ Free(s, WorkflowRow(w))
  /\ IF cmd[s].op = "cancel" /\ Terminal(w)
     THEN Reply(s, [kind |-> "conflict"])
     ELSE /\ Lock(s, WorkflowRow(w))
          /\ Read(s, [seen[s] EXCEPT !.workflow = workflow[w]],
                  CASE cmd[s].op = "end" -> "lock_run"
                    [] cmd[s].op = "cancel" -> "lock_pending"
                    [] OTHER -> "lock_approval")

\* The caller takes its answer, or the process or its connection dies and the
\* transaction rolls back: the session's locks and memory are gone.
Close(s) ==
  /\ at[s] # "idle"
  /\ GoTo(s, "idle")
  /\ cmd' = [cmd EXCEPT ![s] = NoCommand]
  /\ seen' = [seen EXCEPT ![s] = NothingSeen]
  /\ answer' = [answer EXCEPT ![s] = None]
  /\ ReleaseAll(s)
  /\ UNCHANGED tables

EndTargets == {"completed_no_action", "awaiting_approval", "needs_retry", "failed"}

Call(s) ==
  \/ \E t \in Tickets, k \in Keys : CallStart(s, t, k)
  \/ \E r \in RunIds, target \in EndTargets, a \in Actions \cup {None} :
       CallEnd(s, r, target, a)
  \/ \E w \in WorkflowIds, role \in Roles :
       \/ CallCancel(s, w, role)
       \/ \E decision \in {"approve", "reject"} : CallDecide(s, w, role, decision)

Proceed(s) ==
  \/ Lookup(s) \/ SelectActive(s) \/ LockActive(s) \/ UseActive(s)
  \/ SelectPrevious(s) \/ InsertNewCycle(s) \/ Reread(s)
  \/ ReadRun(s) \/ LockRun(s) \/ CheckEnd(s) \/ CommitEnd(s)
  \/ LockPending(s) \/ LockRunning(s) \/ CommitCancel(s)
  \/ ReadApproval(s) \/ LockApproval(s) \/ CheckApprove(s)
  \/ CommitApprove(s) \/ CommitReject(s)
  \/ LockWorkflow(s)

SessionNext == \E s \in Sessions : Call(s) \/ Proceed(s) \/ Close(s)

SessionInit ==
  /\ Empty
  /\ at = [s \in Sessions |-> "idle"]
  /\ cmd = [s \in Sessions |-> NoCommand]
  /\ seen = [s \in Sessions |-> NothingSeen]
  /\ answer = [s \in Sessions |-> None]
  /\ holder = [row \in Rows |-> None]

SessionSpec == SessionInit /\ [][SessionNext]_vars

\* A command that was received is carried on: the event loop resumes the
\* coroutine when its statement returns, and Postgres grants a row lock to
\* its waiters in turn.  Nothing makes callers call or sessions die.
FairSpec == SessionSpec /\ \A s \in Sessions : SF_vars(Proceed(s))

-----------------------------------------------------------------------------
Commands == INSTANCE CaseWorkflow

\* Whatever the interleaving, the tables change as if the committed commands
\* had been executed one at a time: every commit is an atomic command of
\* CaseWorkflow, and everything else leaves the tables alone.
ImplementsCaseWorkflow == Commands!Spec

\* The row a session needs to go on, as a set: empty unless it is at a lock.
WaitsFor(s) ==
  CASE at[s] = "lock_workflow" -> {WorkflowRow(cmd[s].workflow)}
    [] at[s] = "lock_active" -> {WorkflowRow(seen[s].target)}
    [] at[s] = "use_active" /\ seen[s].workflow.status # "needs_retry" ->
         {RunRow(r) : r \in RunWithKey(cmd[s].ticket, cmd[s].key)}
    [] at[s] \in {"lock_approval", "lock_pending"} -> {ApprovalRow(cmd[s].workflow)}
    [] at[s] = "lock_run" -> {RunRow(cmd[s].run)}
    [] at[s] = "lock_running" ->
         {RunRow(r) : r \in {q \in RunIds : /\ run[q].workflow = cmd[s].workflow
                                            /\ run[q].status = "running"}}
    [] OTHER -> {}

\* No deadlock: no group of sessions in which each waits for a row another of
\* the group holds.
NoWaitCycle ==
  ~ \E group \in (SUBSET Sessions) \ {{}} :
      \A s \in group : \E row \in WaitsFor(s) : holder[row] \in group \ {s}

\* Every command that is received is answered, unless its session dies.
CommandsAreAnswered ==
  \A s \in Sessions : at[s] # "idle" ~> at[s] \in {"answered", "idle"}

\* What a caller is told is so: a start is answered with the run of its ticket
\* and key, and a claim that an action was executed, a request rejected, a
\* workflow cancelled or a run ended is borne out by the tables, also when it
\* comes from an unlocked read or from another session's decision.
AnswersAreTrue ==
  \A s \in Sessions : at[s] = "answered" =>
    LET a == answer[s] IN
    /\ a.kind = "run" => a.run \in RunWithKey(cmd[s].ticket, cmd[s].key)
    /\ a.kind = "executed" =>
         /\ approval[a.workflow].status = "approved"
         /\ mutation[a.workflow] # None
    /\ a.kind = "rejected" => approval[a.workflow].status = "rejected"
    /\ a.kind = "cancelled" => workflow[a.workflow].status = "cancelled"
    /\ a.kind = "ended" => run[a.run].status \in {"completed", "failed"}
    /\ a.kind # "audit_incomplete"
=============================================================================
