----------------------------- MODULE CaseTables -----------------------------
(***************************************************************************)
(* The committed contents of the five tables every workflow command reads  *)
(* and writes (models.py), the row updates the commands are made of        *)
(* (repositories.py), and what must be true of the tables together.        *)
(*                                                                         *)
(* One variable per table.  A table is a function from row ids to rows,    *)
(* and an id that names no row is mapped to a row whose status is Absent.  *)
(* The ids are the code's fresh uuids: an insert takes any absent id.      *)
(* approval_requests and mock_mutations are indexed by the workflow their  *)
(* uq_..._workflow index allows them at most one row for.                  *)
(***************************************************************************)
EXTENDS Workflows, Naturals

CONSTANTS
  Tickets,      \* ticket ids
  Keys,         \* Idempotency-Key header values
  Actions,      \* financial actions: type, target, amount and currency
  WorkflowIds,  \* ids of case_workflows rows
  RunIds,       \* ids of agent_runs rows
  None          \* SQL NULL

ASSUME NoneAssumption ==
  /\ None \notin Tickets /\ None \notin Keys /\ None \notin Actions
  /\ None \notin WorkflowIds /\ None \notin RunIds /\ None \notin Roles

VARIABLES
  workflow,     \* case_workflows
  ledger,       \* case_workflow_transitions, grouped by workflow
  run,          \* agent_runs
  approval,     \* approval_requests, by workflow
  mutation      \* mock_mutations: the executed action, by workflow

tables == <<workflow, ledger, run, approval, mutation>>

NoWorkflow == [ticket |-> None, cycle |-> 0, status |-> Absent, sequence |-> 0]
NoRun == [ticket |-> None, key |-> None, workflow |-> None, status |-> Absent]
NoApproval == [status |-> Absent, action |-> None, run |-> None, decider |-> None]

WorkflowRows == [ticket : Tickets \cup {None}, cycle : Nat,
                 status : WorkflowStatuses \cup {Absent}, sequence : Nat]
LedgerRows == [sequence : Nat, from : WorkflowStatuses \cup {Absent},
               to : WorkflowStatuses]
RunRows == [ticket : Tickets \cup {None}, key : Keys \cup {None},
            workflow : WorkflowIds \cup {None}, status : RunStatuses \cup {Absent}]
ApprovalRows == [status : ApprovalStatuses \cup {Absent}, action : Actions \cup {None},
                 run : RunIds \cup {None}, decider : Roles \cup {None}]

\* Type invariant: what models.py lets the columns hold.
TypeOK ==
  /\ workflow \in [WorkflowIds -> WorkflowRows]
  /\ ledger \in [WorkflowIds -> SUBSET LedgerRows]
  /\ run \in [RunIds -> RunRows]
  /\ approval \in [WorkflowIds -> ApprovalRows]
  /\ mutation \in [WorkflowIds -> Actions \cup {None}]

Empty ==
  /\ workflow = [w \in WorkflowIds |-> NoWorkflow]
  /\ ledger = [w \in WorkflowIds |-> {}]
  /\ run = [r \in RunIds |-> NoRun]
  /\ approval = [w \in WorkflowIds |-> NoApproval]
  /\ mutation = [w \in WorkflowIds |-> None]

-----------------------------------------------------------------------------
(* Reading the tables.                                                     *)

Exists(w) == workflow[w].status # Absent
Active(w) == workflow[w].status \in ActiveStatuses
Terminal(w) == workflow[w].status \in TerminalStatuses

WorkflowsOf(t) == {w \in WorkflowIds : Exists(w) /\ workflow[w].ticket = t}
CyclesOf(t) == {0} \cup {workflow[w].cycle : w \in WorkflowsOf(t)}
RunExists(r) == run[r].status # Absent
RunsOf(t) == {r \in RunIds : RunExists(r) /\ run[r].ticket = t}

\* The run the unique index on (ticket_id, idempotency_key) finds, if any.
RunWithKey(t, k) == {r \in RunsOf(t) : run[r].key = k}

\* The fingerprint of an action contains its ticket (build_action_fingerprint),
\* so an action collides only with the same action of the same ticket.
IsPending(t, a) ==
  \E w \in WorkflowIds : /\ approval[w].status = "pending"
                         /\ workflow[w].ticket = t
                         /\ approval[w].action = a
IsExecuted(t, a) ==
  \E w \in WorkflowIds : /\ mutation[w] # None
                         /\ workflow[w].ticket = t
                         /\ mutation[w] = a

-----------------------------------------------------------------------------
(* Writing the tables.  Each operator is the write half of one command:    *)
(* the caller supplies the case_workflows row it read, which the ORM holds *)
(* in memory, and the guards under which it writes.                        *)

\* Mutant of Move: the ledger row's from_status is read after the update.
MoveLateFrom(w, row, to) ==
  /\ workflow' = [workflow EXCEPT
       ![w] = [row EXCEPT !.status = to, !.sequence = @ + 1]]
  /\ ledger' = [ledger EXCEPT
       ![w] = @ \cup {[sequence |-> row.sequence + 1, from |-> to, to |-> to]}]

\* workflow.status = to; version and transition_sequence += 1; one ledger row.
Move(w, row, to) ==
  /\ workflow' = [workflow EXCEPT
       ![w] = [row EXCEPT !.status = to, !.sequence = @ + 1]]
  /\ ledger' = [ledger EXCEPT
       ![w] = @ \cup {[sequence |-> row.sequence + 1,
                       from |-> row.status, to |-> to]}]

NewRun(t, k, w) ==
  [ticket |-> t, key |-> k, workflow |-> w, status |-> "running"]

InsertCycle(t, k, w, r, cycle) ==
  /\ workflow' = [workflow EXCEPT
       ![w] = [ticket |-> t, cycle |-> cycle,
               status |-> InitialStatus, sequence |-> 1]]
  /\ ledger' = [ledger EXCEPT
       ![w] = {[sequence |-> 1, from |-> Absent, to |-> InitialStatus]}]
  /\ run' = [run EXCEPT ![r] = NewRun(t, k, w)]
  /\ UNCHANGED <<approval, mutation>>

InsertRetry(t, k, w, r, row) ==
  /\ Move(w, row, "investigating")
  /\ run' = [run EXCEPT ![r] = NewRun(t, k, w)]
  /\ UNCHANGED <<approval, mutation>>

WriteNoAction(r, w, row) ==
  /\ Move(w, row, "completed_no_action")
  /\ run' = [run EXCEPT ![r].status = "completed"]
  /\ UNCHANGED <<approval, mutation>>

WriteProposal(r, w, row, a) ==
  /\ Move(w, row, "awaiting_approval")
  /\ run' = [run EXCEPT ![r].status = "completed"]
  /\ approval' = [approval EXCEPT
       ![w] = [status |-> "pending", action |-> a, run |-> r, decider |-> None]]
  /\ UNCHANGED mutation

WriteFailure(r, w, row, target) ==
  /\ Move(w, row, target)
  /\ run' = [run EXCEPT ![r].status = "failed"]
  /\ UNCHANGED <<approval, mutation>>

\* Mutant of WriteCancellation: the run gets the approval's new status.
WriteCancellationSameStatus(w, row, pending, running, role) ==
  /\ Move(w, row, "cancelled")
  /\ approval' = [v \in WorkflowIds |->
       IF v \in pending
       THEN [approval[v] EXCEPT !.status = "withdrawn", !.decider = role]
       ELSE approval[v]]
  /\ run' = [r \in RunIds |->
       IF r \in running THEN [run[r] EXCEPT !.status = "withdrawn"] ELSE run[r]]
  /\ UNCHANGED mutation

\* `pending` and `running` are the rows the command locked: the workflow's
\* pending approval, if it has one, and its running run, if it has one.
WriteCancellation(w, row, pending, running, role) ==
  /\ Move(w, row, "cancelled")
  /\ approval' = [v \in WorkflowIds |->
       IF v \in pending
       THEN [approval[v] EXCEPT !.status = "withdrawn", !.decider = role]
       ELSE approval[v]]
  /\ run' = [r \in RunIds |->
       IF r \in running THEN [run[r] EXCEPT !.status = "cancelled"] ELSE run[r]]
  /\ UNCHANGED mutation

WriteExecution(w, row, request, role) ==
  /\ Move(w, row, "mock_executed")
  /\ approval' = [approval EXCEPT
       ![w] = [request EXCEPT !.status = "approved", !.decider = role]]
  /\ mutation' = [mutation EXCEPT ![w] = request.action]
  /\ UNCHANGED run

WriteRejection(w, row, request, role) ==
  /\ Move(w, row, "rejected")
  /\ approval' = [approval EXCEPT
       ![w] = [request EXCEPT !.status = "rejected", !.decider = role]]
  /\ UNCHANGED <<run, mutation>>

DeleteTicket(t) ==
  /\ workflow' = [w \in WorkflowIds |->
       IF w \in WorkflowsOf(t) THEN NoWorkflow ELSE workflow[w]]
  /\ ledger' = [w \in WorkflowIds |->
       IF w \in WorkflowsOf(t) THEN {} ELSE ledger[w]]
  /\ run' = [r \in RunIds |-> IF r \in RunsOf(t) THEN NoRun ELSE run[r]]
  /\ approval' = [w \in WorkflowIds |->
       IF w \in WorkflowsOf(t) THEN NoApproval ELSE approval[w]]
  /\ mutation' = [w \in WorkflowIds |->
       IF w \in WorkflowsOf(t) THEN None ELSE mutation[w]]
-----------------------------------------------------------------------------
(* What must be true of the tables together.                               *)

\* The cycles of a ticket are numbered 1, 2, ... without gap or repetition,
\* and a cycle is followed by another only once it is terminal: at most one
\* workflow of a ticket is active, and it is the last one.
OneActiveCycle ==
  \A w \in WorkflowIds : Exists(w) =>
    /\ workflow[w].cycle = 1 \/
         \E v \in WorkflowsOf(workflow[w].ticket) :
           workflow[v].cycle = workflow[w].cycle - 1
    /\ \A v \in WorkflowsOf(workflow[w].ticket) \ {w} :
         /\ workflow[v].cycle # workflow[w].cycle
         /\ workflow[v].cycle > workflow[w].cycle => Terminal(w)

\* A workflow is investigating exactly while one run of it, of the same
\* ticket, is running: no attempt runs behind a workflow that has moved on,
\* and no workflow claims an investigation nobody is carrying out.
RunTracksWorkflow ==
  /\ \A r \in RunIds : RunExists(r) =>
       /\ run[r].workflow \in WorkflowsOf(run[r].ticket)
       /\ run[r].status = "running" =>
            workflow[run[r].workflow].status = "investigating"
  /\ \A w \in WorkflowIds : workflow[w].status = "investigating" =>
       \E r \in RunIds : run[r].workflow = w /\ run[r].status = "running"
  /\ \A r1, r2 \in RunIds :
       (/\ run[r1].status = "running" /\ run[r2].status = "running"
        /\ run[r1].workflow = run[r2].workflow) => r1 = r2

\* The approval request, the executed mutation and the workflow tell the same
\* story: pending exactly while awaiting approval, approved exactly when
\* executed, rejected exactly when rejected, withdrawn only by cancellation;
\* what was executed is what was approved; and the request comes from a
\* completed attempt of this workflow, the only one that completed.
DecisionTracksWorkflow ==
  /\ \A w \in WorkflowIds :
       /\ approval[w].status = "pending" <=> workflow[w].status = "awaiting_approval"
       /\ approval[w].status = "approved" <=> workflow[w].status = "mock_executed"
       /\ approval[w].status = "rejected" <=> workflow[w].status = "rejected"
       /\ approval[w].status = "withdrawn" => workflow[w].status = "cancelled"
       /\ mutation[w] = IF approval[w].status = "approved"
                        THEN approval[w].action ELSE None
       /\ approval[w].status # Absent =>
            /\ approval[w].action # None
            /\ run[approval[w].run].workflow = w
  /\ \A r \in RunIds : run[r].status = "completed" =>
       \/ workflow[run[r].workflow].status = "completed_no_action"
       \/ approval[run[r].workflow].run = r

\* No financial action of a ticket is executed in two of its cycles, and none
\* waits for approval once it has been executed.
NoDoubleExecution ==
  /\ \A v, w \in WorkflowIds :
       (/\ mutation[v] # None
        /\ mutation[v] = mutation[w]
        /\ workflow[v].ticket = workflow[w].ticket) => v = w
  /\ \A w \in WorkflowIds : approval[w].status = "pending" =>
       ~IsExecuted(workflow[w].ticket, approval[w].action)

\* An Idempotency-Key of a ticket names at most one run.
KeyNamesOneRun ==
  \A r1, r2 \in RunIds :
    (/\ RunExists(r1) /\ RunExists(r2)
     /\ run[r1].ticket = run[r2].ticket
     /\ run[r1].key = run[r2].key) => r1 = r2

\* The transition ledger replays to the status: its rows are numbered from 1 to
\* transition_sequence, each starts where the one before it ended and is legal,
\* and the last ends in the workflow's status.
LedgerExplainsStatus ==
  \A w \in WorkflowIds : Exists(w) =>
    /\ {row.sequence : row \in ledger[w]} = 1..workflow[w].sequence
    /\ \A row \in ledger[w] :
         /\ CanTransition(row.from, row.to)
         /\ row.sequence = 1 <=> row.from = Absent
         /\ row.sequence = workflow[w].sequence => row.to = workflow[w].status
    /\ \A row1, row2 \in ledger[w] :
         /\ row1.sequence = row2.sequence => row1 = row2
         /\ row2.sequence = row1.sequence + 1 => row2.from = row1.to

\* ck_approval_decision_audit_shape: a decision names somebody whose role may
\* take it, and a pending request names nobody.
DecidersAreAuthorised ==
  \A w \in WorkflowIds :
    /\ approval[w].status = "pending" => approval[w].decider = None
    /\ approval[w].status \in {"approved", "rejected"} =>
         /\ approval[w].decider # None
         /\ May(approval[w].decider, "approval.decide")
    /\ approval[w].status = "withdrawn" =>
         /\ approval[w].decider # None
         /\ May(approval[w].decider, "workflow.cancel")

-----------------------------------------------------------------------------
(* What no step may do to the tables.                                      *)

\* A terminal cycle is never reopened or rewritten: as long as it is not
\* deleted, its row, its ledger, its request, its mutation and its runs stay
\* as they are, whatever late command still refers to it.
SettledStaysSettled ==
  [][\A w \in WorkflowIds :
       Terminal(w) /\ workflow'[w].status # Absent =>
         /\ workflow'[w] = workflow[w]
         /\ ledger'[w] = ledger[w]
         /\ approval'[w] = approval[w]
         /\ mutation'[w] = mutation[w]
         /\ \A r \in RunIds : run[r].workflow = w => run'[r] = run[r]]_tables

\* An attempt that has ended stays ended the way it did, also while its
\* workflow goes on with another attempt.
AttemptsEndOnce ==
  [][\A r \in RunIds :
       run[r].status \in RunStatuses \ {"running"} /\ run'[r].status # Absent =>
         run'[r] = run[r]]_tables

\* Money moves only on a human's decision: a mutation appears only in the step
\* that approves the pending request of an awaiting workflow, taken by a role
\* that may, and executes the action the request showed.
MoneyNeedsApproval ==
  [][\A w \in WorkflowIds :
       mutation'[w] # None /\ mutation'[w] # mutation[w] =>
         /\ approval[w].status = "pending"
         /\ workflow[w].status = "awaiting_approval"
         /\ approval'[w].status = "approved"
         /\ mutation'[w] = approval[w].action
         /\ approval'[w].decider # None
         /\ May(approval'[w].decider, "approval.decide")]_tables
=============================================================================
