------------------------- MODULE InMemoryRepository -------------------------
(***************************************************************************)
(* InMemoryMeterDeskRepository, the second implementation of the commands, *)
(* on the rows build_seed_repository starts it with.  It keeps Python      *)
(* lists instead of tables; no command gives up the event loop, so each is *)
(* one step.  Its rows need not hang together the way foreign keys make    *)
(* the tables': resetting an eval fixture deletes the workflows of the     *)
(* ticket but keeps the requests and mutations no run of the ticket made.  *)
(*                                                                         *)
(* A request and its mutation carry the id of their workflow in the place  *)
(* of ids of their own: a workflow has at most one of each.                *)
(***************************************************************************)
EXTENDS Workflows, Naturals, Sequences, SequencesExt

CONSTANTS
  Tickets, Keys, Actions, WorkflowIds, RunIds,
  None,
  DemoTickets,     \* seeded with a request that waits for approval
  HistoryTickets,  \* eval fixtures seeded with an executed action, made by no run
  SeedWorkflow,    \* [DemoTickets \cup HistoryTickets -> WorkflowIds]
  SeedRun,         \* [DemoTickets -> RunIds]
  SeedAction       \* the seeded action, the same name on every ticket

Seeded == DemoTickets \cup HistoryTickets

\* The seed data names every row once.
ASSUME SeedAssumption ==
  /\ None \notin Tickets /\ None \notin Keys /\ None \notin Actions
  /\ None \notin WorkflowIds /\ None \notin RunIds /\ None \notin Roles
  /\ Seeded \subseteq Tickets /\ DemoTickets \cap HistoryTickets = {}
  /\ SeedWorkflow \in [Seeded -> WorkflowIds]
  /\ SeedRun \in [DemoTickets -> RunIds]
  /\ \A t, u \in Seeded : SeedWorkflow[t] = SeedWorkflow[u] => t = u
  /\ \A t, u \in DemoTickets : SeedRun[t] = SeedRun[u] => t = u
  /\ SeedAction \in Actions

VARIABLES
  workflows,   \* _workflows
  moves,       \* _workflow_transitions in list order, grouped by workflow
  runs,        \* _agent_runs
  approvals,   \* _approvals
  mutations    \* _mock_mutations

store == <<workflows, moves, runs, approvals, mutations>>

SeededPath(t) ==
  <<Absent, "investigating", "awaiting_approval">> \o
    (IF t \in HistoryTickets THEN <<"mock_executed">> ELSE <<>>)

SeededWorkflow(t) ==
  LET path == SeededPath(t) IN
  [id |-> SeedWorkflow[t], ticket |-> t, cycle |-> 1,
   status |-> Last(path), sequence |-> Len(path) - 1]

SeededMoves(t) ==
  LET path == SeededPath(t) IN
  [n \in 1..(Len(path) - 1) |->
     [sequence |-> n, from |-> path[n], to |-> path[n + 1]]]

SeededApproval(t) ==
  LET past == t \in HistoryTickets IN
  [id |-> SeedWorkflow[t], ticket |-> t, action |-> SeedAction,
   run |-> IF past THEN None ELSE SeedRun[t],
   status |-> IF past THEN "approved" ELSE "pending",
   decider |-> IF past THEN "approver" ELSE None]

Init ==
  /\ workflows = {SeededWorkflow(t) : t \in Seeded}
  /\ moves = [w \in WorkflowIds |->
       IF \E t \in Seeded : SeedWorkflow[t] = w
       THEN SeededMoves(CHOOSE t \in Seeded : SeedWorkflow[t] = w) ELSE <<>>]
  /\ runs = {[id |-> SeedRun[t], ticket |-> t, key |-> None,
              workflow |-> SeedWorkflow[t], status |-> "completed"] : t \in DemoTickets}
  /\ approvals = {SeededApproval(t) : t \in Seeded}
  /\ mutations = {[id |-> SeedWorkflow[t], ticket |-> t, action |-> SeedAction,
                   run |-> None] : t \in HistoryTickets}

-----------------------------------------------------------------------------
(* Lists and fingerprints.                                                 *)

Put(rows, row) == {other \in rows : other.id # row.id} \cup {row}

WorkflowsOf(t) == {wf \in workflows : wf.ticket = t}
LiveOf(t) == {wf \in WorkflowsOf(t) : wf.status \notin TerminalStatuses}
RunsOf(t) == {r \in runs : r.ticket = t}
WorkflowOfRun(r) == {wf \in workflows : wf.id = r.workflow}

\* The highest cycle of a ticket, 0 without one.
LastCycle(t) ==
  CHOOSE n \in {0} \cup {wf.cycle : wf \in WorkflowsOf(t)} :
    \A wf \in WorkflowsOf(t) : wf.cycle <= n

FreshWorkflow(w) ==
  /\ \A wf \in workflows : wf.id # w
  /\ \A request \in approvals : request.id # w
FreshRun(r) == \A other \in runs : other.id # r

\* The fingerprint of an action contains its ticket.
PendingFor(t, a) ==
  {request \in approvals :
     request.ticket = t /\ request.action = a /\ request.status = "pending"}
ExecutedFor(t, a) == {m \in mutations : m.ticket = t /\ m.action = a}

\* Mutant of MoveFrom: the move starts at the status the workflow has by then.
MoveFromUpdated(wf, from, to) ==
  /\ workflows' = Put(workflows, [wf EXCEPT !.status = to, !.sequence = @ + 1])
  /\ moves' = [moves EXCEPT
       ![wf.id] = Append(@, [sequence |-> wf.sequence + 1, from |-> to, to |-> to])]

MoveFrom(wf, from, to) ==
  /\ workflows' = Put(workflows, [wf EXCEPT !.status = to, !.sequence = @ + 1])
  /\ moves' = [moves EXCEPT
       ![wf.id] = Append(@, [sequence |-> wf.sequence + 1, from |-> from, to |-> to])]

\* _transition_to_summary: the move starts where the last listed one ended.
MoveTo(wf, to) ==
  MoveFrom(wf, IF moves[wf.id] = <<>> THEN Absent ELSE Last(moves[wf.id]).to, to)

-----------------------------------------------------------------------------
(* The commands.  One that answers from what it reads, or that ends in a   *)
(* 404 or 409, changes no list.                                            *)

NewKey(t, k) == \A r \in RunsOf(t) : r.key # k

AddRun(t, k, w, r) ==
  runs' = runs \cup {[id |-> r, ticket |-> t, key |-> k,
                      workflow |-> w, status |-> "running"]}

StartCycle(t, k, w, r) ==
  /\ NewKey(t, k) /\ LiveOf(t) = {}
  /\ FreshWorkflow(w) /\ FreshRun(r)
  /\ workflows' = workflows \cup
       {[id |-> w, ticket |-> t, cycle |-> LastCycle(t) + 1,
         status |-> InitialStatus, sequence |-> 1]}
  /\ moves' = [moves EXCEPT
       ![w] = <<[sequence |-> 1, from |-> Absent, to |-> InitialStatus]>>]
  /\ AddRun(t, k, w, r)
  /\ UNCHANGED <<approvals, mutations>>

StartRetry(t, k, r) ==
  /\ NewKey(t, k) /\ FreshRun(r)
  /\ \E wf \in LiveOf(t) :
       /\ \A other \in LiveOf(t) : other.cycle <= wf.cycle
       /\ wf.status = "needs_retry"
       /\ MoveFrom(wf, "needs_retry", "investigating")
       /\ AddRun(t, k, wf.id, r)
  /\ UNCHANGED <<approvals, mutations>>

EndRun(r, status) == runs' = Put(runs, [r EXCEPT !.status = status])

FinalizeNoAction(r) ==
  /\ r.status = "running"
  /\ \E wf \in WorkflowOfRun(r) :
       /\ CanTransition(wf.status, "completed_no_action")
       /\ MoveTo(wf, "completed_no_action")
  /\ EndRun(r, "completed")
  /\ UNCHANGED <<approvals, mutations>>

\* Mutant of MayPropose: only a waiting duplicate is looked for.
MayProposeAgain(t, a) == PendingFor(t, a) = {}

MayPropose(t, a) == PendingFor(t, a) = {} /\ ExecutedFor(t, a) = {}

FinalizeForApproval(r, a) ==
  /\ r.status = "running"
  /\ MayPropose(r.ticket, a)
  /\ \E wf \in WorkflowOfRun(r) :
       /\ CanTransition(wf.status, "awaiting_approval")
       /\ MoveTo(wf, "awaiting_approval")
       /\ approvals' = approvals \cup
            {[id |-> wf.id, ticket |-> r.ticket, action |-> a, run |-> r.id,
              status |-> "pending", decider |-> None]}
  /\ EndRun(r, "completed")
  /\ UNCHANGED mutations

FailRun(r, recoverable) ==
  LET target == IF recoverable THEN "needs_retry" ELSE "failed" IN
  /\ r.status = "running"
  /\ \E wf \in WorkflowOfRun(r) :
       /\ CanTransition(wf.status, target)
       /\ MoveTo(wf, target)
  /\ EndRun(r, "failed")
  /\ UNCHANGED <<approvals, mutations>>

\* Mutant of Cancel: the attempt in flight is not looked for.
CancelButRun(wf, role) ==
  /\ May(role, "workflow.cancel")
  /\ wf.status \notin TerminalStatuses
  /\ MoveTo(wf, "cancelled")
  /\ approvals' = {IF request.id = wf.id /\ request.status = "pending"
                   THEN [request EXCEPT !.status = "withdrawn", !.decider = role]
                   ELSE request : request \in approvals}
  /\ UNCHANGED <<runs, mutations>>

Cancel(wf, role) ==
  /\ May(role, "workflow.cancel")
  /\ wf.status \notin TerminalStatuses
  /\ MoveTo(wf, "cancelled")
  /\ runs' = {IF r.workflow = wf.id /\ r.status = "running"
              THEN [r EXCEPT !.status = "cancelled"] ELSE r : r \in runs}
  /\ approvals' = {IF request.id = wf.id /\ request.status = "pending"
                   THEN [request EXCEPT !.status = "withdrawn", !.decider = role]
                   ELSE request : request \in approvals}
  /\ UNCHANGED mutations

Decide(request, role, status, target) ==
  /\ May(role, "approval.decide")
  /\ request.status = "pending"
  /\ \E wf \in workflows : /\ wf.id = request.id
                           /\ wf.status = "awaiting_approval"
                           /\ MoveTo(wf, target)
  /\ approvals' = Put(approvals, [request EXCEPT !.status = status, !.decider = role])
  /\ UNCHANGED runs

ApproveAndExecute(request, role) ==
  /\ \A m \in mutations : m.id # request.id
  /\ ExecutedFor(request.ticket, request.action) = {}
  /\ Decide(request, role, "approved", "mock_executed")
  /\ mutations' = mutations \cup
       {[id |-> request.id, ticket |-> request.ticket,
         action |-> request.action, run |-> request.run]}

Reject(request, role) ==
  /\ Decide(request, role, "rejected", "rejected")
  /\ UNCHANGED mutations

DeleteRunsAndWorkflows(t) ==
  /\ runs' = runs \ RunsOf(t)
  /\ workflows' = workflows \ WorkflowsOf(t)
  /\ moves' = [w \in WorkflowIds |->
       IF \E wf \in WorkflowsOf(t) : wf.id = w THEN <<>> ELSE moves[w]]

\* Mutant of ResetEvalFixture: everything of the ticket goes, as the reset of
\* the SQL repository deletes it.
ResetEvalFixtureFully(t) ==
  /\ DeleteRunsAndWorkflows(t)
  /\ approvals' = {request \in approvals : request.ticket # t}
  /\ mutations' = {m \in mutations : m.ticket # t}

\* Requests and mutations go with the run that made them.
ResetEvalFixture(t) ==
  LET made == {request \in approvals :
                 request.ticket = t /\ \E r \in RunsOf(t) : r.id = request.run} IN
  /\ DeleteRunsAndWorkflows(t)
  /\ approvals' = approvals \ made
  /\ mutations' = {m \in mutations :
       ~(/\ m.ticket = t
         /\ \/ \E r \in RunsOf(t) : r.id = m.run
            \/ \E request \in made : request.id = m.id)}

ResetDemo(t) ==
  /\ DeleteRunsAndWorkflows(t)
  /\ approvals' = {request \in approvals : request.ticket # t}
  /\ mutations' = {m \in mutations : m.ticket # t}

Next ==
  \/ \E t \in Tickets, k \in Keys, r \in RunIds :
       \/ StartRetry(t, k, r)
       \/ \E w \in WorkflowIds : StartCycle(t, k, w, r)
  \/ \E r \in runs :
       \/ FinalizeNoAction(r)
       \/ \E a \in Actions : FinalizeForApproval(r, a)
       \/ \E recoverable \in BOOLEAN : FailRun(r, recoverable)
  \/ \E role \in Roles :
       \/ \E wf \in workflows : Cancel(wf, role)
       \/ \E request \in approvals :
            ApproveAndExecute(request, role) \/ Reject(request, role)
  \/ \E t \in Tickets \ DemoTickets : ResetEvalFixture(t)
  \/ \E t \in DemoTickets : ResetDemo(t)

Spec == Init /\ [][Next]_store

-----------------------------------------------------------------------------
(* The tables these lists stand for.  What a reset left behind is in none  *)
(* of them: a request or mutation counts while its workflow exists.        *)

Known(w) == \E wf \in workflows : wf.id = w
Find(rows, id) == CHOOSE row \in rows : row.id = id
Has(rows, id) == \E row \in rows : row.id = id

WorkflowRow(wf) == [ticket |-> wf.ticket, cycle |-> wf.cycle,
                    status |-> wf.status, sequence |-> wf.sequence]
RunRow(r) == [ticket |-> r.ticket, key |-> r.key,
              workflow |-> r.workflow, status |-> r.status]
ApprovalRow(request) == [status |-> request.status, action |-> request.action,
                         run |-> request.run, decider |-> request.decider]

WorkflowTable ==
  [w \in WorkflowIds |->
    IF Known(w) THEN WorkflowRow(Find(workflows, w))
    ELSE [ticket |-> None, cycle |-> 0, status |-> Absent, sequence |-> 0]]

LedgerTable == [w \in WorkflowIds |-> ToSet(moves[w])]

RunTable ==
  [r \in RunIds |->
    IF Has(runs, r) THEN RunRow(Find(runs, r))
    ELSE [ticket |-> None, key |-> None, workflow |-> None, status |-> Absent]]

ApprovalTable ==
  [w \in WorkflowIds |->
    IF Known(w) /\ Has(approvals, w) THEN ApprovalRow(Find(approvals, w))
    ELSE [status |-> Absent, action |-> None, run |-> None, decider |-> None]]

MutationTable ==
  [w \in WorkflowIds |->
    IF Known(w) /\ Has(mutations, w) THEN Find(mutations, w).action ELSE None]

CW == INSTANCE CaseWorkflow
  WITH workflow <- WorkflowTable, ledger <- LedgerTable, run <- RunTable,
       approval <- ApprovalTable, mutation <- MutationTable

\* Whatever the in-memory repository does to its lists, the SQL repository may
\* do to its tables: a test that passes against the lists exercises behaviours
\* of the commands the tables have too.
ImplementsCommands == [][CW!Next]_(CW!tables)

\* The executed action a fixture is seeded with outlives every reset of the
\* fixture, whatever runs, decisions and cancellations went before: the case
\* about a prior adjustment finds it each time.
HistoryIsKept ==
  \A t \in HistoryTickets :
    \E m \in ExecutedFor(t, SeedAction) : m.run = None

\* Money moves once: no action of a ticket is executed twice, nor proposed
\* once it has been executed, even when the workflow it was executed in is gone.
MoneyOnce ==
  /\ \A m1, m2 \in mutations :
       m1.ticket = m2.ticket /\ m1.action = m2.action => m1 = m2
  /\ \A request \in approvals : request.status = "pending" =>
       ExecutedFor(request.ticket, request.action) = {}

\* The listed moves of every workflow replay, in list order, to its status: a
\* move starts where the one listed before it ended, which for all but retries
\* the code reads off the list itself.
MovesReplay ==
  \A wf \in workflows :
    LET path == moves[wf.id] IN
    /\ Len(path) = wf.sequence /\ Last(path).to = wf.status
    /\ \A n \in 1..Len(path) :
         /\ path[n].sequence = n
         /\ path[n].from = IF n = 1 THEN Absent ELSE path[n - 1].to
         /\ CanTransition(path[n].from, path[n].to)
=============================================================================
