------------------------------ MODULE EvalLab ------------------------------
(***************************************************************************)
(* Eval requests (EvalRunner: one case, or the suite) over the governed    *)
(* agent loop of module AgentRun.  For every case the runner wipes the     *)
(* fixture ticket, runs the loop on it with a key of its own, reads back   *)
(* traces, workflow, requests and mutations one query after the other,     *)
(* grades them, and stores a result and a snapshot.  Requests run          *)
(* concurrently and share the fixture tickets, people may decide what an   *)
(* eval run proposed, and a process may die between any two steps.         *)
(*                                                                         *)
(* A call of the loop is <<job, case>>; it names its key, its run and its  *)
(* workflow too, so that no id is used twice.                              *)
(***************************************************************************)
EXTENDS AgentRun, EvalGrading

CONSTANTS
  Jobs,         \* eval requests
  CaseOrder,    \* the ids of the cases, as list_eval_cases returns them
  CaseTable,    \* the eval_cases rows, by id
  Fixture,      \* the billing evidence of each ticket
  Seeded,       \* executed cycles of the seed, by workflow: ticket and action
  Configured    \* whether there is a provider

\* What _run_case blocks a case for.
BlockedCodes == {"scenario.runner_not_implemented", "eval.fixture_missing",
                 "provider.not_configured"}

ASSUME IdAssumption ==
  /\ Calls = Jobs \X DOMAIN CaseTable
  /\ Keys = Calls /\ RunIds = Calls /\ WorkflowIds = Calls \cup DOMAIN Seeded
  /\ Calls \cap DOMAIN Seeded = {}
  /\ \A code \in BlockedCodes : None # Blocked(code)

\* The cases are rows with an id and name a ticket of the fixtures, or none.
ASSUME CaseAssumption ==
  /\ CaseOrder \in Seq(DOMAIN CaseTable)
  /\ \A i, j \in DOMAIN CaseOrder : CaseOrder[i] = CaseOrder[j] => i = j
  /\ \A id \in DOMAIN CaseTable : CaseTable[id].ticket \in Tickets \cup {Absent}
  /\ Fixture \in [Tickets -> EvidenceSet]

\* A seeded ticket has one executed cycle.
ASSUME SeedAssumption ==
  /\ \A w \in DOMAIN Seeded : Seeded[w].ticket \in Tickets /\ Seeded[w].action \in Actions
  /\ \A v, w \in DOMAIN Seeded : Seeded[v].ticket = Seeded[w].ticket => v = w

\* The cases the runner can run, and the records their fixtures give them.
Runnable == {id \in DOMAIN CaseTable : /\ CaseTable[id].scenario \in SupportedScenarios
                                       /\ CaseTable[id].ticket # Absent}

ASSUME FixtureAssumption ==
  \A id \in Runnable :
    LET known == Fixture[CaseTable[id].ticket] IN
    /\ known.found /\ known.scenario = CaseTable[id].scenario
    /\ known.charges # {} /\ known.credits # << >>
    /\ IF known.scenario = "duplicate_charge" THEN known.usage ELSE known.subscription # "none"

\* A case asks for the routing and the evidence of the outcome it expects, and
\* no case expects that its refund was executed before.
ASSUME ExpectationAssumption ==
  \A id \in Runnable :
    LET case == CaseTable[id]
        known == Fixture[case.ticket]
    IN /\ case.outcome # "duplicate_action_already_executed"
       /\ \A reading \in Readings(known.charges), executed \in SUBSET Actions :
            LET decision == Evaluate(known, reading, executed) IN
            decision.outcome = case.outcome =>
              /\ case.evidence \subseteq EvidenceSeen(<<EvidenceTrace(known), DecisionTrace(known, decision)>>)
              /\ IF decision.action = NoAction
                 THEN RoutingMatches(case.routing, "completed_no_action", {}, FALSE)
                 ELSE RoutingMatches(case.routing, "awaiting_approval",
                        {[status |-> "pending", action |-> decision.action]}, FALSE)

VARIABLES
  job,          \* the local variables and control point of each request
  evalRun,      \* eval_suite_runs: its status, by request
  results,      \* eval_results
  snapshots     \* eval_result_snapshots, by call

evals == <<job, evalRun, results, snapshots>>
allvars == <<vars, evals>>

NoRequests == [w \in WorkflowIds |-> NoApproval]
NoJob == [pc |-> "idle", todo |-> << >>, ended |-> Absent, traces |-> << >>,
          workflow |-> None, status |-> Absent, requests |-> {}, read |-> NoRequests,
          result |-> None, sees |-> {}, cause |-> Absent]

Case(j) == Head(job[j].todo)
CaseOf(j) == CaseTable[Case(j)]
CallOf(j) == <<j, Case(j)>>
JobLive(j) == job[j].pc \notin {"idle", "done", "raised", "dead"}

EvalInit ==
  /\ workflow = [w \in WorkflowIds |->
       IF w \in DOMAIN Seeded
       THEN [ticket |-> Seeded[w].ticket, cycle |-> 1, status |-> "mock_executed", sequence |-> 3]
       ELSE NoWorkflow]
  /\ ledger = [w \in WorkflowIds |->
       IF w \in DOMAIN Seeded
       THEN {[sequence |-> 1, from |-> Absent, to |-> "investigating"],
             [sequence |-> 2, from |-> "investigating", to |-> "awaiting_approval"],
             [sequence |-> 3, from |-> "awaiting_approval", to |-> "mock_executed"]}
       ELSE {}]
  /\ run = [r \in RunIds |-> NoRun]
  /\ approval = [w \in WorkflowIds |->
       IF w \in DOMAIN Seeded
       THEN [status |-> "approved", action |-> Seeded[w].action, run |-> None, decider |-> "approver"]
       ELSE NoApproval]
  /\ mutation = [w \in WorkflowIds |-> IF w \in DOMAIN Seeded THEN Seeded[w].action ELSE None]
  /\ call = [c \in Calls |-> Idle]
  /\ trace = [r \in RunIds |-> << >>]
  /\ evidence = Fixture
  /\ job = [j \in Jobs |-> NoJob]
  /\ evalRun = [j \in Jobs |-> Absent]
  /\ results = {}
  /\ snapshots = [c \in Calls |-> None]

-----------------------------------------------------------------------------
(* A request and its cases.                                                *)

Idling == UNCHANGED <<tables, call, trace, evidence>>
To(j, pc) == job' = [job EXCEPT ![j].pc = pc]

\* create_eval_run, for run_all or run_case.
Begin(j) ==
  /\ job[j].pc = "idle"
  /\ \E todo \in {CaseOrder} \cup {<<CaseOrder[i]>> : i \in DOMAIN CaseOrder} :
       job' = [job EXCEPT ![j].pc = "case", ![j].todo = todo]
  /\ evalRun' = [evalRun EXCEPT ![j] = "running"]
  /\ Idling /\ UNCHANGED <<results, snapshots>>

\* Where _run_case goes after the reset.
CaseGate(case) ==
  CASE case.scenario \notin SupportedScenarios -> Blocked("scenario.runner_not_implemented")
    [] case.scenario \in SupportedScenarios /\ case.ticket = Absent ->
         Blocked("eval.fixture_missing")
    [] case.scenario \in SupportedScenarios /\ case.ticket # Absent /\ ~Configured ->
         Blocked("provider.not_configured")
    [] OTHER -> None

\* reset_eval_fixture_state, which also deletes the results of the ticket's
\* runs, and the three reasons to block the case.
OpenCase(j) ==
  LET t == CaseOf(j).ticket
      gate == CaseGate(CaseOf(j))
      gone == IF t = Absent THEN {} ELSE RunsOf(t)
  IN /\ job[j].pc = "case" /\ job[j].todo # << >>
     /\ IF t = Absent THEN UNCHANGED <<tables, trace>> /\ UNCHANGED <<call, evidence>>
                      ELSE Reset(t)
     /\ results' = {row \in results : row.run \notin gone}
     /\ job' = [job EXCEPT ![j] = [NoJob EXCEPT
          !.pc = IF gate = None THEN "loop" ELSE "save",
          !.todo = job[j].todo, !.result = gate]]
     /\ UNCHANGED <<evalRun, snapshots>>

\* What an ended call of the loop leads to: grading, or an error the runner
\* does not catch (it catches AgentLoopError only).
Follow(j, c) ==
  job' = [job EXCEPT ![j] =
    CASE call'[c].pc = "answered" -> [@ EXCEPT !.pc = "traces", !.ended = run'[c].status,
                                                             !.workflow = run'[c].workflow]
      [] call'[c].pc = "raised" -> [@ EXCEPT !.pc = "raised", !.cause = call'[c].cause]
      [] OTHER -> @]

\* run_ticket, one step at a time.
Loop(j) ==
  LET c == CallOf(j) IN
  /\ job[j].pc = "loop"
  /\ \/ \E w \in {c} \cup WorkflowsOf(CaseOf(j).ticket) : Start(c, CaseOf(j).ticket, c, w, c)
     \/ Step(c)
  /\ Follow(j, c)
  /\ UNCHANGED <<evalRun, results, snapshots>>

LoopEscapes(j) ==
  LET c == CallOf(j) IN
  /\ job[j].pc = "loop"
  /\ Escape(c, "plan") \/ Escape(c, "draft")
  /\ Follow(j, c)
  /\ UNCHANGED <<evalRun, results, snapshots>>

\* The key is new, so a start that is not made is a 409: another request's
\* cycle of the ticket is active.
LoopConflict(j) ==
  LET c == CallOf(j) IN
  /\ job[j].pc = "loop"
  /\ Replay(c, CaseOf(j).ticket, c)
  /\ job' = [job EXCEPT ![j].pc = "raised", ![j].cause = "conflict"]
  /\ UNCHANGED <<evalRun, results, snapshots>>

-----------------------------------------------------------------------------
(* Grading: each query is a snapshot of its own.                           *)

Quiet == Idling /\ UNCHANGED <<evalRun, results, snapshots>>

ReadTraces(j) ==
  /\ job[j].pc = "traces"
  /\ job' = [job EXCEPT ![j].pc = "workflow", ![j].traces = trace[CallOf(j)]]
  /\ Quiet

ReadWorkflow(j) ==
  /\ job[j].pc = "workflow"
  /\ job' = [job EXCEPT ![j].pc = "requests", ![j].workflow = None,
                           ![j].status = workflow[job[j].workflow].status]
  /\ Quiet

\* Mutant of ReadRequests: those of the ticket's other runs are not left out.
ReadRequestsOfTicket(j) ==
  LET r == CallOf(j) IN
  /\ job[j].pc = "requests"
  /\ job' = [job EXCEPT ![j].pc = "grade",
       ![j].requests = {approval[w] : w \in {v \in WorkflowsOf(CaseOf(j).ticket) :
                                               approval[v].status # Absent}}]
  /\ Quiet

\* The requests of the run: its workflow has at most one.
ReadRequests(j) ==
  LET r == CallOf(j) IN
  /\ job[j].pc = "requests"
  /\ job' = [job EXCEPT ![j].pc = "grade",
       ![j].requests = {approval[w] : w \in {v \in WorkflowIds : approval[v].run = r}}]
  /\ Quiet

\* The dimensions _grade_governed_case scores before the compliance check.
Dimensions(j, mutated) ==
  LET case == CaseOf(j)
      local == job[j]
      dimension(name, holds) == IF holds THEN {name} ELSE {}
  IN dimension("outcome_correctness",
       /\ local.ended = "completed"
       /\ call[CallOf(j)].decision.outcome = case.outcome
       /\ local.status \in {"awaiting_approval", "completed_no_action", "rejected",
                            "mock_executed"})
     \cup dimension("required_evidence", case.evidence \subseteq EvidenceSeen(local.traces))
     \cup dimension("policy_compliance", \E i \in DOMAIN local.traces : local.traces[i].cites)
     \cup dimension("approval_routing",
            RoutingMatches(case.routing, local.status, local.requests, mutated))
     \cup dimension("mutation_safety", ~mutated)
     \cup dimension("tool_planning", PlanningPasses(local.traces, case.scenario))
     \cup dimension("draft_safety", local.ended = "completed")

\* The mutations of the run are read and all dimensions but one scored.
ReadMutations(j) ==
  LET r == CallOf(j)
      mutated == \E w \in WorkflowIds : approval[w].run = r /\ mutation[w] # None
  IN /\ job[j].pc = "grade"
     /\ job' = [job EXCEPT ![j].pc = "comply_traces", ![j].traces = << >>, ![j].status = Absent,
          ![j].requests = {}, ![j].result = Graded(Dimensions(j, mutated))]
     /\ Quiet

\* The compliance check: get_agent_run and list_traces, which agree on a run
\* that is gone; then all requests, then all mutations.
ComplyTraces(j) ==
  /\ job[j].pc = "comply_traces"
  /\ job' = IF RunExists(CallOf(j))
            THEN [job EXCEPT ![j].pc = "comply_requests", ![j].traces = trace[CallOf(j)]]
            ELSE [job EXCEPT ![j].pc = "save"]
  /\ Quiet

ComplyRequests(j) ==
  /\ job[j].pc = "comply_requests"
  /\ job' = [job EXCEPT ![j].pc = "comply", ![j].read = approval]
  /\ Quiet

\* With the last dimension the result is complete.
Comply(j) ==
  LET r == CallOf(j)
      failures == Failures(r, CaseOf(j).ticket, TRUE, job[j].traces, job[j].read, mutation)
      passed == job[j].result.passed
                  \cup (IF failures = {} THEN {"governance_compliance"} ELSE {})
  IN /\ job[j].pc = "comply"
     /\ job' = [job EXCEPT ![j].pc = "save", ![j].traces = << >>, ![j].read = NoRequests,
                           ![j].result = Graded(passed)]
     /\ Quiet

-----------------------------------------------------------------------------
(* Storing.                                                                *)

\* replace_eval_result: the DELETE sees the rows committed when it starts; a
\* row another transaction is deleting is waited for and gone.
DeleteResults(j) ==
  /\ job[j].pc = "save"
  /\ job' = [job EXCEPT ![j].pc = "insert",
       ![j].sees = {row \in results : row.case = Case(j)}]
  /\ Quiet

ResultRun(j) == IF job[j].result.status = "blocked" THEN None ELSE CallOf(j)

\* The INSERT and the commit, or a violation of the foreign key on agent_runs.
InsertResult(j) ==
  LET r == ResultRun(j) IN
  /\ job[j].pc = "insert"
  /\ IF r = None \/ RunExists(CallOf(j))
     THEN /\ results' = (results \ job[j].sees)
                           \cup {[case |-> Case(j), job |-> j, run |-> r]}
          /\ job' = [job EXCEPT ![j].pc = "snapshot", ![j].sees = {}]
     ELSE /\ job' = [job EXCEPT ![j].pc = "raised", ![j].sees = {}, ![j].cause = "reset"]
          /\ UNCHANGED results
  /\ Idling /\ UNCHANGED <<evalRun, snapshots>>

AddSnapshot(j) ==
  /\ job[j].pc = "snapshot"
  /\ snapshots' = [snapshots EXCEPT ![CallOf(j)] = job[j].result]
  /\ job' = [job EXCEPT ![j] = [NoJob EXCEPT !.pc = "case", !.todo = Tail(job[j].todo)]]
  /\ Idling /\ UNCHANGED <<evalRun, results>>

\* complete_eval_run.
Complete(j) ==
  /\ job[j].pc = "case" /\ job[j].todo = << >>
  /\ To(j, "done")
  /\ evalRun' = [evalRun EXCEPT ![j] = "completed"]
  /\ Idling /\ UNCHANGED <<results, snapshots>>

\* The process of a request dies, and its call of the loop with it.
JobDies(j) ==
  /\ JobLive(j)
  /\ To(j, "dead")
  /\ call' = [c \in Calls |-> IF c[1] = j /\ Live(c) THEN [call[c] EXCEPT !.pc = "dead"]
                                                  ELSE call[c]]
  /\ UNCHANGED <<tables, trace, evidence, evalRun, results, snapshots>>

EvalStep(j) ==
  \/ OpenCase(j) \/ Loop(j) \/ LoopConflict(j)
  \/ ReadTraces(j) \/ ReadWorkflow(j) \/ ReadRequests(j) \/ ReadMutations(j)
  \/ ComplyTraces(j) \/ ComplyRequests(j) \/ Comply(j)
  \/ DeleteResults(j) \/ InsertResult(j) \/ AddSnapshot(j) \/ Complete(j)

\* summary_for_run compares the run's own snapshots only.
SummaryLabel(j, case) == Label(Baseline(CaseTable[case].scenario), snapshots[<<j, case>>])

EvalNext ==
  \/ \E j \in Jobs : Begin(j) \/ EvalStep(j) \/ LoopEscapes(j) \/ JobDies(j)
  \/ \E w \in WorkflowIds :
       (Cancel(w) \/ Reject(w) \/ Approve(w) \/ ApproveRefused(w)) /\ UNCHANGED evals

EvalSpec == EvalInit /\ [][EvalNext]_allvars
-----------------------------------------------------------------------------
\* Whatever runs beside it, a request grades what the loop did: against the
\* seeded baseline a case is unchanged only if its run was finalized with the
\* outcome the case expects, and regressed only if the loop failed or concluded
\* something else, or somebody decided or cancelled or another request reset
\* the case in the meantime.
VerdictsAreExact ==
  \A c \in Calls :
    LET label == SummaryLabel(c[1], c[2])
        ended == /\ call[c].pc = "answered"
                 /\ call[c].decision.outcome = CaseTable[c[2]].outcome
        touched == ~RunExists(c) \/ workflow[run[c].workflow].status \in {"mock_executed", "rejected", "cancelled"}
    IN snapshots[c] # None =>
         /\ label = "unchanged" => ended
         /\ label = "regressed" => ~ended \/ touched \/ run[c].status = "failed"

\* An eval run is left running only by a process that died, by a provider
\* exception nobody converts, or by a race for the ticket: another request's
\* start or reset, or a person's cancellation.  The loop never refuses a
\* fixture's evidence, and it proposes what was executed only in the refund of
\* a renewal, for which decision.py does not look at the executed actions.
OnlyRacesStrandEvals ==
  \A j \in Jobs : evalRun[j] = "running" =>
    \/ JobLive(j) \/ job[j].pc = "dead"
    \/ job[j].cause \in {"escaped", "conflict", "superseded", "deleted", "reset"}
    \/ job[j].cause = "duplicate" /\ Fixture[CaseOf(j).ticket].subscription = "early"

\* As long as nothing else touches the fixture tickets, a run the loop finalizes
\* reaches the outcome its case expects; test_m4_eval_lab.py asserts it of the
\* case "Prior adjustment already granted".
CasesReachTheirOutcome ==
  \A c \in Calls : run[c].status = "completed" =>
    call[c].decision.outcome = CaseTable[c[2]].outcome
=============================================================================
