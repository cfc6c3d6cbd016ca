# MeterDesk in TLA+

MeterDesk is an internal support tool: an agent investigates a billing ticket,
may propose a financial action, and a human approves or rejects it before a
(mock) mutation is executed.  The API is a FastAPI service over Postgres; the
web application calls it with server actions.  What makes it correct is mostly
in one place, the workflow commands of the repository
(`apps/api/src/meterdesk_api/repositories.py`).  This development starts there
and goes outward: database sessions below the commands, the agent loop and the
Eval Lab above them, resets, traces, the in-memory repository and the migration
beside them.

Paths below are relative to `src/apps/api/src/meterdesk_api/` unless they start
with `docs/` or `apps/`.

## 1. The system

### Components

| Component | State | Operations | Talks to |
|---|---|---|---|
| State machine (`workflows.py`) | none | `can_transition` | used by every command |
| Workflow commands (`repositories.py`, `SqlAlchemyMeterDeskRepository`) | tables `case_workflows`, `case_workflow_transitions`, `agent_runs`, `approval_requests`, `mock_mutations`, `tool_traces`; per request an ORM session and its row locks | `start_or_replay_run`, `finalize_run`, `fail_run`, `cancel_workflow`, `approve_and_execute`, `reject_approval`, two resets, `add_tool_trace` | Postgres |
| Schema (`models.py`, `financial_actions.py`) | unique indexes and check constraints | none | |
| Routes and approval service (`routers/resources.py`, `agent/approvals.py`) | none | one route per command; permission per route | commands, governance, orchestrator |
| Roles and tokens (`auth.py`) | none (signed tokens, 8 h) | login, verification | every route |
| Governance kernel (`agent/governance.py`) | writes tool traces | `record_action`, decision of approved actions | commands |
| Orchestrator (`agent/orchestrator.py`) | one run in progress, in memory only | `run_duplicate_charge`, `run_credit_refund` | commands, planner, decision tools, provider |
| Plan verifier (`agent/planning.py`), decision tools (`agent/decision.py`) | none | pure functions of plan or evidence | |
| Compliance checker (`agent/compliance.py`) | none | judges the traces of a run | traces |
| Decision summary (`decision_summary.py`) | none | state shown for a ticket | all tables |
| Eval Lab (`eval/`) | eval runs, results, snapshots | run a case or the suite, reset fixtures, compare | orchestrator, resets |
| In-memory repository (`repositories.py`) | dictionaries | the same protocol, for tests | |
| Migration 0009 (`apps/api/migrations/`) | legacy rows to workflows | backfill or abort | |
| Web (`apps/web/src/lib/`) | session cookie, rendered pages | server actions | routes |

### What is hard about it

* Every request has its own database session (`db.py:74`), so commands on one
  ticket interleave at every `await`.  Postgres runs them at READ COMMITTED: an
  unlocked read may be stale by the time a lock is granted, and
  `SELECT ... FOR UPDATE` re-evaluates its WHERE clause after waiting.
* Starts are made idempotent by an unlocked lookup, a locked lookup and unique
  indexes whose violation is answered by reading again.
* Late commands name rows that have moved on: an answer of a failed attempt, an
  approval of a withdrawn request, a cancellation of an older cycle.
* Repeated decisions are answered from a read outside the deciding transaction.
* The process may die between any two steps.
* Five tables must agree after every command.

* The agent loop holds its state in memory over two model calls, and only some
  of its errors end the run in the database.
* Resets delete, table by table, rows that commands, loops and Eval requests are
  working on.
* The Eval Lab grades from seven separate reads while people decide.
* The migration makes workflows of whatever three older tables hold.

`PROJECT.json` lists these hazards at their lines, with the properties that
guard each.

### What makes each component correct

* Commands: the invariants of `CaseTables` below; serialisability of the
  sessions (`docs/specs/hardening/p0-03-workflow-state-consistency.md:72`: the
  commands "must be equivalent to one legal serial order"); truthful answers;
  no lock cycle; progress.
* Orchestrator: one loop per run; a run is left running only for the reasons
  named; what it completes passes the compliance check, but for approvers who
  come after a rejection or a withdrawal; a loop that lost its run changes
  nothing; every call ends.
* Plan verifier: it accepts exactly the plans that say what the loop will do.
* Decision tools: money is proposed only if it is owed, over any number of
  cycles.
* Traces: one execution trace per execution; an approver who lost the race
  against another leaves no refusal on the run; only blocked traces may share a
  number.
* Resets: a reset beside commands is one atomic step, and the reset is in every
  deadlock.
* Eval Lab: the verdict is that of the run that was graded; only named races
  leave an eval run running.
* In-memory repository: it does to its lists what the commands do to the
  tables, and a fixture's history outlives its resets.
* Migration: the result tells one story per ticket, the commands stay sound on
  it, and money and consent survive every change of revision.

## 2. Modules

| Module | What it is |
|---|---|
| `Workflows` | pure: statuses, transition table, role table |
| `CaseTables` | the five tables as variables, row updates shared by the commands, invariants and action properties of the tables |
| `CaseWorkflow` | abstract specification: each command is one atomic step on the tables |
| `WorkflowSessions` | the commands as concurrent database sessions, statement by statement; implements `CaseWorkflow` |
| `ResetSessions` | extends `WorkflowSessions` with a reset that deletes table by table; implements `CaseWorkflow` |
| `InMemoryRepository` | the second implementation of the commands, on lists; implements `CaseWorkflow` through a refinement mapping |
| `WorkflowBackfill` | extends `CaseWorkflow` with the tables of revision 0008, the upgrade to 0009 and the downgrade |
| `ToolPolicies` | pure: tool registry of the governance kernel, metadata of a trace |
| `Decisions` | pure: evidence and the two decision tools |
| `DisputeCycles` | the decision tools over the cycles of one ticket |
| `PlanVerifier` | pure: plan contracts and the verdict on a plan |
| `RunCompliance` | pure: the compliance check on a snapshot of traces and tables |
| `AgentRun` | calls of the agent loop, await by await, over the commands of `CaseWorkflow`; uses the four above |
| `DecisionTraces` | the traces that decisions leave, with the races for trace numbers |
| `EvalGrading` | pure: dimensions of a result, comparison with the baseline |
| `EvalLab` | Eval requests over `AgentRun` and `EvalGrading` |
| `CaseWorkflowProofs` | TLAPS proofs about `CaseWorkflow`: the invariants and the action properties of the tables |
| `WorkflowSessionsProofs` | about `WorkflowSessions`: locks, memory, answers and the refinement; about `ResetSessions`: the atomicity of resets and who deadlocks |
| `InMemoryRepositoryProofs` | about `InMemoryRepository`: the lists and their refinement |
| `WorkflowBackfillProofs` | about `WorkflowBackfill`: commands on migrated tables, upgrade and downgrade |
| `AgentRunProofs` | about `AgentRun` and `PlanVerifier` |
| `EvalLabProofs` | about `EvalLab` and `EvalGrading` |
| `DisputeCyclesProofs` | about `DisputeCycles` and the decision tools |
| `DecisionTracesProofs` | about `DecisionTraces` |
| `MC...` | instances for TLC: symmetry sets, evidence, plans, cases |

How they fit: `CaseWorkflow` is the contract.  Three modules implement it
(`WorkflowSessions`, `ResetSessions`, `InMemoryRepository`); three use it as
their repository (`AgentRun` and through it `EvalLab`, and `WorkflowBackfill`).
Using the atomic commands there is justified by the refinement: a loop that
awaits a command sees one atomic step of it.

### Tables (`CaseTables`)

| Variable | Code |
|---|---|
| `workflow[w]` | row of `case_workflows`: ticket, cycle number, status, `transition_sequence` (`version` moves with it and is not kept twice) |
| `ledger[w]` | its rows in `case_workflow_transitions`: sequence, from, to |
| `run[r]` | row of `agent_runs`: ticket, Idempotency-Key, workflow, status |
| `approval[w]` | the row of `approval_requests` for workflow `w` (a unique index allows one): status, action, run, role of the decider |
| `mutation[w]` | the executed action of the row of `mock_mutations` for `w`, or NULL |

An id that names no row maps to a row with status `Absent`; an insert takes any
such id, as `_new_id` takes a fresh uuid.  Reason codes, texts, timestamps,
display strings and provenance other than the role are left out: no property is
about them.  An action stands for type, target, amount and currency;
`build_action_fingerprint` adds the ticket, so `IsPending` and `IsExecuted`
compare ticket and action.  `Empty`, the initial state, is the database of a
deployment without seed rows; it is also the state of a ticket after a reset.

### Actions of `CaseWorkflow`

`StartCycle` and `StartRetry` are the two branches of `start_or_replay_run` that
insert a run; `FinalizeNoAction` and `FinalizeForApproval` are `finalize_run`
without and with an approval payload; `FailRun`, `CancelWorkflow`,
`ApproveAndExecute`, `RejectApproval` are the commands of those names, with the
permission their route demands; `ResetTicket` is `reset_demo_live_state` (and
the same deletes of `reset_eval_fixture_state`).  `complete_agent_run`,
`fail_agent_run`, `create_agent_run`, `approve_request` and `reject_request`
delegate to these.  `create_approval_request` inserts a request for a workflow
that is already awaiting approval and whose run is completed; such a workflow
has its request since `finalize_run` wrote both, and the unique index refuses a
second, so the command has no step.  A command that replays or that ends in a
404 or 409 changes no table and is a stuttering step.

`FailRun(r, FALSE)` moves to `failed`; no caller in `src` passes
`recoverable=False` today, the repository offers it.

### `WorkflowSessions`

One action per statement that reads, locks or commits.  `at[s]`, `cmd[s]`,
`seen[s]`, `answer[s]` are a session's next statement, its arguments, the rows
in its identity map and its result; `holder[row]` is the session that has locked
the row FOR UPDATE.  The steps, with the labels of `at`:

* start: `lookup`, `select_active` (the statement's snapshot), `lock_active`
  (wait, then WHERE again), `use_active`, or `select_previous` and
  `insert_cycle`; `reread` after an IntegrityError;
* finalize and fail: `read_run`, `lock_workflow`, `lock_run`, `check_end`,
  `commit_end`;
* cancel: `lock_workflow`, `lock_pending`, `lock_running`, `commit_cancel`;
* decide: `read_approval` (the service's read, which answers repeated
  decisions), `lock_workflow`, `lock_approval`, then `check_approve` and
  `commit_approve`, or `commit_reject`.

`Close` ends a session at any step: the caller took the answer, or the process
or the connection died and the transaction rolled back.  A write and its commit
are one step because no other session can see the row in between; an insert that
Postgres would block behind an uncommitted index entry is one that has not
happened yet, and its outcome is decided against the committed rows, which is
what Postgres does when it wakes.  Unlocked checks (the pending and executed
fingerprints in `check_end` and `check_approve`) are separate steps from the
commit, so they may be stale; the unique indexes are evaluated at the commit.
The module writes the tables through the operators of `CaseTables`; what
differs from `CaseWorkflow` is which rows a write is computed from: the abstract
command reads the committed row, a session the row it holds in memory.

### `ResetSessions`

`reset` is the reset in progress: its statement, what the first DELETE saw of
the transitions, the rows deleted so far.  Each DELETE takes its snapshot when
it starts (`RowsOf`), meets the rows in any order, waits for those that are
locked (`DeleteRow`) and ends with a check of the foreign keys against what was
committed meanwhile (`EndDelete`, or `RefuseDelete`, which rolls back).  The
commands meet rows that are gone (`ReplyMissing`), and their inserts wait behind
rows being deleted (`InsertsBehind`).  `spent` are the rows deleted so far: a
uuid is not used again (`FreshIds`).

### `AgentRun`, `EvalLab`, `DecisionTraces`

`call[c]` holds the local variables and control point of a call of `run_ticket`:
`plan`, `plan_trace`, `verify_trace`, `evidence`, `prior`, `decide`, `draft`,
`draft_trace`, then `finalize` or `fail`.  `trace[r]` is the sequence of
`tool_traces` of a run, each with policy, reference categories and metadata as
`ToolPolicies` computes them.  A model call returns an answer, an
`AgentProviderError`, or an exception `_post_chat_completion` does not convert
(`Escape`).  Calls interleave with `Cancel`, `Approve`, `ApproveRefused`,
`Reject`, `Reset` and `Die` at every step.  A repository call that fails inside
the loop has no action of its own: it leaves the loop as an exception nobody
converts and what it leaves in the tables is what `Die` leaves.
`ApproveRefused` is the approval the repository refuses: `RefusalOf` is the
error, by the checks of `approve_and_execute` in their order, and the kernel
appends a blocked trace with that error to the run that asked
(`agent/governance.py:468`), which may long have completed.  The service reads
the request before and without a lock, so a request that is settled now may have
been pending then; who reads it rejected is turned away without a trace, which
changes nothing.  `follows` is a history variable: whether the plan a
verdict was given on says what the loop does.

`EvalLab` adds `job[j]` (the local variables of an Eval request), `evalRun`,
`results` and `snapshots`.  A call is named `<<job, case>>`, which also names its
key, run and workflow, as the runner makes them afresh.  A request whose ticket
has a workflow of another request that needs a retry starts its run on that
workflow, as `start_or_replay_run` does.  Grading is one action per query
(`ReadTraces` to `Comply`).

`DecisionTraces` keeps one request and the traces of its run with their numbers,
because `max(sequence) + 1` is read in one step and inserted in another.

### `InMemoryRepository`

Lists as sets of rows, `moves` as a sequence because `_transition_to_summary`
reads its last element.  The mapping leaves out requests and mutations whose
workflow is gone: no foreign key removes them from the lists.

### `WorkflowBackfill`

`oldRun`, `oldApproval`, `oldMutation` are the tables at 0008, `outcome` is
`agent_runs.final_outcome`.  `BackfillInit` is every database the constraints of
0008 admit.  `Contradictory` is the preflight, each disjunct one of its queries.
`BackfilledWorkflows`, `BackfilledLedgers`, `BackfilledRuns`,
`BackfilledApprovals` and `BackfilledMutations` are what the backfill writes,
`UniqueIndexesHold` the indexes created at its end, `AuditShapeHolds` the check
constraint of the decisions, which the upgrade creates anew and stricter;
`Upgrade` writes what these admit and rolls back otherwise, `Downgrade` is the
way back, `Command` any command in between.  Of the audit columns the model
keeps what the two forms of that check tell apart: the role of the decider, and
whether a decision without one still bears a name (`named`).

## 3. What is checked

| Run | Instance | States | Shows |
|---|---|---|---|
| `CaseWorkflow` | 2 tickets, 3 keys, 2 actions, 3 workflow and 3 run rows | 12 375 | all table invariants and action properties |
| `WorkflowSessions` | 1 ticket, 2 keys, 1 action, 2 workflow and 2 run rows, 2 sessions | 1.08 million | refinement of `CaseWorkflow`, truthful answers, no lock cycle |
| `SessionProgress` | 1 ticket, 1 key, 1 row of each kind, 2 sessions, fairness | 42 500 | every command is answered |
| `ResetSessions` | 1 ticket, 2 keys, 1 row of each kind, 2 sessions and a reset | 1.08 million | the reset is atomic, and is in every deadlock |
| `InMemoryRepository` | a demo ticket and a fixture with a past, 3 workflow and 3 run ids | 23 868 | refinement of `CaseWorkflow`, history, single execution |
| `WorkflowBackfill` | 2 tickets, 2 workflow ids, 3 runs, up to 4 old rows, 1 role of old deciders | 90 947 | the migration and its way back |
| `BackfillInterrupted` | the same with 2 runs, up to 3 old rows | | finding 2 |
| `DisputeCycles` | all evidence of up to 3 charges and 1 credit | 3 006 | money proposed is owed |
| `AgentRun` | 1 ticket with 4 kinds of evidence, 2 calls, 2 keys, 2 rows of each kind, 14 983 plans, 1 refused approval per run, fairness | 431 002 | the properties of the loop |
| `DecisionTraces` | 4 sessions on one request | 2 397 | traces of decisions |
| `EvalLab` | 2 requests, the fixture of a renewal dispute, people deciding, 1 refused approval per run | 1.56 million | verdicts, stranded eval runs |
| `EvalHistory` | 1 request, the nine cases and six fixtures of `seed_data.py` | | finding 1; the assumptions on cases and fixtures hold of the seed |

State counts are those of the symmetry-reduced graph where symmetry is used.
Symmetry is sound: ids, keys, actions, tickets and sessions are compared only
for equality, no CHOOSE picks among them, and the runs with a liveness property
(`SessionProgress`, `AgentRun`) use none.

### Bounds

Nothing but the constants, `MaxOldRows` and `MaxRefusals` bounds the runs: a
workflow has a longest path (each transition leads towards a terminal status,
except retries, and a retry consumes a run row), so the state spaces are finite.
`MaxRefusals` bounds the refused approvals of one run, which the code lets come
for ever: each leaves one more trace of the same kind, and the checks that read
the traces ask whether there is one.  `OldDeciders` are the roles a decision of
revision 0008 may have been made under; the constraint tells only NULL from the
rest, so one role is enough.

* Three rows of each kind in `CaseWorkflow` give the cycle after the next on one
  ticket, or one cycle on the second ticket beside two on the first; three keys
  give a retry after a retry; two actions tell a repeated proposal from another
  one.  When a run row for every key of every ticket is in the instance, no
  start is disabled for want of a row; in `CaseWorkflow.cfg` the second ticket
  can run out of rows, which disables steps and adds none.
* Two sessions with two cycles meet the start races (same key, different keys, a
  key reused in a later cycle), a late command of the first cycle during the
  second, and a repeated decision.
* A reset beside two sessions meets a command that commits between two DELETEs,
  one that holds a row the reset waits for, and one that waits for the reset.
* Two calls of the loop give a superseded call beside its retry and a second
  cycle that proposes what the first executed.  The four kinds of evidence are a
  duplicate charge, a ticket without billing data, one without usage records
  (which the kernel refuses) and a dispute in which nothing is owed.  The plans
  have up to four steps, each right or wrong in one way: a fourth step is what
  a duplicate action needs.
* Four sessions in `DecisionTraces` are an execution beside three competitors:
  two blocked traces may tie, and a third decision can withdraw or reject.
* Four old rows are a run, a request and a mutation on one ticket and a row on
  the other, or two candidates of one kind with what refers to them; every
  disjunct of the preflight has a database that only it refuses.
* Two Eval requests on one fixture are the race; a third only repeats it.  The
  fixture is the renewal dispute because its refund is the action that can be
  proposed again after it was executed, which is one of the races.  `EvalHistory`
  has the whole seeded suite.

Deadlock checking is off in `DisputeCycles`, `DecisionTraces`,
`WorkflowBackfill`, `AgentRun` and the Eval runs, where the system really stops
(all calls ended, nothing left to decide, contradictory rows).  It is on in
`WorkflowSessions` and `ResetSessions` but satisfied without effort, since a
session can always close; the statements about deadlock are `NoWaitCycle` and
`OnlyResetsDeadlock`.

### Properties

* Tables (`CaseTables`): `OneActiveCycle`, `RunTracksWorkflow`,
  `DecisionTracksWorkflow`, `NoDoubleExecution`, `KeyNamesOneRun`,
  `LedgerExplainsStatus`, `DecidersAreAuthorised`, and of steps
  `SettledStaysSettled`, `AttemptsEndOnce`, `MoneyNeedsApproval`.  They are
  checked for `CaseWorkflow`; the refinements carry them to every interleaving.
* Sessions: `ImplementsCaseWorkflow`; `AnswersAreTrue`, what a caller is told
  also from unlocked reads; `NoWaitCycle`; `CommandsAreAnswered`.
* Resets: `ResetsAreAtomic`, `OnlyResetsDeadlock`.
* Loop: `OneLoopPerRun`, `OnlyRefusalsStrand`, `FinishedRunsComply`,
  `AcceptanceIsExact`, `LateLoopsChangeNothing`, `CallsEnd`.
* Decisions: `InvoiceStaysPaid`, `ProposalsAreOwed`.
* Traces: `OneExecutionTrace`, `ExecutedRunsStayClean`, `OnlyBlockedTracesTie`.
* Eval Lab: `VerdictsAreExact`, `OnlyRacesStrandEvals`.
* In-memory: `ImplementsCommands`, `HistoryIsKept`, `MoneyOnce`, `MovesReplay`.
* Migration: `BackfilledStoriesAgree`, `RetriesAreAlone`, `IndexesNeverAbort`,
  `CommandsStaySound`, `RevisionsKeepDecisions`.

Each is explained where it is defined.  Three need a word on what they do not
say.  `FinishedRunsComply` does not say that the compliance check passes on every
completed run: two people may read a pending request, one rejects it, and the
other's approval, refused under the lock, is a blocked trace on the completed run,
which then fails the check with `approval.terminal_conflict`
(`test_p1_04_approval_concurrency.py:167` asserts the trace).  The property says
that this is the only failure, that it needs a rejected or withdrawn request, and
that in particular no run whose action was executed ever fails.
`ExecutedRunsStayClean` says the last part of `DecisionTraces` too, where the
refusal and its trace are steps of concurrent sessions.  `IndexesNeverAbort` is
about the unique indexes alone; the check constraint of the decisions does abort
histories the preflight passes (see the disagreements below).

### Fairness

`CommandsAreAnswered` assumes strong fairness of each session's `Proceed` and
of nothing else: callers need not call and sessions need not die.  The event
loop resumes a coroutine when its statement has returned, and Postgres queues
the waiters of a row lock, so a session that is again and again able to
go on does go on.  Weak fairness would not say this: a waiter's step is disabled
whenever another session holds the row.  `lock_timeout` and `deadlock_timeout`
are not relied upon.

`CallsEnd` assumes weak fairness of each call's `Step`: a model call has a
timeout, a statement returns, and the event loop resumes the coroutine.  No
other call or person can disable a call's step without enabling another one of
the same call, so weak fairness is enough.  `Die` is not fair.

### Findings

1. `EvalHistory`: the SQL `reset_eval_fixture_state` deletes the seeded
   adjustment of the case "Prior adjustment already granted", so against
   Postgres the loop proposes the credit again; the tests, on the in-memory
   repository, assert the opposite (`test_m4_eval_lab.py:283`).  That the
   in-memory reset does keep the history is `HistoryIsKept`.
2. `BackfillInterrupted`: the migration marks an interrupted attempt failed only
   on tickets with neither request nor mutation
   (`p0-03-workflow-state-consistency.md:88`).

Other disagreements met while modelling.  They are no runs of their own; the
properties above are stated as the code has it:

* evidence the kernel refuses strands the run, where p0-03:43 says a failed
  attempt needs a retry (`agent/orchestrator.py:153`); `OnlyRefusalsStrand`
  names it;
* only a goodwill credit counts as a prior adjustment, so the cycle after an
  executed refund proposes it again and is stopped by `finalize_run`'s 409
  (`agent/decision.py:289`, `seed_data.py:475`), which strands the run, and in
  the Eval Lab the eval run with it (the last disjunct of
  `OnlyRacesStrandEvals`);
* a plan's dependencies are checked for existence, not for order
  (`agent/planning.py:274`).  No property is about that: `Follows` asks no more
  than the verifier, and the loop reads `depends_on` nowhere;
* two requests for one eval case may keep a row each in `eval_results`
  (`repositories.py:3274`);
* a provider outage is graded as a failed case and compares as regressed
  (`eval/runner.py:236`).  No property is about that either: `VerdictsAreExact`
  admits any failed run as regressed;
* the migration creates `ck_approval_decision_audit_shape` anew and demands that
  a `legacy_unverified` decision bears no name (`0009:448`).  Revision 0008
  renamed `decided_by` to `decision_actor_display_name` and kept its text on just
  these decisions (`0008:99`), as `p0-02-authentication-approval-rbac.md:206` says
  it should.  No query of the preflight looks for them, so a database with one
  named decision from before 0008 cannot be upgraded: such initial states of
  `WorkflowBackfill` never leave revision 0008 (`AuditShapeHolds`).  Only they
  and the contradictory ones stop there;
* the backfill's ledger has moves such as investigating to mock_executed that
  the runtime's transition table does not (`0009:418`), so
  `LedgerExplainsStatus` is not among the properties of `WorkflowBackfill`;
* "When the kernel blocks a governed action", it "should still write a blocked
  trace entry" (`docs/archive/milestones/m6-governed-runtime-financial-safety.md:107`).
  An approver whose unlocked read already finds a rejection gets a 409 without
  one (`agent/governance.py:431`), and so does a rejecter the repository refuses;
* the resets take locks in the reverse of the commands' order
  (`repositories.py:3475`), so a reset and a command can deadlock; Postgres
  aborts one of them.

## 4. What is proved

Every statement below holds for any sets of tickets, keys, actions, sessions,
ids and so on; the runs show the same properties on their instances.  The
strengthened invariants were checked with TLC on such instances before they were
proved.

| Module | Theorems |
|---|---|
| `CaseWorkflowProofs` | `Invariance`, and from it `TypeCorrectness`, `AtMostOneActiveCycle`, `RunsAndWorkflowsAgree`, `DecisionsAndWorkflowsAgree`, `NothingIsExecutedTwice`, `KeysAreIdempotent`, `LedgerIsComplete`, `DecisionsAreAuthorised`, `RequestsComeFromCompletedRuns`; of steps `SettledCyclesAreFinal`, `EndedAttemptsAreFinal`, `MoneyMovesOnApprovalOnly` |
| `WorkflowSessionsProofs` | `SessionInvariance`, `SessionsImplementCommands`, `AnswersAreTruthful`, `SessionsNeverDeadlock`; with a reset `ResetInvariance`, `ResetsAreAtomicSteps`, `OnlyResetsCanDeadlock` |
| `InMemoryRepositoryProofs` | `Invariance`, `ListsImplementCommands`, `MoneyMovesOnce`, `HistorySurvives`, `MovesExplainStatus` |
| `WorkflowBackfillProofs` | `BackfillInvariance`, `IndexesAdmitTheBackfill`, `RetriesRunAlone`, `CommandsAreSoundAfterMigration`, `MigratedStoriesAgree`, `DecisionsSurviveRevisions` |
| `AgentRunProofs` | `VerifierIsExact`, `AgentInvariance`, `OneLoopWritesARun`, `OnlyRefusalsStrandRuns`, `AcceptedPlansAreFollowed`, `FinishedRunsPass`, `LateLoopsAreHarmless`, `LoopsIssueCommands`, `LoopsKeepTheTables`; `LoopInvariance`, `DecisionsAreCurrent`, `LogsAreOrdered` |
| `EvalLabProofs` | `EvalInvariance`, `LabelsAreExact`, `StrandedEvalRunsAreExplained`, `LabStepsAreLoopSteps`, `LabKeepsTheTables`, `LabKeepsDecisions` |
| `DisputeCyclesProofs` | `Invariance`, `OnlyOwedMoneyIsProposed`, `InvoicesStayPaid` |
| `DecisionTracesProofs` | `Invariance`, `OneExecutionIsTraced`, `ExecutionIsNeverBlocked`, `TiesAreHarmless` |

### Assumptions

On constants, each named where the constant is declared: `NoneAssumption`
(NULL is none of the values it stands beside), `SessionsAssumption`,
`ResetterAssumption` and `NobodyAssumption` (a session is not NULL, not the
reset and not nobody), `PlansAssumption`, `ProposalsAssumption`,
`EvidenceAssumption` and `SeedAssumption` (plans, proposals, evidence and seed
rows have the fields and values the schemas and `seed_data.py` give them; the
charges of a ticket are finitely many, `ChargesAssumption`, and have ids of
their own).  TLC checks them in every run that uses the constant.

`EvalLab` has five, which `EvalHistory` checks of the whole suite of
`seed_data.py`:

* `IdAssumption`: a call, its key, its run and its workflow have one name, and
  no seeded workflow has it; the runner makes a uuid for each;
* `CaseAssumption`: the cases of the suite are distinct and their tickets have
  fixtures, or the case names no ticket that exists;
* `SeedAssumption`: a ticket has at most one seeded adjustment, as in
  `seed_data.py`;
* `FixtureAssumption`: the fixture of a case that can be run has the scenario of
  its case, charges, credits, and usage records or a subscription.  Every
  fixture of `seed_data.py` does; one without would be refused by the kernel;
* `ExpectationAssumption`: a case is consistent with itself.  No case expects an
  already executed action, and a decision with the outcome the case expects
  cites the evidence the case asks for and leads to the routing it asks for.
  This is a statement about the rows of `seed_data.py` and the pure decision
  tools; a case that failed it could never pass, whatever the loop does.

One theorem has a hypothesis of its own: `InvoicesStayPaid` assumes
`DistinctInstants`, that no two charges captured for the total of one invoice
have the same `captured_at`.  Neither a constraint nor a check keeps two charges
from it; with equal instants the last of them is whichever the query returns
last, and two cycles may refund one charge each.

### The commands (`CaseWorkflowProofs`)

The table invariants are not inductive one by one.  `IInv` is their conjunction
with `RowsAreComplete`: an absent row is blank everywhere, a row that exists
names its ticket and has a sequence number of at least 1, and a request names a
run unless it was seeded as executed.  It is needed because an insert takes an absent id and must not inherit a
stale ledger, request or run from it (which is what a reset that forgot a table
would leave), and because `WorkflowsOf` groups rows by a ticket that must not be
NULL.  The conjuncts depend on each other: that an approval finds no executed
duplicate pending elsewhere (`NoDoubleExecution`) follows from `OneActiveCycle`
and `DecisionTracksWorkflow`, since a request of the same ticket that is still
pending belongs to an active workflow and there is only one.

Two parts of it are weaker than the properties of the runs, so that they hold of
the seed of the Eval Lab too, whose executed adjustment has a request without a
run: `DecisionsAgree` is `DecisionTracksWorkflow` but for that, and
`RequestsNameRuns` is the difference.  It holds from empty tables on
(`DecisionsAndWorkflowsAgree`).  `RequestsFollowRuns` adds that the run a
request names is completed.

There is one lemma per command (`StartCycleStep` ... `ResetTicketStep`) over
shared lemmas: `MoveEffect` and `MoveStep` for the status change with its ledger
row, `StartCycleEffect`, `CancelEffect` and `ResetEffect` for what the commands
write, `MoveKeepsCycles` and `ResetKeepsCycles` for the parts the migrated
database shares, `EndRunStep` for ending a run without a request.  `NextIInv`
combines them.  `SettledStep`, `AttemptStep` and `MoneyStep` are the action
properties.

### The sessions (`WorkflowSessionsProofs`)

`SessionInv` is `IInv` with two more parts.

* `LockInv`: every session holds exactly the locks of its step, as `Holds` reads
  them off `at`, `cmd` and `seen`.  From it `LockOrder`: a session that holds a
  lock waits only for rows further down (workflow, request, run), so a ring of
  waiting sessions would be a ring of rows going down; hence `NoWaitCycle`.
* `Story(s)`: what a session holds in memory and why it is still so.  A command
  past `lock_workflow` remembers the row as it is; past `lock_run` the run, past
  `lock_approval` the request; a start at `insert_cycle` remembers a number
  that is the last cycle's or is followed by the next one, and in the second
  case the unique index refuses its insert; an answer is borne out by the tables.

A commit of one session is local (`CommitBy`): it is a step of `CaseWorkflow`, it
changes no workflow that another session has locked, nor what hangs on it, and it
removes nothing.  So the other stories survive it (`OthersKnow`), and the
session's own commit, computed from memory, is the command computed from the
tables.  The stale unlocked check for an executed fingerprint (`check_end`) is
safe because no action of a ticket is executed while another of its workflows
is investigating (`NotExecutedMeanwhile`).

### The resets (`WorkflowSessionsProofs`)

Rows go under the sessions, so `Story` is no longer kept.  `Survives(s)` is what
is left: the story, or a command that names a deleted row and has not locked it
(`Adrift`, which will be answered or find no active workflow), or a start that
has read the last cycle of a ticket whose cycles are gone (`Counting`, whose
insert waits for, and then misses, the previous workflow).  Since no uuid is used
again (`SpentRowsAreGone`), a row that is gone does not come back as another.

`ResetStory` says what the reset has found.  When the DELETE of workflows begins,
either the ticket has none, and then the reset has met nothing at all, or its
first cycle is among those it meets.  When that DELETE ends its foreign keys have
been checked: no row left refers to a deleted workflow, as previous workflow
either, so by induction on the cycle numbers (`Least`) every workflow of the
ticket is deleted and with it every run, request and mutation (`FoundAll`).  From
then on nobody can add to the ticket: a next cycle's insert waits for the lock on
its previous workflow, a first cycle's number is taken (`NoCycleUnderReset`), and
everything else needs the lock on a workflow.  So the commit either deletes
nothing or is `ResetTicket`.  The waits of inserts keep the lock order
(`InsertOrder`), which gives `OnlyResetsDeadlock`.

### The in-memory repository (`InMemoryRepositoryProofs`)

`ListInv`: each id is listed once, the lists agree with each other, and a
request or a mutation may outlive its workflow but never sits behind a workflow
it does not explain (`ListsAgree`).  This is what the mapping needs, which shows
a request only while its workflow exists: a step on the lists is the same
command on the tables, or nothing.  `MoneyOnce` speaks of all listed mutations,
also those the mapping hides, and is part of the invariant.

### The migration (`WorkflowBackfillProofs`)

`IInv` is false on migrated databases: an attempt that was running on a ticket
with a request stays running behind an awaiting workflow, requests may name no
run, and the ledger has moves outside the table.  `MigratedInv` is what is left,
and it is enough for the commands: types, one active cycle, single execution, a
story per cycle (`StoryOf`), and that only an investigating cycle has a running
attempt that may end (`AttemptsOf`).  `PreflightFindsOneStory` and
`UpgradeEffect` show that the upgrade of a history the preflight passes
establishes it.  `BackfilledIndexesHold` takes from there the unique indexes: two
workflows of one ticket have different numbers and at most one is active, and no
action is executed twice.  So `IndexesNeverAbort` is proved for every choice of
ids, keys and statuses the backfill can make.  `DecisionsSurviveRevisions` needs
that a request keeps its decider both ways, for which `OldApprovalColumns` says
what an old row may hold.

### The loop (`AgentRunProofs`)

`VerifierIsExact` is about the pure verifier: it accepts a plan exactly when it
says what the loop will do, for plans of any length.  `AgentInv` joins `IInv`
with: a run belongs to one live call at most; a call that went on was given such
a plan; the traces of a run are clean until its call is about to fail it; those of
a completed run stay so, except for approvers who were refused because the
request was settled (`ExcusedLog`), of which there are none while it is pending
or executed; and what a request went through is in the log of its run.  That an
approval is refused for no other reason is where the table invariants are needed:
a pending request has an awaiting workflow, no mutation and no executed
duplicate, and an approved one has its mutation.
`LoopsIssueCommands` gives the loop every theorem about the commands
(`LoopsKeepTheTables`).

`LoopInv` says what a call has come to, and is proved on top of `AgentInv`.
`CurrentDecision`: while its run is running, a call's decision is the one the
tools give on what is executed now, though it read that several awaits ago: an
action executed meanwhile would have been pending in another active cycle of the
ticket.  After the call finalized, its decision is what the request says, and
what was executed since is the cycle's own.  `OrderedLog`: the log of a run
whose call has got to a control point is `LoopTrace`, so far and in that order.

### The Eval Lab (`EvalLabProofs`)

Every step of an Eval request is a step of the loop, the people or a reset, or
leaves their variables alone (`LabStepsAreLoopSteps`), and the seed satisfies
`IInv`.  So `AgentInv` and `LoopInv` hold here as well, and the lab keeps what
the tables promise (`LabKeepsTheTables`, `LabKeepsDecisions`).  `EvalInv` adds:

* `CallIsOwn`: the call, the run and the workflow of a case have one name; other
  requests may retry the workflow, but never write the run;
* `JobIsSound`: at each control point of a request, that it has a case that can
  be run, and, if it is grading, that the call of the case is over; one that
  raised did so for a reason that `OnlyRacesStrandEvals` names (`Strands`).
  That the kernel refuses nothing on the way is `FixtureTrace` and
  `FixtureDecision`, from `FixtureAssumption`;
* `ReadsAreCurrent`: a request grades from queries made one after the other,
  between which people decide and other requests reset the ticket.  `Intact`
  says that nobody has touched what the run left.  As long as that is so,
  everything the request has read is what is there, including the requests of
  other runs that the compliance check reads (`PendingIsApart`,
  `RequestsAreRead`); once it is not, nothing is claimed, because it never
  becomes so again;
* `ExactGrade`: a result that is stored, or about to be, passes the outcome only
  if the decision is the expected one; and if the case is still intact, every
  dimension passes.  The second half is where the log (`OrderedLog`), the
  decision (`CurrentDecision`), the compliance check (`FinishedRunsComply`) and
  `ExpectationAssumption` meet.

`VerdictsAreExact` and `OnlyRacesStrandEvals` follow from the last two parts.

### Decisions and traces (`DisputeCyclesProofs`, `DecisionTracesProofs`)

Whatever was executed or waits was owed on the evidence (`OwedOn`), which does
not change over the cycles of a ticket.  With distinct instants every reading
of the evidence ends in the same duplicate, so only that charge is ever refunded.

The trace log is described by the status of its request: before a decision
nothing of it, after an execution its trace, and no blocked trace of a refusal
that came before the execution; who holds the locks is about to execute a
pending request; and the numbers in the log have a maximum (`HighestTrace`),
which is what `max(sequence) + 1` needs.

### Only model-checked

* `CommandsAreAnswered` and `CallsEnd`: liveness under fairness is out of the
  proof system's reach.
* The two violations of the findings are counterexamples of TLC.

Every other property of a run is a theorem.

## 5. Not modelled, and the plan

Not modelled:

* `decision_summary.py`: which wording a ticket gets, from rows read by separate
  statements; it stores nothing and no command depends on it;
* token issue and verification, the web session, pages and server actions, HTTP
  schemas, the error envelope: pure functions or rendering.  A page that submits
  one intent under two keys is a caller with two keys;
* the provider's HTTP exchange, prompts and the phrases a draft must not
  contain: the outcomes of a call are inputs of `AgentRun`;
* the advisory draft judge, version fingerprints and diffs of the Eval Lab: they
  block nothing;
* the gate for High-risk actions in `record_action`: no caller in `src/apps`
  records one that way;
* the idempotent re-seed of `seed.py`: an upsert of constant rows;
* migrations other than 0009: DDL;
* engine and connection pool (`db.py`): a session that waits for a connection
  has not begun.

Modelled in part: the in-memory repository without traces, eval rows and
`create_approval_request`; the Eval Lab's cases without a runner are in no
passing run (the theorems cover them); that a single case of a running eval ends
is not checked as liveness, since other requests may reset its ticket for ever; a
failing repository call inside the loop (`Die` stands for it).  Five hazards have
no property, with the reason in `PROJECT.json`.

Left to prove: no safety or action property of a run.  What would extend the
proofs is the model itself: the traces and eval rows of the in-memory
repository, and a liveness argument on paper for the two properties above.
