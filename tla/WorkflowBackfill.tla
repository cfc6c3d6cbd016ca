-------------------------- MODULE WorkflowBackfill --------------------------
(***************************************************************************)
(* Migration 0009: the workflow tables are created and filled from the     *)
(* runs, approvals and mutations that were written before there were       *)
(* workflows, or the migration aborts and nothing changes.  Downgrading    *)
(* drops the workflow tables again.  Between the two, the workflow         *)
(* commands of module CaseWorkflow go on from what the backfill left.      *)
(*                                                                         *)
(* At revision 0008 the tables are old...; at 0009 they are those of       *)
(* CaseTables.  A row keeps its id: old approvals and mutations take       *)
(* theirs from WorkflowIds, the pool that indexes the 0009 tables.  The    *)
(* ids WF-P003-<ticket>-1 and the keys legacy:<run>, fresh and different   *)
(* for different rows, are any unused values.                              *)
(***************************************************************************)
EXTENDS CaseWorkflow, Functions, FiniteSets

CONSTANTS
  MaxOldRows,    \* bound: rows the initial 0008 tables hold together
  OldDeciders    \* bound: who decided the initial requests that say so

VARIABLES
  revision,      \* alembic_version: "0008" or "0009"
  outcome,       \* agent_runs.final_outcome, by run, at either revision
  oldRun,        \* agent_runs at 0008
  oldApproval,   \* approval_requests at 0008
  oldMutation    \* mock_mutations at 0008

backfillVars == <<tables, revision, outcome, oldRun, oldApproval, oldMutation>>

NoOldRun == [ticket |-> None, status |-> Absent]
NoOldApproval == [ticket |-> None, status |-> Absent, action |-> None, run |-> None,
                  decider |-> None, named |-> FALSE]
NoOldMutation ==
  [ticket |-> None, approval |-> None, action |-> None, executed |-> FALSE]

\* The final_outcomes, by what the backfill makes of them.
Outcomes == {"no_action", "approval_required", "unrecognised"}

OldRunRows == [ticket : Tickets, status : RunStatuses]

\* ck_approval_decision_audit_shape at 0008.  A request decided before 0008 is
\* legacy_unverified: nobody knows who decided it, but the name that stood in
\* decided_by, if any, is its decision_actor_display_name.
OldAuditShape(p) ==
  \/ p.status = "pending" /\ p.decider = None /\ ~p.named
  \/ p.status \in {"approved", "rejected"} /\ p.decider = None
  \/ p.status \in {"approved", "rejected"} /\ p.decider \in {"approver", "admin"} /\ p.named

OldApprovalRows ==
  {p \in [ticket : Tickets, status : ApprovalStatuses, action : Actions,
          run : RunIds \cup {None}, decider : Roles \cup {None}, named : BOOLEAN] :
     OldAuditShape(p)}
OldMutationRows == [ticket : Tickets, approval : WorkflowIds \cup {None},
                    action : Actions, executed : BOOLEAN]

OldTablesEmpty ==
  /\ oldRun = [r \in RunIds |-> NoOldRun]
  /\ oldApproval = [p \in WorkflowIds |-> NoOldApproval]
  /\ oldMutation = [m \in WorkflowIds |-> NoOldMutation]

\* Type invariant: the tables of the other revision are empty, and a row has
\* an outcome only if it exists.
BackfillTypeOK ==
  /\ TypeOK
  /\ oldRun \in [RunIds -> OldRunRows \cup {NoOldRun}]
  /\ oldApproval \in [WorkflowIds -> OldApprovalRows \cup {NoOldApproval}]
  /\ oldMutation \in [WorkflowIds -> OldMutationRows \cup {NoOldMutation}]
  /\ outcome \in [RunIds -> Outcomes \cup {None}]
  /\ \/ revision = "0008" /\ Empty
     \/ revision = "0009" /\ OldTablesEmpty
  /\ \A r \in RunIds :
       outcome[r] # None => oldRun[r].ticket # None \/ RunExists(r)

-----------------------------------------------------------------------------
(* The 0008 tables.                                                        *)

OldRunsOf(t) == {r \in RunIds : oldRun[r].ticket = t}
OldApprovalsOf(t) == {p \in WorkflowIds : oldApproval[p].ticket = t}
OldMutationsOf(t) == {m \in WorkflowIds : oldMutation[m].ticket = t}

\* The tickets the backfill loops over.
TicketsWithHistory ==
  {t \in Tickets : OldRunsOf(t) \cup OldApprovalsOf(t) \cup OldMutationsOf(t) # {}}

\* What a 0008 database can hold.  An approval names a completed run of its
\* ticket or none, and an action is pending at most once.
ComesFromRun(p) ==
  p.run # None => /\ oldRun[p.run] = [ticket |-> p.ticket, status |-> "completed"]
                  /\ outcome[p.run] = "approval_required"

OldApprovalsLegal ==
  /\ \A p \in WorkflowIds : ComesFromRun(oldApproval[p])
  /\ \A p, q \in WorkflowIds :
       (/\ p # q
        /\ oldApproval[p].ticket # None
        /\ oldApproval[p].ticket = oldApproval[q].ticket) =>
         /\ oldApproval[p].run # None => oldApproval[p].run # oldApproval[q].run
         /\ ~(/\ oldApproval[p].status = "pending"
              /\ oldApproval[q].status = "pending"
              /\ oldApproval[p].action = oldApproval[q].action)

\* A mutation names an existing approval, each approval at most one mutation,
\* and an action is executed at most once.
ComesFromApproval(m) == m.approval # None => oldApproval[m.approval].ticket # None

OldMutationsLegal ==
  /\ \A m \in WorkflowIds : ComesFromApproval(oldMutation[m])
  /\ \A m, n \in WorkflowIds : m # n =>
       /\ oldMutation[m].approval # None =>
            oldMutation[m].approval # oldMutation[n].approval
       /\ ~(/\ oldMutation[m].executed /\ oldMutation[n].executed
            /\ oldMutation[m].ticket = oldMutation[n].ticket
            /\ oldMutation[m].action = oldMutation[n].action)

-----------------------------------------------------------------------------
(* The preflight: what makes upgrade() raise before it writes anything.    *)

ApprovedWithoutMutation ==
  \E p \in WorkflowIds : /\ oldApproval[p].status = "approved"
                         /\ \A m \in WorkflowIds : oldMutation[m].approval # p

MutationWithoutConsent ==
  \E m \in WorkflowIds : /\ oldMutation[m].approval # None
                         /\ oldApproval[oldMutation[m].approval].status # "approved"

AuditFieldsDisagree ==
  \E m \in WorkflowIds :
    /\ oldMutation[m].approval # None
    /\ LET p == oldApproval[oldMutation[m].approval] IN
       /\ p.status = "approved"
       /\ \/ ~oldMutation[m].executed
          \/ oldMutation[m].ticket # p.ticket
          \/ oldMutation[m].action # p.action   \* with the ticket: the fingerprint

MutationWithoutApproval ==
  \E m \in WorkflowIds : oldMutation[m].ticket # None /\ oldMutation[m].approval = None

SeveralCandidates ==
  \E t \in Tickets :
    \/ \E q, r \in OldRunsOf(t) :
         q # r /\ oldRun[q].status = "running" /\ oldRun[r].status = "running"
    \/ \E p, q \in OldApprovalsOf(t) : p # q
    \/ \E m, n \in OldMutationsOf(t) : m # n

\* `final_outcome NOT IN (...)` is not true of a NULL outcome.
UnknownOutcome ==
  \E r \in RunIds : oldRun[r].status = "completed" /\ outcome[r] = "unrecognised"

\* Mutant of Contradictory: a mutation of a pending or rejected request passes.
ContradictoryWithConsent ==
  \/ ApprovedWithoutMutation \/ AuditFieldsDisagree
  \/ MutationWithoutApproval \/ SeveralCandidates \/ UnknownOutcome

\* Mutant of Contradictory: several candidates of a ticket pass.
ContradictoryButSeveral ==
  \/ ApprovedWithoutMutation \/ MutationWithoutConsent \/ AuditFieldsDisagree
  \/ MutationWithoutApproval \/ UnknownOutcome

Contradictory ==
  \/ ApprovedWithoutMutation \/ MutationWithoutConsent \/ AuditFieldsDisagree
  \/ MutationWithoutApproval \/ SeveralCandidates \/ UnknownOutcome

-----------------------------------------------------------------------------
(* The backfill.                                                           *)

StatusOfApproval ==
  [pending |-> "awaiting_approval", rejected |-> "rejected", withdrawn |-> "cancelled"]

\* Neither a mutation nor an approval decides: the attempts do.
Undecided(t) == OldMutationsOf(t) = {} /\ OldApprovalsOf(t) = {}

Unfinished(t) == \E r \in OldRunsOf(t) : oldRun[r].status \in {"running", "failed"}

\* final_status, where `latest` is the ticket's run with the last started_at.
BackfilledStatus(t, latest) ==
  CASE OldMutationsOf(t) # {} -> "mock_executed"
    [] OldMutationsOf(t) = {} /\ OldApprovalsOf(t) # {} ->
         LET p == CHOOSE p \in OldApprovalsOf(t) : TRUE
         IN  StatusOfApproval[oldApproval[p].status]
    [] Undecided(t) /\ Unfinished(t) -> "needs_retry"
    [] Undecided(t) /\ ~Unfinished(t) ->
         IF outcome[latest] = "no_action" THEN "completed_no_action" ELSE "failed"

\* Mutant of BackfilledRun: an interrupted run stays as it was.
BackfilledRunAsIs(r, id, key) ==
  LET t == oldRun[r].ticket IN
  IF t = None THEN NoRun
  ELSE [ticket |-> t, key |-> key[r], workflow |-> id[t], status |-> oldRun[r].status]

\* Only the branch that asks the attempts marks the running ones failed.
BackfilledRun(r, id, key) ==
  LET t == oldRun[r].ticket IN
  IF t = None THEN NoRun
  ELSE [ticket |-> t, key |-> key[r], workflow |-> id[t],
        status |-> IF Undecided(t) /\ oldRun[r].status = "running"
                   THEN "failed" ELSE oldRun[r].status]

BackfilledLedger(status) ==
  {[sequence |-> 1, from |-> Absent, to |-> InitialStatus],
   [sequence |-> 2, from |-> InitialStatus, to |-> status]}

\* The ticket whose workflow got the id w, if any.
TicketOf(w, id) == {t \in TicketsWithHistory : id[t] = w}

\* What `build` makes of the ticket of workflow w, or the absent row.
ByWorkflow(id, build(_), absent) ==
  [w \in WorkflowIds |->
     IF TicketOf(w, id) = {} THEN absent
     ELSE build(CHOOSE t \in TicketOf(w, id) : TRUE)]

\* Mutant of BackfilledMutation: workflow_id is not set on the mutations.
BackfilledMutationUnlinked(t) == None

BackfilledMutation(t) ==
  IF OldMutationsOf(t) = {} THEN None
  ELSE oldMutation[CHOOSE m \in OldMutationsOf(t) : TRUE].action

\* The backfill leaves the audit columns alone: the deciders of old decisions
\* stay unknown, those of decisions taken since 0008 stay known.
BackfilledApproval(t) ==
  IF OldApprovalsOf(t) = {} THEN NoApproval
  ELSE LET p == oldApproval[CHOOSE p \in OldApprovalsOf(t) : TRUE]
       IN  [status |-> p.status, action |-> p.action, run |-> p.run, decider |-> p.decider]

\* What the five tables become, with the status of each ticket's cycle.
BackfilledWorkflows(id, status) ==
  ByWorkflow(id, LAMBDA t :
    [ticket |-> t, cycle |-> 1, status |-> status[t], sequence |-> 2], NoWorkflow)
BackfilledLedgers(id, status) == ByWorkflow(id, LAMBDA t : BackfilledLedger(status[t]), {})
BackfilledApprovals(id) == ByWorkflow(id, BackfilledApproval, NoApproval)
BackfilledMutations(id) == ByWorkflow(id, BackfilledMutation, None)
BackfilledRuns(id, key) == [r \in RunIds |-> BackfilledRun(r, id, key)]

\* The statuses, for any choice of the last of runs that started together.
BackfilledStatuses ==
  {[t \in TicketsWithHistory |-> BackfilledStatus(t, latest[t])] :
     latest \in {last \in [TicketsWithHistory -> RunIds \cup {None}] :
                  \A t \in TicketsWithHistory :
                    IF OldRunsOf(t) = {} THEN last[t] = None ELSE last[t] \in OldRunsOf(t)}}

\* The unique indexes upgrade() creates last, on the rows it wrote: if these
\* violate one, everything is rolled back.  (Those that allow a workflow one
\* request and one mutation are in the shape of CaseTables.)
UniqueIndexesHold(workflows, runs, mutations) ==
  /\ \A v, w \in WorkflowIds :
       (/\ workflows[v].status \in ActiveStatuses /\ workflows[w].status \in ActiveStatuses
        /\ workflows[v].ticket = workflows[w].ticket) => v = w
  /\ \A q, r \in RunIds : runs[q].status # Absent /\ runs[r].status # Absent /\ q # r =>
       /\ <<runs[q].ticket, runs[q].key>> # <<runs[r].ticket, runs[r].key>>
       /\ runs[q].status = "running" /\ runs[r].status = "running" =>
            runs[q].workflow # runs[r].workflow
  /\ \A v, w \in WorkflowIds :
       mutations[v] # None /\ v # w =>
         <<workflows[v].ticket, mutations[v]>> # <<workflows[w].ticket, mutations[w]>>

\* The check of 0008 that upgrade() creates anew, on the rows it leaves: it has
\* become stricter, a legacy_unverified decision must not bear a name.
AuditShapeHolds ==
  \A p \in WorkflowIds : oldApproval[p].named => oldApproval[p].decider # None

Upgrade ==
  /\ revision = "0008" /\ ~Contradictory /\ AuditShapeHolds
  /\ \E id \in Injection(Tickets, WorkflowIds), key \in Injection(RunIds, Keys),
        status \in BackfilledStatuses :
       /\ workflow' = BackfilledWorkflows(id, status)
       /\ ledger' = BackfilledLedgers(id, status)
       /\ approval' = BackfilledApprovals(id)
       /\ mutation' = BackfilledMutations(id)
       /\ run' = BackfilledRuns(id, key)
  /\ UniqueIndexesHold(workflow', run', mutation')
  /\ revision' = "0009"
  /\ oldRun' = [r \in RunIds |-> NoOldRun]
  /\ oldApproval' = [p \in WorkflowIds |-> NoOldApproval]
  /\ oldMutation' = [m \in WorkflowIds |-> NoOldMutation]
  /\ UNCHANGED outcome

\* A request of 0009 as 0008 sees it: one decided by a known actor bears a name.
DowngradedApproval(w) ==
  [ticket |-> workflow[w].ticket, status |-> approval[w].status,
   action |-> approval[w].action, run |-> approval[w].run,
   decider |-> approval[w].decider, named |-> approval[w].decider # None]

\* downgrade() recreates the 0008 check of approval_requests, which a withdrawn
\* request violates: the whole downgrade is then rolled back.
Downgrade ==
  /\ revision = "0009"
  /\ \A w \in WorkflowIds :
       approval[w].status # Absent => OldAuditShape(DowngradedApproval(w))
  /\ oldRun' = [r \in RunIds |-> [ticket |-> run[r].ticket, status |-> run[r].status]]
  /\ oldApproval' = [w \in WorkflowIds |->
       IF approval[w].status = Absent THEN NoOldApproval ELSE DowngradedApproval(w)]
  /\ oldMutation' = [w \in WorkflowIds |->
       IF mutation[w] = None THEN NoOldMutation
       ELSE [ticket |-> workflow[w].ticket, approval |-> w,
             action |-> mutation[w], executed |-> TRUE]]
  /\ workflow' = [w \in WorkflowIds |-> NoWorkflow]
  /\ ledger' = [w \in WorkflowIds |-> {}]
  /\ approval' = [w \in WorkflowIds |-> NoApproval]
  /\ mutation' = [w \in WorkflowIds |-> None]
  /\ run' = [r \in RunIds |-> NoRun]
  /\ revision' = "0008"
  /\ UNCHANGED outcome

\* A command of module CaseWorkflow; finalize_run also writes final_outcome.
Command ==
  /\ revision = "0009" /\ Next
  /\ outcome' = [r \in RunIds |->
       CASE run'[r].status = Absent -> None
         [] run[r].status = "running" /\ run'[r].status = "completed" ->
              IF \E w \in WorkflowIds : approval'[w].run = r
              THEN "approval_required" ELSE "no_action"
         [] OTHER -> outcome[r]]
  /\ UNCHANGED <<revision, oldRun, oldApproval, oldMutation>>

Rows(table, absent) == Cardinality({i \in DOMAIN table : table[i] # absent})

\* Bound: the mutations the runs and approvals leave room for.
Room == MaxOldRows - Rows(oldRun, NoOldRun) - Rows(oldApproval, NoOldApproval)

BackfillInit ==
  /\ Empty /\ revision = "0008"
  /\ oldRun \in [RunIds -> OldRunRows \cup {NoOldRun}]
  /\ \A r \in RunIds : oldRun[r].status # "cancelled"
  /\ outcome \in [RunIds -> Outcomes \cup {None}]
  /\ \A r \in RunIds : outcome[r] # None => oldRun[r].status = "completed"
  /\ oldApproval \in [WorkflowIds ->
       {p \in OldApprovalRows : p.decider \in OldDeciders \cup {None} /\ ComesFromRun(p)}
         \cup {NoOldApproval}]
  /\ OldApprovalsLegal
  /\ Room >= 0
  /\ oldMutation \in [WorkflowIds ->
       {m \in OldMutationRows : ComesFromApproval(m) /\ Room > 0} \cup {NoOldMutation}]
  /\ OldMutationsLegal
  /\ Rows(oldMutation, NoOldMutation) <= Room

BackfillNext == Upgrade \/ Downgrade \/ Command

BackfillSpec == BackfillInit /\ [][BackfillNext]_backfillVars

-----------------------------------------------------------------------------
(* What a migrated database must be like.                                  *)

\* Whatever the commands go on to do to a backfilled database, a ticket's
\* request, its executed mutation and its workflow tell one story, and the
\* request's run is a run of that workflow: nothing an aborting preflight
\* should have caught has been carried over.
BackfilledStoriesAgree ==
  /\ \A w \in WorkflowIds :
       /\ approval[w].status = "pending" <=> workflow[w].status = "awaiting_approval"
       /\ approval[w].status = "approved" <=> workflow[w].status = "mock_executed"
       /\ approval[w].status = "rejected" <=> workflow[w].status = "rejected"
       /\ mutation[w] = IF approval[w].status = "approved"
                        THEN approval[w].action ELSE None
       /\ approval[w].run # None => run[approval[w].run].workflow = w
       /\ workflow[w].status = "investigating" =>
            Cardinality({r \in RunIds : /\ run[r].workflow = w
                                        /\ run[r].status = "running"}) = 1
  /\ \A r \in RunIds : RunExists(r) => run[r].workflow \in WorkflowsOf(run[r].ticket)

\* A workflow that needs a retry has no attempt still running: the retry would
\* otherwise run beside it.
RetriesAreAlone ==
  \A r \in RunIds : run[r].status = "running" =>
    workflow[run[r].workflow].status # "needs_retry"

\* What the commands rely on holds of migrated rows too, and they keep it: the
\* backfill has no lock, no fingerprint check and no transition table of its own.
CommandsStaySound == BackfillTypeOK /\ OneActiveCycle /\ NoDoubleExecution

\* Whatever ids, keys and last runs the backfill takes, no history gets through
\* the preflight only to be refused by a unique index after the backfill: the
\* six queries of the preflight look for all that the indexes would reject.
IndexesNeverAbort ==
  revision = "0008" /\ ~Contradictory =>
    \A id \in Injection(Tickets, WorkflowIds), key \in Injection(RunIds, Keys),
       status \in BackfilledStatuses :
      UniqueIndexesHold(BackfilledWorkflows(id, status), BackfilledRuns(id, key),
                        BackfilledMutations(id))

Executed == {<<workflow[w].ticket, mutation[w]>> :
               w \in {v \in WorkflowIds : mutation[v] # None}}
Requests ==
  {<<workflow[w].ticket, approval[w].action, approval[w].status, approval[w].decider>> :
     w \in {v \in WorkflowIds : approval[v].status # Absent}}
OldExecuted == {<<oldMutation[m].ticket, oldMutation[m].action>> :
                  m \in {n \in WorkflowIds : oldMutation[n].executed}}
OldRequests ==
  {<<oldApproval[p].ticket, oldApproval[p].action, oldApproval[p].status, oldApproval[p].decider>> :
     p \in {q \in WorkflowIds : oldApproval[q].status # Absent}}

\* A change of revision neither forgets nor invents money or consent: the
\* actions executed, and the requests with what was decided of them and by whom,
\* are the same before and after, in both directions and through as many cycles
\* as there were.
RevisionsKeepDecisions ==
  [][revision' # revision =>
       /\ Executed' \cup OldExecuted' = Executed \cup OldExecuted
       /\ Requests' \cup OldRequests' = Requests \cup OldRequests]_backfillVars

\* p0-03-workflow-state-consistency.md: "an interrupted running attempt is
\* marked failed": on a migrated database an attempt runs only for a workflow
\* that is investigating, so none of those the migration found running is left.
InterruptedAttemptsFail ==
  \A r \in RunIds : run[r].status = "running" =>
    workflow[run[r].workflow].status = "investigating"
=============================================================================
