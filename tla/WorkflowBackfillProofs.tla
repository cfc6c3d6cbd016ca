----------------------- MODULE WorkflowBackfillProofs -----------------------
(***************************************************************************)
(* WorkflowBackfill, proved for any history: whatever the 0008 tables held *)
(* when the migration let it pass, and whatever the commands, downgrades   *)
(* and second upgrades make of it.                                         *)
(*                                                                         *)
(* The invariant of CaseWorkflowProofs is not true of a migrated database: *)
(* a run may still be running behind a workflow that awaits a decision, a  *)
(* request may name no run, and the ledger may hold a move the transition  *)
(* table does not have.  What is left of it is stated here and shown to be *)
(* enough for the commands.                                                *)
(***************************************************************************)
EXTENDS WorkflowBackfill, CaseWorkflowProofs, FiniteSetTheorems

\* Request, mutation and workflow of a cycle tell one story.
StoryOf(w) ==
  /\ approval[w].status = "pending" <=> workflow[w].status = "awaiting_approval"
  /\ approval[w].status = "approved" <=> workflow[w].status = "mock_executed"
  /\ approval[w].status = "rejected" <=> workflow[w].status = "rejected"
  /\ mutation[w] = IF approval[w].status = "approved" THEN approval[w].action ELSE None
  /\ IF approval[w].status = Absent THEN approval[w] = NoApproval
     ELSE approval[w].action # None /\ workflow[w].status # Absent
  /\ approval[w].run # None => run[approval[w].run].workflow = w
  /\ IF workflow[w].status = Absent THEN workflow[w].ticket = None
     ELSE workflow[w].ticket \in Tickets

\* A run belongs to a cycle of its ticket.
HomeOf(r) ==
  IF run[r].status = Absent THEN run[r] = NoRun
  ELSE /\ run[r].workflow \in WorkflowIds
       /\ workflow[run[r].workflow].status # Absent
       /\ workflow[run[r].workflow].ticket = run[r].ticket

\* Only a cycle that needs a retry is sure to have no running run, and only one
\* that is investigating to have exactly one.
AttemptsOf(w) ==
  /\ workflow[w].status = "needs_retry" =>
       \A r \in RunIds : run[r].status = "running" => run[r].workflow # w
  /\ workflow[w].status = "investigating" =>
       \E r \in RunIds :
         /\ run[r].status = "running" /\ run[r].workflow = w
         /\ \A q \in RunIds : run[q].status = "running" /\ run[q].workflow = w => q = r

\* What the commands find at revision 0009 and leave.
MigratedInv ==
  /\ TypeOK
  /\ OneActiveCycle
  /\ NoDoubleExecution
  /\ \A w \in WorkflowIds : StoryOf(w) /\ AttemptsOf(w)
  /\ \A r \in RunIds : HomeOf(r)

\* What the migrations find and leave at revision 0008.
LegacyInv ==
  /\ oldRun \in [RunIds -> OldRunRows \cup {NoOldRun}]
  /\ oldApproval \in [WorkflowIds -> OldApprovalRows \cup {NoOldApproval}]
  /\ oldMutation \in [WorkflowIds -> OldMutationRows \cup {NoOldMutation}]
  /\ \A p \in WorkflowIds :
       oldApproval[p].run # None =>
         oldRun[oldApproval[p].run].ticket = oldApproval[p].ticket

OutcomeInv ==
  /\ outcome \in [RunIds -> Outcomes \cup {None}]
  /\ \A r \in RunIds :
       outcome[r] # None => oldRun[r].ticket # None \/ run[r].status # Absent

\* The strengthened invariant: the tables of the other revision are empty.
BackfillInv ==
  /\ MigratedInv /\ LegacyInv /\ OutcomeInv
  /\ \/ revision = "0008" /\ Empty
     \/ revision = "0009" /\ OldTablesEmpty

-----------------------------------------------------------------------------
(* The commands on a migrated database, one lemma per command.             *)

\* A run that may end is the only running one of an investigating cycle.
LEMMA RunningAlone ==
  ASSUME MigratedInv, NEW r \in RunIds,
         NEW to \in {"completed_no_action", "awaiting_approval", "needs_retry", "failed"},
         MayEnd(r, to)
  PROVE  /\ run[r].status = "running" /\ run[r].workflow \in WorkflowIds
         /\ workflow[run[r].workflow].status = "investigating"
         /\ workflow[run[r].workflow].ticket = run[r].ticket
         /\ run[r].ticket \in Tickets
         /\ CanTransition("investigating", to)
         /\ \A q \in RunIds :
              run[q].status = "running" /\ run[q].workflow = run[r].workflow => q = r
<1> DEFINE w == run[r].workflow
<1>1. run[r].status = "running" /\ CanTransition(workflow[w].status, to)
  BY DEF MayEnd
<1>2. /\ w \in WorkflowIds /\ workflow[w].status # Absent
      /\ workflow[w].ticket = run[r].ticket /\ workflow[w].ticket \in Tickets
  BY <1>1 DEF MigratedInv, HomeOf, StoryOf, Absent
<1>3. workflow[w].status # "needs_retry"
  BY <1>1, <1>2 DEF MigratedInv, AttemptsOf
<1>4. workflow[w].status = "investigating"
  BY <1>1, <1>2, <1>3 DEF CanTransition, ActiveStatuses, WorkflowTransitions, InitialStatus
<1> QED BY <1>1, <1>2, <1>4 DEF MigratedInv, AttemptsOf

\* finalize_run without a payload and fail_run.
LEMMA EndedAttempt ==
  ASSUME MigratedInv, NEW r \in RunIds,
         NEW to \in {"completed_no_action", "needs_retry", "failed"},
         NEW ended \in {"completed", "failed"},
         MayEnd(r, to),
         Move(run[r].workflow, workflow[run[r].workflow], to),
         run' = [run EXCEPT ![r].status = ended],
         approval' = approval, mutation' = mutation
  PROVE  MigratedInv'
<1> DEFINE w == run[r].workflow
<1>1. /\ run[r].status = "running" /\ w \in WorkflowIds
      /\ workflow[w].status = "investigating"
      /\ CanTransition(workflow[w].status, to)
      /\ \A q \in RunIds : run[q].status = "running" /\ run[q].workflow = w => q = r
  BY RunningAlone
<1>2. TypeOK /\ OneActiveCycle /\ NoDoubleExecution
  BY DEF MigratedInv
<1>3. /\ to \in WorkflowStatuses /\ workflow[w].status # Absent
      /\ Move(w, workflow[w], to)
  BY <1>1 DEF WorkflowStatuses, Absent
<1> HIDE DEF w
<1>4. /\ workflow' \in [WorkflowIds -> WorkflowRows]
      /\ ledger' \in [WorkflowIds -> SUBSET LedgerRows]
      /\ workflow'[w].ticket = workflow[w].ticket
      /\ workflow'[w].status = to /\ to # Absent
      /\ \A v \in WorkflowIds \ {w} : workflow'[v] = workflow[v]
  BY <1>1, <1>2, <1>3, MoveEffect
<1>5. /\ OneActiveCycle'
      /\ \A v \in WorkflowIds : workflow'[v].ticket = workflow[v].ticket
  BY <1>1, <1>2, <1>3, MoveKeepsCycles
<1>6. /\ run' \in [RunIds -> RunRows]
      /\ run'[r].status = ended /\ run'[r].workflow = w
      /\ run'[r].ticket = run[r].ticket
      /\ \A q \in RunIds \ {r} : run'[q] = run[q]
      /\ \A q \in RunIds : run'[q].workflow = run[q].workflow
  BY <1>2 DEF TypeOK, RunRows, RunStatuses, w
<1>7. TypeOK'
  BY <1>2, <1>4, <1>6 DEF TypeOK
<1>8. NoDoubleExecution'
  BY <1>2, <1>5, NothingExecuted
<1>9. ASSUME NEW v \in WorkflowIds PROVE StoryOf(v)'
  <2>1. StoryOf(v)
    BY DEF MigratedInv
  <2>2. approval[v].run # None => approval[v].run \in RunIds
    BY <1>2 DEF TypeOK, ApprovalRows
  <2>3. v # w => workflow'[v] = workflow[v]
    BY <1>4
  <2> QED BY <1>1, <1>3, <1>4, <1>5, <1>6, <2>1, <2>2, <2>3 DEF StoryOf
<1>10. ASSUME NEW v \in WorkflowIds PROVE AttemptsOf(v)'
  <2>1. AttemptsOf(v)
    BY DEF MigratedInv
  <2> QED BY <1>1, <1>4, <1>6, <2>1 DEF AttemptsOf
<1>11. ASSUME NEW q \in RunIds PROVE HomeOf(q)'
  <2>1. HomeOf(q)
    BY DEF MigratedInv
  <2> QED BY <1>1, <1>4, <1>5, <1>6, <2>1 DEF HomeOf, Absent
<1> QED BY <1>5, <1>7, <1>8, <1>9, <1>10, <1>11 DEF MigratedInv

\* finalize_run with a payload: the action is not executed yet.
LEMMA ProposedAttempt ==
  ASSUME MigratedInv, NEW r \in RunIds, NEW a \in Actions, FinalizeForApproval(r, a)
  PROVE  MigratedInv'
<1> USE NoneAssumption
<1> DEFINE w == run[r].workflow
           to == "awaiting_approval"
<1>1. MayEnd(r, to)
  BY DEF FinalizeForApproval
<1>2. /\ run[r].status = "running" /\ w \in WorkflowIds
      /\ workflow[w].status = "investigating"
      /\ workflow[w].ticket = run[r].ticket
      /\ CanTransition(workflow[w].status, to)
      /\ \A q \in RunIds : run[q].status = "running" /\ run[q].workflow = w => q = r
  BY <1>1, RunningAlone
<1>3. TypeOK /\ OneActiveCycle /\ NoDoubleExecution
  BY DEF MigratedInv
<1>4. /\ to \in WorkflowStatuses /\ workflow[w].status # Absent
      /\ Move(w, workflow[w], to)
  BY <1>2 DEF WorkflowStatuses, Absent, FinalizeForApproval, WriteProposal
<1>5. /\ run' = [run EXCEPT ![r].status = "completed"]
      /\ approval[w].status = Absent /\ ~IsExecuted(run[r].ticket, a)
      /\ approval' = [approval EXCEPT
           ![w] = [status |-> "pending", action |-> a, run |-> r, decider |-> None]]
      /\ mutation' = mutation
  BY DEF FinalizeForApproval, WriteProposal
<1> HIDE DEF w
<1>6. /\ workflow' \in [WorkflowIds -> WorkflowRows]
      /\ ledger' \in [WorkflowIds -> SUBSET LedgerRows]
      /\ workflow'[w].status = to
      /\ \A v \in WorkflowIds \ {w} : workflow'[v] = workflow[v]
  BY <1>2, <1>3, <1>4, MoveEffect
<1>7. /\ OneActiveCycle'
      /\ \A v \in WorkflowIds : workflow'[v].ticket = workflow[v].ticket
  BY <1>2, <1>3, <1>4, MoveKeepsCycles
<1>8. /\ run' \in [RunIds -> RunRows]
      /\ run'[r].status = "completed"
      /\ run'[r].ticket = run[r].ticket
      /\ \A q \in RunIds \ {r} : run'[q] = run[q]
      /\ \A q \in RunIds : run'[q].workflow = run[q].workflow
  BY <1>3, <1>5 DEF TypeOK, RunRows, RunStatuses
<1>9. /\ approval' \in [WorkflowIds -> ApprovalRows]
      /\ approval'[w].status = "pending" /\ approval'[w].action = a
      /\ approval'[w].run = r
      /\ \A v \in WorkflowIds \ {w} : approval'[v] = approval[v]
  BY <1>2, <1>3, <1>5 DEF TypeOK, ApprovalRows, ApprovalStatuses
<1>10. TypeOK'
  BY <1>3, <1>5, <1>6, <1>8, <1>9 DEF TypeOK
<1>11. NoDoubleExecution'
  BY <1>2, <1>3, <1>5, <1>7, <1>9 DEF NoDoubleExecution, IsExecuted
<1>12. ASSUME NEW v \in WorkflowIds PROVE StoryOf(v)'
  <2>1. StoryOf(v)
    BY DEF MigratedInv
  <2>2. approval[v].run # None => approval[v].run \in RunIds
    BY <1>3 DEF TypeOK, ApprovalRows
  <2>3. CASE v # w
    BY <1>5, <1>6, <1>8, <1>9, <2>1, <2>2, <2>3 DEF StoryOf
  <2>4. CASE v = w
    BY <1>2, <1>5, <1>6, <1>7, <1>8, <1>9, <2>1, <2>4 DEF StoryOf, Absent, w
  <2> QED BY <2>3, <2>4
<1>13. ASSUME NEW v \in WorkflowIds PROVE AttemptsOf(v)'
  <2>1. AttemptsOf(v)
    BY DEF MigratedInv
  <2> QED BY <1>2, <1>6, <1>8, <2>1 DEF AttemptsOf, w
<1>14. ASSUME NEW q \in RunIds PROVE HomeOf(q)'
  <2>1. HomeOf(q)
    BY DEF MigratedInv
  <2> QED BY <1>2, <1>6, <1>7, <1>8, <2>1 DEF HomeOf, Absent, w
<1> QED BY <1>7, <1>10, <1>11, <1>12, <1>13, <1>14 DEF MigratedInv

\* start_or_replay_run on a ticket without an active cycle.
LEMMA NewCycle ==
  ASSUME MigratedInv, NEW t \in Tickets, NEW k \in Keys,
         NEW w \in WorkflowIds, NEW r \in RunIds, StartCycle(t, k, w, r)
  PROVE  MigratedInv'
<1> USE NoneAssumption
<1>1. TypeOK /\ OneActiveCycle /\ NoDoubleExecution
  BY DEF MigratedInv
<1>2. /\ TypeOK' /\ OneActiveCycle'
      /\ workflow[w].status = Absent /\ run[r].status = Absent
      /\ workflow'[w].ticket = t
      /\ workflow'[w].status = "investigating"
      /\ \A v \in WorkflowIds \ {w} : workflow'[v] = workflow[v]
      /\ run'[r] = [ticket |-> t, key |-> k, workflow |-> w, status |-> "running"]
      /\ \A q \in RunIds \ {r} : run'[q] = run[q]
      /\ approval' = approval /\ mutation' = mutation
  BY <1>1, StartCycleEffect
<1>3. approval[w] = NoApproval /\ mutation[w] = None
  BY <1>2 DEF MigratedInv, StoryOf, Absent
<1>4. \A q \in RunIds \ {r} : run[q].workflow # w
  BY <1>2 DEF MigratedInv, HomeOf, NoRun
<1>5. NoDoubleExecution'
  BY <1>1, <1>2, <1>3 DEF NoDoubleExecution, IsExecuted, NoApproval, Absent
<1>6. ASSUME NEW v \in WorkflowIds PROVE StoryOf(v)'
  <2>1. StoryOf(v)
    BY DEF MigratedInv
  <2>2. approval[v].run # None => approval[v].run \in RunIds \ {r}
    <3>1. run[r].workflow = None
      BY <1>2 DEF MigratedInv, HomeOf, NoRun
    <3> QED BY <1>1, <2>1, <3>1 DEF TypeOK, ApprovalRows, StoryOf
  <2>3. CASE v # w
    BY <1>2, <2>1, <2>2, <2>3 DEF StoryOf
  <2>4. CASE v = w
    BY <1>2, <1>3, <2>4 DEF StoryOf, NoApproval, Absent
  <2> QED BY <2>3, <2>4
<1>7. ASSUME NEW v \in WorkflowIds PROVE AttemptsOf(v)'
  <2>1. AttemptsOf(v)
    BY DEF MigratedInv
  <2>2. CASE v = w
    BY <1>2, <1>4, <2>2 DEF AttemptsOf
  <2>3. CASE v # w
    BY <1>2, <2>1, <2>3 DEF AttemptsOf, Absent
  <2> QED BY <2>2, <2>3
<1>8. ASSUME NEW q \in RunIds PROVE HomeOf(q)'
  <2>1. HomeOf(q)
    BY DEF MigratedInv
  <2> QED BY <1>2, <1>4, <2>1 DEF HomeOf, Absent
<1> QED BY <1>2, <1>5, <1>6, <1>7, <1>8 DEF MigratedInv

\* start_or_replay_run on a cycle that needs a retry: no other run of it is running.
LEMMA NewAttempt ==
  ASSUME MigratedInv, NEW t \in Tickets, NEW k \in Keys,
         NEW w \in WorkflowIds, NEW r \in RunIds, StartRetry(t, k, w, r)
  PROVE  MigratedInv'
<1> USE NoneAssumption
<1> DEFINE to == "investigating"
<1>1. TypeOK /\ OneActiveCycle /\ NoDoubleExecution
  BY DEF MigratedInv
<1>2. /\ workflow[w].status = "needs_retry" /\ workflow[w].ticket = t
      /\ workflow[w].status # Absent
      /\ CanTransition(workflow[w].status, to)
      /\ Move(w, workflow[w], to) /\ to \in WorkflowStatuses
      /\ run[r].status = Absent
      /\ run' = [run EXCEPT ![r] = NewRun(t, k, w)]
      /\ approval' = approval /\ mutation' = mutation
  BY TransitionTable DEF StartRetry, InsertRetry, WorkflowsOf, RunExists, WorkflowStatuses, Absent
<1>3. /\ workflow' \in [WorkflowIds -> WorkflowRows]
      /\ ledger' \in [WorkflowIds -> SUBSET LedgerRows]
      /\ workflow'[w].status = to
      /\ \A v \in WorkflowIds \ {w} : workflow'[v] = workflow[v]
  BY <1>1, <1>2, MoveEffect
<1>4. /\ OneActiveCycle'
      /\ \A v \in WorkflowIds : workflow'[v].ticket = workflow[v].ticket
  BY <1>1, <1>2, MoveKeepsCycles
<1>5. /\ run' \in [RunIds -> RunRows]
      /\ run'[r].status = "running" /\ run'[r].workflow = w /\ run'[r].ticket = t
      /\ \A q \in RunIds \ {r} : run'[q] = run[q]
  BY <1>1, <1>2 DEF TypeOK, NewRun, RunRows, RunStatuses
<1>6. TypeOK'
  BY <1>1, <1>2, <1>3, <1>5 DEF TypeOK
<1>7. NoDoubleExecution'
  BY <1>1, <1>2, <1>4, NothingExecuted
<1>8. ASSUME NEW v \in WorkflowIds PROVE StoryOf(v)'
  <2>1. StoryOf(v)
    BY DEF MigratedInv
  <2>2. approval[v].run # None => approval[v].run \in RunIds \ {r}
    <3>1. run[r].workflow = None
      BY <1>2 DEF MigratedInv, HomeOf, NoRun
    <3> QED BY <1>1, <2>1, <3>1 DEF TypeOK, ApprovalRows, StoryOf
  <2>3. CASE v # w
    BY <1>2, <1>3, <1>5, <2>1, <2>2, <2>3 DEF StoryOf
  <2>4. CASE v = w
    BY <1>2, <1>3, <1>4, <1>5, <2>1, <2>2, <2>4 DEF StoryOf, Absent
  <2> QED BY <2>3, <2>4
<1>9. ASSUME NEW v \in WorkflowIds PROVE AttemptsOf(v)'
  <2>1. AttemptsOf(v)
    BY DEF MigratedInv
  <2>2. CASE v = w
    BY <1>2, <1>3, <1>5, <2>1, <2>2 DEF AttemptsOf
  <2>3. CASE v # w
    BY <1>2, <1>3, <1>5, <2>1, <2>3 DEF AttemptsOf, Absent
  <2> QED BY <2>2, <2>3
<1>10. ASSUME NEW q \in RunIds PROVE HomeOf(q)'
  <2>1. HomeOf(q)
    BY DEF MigratedInv
  <2>2. CASE q = r
    BY <1>2, <1>3, <1>4, <1>5, <2>2 DEF HomeOf, Absent
  <2>3. CASE q # r
    BY <1>2, <1>3, <1>4, <1>5, <2>1, <2>3 DEF HomeOf, Absent
  <2> QED BY <2>2, <2>3
<1> QED BY <1>4, <1>6, <1>7, <1>8, <1>9, <1>10 DEF MigratedInv

\* cancel_workflow also settles runs that the migration left running.
LEMMA CancelledCycle ==
  ASSUME MigratedInv, NEW w \in WorkflowIds, NEW role \in Roles, CancelWorkflow(w, role)
  PROVE  MigratedInv'
<1> USE NoneAssumption
<1> DEFINE to == "cancelled"
<1>1. TypeOK /\ OneActiveCycle /\ NoDoubleExecution
  BY DEF MigratedInv
<1>2. /\ Move(w, workflow[w], to)
      /\ workflow[w].status \in ActiveStatuses
      /\ IF approval[w].status = "pending"
         THEN /\ approval'[w].status = "withdrawn"
              /\ approval'[w].action = approval[w].action
              /\ approval'[w].run = approval[w].run
         ELSE approval'[w] = approval[w]
      /\ \A v \in WorkflowIds \ {w} : approval'[v] = approval[v]
      /\ \A q \in RunIds :
           /\ IF run[q].workflow = w /\ run[q].status = "running"
              THEN run'[q].status = "cancelled"
              ELSE run'[q] = run[q]
           /\ run'[q].workflow = run[q].workflow
           /\ run'[q].ticket = run[q].ticket
      /\ mutation' = mutation
      /\ run' \in [RunIds -> RunRows]
      /\ approval' \in [WorkflowIds -> ApprovalRows]
  BY <1>1, CancelEffect
<1>3. /\ workflow[w].status # Absent /\ to \in WorkflowStatuses
      /\ CanTransition(workflow[w].status, to)
  BY <1>1, <1>2, TransitionTable
     DEF TypeOK, WorkflowRows, ActiveStatuses, WorkflowStatuses, Absent
<1>4. /\ workflow' \in [WorkflowIds -> WorkflowRows]
      /\ ledger' \in [WorkflowIds -> SUBSET LedgerRows]
      /\ workflow'[w].status = to
      /\ \A v \in WorkflowIds \ {w} : workflow'[v] = workflow[v]
  BY <1>1, <1>2, <1>3, MoveEffect
<1>5. /\ OneActiveCycle'
      /\ \A v \in WorkflowIds : workflow'[v].ticket = workflow[v].ticket
  BY <1>1, <1>2, <1>3, MoveKeepsCycles
<1>6. TypeOK'
  BY <1>1, <1>2, <1>4 DEF TypeOK
<1>7. NoDoubleExecution'
  BY <1>1, <1>2, <1>5, NothingExecuted
<1>8. ASSUME NEW v \in WorkflowIds PROVE StoryOf(v)'
  <2>1. StoryOf(v)
    BY DEF MigratedInv
  <2>2. approval[v].run # None => approval[v].run \in RunIds
    BY <1>1 DEF TypeOK, ApprovalRows
  <2>3. CASE v # w
    BY <1>2, <1>4, <2>1, <2>2, <2>3 DEF StoryOf
  <2>4. CASE v = w
    BY <1>2, <1>3, <1>4, <1>5, <2>1, <2>2, <2>4 DEF StoryOf, ActiveStatuses, Absent
  <2> QED BY <2>3, <2>4
<1>9. ASSUME NEW v \in WorkflowIds PROVE AttemptsOf(v)'
  <2>1. AttemptsOf(v)
    BY DEF MigratedInv
  <2>2. CASE v = w
    BY <1>4, <2>2 DEF AttemptsOf
  <2>3. CASE v # w
    BY <1>2, <1>4, <2>1, <2>3 DEF AttemptsOf
  <2> QED BY <2>2, <2>3
<1>10. ASSUME NEW q \in RunIds PROVE HomeOf(q)'
  <2>1. HomeOf(q)
    BY DEF MigratedInv
  <2>2. run'[q].status = Absent => run'[q] = run[q]
    BY <1>2 DEF Absent
  <2>3. \A v \in WorkflowIds : workflow[v].status # Absent => workflow'[v].status # Absent
    BY <1>4 DEF Absent
  <2>4. run[q].status = Absent => run'[q] = run[q]
    BY <1>2 DEF Absent
  <2> QED BY <1>2, <1>5, <2>1, <2>2, <2>3, <2>4 DEF HomeOf
<1> QED BY <1>5, <1>6, <1>7, <1>8, <1>9, <1>10 DEF MigratedInv

\* What approve_and_execute and reject_approval have in common.
LEMMA DecidedCycle ==
  ASSUME MigratedInv, NEW w \in WorkflowIds, NEW role \in Roles,
         NEW to \in {"mock_executed", "rejected"}, NEW decided \in {"approved", "rejected"},
         to = "mock_executed" <=> decided = "approved",
         approval[w].status = "pending",
         Move(w, workflow[w], to), run' = run,
         approval'[w].status = decided,
         approval'[w].action = approval[w].action,
         approval'[w].run = approval[w].run,
         \A v \in WorkflowIds \ {w} : approval'[v] = approval[v],
         approval' \in [WorkflowIds -> ApprovalRows],
         mutation' = IF decided = "approved"
                     THEN [mutation EXCEPT ![w] = approval[w].action] ELSE mutation,
         NoDoubleExecution'
  PROVE  MigratedInv'
<1> USE NoneAssumption
<1>1. TypeOK /\ OneActiveCycle
  BY DEF MigratedInv
<1>2. workflow[w].status = "awaiting_approval"
  BY DEF MigratedInv, StoryOf
<1>3. /\ workflow[w].status # Absent /\ to \in WorkflowStatuses
      /\ CanTransition(workflow[w].status, to)
  BY <1>2, TransitionTable DEF WorkflowStatuses, Absent
<1>4. /\ workflow' \in [WorkflowIds -> WorkflowRows]
      /\ ledger' \in [WorkflowIds -> SUBSET LedgerRows]
      /\ workflow'[w].status = to
      /\ \A v \in WorkflowIds \ {w} : workflow'[v] = workflow[v]
  BY <1>1, <1>3, MoveEffect
<1>5. /\ OneActiveCycle'
      /\ \A v \in WorkflowIds : workflow'[v].ticket = workflow[v].ticket
  BY <1>1, <1>3, MoveKeepsCycles
<1>6. approval[w].action \in Actions /\ mutation[w] = None
  BY <1>1 DEF MigratedInv, StoryOf, TypeOK, ApprovalRows, Absent
<1>7. /\ mutation' \in [WorkflowIds -> Actions \cup {None}]
      /\ mutation'[w] = IF decided = "approved" THEN approval[w].action ELSE None
      /\ \A v \in WorkflowIds \ {w} : mutation'[v] = mutation[v]
  BY <1>1, <1>6 DEF TypeOK
<1>8. TypeOK'
  BY <1>1, <1>4, <1>7 DEF TypeOK
<1>9. ASSUME NEW v \in WorkflowIds PROVE StoryOf(v)'
  <2>1. StoryOf(v)
    BY DEF MigratedInv
  <2>2. CASE v # w
    BY <1>4, <1>7, <2>1, <2>2 DEF StoryOf
  <2>3. CASE v = w
    BY <1>2, <1>3, <1>4, <1>5, <1>6, <1>7, <2>1, <2>3 DEF StoryOf, Absent
  <2> QED BY <2>2, <2>3
<1>10. ASSUME NEW v \in WorkflowIds PROVE AttemptsOf(v)'
  <2>1. AttemptsOf(v)
    BY DEF MigratedInv
  <2> QED BY <1>4, <2>1 DEF AttemptsOf
<1>11. ASSUME NEW q \in RunIds PROVE HomeOf(q)'
  <2>1. HomeOf(q)
    BY DEF MigratedInv
  <2> QED BY <1>3, <1>4, <1>5, <2>1 DEF HomeOf, Absent
<1> QED BY <1>5, <1>8, <1>9, <1>10, <1>11 DEF MigratedInv

\* approve_and_execute: the ticket has no other pending request, and the action
\* was not executed before.
LEMMA ExecutedCycle ==
  ASSUME MigratedInv, NEW w \in WorkflowIds, NEW role \in Roles, ApproveAndExecute(w, role)
  PROVE  MigratedInv'
<1> USE NoneAssumption
<1> DEFINE decided == [approval[w] EXCEPT !.status = "approved", !.decider = role]
<1>1. TypeOK /\ OneActiveCycle /\ NoDoubleExecution
  BY DEF MigratedInv
<1>2. /\ approval[w].status = "pending" /\ workflow[w].status = "awaiting_approval"
      /\ ~IsExecuted(workflow[w].ticket, approval[w].action)
      /\ Move(w, workflow[w], "mock_executed")
      /\ approval' = [approval EXCEPT ![w] = decided]
      /\ mutation' = [mutation EXCEPT ![w] = approval[w].action]
      /\ run' = run
  BY DEF ApproveAndExecute, WriteExecution
<1>3. /\ decided \in ApprovalRows /\ decided.status = "approved"
      /\ decided.action = approval[w].action /\ decided.run = approval[w].run
  <2> DEFINE approved == [approval[w] EXCEPT !.status = "approved"]
  <2>1. approved \in ApprovalRows
    BY <1>1 DEF TypeOK, ApprovalRows, ApprovalStatuses
  <2>2. [approved EXCEPT !.decider = role] \in ApprovalRows
    <3> HIDE DEF approved
    <3> QED BY <2>1 DEF ApprovalRows
  <2> QED BY <1>1, <2>2 DEF TypeOK, ApprovalRows
<1> HIDE DEF decided
<1>4. /\ approval'[w].status = "approved"
      /\ approval'[w].action = approval[w].action
      /\ approval'[w].run = approval[w].run
      /\ \A v \in WorkflowIds \ {w} : approval'[v] = approval[v]
      /\ approval' \in [WorkflowIds -> ApprovalRows]
  BY <1>1, <1>2, <1>3 DEF TypeOK
<1>5. approval[w].action # None
  BY <1>2 DEF MigratedInv, StoryOf, Absent
<1>6. /\ mutation'[w] = approval[w].action
      /\ \A v \in WorkflowIds \ {w} : mutation'[v] = mutation[v]
      /\ \A v \in WorkflowIds : workflow'[v].ticket = workflow[v].ticket
  <2>1. /\ workflow[w].status # Absent /\ "mock_executed" \in WorkflowStatuses
        /\ CanTransition(workflow[w].status, "mock_executed")
    BY <1>2, TransitionTable DEF WorkflowStatuses, Absent
  <2> QED BY <1>1, <1>2, <2>1, MoveKeepsCycles DEF TypeOK
<1>7. NoDoubleExecution'
  <2>1. ASSUME NEW v \in WorkflowIds, v # w, approval[v].status = "pending"
        PROVE  workflow[v].ticket # workflow[w].ticket
    <3>1. workflow[v].status = "awaiting_approval"
      BY <2>1 DEF MigratedInv, StoryOf
    <3>2. Active(v) /\ Active(w)
      BY <1>2, <3>1 DEF Active, ActiveStatuses
    <3> QED BY <1>1, <2>1, <3>2, OneActive
  <2> QED BY <1>1, <1>2, <1>4, <1>5, <1>6, <2>1 DEF NoDoubleExecution, IsExecuted
<1> QED BY <1>2, <1>4, <1>7, DecidedCycle

\* reject_approval.
LEMMA RejectedCycle ==
  ASSUME MigratedInv, NEW w \in WorkflowIds, NEW role \in Roles, RejectApproval(w, role)
  PROVE  MigratedInv'
<1> USE NoneAssumption
<1> DEFINE decided == [approval[w] EXCEPT !.status = "rejected", !.decider = role]
<1>1. TypeOK /\ OneActiveCycle /\ NoDoubleExecution
  BY DEF MigratedInv
<1>2. /\ approval[w].status = "pending" /\ workflow[w].status = "awaiting_approval"
      /\ Move(w, workflow[w], "rejected")
      /\ approval' = [approval EXCEPT ![w] = decided]
      /\ mutation' = mutation
      /\ run' = run
  BY DEF RejectApproval, WriteRejection
<1>3. /\ decided \in ApprovalRows /\ decided.status = "rejected"
      /\ decided.action = approval[w].action /\ decided.run = approval[w].run
  <2> DEFINE rejected == [approval[w] EXCEPT !.status = "rejected"]
  <2>1. rejected \in ApprovalRows
    BY <1>1 DEF TypeOK, ApprovalRows, ApprovalStatuses
  <2>2. [rejected EXCEPT !.decider = role] \in ApprovalRows
    <3> HIDE DEF rejected
    <3> QED BY <2>1 DEF ApprovalRows
  <2> QED BY <1>1, <2>2 DEF TypeOK, ApprovalRows
<1> HIDE DEF decided
<1>4. /\ approval'[w].status = "rejected"
      /\ approval'[w].action = approval[w].action
      /\ approval'[w].run = approval[w].run
      /\ \A v \in WorkflowIds \ {w} : approval'[v] = approval[v]
      /\ approval' \in [WorkflowIds -> ApprovalRows]
  BY <1>1, <1>2, <1>3 DEF TypeOK
<1>5. \A v \in WorkflowIds : workflow'[v].ticket = workflow[v].ticket
  <2>1. /\ workflow[w].status # Absent /\ "rejected" \in WorkflowStatuses
        /\ CanTransition(workflow[w].status, "rejected")
    BY <1>2, TransitionTable DEF WorkflowStatuses, Absent
  <2> QED BY <1>1, <1>2, <2>1, MoveKeepsCycles
<1>6. NoDoubleExecution'
  BY <1>1, <1>2, <1>4, <1>5, NothingExecuted
<1> QED BY <1>2, <1>4, <1>6, DecidedCycle

\* A reset takes a ticket's cycles away with what hangs on them.
LEMMA ForgottenCycles ==
  ASSUME MigratedInv, NEW t \in Tickets, ResetTicket(t)
  PROVE  MigratedInv'
<1> USE NoneAssumption
<1>1. TypeOK /\ OneActiveCycle /\ NoDoubleExecution
  BY DEF MigratedInv
<1>2. \A v \in WorkflowIds :
        IF Exists(v) /\ workflow[v].ticket = t
        THEN /\ workflow'[v] = NoWorkflow
             /\ approval'[v] = NoApproval /\ mutation'[v] = None
        ELSE /\ workflow'[v] = workflow[v]
             /\ approval'[v] = approval[v] /\ mutation'[v] = mutation[v]
  BY ResetEffect
<1>3. \A q \in RunIds :
        IF RunExists(q) /\ run[q].ticket = t
        THEN run'[q] = NoRun ELSE run'[q] = run[q]
  BY ResetEffect
<1>4. TypeOK' /\ OneActiveCycle'
  BY <1>1, ResetKeepsCycles
<1>5. NoDoubleExecution'
  BY <1>1, <1>2 DEF NoDoubleExecution, IsExecuted, NoApproval
<1>6. ASSUME NEW v \in WorkflowIds PROVE StoryOf(v)'
  <2>1. StoryOf(v)
    BY DEF MigratedInv
  <2>2. CASE Exists(v) /\ workflow[v].ticket = t
    BY <1>2, <2>2 DEF StoryOf, NoApproval, NoWorkflow, Absent
  <2>3. CASE ~(Exists(v) /\ workflow[v].ticket = t)
    <3>1. workflow'[v] = workflow[v] /\ approval'[v] = approval[v] /\ mutation'[v] = mutation[v]
      BY <1>2, <2>3
    <3>2. approval[v].run # None => run'[approval[v].run] = run[approval[v].run]
      <4> SUFFICES ASSUME approval[v].run # None
                   PROVE  run'[approval[v].run] = run[approval[v].run]
        OBVIOUS
      <4> DEFINE q == approval[v].run
      <4>1. q \in RunIds /\ run[q].workflow = v
        BY <1>1, <2>1 DEF TypeOK, ApprovalRows, StoryOf
      <4>2. ~(RunExists(q) /\ run[q].ticket = t)
        BY <2>3, <4>1 DEF MigratedInv, HomeOf, RunExists, Exists
      <4> QED BY <1>3, <4>1, <4>2
    <3> QED BY <2>1, <3>1, <3>2 DEF StoryOf
  <2> QED BY <2>2, <2>3
<1>7. ASSUME NEW v \in WorkflowIds PROVE AttemptsOf(v)'
  <2>1. AttemptsOf(v)
    BY DEF MigratedInv
  <2>2. CASE Exists(v) /\ workflow[v].ticket = t
    BY <1>2, <2>2 DEF AttemptsOf, NoWorkflow, Absent
  <2>3. CASE ~(Exists(v) /\ workflow[v].ticket = t)
    <3>1. workflow'[v] = workflow[v]
      BY <1>2, <2>3
    <3>2. \A q \in RunIds : run[q].status = "running" /\ run[q].workflow = v => run'[q] = run[q]
      BY <1>3, <2>3 DEF MigratedInv, HomeOf, RunExists, Exists, Absent
    <3>3. \A q \in RunIds : run'[q].status = "running" => run'[q] = run[q]
      BY <1>3 DEF NoRun, Absent
    <3> QED BY <2>1, <3>1, <3>2, <3>3 DEF AttemptsOf
  <2> QED BY <2>2, <2>3
<1>8. ASSUME NEW q \in RunIds PROVE HomeOf(q)'
  <2>1. HomeOf(q)
    BY DEF MigratedInv
  <2> QED BY <1>2, <1>3, <2>1 DEF HomeOf, RunExists, NoRun, Absent
<1> QED BY <1>4, <1>5, <1>6, <1>7, <1>8 DEF MigratedInv

\* Every command keeps what holds of a migrated database.
LEMMA CommandsKeepMigrated ==
  ASSUME MigratedInv, Next
  PROVE  MigratedInv'
<1>1. CASE \E t \in Tickets, k \in Keys, w \in WorkflowIds, r \in RunIds :
             StartCycle(t, k, w, r) \/ StartRetry(t, k, w, r)
  BY <1>1, NewCycle, NewAttempt
<1>2. CASE \E r \in RunIds : FinalizeNoAction(r)
  BY <1>2, EndedAttempt DEF FinalizeNoAction, WriteNoAction
<1>3. CASE \E r \in RunIds, a \in Actions : FinalizeForApproval(r, a)
  BY <1>3, ProposedAttempt
<1>4. CASE \E r \in RunIds, recoverable \in BOOLEAN : FailRun(r, recoverable)
  <2>1. PICK r \in RunIds, recoverable \in BOOLEAN : FailRun(r, recoverable)
    BY <1>4
  <2>2. FailTarget(recoverable) \in {"needs_retry", "failed"}
    BY DEF FailTarget
  <2> QED BY <2>1, <2>2, EndedAttempt DEF FailRun, WriteFailure
<1>5. CASE \E w \in WorkflowIds, role \in Roles : CancelWorkflow(w, role)
  BY <1>5, CancelledCycle
<1>6. CASE \E w \in WorkflowIds, role \in Roles : ApproveAndExecute(w, role)
  BY <1>6, ExecutedCycle
<1>7. CASE \E w \in WorkflowIds, role \in Roles : RejectApproval(w, role)
  BY <1>7, RejectedCycle
<1>8. CASE \E t \in Tickets : ResetTicket(t)
  BY <1>8, ForgottenCycles
<1> QED BY <1>1, <1>2, <1>3, <1>4, <1>5, <1>6, <1>7, <1>8 DEF Next

-----------------------------------------------------------------------------
(* What passes the preflight, and what the backfill makes of it.           *)

\* The check of 0008 admits no withdrawn request.
LEMMA OldApprovalColumns ==
  ASSUME NEW p \in OldApprovalRows
  PROVE  /\ p.ticket \in Tickets /\ p.action \in Actions /\ p.run \in RunIds \cup {None}
         /\ p.status \in {"pending", "approved", "rejected"}
         /\ p.decider \in Roles \cup {None}
BY DEF OldApprovalRows, OldAuditShape

\* A ticket that passes has at most one approval and one mutation, and a
\* mutation exactly if its approval was given, for the approved action.
LEMMA PreflightFindsOneStory ==
  ASSUME LegacyInv, ~Contradictory, NEW t \in Tickets
  PROVE  /\ \A p, q \in OldApprovalsOf(t) : p = q
         /\ \A m, n \in OldMutationsOf(t) : m = n
         /\ \A m \in OldMutationsOf(t) :
              /\ oldMutation[m].executed
              /\ \E p \in OldApprovalsOf(t) : /\ oldApproval[p].status = "approved"
                                              /\ oldApproval[p].action = oldMutation[m].action
         /\ \A p \in OldApprovalsOf(t) :
              oldApproval[p].status = "approved" => OldMutationsOf(t) # {}
<1> USE NoneAssumption
<1>1. /\ ~ApprovedWithoutMutation /\ ~MutationWithoutConsent /\ ~AuditFieldsDisagree
      /\ ~MutationWithoutApproval /\ ~SeveralCandidates
  BY DEF Contradictory
<1>2. \A p, q \in OldApprovalsOf(t) : p = q
  BY <1>1 DEF SeveralCandidates
<1>3. \A m, n \in OldMutationsOf(t) : m = n
  BY <1>1 DEF SeveralCandidates
<1>4. ASSUME NEW m \in OldMutationsOf(t)
      PROVE  /\ oldMutation[m].executed
             /\ \E p \in OldApprovalsOf(t) : /\ oldApproval[p].status = "approved"
                                             /\ oldApproval[p].action = oldMutation[m].action
  <2> DEFINE p == oldMutation[m].approval
  <2>1. m \in WorkflowIds /\ oldMutation[m].ticket = t
    BY DEF OldMutationsOf
  <2>2. p \in WorkflowIds /\ p # None
    BY <1>1, <2>1 DEF MutationWithoutApproval, LegacyInv, OldMutationRows, NoOldMutation
  <2>3. oldApproval[p].status = "approved"
    BY <1>1, <2>1, <2>2 DEF MutationWithoutConsent
  <2>4. /\ oldMutation[m].executed
        /\ oldMutation[m].ticket = oldApproval[p].ticket
        /\ oldMutation[m].action = oldApproval[p].action
    BY <1>1, <2>1, <2>2, <2>3 DEF AuditFieldsDisagree
  <2> QED BY <2>1, <2>2, <2>3, <2>4 DEF OldApprovalsOf
<1>5. ASSUME NEW p \in OldApprovalsOf(t), oldApproval[p].status = "approved"
      PROVE  OldMutationsOf(t) # {}
  <2>1. p \in WorkflowIds /\ oldApproval[p].ticket = t /\ p # None
    BY DEF OldApprovalsOf
  <2>2. PICK m \in WorkflowIds : oldMutation[m].approval = p
    BY <1>1, <1>5, <2>1 DEF ApprovedWithoutMutation
  <2>3. oldMutation[m].ticket = t
    BY <1>1, <1>5, <2>1, <2>2 DEF AuditFieldsDisagree
  <2> QED BY <2>2, <2>3 DEF OldMutationsOf
<1> QED BY <1>2, <1>3, <1>4, <1>5

\* The rows the backfill derives for a ticket tell one story.
LEMMA BackfillTellsOneStory ==
  ASSUME LegacyInv, ~Contradictory, NEW t \in Tickets, NEW latest
  PROVE  LET approved == BackfilledApproval(t)
             executed == BackfilledMutation(t)
             status == BackfilledStatus(t, latest)
         IN  /\ approved \in ApprovalRows /\ executed \in Actions \cup {None}
             /\ status \in WorkflowStatuses \ {"investigating"}
             /\ approved.status = "pending" <=> status = "awaiting_approval"
             /\ approved.status = "approved" <=> status = "mock_executed"
             /\ approved.status = "rejected" <=> status = "rejected"
             /\ executed = IF approved.status = "approved" THEN approved.action ELSE None
             /\ IF approved.status = Absent THEN approved = NoApproval
                ELSE approved.action \in Actions
             /\ approved.run # None =>
                  approved.run \in RunIds /\ oldRun[approved.run].ticket = t
             /\ status = "needs_retry" => Undecided(t)
<1> USE NoneAssumption
<1> DEFINE approved == BackfilledApproval(t)
           executed == BackfilledMutation(t)
           status == BackfilledStatus(t, latest)
<1>1. ASSUME NEW p \in OldApprovalsOf(t)
      PROVE  /\ approved = [status |-> oldApproval[p].status, action |-> oldApproval[p].action,
                            run |-> oldApproval[p].run, decider |-> oldApproval[p].decider]
             /\ oldApproval[p].status \in {"pending", "approved", "rejected"}
             /\ oldApproval[p].decider \in Roles \cup {None}
             /\ oldApproval[p].action \in Actions
             /\ oldApproval[p].run # None =>
                  /\ oldApproval[p].run \in RunIds
                  /\ oldRun[oldApproval[p].run].ticket = t
  <2>1. (CHOOSE q \in OldApprovalsOf(t) : TRUE) = p
    BY PreflightFindsOneStory
  <2>2. p \in WorkflowIds /\ oldApproval[p].ticket = t
    BY DEF OldApprovalsOf
  <2>3. oldApproval[p] \in OldApprovalRows
    BY <2>2 DEF LegacyInv, NoOldApproval
  <2>4. /\ oldApproval[p].run \in RunIds \cup {None} /\ oldApproval[p].action \in Actions
        /\ oldApproval[p].status \in {"pending", "approved", "rejected"}
        /\ oldApproval[p].decider \in Roles \cup {None}
    BY <2>3, OldApprovalColumns
  <2> QED BY <2>1, <2>2, <2>4 DEF BackfilledApproval, LegacyInv
<1>2. ASSUME NEW m \in OldMutationsOf(t)
      PROVE  executed = oldMutation[m].action
  BY PreflightFindsOneStory DEF BackfilledMutation
<1>3. CASE OldMutationsOf(t) # {}
  <2>1. PICK m \in OldMutationsOf(t) : TRUE
    BY <1>3
  <2>2. PICK p \in OldApprovalsOf(t) : /\ oldApproval[p].status = "approved"
                                       /\ oldApproval[p].action = oldMutation[m].action
    BY PreflightFindsOneStory
  <2>3. status = "mock_executed"
    BY <1>3 DEF BackfilledStatus, Undecided
  <2>4. approved \in ApprovalRows
    BY <1>1, <2>2 DEF ApprovalRows, ApprovalStatuses
  <2> HIDE DEF approved, executed, status
  <2>5. /\ approved.status = "approved" /\ approved.action = oldApproval[p].action
        /\ approved.run = oldApproval[p].run /\ approved.action \in Actions
        /\ approved.run # None => approved.run \in RunIds /\ oldRun[approved.run].ticket = t
    BY <1>1, <2>2
  <2>6. executed = approved.action
    BY <1>2, <2>1, <2>2, <2>5
  <2> QED BY <2>3, <2>4, <2>5, <2>6 DEF WorkflowStatuses, Absent, approved, executed, status
<1>4. CASE OldMutationsOf(t) = {} /\ OldApprovalsOf(t) # {}
  <2>1. PICK p \in OldApprovalsOf(t) : TRUE
    BY <1>4
  <2>2. oldApproval[p].status \in {"pending", "rejected"}
    BY <1>1, <1>4, PreflightFindsOneStory
  <2>3. status = StatusOfApproval[oldApproval[p].status]
    <3>1. (CHOOSE q \in OldApprovalsOf(t) : TRUE) = p
      BY PreflightFindsOneStory
    <3> QED BY <1>4, <3>1 DEF BackfilledStatus, Undecided
  <2>4. \/ oldApproval[p].status = "pending" /\ status = "awaiting_approval"
        \/ oldApproval[p].status = "rejected" /\ status = "rejected"
    BY <2>2, <2>3 DEF StatusOfApproval
  <2>5. approved \in ApprovalRows
    BY <1>1, <2>1 DEF ApprovalRows, ApprovalStatuses
  <2>6. executed = None
    BY <1>4 DEF BackfilledMutation
  <2> HIDE DEF approved, executed, status
  <2>7. /\ approved.status = oldApproval[p].status /\ approved.action \in Actions
        /\ approved.run # None => approved.run \in RunIds /\ oldRun[approved.run].ticket = t
    BY <1>1, <2>1
  <2> QED BY <2>4, <2>5, <2>6, <2>7 DEF WorkflowStatuses, Absent, approved, executed, status
<1>5. CASE Undecided(t)
  <2>1. approved = NoApproval /\ executed = None
    BY <1>5 DEF Undecided, BackfilledApproval, BackfilledMutation
  <2>2. status \in {"needs_retry", "completed_no_action", "failed"}
    BY <1>5 DEF Undecided, BackfilledStatus
  <2>3. approved \in ApprovalRows /\ approved.status = Absent /\ approved.run = None
    BY <2>1 DEF NoApproval, ApprovalRows
  <2> HIDE DEF approved, executed, status
  <2> QED BY <1>5, <2>1, <2>2, <2>3 DEF WorkflowStatuses, Absent, approved, executed, status
<1> QED BY <1>3, <1>4, <1>5 DEF Undecided

\* The tables upgrade() fills, row by row.
LEMMA UpgradeEffect ==
  ASSUME BackfillInv, Upgrade
  PROVE  \E id \in [Tickets -> WorkflowIds] :
           /\ \A t, u \in Tickets : id[t] = id[u] => t = u
           /\ \A t \in TicketsWithHistory :
                /\ \E latest : workflow'[id[t]] =
                     [ticket |-> t, cycle |-> 1,
                      status |-> BackfilledStatus(t, latest), sequence |-> 2]
                /\ ledger'[id[t]] = BackfilledLedger(workflow'[id[t]].status)
                /\ approval'[id[t]] = BackfilledApproval(t)
                /\ mutation'[id[t]] = BackfilledMutation(t)
           /\ \A w \in WorkflowIds : (\A t \in TicketsWithHistory : id[t] # w) =>
                /\ workflow'[w] = NoWorkflow /\ ledger'[w] = {}
                /\ approval'[w] = NoApproval /\ mutation'[w] = None
           /\ \A r \in RunIds :
                \/ oldRun[r].ticket = None /\ run'[r] = NoRun
                \/ /\ oldRun[r].ticket # None
                   /\ run'[r].ticket = oldRun[r].ticket /\ run'[r] \in RunRows
                   /\ run'[r].workflow = id[oldRun[r].ticket]
                   /\ run'[r].status = IF /\ Undecided(oldRun[r].ticket)
                                          /\ oldRun[r].status = "running"
                                       THEN "failed" ELSE oldRun[r].status
           /\ workflow' = [w \in WorkflowIds |-> workflow'[w]]
           /\ ledger' = [w \in WorkflowIds |-> ledger'[w]]
           /\ approval' = [w \in WorkflowIds |-> approval'[w]]
           /\ mutation' = [w \in WorkflowIds |-> mutation'[w]]
           /\ run' = [r \in RunIds |-> run'[r]]
<1> USE NoneAssumption
<1>1. PICK id \in Injection(Tickets, WorkflowIds), key \in Injection(RunIds, Keys),
           latest \in [TicketsWithHistory -> RunIds \cup {None}] :
       LET status == [t \in TicketsWithHistory |-> BackfilledStatus(t, latest[t])]
       IN
       /\ workflow' = BackfilledWorkflows(id, status)
       /\ ledger' = BackfilledLedgers(id, status)
       /\ approval' = BackfilledApprovals(id)
       /\ mutation' = BackfilledMutations(id)
       /\ run' = BackfilledRuns(id, key)
  <2>1. PICK id \in Injection(Tickets, WorkflowIds), key \in Injection(RunIds, Keys),
             status \in BackfilledStatuses :
         /\ workflow' = BackfilledWorkflows(id, status)
         /\ ledger' = BackfilledLedgers(id, status)
         /\ approval' = BackfilledApprovals(id)
         /\ mutation' = BackfilledMutations(id)
         /\ run' = BackfilledRuns(id, key)
    BY DEF Upgrade
  <2>2. PICK latest \in [TicketsWithHistory -> RunIds \cup {None}] :
          status = [t \in TicketsWithHistory |-> BackfilledStatus(t, latest[t])]
    BY DEF BackfilledStatuses
  <2> QED BY <2>1, <2>2
<1>2. /\ id \in [Tickets -> WorkflowIds] /\ key \in [RunIds -> Keys]
      /\ \A t, u \in Tickets : id[t] = id[u] => t = u
  BY DEF Injection, IsInjective
<1>3. \A t \in TicketsWithHistory : t \in Tickets /\ TicketOf(id[t], id) = {t}
  BY <1>2 DEF TicketsWithHistory, TicketOf
<1> DEFINE status == [t \in TicketsWithHistory |-> BackfilledStatus(t, latest[t])]
<1>4. ASSUME NEW w \in WorkflowIds
      PROVE  /\ workflow'[w] = IF TicketOf(w, id) = {} THEN NoWorkflow ELSE
                  LET t == CHOOSE t \in TicketOf(w, id) : TRUE IN
                  [ticket |-> t, cycle |-> 1, status |-> status[t], sequence |-> 2]
             /\ ledger'[w] = IF TicketOf(w, id) = {} THEN {} ELSE
                  BackfilledLedger(status[CHOOSE t \in TicketOf(w, id) : TRUE])
             /\ approval'[w] = IF TicketOf(w, id) = {} THEN NoApproval ELSE
                  BackfilledApproval(CHOOSE t \in TicketOf(w, id) : TRUE)
             /\ mutation'[w] = IF TicketOf(w, id) = {} THEN None ELSE
                  BackfilledMutation(CHOOSE t \in TicketOf(w, id) : TRUE)
  BY <1>1 DEF ByWorkflow, BackfilledWorkflows, BackfilledLedgers, BackfilledApprovals,
              BackfilledMutations
<1>5. ASSUME NEW t \in TicketsWithHistory
      PROVE  /\ workflow'[id[t]] = [ticket |-> t, cycle |-> 1,
                  status |-> BackfilledStatus(t, latest[t]), sequence |-> 2]
             /\ ledger'[id[t]] = BackfilledLedger(BackfilledStatus(t, latest[t]))
             /\ approval'[id[t]] = BackfilledApproval(t)
             /\ mutation'[id[t]] = BackfilledMutation(t)
  <2>1. id[t] \in WorkflowIds /\ TicketOf(id[t], id) = {t}
    BY <1>2, <1>3
  <2>2. (CHOOSE u \in TicketOf(id[t], id) : TRUE) = t /\ TicketOf(id[t], id) # {}
    BY <2>1
  <2>3. status[t] = BackfilledStatus(t, latest[t])
    OBVIOUS
  <2> HIDE DEF status
  <2> QED BY <1>4, <2>1, <2>2, <2>3
<1>6. ASSUME NEW w \in WorkflowIds, \A t \in TicketsWithHistory : id[t] # w
      PROVE  /\ workflow'[w] = NoWorkflow /\ ledger'[w] = {}
             /\ approval'[w] = NoApproval /\ mutation'[w] = None
  <2>1. TicketOf(w, id) = {}
    BY <1>6 DEF TicketOf
  <2> QED BY <1>4, <2>1
<1>7. ASSUME NEW r \in RunIds
      PROVE  \/ oldRun[r].ticket = None /\ run'[r] = NoRun
             \/ /\ oldRun[r].ticket # None
                /\ run'[r].ticket = oldRun[r].ticket /\ run'[r] \in RunRows
                /\ run'[r].workflow = id[oldRun[r].ticket]
                /\ run'[r].status = IF /\ Undecided(oldRun[r].ticket)
                                       /\ oldRun[r].status = "running"
                                    THEN "failed" ELSE oldRun[r].status
  <2>1. run'[r] = BackfilledRun(r, id, key)
    BY <1>1 DEF BackfilledRuns
  <2>2. CASE oldRun[r].ticket = None
    BY <2>1, <2>2 DEF BackfilledRun
  <2>3. CASE oldRun[r].ticket # None
    <3>1. oldRun[r].ticket \in Tickets /\ oldRun[r].status \in RunStatuses
      BY <2>3 DEF BackfillInv, LegacyInv, OldRunRows, NoOldRun
    <3>2. id[oldRun[r].ticket] \in WorkflowIds /\ key[r] \in Keys
      BY <1>2, <3>1
    <3> QED BY <2>1, <2>3, <3>1, <3>2 DEF BackfilledRun, RunRows, RunStatuses
  <2> QED BY <2>2, <2>3
<1>8. /\ workflow' = [w \in WorkflowIds |-> workflow'[w]]
      /\ ledger' = [w \in WorkflowIds |-> ledger'[w]]
      /\ approval' = [w \in WorkflowIds |-> approval'[w]]
      /\ mutation' = [w \in WorkflowIds |-> mutation'[w]]
      /\ run' = [r \in RunIds |-> run'[r]]
  BY <1>1 DEF ByWorkflow, BackfilledWorkflows, BackfilledLedgers, BackfilledApprovals,
              BackfilledMutations, BackfilledRuns
<1>9. ASSUME NEW t \in TicketsWithHistory
      PROVE  /\ \E last : workflow'[id[t]] =
                  [ticket |-> t, cycle |-> 1,
                   status |-> BackfilledStatus(t, last), sequence |-> 2]
             /\ ledger'[id[t]] = BackfilledLedger(workflow'[id[t]].status)
  <2> DEFINE final == BackfilledStatus(t, latest[t])
  <2>1. workflow'[id[t]] = [ticket |-> t, cycle |-> 1, status |-> final, sequence |-> 2]
    BY <1>5
  <2>2. ledger'[id[t]] = BackfilledLedger(final)
    BY <1>5
  <2>3. \E last : workflow'[id[t]] =
          [ticket |-> t, cycle |-> 1,
           status |-> BackfilledStatus(t, last), sequence |-> 2]
    BY <2>1, Zenon
  <2> HIDE DEF final
  <2>4. workflow'[id[t]].status = final
    BY <2>1
  <2> QED BY <2>2, <2>3, <2>4
<1> QED BY <1>2, <1>5, <1>6, <1>7, <1>8, <1>9

\* The unique indexes hold of what the backfill writes: a cycle is that of its
\* ticket, keys are made of run ids, and a ticket has one running run at most.
LEMMA BackfilledIndexesHold ==
  ASSUME LegacyInv, ~Contradictory,
         NEW id \in Injection(Tickets, WorkflowIds), NEW key \in Injection(RunIds, Keys),
         NEW status
  PROVE  UniqueIndexesHold(BackfilledWorkflows(id, status), BackfilledRuns(id, key),
                           BackfilledMutations(id))
<1> USE NoneAssumption
<1> DEFINE workflows == BackfilledWorkflows(id, status)
           runs == BackfilledRuns(id, key)
           mutations == BackfilledMutations(id)
<1>1. /\ id \in [Tickets -> WorkflowIds] /\ key \in [RunIds -> Keys]
      /\ \A t, u \in Tickets : id[t] = id[u] => t = u
      /\ \A q, r \in RunIds : key[q] = key[r] => q = r
  BY DEF Injection, IsInjective
<1>2. ASSUME NEW w \in WorkflowIds
      PROVE  \/ workflows[w] = NoWorkflow /\ mutations[w] = None
             \/ \E t \in Tickets : workflows[w].ticket = t /\ id[t] = w
  <2>1. CASE TicketOf(w, id) = {}
    BY <2>1 DEF BackfilledWorkflows, BackfilledMutations, ByWorkflow
  <2>2. CASE TicketOf(w, id) # {}
    <3>1. PICK t : t = CHOOSE u \in TicketOf(w, id) : TRUE
      OBVIOUS
    <3>2. t \in TicketOf(w, id)
      BY <2>2, <3>1
    <3>3. t \in Tickets /\ id[t] = w
      BY <3>2 DEF TicketOf, TicketsWithHistory
    <3>4. workflows[w] = [ticket |-> t, cycle |-> 1, status |-> status[t], sequence |-> 2]
      BY <2>2, <3>1 DEF BackfilledWorkflows, ByWorkflow
    <3>5. workflows[w].ticket = t
      BY <3>4
    <3> QED BY <3>3, <3>5
  <2> QED BY <2>1, <2>2
<1>3. /\ NoWorkflow.ticket = None /\ NoWorkflow.status \notin ActiveStatuses
      /\ NoRun.status = Absent
  BY DEF NoWorkflow, NoRun, ActiveStatuses, Absent
<1>4. ASSUME NEW r \in RunIds, runs[r].status # Absent
      PROVE  /\ oldRun[r].ticket \in Tickets /\ r \in OldRunsOf(oldRun[r].ticket)
             /\ runs[r].key = key[r] /\ runs[r].workflow = id[oldRun[r].ticket]
             /\ runs[r].status = "running" => oldRun[r].status = "running"
  <2>1. runs[r] = BackfilledRun(r, id, key)
    BY DEF BackfilledRuns
  <2>2. oldRun[r].ticket # None
    BY <1>3, <1>4, <2>1 DEF BackfilledRun
  <2>3. oldRun[r].ticket \in Tickets
    BY <2>2 DEF LegacyInv, OldRunRows, NoOldRun
  <2> QED BY <2>1, <2>2, <2>3 DEF BackfilledRun, OldRunsOf
<1> HIDE DEF workflows, runs, mutations
<1>5. ASSUME NEW v \in WorkflowIds, NEW w \in WorkflowIds,
             workflows[v].ticket = workflows[w].ticket, workflows[v] # NoWorkflow
      PROVE  v = w
  BY <1>2, <1>3, <1>5
<1>6. ASSUME NEW q \in RunIds, NEW r \in RunIds, q # r,
             runs[q].status # Absent, runs[r].status # Absent
      PROVE  /\ <<runs[q].ticket, runs[q].key>> # <<runs[r].ticket, runs[r].key>>
             /\ runs[q].status = "running" /\ runs[r].status = "running" =>
                  runs[q].workflow # runs[r].workflow
  <2>1. <<runs[q].ticket, runs[q].key>> # <<runs[r].ticket, runs[r].key>>
    BY <1>1, <1>4, <1>6
  <2>2. ASSUME runs[q].status = "running", runs[r].status = "running",
               runs[q].workflow = runs[r].workflow
        PROVE  FALSE
    <3>1. oldRun[q].ticket = oldRun[r].ticket
      BY <1>1, <1>4, <1>6, <2>2
    <3> QED BY <1>4, <1>6, <2>2, <3>1 DEF Contradictory, SeveralCandidates
  <2> QED BY <2>1, <2>2
<1>7. \A v, w \in WorkflowIds :
        (/\ workflows[v].status \in ActiveStatuses /\ workflows[w].status \in ActiveStatuses
         /\ workflows[v].ticket = workflows[w].ticket) => v = w
  BY <1>3, <1>5
<1>8. \A v, w \in WorkflowIds : mutations[v] # None /\ v # w =>
        <<workflows[v].ticket, mutations[v]>> # <<workflows[w].ticket, mutations[w]>>
  BY <1>2, <1>3, <1>5
<1> QED BY <1>6, <1>7, <1>8 DEF UniqueIndexesHold, workflows, runs, mutations

\* The rows a ticket's old rows become.
LEMMA BackfillKeepsRows ==
  ASSUME LegacyInv, ~Contradictory, NEW t \in Tickets
  PROVE  /\ IF OldMutationsOf(t) = {} THEN BackfilledMutation(t) = None
            ELSE \A m \in OldMutationsOf(t) : BackfilledMutation(t) = oldMutation[m].action
         /\ IF OldApprovalsOf(t) = {} THEN BackfilledApproval(t) = NoApproval
            ELSE \A p \in OldApprovalsOf(t) :
                   /\ BackfilledApproval(t).status = oldApproval[p].status
                   /\ BackfilledApproval(t).action = oldApproval[p].action
                   /\ BackfilledApproval(t).decider = oldApproval[p].decider
<1>1. \A m \in OldMutationsOf(t) : (CHOOSE n \in OldMutationsOf(t) : TRUE) = m
  BY PreflightFindsOneStory
<1>2. \A p \in OldApprovalsOf(t) : (CHOOSE q \in OldApprovalsOf(t) : TRUE) = p
  BY PreflightFindsOneStory
<1> QED BY <1>1, <1>2 DEF BackfilledMutation, BackfilledApproval

-----------------------------------------------------------------------------
(* The migrations keep the invariant.                                      *)

\* Tables without rows satisfy what holds of either revision.
LEMMA EmptyTables ==
  /\ Empty => MigratedInv
  /\ OldTablesEmpty => LegacyInv
<1>1. ASSUME Empty PROVE MigratedInv
  <2>1. IInv
    BY <1>1, InitIInv
  <2>2. TypeOK /\ OneActiveCycle /\ NoDoubleExecution
    BY <2>1 DEF IInv
  <2>3. /\ \A w \in WorkflowIds : /\ workflow[w] = NoWorkflow
                                  /\ approval[w] = NoApproval /\ mutation[w] = None
        /\ \A r \in RunIds : run[r] = NoRun
    BY <1>1 DEF Empty
  <2> QED BY <2>2, <2>3
          DEF MigratedInv, StoryOf, AttemptsOf, HomeOf, NoWorkflow, NoApproval, NoRun, Absent
<1>2. ASSUME OldTablesEmpty PROVE LegacyInv
  BY <1>2 DEF OldTablesEmpty, LegacyInv, NoOldRun, NoOldApproval, NoOldMutation, Absent
<1> QED BY <1>1, <1>2

\* upgrade() leaves one cycle of every ticket with a history, and nothing else.
LEMMA UpgradeMigrates ==
  ASSUME BackfillInv, Upgrade
  PROVE  MigratedInv'
<1> USE NoneAssumption
<1>1. LegacyInv /\ ~Contradictory
  BY DEF BackfillInv, Upgrade
<1>2. PICK id \in [Tickets -> WorkflowIds] :
        /\ \A t, u \in Tickets : id[t] = id[u] => t = u
        /\ \A t \in TicketsWithHistory :
             /\ \E latest : workflow'[id[t]] =
                  [ticket |-> t, cycle |-> 1,
                   status |-> BackfilledStatus(t, latest), sequence |-> 2]
             /\ ledger'[id[t]] = BackfilledLedger(workflow'[id[t]].status)
             /\ approval'[id[t]] = BackfilledApproval(t)
             /\ mutation'[id[t]] = BackfilledMutation(t)
        /\ \A w \in WorkflowIds : (\A t \in TicketsWithHistory : id[t] # w) =>
             /\ workflow'[w] = NoWorkflow /\ ledger'[w] = {}
             /\ approval'[w] = NoApproval /\ mutation'[w] = None
        /\ \A r \in RunIds :
             \/ oldRun[r].ticket = None /\ run'[r] = NoRun
             \/ /\ oldRun[r].ticket # None
                /\ run'[r].ticket = oldRun[r].ticket /\ run'[r] \in RunRows
                /\ run'[r].workflow = id[oldRun[r].ticket]
                /\ run'[r].status = IF /\ Undecided(oldRun[r].ticket)
                                       /\ oldRun[r].status = "running"
                                    THEN "failed" ELSE oldRun[r].status
        /\ workflow' = [w \in WorkflowIds |-> workflow'[w]]
        /\ ledger' = [w \in WorkflowIds |-> ledger'[w]]
        /\ approval' = [w \in WorkflowIds |-> approval'[w]]
        /\ mutation' = [w \in WorkflowIds |-> mutation'[w]]
        /\ run' = [r \in RunIds |-> run'[r]]
  BY UpgradeEffect
\* A workflow row is blank or that of a ticket.
<1>3. ASSUME NEW w \in WorkflowIds
      PROVE  \/ /\ workflow'[w] = NoWorkflow /\ ledger'[w] = {}
                /\ approval'[w] = NoApproval /\ mutation'[w] = None
             \/ \E t \in TicketsWithHistory :
                  /\ w = id[t] /\ t \in Tickets
                  /\ workflow'[w].ticket = t /\ workflow'[w].cycle = 1
                  /\ workflow'[w] \in WorkflowRows
                  /\ workflow'[w].status \in WorkflowStatuses \ {"investigating"}
                  /\ ledger'[w] = BackfilledLedger(workflow'[w].status)
                  /\ approval'[w] \in ApprovalRows
                  /\ mutation'[w] \in Actions \cup {None}
                  /\ approval'[w].status = "pending" <=> workflow'[w].status = "awaiting_approval"
                  /\ approval'[w].status = "approved" <=> workflow'[w].status = "mock_executed"
                  /\ approval'[w].status = "rejected" <=> workflow'[w].status = "rejected"
                  /\ mutation'[w] = IF approval'[w].status = "approved"
                                    THEN approval'[w].action ELSE None
                  /\ IF approval'[w].status = Absent THEN approval'[w] = NoApproval
                     ELSE approval'[w].action \in Actions
                  /\ approval'[w].run # None =>
                       approval'[w].run \in RunIds /\ oldRun[approval'[w].run].ticket = t
                  /\ workflow'[w].status = "needs_retry" => Undecided(t)
  <2>1. CASE \A t \in TicketsWithHistory : id[t] # w
    BY <1>2, <2>1
  <2>2. CASE \E t \in TicketsWithHistory : id[t] = w
    <3>1. PICK t \in TicketsWithHistory : id[t] = w
      BY <2>2
    <3>2. t \in Tickets
      BY <3>1 DEF TicketsWithHistory
    <3>3. PICK latest : workflow'[w] =
                 [ticket |-> t, cycle |-> 1,
                  status |-> BackfilledStatus(t, latest), sequence |-> 2]
      BY <1>2, <3>1
    <3>4. /\ approval'[w] = BackfilledApproval(t) /\ mutation'[w] = BackfilledMutation(t)
          /\ ledger'[w] = BackfilledLedger(workflow'[w].status)
      BY <1>2, <3>1
    <3> DEFINE status == BackfilledStatus(t, latest)
    <3>5. /\ BackfilledApproval(t) \in ApprovalRows
          /\ BackfilledMutation(t) \in Actions \cup {None}
          /\ status \in WorkflowStatuses \ {"investigating"}
          /\ BackfilledApproval(t).status = "pending" <=> status = "awaiting_approval"
          /\ BackfilledApproval(t).status = "approved" <=> status = "mock_executed"
          /\ BackfilledApproval(t).status = "rejected" <=> status = "rejected"
          /\ BackfilledMutation(t) = IF BackfilledApproval(t).status = "approved"
                                     THEN BackfilledApproval(t).action ELSE None
          /\ IF BackfilledApproval(t).status = Absent THEN BackfilledApproval(t) = NoApproval
             ELSE BackfilledApproval(t).action \in Actions
          /\ BackfilledApproval(t).run # None =>
               /\ BackfilledApproval(t).run \in RunIds
               /\ oldRun[BackfilledApproval(t).run].ticket = t
          /\ status = "needs_retry" => Undecided(t)
      BY <1>1, <3>2, BackfillTellsOneStory
    <3> HIDE DEF status
    <3>6. /\ workflow'[w].ticket = t /\ workflow'[w].cycle = 1
          /\ workflow'[w].status = status /\ workflow'[w] \in WorkflowRows
      <4>1. workflow'[w] = [ticket |-> t, cycle |-> 1, status |-> status, sequence |-> 2]
        BY <3>3 DEF status
      <4> QED BY <3>2, <3>5, <4>1 DEF WorkflowRows
    <3> QED BY <3>1, <3>2, <3>4, <3>5, <3>6
  <2> QED BY <2>1, <2>2
<1>4. \A w \in WorkflowIds : \A t \in Tickets : workflow'[w].ticket = t => w = id[t]
  BY <1>3 DEF NoWorkflow
<1>5. TypeOK'
  <2>1. NoWorkflow \in WorkflowRows /\ NoRun \in RunRows /\ NoApproval \in ApprovalRows
    BY DEF NoWorkflow, NoRun, NoApproval, WorkflowRows, RunRows, ApprovalRows
  <2>2. \A to \in WorkflowStatuses : BackfilledLedger(to) \subseteq LedgerRows
    BY DEF BackfilledLedger, LedgerRows, InitialStatus, WorkflowStatuses
  <2>3. /\ \A w \in WorkflowIds : /\ workflow'[w] \in WorkflowRows
                                  /\ ledger'[w] \subseteq LedgerRows
                                  /\ approval'[w] \in ApprovalRows
                                  /\ mutation'[w] \in Actions \cup {None}
        /\ \A r \in RunIds : run'[r] \in RunRows
    BY <1>2, <1>3, <2>1, <2>2
  <2> QED BY <1>2, <2>3 DEF TypeOK
<1>6. OneActiveCycle'
  BY <1>3, <1>4 DEF OneActiveCycle, WorkflowsOf, Exists, NoWorkflow
<1>7. NoDoubleExecution'
  <2>1. \A v, w \in WorkflowIds :
          mutation'[v] # None /\ workflow'[v].ticket = workflow'[w].ticket => v = w
    BY <1>3, <1>4
  <2>2. \A w \in WorkflowIds : approval'[w].status = "pending" => mutation'[w] = None
    BY <1>3 DEF NoApproval, Absent
  <2> QED BY <2>1, <2>2 DEF NoDoubleExecution, IsExecuted
<1>8. ASSUME NEW w \in WorkflowIds PROVE StoryOf(w)'
  <2>1. CASE workflow'[w] = NoWorkflow /\ approval'[w] = NoApproval /\ mutation'[w] = None
    BY <2>1 DEF StoryOf, NoWorkflow, NoApproval, Absent
  <2>2. CASE workflow'[w] # NoWorkflow \/ approval'[w] # NoApproval \/ mutation'[w] # None
    <3>1. PICK t \in Tickets :
            /\ w = id[t] /\ workflow'[w].ticket = t
            /\ workflow'[w].status \in WorkflowStatuses
            /\ approval'[w].status = "pending" <=> workflow'[w].status = "awaiting_approval"
            /\ approval'[w].status = "approved" <=> workflow'[w].status = "mock_executed"
            /\ approval'[w].status = "rejected" <=> workflow'[w].status = "rejected"
            /\ mutation'[w] = IF approval'[w].status = "approved"
                              THEN approval'[w].action ELSE None
            /\ IF approval'[w].status = Absent THEN approval'[w] = NoApproval
               ELSE approval'[w].action \in Actions
            /\ approval'[w].run # None =>
                 approval'[w].run \in RunIds /\ oldRun[approval'[w].run].ticket = t
      BY <1>3, <2>2
    <3>2. approval'[w].run # None => run'[approval'[w].run].workflow = w
      BY <1>2, <3>1
    <3>3. workflow'[w].status # Absent
      BY <3>1 DEF WorkflowStatuses, Absent
    <3> QED BY <3>1, <3>2, <3>3 DEF StoryOf
  <2> QED BY <2>1, <2>2
<1>9. \A r \in RunIds : oldRun[r].ticket # None =>
        /\ oldRun[r].ticket \in Tickets /\ oldRun[r].ticket \in TicketsWithHistory
        /\ oldRun[r].status \in RunStatuses
  BY <1>1 DEF LegacyInv, OldRunRows, NoOldRun, TicketsWithHistory, OldRunsOf
<1>10. ASSUME NEW w \in WorkflowIds PROVE AttemptsOf(w)'
  <2>1. workflow'[w].status # "investigating"
    BY <1>3 DEF NoWorkflow, Absent
  <2>2. ASSUME workflow'[w].status = "needs_retry", NEW r \in RunIds,
               run'[r].status = "running", run'[r].workflow = w
        PROVE  FALSE
    <3>1. PICK t \in Tickets : w = id[t] /\ Undecided(t)
      BY <1>3, <2>2 DEF NoWorkflow, Absent
    <3>2. oldRun[r].ticket # None /\ id[oldRun[r].ticket] = w
      BY <1>2, <2>2 DEF NoRun, Absent
    <3>3. oldRun[r].ticket = t
      BY <1>2, <1>9, <3>1, <3>2
    <3> QED BY <1>2, <2>2, <3>1, <3>2, <3>3
  <2> QED BY <2>1, <2>2 DEF AttemptsOf
<1>11. ASSUME NEW r \in RunIds PROVE HomeOf(r)'
  <2>1. CASE oldRun[r].ticket = None
    BY <1>2, <2>1 DEF HomeOf, NoRun
  <2>2. CASE oldRun[r].ticket # None
    <3> DEFINE t == oldRun[r].ticket
    <3>1. /\ t \in Tickets /\ t \in TicketsWithHistory
          /\ run'[r].ticket = t /\ run'[r].workflow = id[t]
          /\ run'[r].status # Absent
      BY <1>2, <1>9, <2>2 DEF RunStatuses, Absent
    <3> HIDE DEF t
    <3>2. id[t] \in WorkflowIds
      BY <1>2, <3>1
    <3>3. workflow'[id[t]].ticket = t
      <4>1. PICK latest : workflow'[id[t]] =
                   [ticket |-> t, cycle |-> 1,
                    status |-> BackfilledStatus(t, latest), sequence |-> 2]
        BY <1>2, <3>1
      <4> QED BY <4>1
    <3>4. workflow'[id[t]].status # Absent
      BY <1>3, <3>1, <3>2, <3>3 DEF NoWorkflow, WorkflowStatuses, Absent
    <3> QED BY <3>1, <3>2, <3>3, <3>4 DEF HomeOf
  <2> QED BY <2>1, <2>2
<1> QED BY <1>5, <1>6, <1>7, <1>8, <1>10, <1>11 DEF MigratedInv

\* downgrade() leaves an old row of every run, request and mutation.
LEMMA DowngradeKeepsLegacy ==
  ASSUME BackfillInv, Downgrade
  PROVE  LegacyInv' /\ Empty' /\ OutcomeInv'
<1> USE NoneAssumption
<1>1. MigratedInv /\ OutcomeInv /\ OldTablesEmpty
  BY DEF BackfillInv, Downgrade
<1>2. TypeOK
  BY <1>1 DEF MigratedInv
<1>3. ASSUME NEW r \in RunIds
      PROVE  /\ oldRun'[r] \in OldRunRows \cup {NoOldRun}
             /\ oldRun'[r].ticket = run[r].ticket
             /\ run[r].status # Absent => oldRun'[r].ticket # None
  <2>1. oldRun'[r] = [ticket |-> run[r].ticket, status |-> run[r].status]
    BY DEF Downgrade
  <2>2. CASE run[r].status = Absent
    BY <1>1, <2>1, <2>2 DEF MigratedInv, HomeOf, NoRun, NoOldRun
  <2>3. CASE run[r].status # Absent
    <3>1. run[r].ticket \in Tickets
      BY <1>1, <2>3 DEF MigratedInv, HomeOf, StoryOf
    <3> QED BY <1>2, <2>1, <2>3, <3>1 DEF TypeOK, RunRows, OldRunRows
  <2> QED BY <2>2, <2>3
<1>4. ASSUME NEW w \in WorkflowIds
      PROVE  /\ oldApproval'[w] \in OldApprovalRows \cup {NoOldApproval}
             /\ oldApproval'[w].run # None =>
                  oldRun'[oldApproval'[w].run].ticket = oldApproval'[w].ticket
  <2>1. oldApproval'[w] =
          IF approval[w].status = Absent THEN NoOldApproval
          ELSE [ticket |-> workflow[w].ticket, status |-> approval[w].status,
                action |-> approval[w].action, run |-> approval[w].run,
                decider |-> approval[w].decider, named |-> approval[w].decider # None]
    BY DEF Downgrade, DowngradedApproval
  <2>2. CASE approval[w].status = Absent
    BY <2>1, <2>2 DEF NoOldApproval, Absent
  <2>3. CASE approval[w].status # Absent
    <3>1. StoryOf(w) /\ approval[w] \in ApprovalRows
      BY <1>1, <1>2 DEF MigratedInv, TypeOK
    <3>2. workflow[w].ticket \in Tickets /\ approval[w].action \in Actions
      BY <2>3, <3>1 DEF StoryOf, ApprovalRows
    <3>3. approval[w].run # None => run[approval[w].run].ticket = workflow[w].ticket
      <4>1. approval[w].run # None =>
              approval[w].run \in RunIds /\ run[approval[w].run].workflow = w
        BY <3>1 DEF StoryOf, ApprovalRows
      <4> QED BY <1>1, <4>1 DEF MigratedInv, HomeOf, NoRun
    <3>4. OldAuditShape(oldApproval'[w])
      BY <2>1, <2>3 DEF Downgrade, DowngradedApproval
    <3>5. oldApproval'[w] \in OldApprovalRows
      BY <2>1, <2>3, <3>1, <3>2, <3>4 DEF ApprovalRows, OldApprovalRows
    <3>6. approval[w].run # None => approval[w].run \in RunIds
      BY <3>1 DEF ApprovalRows
    <3>7. oldApproval'[w].run = approval[w].run /\ oldApproval'[w].ticket = workflow[w].ticket
      BY <2>1, <2>3
    <3> QED BY <1>3, <3>3, <3>5, <3>6, <3>7
  <2> QED BY <2>2, <2>3
<1>5. ASSUME NEW w \in WorkflowIds
      PROVE  oldMutation'[w] \in OldMutationRows \cup {NoOldMutation}
  <2>1. oldMutation'[w] =
          IF mutation[w] = None THEN NoOldMutation
          ELSE [ticket |-> workflow[w].ticket, approval |-> w,
                action |-> mutation[w], executed |-> TRUE]
    BY DEF Downgrade
  <2>2. CASE mutation[w] = None
    BY <2>1, <2>2
  <2>3. CASE mutation[w] # None
    <3>1. mutation[w] \in Actions
      BY <1>2, <2>3 DEF TypeOK
    <3>2. workflow[w].ticket \in Tickets
      BY <1>1, <2>3 DEF MigratedInv, StoryOf, Absent
    <3> QED BY <2>1, <2>3, <3>1, <3>2 DEF OldMutationRows
  <2> QED BY <2>2, <2>3
<1>6. LegacyInv'
  <2>1. /\ oldRun' = [r \in RunIds |-> oldRun'[r]]
        /\ oldApproval' = [w \in WorkflowIds |-> oldApproval'[w]]
        /\ oldMutation' = [w \in WorkflowIds |-> oldMutation'[w]]
    BY DEF Downgrade
  <2> QED BY <1>3, <1>4, <1>5, <2>1 DEF LegacyInv
<1>7. Empty'
  BY DEF Downgrade, Empty
<1>8. OutcomeInv'
  <2>1. outcome' = outcome
    BY DEF Downgrade
  <2>2. \A r \in RunIds : oldRun[r].ticket = None
    BY <1>1 DEF OldTablesEmpty, NoOldRun
  <2> QED BY <1>1, <1>3, <2>1, <2>2 DEF OutcomeInv
<1> QED BY <1>6, <1>7, <1>8

\* Every step keeps the strengthened invariant.
LEMMA BackfillStep ==
  ASSUME BackfillInv, [BackfillNext]_backfillVars
  PROVE  BackfillInv'
<1> USE NoneAssumption
<1>1. CASE Upgrade
  <2>1. OldTablesEmpty' /\ revision' = "0009"
    BY <1>1 DEF Upgrade, OldTablesEmpty
  <2>2. LegacyInv'
    BY <2>1, EmptyTables, PTL
  <2>3. MigratedInv'
    BY <1>1, UpgradeMigrates
  <2>4. OutcomeInv'
    <3>1. PICK id \in [Tickets -> WorkflowIds] :
            \A r \in RunIds :
              \/ oldRun[r].ticket = None /\ run'[r] = NoRun
              \/ /\ oldRun[r].ticket # None
                 /\ run'[r].status = IF /\ Undecided(oldRun[r].ticket)
                                        /\ oldRun[r].status = "running"
                                     THEN "failed" ELSE oldRun[r].status
      BY <1>1, UpgradeEffect
    <3>2. \A r \in RunIds : oldRun[r].ticket # None => run'[r].status # Absent
      BY <3>1 DEF BackfillInv, LegacyInv, OldRunRows, NoOldRun, RunStatuses, Absent
    <3>3. revision = "0008" /\ Empty /\ outcome' = outcome
      BY <1>1 DEF Upgrade, BackfillInv
    <3>4. \A r \in RunIds : run[r].status = Absent
      BY <3>3 DEF Empty, NoRun
    <3> QED BY <3>2, <3>3, <3>4 DEF BackfillInv, OutcomeInv
  <2> QED BY <2>1, <2>2, <2>3, <2>4 DEF BackfillInv
<1>2. CASE Downgrade
  <2>1. LegacyInv' /\ Empty' /\ OutcomeInv'
    BY <1>2, DowngradeKeepsLegacy
  <2>2. MigratedInv'
    BY <2>1, EmptyTables, PTL
  <2>3. revision' = "0008"
    BY <1>2 DEF Downgrade
  <2> QED BY <2>1, <2>2, <2>3 DEF BackfillInv
<1>3. CASE Command
  <2>1. /\ revision = "0009" /\ OldTablesEmpty /\ MigratedInv /\ LegacyInv /\ OutcomeInv
        /\ revision' = revision /\ oldRun' = oldRun
        /\ oldApproval' = oldApproval /\ oldMutation' = oldMutation
        /\ Next
    BY <1>3 DEF Command, BackfillInv
  <2>2. MigratedInv'
    BY <2>1, CommandsKeepMigrated
  <2>3. LegacyInv' /\ OldTablesEmpty'
    BY <2>1 DEF LegacyInv, OldTablesEmpty
  <2>4. OutcomeInv'
    <3>1. outcome' = [r \in RunIds |->
            CASE run'[r].status = Absent -> None
              [] run[r].status = "running" /\ run'[r].status = "completed" ->
                   IF \E w \in WorkflowIds : approval'[w].run = r
                   THEN "approval_required" ELSE "no_action"
              [] OTHER -> outcome[r]]
      BY <1>3 DEF Command
    <3>2. \A r \in RunIds : /\ outcome'[r] \in Outcomes \cup {None}
                            /\ run'[r].status = Absent => outcome'[r] = None
      BY <2>1, <3>1 DEF OutcomeInv, Outcomes, Absent
    <3> QED BY <3>1, <3>2 DEF OutcomeInv
  <2> QED BY <2>1, <2>2, <2>3, <2>4 DEF BackfillInv
<1>4. CASE UNCHANGED backfillVars
  BY <1>4
     DEF backfillVars, tables, BackfillInv, MigratedInv, LegacyInv, OutcomeInv, Empty,
         OldTablesEmpty, TypeOK, OneActiveCycle, NoDoubleExecution, StoryOf, AttemptsOf,
         HomeOf, Exists, Terminal, WorkflowsOf, IsExecuted
<1> QED BY <1>1, <1>2, <1>3, <1>4 DEF BackfillNext

-----------------------------------------------------------------------------
(* The theorems.                                                           *)

\* The strengthened invariant holds in every reachable state.
THEOREM BackfillInvariance == BackfillSpec => []BackfillInv
<1>1. BackfillInit => BackfillInv
  <2> SUFFICES ASSUME BackfillInit PROVE BackfillInv
    OBVIOUS
  <2>1. MigratedInv
    BY EmptyTables DEF BackfillInit
  <2>2. LegacyInv
    <3>1. \A p \in WorkflowIds :
            oldApproval[p].run # None =>
                 oldRun[oldApproval[p].run] =
                   [ticket |-> oldApproval[p].ticket, status |-> "completed"]
      BY DEF BackfillInit, OldApprovalsLegal, ComesFromRun
    <3>2. \A p \in WorkflowIds : oldApproval[p].run # None =>
            oldRun[oldApproval[p].run].ticket = oldApproval[p].ticket
      <4> SUFFICES ASSUME NEW p \in WorkflowIds, oldApproval[p].run # None
                   PROVE  oldRun[oldApproval[p].run].ticket = oldApproval[p].ticket
        OBVIOUS
      <4>1. oldRun[oldApproval[p].run] =
              [ticket |-> oldApproval[p].ticket, status |-> "completed"]
        BY <3>1
      <4> QED BY <4>1
    <3>3. /\ oldRun \in [RunIds -> OldRunRows \cup {NoOldRun}]
          /\ oldApproval \in [WorkflowIds -> OldApprovalRows \cup {NoOldApproval}]
          /\ oldMutation \in [WorkflowIds -> OldMutationRows \cup {NoOldMutation}]
      BY DEF BackfillInit
    <3> QED BY <3>1, <3>2, <3>3 DEF LegacyInv
  <2>3. OutcomeInv
    <3>1. /\ outcome \in [RunIds -> Outcomes \cup {None}]
          /\ \A r \in RunIds : /\ outcome[r] # None => oldRun[r].status = "completed"
                               /\ oldRun[r] \in OldRunRows \cup {NoOldRun}
      BY DEF BackfillInit
    <3>2. \A r \in RunIds : oldRun[r].status = "completed" => oldRun[r].ticket # None
      BY <3>1, NoneAssumption DEF OldRunRows, NoOldRun, Absent
    <3> QED BY <3>1, <3>2 DEF OutcomeInv
  <2> QED BY <2>1, <2>2, <2>3 DEF BackfillInit, BackfillInv
<1> QED BY <1>1, BackfillStep, PTL DEF BackfillSpec

\* upgrade() never writes a backfill that one of its unique indexes then refuses,
\* whatever the history and however the rows are numbered.
THEOREM IndexesAdmitTheBackfill == BackfillSpec => []IndexesNeverAbort
<1>1. BackfillInv => IndexesNeverAbort
  BY BackfilledIndexesHold DEF BackfillInv, IndexesNeverAbort
<1> QED BY <1>1, BackfillInvariance, PTL

\* A cycle that fail_run or the migration sent back for a retry has no running
\* attempt the retry could run beside.
THEOREM RetriesRunAlone == BackfillSpec => []RetriesAreAlone
<1>1. BackfillInv => RetriesAreAlone
  BY DEF BackfillInv, MigratedInv, AttemptsOf, HomeOf, RetriesAreAlone, Absent
<1> QED BY <1>1, BackfillInvariance, PTL

\* The migration hands the commands rows of the types they expect, at most one
\* active cycle per ticket and no action executed twice, and they keep it so.
THEOREM CommandsAreSoundAfterMigration == BackfillSpec => []CommandsStaySound
<1>1. BackfillInv => CommandsStaySound
  BY DEF BackfillInv, MigratedInv, LegacyInv, OutcomeInv, CommandsStaySound,
         BackfillTypeOK, RunExists
<1> QED BY <1>1, BackfillInvariance, PTL

\* A ticket's request, mutation and workflow tell one story, however its history
\* passed the preflight and whatever the commands go on to do.
THEOREM MigratedStoriesAgree == BackfillSpec => []BackfilledStoriesAgree
<1>1. BackfillInv => BackfilledStoriesAgree
  <2> SUFFICES ASSUME BackfillInv PROVE BackfilledStoriesAgree
    OBVIOUS
  <2>1. ASSUME NEW w \in WorkflowIds, workflow[w].status = "investigating"
        PROVE  Cardinality({r \in RunIds : /\ run[r].workflow = w
                                           /\ run[r].status = "running"}) = 1
    <3>1. PICK r \in RunIds :
            /\ run[r].status = "running" /\ run[r].workflow = w
            /\ \A q \in RunIds : run[q].status = "running" /\ run[q].workflow = w => q = r
      BY <2>1 DEF BackfillInv, MigratedInv, AttemptsOf
    <3>2. {q \in RunIds : run[q].workflow = w /\ run[q].status = "running"} = {r}
      BY <3>1
    <3> QED BY <3>2, FS_Singleton
  <2>2. \A w \in WorkflowIds : StoryOf(w)
    BY DEF BackfillInv, MigratedInv
  <2>3. \A r \in RunIds : RunExists(r) => run[r].workflow \in WorkflowsOf(run[r].ticket)
    BY DEF BackfillInv, MigratedInv, HomeOf, RunExists, WorkflowsOf, Exists
  <2> QED BY <2>1, <2>2, <2>3 DEF BackfilledStoriesAgree, StoryOf
<1> QED BY <1>1, BackfillInvariance, PTL

\* What upgrade() finds executed, waiting and decided it leaves so.
LEMMA UpgradeKeepsDecisions ==
  ASSUME BackfillInv, Upgrade
  PROVE  /\ Executed' = OldExecuted /\ Executed = {} /\ OldExecuted' = {}
         /\ Requests' = OldRequests /\ Requests = {} /\ OldRequests' = {}
<1> USE NoneAssumption
<1>1. LegacyInv /\ ~Contradictory /\ Empty
  BY DEF BackfillInv, Upgrade
<1>2. Executed = {} /\ Requests = {}
  BY <1>1 DEF Empty, Executed, Requests, NoApproval, Absent
<1>3. OldExecuted' = {} /\ OldRequests' = {}
  BY DEF Upgrade, OldExecuted, OldRequests, NoOldMutation, NoOldApproval, Absent
<1>4. PICK id \in [Tickets -> WorkflowIds] :
        /\ \A t \in TicketsWithHistory :
             /\ \E latest : workflow'[id[t]] =
                  [ticket |-> t, cycle |-> 1,
                   status |-> BackfilledStatus(t, latest), sequence |-> 2]
             /\ approval'[id[t]] = BackfilledApproval(t)
             /\ mutation'[id[t]] = BackfilledMutation(t)
        /\ \A w \in WorkflowIds : (\A t \in TicketsWithHistory : id[t] # w) =>
             approval'[w] = NoApproval /\ mutation'[w] = None
  BY UpgradeEffect
<1>5. \A t \in TicketsWithHistory : t \in Tickets /\ id[t] \in WorkflowIds
  BY <1>4 DEF TicketsWithHistory
<1>6. ASSUME NEW t \in TicketsWithHistory PROVE workflow'[id[t]].ticket = t
  <2>1. PICK latest : workflow'[id[t]] =
               [ticket |-> t, cycle |-> 1,
                status |-> BackfilledStatus(t, latest), sequence |-> 2]
    BY <1>4
  <2> QED BY <2>1
<1>7. ASSUME NEW w \in WorkflowIds, mutation'[w] # None
      PROVE  <<workflow'[w].ticket, mutation'[w]>> \in OldExecuted
  <2>1. PICK t \in TicketsWithHistory : w = id[t]
    BY <1>4, <1>7
  <2>2. mutation'[w] = BackfilledMutation(t) /\ workflow'[w].ticket = t /\ t \in Tickets
    BY <1>4, <1>5, <1>6, <2>1
  <2>3. PICK m \in OldMutationsOf(t) : mutation'[w] = oldMutation[m].action
    BY <1>1, <1>7, <2>2, BackfillKeepsRows
  <2>4. oldMutation[m].executed /\ oldMutation[m].ticket = t /\ m \in WorkflowIds
    BY <1>1, <2>2, PreflightFindsOneStory DEF OldMutationsOf
  <2> QED BY <2>2, <2>3, <2>4 DEF OldExecuted
<1>8. ASSUME NEW m \in WorkflowIds, oldMutation[m].executed
      PROVE  <<oldMutation[m].ticket, oldMutation[m].action>> \in Executed'
  <2> DEFINE t == oldMutation[m].ticket
  <2>1. t \in Tickets /\ oldMutation[m].action \in Actions
    BY <1>1, <1>8 DEF LegacyInv, OldMutationRows, NoOldMutation
  <2>2. m \in OldMutationsOf(t) /\ t \in TicketsWithHistory
    BY <2>1 DEF OldMutationsOf, TicketsWithHistory
  <2> HIDE DEF t
  <2>3. /\ mutation'[id[t]] = oldMutation[m].action /\ id[t] \in WorkflowIds
        /\ workflow'[id[t]].ticket = t
    BY <1>1, <1>4, <1>5, <1>6, <2>1, <2>2, BackfillKeepsRows
  <2>4. <<workflow'[id[t]].ticket, mutation'[id[t]]>> \in Executed'
    BY <2>1, <2>3 DEF Executed
  <2> QED BY <2>3, <2>4 DEF t
<1>9. ASSUME NEW w \in WorkflowIds, approval'[w].status # Absent
      PROVE  <<workflow'[w].ticket, approval'[w].action, approval'[w].status,
               approval'[w].decider>> \in OldRequests
  <2>1. PICK t \in TicketsWithHistory : w = id[t]
    BY <1>4, <1>9 DEF NoApproval, Absent
  <2>2. approval'[w] = BackfilledApproval(t) /\ workflow'[w].ticket = t /\ t \in Tickets
    BY <1>4, <1>5, <1>6, <2>1
  <2>3. OldApprovalsOf(t) # {}
    BY <1>1, <1>9, <2>2, BackfillKeepsRows DEF NoApproval, Absent
  <2>4. PICK p \in OldApprovalsOf(t) : /\ approval'[w].status = oldApproval[p].status
                                       /\ approval'[w].action = oldApproval[p].action
                                       /\ approval'[w].decider = oldApproval[p].decider
    BY <1>1, <2>2, <2>3, BackfillKeepsRows
  <2>5. oldApproval[p].ticket = t /\ p \in WorkflowIds
    BY DEF OldApprovalsOf
  <2> QED BY <1>9, <2>2, <2>4, <2>5 DEF OldRequests
<1>10. ASSUME NEW p \in WorkflowIds, oldApproval[p].status # Absent
       PROVE  <<oldApproval[p].ticket, oldApproval[p].action, oldApproval[p].status,
                oldApproval[p].decider>> \in Requests'
  <2> DEFINE t == oldApproval[p].ticket
  <2>1. t \in Tickets
    BY <1>1, <1>10, OldApprovalColumns DEF LegacyInv, NoOldApproval
  <2>2. p \in OldApprovalsOf(t) /\ t \in TicketsWithHistory
    BY <2>1 DEF OldApprovalsOf, TicketsWithHistory
  <2> HIDE DEF t
  <2>3. /\ approval'[id[t]].status = oldApproval[p].status
        /\ approval'[id[t]].action = oldApproval[p].action
        /\ approval'[id[t]].decider = oldApproval[p].decider
        /\ id[t] \in WorkflowIds /\ workflow'[id[t]].ticket = t
    BY <1>1, <1>4, <1>5, <1>6, <1>10, <2>1, <2>2, BackfillKeepsRows
  <2>4. <<workflow'[id[t]].ticket, approval'[id[t]].action, approval'[id[t]].status,
          approval'[id[t]].decider>> \in Requests'
    BY <1>10, <2>3 DEF Requests
  <2> QED BY <2>3, <2>4 DEF t
<1>11. Executed' = OldExecuted
  BY <1>7, <1>8 DEF Executed, OldExecuted
<1>12. Requests' = OldRequests
  BY <1>9, <1>10 DEF Requests, OldRequests
<1> QED BY <1>2, <1>3, <1>11, <1>12

\* And so does downgrade().
LEMMA DowngradeKeepsDecisions ==
  ASSUME BackfillInv, Downgrade
  PROVE  /\ OldExecuted' = Executed /\ OldExecuted = {} /\ Executed' = {}
         /\ OldRequests' = Requests /\ OldRequests = {} /\ Requests' = {}
<1> USE NoneAssumption
<1>1. OldTablesEmpty /\ MigratedInv
  BY DEF BackfillInv, Downgrade
<1>2. OldExecuted = {} /\ OldRequests = {}
  BY <1>1 DEF OldTablesEmpty, OldExecuted, OldRequests, NoOldMutation, NoOldApproval, Absent
<1>3. Executed' = {} /\ Requests' = {}
  BY DEF Downgrade, Executed, Requests, NoApproval, Absent
<1>4. ASSUME NEW w \in WorkflowIds
      PROVE  /\ oldMutation'[w].executed <=> mutation[w] # None
             /\ mutation[w] # None => /\ oldMutation'[w].ticket = workflow[w].ticket
                                      /\ oldMutation'[w].action = mutation[w]
             /\ oldApproval'[w].status = approval[w].status
             /\ approval[w].status # Absent =>
                  /\ oldApproval'[w].ticket = workflow[w].ticket
                  /\ oldApproval'[w].action = approval[w].action
                  /\ oldApproval'[w].decider = approval[w].decider
  BY DEF Downgrade, DowngradedApproval, NoOldMutation, NoOldApproval, Absent
<1>5. OldExecuted' = Executed
  BY <1>4 DEF OldExecuted, Executed
<1>6. OldRequests' = Requests
  BY <1>4 DEF OldRequests, Requests
<1> QED BY <1>2, <1>3, <1>5, <1>6

\* upgrade() and downgrade() neither forget nor invent an executed action, a
\* request that waits for a human, a decision or a decider, whatever the history,
\* and however often they alternate.
THEOREM DecisionsSurviveRevisions == BackfillSpec => RevisionsKeepDecisions
<1> DEFINE Kept == revision' # revision =>
                     /\ Executed' \cup OldExecuted' = Executed \cup OldExecuted
                     /\ Requests' \cup OldRequests' = Requests \cup OldRequests
<1>1. ASSUME BackfillInv, [BackfillNext]_backfillVars PROVE Kept
  <2>1. CASE Upgrade
    BY <1>1, <2>1, UpgradeKeepsDecisions
  <2>2. CASE Downgrade
    BY <1>1, <2>2, DowngradeKeepsDecisions
  <2>3. CASE Command
    BY <2>3 DEF Command
  <2>4. CASE UNCHANGED backfillVars
    BY <2>4 DEF backfillVars
  <2> QED BY <1>1, <2>1, <2>2, <2>3, <2>4 DEF BackfillNext
<1>2. BackfillSpec => [][Kept]_backfillVars
  BY <1>1, BackfillInvariance, PTL DEF BackfillSpec
<1> QED BY <1>2, PTL DEF RevisionsKeepDecisions
=============================================================================
