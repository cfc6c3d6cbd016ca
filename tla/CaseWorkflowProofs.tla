------------------------- MODULE CaseWorkflowProofs -------------------------
(***************************************************************************)
(* CaseWorkflow, proved for any number of tickets, keys, actions and rows. *)
(***************************************************************************)
EXTENDS CaseWorkflow, TLAPS

\* The strengthening: an absent row is blank everywhere and a row that exists is
\* complete.  A request names a run, except the approved ones of a seed: what
\* follows holds of tables that start with executed cycles nobody ran, too.
RowsAreComplete ==
  /\ \A w \in WorkflowIds :
       /\ workflow[w].status = Absent =>
            ledger[w] = {} /\ approval[w].status = Absent
       /\ workflow[w].status # Absent =>
            /\ workflow[w].ticket \in Tickets
            /\ workflow[w].sequence >= 1
       /\ IF approval[w].status = Absent THEN approval[w] = NoApproval
          ELSE approval[w].run = None => approval[w].status = "approved"
  /\ \A r \in RunIds :
       IF run[r].status = Absent THEN run[r] = NoRun
       ELSE run[r].ticket \in Tickets /\ run[r].key \in Keys

\* DecisionTracksWorkflow of tables with such a seed.
DecisionsAgree ==
  /\ \A w \in WorkflowIds :
       /\ approval[w].status = "pending" <=> workflow[w].status = "awaiting_approval"
       /\ approval[w].status = "approved" <=> workflow[w].status = "mock_executed"
       /\ approval[w].status = "rejected" <=> workflow[w].status = "rejected"
       /\ approval[w].status = "withdrawn" => workflow[w].status = "cancelled"
       /\ mutation[w] = IF approval[w].status = "approved"
                        THEN approval[w].action ELSE None
       /\ approval[w].status # Absent =>
            /\ approval[w].action # None
            /\ approval[w].run # None => run[approval[w].run].workflow = w
  /\ \A r \in RunIds : run[r].status = "completed" =>
       \/ workflow[run[r].workflow].status = "completed_no_action"
       \/ approval[run[r].workflow].run = r

\* Without a seed every request names a run.
RequestsNameRuns ==
  \A w \in WorkflowIds : approval[w].status # Absent => approval[w].run # None

IInv ==
  /\ TypeOK
  /\ RowsAreComplete
  /\ OneActiveCycle
  /\ RunTracksWorkflow
  /\ DecisionsAgree
  /\ NoDoubleExecution
  /\ KeyNamesOneRun
  /\ LedgerExplainsStatus
  /\ DecidersAreAuthorised

-----------------------------------------------------------------------------
(* The transition table, row by row.                                       *)

\* What the table says of each target a command moves a workflow to.
LEMMA TransitionTable ==
  ASSUME NEW source \in WorkflowStatuses \cup {Absent}, NEW target
  PROVE  /\ CanTransition(source, target) /\ source # Absent =>
              source \in ActiveStatuses /\ source # target
         /\ CanTransition(source, "completed_no_action") => source = "investigating"
         /\ CanTransition(source, "awaiting_approval") => source = "investigating"
         /\ CanTransition(source, "needs_retry") => source = "investigating"
         /\ source \in ActiveStatuses => CanTransition(source, "cancelled")
         /\ CanTransition("awaiting_approval", "mock_executed")
         /\ CanTransition("awaiting_approval", "rejected")
         /\ CanTransition("needs_retry", "investigating")
         /\ CanTransition(Absent, "investigating")
BY DEF CanTransition, WorkflowStatuses, ActiveStatuses, Absent,
       WorkflowTransitions, InitialStatus

\* One status change: what it leaves alone and what it sets.
LEMMA MoveEffect ==
  ASSUME TypeOK, NEW w \in WorkflowIds, NEW to \in WorkflowStatuses,
         workflow[w].status # Absent,
         CanTransition(workflow[w].status, to),
         Move(w, workflow[w], to)
  PROVE  /\ workflow' \in [WorkflowIds -> WorkflowRows]
         /\ ledger' \in [WorkflowIds -> SUBSET LedgerRows]
         /\ workflow[w].status \in ActiveStatuses
         /\ to # Absent /\ to # workflow[w].status
         /\ workflow'[w].ticket = workflow[w].ticket
         /\ workflow'[w].cycle = workflow[w].cycle
         /\ workflow'[w].status = to
         /\ workflow'[w].sequence = workflow[w].sequence + 1
         /\ ledger'[w] = ledger[w] \cup {[sequence |-> workflow[w].sequence + 1,
                                          from |-> workflow[w].status, to |-> to]}
         /\ \A v \in WorkflowIds \ {w} :
              workflow'[v] = workflow[v] /\ ledger'[v] = ledger[v]
<1> DEFINE moved == [workflow[w] EXCEPT !.status = to]
<1>1. moved \in WorkflowRows
  BY DEF TypeOK, WorkflowRows
<1>2. [moved EXCEPT !.sequence = @ + 1] \in WorkflowRows
  <2> HIDE DEF moved
  <2> QED BY <1>1 DEF WorkflowRows
<1>3. moved.sequence = workflow[w].sequence
  OBVIOUS
<1>4. workflow' = [workflow EXCEPT ![w] = [moved EXCEPT !.sequence = @ + 1]]
  BY DEF Move
<1>5. workflow' \in [WorkflowIds -> WorkflowRows]
  BY <1>2, <1>4 DEF TypeOK
<1>6. [sequence |-> workflow[w].sequence + 1,
       from |-> workflow[w].status, to |-> to] \in LedgerRows
  BY DEF TypeOK, WorkflowRows, LedgerRows
<1>7. ledger' \in [WorkflowIds -> SUBSET LedgerRows]
  BY <1>6 DEF TypeOK, Move
<1>8. /\ workflow[w].status \in ActiveStatuses
      /\ to # Absent /\ to # workflow[w].status
  BY TransitionTable DEF TypeOK, WorkflowRows, WorkflowStatuses, Absent
<1>9. /\ workflow'[w].ticket = workflow[w].ticket
      /\ workflow'[w].cycle = workflow[w].cycle
      /\ workflow'[w].status = to
      /\ workflow'[w].sequence = workflow[w].sequence + 1
      /\ ledger'[w] = ledger[w] \cup {[sequence |-> workflow[w].sequence + 1,
                                       from |-> workflow[w].status, to |-> to]}
      /\ \A v \in WorkflowIds \ {w} :
           workflow'[v] = workflow[v] /\ ledger'[v] = ledger[v]
  BY DEF TypeOK, Move
<1> QED BY <1>5, <1>7, <1>8, <1>9

\* One legal status change keeps the cycles of a ticket in order.
LEMMA MoveKeepsCycles ==
  ASSUME TypeOK, OneActiveCycle,
         NEW w \in WorkflowIds, NEW to \in WorkflowStatuses,
         workflow[w].status # Absent,
         CanTransition(workflow[w].status, to),
         Move(w, workflow[w], to)
  PROVE  /\ OneActiveCycle'
         /\ \A v \in WorkflowIds : /\ workflow'[v].ticket = workflow[v].ticket
                                   /\ Exists(v)' <=> Exists(v)
<1>1. /\ workflow'[w].ticket = workflow[w].ticket
      /\ workflow'[w].cycle = workflow[w].cycle
      /\ workflow'[w].status = to
      /\ \A v \in WorkflowIds \ {w} : workflow'[v] = workflow[v]
      /\ workflow[w].status \in ActiveStatuses
      /\ workflow[w].status # Absent /\ to # Absent
  BY MoveEffect
<1>2. \A t : WorkflowsOf(t)' = WorkflowsOf(t)
  BY <1>1 DEF WorkflowsOf, Exists
<1>3. \A v \in WorkflowIds : /\ Terminal(v) => Terminal(v)'
                             /\ Exists(v)' <=> Exists(v)
                             /\ workflow'[v].ticket = workflow[v].ticket
                             /\ workflow'[v].cycle = workflow[v].cycle
  BY <1>1 DEF Terminal, TerminalStatuses, ActiveStatuses, Exists
<1>4. OneActiveCycle'
  BY <1>2, <1>3 DEF OneActiveCycle, WorkflowsOf
<1> QED BY <1>3, <1>4

\* It also keeps the ledger in step with the status.
LEMMA MoveStep ==
  ASSUME TypeOK, OneActiveCycle, LedgerExplainsStatus, RowsAreComplete,
         NEW w \in WorkflowIds, NEW to \in WorkflowStatuses,
         workflow[w].status # Absent,
         CanTransition(workflow[w].status, to),
         Move(w, workflow[w], to)
  PROVE  /\ OneActiveCycle'
         /\ LedgerExplainsStatus'
         /\ \A v \in WorkflowIds : /\ workflow'[v].ticket = workflow[v].ticket
                                   /\ Exists(v)' <=> Exists(v)
<1> DEFINE row == [sequence |-> workflow[w].sequence + 1,
                   from |-> workflow[w].status, to |-> to]
<1>1. /\ workflow'[w].status = to
      /\ workflow'[w].sequence = workflow[w].sequence + 1
      /\ ledger'[w] = ledger[w] \cup {row}
      /\ \A v \in WorkflowIds \ {w} :
           workflow'[v] = workflow[v] /\ ledger'[v] = ledger[v]
  BY MoveEffect
<1>2. /\ workflow[w].status \in ActiveStatuses
      /\ workflow[w].status # Absent /\ to # Absent
  BY MoveEffect
<1>3. /\ OneActiveCycle'
      /\ \A v \in WorkflowIds : /\ workflow'[v].ticket = workflow[v].ticket
                                /\ Exists(v)' <=> Exists(v)
  BY MoveKeepsCycles
<1>4. LedgerExplainsStatus'
  <2> SUFFICES ASSUME NEW v \in WorkflowIds, Exists(v)'
               PROVE  LedgerExplainsStatus!(v)!2'
    BY DEF LedgerExplainsStatus
  <2>1. CASE v # w
    BY <2>1, <1>1, <1>3 DEF LedgerExplainsStatus
  <2>2. CASE v = w
    <3> DEFINE n == workflow[w].sequence
    <3>1. /\ {r.sequence : r \in ledger[w]} = 1..n
          /\ \A r \in ledger[w] : /\ CanTransition(r.from, r.to)
                                  /\ r.sequence = 1 <=> r.from = Absent
                                  /\ r.sequence = n => r.to = workflow[w].status
          /\ \A r1, r2 \in ledger[w] :
               /\ r1.sequence = r2.sequence => r1 = r2
               /\ r2.sequence = r1.sequence + 1 => r2.from = r1.to
      BY DEF LedgerExplainsStatus, Exists
    <3>2. n \in Nat /\ n >= 1
      BY DEF TypeOK, WorkflowRows, RowsAreComplete
    <3>3. \A r \in ledger[w] : r.sequence \in 1..n
      BY <3>1
    <3>4. /\ row.sequence = n + 1
          /\ row.from = workflow[w].status
          /\ row.to = to
      OBVIOUS
    <3> HIDE DEF row, n
    <3>5. {r.sequence : r \in ledger'[w]} = 1..(n + 1)
      <4>1. {r.sequence : r \in ledger'[w]}
              = {r.sequence : r \in ledger[w]} \cup {row.sequence}
        BY <1>1
      <4>2. 1..(n + 1) = (1..n) \cup {n + 1}
        BY <3>2
      <4> QED BY <4>1, <4>2, <3>1, <3>4
    <3>6. \A r \in ledger'[w] : /\ CanTransition(r.from, r.to)
                                /\ r.sequence = 1 <=> r.from = Absent
                                /\ r.sequence = n + 1 => r.to = to
      BY <1>1, <1>2, <3>1, <3>2, <3>4
    <3>7. \A r1, r2 \in ledger'[w] :
            /\ r1.sequence = r2.sequence => r1 = r2
            /\ r2.sequence = r1.sequence + 1 => r2.from = r1.to
      <4> SUFFICES ASSUME NEW r1 \in ledger'[w], NEW r2 \in ledger'[w]
                   PROVE  /\ r1.sequence = r2.sequence => r1 = r2
                          /\ r2.sequence = r1.sequence + 1 => r2.from = r1.to
        OBVIOUS
      <4>1. CASE r1 \in ledger[w] /\ r2 \in ledger[w]
        BY <4>1, <3>1
      <4>2. CASE r1 = row /\ r2 \in ledger[w]
        BY <4>2, <3>2, <3>3, <3>4
      <4>3. CASE r1 \in ledger[w] /\ r2 = row
        BY <4>3, <3>1, <3>2, <3>4
      <4>4. CASE r1 = row /\ r2 = row
        BY <4>4, <3>2, <3>4
      <4> QED BY <1>1, <4>1, <4>2, <4>3, <4>4
    <3>8. workflow'[w].sequence = n + 1 /\ workflow'[w].status = to
      BY <1>1 DEF n
    <3> QED BY <2>2, <3>5, <3>6, <3>7, <3>8
  <2> QED BY <2>1, <2>2
<1> QED BY <1>3, <1>4

\* No ticket has two active workflows.
LEMMA OneActive ==
  ASSUME TypeOK, OneActiveCycle,
         NEW v \in WorkflowIds, NEW w \in WorkflowIds, Active(v), Active(w),
         workflow[v].ticket = workflow[w].ticket
  PROVE  v = w
<1>1. Exists(v) /\ Exists(w) /\ ~Terminal(v) /\ ~Terminal(w)
  BY DEF Active, Exists, Terminal, ActiveStatuses, TerminalStatuses, Absent
<1>2. workflow[v].cycle \in Nat /\ workflow[w].cycle \in Nat
  BY DEF TypeOK, WorkflowRows
<1> QED BY <1>1, <1>2 DEF OneActiveCycle, WorkflowsOf

\* A step that executes nothing and proposes nothing new.
LEMMA NothingExecuted ==
  ASSUME NoDoubleExecution, mutation' = mutation,
         \A v \in WorkflowIds : workflow'[v].ticket = workflow[v].ticket,
         \A v \in WorkflowIds : approval'[v].status = "pending" =>
                                  approval'[v] = approval[v]
  PROVE  NoDoubleExecution'
BY DEF NoDoubleExecution, IsExecuted

-----------------------------------------------------------------------------
(* One lemma per command: it keeps the strengthened invariant.             *)

\* A retry moves the workflow back to investigating and inserts its next run.
LEMMA StartRetryStep ==
  ASSUME IInv,
         NEW t \in Tickets, NEW k \in Keys, NEW w \in WorkflowIds,
         NEW r \in RunIds, StartRetry(t, k, w, r)
  PROVE  IInv'
<1> USE NoneAssumption DEF IInv
<1>1. /\ w \in WorkflowIds
      /\ workflow[w].status = "needs_retry"
      /\ CanTransition(workflow[w].status, "investigating")
      /\ Move(w, workflow[w], "investigating")
      /\ "investigating" \in WorkflowStatuses
  BY TransitionTable
     DEF TypeOK, WorkflowRows, RunRows, RowsAreComplete, RunTracksWorkflow,
         RunExists, WorkflowsOf, Absent, WorkflowStatuses, StartRetry,
         InsertRetry
<1>2. /\ run' = [run EXCEPT ![r] = NewRun(t, k, w)]
      /\ ~RunExists(r)
      /\ RunWithKey(t, k) = {}
      /\ w \in WorkflowsOf(t)
      /\ approval' = approval
      /\ mutation' = mutation
  BY DEF StartRetry, InsertRetry, Absent
<1>3. /\ workflow' \in [WorkflowIds -> WorkflowRows]
      /\ ledger' \in [WorkflowIds -> SUBSET LedgerRows]
      /\ workflow'[w].status = "investigating"
      /\ workflow'[w].sequence = workflow[w].sequence + 1
      /\ \A v \in WorkflowIds \ {w} :
           workflow'[v] = workflow[v] /\ ledger'[v] = ledger[v]
  BY <1>1, MoveEffect DEF Absent
<1>4. /\ OneActiveCycle'
      /\ LedgerExplainsStatus'
      /\ \A v \in WorkflowIds : /\ workflow'[v].ticket = workflow[v].ticket
                                /\ Exists(v)' <=> Exists(v)
  BY <1>1, MoveStep DEF Absent
<1>5. /\ workflow[w].ticket = t
      /\ run[r].status = Absent
      /\ \A q \in RunIds : RunExists(q) /\ run[q].ticket = t => run[q].key # k
      /\ run'[r].ticket = t /\ run'[r].key = k
      /\ run'[r].workflow = w /\ run'[r].status = "running"
      /\ \A q \in RunIds \ {r} : run'[q] = run[q]
      /\ approval' = approval
      /\ mutation' = mutation
  BY <1>1, <1>2
     DEF TypeOK, RunRows, ApprovalRows, NewRun, RunWithKey, RunsOf,
         WorkflowsOf, RunTracksWorkflow, RunExists
<1>6. TypeOK'
  <2>1. run' \in [RunIds -> RunRows]
    BY <1>2 DEF TypeOK, RunRows, RunStatuses, NewRun
  <2>2. approval' \in [WorkflowIds -> ApprovalRows]
    BY <1>2 DEF TypeOK
  <2>3. mutation' \in [WorkflowIds -> Actions \cup {None}]
    BY <1>2 DEF TypeOK
  <2> QED BY <1>3, <2>1, <2>2, <2>3 DEF TypeOK
<1>7. RowsAreComplete'
  BY SMTT(20)
     DEF RowsAreComplete, RunTracksWorkflow, DecisionsAgree, RunExists,
         WorkflowsOf, Exists, NoRun, NoApproval, Move, TypeOK, WorkflowRows,
         RunRows, ApprovalRows, Absent, StartRetry, InsertRetry, NewRun
<1>8. RunTracksWorkflow'
  BY SMTT(20)
     DEF RunTracksWorkflow, RowsAreComplete, WorkflowsOf, Exists, RunExists,
         NoRun, Move, TypeOK, WorkflowRows, RunRows, ApprovalRows, Absent,
         StartRetry, InsertRetry, NewRun
<1>9. DecisionsAgree'
  BY SMTT(20)
     DEF DecisionsAgree, RunTracksWorkflow, RowsAreComplete,
         WorkflowsOf, Exists, RunExists, NoRun, NoApproval, Move, TypeOK,
         WorkflowRows, RunRows, ApprovalRows, Absent, StartRetry, InsertRetry,
         NewRun
<1>10. NoDoubleExecution'
  BY <1>2, <1>4, NothingExecuted
<1>11. KeyNamesOneRun'
  BY SMTT(20)
     DEF KeyNamesOneRun, RunExists, RunWithKey, RunsOf, TypeOK, WorkflowRows,
         RunRows, ApprovalRows, Absent, StartRetry, InsertRetry, NewRun
<1>12. DecidersAreAuthorised'
  BY <1>1, <1>3, <1>4, <1>5
     DEF DecidersAreAuthorised, TypeOK, WorkflowRows, RunRows
<1> QED BY <1>4, <1>6, <1>7, <1>8, <1>9, <1>10, <1>11, <1>12

\* What finalize_run without a request and fail_run have in common: the running
\* run ends, and its investigating workflow moves on.
LEMMA EndRunStep ==
  ASSUME IInv, NEW r \in RunIds,
         NEW to \in {"completed_no_action", "needs_retry", "failed"},
         NEW ended \in {"completed", "failed"},
         ended = "completed" => to = "completed_no_action",
         run[r].status = "running",
         CanTransition(workflow[run[r].workflow].status, to),
         Move(run[r].workflow, workflow[run[r].workflow], to),
         run' = [run EXCEPT ![r].status = ended],
         approval' = approval, mutation' = mutation
  PROVE  IInv'
<1> USE NoneAssumption DEF IInv
<1> DEFINE w == run[r].workflow
<1>1. /\ w \in WorkflowIds
      /\ workflow[w].status = "investigating"
      /\ CanTransition(workflow[w].status, to)
      /\ Move(w, workflow[w], to)
      /\ to \in WorkflowStatuses
  BY TransitionTable
     DEF TypeOK, WorkflowRows, RunRows, RowsAreComplete, RunTracksWorkflow,
         RunExists, WorkflowsOf, Absent, WorkflowStatuses
<1>2. /\ run' = [run EXCEPT ![r].status = ended]
      /\ run[r].status = "running"
      /\ approval' = approval
      /\ mutation' = mutation
  BY DEF Absent
<1> HIDE DEF w
<1>3. /\ workflow' \in [WorkflowIds -> WorkflowRows]
      /\ ledger' \in [WorkflowIds -> SUBSET LedgerRows]
      /\ workflow'[w].status = to
      /\ workflow'[w].sequence = workflow[w].sequence + 1
      /\ \A v \in WorkflowIds \ {w} :
           workflow'[v] = workflow[v] /\ ledger'[v] = ledger[v]
  BY <1>1, MoveEffect DEF Absent
<1>4. /\ OneActiveCycle'
      /\ LedgerExplainsStatus'
      /\ \A v \in WorkflowIds : /\ workflow'[v].ticket = workflow[v].ticket
                                /\ Exists(v)' <=> Exists(v)
  BY <1>1, MoveStep DEF Absent
<1>5. /\ run[r].status = "running"
      /\ run'[r].status = ended
      /\ run'[r].ticket = run[r].ticket
      /\ run'[r].key = run[r].key
      /\ run'[r].workflow = run[r].workflow
      /\ \A q \in RunIds \ {r} : run'[q] = run[q]
      /\ run[r].workflow = w
      /\ approval' = approval
      /\ mutation' = mutation
  BY <1>1, <1>2
     DEF TypeOK, RunRows, ApprovalRows, NewRun, RunWithKey, RunsOf,
         WorkflowsOf, RunTracksWorkflow, RunExists, w
<1>6. TypeOK'
  <2>1. run' \in [RunIds -> RunRows]
    BY <1>2 DEF TypeOK, RunRows, RunStatuses
  <2>2. approval' \in [WorkflowIds -> ApprovalRows]
    BY DEF TypeOK
  <2>3. mutation' \in [WorkflowIds -> Actions \cup {None}]
    BY DEF TypeOK
  <2> QED BY <1>3, <2>1, <2>2 DEF TypeOK
<1>7. RowsAreComplete'
  BY SMTT(20)
     DEF RowsAreComplete, RunTracksWorkflow, DecisionsAgree, RunExists,
         WorkflowsOf, Exists, NoRun, NoApproval, Move, TypeOK, WorkflowRows,
         RunRows, ApprovalRows, Absent, w
<1>8. RunTracksWorkflow'
  BY SMTT(20)
     DEF RunTracksWorkflow, RowsAreComplete, WorkflowsOf, Exists, RunExists,
         NoRun, Move, TypeOK, WorkflowRows, RunRows, ApprovalRows, Absent, w
<1>9. DecisionsAgree'
  BY SMTT(20)
     DEF DecisionsAgree, RunTracksWorkflow, RowsAreComplete,
         WorkflowsOf, Exists, RunExists, NoRun, NoApproval, Move, TypeOK,
         WorkflowRows, RunRows, ApprovalRows, Absent, w
<1>10. NoDoubleExecution'
  BY <1>2, <1>4, NothingExecuted
<1>11. KeyNamesOneRun'
  BY SMTT(20)
     DEF KeyNamesOneRun, RunExists, RunWithKey, RunsOf, TypeOK, WorkflowRows,
         RunRows, ApprovalRows, Absent, w
<1>12. DecidersAreAuthorised'
  BY <1>1, <1>3, <1>4, <1>5
     DEF DecidersAreAuthorised, TypeOK, WorkflowRows, RunRows
<1> QED BY <1>4, <1>6, <1>7, <1>8, <1>9, <1>10, <1>11, <1>12

\* The proposal is new to the ticket, so nothing of it is executed yet.
LEMMA FinalizeForApprovalStep ==
  ASSUME IInv, NEW r \in RunIds, NEW a \in Actions, FinalizeForApproval(r, a)
  PROVE  IInv'
<1> USE NoneAssumption DEF IInv
<1> DEFINE w == run[r].workflow
<1>1. /\ w \in WorkflowIds
      /\ workflow[w].status = "investigating"
      /\ CanTransition(workflow[w].status, "awaiting_approval")
      /\ Move(w, workflow[w], "awaiting_approval")
      /\ "awaiting_approval" \in WorkflowStatuses
  BY TransitionTable
     DEF TypeOK, WorkflowRows, RunRows, RowsAreComplete, RunTracksWorkflow,
         RunExists, WorkflowsOf, Absent, WorkflowStatuses, FinalizeForApproval,
         WriteProposal, MayEnd
<1>2. /\ run' = [run EXCEPT ![r].status = "completed"]
      /\ run[r].status = "running"
      /\ approval[w].status = Absent
      /\ ~IsExecuted(run[r].ticket, a)
      /\ approval' = [approval EXCEPT
           ![w] = [status |-> "pending", action |-> a, run |-> r, decider |-> None]]
      /\ mutation' = mutation
  BY DEF FinalizeForApproval, WriteProposal, MayEnd
<1> HIDE DEF w
<1>3. /\ workflow' \in [WorkflowIds -> WorkflowRows]
      /\ ledger' \in [WorkflowIds -> SUBSET LedgerRows]
      /\ workflow'[w].status = "awaiting_approval"
      /\ workflow'[w].sequence = workflow[w].sequence + 1
      /\ \A v \in WorkflowIds \ {w} :
           workflow'[v] = workflow[v] /\ ledger'[v] = ledger[v]
  BY <1>1, MoveEffect DEF Absent
<1>4. /\ OneActiveCycle'
      /\ LedgerExplainsStatus'
      /\ \A v \in WorkflowIds : /\ workflow'[v].ticket = workflow[v].ticket
                                /\ Exists(v)' <=> Exists(v)
  BY <1>1, MoveStep DEF Absent
<1>5. /\ run[r].status = "running"
      /\ run'[r].status = "completed"
      /\ run'[r].ticket = run[r].ticket
      /\ run'[r].key = run[r].key
      /\ run'[r].workflow = run[r].workflow
      /\ \A q \in RunIds \ {r} : run'[q] = run[q]
      /\ run[r].workflow = w
      /\ workflow[w].ticket = run[r].ticket
      /\ approval[w].status = Absent
      /\ approval'[w].status = "pending" /\ approval'[w].action = a
      /\ approval'[w].run = r /\ approval'[w].decider = None
      /\ \A v \in WorkflowIds \ {w} : approval'[v] = approval[v]
      /\ mutation' = mutation
  BY <1>1, <1>2
     DEF TypeOK, RunRows, ApprovalRows, NewRun, RunWithKey, RunsOf,
         WorkflowsOf, RunTracksWorkflow, RunExists, Absent, w
<1>6. TypeOK'
  <2>1. run' \in [RunIds -> RunRows]
    <3>1. run' = [run EXCEPT ![r].status = "completed"]
      BY <1>2
    <3> QED BY <3>1 DEF TypeOK, RunRows, RunStatuses
  <2>2. approval' \in [WorkflowIds -> ApprovalRows]
    BY <1>1, <1>2 DEF TypeOK, ApprovalRows, ApprovalStatuses
  <2>3. mutation' \in [WorkflowIds -> Actions \cup {None}]
    BY <1>2 DEF TypeOK
  <2> QED BY <1>3, <2>1, <2>2, <2>3 DEF TypeOK
<1>7. RowsAreComplete'
  BY SMTT(20)
     DEF RowsAreComplete, RunTracksWorkflow, DecisionsAgree, RunExists,
         WorkflowsOf, Exists, NoRun, NoApproval, Move, TypeOK, WorkflowRows,
         RunRows, ApprovalRows, Absent, FinalizeForApproval, WriteProposal,
         MayEnd, w
<1>8. RunTracksWorkflow'
  BY SMTT(20)
     DEF RunTracksWorkflow, RowsAreComplete, WorkflowsOf, Exists, RunExists,
         NoRun, Move, TypeOK, WorkflowRows, RunRows, ApprovalRows, Absent,
         FinalizeForApproval, WriteProposal, MayEnd, w
<1>9. DecisionsAgree'
  BY SMTT(20)
     DEF DecisionsAgree, RunTracksWorkflow, RowsAreComplete,
         WorkflowsOf, Exists, RunExists, NoRun, NoApproval, Move, TypeOK,
         WorkflowRows, RunRows, ApprovalRows, Absent, FinalizeForApproval,
         WriteProposal, MayEnd, w
<1>10. NoDoubleExecution'
  BY <1>1, <1>2, <1>4, <1>5 DEF NoDoubleExecution, IsExecuted
<1>11. KeyNamesOneRun'
  BY SMTT(20)
     DEF KeyNamesOneRun, RunExists, RunWithKey, RunsOf, TypeOK, WorkflowRows,
         RunRows, ApprovalRows, Absent, FinalizeForApproval, WriteProposal,
         MayEnd, w
<1>12. DecidersAreAuthorised'
  BY <1>1, <1>3, <1>4, <1>5
     DEF DecidersAreAuthorised, TypeOK, WorkflowRows, RunRows, Absent
<1> QED BY <1>4, <1>6, <1>7, <1>8, <1>9, <1>10, <1>11, <1>12

\* The awaiting workflow is the only active one of its ticket, so no other
\* request for the action it executes is pending.
LEMMA ApproveAndExecuteStep ==
  ASSUME IInv,
         NEW w \in WorkflowIds, NEW role \in Roles, ApproveAndExecute(w, role)
  PROVE  IInv'
<1> USE NoneAssumption DEF IInv
<1>1. /\ w \in WorkflowIds
      /\ workflow[w].status = "awaiting_approval"
      /\ CanTransition(workflow[w].status, "mock_executed")
      /\ Move(w, workflow[w], "mock_executed")
      /\ "mock_executed" \in WorkflowStatuses
  BY TransitionTable
     DEF TypeOK, WorkflowRows, RunRows, RowsAreComplete, RunTracksWorkflow,
         RunExists, WorkflowsOf, Absent, WorkflowStatuses, ApproveAndExecute,
         WriteExecution
<1>2. /\ May(role, "approval.decide")
      /\ approval[w].status = "pending"
      /\ mutation[w] = None
      /\ ~IsExecuted(workflow[w].ticket, approval[w].action)
      /\ approval' = [approval EXCEPT
           ![w] = [approval[w] EXCEPT !.status = "approved", !.decider = role]]
      /\ mutation' = [mutation EXCEPT ![w] = approval[w].action]
      /\ run' = run
  BY DEF ApproveAndExecute, WriteExecution, Absent
<1>3. /\ workflow' \in [WorkflowIds -> WorkflowRows]
      /\ ledger' \in [WorkflowIds -> SUBSET LedgerRows]
      /\ workflow'[w].status = "mock_executed"
      /\ workflow'[w].sequence = workflow[w].sequence + 1
      /\ \A v \in WorkflowIds \ {w} :
           workflow'[v] = workflow[v] /\ ledger'[v] = ledger[v]
  BY <1>1, MoveEffect DEF Absent
<1>4. /\ OneActiveCycle'
      /\ LedgerExplainsStatus'
      /\ \A v \in WorkflowIds : /\ workflow'[v].ticket = workflow[v].ticket
                                /\ Exists(v)' <=> Exists(v)
  BY <1>1, MoveStep DEF Absent
<1>5. /\ May(role, "approval.decide")
      /\ approval[w].status = "pending"
      /\ approval'[w].status = "approved" /\ approval'[w].decider = role
      /\ approval'[w].action = approval[w].action
      /\ approval'[w].run = approval[w].run
      /\ \A v \in WorkflowIds \ {w} : approval'[v] = approval[v]
      /\ mutation'[w] = approval[w].action
      /\ \A v \in WorkflowIds \ {w} : mutation'[v] = mutation[v]
      /\ run' = run
  BY <1>1, <1>2
     DEF TypeOK, RunRows, ApprovalRows, NewRun, RunWithKey, RunsOf,
         WorkflowsOf, RunTracksWorkflow
<1>6. TypeOK'
  <2>1. run' \in [RunIds -> RunRows]
    BY <1>2 DEF TypeOK
  <2>2. approval' \in [WorkflowIds -> ApprovalRows]
    <3> DEFINE decided == [approval[w] EXCEPT !.status = "approved"]
    <3>1. decided \in ApprovalRows
      BY DEF TypeOK, ApprovalRows, ApprovalStatuses
    <3>2. [decided EXCEPT !.decider = role] \in ApprovalRows
      <4> HIDE DEF decided
      <4> QED BY <3>1 DEF ApprovalRows
    <3> QED BY <1>2, <3>2 DEF TypeOK
  <2>3. mutation' \in [WorkflowIds -> Actions \cup {None}]
    BY <1>2 DEF TypeOK, ApprovalRows
  <2> QED BY <1>3, <2>1, <2>2, <2>3 DEF TypeOK
<1>7. RowsAreComplete'
  BY SMTT(20)
     DEF RowsAreComplete, RunTracksWorkflow, DecisionsAgree, RunExists,
         WorkflowsOf, Exists, NoRun, NoApproval, Move, TypeOK, WorkflowRows,
         RunRows, ApprovalRows, Absent, ApproveAndExecute, WriteExecution
<1>8. RunTracksWorkflow'
  BY SMTT(20)
     DEF RunTracksWorkflow, RowsAreComplete, WorkflowsOf, Exists, RunExists,
         NoRun, Move, TypeOK, WorkflowRows, RunRows, ApprovalRows, Absent,
         ApproveAndExecute, WriteExecution
<1>9. DecisionsAgree'
  BY SMTT(20)
     DEF DecisionsAgree, RunTracksWorkflow, RowsAreComplete,
         WorkflowsOf, Exists, RunExists, NoRun, NoApproval, Move, TypeOK,
         WorkflowRows, RunRows, ApprovalRows, Absent, ApproveAndExecute,
         WriteExecution
<1>10. NoDoubleExecution'
  <2>1. \A v \in WorkflowIds : approval[v].status = "pending" /\ v # w =>
                                workflow[v].ticket # workflow[w].ticket
    BY <1>1, OneActive DEF DecisionsAgree, Active, ActiveStatuses
  <2> QED BY <1>2, <1>4, <1>5, <2>1 DEF NoDoubleExecution, IsExecuted
<1>11. KeyNamesOneRun'
  BY SMTT(20)
     DEF KeyNamesOneRun, RunExists, RunWithKey, RunsOf, TypeOK, WorkflowRows,
         RunRows, ApprovalRows, Absent, ApproveAndExecute, WriteExecution
<1>12. DecidersAreAuthorised'
  BY <1>1, <1>3, <1>4, <1>5
     DEF DecidersAreAuthorised, TypeOK, WorkflowRows, RunRows
<1> QED BY <1>4, <1>6, <1>7, <1>8, <1>9, <1>10, <1>11, <1>12

\* A rejection settles the workflow and its request together.
LEMMA RejectApprovalStep ==
  ASSUME IInv, NEW w \in WorkflowIds, NEW role \in Roles, RejectApproval(w, role)
  PROVE  IInv'
<1> USE NoneAssumption DEF IInv
<1>1. /\ w \in WorkflowIds
      /\ workflow[w].status = "awaiting_approval"
      /\ CanTransition(workflow[w].status, "rejected")
      /\ Move(w, workflow[w], "rejected")
      /\ "rejected" \in WorkflowStatuses
  BY TransitionTable
     DEF TypeOK, WorkflowRows, RunRows, RowsAreComplete, RunTracksWorkflow,
         RunExists, WorkflowsOf, Absent, WorkflowStatuses, RejectApproval,
         WriteRejection
<1>2. /\ May(role, "approval.decide")
      /\ approval[w].status = "pending"
      /\ approval' = [approval EXCEPT
           ![w] = [approval[w] EXCEPT !.status = "rejected", !.decider = role]]
      /\ mutation' = mutation
      /\ run' = run
  BY DEF RejectApproval, WriteRejection, Absent
<1>3. /\ workflow' \in [WorkflowIds -> WorkflowRows]
      /\ ledger' \in [WorkflowIds -> SUBSET LedgerRows]
      /\ workflow'[w].status = "rejected"
      /\ workflow'[w].sequence = workflow[w].sequence + 1
      /\ \A v \in WorkflowIds \ {w} :
           workflow'[v] = workflow[v] /\ ledger'[v] = ledger[v]
  BY <1>1, MoveEffect DEF Absent
<1>4. /\ OneActiveCycle'
      /\ LedgerExplainsStatus'
      /\ \A v \in WorkflowIds : /\ workflow'[v].ticket = workflow[v].ticket
                                /\ Exists(v)' <=> Exists(v)
  BY <1>1, MoveStep DEF Absent
<1>5. /\ May(role, "approval.decide")
      /\ approval[w].status = "pending"
      /\ approval'[w].status = "rejected" /\ approval'[w].decider = role
      /\ approval'[w].action = approval[w].action
      /\ approval'[w].run = approval[w].run
      /\ \A v \in WorkflowIds \ {w} : approval'[v] = approval[v]
      /\ mutation' = mutation
      /\ run' = run
  BY <1>1, <1>2
     DEF TypeOK, RunRows, ApprovalRows, NewRun, RunWithKey, RunsOf,
         WorkflowsOf, RunTracksWorkflow
<1>6. TypeOK'
  <2>1. run' \in [RunIds -> RunRows]
    BY <1>2 DEF TypeOK
  <2>2. approval' \in [WorkflowIds -> ApprovalRows]
    <3> DEFINE decided == [approval[w] EXCEPT !.status = "rejected"]
    <3>1. decided \in ApprovalRows
      BY DEF TypeOK, ApprovalRows, ApprovalStatuses
    <3>2. [decided EXCEPT !.decider = role] \in ApprovalRows
      <4> HIDE DEF decided
      <4> QED BY <3>1 DEF ApprovalRows
    <3> QED BY <1>2, <3>2 DEF TypeOK
  <2>3. mutation' \in [WorkflowIds -> Actions \cup {None}]
    BY <1>2 DEF TypeOK
  <2> QED BY <1>3, <2>1, <2>2, <2>3 DEF TypeOK
<1>7. RowsAreComplete'
  BY SMTT(20)
     DEF RowsAreComplete, RunTracksWorkflow, DecisionsAgree, RunExists,
         WorkflowsOf, Exists, NoRun, NoApproval, Move, TypeOK, WorkflowRows,
         RunRows, ApprovalRows, Absent, RejectApproval, WriteRejection
<1>8. RunTracksWorkflow'
  BY SMTT(20)
     DEF RunTracksWorkflow, RowsAreComplete, WorkflowsOf, Exists, RunExists,
         NoRun, Move, TypeOK, WorkflowRows, RunRows, ApprovalRows, Absent,
         RejectApproval, WriteRejection
<1>9. DecisionsAgree'
  BY SMTT(20)
     DEF DecisionsAgree, RunTracksWorkflow, RowsAreComplete,
         WorkflowsOf, Exists, RunExists, NoRun, NoApproval, Move, TypeOK,
         WorkflowRows, RunRows, ApprovalRows, Absent, RejectApproval,
         WriteRejection
<1>10. NoDoubleExecution'
  BY <1>2, <1>4, NothingExecuted
<1>11. KeyNamesOneRun'
  BY SMTT(20)
     DEF KeyNamesOneRun, RunExists, RunWithKey, RunsOf, TypeOK, WorkflowRows,
         RunRows, ApprovalRows, Absent, RejectApproval, WriteRejection
<1>12. DecidersAreAuthorised'
  BY <1>1, <1>3, <1>4, <1>5
     DEF DecidersAreAuthorised, TypeOK, WorkflowRows, RunRows
<1> QED BY <1>4, <1>6, <1>7, <1>8, <1>9, <1>10, <1>11, <1>12

\* finalize_run without a request.
LEMMA FinalizeNoActionStep ==
  ASSUME IInv, NEW r \in RunIds, FinalizeNoAction(r)
  PROVE  IInv'
BY EndRunStep DEF FinalizeNoAction, WriteNoAction, MayEnd

\* fail_run, to needs_retry or to failed.
LEMMA FailRunStep ==
  ASSUME IInv,
         NEW r \in RunIds, NEW recoverable \in BOOLEAN, FailRun(r, recoverable)
  PROVE  IInv'
<1>1. FailTarget(recoverable) \in {"needs_retry", "failed"}
  BY DEF FailTarget
<1> QED BY <1>1, EndRunStep DEF FailRun, WriteFailure, MayEnd

\* What cancel_workflow leaves alone and what it sets.
LEMMA CancelEffect ==
  ASSUME TypeOK, NEW w \in WorkflowIds, NEW role \in Roles, CancelWorkflow(w, role)
  PROVE  /\ Move(w, workflow[w], "cancelled")
         /\ workflow[w].status \in ActiveStatuses
         /\ May(role, "workflow.cancel")
         /\ IF approval[w].status = "pending"
            THEN /\ approval'[w].status = "withdrawn"
                 /\ approval'[w].decider = role
                 /\ approval'[w].action = approval[w].action
                 /\ approval'[w].run = approval[w].run
            ELSE approval'[w] = approval[w]
         /\ \A v \in WorkflowIds \ {w} : approval'[v] = approval[v]
         /\ \A q \in RunIds :
              /\ IF run[q].workflow = w /\ run[q].status = "running"
                 THEN run'[q].status = "cancelled"
                 ELSE run'[q] = run[q]
              /\ run'[q].workflow = run[q].workflow
              /\ run'[q].ticket = run[q].ticket
              /\ run'[q].key = run[q].key
         /\ mutation' = mutation
         /\ run' \in [RunIds -> RunRows]
         /\ approval' \in [WorkflowIds -> ApprovalRows]
<1>1. workflow[w].status \in ActiveStatuses
  BY DEF CancelWorkflow, TypeOK, WorkflowRows, Exists, Terminal,
         WorkflowStatuses, ActiveStatuses, TerminalStatuses
<1>2. /\ approval' = [v \in WorkflowIds |->
           IF v = w /\ approval[w].status = "pending"
           THEN [approval[w] EXCEPT !.status = "withdrawn", !.decider = role]
           ELSE approval[v]]
      /\ run' = [q \in RunIds |->
           IF run[q].workflow = w /\ run[q].status = "running"
           THEN [run[q] EXCEPT !.status = "cancelled"] ELSE run[q]]
  BY DEF CancelWorkflow, WriteCancellation
<1>3. /\ IF approval[w].status = "pending"
         THEN /\ approval'[w].status = "withdrawn"
              /\ approval'[w].decider = role
              /\ approval'[w].action = approval[w].action
              /\ approval'[w].run = approval[w].run
         ELSE approval'[w] = approval[w]
      /\ \A v \in WorkflowIds \ {w} : approval'[v] = approval[v]
  BY <1>2
<1>4. \A q \in RunIds :
        /\ IF run[q].workflow = w /\ run[q].status = "running"
           THEN run'[q].status = "cancelled"
           ELSE run'[q] = run[q]
        /\ run'[q].workflow = run[q].workflow
        /\ run'[q].ticket = run[q].ticket
        /\ run'[q].key = run[q].key
  BY <1>2
<1>5. run' \in [RunIds -> RunRows]
  <2> SUFFICES ASSUME NEW q \in RunIds PROVE run'[q] \in RunRows
    BY <1>2
  <2>1. [run[q] EXCEPT !.status = "cancelled"] \in RunRows
    BY DEF TypeOK, RunRows, RunStatuses
  <2> QED BY <1>2, <2>1 DEF TypeOK
<1>6. approval' \in [WorkflowIds -> ApprovalRows]
  <2> DEFINE withdrawn == [approval[w] EXCEPT !.status = "withdrawn"]
  <2>1. withdrawn \in ApprovalRows
    BY DEF TypeOK, ApprovalRows, ApprovalStatuses
  <2>2. [withdrawn EXCEPT !.decider = role] \in ApprovalRows
    <3> HIDE DEF withdrawn
    <3> QED BY <2>1 DEF ApprovalRows
  <2> QED BY <1>2, <2>2 DEF TypeOK
<1> QED BY <1>1, <1>3, <1>4, <1>5, <1>6 DEF CancelWorkflow, WriteCancellation

\* A cancellation settles the workflow, its pending request and its running run.
LEMMA CancelWorkflowStep ==
  ASSUME IInv, NEW w \in WorkflowIds, NEW role \in Roles, CancelWorkflow(w, role)
  PROVE  IInv'
<1> USE NoneAssumption DEF IInv
<1>1. /\ workflow[w].status \in ActiveStatuses
      /\ workflow[w].status # Absent
      /\ CanTransition(workflow[w].status, "cancelled")
      /\ Move(w, workflow[w], "cancelled")
      /\ "cancelled" \in WorkflowStatuses
  BY CancelEffect, TransitionTable
     DEF TypeOK, WorkflowRows, WorkflowStatuses, ActiveStatuses, Absent
<1>2. May(role, "workflow.cancel") /\ mutation' = mutation
  BY CancelEffect
<1>3. /\ workflow' \in [WorkflowIds -> WorkflowRows]
      /\ ledger' \in [WorkflowIds -> SUBSET LedgerRows]
      /\ workflow'[w].status = "cancelled"
      /\ workflow'[w].sequence = workflow[w].sequence + 1
      /\ \A v \in WorkflowIds \ {w} :
           workflow'[v] = workflow[v] /\ ledger'[v] = ledger[v]
  BY <1>1, MoveEffect
<1>4. /\ OneActiveCycle'
      /\ LedgerExplainsStatus'
      /\ \A v \in WorkflowIds : /\ workflow'[v].ticket = workflow[v].ticket
                                /\ Exists(v)' <=> Exists(v)
  BY <1>1, MoveStep
<1>5. /\ IF approval[w].status = "pending"
         THEN /\ approval'[w].status = "withdrawn"
              /\ approval'[w].decider = role
              /\ approval'[w].action = approval[w].action
              /\ approval'[w].run = approval[w].run
         ELSE approval'[w] = approval[w]
      /\ \A v \in WorkflowIds \ {w} : approval'[v] = approval[v]
  BY CancelEffect
<1>6. \A q \in RunIds :
        /\ IF run[q].workflow = w /\ run[q].status = "running"
           THEN run'[q].status = "cancelled"
           ELSE run'[q] = run[q]
        /\ run'[q].workflow = run[q].workflow
        /\ run'[q].ticket = run[q].ticket
        /\ run'[q].key = run[q].key
  BY CancelEffect
<1>7. TypeOK'
  BY <1>2, <1>3, CancelEffect DEF TypeOK
<1>8. RowsAreComplete'
  <2>1. \A v \in WorkflowIds : RowsAreComplete!1!(v)'
    BY <1>1, <1>3, <1>4, <1>5
       DEF RowsAreComplete, Exists, TypeOK, WorkflowRows, Absent
  <2>2. \A q \in RunIds : RowsAreComplete!2!(q)'
    BY <1>6 DEF RowsAreComplete, Absent
  <2> QED BY <2>1, <2>2 DEF RowsAreComplete
<1>9. RunTracksWorkflow'
  BY <1>1, <1>3, <1>4, <1>6, SMTT(20)
     DEF RunTracksWorkflow, RunExists, WorkflowsOf, Absent
<1>10. DecisionsAgree'
  <2>1. \A v \in WorkflowIds : approval[v].run \in RunIds \cup {None}
    BY DEF TypeOK, ApprovalRows
  <2>2. \A v \in WorkflowIds : DecisionsAgree!1!(v)'
    BY <1>1, <1>2, <1>3, <1>5, <1>6, <2>1, SMTT(20)
       DEF DecisionsAgree, RowsAreComplete, ActiveStatuses, Absent
  <2>3. \A q \in RunIds : DecisionsAgree!2!(q)'
    BY <1>1, <1>2, <1>3, <1>5, <1>6, SMTT(20)
       DEF DecisionsAgree, RunTracksWorkflow, RunExists, WorkflowsOf, ActiveStatuses, Absent
  <2> QED BY <2>2, <2>3 DEF DecisionsAgree
<1>11. NoDoubleExecution'
  BY <1>2, <1>4, <1>5, NothingExecuted
<1>12. KeyNamesOneRun'
  BY <1>6 DEF KeyNamesOneRun, RunExists, Absent
<1>13. DecidersAreAuthorised'
  BY <1>2, <1>5 DEF DecidersAreAuthorised
<1> QED BY <1>4, <1>7, <1>8, <1>9, <1>10, <1>11, <1>12, <1>13

\* What start_or_replay_run inserts for a new cycle: it is the ticket's next
\* one, and all the cycles before it are terminal.
LEMMA StartCycleEffect ==
  ASSUME TypeOK, OneActiveCycle, NEW t \in Tickets, NEW k \in Keys,
         NEW w \in WorkflowIds, NEW r \in RunIds, StartCycle(t, k, w, r)
  PROVE  /\ TypeOK'
         /\ OneActiveCycle'
         /\ workflow[w].status = Absent /\ run[r].status = Absent
         /\ \A q \in RunIds : run[q].status # Absent /\ run[q].ticket = t => run[q].key # k
         /\ workflow'[w].ticket = t
         /\ workflow'[w].status = "investigating" /\ workflow'[w].sequence = 1
         /\ ledger'[w] = {[sequence |-> 1, from |-> Absent, to |-> "investigating"]}
         /\ \A v \in WorkflowIds \ {w} :
              workflow'[v] = workflow[v] /\ ledger'[v] = ledger[v]
         /\ run'[r] = [ticket |-> t, key |-> k, workflow |-> w, status |-> "running"]
         /\ \A q \in RunIds \ {r} : run'[q] = run[q]
         /\ approval' = approval /\ mutation' = mutation
<1>1. PICK last \in CyclesOf(t) : /\ \A n \in CyclesOf(t) : n <= last
                                  /\ InsertCycle(t, k, w, r, last + 1)
  BY DEF StartCycle
<1>2. /\ last \in Nat
      /\ \A v \in WorkflowsOf(t) :
           workflow[v].cycle \in Nat /\ workflow[v].cycle <= last
      /\ last = 0 \/ \E v \in WorkflowsOf(t) : workflow[v].cycle = last
  BY <1>1 DEF CyclesOf, TypeOK, WorkflowRows, WorkflowsOf
<1>3. /\ workflow[w].status = Absent
      /\ run[r].status = Absent
      /\ \A v \in WorkflowsOf(t) : Terminal(v)
      /\ \A q \in RunIds : run[q].status # Absent /\ run[q].ticket = t => run[q].key # k
  BY
     DEF StartCycle, Exists, RunExists, RunWithKey, RunsOf, WorkflowsOf,
         Active, Terminal,
         TypeOK, WorkflowRows, WorkflowStatuses, ActiveStatuses, TerminalStatuses, Absent
<1>4. /\ workflow'[w] = [ticket |-> t, cycle |-> last + 1,
                         status |-> "investigating", sequence |-> 1]
      /\ ledger'[w] = {[sequence |-> 1, from |-> Absent, to |-> "investigating"]}
      /\ \A v \in WorkflowIds \ {w} :
           workflow'[v] = workflow[v] /\ ledger'[v] = ledger[v]
      /\ run'[r] = [ticket |-> t, key |-> k, workflow |-> w, status |-> "running"]
      /\ \A q \in RunIds \ {r} : run'[q] = run[q]
      /\ approval' = approval /\ mutation' = mutation
  BY <1>1 DEF InsertCycle, NewRun, InitialStatus, TypeOK
<1>5. TypeOK'
  BY <1>1, <1>2
     DEF TypeOK, InsertCycle, NewRun, InitialStatus, WorkflowRows, LedgerRows,
         RunRows, RunStatuses, WorkflowStatuses
<1>6. \A v \in WorkflowIds : Exists(v)' <=> Exists(v) \/ v = w
  BY <1>3, <1>4 DEF Exists, Absent
<1>7. OneActiveCycle'
  <2> SUFFICES ASSUME NEW v \in WorkflowIds, Exists(v)'
               PROVE  /\ workflow'[v].cycle = 1 \/
                           \E u \in WorkflowIds :
                             /\ Exists(u)' /\ workflow'[u].ticket = workflow'[v].ticket
                             /\ workflow'[u].cycle = workflow'[v].cycle - 1
                      /\ \A u \in WorkflowIds \ {v} :
                           Exists(u)' /\ workflow'[u].ticket = workflow'[v].ticket =>
                             /\ workflow'[u].cycle # workflow'[v].cycle
                             /\ workflow'[u].cycle > workflow'[v].cycle => Terminal(v)'
    BY DEF OneActiveCycle, WorkflowsOf
  <2>1. CASE v = w
    BY <1>2, <1>3, <1>4, <1>6, <2>1 DEF WorkflowsOf, Exists
  <2>2. CASE v # w
    <3>1. Exists(v) /\ workflow'[v] = workflow[v]
      BY <1>4, <1>6, <2>2
    <3>2. /\ workflow[v].cycle = 1 \/
               \E u \in WorkflowIds :
                 /\ Exists(u) /\ workflow[u].ticket = workflow[v].ticket
                 /\ workflow[u].cycle = workflow[v].cycle - 1
          /\ \A u \in WorkflowIds \ {v} :
               Exists(u) /\ workflow[u].ticket = workflow[v].ticket =>
                 /\ workflow[u].cycle # workflow[v].cycle
                 /\ workflow[u].cycle > workflow[v].cycle => Terminal(v)
      BY <3>1 DEF OneActiveCycle, WorkflowsOf
    <3>3. Terminal(v)' <=> Terminal(v)
      BY <3>1 DEF Terminal
    <3>4. ~Exists(w)
      BY <1>3 DEF Exists
    <3>5. workflow[v].ticket = t =>
            Terminal(v) /\ workflow[v].cycle \in Nat /\ workflow[v].cycle <= last
      BY <1>2, <1>3, <3>1 DEF WorkflowsOf
    <3> QED BY <1>2, <1>4, <1>6, <2>2, <3>1, <3>2, <3>3, <3>4, <3>5
  <2> QED BY <2>1, <2>2
<1> QED BY <1>3, <1>4, <1>5, <1>6, <1>7

\* A new cycle starts with one run, no request and a ledger of its own.
LEMMA StartCycleStep ==
  ASSUME IInv, NEW t \in Tickets, NEW k \in Keys,
         NEW w \in WorkflowIds, NEW r \in RunIds, StartCycle(t, k, w, r)
  PROVE  IInv'
<1> USE NoneAssumption DEF IInv
<1>1. TypeOK /\ OneActiveCycle
  OBVIOUS
<1>2. /\ TypeOK'
      /\ OneActiveCycle'
      /\ workflow[w].status = Absent /\ run[r].status = Absent
      /\ \A q \in RunIds : run[q].status # Absent /\ run[q].ticket = t => run[q].key # k
      /\ workflow'[w].ticket = t
      /\ workflow'[w].status = "investigating" /\ workflow'[w].sequence = 1
      /\ ledger'[w] = {[sequence |-> 1, from |-> Absent, to |-> "investigating"]}
      /\ \A v \in WorkflowIds \ {w} :
           workflow'[v] = workflow[v] /\ ledger'[v] = ledger[v]
      /\ run'[r] = [ticket |-> t, key |-> k, workflow |-> w, status |-> "running"]
      /\ \A q \in RunIds \ {r} : run'[q] = run[q]
      /\ approval' = approval /\ mutation' = mutation
  BY <1>1, StartCycleEffect
<1>3. LedgerExplainsStatus'
  <2>1. CanTransition(Absent, "investigating")
    BY TransitionTable
  <2>2. \A v \in WorkflowIds \ {w} : Exists(v)' <=> Exists(v)
    BY <1>2 DEF Exists
  <2>3. \A v \in WorkflowIds \ {w} : LedgerExplainsStatus!(v)'
    BY <1>2, <2>2 DEF LedgerExplainsStatus
  <2>4. LedgerExplainsStatus!(w)'
    BY <1>2, <2>1
  <2> QED BY <2>3, <2>4 DEF LedgerExplainsStatus
<1>4. RowsAreComplete'
  BY <1>2 DEF RowsAreComplete, NoRun, Absent
<1>5. RunTracksWorkflow'
  BY <1>2, SMTT(20)
     DEF RunTracksWorkflow, RowsAreComplete, RunExists, WorkflowsOf, Exists,
         NoRun
<1>6. DecisionsAgree'
  <2>1. \A v \in WorkflowIds : approval[v].run \in RunIds \cup {None}
    BY DEF TypeOK, ApprovalRows
  <2>2. \A q \in RunIds : RunExists(q) => run[q].workflow \in WorkflowIds \ {w}
    BY <1>2 DEF RunTracksWorkflow, WorkflowsOf, Exists
  <2>3. approval[w].status = Absent /\ mutation[w] = None /\ run[r].workflow = None
    BY <1>2 DEF RowsAreComplete, DecisionsAgree, NoRun
  <2>4. \A v \in WorkflowIds : DecisionsAgree!1!(v)'
    BY <1>2, <2>1, <2>3, SMTT(20) DEF DecisionsAgree, RowsAreComplete, Absent
  <2>5. \A q \in RunIds : DecisionsAgree!2!(q)'
    BY <1>2, <2>2, SMTT(20) DEF DecisionsAgree, RunExists, Absent
  <2> QED BY <2>4, <2>5 DEF DecisionsAgree
<1>7. NoDoubleExecution'
  <2>1. approval[w].status = Absent /\ mutation[w] = None
    BY <1>2 DEF RowsAreComplete, DecisionsAgree
  <2> QED BY <1>2, <2>1 DEF NoDoubleExecution, IsExecuted, Absent
<1>8. KeyNamesOneRun'
  BY <1>2 DEF KeyNamesOneRun, RunExists
<1>9. DecidersAreAuthorised'
  BY <1>2 DEF DecidersAreAuthorised
<1> QED BY <1>2, <1>3, <1>4, <1>5, <1>6, <1>7, <1>8, <1>9

\* What a reset deletes and what it leaves alone.
LEMMA ResetEffect ==
  ASSUME NEW t \in Tickets, ResetTicket(t)
  PROVE  /\ \A v \in WorkflowIds :
              IF Exists(v) /\ workflow[v].ticket = t
              THEN /\ workflow'[v] = NoWorkflow /\ ledger'[v] = {}
                   /\ approval'[v] = NoApproval /\ mutation'[v] = None
              ELSE /\ workflow'[v] = workflow[v] /\ ledger'[v] = ledger[v]
                   /\ approval'[v] = approval[v] /\ mutation'[v] = mutation[v]
         /\ \A q \in RunIds : IF RunExists(q) /\ run[q].ticket = t
                              THEN run'[q] = NoRun ELSE run'[q] = run[q]
BY DEF ResetTicket, DeleteTicket, WorkflowsOf, RunsOf

\* A reset takes all cycles of one ticket away and none of another.
LEMMA ResetKeepsCycles ==
  ASSUME TypeOK, OneActiveCycle, NEW t \in Tickets, ResetTicket(t)
  PROVE  TypeOK' /\ OneActiveCycle'
<1>1. \A v \in WorkflowIds :
        IF Exists(v) /\ workflow[v].ticket = t
        THEN /\ workflow'[v] = NoWorkflow /\ ledger'[v] = {}
             /\ approval'[v] = NoApproval /\ mutation'[v] = None
        ELSE /\ workflow'[v] = workflow[v] /\ ledger'[v] = ledger[v]
             /\ approval'[v] = approval[v] /\ mutation'[v] = mutation[v]
  BY ResetEffect
<1>2. TypeOK'
  <2>1. NoWorkflow \in WorkflowRows /\ NoRun \in RunRows /\ NoApproval \in ApprovalRows
    BY DEF NoWorkflow, NoRun, NoApproval, WorkflowRows, RunRows, ApprovalRows
  <2> QED BY <2>1 DEF TypeOK, ResetTicket, DeleteTicket
<1>3. \A v \in WorkflowIds : Exists(v)' <=> Exists(v) /\ workflow[v].ticket # t
  BY <1>1 DEF Exists, NoWorkflow
<1>4. OneActiveCycle'
  <2> SUFFICES ASSUME NEW v \in WorkflowIds, Exists(v)'
               PROVE  /\ workflow'[v].cycle = 1 \/
                           \E u \in WorkflowIds :
                             /\ Exists(u)' /\ workflow'[u].ticket = workflow'[v].ticket
                             /\ workflow'[u].cycle = workflow'[v].cycle - 1
                      /\ \A u \in WorkflowIds \ {v} :
                           Exists(u)' /\ workflow'[u].ticket = workflow'[v].ticket =>
                             /\ workflow'[u].cycle # workflow'[v].cycle
                             /\ workflow'[u].cycle > workflow'[v].cycle => Terminal(v)'
    BY DEF OneActiveCycle, WorkflowsOf
  <2>1. Exists(v) /\ workflow[v].ticket # t /\ workflow'[v] = workflow[v]
    BY <1>1, <1>3
  <2>2. /\ workflow[v].cycle = 1 \/
             \E u \in WorkflowIds :
               /\ Exists(u) /\ workflow[u].ticket = workflow[v].ticket
               /\ workflow[u].cycle = workflow[v].cycle - 1
        /\ \A u \in WorkflowIds \ {v} :
             Exists(u) /\ workflow[u].ticket = workflow[v].ticket =>
               /\ workflow[u].cycle # workflow[v].cycle
               /\ workflow[u].cycle > workflow[v].cycle => Terminal(v)
    BY <2>1 DEF OneActiveCycle, WorkflowsOf
  <2>3. Terminal(v)' <=> Terminal(v)
    BY <2>1 DEF Terminal
  <2> QED BY <1>1, <1>3, <2>1, <2>2, <2>3
<1> QED BY <1>2, <1>4

\* A reset leaves no trace of the ticket's cycles.
LEMMA ResetTicketStep ==
  ASSUME IInv, NEW t \in Tickets, ResetTicket(t)
  PROVE  IInv'
<1> USE NoneAssumption DEF IInv
<1>1. \A v \in WorkflowIds :
        IF Exists(v) /\ workflow[v].ticket = t
        THEN /\ workflow'[v] = NoWorkflow /\ ledger'[v] = {}
             /\ approval'[v] = NoApproval /\ mutation'[v] = None
        ELSE /\ workflow'[v] = workflow[v] /\ ledger'[v] = ledger[v]
             /\ approval'[v] = approval[v] /\ mutation'[v] = mutation[v]
  BY ResetEffect
<1>2. \A q \in RunIds :
        IF RunExists(q) /\ run[q].ticket = t
        THEN run'[q] = NoRun ELSE run'[q] = run[q]
  BY ResetEffect
<1>3. TypeOK' /\ OneActiveCycle'
  BY ResetKeepsCycles
<1>4. \A v \in WorkflowIds : Exists(v)' <=> Exists(v) /\ workflow[v].ticket # t
  BY <1>1 DEF Exists, NoWorkflow
<1>5. \A q \in RunIds : RunExists(q)' <=> RunExists(q) /\ run[q].ticket # t
  BY <1>2 DEF RunExists, NoRun
<1>6. LedgerExplainsStatus'
  BY <1>1, <1>4 DEF LedgerExplainsStatus
<1>7. RowsAreComplete'
  BY <1>1, <1>2
     DEF RowsAreComplete, RunExists, Exists, NoWorkflow, NoRun, NoApproval
<1>8. RunTracksWorkflow'
  BY <1>1, <1>2, <1>4, <1>5, SMTT(20)
     DEF RunTracksWorkflow, RowsAreComplete, RunExists, WorkflowsOf, Exists,
         NoRun, Absent
<1>9. DecisionsAgree'
  <2>1. \A v \in WorkflowIds : approval[v].run \in RunIds \cup {None}
    BY DEF TypeOK, ApprovalRows
  <2>2. \A q \in RunIds : RunExists(q) =>
          /\ run[q].workflow \in WorkflowIds /\ Exists(run[q].workflow)
          /\ workflow[run[q].workflow].ticket = run[q].ticket
    BY DEF RunTracksWorkflow, WorkflowsOf
  <2>3. \A v \in WorkflowIds : approval[v].status # Absent => Exists(v)
    BY DEF RowsAreComplete, Exists
  <2>4. \A v \in WorkflowIds : DecisionsAgree!1!(v)'
    <3> SUFFICES ASSUME NEW v \in WorkflowIds PROVE DecisionsAgree!1!(v)'
      OBVIOUS
    <3>1. CASE Exists(v) /\ workflow[v].ticket = t
      BY <1>1, <3>1 DEF NoWorkflow, NoApproval, Absent
    <3>2. CASE ~(Exists(v) /\ workflow[v].ticket = t)
      <4>1. approval[v].run \in RunIds => run'[approval[v].run] = run[approval[v].run]
                                         \/ approval[v].status = Absent
        BY <1>2, <2>2, <2>3, <3>2 DEF DecisionsAgree, RowsAreComplete, Exists, NoApproval, Absent
      <4> QED BY <1>1, <2>1, <3>2, <4>1 DEF DecisionsAgree
    <3> QED BY <3>1, <3>2
  <2>5. \A q \in RunIds : DecisionsAgree!2!(q)'
    BY <1>1, <1>2, <2>2, SMTT(20) DEF DecisionsAgree, RunExists, NoRun, Absent
  <2> QED BY <2>4, <2>5 DEF DecisionsAgree
<1>10. NoDoubleExecution'
  BY <1>1 DEF NoDoubleExecution, IsExecuted, NoApproval
<1>11. KeyNamesOneRun'
  BY <1>2, <1>5 DEF KeyNamesOneRun
<1>12. DecidersAreAuthorised'
  BY <1>1 DEF DecidersAreAuthorised, NoApproval, Absent
<1> QED BY <1>3, <1>6, <1>7, <1>8, <1>9, <1>10, <1>11, <1>12

\* A database without cycles satisfies the strengthened invariant.
LEMMA InitIInv == Empty => IInv
<1> SUFFICES ASSUME Empty PROVE IInv
  OBVIOUS
<1>1. TypeOK
  BY
     DEF Empty, TypeOK, NoWorkflow, NoRun, NoApproval, WorkflowRows, RunRows,
         ApprovalRows
<1>2. /\ \A w \in WorkflowIds : /\ workflow[w] = NoWorkflow /\ ledger[w] = {}
                                /\ approval[w] = NoApproval /\ mutation[w] = None
      /\ \A r \in RunIds : run[r] = NoRun
  BY DEF Empty
<1>3. RowsAreComplete
  BY <1>2 DEF RowsAreComplete, NoWorkflow, NoRun, NoApproval
<1>4. OneActiveCycle /\ LedgerExplainsStatus
  BY <1>2 DEF OneActiveCycle, LedgerExplainsStatus, Exists, NoWorkflow
<1>5. RunTracksWorkflow /\ DecisionsAgree
  BY <1>2
     DEF RunTracksWorkflow, DecisionsAgree, RunExists, NoWorkflow,
         NoRun, NoApproval, Absent
<1>6. NoDoubleExecution /\ KeyNamesOneRun /\ DecidersAreAuthorised
  BY <1>2
     DEF NoDoubleExecution, KeyNamesOneRun, DecidersAreAuthorised, RunExists,
         NoRun, NoApproval, Absent
<1> QED BY <1>1, <1>3, <1>4, <1>5, <1>6 DEF IInv

\* A command that changes no table keeps it.
LEMMA StutterIInv == IInv /\ UNCHANGED tables => IInv'
BY DEF tables, IInv, TypeOK, RowsAreComplete, OneActiveCycle,
       RunTracksWorkflow, DecisionsAgree, NoDoubleExecution,
       KeyNamesOneRun, LedgerExplainsStatus, DecidersAreAuthorised, Exists,
       Terminal, WorkflowsOf, RunExists, IsExecuted

\* Every command keeps the strengthened invariant.
LEMMA NextIInv ==
  ASSUME IInv, Next
  PROVE  IInv'
<1>1. CASE \E t \in Tickets, k \in Keys, w \in WorkflowIds, r \in RunIds :
             StartCycle(t, k, w, r) \/ StartRetry(t, k, w, r)
  BY <1>1, StartCycleStep, StartRetryStep
<1>2. CASE \E r \in RunIds : FinalizeNoAction(r)
  BY <1>2, FinalizeNoActionStep
<1>3. CASE \E r \in RunIds, a \in Actions : FinalizeForApproval(r, a)
  BY <1>3, FinalizeForApprovalStep
<1>4. CASE \E r \in RunIds, recoverable \in BOOLEAN : FailRun(r, recoverable)
  BY <1>4, FailRunStep
<1>5. CASE \E w \in WorkflowIds, role \in Roles : CancelWorkflow(w, role)
  BY <1>5, CancelWorkflowStep
<1>6. CASE \E w \in WorkflowIds, role \in Roles : ApproveAndExecute(w, role)
  BY <1>6, ApproveAndExecuteStep
<1>7. CASE \E w \in WorkflowIds, role \in Roles : RejectApproval(w, role)
  BY <1>7, RejectApprovalStep
<1>8. CASE \E t \in Tickets : ResetTicket(t)
  BY <1>8, ResetTicketStep
<1> QED BY <1>1, <1>2, <1>3, <1>4, <1>5, <1>6, <1>7, <1>8 DEF Next

\* What names no run is never written.
LEMMA NextRequestsNameRuns ==
  ASSUME IInv, RequestsNameRuns, Next
  PROVE  RequestsNameRuns'
<1> USE NoneAssumption DEF IInv, TypeOK, ApprovalRows
<1>1. CASE \E t \in Tickets, k \in Keys, w \in WorkflowIds, r \in RunIds :
             StartCycle(t, k, w, r) \/ StartRetry(t, k, w, r)
  BY <1>1 DEF StartCycle, StartRetry, InsertCycle, InsertRetry, RequestsNameRuns
<1>2. CASE \E r \in RunIds : FinalizeNoAction(r)
  BY <1>2 DEF FinalizeNoAction, WriteNoAction, RequestsNameRuns
<1>3. CASE \E r \in RunIds, a \in Actions : FinalizeForApproval(r, a)
  BY <1>3 DEF FinalizeForApproval, WriteProposal, RequestsNameRuns
<1>4. CASE \E r \in RunIds, recoverable \in BOOLEAN : FailRun(r, recoverable)
  BY <1>4 DEF FailRun, WriteFailure, RequestsNameRuns
<1>5. CASE \E w \in WorkflowIds, role \in Roles : CancelWorkflow(w, role)
  BY <1>5, CancelEffect DEF RequestsNameRuns, Absent
<1>6. CASE \E w \in WorkflowIds, role \in Roles : ApproveAndExecute(w, role)
  BY <1>6 DEF ApproveAndExecute, WriteExecution, RequestsNameRuns, Absent
<1>7. CASE \E w \in WorkflowIds, role \in Roles : RejectApproval(w, role)
  BY <1>7 DEF RejectApproval, WriteRejection, RequestsNameRuns, Absent
<1>8. CASE \E t \in Tickets : ResetTicket(t)
  BY <1>8, ResetEffect DEF RequestsNameRuns, NoApproval
<1> QED BY <1>1, <1>2, <1>3, <1>4, <1>5, <1>6, <1>7, <1>8 DEF Next

-----------------------------------------------------------------------------
(* The theorems.                                                           *)

\* The strengthened invariant holds in every reachable state.
THEOREM Invariance == Spec => []IInv
<1>1. IInv /\ [Next]_tables => IInv'
  BY NextIInv, StutterIInv
<1> QED BY <1>1, InitIInv, PTL DEF Spec

\* The commands only ever write rows the columns and check constraints admit.
THEOREM TypeCorrectness == Spec => []TypeOK
BY Invariance, PTL DEF IInv

\* A ticket has at most one active case workflow, and it is its last cycle
\* (start_or_replay_run, create_agent_run, the uq_ active index).
THEOREM AtMostOneActiveCycle == Spec => []OneActiveCycle
BY Invariance, PTL DEF IInv

\* Runs and workflows agree: finalize_run, fail_run and cancel_workflow never
\* leave a run behind a workflow that has moved on, or the other way round.
THEOREM RunsAndWorkflowsAgree == Spec => []RunTracksWorkflow
BY Invariance, PTL DEF IInv

\* Requests, mutations and workflows agree: an executed action is an approved
\* one, of the workflow it was proposed for.
THEOREM DecisionsAndWorkflowsAgree == Spec => []DecisionTracksWorkflow
<1>1. Empty => RequestsNameRuns
  BY DEF Empty, NoApproval, RequestsNameRuns
<1>2. IInv /\ RequestsNameRuns /\ [Next]_tables => RequestsNameRuns'
  BY NextRequestsNameRuns DEF tables, RequestsNameRuns
<1>3. IInv /\ RequestsNameRuns => DecisionTracksWorkflow
  BY DEF IInv, DecisionsAgree, RequestsNameRuns, DecisionTracksWorkflow
<1> QED BY <1>1, <1>2, <1>3, Invariance, PTL DEF Spec

\* approve_and_execute executes no financial action of a ticket twice, in
\* whichever cycles it is proposed.
THEOREM NothingIsExecutedTwice == Spec => []NoDoubleExecution
BY Invariance, PTL DEF IInv

\* start_or_replay_run starts at most one run for an Idempotency-Key.
THEOREM KeysAreIdempotent == Spec => []KeyNamesOneRun
BY Invariance, PTL DEF IInv

\* The transition ledger of every workflow replays to its status.
THEOREM LedgerIsComplete == Spec => []LedgerExplainsStatus
BY Invariance, PTL DEF IInv

\* Every decision on record was taken by a role that may take it.
THEOREM DecisionsAreAuthorised == Spec => []DecidersAreAuthorised
BY Invariance, PTL DEF IInv

-----------------------------------------------------------------------------
(* What no step does to the tables, from the same invariant.               *)

\* No command touches a terminal workflow or what hangs on it, except the
\* reset that deletes it.
LEMMA SettledStep ==
  ASSUME IInv, [Next]_tables, NEW v \in WorkflowIds,
         Terminal(v), workflow'[v].status # Absent
  PROVE  /\ workflow'[v] = workflow[v]
         /\ ledger'[v] = ledger[v]
         /\ approval'[v] = approval[v]
         /\ mutation'[v] = mutation[v]
         /\ \A q \in RunIds : run[q].workflow = v => run'[q] = run[q]
<1> USE NoneAssumption DEF IInv, TypeOK, Terminal, TerminalStatuses
<1>1. CASE \E t \in Tickets, k \in Keys, w \in WorkflowIds, r \in RunIds :
             StartCycle(t, k, w, r)
  BY <1>1, SMTT(20)
     DEF StartCycle, InsertCycle, RowsAreComplete, Exists, RunExists, NoRun, Absent
<1>2. CASE \E t \in Tickets, k \in Keys, w \in WorkflowIds, r \in RunIds :
             StartRetry(t, k, w, r)
  BY <1>2, SMTT(20)
     DEF StartRetry, InsertRetry, Move, RowsAreComplete, RunExists, NoRun, Absent
<1>3. CASE \E r \in RunIds : FinalizeNoAction(r)
  BY <1>3, SMTT(20) DEF FinalizeNoAction, MayEnd, WriteNoAction, Move,
                        RunTracksWorkflow, RunExists, WorkflowsOf, Absent
<1>4. CASE \E r \in RunIds, a \in Actions : FinalizeForApproval(r, a)
  BY <1>4, SMTT(20) DEF FinalizeForApproval, MayEnd, WriteProposal, Move,
                        RunTracksWorkflow, RunExists, WorkflowsOf, Absent
<1>5. CASE \E r \in RunIds, recoverable \in BOOLEAN : FailRun(r, recoverable)
  BY <1>5, SMTT(20) DEF FailRun, MayEnd, WriteFailure, Move,
                        RunTracksWorkflow, RunExists, WorkflowsOf, Absent
<1>6. CASE \E w \in WorkflowIds, role \in Roles : CancelWorkflow(w, role)
  <2>1. PICK w \in WorkflowIds, role \in Roles : CancelWorkflow(w, role)
    BY <1>6
  <2>2. Move(w, workflow[w], "cancelled") /\ v # w
    BY <2>1, CancelEffect DEF ActiveStatuses
  <2>3. workflow'[v] = workflow[v] /\ ledger'[v] = ledger[v]
    BY <2>2 DEF Move
  <2> QED BY <2>1, <2>2, <2>3, CancelEffect
<1>7. CASE \E w \in WorkflowIds, role \in Roles : ApproveAndExecute(w, role)
  BY <1>7, SMTT(20) DEF ApproveAndExecute, WriteExecution, Move
<1>8. CASE \E w \in WorkflowIds, role \in Roles : RejectApproval(w, role)
  BY <1>8, SMTT(20) DEF RejectApproval, WriteRejection, Move
<1>9. CASE \E t \in Tickets : ResetTicket(t)
  BY <1>9, ResetEffect DEF RunTracksWorkflow, WorkflowsOf, RunExists, NoWorkflow
<1>10. CASE UNCHANGED tables
  BY <1>10 DEF tables
<1> QED BY <1>1, <1>2, <1>3, <1>4, <1>5, <1>6, <1>7, <1>8, <1>9, <1>10 DEF Next

\* Every command writes only to a running run or to one it inserts.
LEMMA AttemptStep ==
  ASSUME IInv, [Next]_tables, NEW q \in RunIds,
         run[q].status \in RunStatuses \ {"running"}, run'[q].status # Absent
  PROVE  run'[q] = run[q]
<1> USE DEF IInv, TypeOK, RunStatuses
<1>1. CASE \E t \in Tickets, k \in Keys, w \in WorkflowIds, r \in RunIds :
             StartCycle(t, k, w, r) \/ StartRetry(t, k, w, r)
  BY <1>1 DEF StartCycle, InsertCycle, StartRetry, InsertRetry, RunExists, Absent
<1>2. CASE \E r \in RunIds : FinalizeNoAction(r)
  BY <1>2 DEF FinalizeNoAction, MayEnd, WriteNoAction
<1>3. CASE \E r \in RunIds, a \in Actions : FinalizeForApproval(r, a)
  BY <1>3 DEF FinalizeForApproval, MayEnd, WriteProposal
<1>4. CASE \E r \in RunIds, recoverable \in BOOLEAN : FailRun(r, recoverable)
  BY <1>4 DEF FailRun, MayEnd, WriteFailure
<1>5. CASE \E w \in WorkflowIds, role \in Roles : CancelWorkflow(w, role)
  BY <1>5, CancelEffect
<1>6. CASE \E w \in WorkflowIds, role \in Roles :
             ApproveAndExecute(w, role) \/ RejectApproval(w, role)
  BY <1>6 DEF ApproveAndExecute, WriteExecution, RejectApproval, WriteRejection
<1>7. CASE \E t \in Tickets : ResetTicket(t)
  BY <1>7, ResetEffect DEF NoRun
<1>8. CASE UNCHANGED tables
  BY <1>8 DEF tables
<1> QED BY <1>1, <1>2, <1>3, <1>4, <1>5, <1>6, <1>7, <1>8 DEF Next

\* A mutation is written by the approval that decides for it, and by nothing else.
LEMMA MoneyStep ==
  ASSUME IInv, [Next]_tables, NEW v \in WorkflowIds,
         mutation'[v] # None, mutation'[v] # mutation[v]
  PROVE  /\ approval[v].status = "pending"
         /\ workflow[v].status = "awaiting_approval"
         /\ approval'[v].status = "approved"
         /\ mutation'[v] = approval[v].action
         /\ approval'[v].decider # None
         /\ May(approval'[v].decider, "approval.decide")
<1>1. \/ mutation' = mutation
      \/ \E w \in WorkflowIds, role \in Roles : ApproveAndExecute(w, role)
      \/ \E t \in Tickets : ResetTicket(t)
  BY DEF Next, StartCycle, InsertCycle, StartRetry, InsertRetry, FinalizeNoAction,
         WriteNoAction, FinalizeForApproval, WriteProposal, FailRun, WriteFailure,
         CancelWorkflow, WriteCancellation, RejectApproval, WriteRejection, tables
<1>2. CASE \E w \in WorkflowIds, role \in Roles : ApproveAndExecute(w, role)
  <2>1. PICK w \in WorkflowIds, role \in Roles : ApproveAndExecute(w, role)
    BY <1>2
  <2>2. v = w
    BY <2>1 DEF ApproveAndExecute, WriteExecution, IInv, TypeOK
  <2> QED BY <2>1, <2>2, NoneAssumption
          DEF ApproveAndExecute, WriteExecution, IInv, TypeOK, ApprovalRows
<1>3. CASE \E t \in Tickets : ResetTicket(t)
  BY <1>3, ResetEffect
<1> QED BY <1>1, <1>2, <1>3

\* A move changes one row, and there only the status and the sequence.
LEMMA MovedRow ==
  ASSUME TypeOK, NEW w \in WorkflowIds, NEW to, Move(w, workflow[w], to)
  PROVE  /\ workflow'[w].status = to /\ workflow'[w].ticket = workflow[w].ticket
         /\ \A v \in WorkflowIds \ {w} : workflow'[v] = workflow[v]
BY DEF Move, TypeOK

\* A workflow, and a run, stay the ticket's as long as they are there, and a run
\* stays an attempt of its workflow.
LEMMA OwnerStep ==
  ASSUME IInv, [Next]_tables
  PROVE  /\ \A v \in WorkflowIds : Exists(v) /\ workflow'[v].status # Absent =>
              workflow'[v].ticket = workflow[v].ticket
         /\ \A q \in RunIds : RunExists(q) /\ run'[q].status # Absent =>
              run'[q].ticket = run[q].ticket /\ run'[q].workflow = run[q].workflow
<1> USE NoneAssumption DEF IInv, TypeOK
<1>1. CASE \E t \in Tickets, k \in Keys, w \in WorkflowIds, r \in RunIds :
             StartCycle(t, k, w, r)
  BY <1>1 DEF StartCycle, InsertCycle, Exists, RunExists
<1>2. CASE \E t \in Tickets, k \in Keys, w \in WorkflowIds, r \in RunIds :
             StartRetry(t, k, w, r)
  BY <1>2 DEF StartRetry, InsertRetry, Move, RunExists
<1>3. CASE \E r \in RunIds : FinalizeNoAction(r)
  BY <1>3 DEF FinalizeNoAction, WriteNoAction, Move
<1>4. CASE \E r \in RunIds, a \in Actions : FinalizeForApproval(r, a)
  BY <1>4 DEF FinalizeForApproval, WriteProposal, Move
<1>5. CASE \E r \in RunIds, recoverable \in BOOLEAN : FailRun(r, recoverable)
  BY <1>5 DEF FailRun, WriteFailure, Move
<1>6. CASE \E w \in WorkflowIds, role \in Roles : CancelWorkflow(w, role)
  <2>1. PICK w \in WorkflowIds, role \in Roles : CancelWorkflow(w, role)
    BY <1>6
  <2>2. Move(w, workflow[w], "cancelled")
    BY <2>1, CancelEffect
  <2>3. \A v \in WorkflowIds : workflow'[v].ticket = workflow[v].ticket
    BY <2>2, MovedRow
  <2>4. \A q \in RunIds : run'[q].ticket = run[q].ticket /\ run'[q].workflow = run[q].workflow
    BY <2>1, CancelEffect
  <2> QED BY <2>3, <2>4
<1>7. CASE \E w \in WorkflowIds, role \in Roles : ApproveAndExecute(w, role)
  BY <1>7 DEF ApproveAndExecute, WriteExecution, Move
<1>8. CASE \E w \in WorkflowIds, role \in Roles : RejectApproval(w, role)
  BY <1>8 DEF RejectApproval, WriteRejection, Move
<1>9. CASE \E t \in Tickets : ResetTicket(t)
  BY <1>9, ResetEffect DEF NoWorkflow, NoRun
<1>10. CASE UNCHANGED tables
  BY <1>10 DEF tables
<1> QED BY <1>1, <1>2, <1>3, <1>4, <1>5, <1>6, <1>7, <1>8, <1>9, <1>10 DEF Next

\* A run that is running was running, or it was just inserted.
LEMMA RunningStep ==
  ASSUME IInv, [Next]_tables, NEW q \in RunIds, RunExists(q), run'[q].status = "running"
  PROVE  run'[q] = run[q]
<1> USE DEF IInv, TypeOK
<1>1. CASE \E t \in Tickets, k \in Keys, w \in WorkflowIds, r \in RunIds :
             StartCycle(t, k, w, r) \/ StartRetry(t, k, w, r)
  BY <1>1 DEF StartCycle, InsertCycle, StartRetry, InsertRetry
<1>2. CASE \E r \in RunIds : FinalizeNoAction(r)
  BY <1>2 DEF FinalizeNoAction, WriteNoAction
<1>3. CASE \E r \in RunIds, a \in Actions : FinalizeForApproval(r, a)
  BY <1>3 DEF FinalizeForApproval, WriteProposal
<1>4. CASE \E r \in RunIds, recoverable \in BOOLEAN : FailRun(r, recoverable)
  BY <1>4 DEF FailRun, WriteFailure
<1>5. CASE \E w \in WorkflowIds, role \in Roles : CancelWorkflow(w, role)
  BY <1>5, CancelEffect
<1>6. CASE \E w \in WorkflowIds, role \in Roles :
             ApproveAndExecute(w, role) \/ RejectApproval(w, role)
  BY <1>6 DEF ApproveAndExecute, WriteExecution, RejectApproval, WriteRejection
<1>7. CASE \E t \in Tickets : ResetTicket(t)
  BY <1>7, ResetEffect DEF NoRun, Absent
<1>8. CASE UNCHANGED tables
  BY <1>8 DEF tables
<1> QED BY <1>1, <1>2, <1>3, <1>4, <1>5, <1>6, <1>7, <1>8 DEF Next

\* A request that names a run keeps it and its action as long as it is there.
LEMMA RequestStep ==
  ASSUME IInv, [Next]_tables, NEW v \in WorkflowIds, approval[v].run # None,
         workflow'[v].status # Absent
  PROVE  approval'[v].run = approval[v].run /\ approval'[v].action = approval[v].action
<1> USE NoneAssumption DEF IInv, TypeOK
<1>1. approval[v].status # Absent
  BY DEF RowsAreComplete, NoApproval
<1>2. approval[v] \in ApprovalRows
  OBVIOUS
<1>3. CASE \E r \in RunIds, a \in Actions : FinalizeForApproval(r, a)
  BY <1>1, <1>3 DEF FinalizeForApproval, WriteProposal
<1>4. CASE \E w \in WorkflowIds, role \in Roles : CancelWorkflow(w, role)
  BY <1>4, CancelEffect
<1>5. CASE \E w \in WorkflowIds, role \in Roles :
             ApproveAndExecute(w, role) \/ RejectApproval(w, role)
  <2>1. PICK w \in WorkflowIds, status \in {"approved", "rejected"}, role \in Roles :
          approval' = [approval EXCEPT ![w] = [approval[w] EXCEPT !.status = status, !.decider = role]]
    BY <1>5 DEF ApproveAndExecute, WriteExecution, RejectApproval, WriteRejection
  <2> QED BY <1>2, <2>1 DEF ApprovalRows
<1>6. CASE \E t \in Tickets : ResetTicket(t)
  BY <1>6, ResetEffect DEF NoWorkflow
<1>7. \/ approval' = approval
      \/ \E r \in RunIds, a \in Actions : FinalizeForApproval(r, a)
      \/ \E w \in WorkflowIds, role \in Roles : CancelWorkflow(w, role)
      \/ \E w \in WorkflowIds, role \in Roles :
           ApproveAndExecute(w, role) \/ RejectApproval(w, role)
      \/ \E t \in Tickets : ResetTicket(t)
  BY DEF Next, StartCycle, InsertCycle, StartRetry, InsertRetry, FinalizeNoAction,
         WriteNoAction, FailRun, WriteFailure, tables
<1> QED BY <1>3, <1>4, <1>5, <1>6, <1>7

\* A request is pending because it was, or because it was just made.
LEMMA PendingStep ==
  ASSUME IInv, [Next]_tables, NEW v \in WorkflowIds, approval'[v].status = "pending"
  PROVE  \/ approval'[v] = approval[v]
         \/ \E r \in RunIds, a \in Actions : FinalizeForApproval(r, a) /\ v = run[r].workflow
<1> USE DEF IInv, TypeOK
<1>1. approval[v] \in ApprovalRows
  OBVIOUS
<1>3. CASE \E r \in RunIds, a \in Actions : FinalizeForApproval(r, a)
  BY <1>3 DEF FinalizeForApproval, WriteProposal
<1>4. CASE \E w \in WorkflowIds, role \in Roles : CancelWorkflow(w, role)
  BY <1>4, CancelEffect
<1>5. CASE \E w \in WorkflowIds, role \in Roles :
             ApproveAndExecute(w, role) \/ RejectApproval(w, role)
  <2>1. PICK w \in WorkflowIds, status \in {"approved", "rejected"}, role \in Roles :
          approval' = [approval EXCEPT ![w] = [approval[w] EXCEPT !.status = status, !.decider = role]]
    BY <1>5 DEF ApproveAndExecute, WriteExecution, RejectApproval, WriteRejection
  <2> QED BY <1>1, <2>1 DEF ApprovalRows
<1>6. CASE \E t \in Tickets : ResetTicket(t)
  BY <1>6, ResetEffect DEF NoApproval, Absent
<1>7. \/ approval' = approval
      \/ \E r \in RunIds, a \in Actions : FinalizeForApproval(r, a)
      \/ \E w \in WorkflowIds, role \in Roles : CancelWorkflow(w, role)
      \/ \E w \in WorkflowIds, role \in Roles :
           ApproveAndExecute(w, role) \/ RejectApproval(w, role)
      \/ \E t \in Tickets : ResetTicket(t)
  BY DEF Next, StartCycle, InsertCycle, StartRetry, InsertRetry, FinalizeNoAction,
         WriteNoAction, FailRun, WriteFailure, tables
<1> QED BY <1>3, <1>4, <1>5, <1>6, <1>7

\* Nothing but a reset deletes a workflow.
LEMMA ExistsStep ==
  ASSUME IInv, [Next]_tables, NEW v \in WorkflowIds, Exists(v),
         ~\E t \in Tickets : ResetTicket(t)
  PROVE  workflow'[v].status # Absent
<1>1. TypeOK
  BY DEF IInv
<1>2. CASE \E t \in Tickets, k \in Keys, w \in WorkflowIds, r \in RunIds : StartCycle(t, k, w, r)
  BY <1>1, <1>2, StartCycleEffect DEF IInv, Exists, Absent
<1>3. CASE UNCHANGED tables
  BY <1>3 DEF tables, Exists
<1>4. ASSUME NEW w \in WorkflowIds, NEW to \in WorkflowStatuses, Move(w, workflow[w], to)
      PROVE  workflow'[v].status # Absent
  BY <1>1, <1>4, MovedRow DEF Exists, WorkflowStatuses, Absent
<1>5. CASE \E t \in Tickets, k \in Keys, w \in WorkflowIds, r \in RunIds : StartRetry(t, k, w, r)
  BY <1>4, <1>5 DEF StartRetry, InsertRetry, WorkflowStatuses
<1>6. ASSUME NEW r \in RunIds, run[r].status = "running"
      PROVE  run[r].workflow \in WorkflowIds
  BY <1>6 DEF IInv, RunTracksWorkflow, RunExists, WorkflowsOf, Absent
<1>7. CASE \E r \in RunIds : FinalizeNoAction(r) \/ \E a \in Actions : FinalizeForApproval(r, a)
  BY <1>4, <1>6, <1>7 DEF FinalizeNoAction, WriteNoAction, FinalizeForApproval, WriteProposal,
                          MayEnd, WorkflowStatuses
<1>8. CASE \E r \in RunIds, recoverable \in BOOLEAN : FailRun(r, recoverable)
  BY <1>4, <1>6, <1>8 DEF FailRun, WriteFailure, FailTarget, MayEnd, WorkflowStatuses
<1>9. CASE \E w \in WorkflowIds, role \in Roles :
             CancelWorkflow(w, role) \/ ApproveAndExecute(w, role) \/ RejectApproval(w, role)
  BY <1>4, <1>9 DEF CancelWorkflow, WriteCancellation, ApproveAndExecute, WriteExecution,
                    RejectApproval, WriteRejection, WorkflowStatuses
<1> QED BY <1>2, <1>3, <1>5, <1>7, <1>8, <1>9 DEF Next

\* A run appears only when a command starts it, and then nothing is executed.
LEMMA InsertStep ==
  ASSUME IInv, [Next]_tables, NEW q \in RunIds, ~RunExists(q), run'[q].status # Absent
  PROVE  mutation' = mutation
<1> USE DEF IInv, TypeOK, RunExists
<1>1. CASE \E t \in Tickets, k \in Keys, w \in WorkflowIds, r \in RunIds :
             StartCycle(t, k, w, r) \/ StartRetry(t, k, w, r)
  BY <1>1 DEF StartCycle, InsertCycle, StartRetry, InsertRetry
<1>2. CASE \E r \in RunIds : \/ FinalizeNoAction(r)
                             \/ \E a \in Actions : FinalizeForApproval(r, a)
                             \/ \E recoverable \in BOOLEAN : FailRun(r, recoverable)
  BY <1>2 DEF FinalizeNoAction, WriteNoAction, FinalizeForApproval, WriteProposal,
              FailRun, WriteFailure
<1>3. CASE \E w \in WorkflowIds, role \in Roles : CancelWorkflow(w, role) \/ RejectApproval(w, role)
  BY <1>3 DEF CancelWorkflow, WriteCancellation, RejectApproval, WriteRejection
<1>4. CASE \E w \in WorkflowIds, role \in Roles : ApproveAndExecute(w, role)
  BY <1>4 DEF ApproveAndExecute, WriteExecution
<1>5. CASE \E t \in Tickets : ResetTicket(t)
  BY <1>5, ResetEffect DEF NoRun
<1>6. CASE UNCHANGED tables
  BY <1>6 DEF tables
<1> QED BY <1>1, <1>2, <1>3, <1>4, <1>5, <1>6 DEF Next

\* The actions that were executed for a ticket.
ExecutedOf(t) == {mutation[w] : w \in {v \in WorkflowsOf(t) : mutation[v] # None}}

\* A workflow with a mutation is terminal.
LEMMA MutationSettles ==
  ASSUME IInv, NEW v \in WorkflowIds, mutation[v] # None
  PROVE  Terminal(v) /\ Exists(v)
BY DEF IInv, DecisionsAgree, Terminal, TerminalStatuses, Exists, Absent

\* What was executed for a ticket stays executed as long as one of its runs is
\* there, and nothing more is executed while one of them is running.
LEMMA ExecutedStep ==
  ASSUME IInv, IInv', [Next]_tables, NEW q \in RunIds, NEW t,
         run'[q].status # Absent, run'[q].ticket = t
  PROVE  /\ ExecutedOf(t) \subseteq ExecutedOf(t)'
         /\ run'[q].status = "running" => ExecutedOf(t)' = ExecutedOf(t)
<1>1. ASSUME NEW v \in WorkflowsOf(t), mutation[v] # None
      PROVE  workflow'[v] = workflow[v] /\ mutation'[v] = mutation[v]
  <2>1. v \in WorkflowIds /\ Terminal(v) /\ Exists(v) /\ workflow[v].ticket = t
    BY <1>1, MutationSettles DEF WorkflowsOf
  <2>2. workflow'[v].status # Absent
    <3>1. SUFFICES ASSUME workflow'[v].status = Absent PROVE FALSE
      OBVIOUS
    <3>2. CASE \E s \in Tickets : ResetTicket(s)
      <4>1. PICK s \in Tickets : ResetTicket(s)
        BY <3>2
      <4>2. workflow[v].ticket = s
        BY <2>1, <3>1, <4>1, ResetEffect DEF Exists
      <4>3. run'[q] = NoRun \/ (run'[q] = run[q] /\ ~(RunExists(q) /\ run[q].ticket = s))
        BY <4>1, ResetEffect
      <4> QED BY <2>1, <4>2, <4>3 DEF NoRun, RunExists
    <3>3. CASE ~\E s \in Tickets : ResetTicket(s)
      BY <2>1, <3>1, <3>3, ExistsStep
    <3> QED BY <3>2, <3>3
  <2> QED BY <2>1, <2>2, SettledStep
<1>2. ExecutedOf(t) \subseteq ExecutedOf(t)'
  <2> SUFFICES ASSUME NEW v \in WorkflowsOf(t), mutation[v] # None
               PROVE  mutation[v] \in ExecutedOf(t)'
    BY DEF ExecutedOf
  <2>1. workflow'[v] = workflow[v] /\ mutation'[v] = mutation[v]
    BY <1>1
  <2>2. v \in WorkflowsOf(t)'
    BY <2>1 DEF WorkflowsOf, Exists
  <2> QED BY <2>1, <2>2 DEF ExecutedOf
<1>3. ASSUME run'[q].status = "running", NEW v \in WorkflowsOf(t)', mutation'[v] # None
      PROVE  mutation'[v] \in ExecutedOf(t)
  <2>1. CASE mutation'[v] # mutation[v]
    <3>1. v \in WorkflowIds /\ workflow[v].status = "awaiting_approval"
      BY <2>1, <1>3, MoneyStep DEF WorkflowsOf
    <3>2. Exists(v) /\ workflow'[v].ticket = t /\ Exists(v)'
      BY <3>1, <1>3 DEF WorkflowsOf, Exists, Absent
    <3>3. workflow[v].ticket = t
      BY <3>1, <3>2, OwnerStep DEF Exists
    <3>4. CASE RunExists(q)
      <4>1. run'[q] = run[q]
        BY <1>3, <3>4, RunningStep
      <4>2. /\ run[q].workflow \in WorkflowIds /\ workflow[run[q].workflow].ticket = t
            /\ workflow[run[q].workflow].status = "investigating"
        BY <3>4, <4>1, <1>3 DEF IInv, RunTracksWorkflow, WorkflowsOf
      <4>3. Active(v) /\ Active(run[q].workflow)
        BY <3>1, <4>2 DEF Active, ActiveStatuses
      <4> QED BY <3>1, <3>3, <4>2, <4>3, OneActive DEF IInv
    <3>5. CASE ~RunExists(q)
      <4>1. mutation' = mutation
        BY <3>5, InsertStep
      <4> QED BY <4>1, <2>1
    <3> QED BY <3>4, <3>5
  <2>2. CASE mutation'[v] = mutation[v]
    <3>1. v \in WorkflowIds /\ Exists(v) /\ Exists(v)' /\ workflow'[v].ticket = t
      BY <2>2, <1>3, MutationSettles DEF WorkflowsOf
    <3>2. v \in WorkflowsOf(t)
      BY <3>1, OwnerStep DEF WorkflowsOf, Exists
    <3> QED BY <3>2, <2>2, <1>3 DEF ExecutedOf
  <2> QED BY <2>1, <2>2
<1>4. run'[q].status = "running" => ExecutedOf(t)' \subseteq ExecutedOf(t)
  BY <1>3 DEF ExecutedOf
<1> QED BY <1>2, <1>4

\* A request comes from an attempt that completed.
RequestsFollowRuns ==
  \A w \in WorkflowIds : approval[w].run # None => run[approval[w].run].status = "completed"

\* Only finalize_run names a run in a request, and ends it in the same step.
LEMMA NextRequestsFollowRuns ==
  ASSUME IInv, IInv', RequestsFollowRuns, [Next]_tables
  PROVE  RequestsFollowRuns'
<1>1. ASSUME NEW w \in WorkflowIds, approval'[w].run # None
      PROVE  \/ approval'[w].run = approval[w].run
             \/ run'[approval'[w].run].status = "completed"
  <2> USE NoneAssumption DEF IInv, TypeOK, ApprovalRows
  <2>1. CASE \E r \in RunIds, a \in Actions : FinalizeForApproval(r, a)
    BY <2>1 DEF FinalizeForApproval, WriteProposal
  <2>2. CASE \E v \in WorkflowIds, role \in Roles : CancelWorkflow(v, role)
    BY <2>2, CancelEffect
  <2>3. CASE \E v \in WorkflowIds, role \in Roles :
               ApproveAndExecute(v, role) \/ RejectApproval(v, role)
    <3>1. PICK v \in WorkflowIds, status \in {"approved", "rejected"}, role \in Roles :
            approval' = [approval EXCEPT ![v] = [approval[v] EXCEPT !.status = status, !.decider = role]]
      BY <2>3 DEF ApproveAndExecute, WriteExecution, RejectApproval, WriteRejection
    <3>2. approval[v] \in ApprovalRows
      OBVIOUS
    <3> QED BY <3>1, <3>2
  <2>4. CASE \E t \in Tickets : ResetTicket(t)
    BY <1>1, <2>4, ResetEffect DEF NoApproval
  <2>5. \/ approval' = approval
        \/ \E r \in RunIds, a \in Actions : FinalizeForApproval(r, a)
        \/ \E v \in WorkflowIds, role \in Roles : CancelWorkflow(v, role)
        \/ \E v \in WorkflowIds, role \in Roles :
             ApproveAndExecute(v, role) \/ RejectApproval(v, role)
        \/ \E t \in Tickets : ResetTicket(t)
    BY DEF Next, StartCycle, InsertCycle, StartRetry, InsertRetry, FinalizeNoAction,
           WriteNoAction, FailRun, WriteFailure, tables
  <2> QED BY <2>1, <2>2, <2>3, <2>4, <2>5
<1>2. SUFFICES ASSUME NEW w \in WorkflowIds, NEW q \in RunIds,
                      approval'[w].run = q, approval[w].run = q
               PROVE  run'[q].status = "completed"
  BY <1>1 DEF RequestsFollowRuns, IInv, TypeOK, ApprovalRows
<1>3. run[q].status = "completed"
  BY <1>2, NoneAssumption DEF RequestsFollowRuns
<1>4. approval'[w].status # Absent
  BY <1>2, NoneAssumption DEF IInv, RowsAreComplete, NoApproval
<1>5. run'[q].workflow = w
  BY <1>2, <1>4, NoneAssumption DEF IInv, DecisionsAgree
<1>6. run'[q].status # Absent
  BY <1>5, NoneAssumption DEF IInv, RowsAreComplete, NoRun
<1> QED BY <1>3, <1>6, AttemptStep DEF RunStatuses

-----------------------------------------------------------------------------
(* The theorems.                                                           *)

\* Whatever late command still refers to a settled cycle, it changes nothing of
\* it (the terminal checks of finalize_run, fail_run, cancel_workflow,
\* approve_and_execute and reject_approval).
THEOREM SettledCyclesAreFinal == Spec => SettledStaysSettled
<1>1. IInv /\ [Next]_tables =>
        \A w \in WorkflowIds :
          Terminal(w) /\ workflow'[w].status # Absent =>
            /\ workflow'[w] = workflow[w]
            /\ ledger'[w] = ledger[w]
            /\ approval'[w] = approval[w]
            /\ mutation'[w] = mutation[w]
            /\ \A r \in RunIds : run[r].workflow = w => run'[r] = run[r]
  BY SettledStep
<1> QED BY <1>1, Invariance, PTL DEF Spec, SettledStaysSettled

\* A run that has completed, failed or been cancelled is never written again.
THEOREM EndedAttemptsAreFinal == Spec => AttemptsEndOnce
<1>1. IInv /\ [Next]_tables =>
        \A r \in RunIds :
          run[r].status \in RunStatuses \ {"running"} /\ run'[r].status # Absent =>
            run'[r] = run[r]
  BY AttemptStep
<1> QED BY <1>1, Invariance, PTL DEF Spec, AttemptsEndOnce

\* approve_and_execute is the only way to a mutation: the human's decision, the
\* execution and the workflow's move are one step.
THEOREM MoneyMovesOnApprovalOnly == Spec => MoneyNeedsApproval
<1>1. IInv /\ [Next]_tables =>
        \A w \in WorkflowIds :
          mutation'[w] # None /\ mutation'[w] # mutation[w] =>
            /\ approval[w].status = "pending"
            /\ workflow[w].status = "awaiting_approval"
            /\ approval'[w].status = "approved"
            /\ mutation'[w] = approval[w].action
            /\ approval'[w].decider # None
            /\ May(approval'[w].decider, "approval.decide")
  BY MoneyStep
<1> QED BY <1>1, Invariance, PTL DEF Spec, MoneyNeedsApproval

\* Every request on record comes from an attempt that completed (finalize_run
\* writes both), whatever became of the request since.
THEOREM RequestsComeFromCompletedRuns == Spec => []RequestsFollowRuns
<1>1. Empty => RequestsFollowRuns
  BY DEF Empty, NoApproval, RequestsFollowRuns
<1>2. IInv /\ IInv' /\ RequestsFollowRuns /\ [Next]_tables => RequestsFollowRuns'
  BY NextRequestsFollowRuns
<1> QED BY <1>1, <1>2, Invariance, PTL DEF Spec
=============================================================================
