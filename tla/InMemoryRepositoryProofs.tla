---------------------- MODULE InMemoryRepositoryProofs ----------------------
(***************************************************************************)
(* InMemoryRepository, proved for any seed and any number of tickets,      *)
(* keys, actions and rows: what its lists keep, and that whatever it does  *)
(* to them the SQL repository may do to its tables.                        *)
(***************************************************************************)
EXTENDS InMemoryRepository, SequenceTheorems, TLAPS

WorkflowEntries == [id : WorkflowIds, ticket : Tickets, cycle : Nat,
                    status : WorkflowStatuses, sequence : Nat]
MoveEntries == [sequence : Nat, from : WorkflowStatuses \cup {Absent},
                to : WorkflowStatuses]
RunEntries == [id : RunIds, ticket : Tickets, key : Keys \cup {None},
               workflow : WorkflowIds, status : RunStatuses]
RequestEntries == [id : WorkflowIds, ticket : Tickets, action : Actions,
                   run : RunIds \cup {None}, status : ApprovalStatuses,
                   decider : Roles \cup {None}]
MutationEntries == [id : WorkflowIds, ticket : Tickets, action : Actions,
                    run : RunIds \cup {None}]

OneRowPerId(rows) == \A row, other \in rows : row.id = other.id => row = other

\* Every list has rows of its kind, each id once, and every ticket a last cycle.
ListsAreSound ==
  /\ workflows \in SUBSET WorkflowEntries
  /\ moves \in [WorkflowIds -> Seq(MoveEntries)]
  /\ runs \in SUBSET RunEntries
  /\ approvals \in SUBSET RequestEntries
  /\ mutations \in SUBSET MutationEntries
  /\ OneRowPerId(workflows) /\ OneRowPerId(runs)
  /\ OneRowPerId(approvals) /\ OneRowPerId(mutations)
  /\ \A wf \in workflows : wf.sequence >= 1
  /\ \A t \in Tickets :
       \E n \in {0} \cup {wf.cycle : wf \in WorkflowsOf(t)} :
         \A wf \in WorkflowsOf(t) : wf.cycle <= n

\* The status a request leaves its workflow in.
StatusBehind(request) ==
  CASE request.status = "pending" -> "awaiting_approval"
    [] request.status = "approved" -> "mock_executed"
    [] request.status = "rejected" -> "rejected"
    [] request.status = "withdrawn" -> "cancelled"

\* What the lists say of each other.  A request may have outlived its workflow,
\* but never sits behind a workflow it does not explain.
ListsAgree ==
  /\ \A w \in WorkflowIds : ~Known(w) => moves[w] = << >>
  /\ \A r \in runs : \E wf \in workflows : wf.id = r.workflow /\ wf.ticket = r.ticket
  /\ \A request \in approvals : \A wf \in workflows :
       wf.id = request.id =>
         wf.ticket = request.ticket /\ wf.status = StatusBehind(request)
  /\ \A m \in mutations : \E request \in approvals :
       /\ request.id = m.id /\ request.ticket = m.ticket
       /\ request.action = m.action /\ request.run = m.run
       /\ request.status = "approved"
  /\ \A p, q \in approvals :
       /\ p.status = "pending" /\ q.status = "pending"
       /\ p.ticket = q.ticket /\ p.action = q.action
       => p = q

ListInv ==
  /\ ListsAreSound
  /\ ListsAgree
  /\ MovesReplay
  /\ MoneyOnce
  /\ HistoryIsKept

-----------------------------------------------------------------------------
(* Lists of rows, and the tables they stand for.                           *)

\* _replace_run, _replace_workflow and _replace_approval on a list that has each
\* id once.
LEMMA PutRow ==
  ASSUME NEW rows, OneRowPerId(rows), NEW old \in rows, NEW new, new.id = old.id
  PROVE  /\ Put(rows, new) = (rows \ {old}) \cup {new}
         /\ OneRowPerId(Put(rows, new))
         /\ \A id : Has(Put(rows, new), id) <=> Has(rows, id)
BY DEF Put, OneRowPerId, Has

\* The row of an id.
LEMMA FindRow ==
  ASSUME NEW rows, OneRowPerId(rows), NEW row \in rows
  PROVE  Has(rows, row.id) /\ Find(rows, row.id) = row
BY DEF OneRowPerId, Has, Find

\* What is read off the tables.
TablesShowLists ==
  /\ WorkflowTable = [w \in WorkflowIds |-> WorkflowTable[w]]
  /\ LedgerTable = [w \in WorkflowIds |-> LedgerTable[w]]
  /\ RunTable = [r \in RunIds |-> RunTable[r]]
  /\ ApprovalTable = [w \in WorkflowIds |-> ApprovalTable[w]]
  /\ MutationTable = [w \in WorkflowIds |-> MutationTable[w]]
  /\ \A wf \in workflows : WorkflowTable[wf.id] = WorkflowRow(wf)
  /\ \A r \in runs : RunTable[r.id] = RunRow(r)
  /\ \A request \in approvals :
       Known(request.id) => ApprovalTable[request.id] = ApprovalRow(request)
  /\ \A m \in mutations : Known(m.id) => MutationTable[m.id] = m.action
  /\ \A w \in WorkflowIds :
       /\ LedgerTable[w] = ToSet(moves[w])
       /\ ~Known(w) => /\ WorkflowTable[w] = CW!NoWorkflow
                       /\ ApprovalTable[w] = CW!NoApproval
                       /\ MutationTable[w] = None
       /\ ~Has(approvals, w) => ApprovalTable[w] = CW!NoApproval
       /\ ~Has(mutations, w) => MutationTable[w] = None
  /\ \A r \in RunIds : ~Has(runs, r) => RunTable[r] = CW!NoRun

\* Of the lists as they are.
LEMMA TablesNow == ListsAreSound => TablesShowLists
<1> SUFFICES ASSUME ListsAreSound PROVE TablesShowLists
  OBVIOUS
<1>1. /\ \A row \in workflows : row.id \in WorkflowIds /\ Known(row.id)
                                  /\ Find(workflows, row.id) = row
      /\ \A row \in runs : row.id \in RunIds /\ Has(runs, row.id)
                                  /\ Find(runs, row.id) = row
      /\ \A row \in approvals : row.id \in WorkflowIds /\ Has(approvals, row.id)
                                  /\ Find(approvals, row.id) = row
      /\ \A row \in mutations : row.id \in WorkflowIds /\ Has(mutations, row.id)
                                  /\ Find(mutations, row.id) = row
  BY FindRow DEF ListsAreSound, Known, WorkflowEntries, RunEntries, RequestEntries,
                 MutationEntries
<1> QED BY <1>1 DEF TablesShowLists, WorkflowTable, LedgerTable, RunTable, ApprovalTable,
                    MutationTable, CW!NoWorkflow, CW!NoApproval, CW!NoRun, Absent, CW!Absent

\* And as a step leaves them.
LEMMA TablesNext == ListsAreSound' => TablesShowLists'
<1> SUFFICES ASSUME ListsAreSound' PROVE TablesShowLists'
  OBVIOUS
<1>1. /\ \A row \in workflows' : row.id \in WorkflowIds /\ Known(row.id)'
                                  /\ Find(workflows', row.id) = row
      /\ \A row \in runs' : row.id \in RunIds /\ Has(runs', row.id)
                                  /\ Find(runs', row.id) = row
      /\ \A row \in approvals' : row.id \in WorkflowIds /\ Has(approvals', row.id)
                                  /\ Find(approvals', row.id) = row
      /\ \A row \in mutations' : row.id \in WorkflowIds /\ Has(mutations', row.id)
                                  /\ Find(mutations', row.id) = row
  BY FindRow DEF ListsAreSound, Known, WorkflowEntries, RunEntries, RequestEntries,
                 MutationEntries
<1> QED BY <1>1 DEF TablesShowLists, WorkflowTable, LedgerTable, RunTable, ApprovalTable,
                    MutationTable, CW!NoWorkflow, CW!NoApproval, CW!NoRun, Absent, CW!Absent

-----------------------------------------------------------------------------
(* One status change.                                                      *)

\* The end of the list of moves is where the workflow stands, so both ways of
\* naming a move's start name the same status.
LEMMA MoveStarts ==
  ASSUME ListInv, NEW wf \in workflows, NEW to, MoveTo(wf, to)
  PROVE  MoveFrom(wf, wf.status, to)
<1>1. moves[wf.id] \in Seq(MoveEntries) /\ wf.sequence \in Nat /\ wf.sequence >= 1
  BY DEF ListInv, ListsAreSound, WorkflowEntries
<1>2. Len(moves[wf.id]) = wf.sequence /\ Last(moves[wf.id]).to = wf.status
  BY DEF ListInv, MovesReplay
<1>3. moves[wf.id] # << >>
  BY <1>1, <1>2
<1> QED BY <1>2, <1>3 DEF MoveTo

\* The new row is the old one but for status and sequence.
LEMMA MovedRow ==
  ASSUME ListInv, NEW wf \in workflows, NEW to \in WorkflowStatuses,
         MoveFrom(wf, wf.status, to)
  PROVE  \E moved \in WorkflowEntries :
           /\ moved.id = wf.id /\ moved.ticket = wf.ticket /\ moved.cycle = wf.cycle
           /\ moved.status = to /\ moved.sequence = wf.sequence + 1
           /\ workflows' = (workflows \ {wf}) \cup {moved}
           /\ OneRowPerId(workflows')
           /\ \A w : Known(w)' <=> Known(w)
           /\ moves' = [moves EXCEPT ![wf.id] =
                Append(@, [sequence |-> wf.sequence + 1, from |-> wf.status, to |-> to])]
<1> DEFINE half == [wf EXCEPT !.status = to]
           moved == [half EXCEPT !.sequence = @ + 1]
<1>1. wf \in WorkflowEntries
  BY DEF ListInv, ListsAreSound
<1>2. /\ half \in WorkflowEntries /\ half.id = wf.id /\ half.ticket = wf.ticket
      /\ half.cycle = wf.cycle /\ half.status = to /\ half.sequence = wf.sequence
  BY <1>1 DEF WorkflowEntries
<1>3. workflows' = Put(workflows, moved)
  BY DEF MoveFrom
<1> HIDE DEF half
<1>4. /\ moved \in WorkflowEntries /\ moved.id = wf.id /\ moved.ticket = wf.ticket
      /\ moved.cycle = wf.cycle /\ moved.status = to /\ moved.sequence = wf.sequence + 1
  BY <1>2 DEF WorkflowEntries
<1> HIDE DEF moved
<1>5. /\ workflows' = (workflows \ {wf}) \cup {moved} /\ OneRowPerId(workflows')
      /\ \A w : Has(workflows', w) <=> Has(workflows, w)
  BY <1>3, <1>4, PutRow DEF ListInv, ListsAreSound
<1>6. \A w : Known(w)' <=> Known(w)
  BY <1>5 DEF Known, Has
<1> QED BY <1>4, <1>5, <1>6 DEF MoveFrom

\* What a legal move keeps of the lists, and what it does to the tables.
LEMMA MoveStep ==
  ASSUME ListInv, NEW wf \in workflows, NEW to \in WorkflowStatuses,
         CanTransition(wf.status, to), MoveFrom(wf, wf.status, to)
  PROVE  /\ workflows' \in SUBSET WorkflowEntries
         /\ moves' \in [WorkflowIds -> Seq(MoveEntries)]
         /\ OneRowPerId(workflows')
         /\ \A x \in workflows' : x.sequence >= 1
         /\ (\A t \in Tickets :
              \E n \in {0} \cup {x.cycle : x \in WorkflowsOf(t)} :
                \A x \in WorkflowsOf(t) : x.cycle <= n)'
         /\ \A w : Known(w)' <=> Known(w)
         /\ \A w \in WorkflowIds : ~Known(w) => moves'[w] = << >>
         /\ \A x \in workflows' :
              \/ x \in workflows /\ x.id # wf.id
              \/ x.id = wf.id /\ x.ticket = wf.ticket /\ x.status = to
         /\ \A x \in workflows : \E y \in workflows' : y.id = x.id /\ y.ticket = x.ticket
         /\ MovesReplay'
         /\ ListsAreSound' => CW!Move(wf.id, WorkflowTable[wf.id], to)
<1>1. PICK moved \in WorkflowEntries :
        /\ moved.id = wf.id /\ moved.ticket = wf.ticket /\ moved.cycle = wf.cycle
        /\ moved.status = to /\ moved.sequence = wf.sequence + 1
        /\ workflows' = (workflows \ {wf}) \cup {moved}
        /\ OneRowPerId(workflows')
        /\ \A w : Known(w)' <=> Known(w)
        /\ moves' = [moves EXCEPT ![wf.id] =
             Append(@, [sequence |-> wf.sequence + 1, from |-> wf.status, to |-> to])]
  BY MovedRow
<1> DEFINE entry == [sequence |-> wf.sequence + 1, from |-> wf.status, to |-> to]
<1>2. /\ wf \in WorkflowEntries /\ wf.id \in WorkflowIds /\ wf.sequence \in Nat
      /\ wf.sequence >= 1 /\ wf.ticket \in Tickets
      /\ moves \in [WorkflowIds -> Seq(MoveEntries)]
      /\ moves[wf.id] \in Seq(MoveEntries) /\ wf.status \in WorkflowStatuses
  BY DEF ListInv, ListsAreSound, WorkflowEntries
<1>3. entry \in MoveEntries /\ entry.sequence = wf.sequence + 1 /\ entry.from = wf.status
        /\ entry.to = to
  BY <1>2 DEF MoveEntries
<1>4. /\ workflows' \in SUBSET WorkflowEntries
      /\ \A x \in workflows' : x.sequence >= 1
      /\ \A x \in workflows' :
           \/ x \in workflows /\ x.id # wf.id
           \/ x.id = wf.id /\ x.ticket = wf.ticket /\ x.status = to
      /\ \A x \in workflows : \E y \in workflows' : y.id = x.id /\ y.ticket = x.ticket
  BY <1>1, <1>2 DEF ListInv, ListsAreSound, OneRowPerId
<1> HIDE DEF entry
<1>5. /\ moves' \in [WorkflowIds -> Seq(MoveEntries)]
      /\ moves'[wf.id] = Append(moves[wf.id], entry)
      /\ \A w \in WorkflowIds \ {wf.id} : moves'[w] = moves[w]
  BY <1>1, <1>2, <1>3, AppendProperties DEF entry
<1>6. \A w \in WorkflowIds : ~Known(w) => moves'[w] = << >>
  BY <1>5 DEF ListInv, ListsAgree, Known
<1>7. ASSUME NEW t \in Tickets
      PROVE  \E n \in {0} \cup {x.cycle : x \in WorkflowsOf(t)'} :
               \A x \in WorkflowsOf(t)' : x.cycle <= n
  <2>1. {x.cycle : x \in WorkflowsOf(t)'} = {x.cycle : x \in WorkflowsOf(t)}
    BY <1>1 DEF WorkflowsOf
  <2>2. \A x \in WorkflowsOf(t)' : \E y \in WorkflowsOf(t) : y.cycle = x.cycle
    BY <1>1 DEF WorkflowsOf
  <2> QED BY <2>1, <2>2 DEF ListInv, ListsAreSound
<1>8. MovesReplay'
  <2> SUFFICES ASSUME NEW x \in workflows'
               PROVE  LET path == moves'[x.id] IN
                      /\ Len(path) = x.sequence /\ Last(path).to = x.status
                      /\ \A n \in 1..Len(path) :
                           /\ path[n].sequence = n
                           /\ path[n].from = IF n = 1 THEN Absent ELSE path[n - 1].to
                           /\ CanTransition(path[n].from, path[n].to)
    BY DEF MovesReplay
  <2>1. CASE x.id # wf.id
    <3>1. x \in workflows /\ moves'[x.id] = moves[x.id]
      BY <2>1, <1>4, <1>5 DEF WorkflowEntries
    <3> QED BY <3>1 DEF ListInv, MovesReplay
  <2>2. CASE x.id = wf.id
    <3> DEFINE old == moves[wf.id]
               path == moves'[wf.id]
    <3>1. x.sequence = wf.sequence + 1 /\ x.status = to
      BY <2>2, <1>1 DEF OneRowPerId
    <3>2. /\ Len(old) = wf.sequence /\ Last(old).to = wf.status
          /\ \A n \in 1..Len(old) :
               /\ old[n].sequence = n
               /\ old[n].from = IF n = 1 THEN Absent ELSE old[n - 1].to
               /\ CanTransition(old[n].from, old[n].to)
      BY DEF ListInv, MovesReplay
    <3>3. /\ Len(path) = wf.sequence + 1 /\ path[wf.sequence + 1] = entry
          /\ \A n \in 1..wf.sequence : path[n] = old[n]
          /\ Last(path) = entry /\ Last(old) = old[wf.sequence]
      BY <1>2, <1>3, <1>5, <3>2, AppendProperties DEF Last
    <3> HIDE DEF path, old
    <3>4. ASSUME NEW n \in 1..(wf.sequence + 1)
          PROVE  /\ path[n].sequence = n
                 /\ path[n].from = IF n = 1 THEN Absent ELSE path[n - 1].to
                 /\ CanTransition(path[n].from, path[n].to)
      <4>1. CASE n = wf.sequence + 1
        <5>1. n # 1 /\ n - 1 \in 1..wf.sequence /\ n - 1 = wf.sequence
          BY <4>1, <1>2
        <5>2. path[n] = entry /\ path[n - 1].to = wf.status
          BY <4>1, <5>1, <3>2, <3>3
        <5> QED BY <4>1, <5>1, <5>2, <1>3
      <4>2. CASE n # wf.sequence + 1
        <5>1. n \in 1..wf.sequence /\ (n # 1 => n - 1 \in 1..wf.sequence)
          BY <4>2, <1>2
        <5> QED BY <5>1, <3>2, <3>3
      <4> QED BY <4>1, <4>2
    <3> QED BY <2>2, <3>1, <3>3, <3>4, <1>3 DEF path
  <2> QED BY <2>1, <2>2
<1>9. ASSUME ListsAreSound'
      PROVE  CW!Move(wf.id, WorkflowTable[wf.id], to)
  <2>1. TablesShowLists /\ TablesShowLists'
    BY <1>9, TablesNow, TablesNext DEF ListInv
  <2> DEFINE row == WorkflowTable[wf.id]
             half == [row EXCEPT !.status = to]
             new == [half EXCEPT !.sequence = @ + 1]
  <2>2. row = WorkflowRow(wf)
    BY <2>1 DEF TablesShowLists
  <2> HIDE DEF row
  <2>3. new = WorkflowRow(moved) /\ row.sequence = wf.sequence /\ row.status = wf.status
    <3>1. row = [ticket |-> wf.ticket, cycle |-> wf.cycle,
                 status |-> wf.status, sequence |-> wf.sequence]
      BY <2>2 DEF WorkflowRow
    <3>2. half = [ticket |-> wf.ticket, cycle |-> wf.cycle,
                  status |-> to, sequence |-> wf.sequence]
      BY <3>1
    <3> HIDE DEF half
    <3>3. new = [ticket |-> wf.ticket, cycle |-> wf.cycle,
                 status |-> to, sequence |-> wf.sequence + 1]
      BY <3>2
    <3> QED BY <3>1, <3>3, <1>1 DEF WorkflowRow
  <2> HIDE DEF new
  <2>4. WorkflowTable' = [WorkflowTable EXCEPT ![wf.id] = new]
    <3>1. WorkflowTable'[wf.id] = new
      BY <1>1, <2>1, <2>3 DEF TablesShowLists
    <3>2. ASSUME NEW w \in WorkflowIds, w # wf.id
          PROVE  WorkflowTable'[w] = WorkflowTable[w]
      <4>1. CASE Known(w)
        <5>1. PICK x \in workflows : x.id = w
          BY <4>1 DEF Known
        <5>2. x \in workflows'
          BY <5>1, <3>2, <1>1
        <5> QED BY <5>1, <5>2, <2>1 DEF TablesShowLists
      <4>2. CASE ~Known(w)
        <5>1. ~Known(w)'
          BY <4>2, <1>1
        <5> QED BY <4>2, <5>1, <2>1 DEF TablesShowLists
      <4> QED BY <4>1, <4>2
    <3> QED BY <3>1, <3>2, <2>1, <1>2 DEF TablesShowLists
  <2>5. LedgerTable' = [LedgerTable EXCEPT ![wf.id] =
          @ \cup {[sequence |-> row.sequence + 1, from |-> row.status, to |-> to]}]
    <3>1. ToSet(moves'[wf.id]) = ToSet(moves[wf.id]) \cup {entry}
      <4> DEFINE old == moves[wf.id]
      <4>1. /\ DOMAIN Append(old, entry) = 1..(Len(old) + 1) /\ DOMAIN old = 1..Len(old)
            /\ Len(old) \in Nat
            /\ \A i \in 1..Len(old) : Append(old, entry)[i] = old[i]
            /\ Append(old, entry)[Len(old) + 1] = entry
        BY <1>2, <1>3, AppendProperties
      <4> HIDE DEF old
      <4>2. 1..(Len(old) + 1) = (1..Len(old)) \cup {Len(old) + 1}
        BY <4>1
      <4>3. ToSet(Append(old, entry)) = ToSet(old) \cup {entry}
        BY <4>1, <4>2, Zenon DEF ToSet
      <4> QED BY <4>3, <1>5 DEF old
    <3>2. entry = [sequence |-> row.sequence + 1, from |-> row.status, to |-> to]
      BY <2>3 DEF entry
    <3>3. /\ LedgerTable'[wf.id] = LedgerTable[wf.id] \cup {entry}
          /\ \A w \in WorkflowIds \ {wf.id} : LedgerTable'[w] = LedgerTable[w]
      <4>1. \A w \in WorkflowIds : /\ LedgerTable[w] = ToSet(moves[w])
                                   /\ LedgerTable'[w] = ToSet(moves'[w])
        BY <2>1 DEF TablesShowLists
      <4> QED BY <4>1, <3>1, <1>2, <1>5
    <3> QED BY <3>2, <3>3, <2>1, <1>2 DEF TablesShowLists
  <2> QED BY <2>4, <2>5 DEF CW!Move, new, half, row
<1> QED BY <1>1, <1>4, <1>5, <1>6, <1>7, <1>8, <1>9

\* The two copies of the transition table are one.
LEMMA SameTransitions ==
  ASSUME NEW source, NEW target
  PROVE  CW!CanTransition(source, target) <=> CanTransition(source, target)
BY DEF CW!CanTransition, CanTransition, CW!Absent, Absent, CW!InitialStatus, InitialStatus,
       CW!ActiveStatuses, ActiveStatuses, CW!WorkflowTransitions, WorkflowTransitions

\* A request sits behind no workflow that is still investigated or to be retried.
LEMMA NothingBehind ==
  ASSUME ListInv, NEW wf \in workflows, wf.status \in {"investigating", "needs_retry"}
  PROVE  \A request \in approvals : request.id # wf.id
<1> SUFFICES ASSUME NEW request \in approvals, request.id = wf.id
             PROVE  FALSE
  OBVIOUS
<1>1. wf.status = StatusBehind(request) /\ request.status \in ApprovalStatuses
  BY DEF ListInv, ListsAgree, ListsAreSound, RequestEntries
<1> QED BY <1>1 DEF StatusBehind, ApprovalStatuses

\* Only a workflow under investigation, or one to be retried, completes, fails or is
\* retried; only one under investigation comes to wait for approval.
LEMMA Sources ==
  ASSUME NEW source \in WorkflowStatuses, NEW target, CanTransition(source, target)
  PROVE  /\ target \in {"completed_no_action", "needs_retry", "failed", "investigating"} =>
              source \in {"investigating", "needs_retry"}
         /\ target = "awaiting_approval" => source = "investigating"
BY DEF CanTransition, WorkflowStatuses, ActiveStatuses, WorkflowTransitions, Absent,
       InitialStatus

\* Requests and mutations show in the tables while their workflow exists.
LEMMA SameTables ==
  ASSUME \A w : Known(w)' <=> Known(w)
  PROVE  /\ approvals' = approvals => ApprovalTable' = ApprovalTable
         /\ mutations' = mutations => MutationTable' = MutationTable
         /\ runs' = runs => RunTable' = RunTable
BY DEF ApprovalTable, MutationTable, RunTable

\* A step that moves a workflow nobody has proposed anything for.
LEMMA QuietStep ==
  ASSUME ListInv, NEW wf \in workflows, wf.status \in {"investigating", "needs_retry"},
         NEW to \in WorkflowStatuses, CanTransition(wf.status, to),
         MoveFrom(wf, wf.status, to), UNCHANGED <<approvals, mutations>>,
         runs' \in SUBSET RunEntries, OneRowPerId(runs'),
         \A x \in runs' : \E y \in workflows : y.id = x.workflow /\ y.ticket = x.ticket
  PROVE  /\ ListInv'
         /\ CW!Move(wf.id, WorkflowTable[wf.id], to)
         /\ ApprovalTable' = ApprovalTable /\ MutationTable' = MutationTable
<1>1. /\ workflows' \in SUBSET WorkflowEntries
      /\ moves' \in [WorkflowIds -> Seq(MoveEntries)]
      /\ OneRowPerId(workflows')
      /\ \A x \in workflows' : x.sequence >= 1
      /\ (\A t \in Tickets :
           \E n \in {0} \cup {x.cycle : x \in WorkflowsOf(t)} :
             \A x \in WorkflowsOf(t) : x.cycle <= n)'
      /\ \A w : Known(w)' <=> Known(w)
      /\ \A w \in WorkflowIds : ~Known(w) => moves'[w] = << >>
      /\ \A x \in workflows' :
           \/ x \in workflows /\ x.id # wf.id
           \/ x.id = wf.id /\ x.ticket = wf.ticket /\ x.status = to
      /\ \A x \in workflows : \E y \in workflows' : y.id = x.id /\ y.ticket = x.ticket
      /\ MovesReplay'
      /\ ListsAreSound' => CW!Move(wf.id, WorkflowTable[wf.id], to)
  BY MoveStep
<1>2. ListsAreSound'
  BY <1>1 DEF ListInv, ListsAreSound
<1>3. ListsAgree'
  <2>1. \A request \in approvals : \A x \in workflows' :
          x.id = request.id =>
            x.ticket = request.ticket /\ x.status = StatusBehind(request)
    BY <1>1, NothingBehind DEF ListInv, ListsAgree
  <2>2. \A w \in WorkflowIds : ~Known(w)' => moves'[w] = << >>
    BY <1>1
  <2>3. \A x \in runs' : \E y \in workflows' : y.id = x.workflow /\ y.ticket = x.ticket
    BY <1>1
  <2> QED BY <2>1, <2>2, <2>3 DEF ListInv, ListsAgree, StatusBehind
<1>4. MoneyOnce' /\ HistoryIsKept'
  BY DEF ListInv, MoneyOnce, HistoryIsKept, ExecutedFor
<1>5. ApprovalTable' = ApprovalTable /\ MutationTable' = MutationTable
  BY <1>1, SameTables
<1> QED BY <1>1, <1>2, <1>3, <1>4, <1>5 DEF ListInv

\* A run ends.
LEMMA EndRunStep ==
  ASSUME ListInv, NEW r \in runs, NEW status \in RunStatuses, EndRun(r, status)
  PROVE  /\ runs' \in SUBSET RunEntries /\ OneRowPerId(runs')
         /\ \A x \in runs' : \E y \in workflows : y.id = x.workflow /\ y.ticket = x.ticket
         /\ ListsAreSound' => RunTable' = [RunTable EXCEPT ![r.id].status = status]
<1> DEFINE new == [r EXCEPT !.status = status]
<1>1. r \in RunEntries /\ runs' = Put(runs, new)
  BY DEF ListInv, ListsAreSound, EndRun
<1>2. /\ new \in RunEntries /\ new.id = r.id /\ new.ticket = r.ticket
      /\ new.workflow = r.workflow /\ new.status = status /\ new.key = r.key
  BY <1>1 DEF RunEntries
<1> HIDE DEF new
<1>3. /\ runs' = (runs \ {r}) \cup {new} /\ OneRowPerId(runs')
      /\ \A q : Has(runs', q) <=> Has(runs, q)
  BY <1>1, <1>2, PutRow DEF ListInv, ListsAreSound
<1>4. /\ runs' \in SUBSET RunEntries
      /\ \A x \in runs' : \E y \in workflows : y.id = x.workflow /\ y.ticket = x.ticket
  BY <1>2, <1>3 DEF ListInv, ListsAreSound, ListsAgree
<1>5. ASSUME ListsAreSound'
      PROVE  RunTable' = [RunTable EXCEPT ![r.id].status = status]
  <2>1. TablesShowLists /\ TablesShowLists'
    BY <1>5, TablesNow, TablesNext DEF ListInv
  <2>2. RunTable'[r.id] = [RunTable[r.id] EXCEPT !.status = status]
    <3>1. RunTable[r.id] = [ticket |-> r.ticket, key |-> r.key,
                            workflow |-> r.workflow, status |-> r.status]
      BY <2>1 DEF TablesShowLists, RunRow
    <3>2. RunTable'[r.id] = [ticket |-> r.ticket, key |-> r.key,
                             workflow |-> r.workflow, status |-> status]
      BY <2>1, <1>2, <1>3 DEF TablesShowLists, RunRow
    <3> QED BY <3>1, <3>2
  <2>3. ASSUME NEW q \in RunIds, q # r.id
        PROVE  RunTable'[q] = RunTable[q]
    <3>1. CASE Has(runs, q)
      <4>1. PICK x \in runs : x.id = q
        BY <3>1 DEF Has
      <4>2. x \in runs'
        BY <4>1, <2>3, <1>3
      <4> QED BY <4>1, <4>2, <2>1 DEF TablesShowLists
    <3>2. CASE ~Has(runs, q)
      <4>1. ~Has(runs', q)
        BY <3>2, <1>3
      <4> QED BY <3>2, <4>1, <2>1 DEF TablesShowLists
    <3> QED BY <3>1, <3>2
  <2>4. RunTable = [q \in RunIds |-> RunTable[q]] /\ RunTable' = [q \in RunIds |-> RunTable'[q]]
    BY <2>1 DEF TablesShowLists
  <2>5. r.id \in RunIds
    BY <1>1 DEF RunEntries
  <2> QED BY <2>2, <2>3, <2>4, <2>5
<1> QED BY <1>3, <1>4, <1>5

-----------------------------------------------------------------------------
(* The commands, one by one: each keeps the lists, and is a command of the *)
(* tables.                                                                 *)

\* What the tables show of a run and its workflow.
LEMMA RunAndWorkflow ==
  ASSUME ListInv, NEW r \in runs, NEW wf \in WorkflowOfRun(r)
  PROVE  /\ wf \in workflows /\ wf.ticket = r.ticket /\ wf.id = r.workflow
         /\ wf.id \in WorkflowIds /\ wf.status \in WorkflowStatuses /\ r.id \in RunIds
         /\ RunTable[r.id] = RunRow(r)
         /\ WorkflowTable[wf.id] = WorkflowRow(wf)
         /\ \A target : CW!MayEnd(r.id, target) <=>
              r.status = "running" /\ CanTransition(wf.status, target)
<1>1. wf \in workflows /\ wf.id = r.workflow
  BY DEF WorkflowOfRun
<1>2. wf \in WorkflowEntries /\ r \in RunEntries
  BY <1>1 DEF ListInv, ListsAreSound
<1>3. wf.ticket = r.ticket
  BY <1>1 DEF ListInv, ListsAgree, ListsAreSound, OneRowPerId
<1>4. RunTable[r.id] = RunRow(r) /\ WorkflowTable[wf.id] = WorkflowRow(wf)
  BY <1>1, TablesNow DEF ListInv, TablesShowLists
<1>5. \A target : CW!MayEnd(r.id, target) <=>
        r.status = "running" /\ CanTransition(wf.status, target)
  BY <1>1, <1>4, SameTransitions DEF CW!MayEnd, RunRow, WorkflowRow
<1> QED BY <1>1, <1>2, <1>3, <1>4, <1>5 DEF WorkflowEntries, RunEntries

\* A run ends without a proposal.
LEMMA FinalizeNoActionStep ==
  ASSUME ListInv, NEW r \in runs, FinalizeNoAction(r)
  PROVE  ListInv' /\ CW!Next
<1> DEFINE to == "completed_no_action"
<1>1. PICK wf \in WorkflowOfRun(r) : CanTransition(wf.status, to) /\ MoveTo(wf, to)
  BY DEF FinalizeNoAction
<1>2. /\ wf \in workflows /\ wf.id = r.workflow /\ wf.status \in WorkflowStatuses
      /\ r.id \in RunIds /\ RunTable[r.id] = RunRow(r) /\ CW!MayEnd(r.id, to)
  BY <1>1, RunAndWorkflow DEF FinalizeNoAction
<1>3. to \in WorkflowStatuses /\ "completed" \in RunStatuses
  BY DEF WorkflowStatuses, RunStatuses
<1>4. wf.status \in {"investigating", "needs_retry"}
  BY <1>1, <1>2, Sources
<1>5. MoveFrom(wf, wf.status, to)
  BY <1>1, <1>2, MoveStarts
<1>6. /\ runs' \in SUBSET RunEntries /\ OneRowPerId(runs')
      /\ \A x \in runs' : \E y \in workflows : y.id = x.workflow /\ y.ticket = x.ticket
      /\ ListsAreSound' => RunTable' = [RunTable EXCEPT ![r.id].status = "completed"]
  BY <1>3, EndRunStep DEF FinalizeNoAction
<1>7. /\ ListInv' /\ CW!Move(wf.id, WorkflowTable[wf.id], to)
      /\ ApprovalTable' = ApprovalTable /\ MutationTable' = MutationTable
  BY <1>1, <1>2, <1>3, <1>4, <1>5, <1>6, QuietStep DEF FinalizeNoAction
<1>8. CW!FinalizeNoAction(r.id)
  BY <1>2, <1>6, <1>7 DEF CW!FinalizeNoAction, CW!WriteNoAction, RunRow, ListInv
<1> QED BY <1>2, <1>7, <1>8 DEF CW!Next

\* A run fails, recoverably or not.
LEMMA FailRunStep ==
  ASSUME ListInv, NEW r \in runs, NEW recoverable \in BOOLEAN, FailRun(r, recoverable)
  PROVE  ListInv' /\ CW!Next
<1> DEFINE to == IF recoverable THEN "needs_retry" ELSE "failed"
<1>1. PICK wf \in WorkflowOfRun(r) : CanTransition(wf.status, to) /\ MoveTo(wf, to)
  BY DEF FailRun
<1>2. /\ wf \in workflows /\ wf.id = r.workflow /\ wf.status \in WorkflowStatuses
      /\ r.id \in RunIds /\ RunTable[r.id] = RunRow(r) /\ CW!MayEnd(r.id, to)
  BY <1>1, RunAndWorkflow DEF FailRun
<1>3. /\ to \in WorkflowStatuses /\ to \in {"needs_retry", "failed"}
      /\ "failed" \in RunStatuses
  BY DEF WorkflowStatuses, RunStatuses
<1> HIDE DEF to
<1>4. wf.status \in {"investigating", "needs_retry"}
  BY <1>1, <1>2, <1>3, Sources
<1>5. MoveFrom(wf, wf.status, to)
  BY <1>1, <1>2, MoveStarts
<1>6. /\ runs' \in SUBSET RunEntries /\ OneRowPerId(runs')
      /\ \A x \in runs' : \E y \in workflows : y.id = x.workflow /\ y.ticket = x.ticket
      /\ ListsAreSound' => RunTable' = [RunTable EXCEPT ![r.id].status = "failed"]
  BY <1>3, EndRunStep DEF FailRun
<1>7. /\ ListInv' /\ CW!Move(wf.id, WorkflowTable[wf.id], to)
      /\ ApprovalTable' = ApprovalTable /\ MutationTable' = MutationTable
  BY <1>1, <1>2, <1>3, <1>4, <1>5, <1>6, QuietStep DEF FailRun
<1>8. CW!FailRun(r.id, recoverable)
  BY <1>2, <1>6, <1>7
     DEF CW!FailRun, CW!WriteFailure, CW!FailTarget, RunRow, ListInv, to
<1> QED BY <1>2, <1>7, <1>8 DEF CW!Next

\* A key that names no listed run names none in the table, and a fresh id is free.
LEMMA NewRunIsNew ==
  ASSUME ListInv, NEW t \in Tickets, NEW k \in Keys, NewKey(t, k),
         NEW r \in RunIds, FreshRun(r)
  PROVE  CW!RunWithKey(t, k) = {} /\ ~CW!RunExists(r) /\ ~Has(runs, r)
<1>1. TablesShowLists
  BY TablesNow DEF ListInv
<1>2. ~Has(runs, r)
  BY DEF FreshRun, Has
<1>3. ~CW!RunExists(r)
  BY <1>1, <1>2 DEF TablesShowLists, CW!RunExists, CW!NoRun
<1>4. ASSUME NEW q \in RunIds, q \in CW!RunWithKey(t, k)
      PROVE  FALSE
  <2>1. Has(runs, q)
    BY <1>1, <1>4 DEF TablesShowLists, CW!RunWithKey, CW!RunsOf, CW!RunExists, CW!NoRun
  <2>2. PICK x \in runs : x.id = q
    BY <2>1 DEF Has
  <2>3. RunTable[q] = RunRow(x)
    BY <1>1, <2>2 DEF TablesShowLists
  <2>4. x.ticket = t /\ x.key = k
    BY <1>4, <2>3 DEF CW!RunWithKey, CW!RunsOf, RunRow
  <2> QED BY <2>4 DEF NewKey, RunsOf
<1> QED BY <1>2, <1>3, <1>4 DEF CW!RunWithKey, CW!RunsOf

\* A run is added.
LEMMA AddRunStep ==
  ASSUME ListInv, NEW t \in Tickets, NEW k \in Keys, NEW w \in WorkflowIds,
         NEW r \in RunIds, FreshRun(r), AddRun(t, k, w, r)
  PROVE  /\ runs' \in SUBSET RunEntries /\ OneRowPerId(runs')
         /\ \A x \in runs' : x \in runs \/ (x.workflow = w /\ x.ticket = t)
         /\ ListsAreSound' => RunTable' = [RunTable EXCEPT ![r] = CW!NewRun(t, k, w)]
<1> DEFINE new == [id |-> r, ticket |-> t, key |-> k, workflow |-> w, status |-> "running"]
<1>1. /\ new \in RunEntries /\ new.id = r /\ new.ticket = t /\ new.key = k
      /\ new.workflow = w /\ new.status = "running"
  BY DEF RunEntries, RunStatuses
<1>2. runs' = runs \cup {new}
  BY DEF AddRun
<1> HIDE DEF new
<1>3. /\ runs' \in SUBSET RunEntries /\ OneRowPerId(runs')
      /\ \A x \in runs' : x \in runs \/ (x.workflow = w /\ x.ticket = t)
  BY <1>1, <1>2 DEF ListInv, ListsAreSound, OneRowPerId, FreshRun
<1>4. ASSUME ListsAreSound'
      PROVE  RunTable' = [RunTable EXCEPT ![r] = CW!NewRun(t, k, w)]
  <2>1. TablesShowLists /\ TablesShowLists'
    BY <1>4, TablesNow, TablesNext DEF ListInv
  <2>2. RunTable'[r] = CW!NewRun(t, k, w)
    BY <2>1, <1>1, <1>2 DEF TablesShowLists, RunRow, CW!NewRun
  <2>3. ASSUME NEW q \in RunIds, q # r
        PROVE  RunTable'[q] = RunTable[q]
    <3>1. CASE Has(runs, q)
      <4>1. PICK x \in runs : x.id = q
        BY <3>1 DEF Has
      <4>2. x \in runs'
        BY <4>1, <1>2
      <4> QED BY <4>1, <4>2, <2>1 DEF TablesShowLists
    <3>2. CASE ~Has(runs, q)
      <4>1. ~Has(runs', q)
        BY <3>2, <2>3, <1>1, <1>2 DEF Has
      <4> QED BY <3>2, <4>1, <2>1 DEF TablesShowLists
    <3> QED BY <3>1, <3>2
  <2>4. RunTable = [q \in RunIds |-> RunTable[q]] /\ RunTable' = [q \in RunIds |-> RunTable'[q]]
    BY <2>1 DEF TablesShowLists
  <2> QED BY <2>2, <2>3, <2>4
<1> QED BY <1>3, <1>4

\* A workflow is retried by a new run.
LEMMA StartRetryStep ==
  ASSUME ListInv, NEW t \in Tickets, NEW k \in Keys, NEW r \in RunIds, StartRetry(t, k, r)
  PROVE  ListInv' /\ CW!Next
<1> DEFINE to == "investigating"
<1>1. PICK wf \in LiveOf(t) :
        wf.status = "needs_retry" /\ MoveFrom(wf, "needs_retry", to) /\ AddRun(t, k, wf.id, r)
  BY DEF StartRetry
<1>2. /\ wf \in workflows /\ wf.ticket = t /\ wf.id \in WorkflowIds
      /\ WorkflowTable[wf.id] = WorkflowRow(wf)
  BY TablesNow DEF LiveOf, WorkflowsOf, ListInv, ListsAreSound, WorkflowEntries, TablesShowLists
<1>3. CanTransition(wf.status, to) /\ to \in WorkflowStatuses
  BY <1>1 DEF CanTransition, WorkflowTransitions, ActiveStatuses, Absent, WorkflowStatuses
<1>4. /\ runs' \in SUBSET RunEntries /\ OneRowPerId(runs')
      /\ \A x \in runs' : x \in runs \/ (x.workflow = wf.id /\ x.ticket = t)
      /\ ListsAreSound' => RunTable' = [RunTable EXCEPT ![r] = CW!NewRun(t, k, wf.id)]
  BY <1>1, <1>2, AddRunStep DEF StartRetry
<1>5. \A x \in runs' : \E y \in workflows : y.id = x.workflow /\ y.ticket = x.ticket
  BY <1>2, <1>4 DEF ListInv, ListsAgree
<1>6. /\ ListInv' /\ CW!Move(wf.id, WorkflowTable[wf.id], to)
      /\ ApprovalTable' = ApprovalTable /\ MutationTable' = MutationTable
  BY <1>1, <1>2, <1>3, <1>4, <1>5, QuietStep DEF StartRetry
<1>7. CW!RunWithKey(t, k) = {} /\ ~CW!RunExists(r)
  BY NewRunIsNew DEF StartRetry
<1>8. wf.id \in CW!WorkflowsOf(t) /\ WorkflowTable[wf.id].status = "needs_retry"
  BY <1>1, <1>2 DEF CW!WorkflowsOf, CW!Exists, CW!Absent, WorkflowRow
<1>9. CW!StartRetry(t, k, wf.id, r)
  BY <1>4, <1>6, <1>7, <1>8 DEF CW!StartRetry, CW!InsertRetry, ListInv
<1> QED BY <1>2, <1>6, <1>9 DEF CW!Next

\* The highest cycle of a ticket, in the lists and in the tables.
LEMMA LastCycleIsLast ==
  ASSUME ListInv, NEW t \in Tickets
  PROVE  /\ LastCycle(t) \in Nat
         /\ \A wf \in WorkflowsOf(t) : wf.cycle <= LastCycle(t)
         /\ LastCycle(t) \in CW!CyclesOf(t)
         /\ \A n \in CW!CyclesOf(t) : n <= LastCycle(t)
<1> DEFINE cycles == {0} \cup {wf.cycle : wf \in WorkflowsOf(t)}
<1>1. \A wf \in WorkflowsOf(t) : wf \in workflows /\ wf \in WorkflowEntries /\ wf.cycle \in Nat
  BY DEF WorkflowsOf, ListInv, ListsAreSound, WorkflowEntries
<1>2. \E n \in cycles : \A wf \in WorkflowsOf(t) : wf.cycle <= n
  BY DEF ListInv, ListsAreSound
<1>3. LastCycle(t) \in cycles /\ \A wf \in WorkflowsOf(t) : wf.cycle <= LastCycle(t)
  BY <1>2 DEF LastCycle
<1>4. CW!CyclesOf(t) = cycles
  <2>1. TablesShowLists
    BY TablesNow DEF ListInv
  <2>2. ASSUME NEW w \in CW!WorkflowsOf(t)
        PROVE  WorkflowTable[w].cycle \in cycles
    <3>1. w \in WorkflowIds /\ Known(w)
      BY <2>1, <2>2 DEF CW!WorkflowsOf, CW!Exists, TablesShowLists, CW!NoWorkflow
    <3>2. PICK wf \in workflows : wf.id = w
      BY <3>1 DEF Known
    <3>3. WorkflowTable[w] = WorkflowRow(wf)
      BY <3>2, <2>1 DEF TablesShowLists
    <3> QED BY <2>2, <3>2, <3>3 DEF CW!WorkflowsOf, WorkflowRow, WorkflowsOf
  <2>3. ASSUME NEW wf \in WorkflowsOf(t)
        PROVE  wf.cycle \in CW!CyclesOf(t)
    <3>1. wf.id \in WorkflowIds /\ WorkflowTable[wf.id] = WorkflowRow(wf)
            /\ wf.ticket = t /\ wf.status # Absent
      BY <1>1, <2>1 DEF TablesShowLists, WorkflowEntries, WorkflowsOf, WorkflowStatuses, Absent
    <3>2. wf.id \in CW!WorkflowsOf(t) /\ WorkflowTable[wf.id].cycle = wf.cycle
      BY <3>1 DEF CW!WorkflowsOf, CW!Exists, CW!Absent, Absent, WorkflowRow
    <3> QED BY <3>2 DEF CW!CyclesOf
  <2>4. CW!CyclesOf(t) \subseteq cycles
    BY <2>2 DEF CW!CyclesOf
  <2>5. 0 \in CW!CyclesOf(t)
    BY DEF CW!CyclesOf
  <2> QED BY <2>3, <2>4, <2>5
<1> QED BY <1>1, <1>3, <1>4

\* A cycle is opened: its number is one more than the last.
LEMMA StartCycleStep ==
  ASSUME ListInv, NEW t \in Tickets, NEW k \in Keys, NEW w \in WorkflowIds,
         NEW r \in RunIds, StartCycle(t, k, w, r)
  PROVE  ListInv' /\ CW!Next
<1> DEFINE cycle == LastCycle(t) + 1
           new == [id |-> w, ticket |-> t, cycle |-> cycle,
                   status |-> InitialStatus, sequence |-> 1]
           entry == [sequence |-> 1, from |-> Absent, to |-> InitialStatus]
<1>1. /\ LastCycle(t) \in Nat /\ cycle \in Nat
      /\ \A wf \in WorkflowsOf(t) : wf.cycle <= LastCycle(t)
      /\ LastCycle(t) \in CW!CyclesOf(t)
      /\ \A n \in CW!CyclesOf(t) : n <= LastCycle(t)
  BY LastCycleIsLast
<1>2. /\ workflows' = workflows \cup {new} /\ moves' = [moves EXCEPT ![w] = <<entry>>]
      /\ approvals' = approvals /\ mutations' = mutations
      /\ \A wf \in workflows : wf.id # w
      /\ \A request \in approvals : request.id # w
  BY DEF StartCycle, FreshWorkflow
<1>3. /\ new \in WorkflowEntries /\ new.id = w /\ new.ticket = t /\ new.cycle = cycle
      /\ new.status = "investigating" /\ new.sequence = 1
      /\ WorkflowRow(new) = [ticket |-> t, cycle |-> cycle,
                             status |-> InitialStatus, sequence |-> 1]
  BY <1>1 DEF WorkflowEntries, WorkflowStatuses, InitialStatus, WorkflowRow
<1>4. /\ entry \in MoveEntries /\ entry.sequence = 1 /\ entry.from = Absent
      /\ entry.to = "investigating"
  BY DEF MoveEntries, WorkflowStatuses, InitialStatus
<1>5. TablesShowLists /\ ~Known(w)
  BY <1>2, TablesNow DEF ListInv, Known
<1> HIDE DEF new, entry, cycle
<1>6. /\ <<entry>> \in Seq(MoveEntries) /\ Len(<<entry>>) = 1 /\ Last(<<entry>>) = entry
      /\ <<entry>>[1] = entry /\ ToSet(<<entry>>) = {entry}
  BY <1>4 DEF Last, ToSet
<1>7. /\ moves' \in [WorkflowIds -> Seq(MoveEntries)] /\ moves'[w] = <<entry>>
      /\ \A v \in WorkflowIds \ {w} : moves'[v] = moves[v]
  BY <1>2, <1>6 DEF ListInv, ListsAreSound
<1>8. /\ runs' \in SUBSET RunEntries /\ OneRowPerId(runs')
      /\ \A x \in runs' : x \in runs \/ (x.workflow = w /\ x.ticket = t)
      /\ ListsAreSound' => RunTable' = [RunTable EXCEPT ![r] = CW!NewRun(t, k, w)]
  BY AddRunStep DEF StartCycle
<1>9. \A v : Known(v)' <=> Known(v) \/ v = w
  BY <1>2, <1>3 DEF Known
<1>10. ListsAreSound'
  <2>1. /\ workflows' \in SUBSET WorkflowEntries /\ OneRowPerId(workflows')
        /\ \A wf \in workflows' : wf.sequence >= 1
    BY <1>2, <1>3 DEF ListInv, ListsAreSound, OneRowPerId
  <2>2. ASSUME NEW u \in Tickets
        PROVE  \E n \in {0} \cup {x.cycle : x \in WorkflowsOf(u)'} :
                 \A x \in WorkflowsOf(u)' : x.cycle <= n
    <3>1. CASE u = t
      <4>1. new \in WorkflowsOf(u)' /\ new.cycle = cycle
        BY <3>1, <1>2, <1>3 DEF WorkflowsOf
      <4>2. \A x \in WorkflowsOf(u)' : x = new \/ x \in WorkflowsOf(t)
        BY <3>1, <1>2 DEF WorkflowsOf
      <4>3. \A x \in WorkflowsOf(t) : x.cycle \in Nat
        BY DEF WorkflowsOf, ListInv, ListsAreSound, WorkflowEntries
      <4>4. \A x \in WorkflowsOf(u)' : x.cycle <= cycle
        BY <1>1, <4>1, <4>2, <4>3 DEF cycle
      <4> QED BY <4>1, <4>4
    <3>2. CASE u # t
      <4>1. WorkflowsOf(u)' = WorkflowsOf(u)
        BY <3>2, <1>2, <1>3 DEF WorkflowsOf
      <4> QED BY <4>1 DEF ListInv, ListsAreSound
    <3> QED BY <3>1, <3>2
  <2> QED BY <1>2, <1>7, <1>8, <2>1, <2>2 DEF ListInv, ListsAreSound
<1>11. ListsAgree'
  <2>1. \A v \in WorkflowIds : ~Known(v)' => moves'[v] = << >>
    BY <1>7, <1>9 DEF ListInv, ListsAgree
  <2>2. \A x \in runs' : \E wf \in workflows' : wf.id = x.workflow /\ wf.ticket = x.ticket
    BY <1>2, <1>3, <1>8 DEF ListInv, ListsAgree
  <2>3. \A request \in approvals : \A wf \in workflows' :
          wf.id = request.id =>
            wf.ticket = request.ticket /\ wf.status = StatusBehind(request)
    BY <1>2, <1>3 DEF ListInv, ListsAgree
  <2> QED BY <1>2, <2>1, <2>2, <2>3 DEF ListInv, ListsAgree, StatusBehind
<1>12. MovesReplay'
  <2> SUFFICES ASSUME NEW x \in workflows'
               PROVE  LET path == moves'[x.id] IN
                      /\ Len(path) = x.sequence /\ Last(path).to = x.status
                      /\ \A n \in 1..Len(path) :
                           /\ path[n].sequence = n
                           /\ path[n].from = IF n = 1 THEN Absent ELSE path[n - 1].to
                           /\ CanTransition(path[n].from, path[n].to)
    BY DEF MovesReplay
  <2>1. CASE x = new
    <3>1. CanTransition(entry.from, entry.to)
      BY <1>4 DEF CanTransition, InitialStatus
    <3>2. moves'[x.id] = <<entry>> /\ x.sequence = 1 /\ x.status = "investigating"
      BY <2>1, <1>3, <1>7
    <3>3. 1..1 = {1}
      OBVIOUS
    <3> QED BY <3>1, <3>2, <3>3, <1>4, <1>6
  <2>2. CASE x # new
    <3>1. x \in workflows /\ x.id \in WorkflowIds /\ x.id # w
      BY <2>2, <1>2 DEF ListInv, ListsAreSound, WorkflowEntries
    <3>2. moves'[x.id] = moves[x.id]
      BY <3>1, <1>7
    <3> QED BY <3>1, <3>2 DEF ListInv, MovesReplay
  <2> QED BY <2>1, <2>2
<1>13. MoneyOnce' /\ HistoryIsKept'
  BY <1>2 DEF ListInv, MoneyOnce, HistoryIsKept, ExecutedFor
<1>14. TablesShowLists'
  BY <1>10, TablesNext
<1>15. WorkflowTable' = [WorkflowTable EXCEPT ![w] =
         [ticket |-> t, cycle |-> cycle, status |-> InitialStatus, sequence |-> 1]]
  <2>1. WorkflowTable'[w] = WorkflowRow(new)
    BY <1>2, <1>3, <1>14 DEF TablesShowLists
  <2>2. ASSUME NEW v \in WorkflowIds, v # w
        PROVE  WorkflowTable'[v] = WorkflowTable[v]
    <3>1. CASE Known(v)
      <4>1. PICK x \in workflows : x.id = v
        BY <3>1 DEF Known
      <4>2. x \in workflows'
        BY <4>1, <1>2
      <4> QED BY <4>1, <4>2, <1>5, <1>14 DEF TablesShowLists
    <3>2. CASE ~Known(v)
      <4>1. ~Known(v)'
        BY <3>2, <2>2, <1>9
      <4> QED BY <3>2, <4>1, <1>5, <1>14 DEF TablesShowLists
    <3> QED BY <3>1, <3>2
  <2>3. /\ WorkflowTable = [v \in WorkflowIds |-> WorkflowTable[v]]
        /\ WorkflowTable' = [v \in WorkflowIds |-> WorkflowTable'[v]]
    BY <1>5, <1>14 DEF TablesShowLists
  <2> QED BY <2>1, <2>2, <2>3, <1>3
<1>16. LedgerTable' = [LedgerTable EXCEPT ![w] =
         {[sequence |-> 1, from |-> Absent, to |-> InitialStatus]}]
  <2>1. \A v \in WorkflowIds : /\ LedgerTable[v] = ToSet(moves[v])
                               /\ LedgerTable'[v] = ToSet(moves'[v])
    BY <1>5, <1>14 DEF TablesShowLists
  <2>2. /\ LedgerTable = [v \in WorkflowIds |-> LedgerTable[v]]
        /\ LedgerTable' = [v \in WorkflowIds |-> LedgerTable'[v]]
    BY <1>5, <1>14 DEF TablesShowLists
  <2> QED BY <2>1, <2>2, <1>6, <1>7 DEF entry
<1>17. ApprovalTable' = ApprovalTable /\ MutationTable' = MutationTable
  <2>1. ~Has(approvals, w) /\ ~Has(mutations, w)
    BY <1>2 DEF Has, ListInv, ListsAgree
  <2>2. /\ ApprovalTable'[w] = ApprovalTable[w]
        /\ MutationTable'[w] = MutationTable[w]
    BY <2>1, <1>2, <1>5, <1>14 DEF TablesShowLists
  <2>3. \A v \in WorkflowIds \ {w} : /\ ApprovalTable'[v] = ApprovalTable[v]
                                     /\ MutationTable'[v] = MutationTable[v]
    BY <1>2, <1>9 DEF ApprovalTable, MutationTable
  <2>4. /\ ApprovalTable = [v \in WorkflowIds |-> ApprovalTable[v]]
        /\ ApprovalTable' = [v \in WorkflowIds |-> ApprovalTable'[v]]
        /\ MutationTable = [v \in WorkflowIds |-> MutationTable[v]]
        /\ MutationTable' = [v \in WorkflowIds |-> MutationTable'[v]]
    BY <1>5, <1>14 DEF TablesShowLists
  <2> QED BY <2>2, <2>3, <2>4
<1>18. CW!InsertCycle(t, k, w, r, LastCycle(t) + 1)
  BY <1>8, <1>10, <1>15, <1>16, <1>17
     DEF CW!InsertCycle, CW!InitialStatus, InitialStatus, CW!Absent, Absent, cycle
<1>19. ASSUME NEW v \in CW!WorkflowsOf(t), CW!Active(v)
       PROVE  FALSE
  <2>1. v \in WorkflowIds /\ Known(v)
    BY <1>5, <1>19 DEF CW!WorkflowsOf, CW!Exists, TablesShowLists, CW!NoWorkflow
  <2>2. PICK x \in workflows : x.id = v
    BY <2>1 DEF Known
  <2>3. WorkflowTable[v] = WorkflowRow(x)
    BY <1>5, <2>2 DEF TablesShowLists
  <2>4. x.ticket = t /\ x.status \in ActiveStatuses
    BY <1>19, <2>3 DEF CW!WorkflowsOf, CW!Active, CW!ActiveStatuses, ActiveStatuses, WorkflowRow
  <2>5. x \in LiveOf(t)
    BY <2>2, <2>4 DEF LiveOf, WorkflowsOf, ActiveStatuses, TerminalStatuses
  <2> QED BY <2>5 DEF StartCycle
<1>20. ~CW!Exists(w)
  BY <1>5 DEF TablesShowLists, CW!NoWorkflow, CW!Exists
<1>21. CW!RunWithKey(t, k) = {} /\ ~CW!RunExists(r)
  BY NewRunIsNew DEF StartCycle
<1>22. CW!StartCycle(t, k, w, r)
  BY <1>1, <1>18, <1>19, <1>20, <1>21 DEF CW!StartCycle
<1> QED BY <1>10, <1>11, <1>12, <1>13, <1>22 DEF ListInv, CW!Next

\* What is pending or executed in the tables is so in the lists.
LEMMA DuplicatesShow ==
  ASSUME ListInv, NEW t \in Tickets, NEW a \in Actions
  PROVE  /\ CW!IsPending(t, a) => PendingFor(t, a) # {}
         /\ CW!IsExecuted(t, a) => ExecutedFor(t, a) # {}
<1>1. TablesShowLists
  BY TablesNow DEF ListInv
<1>2. ASSUME NEW w \in WorkflowIds, ApprovalTable[w].status = "pending",
             WorkflowTable[w].ticket = t, ApprovalTable[w].action = a
      PROVE  PendingFor(t, a) # {}
  <2>1. Known(w) /\ Has(approvals, w)
    BY <1>1, <1>2 DEF TablesShowLists, CW!NoApproval, CW!Absent
  <2>2. PICK x \in workflows, request \in approvals : x.id = w /\ request.id = w
    BY <2>1 DEF Known, Has
  <2>3. ApprovalTable[w] = ApprovalRow(request) /\ WorkflowTable[w] = WorkflowRow(x)
    BY <1>1, <2>1, <2>2 DEF TablesShowLists
  <2>4. request.status = "pending" /\ request.action = a /\ x.ticket = t
    BY <1>2, <2>3 DEF ApprovalRow, WorkflowRow
  <2>5. request.ticket = t
    BY <2>2, <2>4 DEF ListInv, ListsAgree
  <2> QED BY <2>4, <2>5 DEF PendingFor
<1>3. ASSUME NEW w \in WorkflowIds, MutationTable[w] # None,
             WorkflowTable[w].ticket = t, MutationTable[w] = a
      PROVE  ExecutedFor(t, a) # {}
  <2>1. Known(w) /\ Has(mutations, w)
    BY <1>1, <1>3 DEF TablesShowLists
  <2>2. PICK x \in workflows, m \in mutations : x.id = w /\ m.id = w
    BY <2>1 DEF Known, Has
  <2>3. MutationTable[w] = m.action /\ WorkflowTable[w] = WorkflowRow(x)
    BY <1>1, <2>1, <2>2 DEF TablesShowLists
  <2>4. m.ticket = x.ticket
    BY <2>2 DEF ListInv, ListsAgree
  <2> QED BY <1>3, <2>3, <2>4 DEF ExecutedFor, WorkflowRow
<1> QED BY <1>2, <1>3 DEF CW!IsPending, CW!IsExecuted

\* A run's proposal waits for a decision.
LEMMA FinalizeForApprovalStep ==
  ASSUME ListInv, NEW r \in runs, NEW a \in Actions, FinalizeForApproval(r, a)
  PROVE  ListInv' /\ CW!Next
<1> DEFINE to == "awaiting_approval"
<1>1. PICK wf \in WorkflowOfRun(r) :
        /\ CanTransition(wf.status, to) /\ MoveTo(wf, to)
        /\ approvals' = approvals \cup
             {[id |-> wf.id, ticket |-> r.ticket, action |-> a, run |-> r.id,
               status |-> "pending", decider |-> None]}
  BY DEF FinalizeForApproval
<1> DEFINE new == [id |-> wf.id, ticket |-> r.ticket, action |-> a, run |-> r.id,
                   status |-> "pending", decider |-> None]
<1>2. /\ wf \in workflows /\ wf.id = r.workflow /\ wf.status \in WorkflowStatuses
      /\ wf.ticket = r.ticket /\ wf.id \in WorkflowIds
      /\ r.id \in RunIds /\ RunTable[r.id] = RunRow(r) /\ CW!MayEnd(r.id, to)
      /\ WorkflowTable[wf.id] = WorkflowRow(wf)
  BY <1>1, RunAndWorkflow DEF FinalizeForApproval
<1>3. /\ to \in WorkflowStatuses /\ "completed" \in RunStatuses
      /\ r.ticket \in Tickets /\ mutations' = mutations
  BY DEF WorkflowStatuses, RunStatuses, ListInv, ListsAreSound, RunEntries,
         FinalizeForApproval
<1>4. wf.status = "investigating" /\ \A request \in approvals : request.id # wf.id
  BY <1>1, <1>2, Sources, NothingBehind
<1>5. MoveFrom(wf, wf.status, to)
  BY <1>1, <1>2, MoveStarts
<1>6. /\ new \in RequestEntries /\ new.id = wf.id /\ new.ticket = r.ticket
      /\ new.action = a /\ new.run = r.id /\ new.status = "pending"
      /\ ApprovalRow(new) = [status |-> "pending", action |-> a,
                             run |-> r.id, decider |-> None]
  BY <1>2, <1>3 DEF RequestEntries, ApprovalStatuses, ApprovalRow
<1>7. approvals' = approvals \cup {new}
  BY <1>1
<1> HIDE DEF new
<1>8. /\ workflows' \in SUBSET WorkflowEntries
      /\ moves' \in [WorkflowIds -> Seq(MoveEntries)]
      /\ OneRowPerId(workflows')
      /\ \A x \in workflows' : x.sequence >= 1
      /\ (\A t \in Tickets :
           \E n \in {0} \cup {x.cycle : x \in WorkflowsOf(t)} :
             \A x \in WorkflowsOf(t) : x.cycle <= n)'
      /\ \A w : Known(w)' <=> Known(w)
      /\ \A w \in WorkflowIds : ~Known(w) => moves'[w] = << >>
      /\ \A x \in workflows' :
           \/ x \in workflows /\ x.id # wf.id
           \/ x.id = wf.id /\ x.ticket = wf.ticket /\ x.status = to
      /\ \A x \in workflows : \E y \in workflows' : y.id = x.id /\ y.ticket = x.ticket
      /\ MovesReplay'
      /\ ListsAreSound' => CW!Move(wf.id, WorkflowTable[wf.id], to)
  BY <1>1, <1>2, <1>3, <1>5, MoveStep
<1>9. /\ runs' \in SUBSET RunEntries /\ OneRowPerId(runs')
      /\ \A x \in runs' : \E y \in workflows : y.id = x.workflow /\ y.ticket = x.ticket
      /\ ListsAreSound' => RunTable' = [RunTable EXCEPT ![r.id].status = "completed"]
  BY <1>3, EndRunStep DEF FinalizeForApproval
<1>10. PendingFor(r.ticket, a) = {} /\ ExecutedFor(r.ticket, a) = {}
  BY DEF FinalizeForApproval, MayPropose
<1>11. ListsAreSound'
  <2>1. approvals' \in SUBSET RequestEntries /\ OneRowPerId(approvals')
    BY <1>4, <1>6, <1>7 DEF ListInv, ListsAreSound, OneRowPerId
  <2> QED BY <1>3, <1>8, <1>9, <2>1 DEF ListInv, ListsAreSound
<1>12. ListsAgree'
  <2>1. \A request \in approvals' : \A x \in workflows' :
          x.id = request.id =>
            x.ticket = request.ticket /\ x.status = StatusBehind(request)
    <3>1. StatusBehind(new) = to
      BY <1>6 DEF StatusBehind
    <3> QED BY <1>2, <1>4, <1>6, <1>7, <1>8, <3>1 DEF ListInv, ListsAgree
  <2>2. \A w \in WorkflowIds : ~Known(w)' => moves'[w] = << >>
    BY <1>8
  <2>3. \A x \in runs' : \E y \in workflows' : y.id = x.workflow /\ y.ticket = x.ticket
    BY <1>8, <1>9
  <2>4. \A m \in mutations' : \E request \in approvals' :
          /\ request.id = m.id /\ request.ticket = m.ticket
          /\ request.action = m.action /\ request.run = m.run
          /\ request.status = "approved"
    BY <1>3, <1>7 DEF ListInv, ListsAgree
  <2>5. \A p, q \in approvals' :
          /\ p.status = "pending" /\ q.status = "pending"
          /\ p.ticket = q.ticket /\ p.action = q.action
          => p = q
    BY <1>6, <1>7, <1>10 DEF ListInv, ListsAgree, PendingFor
  <2> QED BY <2>1, <2>2, <2>3, <2>4, <2>5 DEF ListsAgree, StatusBehind
<1>13. MoneyOnce'
  BY <1>3, <1>6, <1>7, <1>10 DEF ListInv, MoneyOnce, ExecutedFor
<1>14. HistoryIsKept'
  BY <1>3 DEF ListInv, HistoryIsKept, ExecutedFor
<1>15. TablesShowLists /\ TablesShowLists'
  BY <1>11, TablesNow, TablesNext DEF ListInv
<1>16. MutationTable' = MutationTable
  BY <1>3, <1>8, SameTables
<1>17. ApprovalTable' = [ApprovalTable EXCEPT ![wf.id] =
         [status |-> "pending", action |-> a, run |-> r.id, decider |-> None]]
  <2>1. ApprovalTable'[wf.id] = ApprovalRow(new)
    <3>1. new \in approvals' /\ Known(new.id)'
      BY <1>2, <1>6, <1>7, <1>8 DEF Known
    <3> QED BY <3>1, <1>6, <1>15 DEF TablesShowLists
  <2>2. ASSUME NEW w \in WorkflowIds, w # wf.id
        PROVE  ApprovalTable'[w] = ApprovalTable[w]
    <3>1. CASE Known(w) /\ Has(approvals, w)
      <4>1. PICK request \in approvals : request.id = w
        BY <3>1 DEF Has
      <4>2. request \in approvals' /\ Known(w)'
        BY <3>1, <4>1, <1>7, <1>8
      <4> QED BY <3>1, <4>1, <4>2, <1>15 DEF TablesShowLists
    <3>2. CASE ~(Known(w) /\ Has(approvals, w))
      <4>1. ~Known(w)' \/ ~Has(approvals', w)
        BY <3>2, <2>2, <1>6, <1>7, <1>8 DEF Has
      <4> QED BY <3>2, <4>1, <1>15 DEF TablesShowLists
    <3> QED BY <3>1, <3>2
  <2>3. /\ ApprovalTable = [w \in WorkflowIds |-> ApprovalTable[w]]
        /\ ApprovalTable' = [w \in WorkflowIds |-> ApprovalTable'[w]]
    BY <1>15 DEF TablesShowLists
  <2> QED BY <2>1, <2>2, <2>3, <1>2, <1>6
<1>18. ApprovalTable[wf.id].status = CW!Absent
  <2>1. ~Has(approvals, wf.id)
    BY <1>4 DEF Has
  <2> QED BY <2>1, <1>2, <1>15 DEF TablesShowLists, CW!NoApproval
<1>19. RunTable[r.id].workflow = wf.id /\ RunTable[r.id].ticket = r.ticket
  BY <1>2 DEF RunRow
<1>20. ~CW!IsPending(r.ticket, a) /\ ~CW!IsExecuted(r.ticket, a)
  BY <1>3, <1>10, DuplicatesShow
<1>21. CW!FinalizeForApproval(r.id, a)
  BY <1>2, <1>8, <1>9, <1>11, <1>16, <1>17, <1>18, <1>19, <1>20
     DEF CW!FinalizeForApproval, CW!WriteProposal
<1> QED BY <1>2, <1>8, <1>11, <1>12, <1>13, <1>14, <1>21 DEF ListInv, CW!Next

\* The two copies of the role table are one.
LEMMA SameRoles ==
  ASSUME NEW role, NEW permission
  PROVE  CW!May(role, permission) <=> May(role, permission)
BY DEF CW!May, May, CW!RolePermissions, RolePermissions

\* The row of a request once it is decided.
DecidedRow(request, status, role) ==
  [status |-> status, action |-> request.action, run |-> request.run, decider |-> role]

\* It is the row of the table, updated.
LEMMA DecidedRowIsUpdate ==
  ASSUME NEW request, NEW status, NEW role, NEW row, row = ApprovalRow(request)
  PROVE  [row EXCEPT !.status = status, !.decider = role]
           = DecidedRow(request, status, role)
<1> DEFINE half == [row EXCEPT !.status = status]
<1>1. row = [status |-> request.status, action |-> request.action,
             run |-> request.run, decider |-> request.decider]
  BY DEF ApprovalRow
<1>2. half = [status |-> status, action |-> request.action,
              run |-> request.run, decider |-> request.decider]
  BY <1>1
<1> HIDE DEF half
<1>3. [half EXCEPT !.decider = role] = DecidedRow(request, status, role)
  BY <1>2 DEF DecidedRow
<1> QED BY <1>3 DEF half

\* What a decision does to the request and to its workflow.
LEMMA DecideStep ==
  ASSUME ListInv, NEW request \in approvals, NEW role \in Roles,
         NEW status \in {"approved", "rejected"}, NEW target \in WorkflowStatuses,
         status = "approved" => target = "mock_executed",
         status = "rejected" => target = "rejected",
         Decide(request, role, status, target)
  PROVE  /\ request.status = "pending" /\ May(role, "approval.decide")
         /\ request.id \in WorkflowIds /\ request \in RequestEntries
         /\ workflows' \in SUBSET WorkflowEntries
         /\ moves' \in [WorkflowIds -> Seq(MoveEntries)]
         /\ OneRowPerId(workflows')
         /\ \A x \in workflows' : x.sequence >= 1
         /\ (\A t \in Tickets :
              \E n \in {0} \cup {x.cycle : x \in WorkflowsOf(t)} :
                \A x \in WorkflowsOf(t) : x.cycle <= n)'
         /\ \A w : Known(w)' <=> Known(w)
         /\ Known(request.id)
         /\ WorkflowTable[request.id].status = "awaiting_approval"
         /\ WorkflowTable[request.id].ticket = request.ticket
         /\ MovesReplay'
         /\ \A w \in WorkflowIds : ~Known(w) => moves'[w] = << >>
         /\ \A x \in runs : \E y \in workflows' : y.id = x.workflow /\ y.ticket = x.ticket
         /\ \E decided \in RequestEntries :
              /\ decided.id = request.id /\ decided.ticket = request.ticket
              /\ decided.action = request.action /\ decided.run = request.run
              /\ decided.status = status /\ decided.decider = role
              /\ approvals' = (approvals \ {request}) \cup {decided}
         /\ OneRowPerId(approvals')
         /\ \A other \in approvals' : \A x \in workflows' :
              x.id = other.id =>
                x.ticket = other.ticket /\ x.status = StatusBehind(other)
         /\ ListsAreSound' =>
              /\ CW!Move(request.id, WorkflowTable[request.id], target)
              /\ ApprovalTable[request.id] = ApprovalRow(request)
              /\ ApprovalTable' =
                   [ApprovalTable EXCEPT ![request.id] = DecidedRow(request, status, role)]
<1>1. PICK wf \in workflows : /\ wf.id = request.id /\ wf.status = "awaiting_approval"
                              /\ MoveTo(wf, target)
  BY DEF Decide
<1>2. /\ wf.id \in WorkflowIds /\ request \in RequestEntries
      /\ request.status = "pending" /\ May(role, "approval.decide") /\ runs' = runs
  BY DEF ListInv, ListsAreSound, WorkflowEntries, Decide
<1>3. CanTransition(wf.status, target)
  BY <1>1 DEF CanTransition, WorkflowTransitions, ActiveStatuses, Absent
<1>4. MoveFrom(wf, wf.status, target)
  BY <1>1, MoveStarts
<1>5. /\ workflows' \in SUBSET WorkflowEntries
      /\ moves' \in [WorkflowIds -> Seq(MoveEntries)]
      /\ OneRowPerId(workflows')
      /\ \A x \in workflows' : x.sequence >= 1
      /\ (\A t \in Tickets :
           \E n \in {0} \cup {x.cycle : x \in WorkflowsOf(t)} :
             \A x \in WorkflowsOf(t) : x.cycle <= n)'
      /\ \A w : Known(w)' <=> Known(w)
      /\ \A w \in WorkflowIds : ~Known(w) => moves'[w] = << >>
      /\ \A x \in workflows' :
           \/ x \in workflows /\ x.id # wf.id
           \/ x.id = wf.id /\ x.ticket = wf.ticket /\ x.status = target
      /\ \A x \in workflows : \E y \in workflows' : y.id = x.id /\ y.ticket = x.ticket
      /\ MovesReplay'
      /\ ListsAreSound' => CW!Move(wf.id, WorkflowTable[wf.id], target)
  BY <1>3, <1>4, MoveStep
<1>6. Known(request.id)
  BY <1>1 DEF Known
<1>7. /\ WorkflowTable[wf.id] = WorkflowRow(wf)
      /\ ApprovalTable[request.id] = ApprovalRow(request)
  BY <1>6, TablesNow DEF ListInv, TablesShowLists
<1>8. wf.ticket = request.ticket
  BY <1>1 DEF ListInv, ListsAgree
<1>9. /\ WorkflowTable[request.id].status = "awaiting_approval"
      /\ WorkflowTable[request.id].ticket = request.ticket
  BY <1>1, <1>7, <1>8 DEF WorkflowRow
<1> DEFINE half == [request EXCEPT !.status = status]
           decided == [half EXCEPT !.decider = role]
<1>10. /\ half \in RequestEntries /\ half.id = request.id /\ half.ticket = request.ticket
       /\ half.action = request.action /\ half.run = request.run /\ half.status = status
  BY <1>2 DEF RequestEntries, ApprovalStatuses
<1>11. approvals' = Put(approvals, decided)
  BY DEF Decide
<1> HIDE DEF half
<1>12. /\ decided \in RequestEntries /\ decided.id = request.id
       /\ decided.ticket = request.ticket /\ decided.action = request.action
       /\ decided.run = request.run /\ decided.status = status /\ decided.decider = role
  BY <1>10 DEF RequestEntries
<1> HIDE DEF decided
<1>13. /\ approvals' = (approvals \ {request}) \cup {decided} /\ OneRowPerId(approvals')
       /\ \A w : Has(approvals', w) <=> Has(approvals, w)
  BY <1>11, <1>12, PutRow DEF ListInv, ListsAreSound
<1>14. \A x \in runs : \E y \in workflows' : y.id = x.workflow /\ y.ticket = x.ticket
  BY <1>5 DEF ListInv, ListsAgree
<1>15. ASSUME NEW other \in approvals', NEW x \in workflows', x.id = other.id
       PROVE  x.ticket = other.ticket /\ x.status = StatusBehind(other)
  <2>1. CASE other = decided
    <3>1. StatusBehind(other) = target
      BY <2>1, <1>12 DEF StatusBehind
    <3> QED BY <2>1, <3>1, <1>1, <1>5, <1>8, <1>12, <1>15
  <2>2. CASE other # decided
    <3>1. other \in approvals /\ other.id # request.id
      BY <2>2, <1>13 DEF ListInv, ListsAreSound, OneRowPerId
    <3>2. x \in workflows
      BY <3>1, <1>1, <1>5, <1>15
    <3> QED BY <3>1, <3>2, <1>15 DEF ListInv, ListsAgree
  <2> QED BY <2>1, <2>2
<1>16. ASSUME ListsAreSound'
       PROVE  ApprovalTable' =
                [ApprovalTable EXCEPT ![request.id] = DecidedRow(request, status, role)]
  <2>1. TablesShowLists /\ TablesShowLists'
    BY <1>16, TablesNow, TablesNext DEF ListInv
  <2>2. ApprovalTable'[request.id] = DecidedRow(request, status, role)
    <3>1. decided \in approvals' /\ Known(decided.id)'
      BY <1>5, <1>6, <1>12, <1>13
    <3>2. ApprovalTable'[request.id] = ApprovalRow(decided)
      BY <3>1, <2>1, <1>12 DEF TablesShowLists
    <3> QED BY <3>2, <1>12 DEF ApprovalRow, DecidedRow
  <2>3. ASSUME NEW w \in WorkflowIds, w # request.id
        PROVE  ApprovalTable'[w] = ApprovalTable[w]
    <3>1. CASE Known(w) /\ Has(approvals, w)
      <4>1. PICK x \in approvals : x.id = w
        BY <3>1 DEF Has
      <4>2. x \in approvals' /\ Known(w)'
        BY <3>1, <4>1, <2>3, <1>5, <1>13
      <4> QED BY <3>1, <4>1, <4>2, <2>1 DEF TablesShowLists
    <3>2. CASE ~(Known(w) /\ Has(approvals, w))
      <4>1. ~Known(w)' \/ ~Has(approvals', w)
        BY <3>2, <1>5, <1>13
      <4> QED BY <3>2, <4>1, <2>1 DEF TablesShowLists
    <3> QED BY <3>1, <3>2
  <2>4. /\ ApprovalTable = [w \in WorkflowIds |-> ApprovalTable[w]]
        /\ ApprovalTable' = [w \in WorkflowIds |-> ApprovalTable'[w]]
    BY <2>1 DEF TablesShowLists
  <2> QED BY <2>2, <2>3, <2>4, <1>1, <1>2
<1> QED BY <1>1, <1>2, <1>5, <1>6, <1>7, <1>9, <1>12, <1>13, <1>14, <1>15, <1>16

\* An operator rejects.
LEMMA RejectStep ==
  ASSUME ListInv, NEW request \in approvals, NEW role \in Roles, Reject(request, role)
  PROVE  ListInv' /\ CW!Next
<1>1. /\ "rejected" \in {"approved", "rejected"} /\ "rejected" \in WorkflowStatuses
      /\ Decide(request, role, "rejected", "rejected") /\ mutations' = mutations
      /\ runs' = runs
  BY DEF Reject, WorkflowStatuses, Decide
<1>2. /\ request.status = "pending" /\ May(role, "approval.decide")
      /\ request.id \in WorkflowIds /\ request \in RequestEntries
      /\ workflows' \in SUBSET WorkflowEntries
      /\ moves' \in [WorkflowIds -> Seq(MoveEntries)]
      /\ OneRowPerId(workflows')
      /\ \A x \in workflows' : x.sequence >= 1
      /\ (\A t \in Tickets :
           \E n \in {0} \cup {x.cycle : x \in WorkflowsOf(t)} :
             \A x \in WorkflowsOf(t) : x.cycle <= n)'
      /\ \A w : Known(w)' <=> Known(w)
      /\ WorkflowTable[request.id].status = "awaiting_approval"
      /\ MovesReplay'
      /\ \A w \in WorkflowIds : ~Known(w) => moves'[w] = << >>
      /\ \A x \in runs : \E y \in workflows' : y.id = x.workflow /\ y.ticket = x.ticket
      /\ OneRowPerId(approvals')
      /\ \A other \in approvals' : \A x \in workflows' :
           x.id = other.id =>
             x.ticket = other.ticket /\ x.status = StatusBehind(other)
  BY <1>1, DecideStep
<1>3. PICK decided \in RequestEntries :
        /\ decided.id = request.id /\ decided.ticket = request.ticket
        /\ decided.action = request.action /\ decided.run = request.run
        /\ decided.status = "rejected"
        /\ approvals' = (approvals \ {request}) \cup {decided}
  BY <1>1, DecideStep
<1>4. ListsAreSound'
  BY <1>1, <1>2, <1>3 DEF ListInv, ListsAreSound
<1>5. ListsAgree'
  <2>1. \A m \in mutations' : \E other \in approvals' :
          /\ other.id = m.id /\ other.ticket = m.ticket
          /\ other.action = m.action /\ other.run = m.run
          /\ other.status = "approved"
    BY <1>1, <1>2, <1>3 DEF ListInv, ListsAgree
  <2>2. \A p, q \in approvals' :
          /\ p.status = "pending" /\ q.status = "pending"
          /\ p.ticket = q.ticket /\ p.action = q.action
          => p = q
    BY <1>3 DEF ListInv, ListsAgree
  <2>3. /\ \A w \in WorkflowIds : ~Known(w)' => moves'[w] = << >>
        /\ \A x \in runs' : \E y \in workflows' : y.id = x.workflow /\ y.ticket = x.ticket
    BY <1>1, <1>2
  <2> QED BY <1>2, <2>1, <2>2, <2>3 DEF ListsAgree, StatusBehind
<1>6. MoneyOnce' /\ HistoryIsKept'
  BY <1>1, <1>3 DEF ListInv, MoneyOnce, HistoryIsKept, ExecutedFor
<1>7. MutationTable' = MutationTable /\ RunTable' = RunTable
  BY <1>1, <1>2, SameTables
<1>8. /\ CW!Move(request.id, WorkflowTable[request.id], "rejected")
      /\ ApprovalTable[request.id] = ApprovalRow(request)
      /\ ApprovalTable' =
           [ApprovalTable EXCEPT ![request.id] = DecidedRow(request, "rejected", role)]
  BY <1>1, <1>4, DecideStep
<1>9. [ApprovalTable[request.id] EXCEPT !.status = "rejected", !.decider = role]
        = DecidedRow(request, "rejected", role)
  BY <1>8, DecidedRowIsUpdate
<1>10. ApprovalTable[request.id].status = "pending"
  BY <1>2, <1>8 DEF ApprovalRow
<1>11. CW!RejectApproval(request.id, role)
  BY <1>2, <1>7, <1>8, <1>9, <1>10, SameRoles, Zenon
     DEF CW!RejectApproval, CW!WriteRejection
<1> QED BY <1>2, <1>4, <1>5, <1>6, <1>11 DEF ListInv, CW!Next, CW!Roles, Roles

\* An approver approves: the action is executed with it.
LEMMA ApproveStep ==
  ASSUME ListInv, NEW request \in approvals, NEW role \in Roles,
         ApproveAndExecute(request, role)
  PROVE  ListInv' /\ CW!Next
<1> DEFINE new == [id |-> request.id, ticket |-> request.ticket,
                   action |-> request.action, run |-> request.run]
<1>1. /\ "approved" \in {"approved", "rejected"} /\ "mock_executed" \in WorkflowStatuses
      /\ Decide(request, role, "approved", "mock_executed") /\ runs' = runs
      /\ \A m \in mutations : m.id # request.id
      /\ ExecutedFor(request.ticket, request.action) = {}
      /\ mutations' = mutations \cup {new}
  BY DEF ApproveAndExecute, WorkflowStatuses, Decide
<1>2. /\ request.status = "pending" /\ May(role, "approval.decide")
      /\ request.id \in WorkflowIds /\ request \in RequestEntries
      /\ workflows' \in SUBSET WorkflowEntries
      /\ moves' \in [WorkflowIds -> Seq(MoveEntries)]
      /\ OneRowPerId(workflows')
      /\ \A x \in workflows' : x.sequence >= 1
      /\ (\A t \in Tickets :
           \E n \in {0} \cup {x.cycle : x \in WorkflowsOf(t)} :
             \A x \in WorkflowsOf(t) : x.cycle <= n)'
      /\ \A w : Known(w)' <=> Known(w)
      /\ Known(request.id)
      /\ WorkflowTable[request.id].status = "awaiting_approval"
      /\ WorkflowTable[request.id].ticket = request.ticket
      /\ MovesReplay'
      /\ \A w \in WorkflowIds : ~Known(w) => moves'[w] = << >>
      /\ \A x \in runs : \E y \in workflows' : y.id = x.workflow /\ y.ticket = x.ticket
      /\ OneRowPerId(approvals')
      /\ \A other \in approvals' : \A x \in workflows' :
           x.id = other.id =>
             x.ticket = other.ticket /\ x.status = StatusBehind(other)
  BY <1>1, DecideStep
<1>3. PICK decided \in RequestEntries :
        /\ decided.id = request.id /\ decided.ticket = request.ticket
        /\ decided.action = request.action /\ decided.run = request.run
        /\ decided.status = "approved"
        /\ approvals' = (approvals \ {request}) \cup {decided}
  BY <1>1, DecideStep
<1>4. /\ new \in MutationEntries /\ new.id = request.id /\ new.ticket = request.ticket
      /\ new.action = request.action /\ new.run = request.run
  BY <1>2 DEF MutationEntries, RequestEntries
<1> HIDE DEF new
<1>5. ListsAreSound'
  <2>1. mutations' \in SUBSET MutationEntries /\ OneRowPerId(mutations')
    BY <1>1, <1>4 DEF ListInv, ListsAreSound, OneRowPerId
  <2> QED BY <1>1, <1>2, <1>3, <2>1 DEF ListInv, ListsAreSound
<1>6. ListsAgree'
  <2>1. \A m \in mutations' : \E other \in approvals' :
          /\ other.id = m.id /\ other.ticket = m.ticket
          /\ other.action = m.action /\ other.run = m.run
          /\ other.status = "approved"
    BY <1>1, <1>2, <1>3, <1>4 DEF ListInv, ListsAgree
  <2>2. \A p, q \in approvals' :
          /\ p.status = "pending" /\ q.status = "pending"
          /\ p.ticket = q.ticket /\ p.action = q.action
          => p = q
    BY <1>3 DEF ListInv, ListsAgree
  <2>3. /\ \A w \in WorkflowIds : ~Known(w)' => moves'[w] = << >>
        /\ \A x \in runs' : \E y \in workflows' : y.id = x.workflow /\ y.ticket = x.ticket
    BY <1>1, <1>2
  <2> QED BY <1>2, <2>1, <2>2, <2>3 DEF ListsAgree, StatusBehind
<1>7. MoneyOnce'
  <2>1. \A m1, m2 \in mutations' :
          m1.ticket = m2.ticket /\ m1.action = m2.action => m1 = m2
    BY <1>1, <1>4 DEF ListInv, MoneyOnce, ExecutedFor
  <2>2. \A other \in approvals' : other.status = "pending" =>
          ~(other.ticket = request.ticket /\ other.action = request.action)
    BY <1>2, <1>3 DEF ListInv, ListsAgree
  <2>3. \A other \in approvals' : other.status = "pending" =>
          \A m \in mutations' : ~(m.ticket = other.ticket /\ m.action = other.action)
    BY <1>1, <1>3, <1>4, <2>2 DEF ListInv, MoneyOnce, ExecutedFor
  <2> QED BY <2>1, <2>3 DEF MoneyOnce, ExecutedFor
<1>8. HistoryIsKept'
  BY <1>1 DEF ListInv, HistoryIsKept, ExecutedFor
<1>9. TablesShowLists /\ TablesShowLists'
  BY <1>5, TablesNow, TablesNext DEF ListInv
<1>10. MutationTable' = [MutationTable EXCEPT ![request.id] = request.action]
  <2>1. MutationTable'[request.id] = request.action
    <3>1. new \in mutations' /\ Known(new.id)'
      BY <1>1, <1>2, <1>4
    <3> QED BY <3>1, <1>4, <1>9 DEF TablesShowLists
  <2>2. ASSUME NEW w \in WorkflowIds, w # request.id
        PROVE  MutationTable'[w] = MutationTable[w]
    <3>1. CASE Known(w) /\ Has(mutations, w)
      <4>1. PICK m \in mutations : m.id = w
        BY <3>1 DEF Has
      <4>2. m \in mutations' /\ Known(w)'
        BY <3>1, <4>1, <1>1, <1>2
      <4> QED BY <3>1, <4>1, <4>2, <1>9 DEF TablesShowLists
    <3>2. CASE ~(Known(w) /\ Has(mutations, w))
      <4>1. ~Known(w)' \/ ~Has(mutations', w)
        BY <3>2, <2>2, <1>1, <1>2, <1>4 DEF Has
      <4> QED BY <3>2, <4>1, <1>9 DEF TablesShowLists
    <3> QED BY <3>1, <3>2
  <2>3. /\ MutationTable = [w \in WorkflowIds |-> MutationTable[w]]
        /\ MutationTable' = [w \in WorkflowIds |-> MutationTable'[w]]
    BY <1>9 DEF TablesShowLists
  <2> QED BY <2>1, <2>2, <2>3, <1>2
<1>11. RunTable' = RunTable
  BY <1>1, <1>2, SameTables
<1>12. MutationTable[request.id] = None
  BY <1>1, <1>2, <1>9 DEF TablesShowLists, Has
<1>13. /\ CW!Move(request.id, WorkflowTable[request.id], "mock_executed")
       /\ ApprovalTable[request.id] = ApprovalRow(request)
       /\ ApprovalTable' =
            [ApprovalTable EXCEPT ![request.id] = DecidedRow(request, "approved", role)]
  BY <1>1, <1>5, DecideStep
<1>14. [ApprovalTable[request.id] EXCEPT !.status = "approved", !.decider = role]
         = DecidedRow(request, "approved", role)
  BY <1>13, DecidedRowIsUpdate
<1>15. /\ ApprovalTable[request.id].status = "pending"
       /\ ApprovalTable[request.id].action = request.action
  BY <1>2, <1>13 DEF ApprovalRow
<1>16. ~CW!IsExecuted(request.ticket, request.action)
  BY <1>1, <1>2, DuplicatesShow DEF RequestEntries
<1>17. CW!ApproveAndExecute(request.id, role)
  BY <1>2, <1>10, <1>11, <1>12, <1>13, <1>14, <1>15, <1>16, SameRoles, Zenon
     DEF CW!ApproveAndExecute, CW!WriteExecution
<1> QED BY <1>2, <1>5, <1>6, <1>7, <1>8, <1>17 DEF ListInv, CW!Next, CW!Roles, Roles

\* A cancellation ends the runs of the workflow that are still running.
LEMMA CancelRuns ==
  ASSUME ListInv, NEW wf \in workflows, NEW role \in Roles, Cancel(wf, role)
  PROVE  /\ runs' \in SUBSET RunEntries /\ OneRowPerId(runs')
         /\ \A x \in runs' : \E y \in workflows : y.id = x.workflow /\ y.ticket = x.ticket
         /\ ListsAreSound' => RunTable' = [q \in RunIds |->
              IF RunTable[q].workflow = wf.id /\ RunTable[q].status = "running"
              THEN [RunTable[q] EXCEPT !.status = "cancelled"] ELSE RunTable[q]]
<1> DEFINE After(r) == IF r.workflow = wf.id /\ r.status = "running"
                       THEN [r EXCEPT !.status = "cancelled"] ELSE r
<1>1. \A r \in runs : /\ r \in RunEntries /\ After(r) \in RunEntries
                      /\ After(r).id = r.id /\ After(r).ticket = r.ticket
                      /\ After(r).key = r.key /\ After(r).workflow = r.workflow
                      /\ After(r).status = IF r.workflow = wf.id /\ r.status = "running"
                                           THEN "cancelled" ELSE r.status
  BY DEF ListInv, ListsAreSound, RunEntries, RunStatuses
<1>2. runs' = {After(r) : r \in runs}
  BY DEF Cancel
<1> HIDE DEF After
<1>3. /\ runs' \in SUBSET RunEntries /\ OneRowPerId(runs')
      /\ \A x \in runs' : \E y \in workflows : y.id = x.workflow /\ y.ticket = x.ticket
      /\ \A q : Has(runs', q) <=> Has(runs, q)
  <2>1. /\ \A x \in runs' : \E r \in runs : x = After(r)
        /\ \A r \in runs : After(r) \in runs'
    BY <1>2
  <2>2. \A x \in runs' : \E r \in runs :
          /\ x = After(r) /\ x \in RunEntries /\ x.id = r.id
          /\ x.ticket = r.ticket /\ x.workflow = r.workflow
    <3> SUFFICES ASSUME NEW x \in runs'
                 PROVE  \E r \in runs :
                          /\ x = After(r) /\ x \in RunEntries /\ x.id = r.id
                          /\ x.ticket = r.ticket /\ x.workflow = r.workflow
      OBVIOUS
    <3>1. PICK r \in runs : x = After(r)
      BY <2>1
    <3> QED BY <3>1, <1>1
  <2>3. \A r \in runs : \E x \in runs' : x.id = r.id
    BY <1>1, <2>1
  <2>4. OneRowPerId(runs')
    <3> SUFFICES ASSUME NEW x \in runs', NEW y \in runs', x.id = y.id
                 PROVE  x = y
      BY DEF OneRowPerId
    <3>1. PICK r \in runs : x = After(r) /\ x.id = r.id
      BY <2>2
    <3>2. PICK q \in runs : y = After(q) /\ y.id = q.id
      BY <2>2
    <3>3. r = q
      BY <3>1, <3>2 DEF ListInv, ListsAreSound, OneRowPerId
    <3> QED BY <3>1, <3>2, <3>3
  <2>5. \A q : Has(runs', q) <=> Has(runs, q)
    <3> HIDE DEF After
    <3> QED BY <2>2, <2>3 DEF Has
  <2>6. \A x \in runs' : \E y \in workflows : y.id = x.workflow /\ y.ticket = x.ticket
    BY <2>2 DEF ListInv, ListsAgree
  <2> QED BY <2>2, <2>4, <2>5, <2>6
<1>4. ASSUME ListsAreSound', NEW q \in RunIds
      PROVE  RunTable'[q] = IF RunTable[q].workflow = wf.id /\ RunTable[q].status = "running"
                            THEN [RunTable[q] EXCEPT !.status = "cancelled"]
                            ELSE RunTable[q]
  <2>1. TablesShowLists /\ TablesShowLists'
    BY <1>4, TablesNow, TablesNext DEF ListInv
  <2>2. CASE Has(runs, q)
    <3>1. PICK r \in runs : r.id = q
      BY <2>2 DEF Has
    <3>2. After(r) \in runs' /\ After(r).id = q
      BY <3>1, <1>1, <1>2
    <3>3. RunTable[q] = RunRow(r) /\ RunTable'[q] = RunRow(After(r))
      BY <3>1, <3>2, <2>1 DEF TablesShowLists
    <3>4. CASE r.workflow = wf.id /\ r.status = "running"
      <4>1. RunTable[q] = [ticket |-> r.ticket, key |-> r.key,
                           workflow |-> r.workflow, status |-> r.status]
        BY <3>3 DEF RunRow
      <4>2. RunTable'[q] = [ticket |-> r.ticket, key |-> r.key,
                            workflow |-> r.workflow, status |-> "cancelled"]
        BY <3>1, <3>3, <3>4, <1>1 DEF RunRow
      <4> QED BY <3>4, <4>1, <4>2
    <3>5. CASE ~(r.workflow = wf.id /\ r.status = "running")
      <4>1. RunRow(After(r)) = RunRow(r)
        BY <3>1, <3>5, <1>1 DEF RunRow
      <4>2. RunTable[q].workflow = r.workflow /\ RunTable[q].status = r.status
        BY <3>3 DEF RunRow
      <4> QED BY <3>3, <3>5, <4>1, <4>2
    <3> QED BY <3>4, <3>5
  <2>3. CASE ~Has(runs, q)
    <3>1. RunTable[q] = CW!NoRun /\ RunTable'[q] = CW!NoRun
      BY <2>1, <2>3, <1>3 DEF TablesShowLists
    <3> QED BY <3>1 DEF CW!NoRun, CW!Absent
  <2> QED BY <2>2, <2>3
<1>5. ListsAreSound' => RunTable' = [q \in RunIds |->
        IF RunTable[q].workflow = wf.id /\ RunTable[q].status = "running"
        THEN [RunTable[q] EXCEPT !.status = "cancelled"] ELSE RunTable[q]]
  BY <1>4, TablesNext DEF TablesShowLists
<1> QED BY <1>3, <1>5

\* And withdraws the request that waits behind it.
LEMMA CancelRequests ==
  ASSUME ListInv, NEW wf \in workflows, NEW role \in Roles, Cancel(wf, role),
         \A w : Known(w)' <=> Known(w)
  PROVE  /\ approvals' \in SUBSET RequestEntries /\ OneRowPerId(approvals')
         /\ \A x \in approvals' : \E request \in approvals :
              /\ x.id = request.id /\ x.ticket = request.ticket
              /\ x.action = request.action
              /\ IF request.id = wf.id /\ request.status = "pending"
                 THEN x.status = "withdrawn" ELSE x = request
         /\ \A request \in approvals : request.status = "approved" => request \in approvals'
         /\ ListsAreSound' => ApprovalTable' = [v \in WorkflowIds |->
              IF v = wf.id /\ ApprovalTable[v].status = "pending"
              THEN [ApprovalTable[v] EXCEPT !.status = "withdrawn", !.decider = role]
              ELSE ApprovalTable[v]]
<1> DEFINE Half(request) == [request EXCEPT !.status = "withdrawn"]
           Gone(request) == [Half(request) EXCEPT !.decider = role]
           After(request) == IF request.id = wf.id /\ request.status = "pending"
                             THEN Gone(request) ELSE request
<1>1. approvals' = {After(request) : request \in approvals}
  BY DEF Cancel
<1>2. \A request \in approvals :
        /\ request \in RequestEntries /\ Half(request) \in RequestEntries
        /\ Half(request).id = request.id /\ Half(request).ticket = request.ticket
        /\ Half(request).action = request.action /\ Half(request).run = request.run
        /\ Half(request).status = "withdrawn"
  BY DEF ListInv, ListsAreSound, RequestEntries, ApprovalStatuses
<1> HIDE DEF Half
<1>3. \A request \in approvals :
        /\ Gone(request) \in RequestEntries
        /\ Gone(request).id = request.id /\ Gone(request).ticket = request.ticket
        /\ Gone(request).action = request.action /\ Gone(request).run = request.run
        /\ Gone(request).status = "withdrawn" /\ Gone(request).decider = role
  BY <1>2 DEF RequestEntries
<1> HIDE DEF Gone
<1>4. \A request \in approvals :
        After(request) \in RequestEntries /\ After(request).id = request.id
  BY <1>2, <1>3
<1>5. /\ approvals' \in SUBSET RequestEntries /\ OneRowPerId(approvals')
      /\ \A w : Has(approvals', w) <=> Has(approvals, w)
  <2> HIDE DEF After
  <2>1. /\ \A x \in approvals' : \E request \in approvals : x = After(request)
        /\ \A request \in approvals : After(request) \in approvals'
    BY <1>1
  <2>2. \A x \in approvals' : \E request \in approvals :
          x = After(request) /\ x \in RequestEntries /\ x.id = request.id
    <3> SUFFICES ASSUME NEW x \in approvals'
                 PROVE  \E request \in approvals :
                          x = After(request) /\ x \in RequestEntries /\ x.id = request.id
      OBVIOUS
    <3>1. PICK request \in approvals : x = After(request)
      BY <2>1
    <3> QED BY <3>1, <1>4
  <2>3. \A request \in approvals : \E x \in approvals' : x.id = request.id
    BY <1>4, <2>1
  <2>4. OneRowPerId(approvals')
    <3> SUFFICES ASSUME NEW x \in approvals', NEW y \in approvals', x.id = y.id
                 PROVE  x = y
      BY DEF OneRowPerId
    <3>1. PICK p \in approvals : x = After(p) /\ x.id = p.id
      BY <2>2
    <3>2. PICK q \in approvals : y = After(q) /\ y.id = q.id
      BY <2>2
    <3>3. p = q
      BY <3>1, <3>2 DEF ListInv, ListsAreSound, OneRowPerId
    <3> QED BY <3>1, <3>2, <3>3
  <2>5. \A w : Has(approvals', w) <=> Has(approvals, w)
    BY <2>2, <2>3 DEF Has
  <2> QED BY <2>2, <2>4, <2>5
<1>6. \A x \in approvals' : \E request \in approvals :
        /\ x.id = request.id /\ x.ticket = request.ticket
        /\ x.action = request.action
        /\ IF request.id = wf.id /\ request.status = "pending"
           THEN x.status = "withdrawn" ELSE x = request
  BY <1>1, <1>3
<1>7. \A request \in approvals : request.status = "approved" => request \in approvals'
  BY <1>1
<1>8. ASSUME ListsAreSound', NEW v \in WorkflowIds
      PROVE  ApprovalTable'[v] =
               IF v = wf.id /\ ApprovalTable[v].status = "pending"
               THEN [ApprovalTable[v] EXCEPT !.status = "withdrawn", !.decider = role]
               ELSE ApprovalTable[v]
  <2>1. TablesShowLists /\ TablesShowLists'
    BY <1>8, TablesNow, TablesNext DEF ListInv
  <2>2. CASE Known(v) /\ Has(approvals, v)
    <3>1. PICK request \in approvals : request.id = v
      BY <2>2 DEF Has
    <3>2. After(request) \in approvals' /\ After(request).id = v /\ Known(v)'
      BY <3>1, <2>2, <1>1, <1>4
    <3>3. /\ ApprovalTable[v] = ApprovalRow(request)
          /\ ApprovalTable'[v] = ApprovalRow(After(request))
      BY <3>1, <3>2, <2>1, <2>2 DEF TablesShowLists
    <3>4. ApprovalTable[v].status = request.status
      <4>1. ApprovalTable[v] = ApprovalRow(request)
        BY <3>3
      <4> QED BY <4>1 DEF ApprovalRow
    <3>5. CASE v = wf.id /\ request.status = "pending"
      <4>1. ApprovalTable'[v] = DecidedRow(request, "withdrawn", role)
        <5>1. After(request) = Gone(request)
          BY <3>1, <3>5
        <5>2. ApprovalTable'[v] = ApprovalRow(Gone(request))
          BY <3>3, <5>1
        <5> QED BY <5>2, <1>3 DEF ApprovalRow, DecidedRow
      <4>2. [ApprovalTable[v] EXCEPT !.status = "withdrawn", !.decider = role]
              = DecidedRow(request, "withdrawn", role)
        BY <3>3, DecidedRowIsUpdate
      <4> QED BY <3>4, <3>5, <4>1, <4>2
    <3>6. CASE ~(v = wf.id /\ request.status = "pending")
      BY <3>1, <3>3, <3>4, <3>6
    <3> QED BY <3>5, <3>6
  <2>3. CASE ~(Known(v) /\ Has(approvals, v))
    <3>1. ~Known(v)' \/ ~Has(approvals', v)
      BY <2>3, <1>5
    <3>2. ApprovalTable[v] = CW!NoApproval /\ ApprovalTable'[v] = CW!NoApproval
      BY <2>1, <2>3, <3>1 DEF TablesShowLists
    <3> QED BY <3>2 DEF CW!NoApproval, CW!Absent
  <2> QED BY <2>2, <2>3
<1>9. ListsAreSound' => ApprovalTable' = [v \in WorkflowIds |->
        IF v = wf.id /\ ApprovalTable[v].status = "pending"
        THEN [ApprovalTable[v] EXCEPT !.status = "withdrawn", !.decider = role]
        ELSE ApprovalTable[v]]
  BY <1>8, TablesNext DEF TablesShowLists
<1> QED BY <1>5, <1>6, <1>7, <1>9

\* A workflow is cancelled, with what waits behind it and what still runs for it.
LEMMA CancelStep ==
  ASSUME ListInv, NEW wf \in workflows, NEW role \in Roles, Cancel(wf, role)
  PROVE  ListInv' /\ CW!Next
<1>1. /\ May(role, "workflow.cancel") /\ wf.status \notin TerminalStatuses
      /\ MoveTo(wf, "cancelled") /\ mutations' = mutations
  BY DEF Cancel
<1>2. /\ wf.id \in WorkflowIds /\ wf.status \in WorkflowStatuses
      /\ WorkflowTable[wf.id] = WorkflowRow(wf)
  BY TablesNow DEF ListInv, ListsAreSound, WorkflowEntries, TablesShowLists
<1>3. "cancelled" \in WorkflowStatuses /\ CanTransition(wf.status, "cancelled")
  BY <1>1, <1>2 DEF CanTransition, WorkflowTransitions, ActiveStatuses, Absent,
                    WorkflowStatuses, TerminalStatuses
<1>4. MoveFrom(wf, wf.status, "cancelled")
  BY <1>1, MoveStarts
<1>5. /\ workflows' \in SUBSET WorkflowEntries
      /\ moves' \in [WorkflowIds -> Seq(MoveEntries)]
      /\ OneRowPerId(workflows')
      /\ \A x \in workflows' : x.sequence >= 1
      /\ (\A t \in Tickets :
           \E n \in {0} \cup {x.cycle : x \in WorkflowsOf(t)} :
             \A x \in WorkflowsOf(t) : x.cycle <= n)'
      /\ \A w : Known(w)' <=> Known(w)
      /\ \A w \in WorkflowIds : ~Known(w) => moves'[w] = << >>
      /\ \A x \in workflows' :
           \/ x \in workflows /\ x.id # wf.id
           \/ x.id = wf.id /\ x.ticket = wf.ticket /\ x.status = "cancelled"
      /\ \A x \in workflows : \E y \in workflows' : y.id = x.id /\ y.ticket = x.ticket
      /\ MovesReplay'
      /\ ListsAreSound' => CW!Move(wf.id, WorkflowTable[wf.id], "cancelled")
  BY <1>3, <1>4, MoveStep
<1>6. /\ runs' \in SUBSET RunEntries /\ OneRowPerId(runs')
      /\ \A x \in runs' : \E y \in workflows : y.id = x.workflow /\ y.ticket = x.ticket
      /\ ListsAreSound' => RunTable' = [q \in RunIds |->
           IF RunTable[q].workflow = wf.id /\ RunTable[q].status = "running"
           THEN [RunTable[q] EXCEPT !.status = "cancelled"] ELSE RunTable[q]]
  BY CancelRuns
<1>7. /\ approvals' \in SUBSET RequestEntries /\ OneRowPerId(approvals')
      /\ \A x \in approvals' : \E request \in approvals :
           /\ x.id = request.id /\ x.ticket = request.ticket
           /\ x.action = request.action
           /\ IF request.id = wf.id /\ request.status = "pending"
              THEN x.status = "withdrawn" ELSE x = request
      /\ \A request \in approvals : request.status = "approved" => request \in approvals'
  BY <1>5, CancelRequests
<1>8. ListsAreSound'
  BY <1>1, <1>5, <1>6, <1>7 DEF ListInv, ListsAreSound
<1>9. ListsAgree'
  <2>1. ASSUME NEW x \in approvals', NEW y \in workflows', y.id = x.id
        PROVE  y.ticket = x.ticket /\ y.status = StatusBehind(x)
    <3>1. PICK request \in approvals :
            /\ x.id = request.id /\ x.ticket = request.ticket
            /\ IF request.id = wf.id /\ request.status = "pending"
               THEN x.status = "withdrawn" ELSE x = request
      BY <1>7
    <3>2. CASE x.id = wf.id
      <4>1. /\ wf.ticket = request.ticket /\ wf.status = StatusBehind(request)
            /\ request.status \in ApprovalStatuses
        BY <3>1, <3>2 DEF ListInv, ListsAgree, ListsAreSound, RequestEntries
      <4>2. request.status = "pending"  \/ request.status = "withdrawn"
        BY <4>1, <1>1 DEF StatusBehind, ApprovalStatuses, TerminalStatuses
      <4>3. x.status = "withdrawn"
        BY <3>1, <3>2, <4>2
      <4>4. StatusBehind(x) = "cancelled"
        BY <4>3 DEF StatusBehind
      <4> QED BY <3>1, <3>2, <4>1, <4>4, <2>1, <1>5
    <3>3. CASE x.id # wf.id
      <4>1. x \in approvals /\ y \in workflows
        BY <3>1, <3>3, <2>1, <1>5
      <4> QED BY <4>1, <2>1 DEF ListInv, ListsAgree
    <3> QED BY <3>2, <3>3
  <2>2. \A w \in WorkflowIds : ~Known(w)' => moves'[w] = << >>
    BY <1>5
  <2>3. \A x \in runs' : \E y \in workflows' : y.id = x.workflow /\ y.ticket = x.ticket
    BY <1>5, <1>6
  <2>4. \A m \in mutations' : \E request \in approvals' :
          /\ request.id = m.id /\ request.ticket = m.ticket
          /\ request.action = m.action /\ request.run = m.run
          /\ request.status = "approved"
    BY <1>1, <1>7 DEF ListInv, ListsAgree
  <2>5. \A p \in approvals' : p.status = "pending" => p \in approvals
    BY <1>7
  <2>6. \A p, q \in approvals' :
          /\ p.status = "pending" /\ q.status = "pending"
          /\ p.ticket = q.ticket /\ p.action = q.action
          => p = q
    BY <2>5 DEF ListInv, ListsAgree
  <2> QED BY <2>1, <2>2, <2>3, <2>4, <2>6 DEF ListsAgree, StatusBehind
<1>10. MoneyOnce' /\ HistoryIsKept'
  <2>1. \A p \in approvals' : p.status = "pending" => p \in approvals
    BY <1>7
  <2> QED BY <2>1, <1>1 DEF ListInv, MoneyOnce, HistoryIsKept, ExecutedFor
<1>11. MutationTable' = MutationTable
  BY <1>1, <1>5, SameTables
<1>12. CW!Move(wf.id, WorkflowTable[wf.id], "cancelled")
  BY <1>5, <1>8
<1>13. ApprovalTable' = [v \in WorkflowIds |->
         IF v \in {x \in {wf.id} : ApprovalTable[x].status = "pending"}
         THEN [ApprovalTable[v] EXCEPT !.status = "withdrawn", !.decider = role]
         ELSE ApprovalTable[v]]
  <2>1. \A v : v \in {x \in {wf.id} : ApprovalTable[x].status = "pending"}
                 <=> v = wf.id /\ ApprovalTable[v].status = "pending"
    OBVIOUS
  <2>2. ApprovalTable' = [v \in WorkflowIds |->
          IF v = wf.id /\ ApprovalTable[v].status = "pending"
          THEN [ApprovalTable[v] EXCEPT !.status = "withdrawn", !.decider = role]
          ELSE ApprovalTable[v]]
    BY <1>5, <1>8, CancelRequests
  <2> QED BY <2>1, <2>2, Zenon
<1>14. RunTable' = [q \in RunIds |->
         IF q \in {r \in RunIds : RunTable[r].workflow = wf.id /\ RunTable[r].status = "running"}
         THEN [RunTable[q] EXCEPT !.status = "cancelled"] ELSE RunTable[q]]
  <2>1. RunTable' = [q \in RunIds |->
          IF RunTable[q].workflow = wf.id /\ RunTable[q].status = "running"
          THEN [RunTable[q] EXCEPT !.status = "cancelled"] ELSE RunTable[q]]
    BY <1>6, <1>8
  <2> QED BY <2>1
<1>15. CW!Exists(wf.id) /\ ~CW!Terminal(wf.id)
  BY <1>1, <1>2 DEF CW!Exists, CW!Terminal, CW!Absent, CW!TerminalStatuses,
                    TerminalStatuses, WorkflowStatuses, WorkflowRow
<1>16. CW!May(role, "workflow.cancel")
  BY <1>1, SameRoles
<1>17. CW!CancelWorkflow(wf.id, role)
  BY <1>11, <1>12, <1>13, <1>14, <1>15, <1>16, Zenon
     DEF CW!CancelWorkflow, CW!WriteCancellation
<1> QED BY <1>2, <1>5, <1>8, <1>9, <1>10, <1>17 DEF ListInv, CW!Next, CW!Roles, Roles

\* Whatever a reset takes beside the workflows and runs of its ticket, as long as
\* it leaves other tickets alone and no mutation without its request.
LEMMA DeleteStep ==
  ASSUME ListInv, NEW t \in Tickets, DeleteRunsAndWorkflows(t),
         approvals' \subseteq approvals, mutations' \subseteq mutations,
         \A x \in approvals : x.ticket # t => x \in approvals',
         \A m \in mutations : m.ticket # t => m \in mutations',
         \A m \in mutations' : \A request \in approvals :
           request.id = m.id => request \in approvals',
         HistoryIsKept'
  PROVE  ListInv' /\ CW!Next
<1>1. /\ runs' = runs \ RunsOf(t) /\ workflows' = workflows \ WorkflowsOf(t)
      /\ moves' = [w \in WorkflowIds |->
           IF \E wf \in WorkflowsOf(t) : wf.id = w THEN << >> ELSE moves[w]]
  BY DEF DeleteRunsAndWorkflows
<1>2. /\ \A wf \in workflows' : wf \in workflows /\ wf.ticket # t
      /\ \A wf \in workflows : wf.ticket # t => wf \in workflows'
      /\ \A r \in runs' : r \in runs /\ r.ticket # t
      /\ \A r \in runs : r.ticket # t => r \in runs'
  BY <1>1 DEF WorkflowsOf, RunsOf
<1>3. \A wf \in workflows' : wf.id \in WorkflowIds /\ moves'[wf.id] = moves[wf.id]
  BY <1>1, <1>2 DEF WorkflowsOf, ListInv, ListsAreSound, OneRowPerId, WorkflowEntries
<1>4. ListsAreSound'
  <2>1. moves' \in [WorkflowIds -> Seq(MoveEntries)]
    <3>1. << >> \in Seq(MoveEntries)
      OBVIOUS
    <3> QED BY <1>1, <3>1 DEF ListInv, ListsAreSound
  <2>2. ASSUME NEW u \in Tickets
        PROVE  \E n \in {0} \cup {x.cycle : x \in WorkflowsOf(u)'} :
                 \A x \in WorkflowsOf(u)' : x.cycle <= n
    <3>1. CASE u = t
      <4>1. WorkflowsOf(u)' = {}
        BY <3>1, <1>2 DEF WorkflowsOf
      <4> QED BY <4>1
    <3>2. CASE u # t
      <4>1. WorkflowsOf(u)' = WorkflowsOf(u)
        BY <3>2, <1>2 DEF WorkflowsOf
      <4> QED BY <4>1 DEF ListInv, ListsAreSound
    <3> QED BY <3>1, <3>2
  <2>3. /\ OneRowPerId(workflows') /\ OneRowPerId(runs')
        /\ OneRowPerId(approvals') /\ OneRowPerId(mutations')
    BY <1>2 DEF ListInv, ListsAreSound, OneRowPerId
  <2> QED BY <1>2, <2>1, <2>2, <2>3 DEF ListInv, ListsAreSound
<1>5. ListsAgree'
  <2>1. \A w \in WorkflowIds : ~Known(w)' => moves'[w] = << >>
    BY <1>1, <1>2 DEF Known, WorkflowsOf, ListInv, ListsAgree
  <2>2. \A r \in runs' : \E wf \in workflows' : wf.id = r.workflow /\ wf.ticket = r.ticket
    BY <1>2 DEF ListInv, ListsAgree
  <2>3. \A request \in approvals' : \A wf \in workflows' :
          wf.id = request.id =>
            wf.ticket = request.ticket /\ wf.status = StatusBehind(request)
    BY <1>2 DEF ListInv, ListsAgree
  <2>4. \A m \in mutations' : \E request \in approvals' :
          /\ request.id = m.id /\ request.ticket = m.ticket
          /\ request.action = m.action /\ request.run = m.run
          /\ request.status = "approved"
    BY DEF ListInv, ListsAgree
  <2>5. \A p, q \in approvals' :
          /\ p.status = "pending" /\ q.status = "pending"
          /\ p.ticket = q.ticket /\ p.action = q.action
          => p = q
    BY DEF ListInv, ListsAgree
  <2> QED BY <2>1, <2>2, <2>3, <2>4, <2>5 DEF ListsAgree, StatusBehind
<1>6. MovesReplay'
  BY <1>2, <1>3 DEF ListInv, MovesReplay
<1>7. MoneyOnce'
  BY DEF ListInv, MoneyOnce, ExecutedFor
<1>8. TablesShowLists /\ TablesShowLists'
  BY <1>4, TablesNow, TablesNext DEF ListInv
<1>9. ASSUME NEW w \in WorkflowIds
      PROVE  /\ w \in CW!WorkflowsOf(t) => ~Known(w)'
             /\ w \notin CW!WorkflowsOf(t) /\ Known(w) =>
                  \E wf \in workflows' : wf.id = w
             /\ Known(w)' => Known(w)
  <2>1. ASSUME NEW wf \in workflows, wf.id = w
        PROVE  w \in CW!WorkflowsOf(t) <=> wf.ticket = t
    <3>1. WorkflowTable[w] = WorkflowRow(wf) /\ wf.status # Absent
      BY <1>8, <2>1 DEF TablesShowLists, ListInv, ListsAreSound, WorkflowEntries,
                        WorkflowStatuses, Absent
    <3> QED BY <3>1 DEF CW!WorkflowsOf, CW!Exists, CW!Absent, Absent, WorkflowRow
  <2> QED BY <2>1, <1>2 DEF Known
<1>10. WorkflowTable' = [w \in WorkflowIds |->
         IF w \in CW!WorkflowsOf(t) THEN CW!NoWorkflow ELSE WorkflowTable[w]]
  <2>1. ASSUME NEW w \in WorkflowIds
        PROVE  WorkflowTable'[w] =
                 IF w \in CW!WorkflowsOf(t) THEN CW!NoWorkflow ELSE WorkflowTable[w]
    <3>1. CASE ~Known(w)'
      <4>1. w \in CW!WorkflowsOf(t) \/ ~Known(w)
        BY <3>1, <1>9 DEF Known
      <4> QED BY <3>1, <4>1, <1>8 DEF TablesShowLists
    <3>2. CASE Known(w)'
      <4>1. PICK wf \in workflows' : wf.id = w
        BY <3>2 DEF Known
      <4>2. w \notin CW!WorkflowsOf(t) /\ wf \in workflows
        BY <3>2, <4>1, <1>2, <1>9
      <4> QED BY <4>1, <4>2, <1>8 DEF TablesShowLists
    <3> QED BY <3>1, <3>2
  <2> QED BY <2>1, <1>8 DEF TablesShowLists
<1>11. LedgerTable' = [w \in WorkflowIds |->
         IF w \in CW!WorkflowsOf(t) THEN {} ELSE LedgerTable[w]]
  <2>1. ToSet(<< >>) = {}
    BY DEF ToSet
  <2>2. ASSUME NEW w \in WorkflowIds
        PROVE  LedgerTable'[w] = IF w \in CW!WorkflowsOf(t) THEN {} ELSE LedgerTable[w]
    <3>1. LedgerTable[w] = ToSet(moves[w]) /\ LedgerTable'[w] = ToSet(moves'[w])
      BY <1>8 DEF TablesShowLists
    <3>2. CASE w \in CW!WorkflowsOf(t)
      <4>1. moves'[w] = << >>
        BY <3>2, <1>5, <1>9 DEF ListsAgree
      <4> QED BY <3>1, <3>2, <4>1, <2>1
    <3>3. CASE w \notin CW!WorkflowsOf(t) /\ Known(w)
      <4>1. moves'[w] = moves[w]
        BY <3>3, <1>3, <1>9
      <4> QED BY <3>1, <3>3, <4>1
    <3>4. CASE w \notin CW!WorkflowsOf(t) /\ ~Known(w)
      <4>1. ~Known(w)'
        BY <3>4, <1>9
      <4>2. moves[w] = << >> /\ moves'[w] = << >>
        BY <3>4, <4>1, <1>5 DEF ListInv, ListsAgree
      <4> QED BY <3>1, <3>4, <4>2
    <3> QED BY <3>2, <3>3, <3>4
  <2> QED BY <2>2, <1>8 DEF TablesShowLists
<1>12. RunTable' = [r \in RunIds |->
         IF r \in CW!RunsOf(t) THEN CW!NoRun ELSE RunTable[r]]
  <2>1. ASSUME NEW r \in RunIds
        PROVE  RunTable'[r] = IF r \in CW!RunsOf(t) THEN CW!NoRun ELSE RunTable[r]
    <3>1. CASE Has(runs, r)
      <4>1. PICK x \in runs : x.id = r
        BY <3>1 DEF Has
      <4>2. RunTable[r] = RunRow(x) /\ x.status # Absent
        BY <4>1, <1>8 DEF TablesShowLists, ListInv, ListsAreSound, RunEntries,
                          RunStatuses, Absent
      <4>3. r \in CW!RunsOf(t) <=> x.ticket = t
        BY <4>2 DEF CW!RunsOf, CW!RunExists, CW!Absent, Absent, RunRow
      <4>4. CASE x.ticket = t
        <5>1. ~Has(runs', r)
          BY <4>1, <4>4, <1>2 DEF Has, ListInv, ListsAreSound, OneRowPerId
        <5> QED BY <4>3, <4>4, <5>1, <1>8 DEF TablesShowLists
      <4>5. CASE x.ticket # t
        <5>1. x \in runs'
          BY <4>5, <1>2
        <5> QED BY <4>1, <4>2, <4>3, <4>5, <5>1, <1>8 DEF TablesShowLists
      <4> QED BY <4>4, <4>5
    <3>2. CASE ~Has(runs, r)
      <4>1. ~Has(runs', r)
        BY <3>2, <1>2 DEF Has
      <4> QED BY <3>2, <4>1, <1>8 DEF TablesShowLists
    <3> QED BY <3>1, <3>2
  <2> QED BY <2>1, <1>8 DEF TablesShowLists
<1>13. ApprovalTable' = [w \in WorkflowIds |->
         IF w \in CW!WorkflowsOf(t) THEN CW!NoApproval ELSE ApprovalTable[w]]
  <2>1. ASSUME NEW w \in WorkflowIds
        PROVE  ApprovalTable'[w] =
                 IF w \in CW!WorkflowsOf(t) THEN CW!NoApproval ELSE ApprovalTable[w]
    <3>1. CASE w \in CW!WorkflowsOf(t) \/ ~Known(w)
      <4>1. ~Known(w)'
        BY <3>1, <1>9
      <4> QED BY <3>1, <4>1, <1>8 DEF TablesShowLists
    <3>2. CASE w \notin CW!WorkflowsOf(t) /\ Known(w)
      <4>1. PICK wf \in workflows' : wf.id = w
        BY <3>2, <1>9
      <4>2. Known(w)'
        BY <4>1 DEF Known
      <4>3. CASE Has(approvals, w)
        <5>1. PICK request \in approvals : request.id = w
          BY <4>3 DEF Has
        <5>2. request.ticket # t
          BY <4>1, <5>1, <1>2 DEF ListInv, ListsAgree
        <5>3. request \in approvals'
          BY <5>2
        <5> QED BY <3>2, <4>2, <5>1, <5>3, <1>8 DEF TablesShowLists
      <4>4. CASE ~Has(approvals, w)
        <5>1. ~Has(approvals', w)
          BY <4>4 DEF Has
        <5> QED BY <3>2, <4>4, <5>1, <1>8 DEF TablesShowLists
      <4> QED BY <4>3, <4>4
    <3> QED BY <3>1, <3>2
  <2> QED BY <2>1, <1>8 DEF TablesShowLists
<1>14. MutationTable' = [w \in WorkflowIds |->
         IF w \in CW!WorkflowsOf(t) THEN None ELSE MutationTable[w]]
  <2>1. ASSUME NEW w \in WorkflowIds
        PROVE  MutationTable'[w] =
                 IF w \in CW!WorkflowsOf(t) THEN None ELSE MutationTable[w]
    <3>1. CASE w \in CW!WorkflowsOf(t) \/ ~Known(w)
      <4>1. ~Known(w)'
        BY <3>1, <1>9
      <4> QED BY <3>1, <4>1, <1>8 DEF TablesShowLists
    <3>2. CASE w \notin CW!WorkflowsOf(t) /\ Known(w)
      <4>1. PICK wf \in workflows' : wf.id = w
        BY <3>2, <1>9
      <4>2. Known(w)'
        BY <4>1 DEF Known
      <4>3. CASE Has(mutations, w)
        <5>1. PICK m \in mutations : m.id = w
          BY <4>3 DEF Has
        <5>2. m.ticket # t
          BY <4>1, <5>1, <1>2 DEF ListInv, ListsAgree
        <5>3. m \in mutations'
          BY <5>2
        <5> QED BY <3>2, <4>2, <5>1, <5>3, <1>8 DEF TablesShowLists
      <4>4. CASE ~Has(mutations, w)
        <5>1. ~Has(mutations', w)
          BY <4>4 DEF Has
        <5> QED BY <3>2, <4>4, <5>1, <1>8 DEF TablesShowLists
      <4> QED BY <4>3, <4>4
    <3> QED BY <3>1, <3>2
  <2> QED BY <2>1, <1>8 DEF TablesShowLists
<1>15. CW!ResetTicket(t)
  BY <1>10, <1>11, <1>12, <1>13, <1>14 DEF CW!ResetTicket, CW!DeleteTicket
<1> QED BY <1>4, <1>5, <1>6, <1>7, <1>15 DEF ListInv, CW!Next

\* A reset of an eval fixture keeps the executed action no run made, and with
\* every mutation it keeps its request.
LEMMA ResetEvalFixtureStep ==
  ASSUME ListInv, NEW t \in Tickets, ResetEvalFixture(t)
  PROVE  ListInv' /\ CW!Next
<1> DEFINE made == {request \in approvals :
                      request.ticket = t /\ \E r \in RunsOf(t) : r.id = request.run}
<1>1. /\ DeleteRunsAndWorkflows(t) /\ approvals' = approvals \ made
      /\ mutations' = {m \in mutations :
           ~(/\ m.ticket = t
             /\ \/ \E r \in RunsOf(t) : r.id = m.run
                \/ \E request \in made : request.id = m.id)}
  BY DEF ResetEvalFixture
<1>2. ASSUME NEW m \in mutations', NEW request \in approvals, request.id = m.id
      PROVE  request \in approvals'
  <2>1. PICK own \in approvals : own.id = m.id /\ own.ticket = m.ticket
    BY <1>1 DEF ListInv, ListsAgree
  <2>2. own = request
    BY <1>2, <2>1 DEF ListInv, ListsAreSound, OneRowPerId
  <2> QED BY <1>1, <1>2, <2>1, <2>2
<1>3. HistoryIsKept'
  <2> SUFFICES ASSUME NEW u \in HistoryTickets
               PROVE  \E m \in mutations' :
                        m.ticket = u /\ m.action = SeedAction /\ m.run = None
    BY DEF HistoryIsKept, ExecutedFor
  <2>1. PICK m \in mutations : m.ticket = u /\ m.action = SeedAction /\ m.run = None
    BY DEF ListInv, HistoryIsKept, ExecutedFor
  <2>2. \A r \in RunsOf(t) : r.id # None
    BY SeedAssumption DEF RunsOf, ListInv, ListsAreSound, RunEntries
  <2>3. \A request \in approvals : request.id = m.id => request.run = None
    <3>1. PICK own \in approvals : own.id = m.id /\ own.run = None
      BY <2>1 DEF ListInv, ListsAgree
    <3> QED BY <3>1 DEF ListInv, ListsAreSound, OneRowPerId
  <2>4. m \in mutations'
    BY <1>1, <2>1, <2>2, <2>3
  <2> QED BY <2>1, <2>4
<1>4. /\ approvals' \subseteq approvals /\ mutations' \subseteq mutations
      /\ \A x \in approvals : x.ticket # t => x \in approvals'
      /\ \A m \in mutations : m.ticket # t => m \in mutations'
  BY <1>1
<1> QED BY <1>1, <1>2, <1>3, <1>4, DeleteStep

\* A demo reset takes everything of its ticket, which is no eval fixture.
LEMMA ResetDemoStep ==
  ASSUME ListInv, NEW t \in DemoTickets, ResetDemo(t)
  PROVE  ListInv' /\ CW!Next
<1>1. t \in Tickets /\ t \notin HistoryTickets
  BY SeedAssumption DEF Seeded
<1>2. /\ DeleteRunsAndWorkflows(t)
      /\ approvals' = {request \in approvals : request.ticket # t}
      /\ mutations' = {m \in mutations : m.ticket # t}
  BY DEF ResetDemo
<1>3. HistoryIsKept'
  BY <1>1, <1>2 DEF ListInv, HistoryIsKept, ExecutedFor
<1>4. ASSUME NEW m \in mutations', NEW request \in approvals, request.id = m.id
      PROVE  request \in approvals'
  <2>1. PICK own \in approvals : own.id = m.id /\ own.ticket = m.ticket
    BY <1>2 DEF ListInv, ListsAgree
  <2>2. own = request
    BY <1>4, <2>1 DEF ListInv, ListsAreSound, OneRowPerId
  <2> QED BY <1>2, <2>1, <2>2
<1> QED BY <1>1, <1>2, <1>3, <1>4, DeleteStep

-----------------------------------------------------------------------------
(* The seed, and what follows.                                             *)

\* The rows of one seeded ticket.
LEMMA SeededRows ==
  ASSUME NEW t \in Seeded
  PROVE  LET past == t \in HistoryTickets
             wf == SeededWorkflow(t)
             path == SeededMoves(t)
             request == SeededApproval(t) IN
         /\ wf \in WorkflowEntries /\ wf.id = SeedWorkflow[t] /\ wf.ticket = t
         /\ wf.cycle = 1 /\ wf.sequence >= 1
         /\ wf.status = IF past THEN "mock_executed" ELSE "awaiting_approval"
         /\ path \in Seq(MoveEntries) /\ Len(path) = wf.sequence
         /\ Last(path).to = wf.status
         /\ \A n \in 1..Len(path) :
              /\ path[n].sequence = n
              /\ path[n].from = IF n = 1 THEN Absent ELSE path[n - 1].to
              /\ CanTransition(path[n].from, path[n].to)
         /\ request \in RequestEntries /\ request.id = SeedWorkflow[t]
         /\ request.ticket = t /\ request.action = SeedAction
         /\ request.run = IF past THEN None ELSE SeedRun[t]
         /\ request.status = IF past THEN "approved" ELSE "pending"
<1> DEFINE path == SeededPath(t)
           wf == SeededWorkflow(t)
           list == SeededMoves(t)
           request == SeededApproval(t)
<1>1. t \in Tickets /\ SeedWorkflow[t] \in WorkflowIds /\ SeedAction \in Actions
      /\ (t \notin HistoryTickets => SeedRun[t] \in RunIds)
  BY SeedAssumption DEF Seeded
<1>2. CASE t \in HistoryTickets
  <2>1. path = Append(<<"absent", "investigating", "awaiting_approval">>, "mock_executed")
    <3>1. path = <<"absent", "investigating", "awaiting_approval">> \o <<"mock_executed">>
      BY <1>2 DEF SeededPath, Absent
    <3>2. /\ <<"absent", "investigating", "awaiting_approval">>
               \in Seq(WorkflowStatuses \cup {Absent})
          /\ "mock_executed" \in WorkflowStatuses \cup {Absent}
      BY DEF WorkflowStatuses, Absent
    <3> QED BY <3>1, <3>2, AppendIsConcat
  <2>2. /\ Len(path) = 4 /\ path[1] = "absent" /\ path[2] = "investigating"
        /\ path[3] = "awaiting_approval" /\ path[4] = "mock_executed"
        /\ Last(path) = "mock_executed"
    BY <2>1 DEF Last
  <2> HIDE DEF path
  <2>3. /\ wf = [id |-> SeedWorkflow[t], ticket |-> t, cycle |-> 1,
                 status |-> "mock_executed", sequence |-> 3]
        /\ list = [n \in 1..3 |-> [sequence |-> n, from |-> path[n], to |-> path[n + 1]]]
    BY <2>2 DEF SeededWorkflow, SeededMoves, path
  <2>4. \A n \in 1..3 : n = 1 \/ n = 2 \/ n = 3
    OBVIOUS
  <2>5. /\ \A n \in 1..3 : list[n] \in MoveEntries
        /\ list[1] = [sequence |-> 1, from |-> "absent", to |-> "investigating"]
        /\ list[2] = [sequence |-> 2, from |-> "investigating", to |-> "awaiting_approval"]
        /\ list[3] = [sequence |-> 3, from |-> "awaiting_approval", to |-> "mock_executed"]
    BY <2>2, <2>3, <2>4 DEF MoveEntries, WorkflowStatuses, Absent
  <2>6. list \in Seq(MoveEntries) /\ Len(list) = 3 /\ Last(list) = list[3]
    <3>1. list \in [1..3 -> MoveEntries]
      BY <2>3, <2>5
    <3> HIDE DEF list
    <3>2. list \in Seq(MoveEntries)
      BY <3>1, SeqDef
    <3>3. DOMAIN list = 1..3 /\ DOMAIN list = 1..Len(list) /\ Len(list) \in Nat
      BY <3>1, <3>2, LenProperties
    <3>4. Len(list) = 3
      BY <3>3
    <3> QED BY <3>2, <3>4 DEF Last
  <2> HIDE DEF wf, list
  <2>7. \A n \in 1..3 :
          /\ list[n].sequence = n
          /\ list[n].from = IF n = 1 THEN Absent ELSE list[n - 1].to
          /\ CanTransition(list[n].from, list[n].to)
    BY <2>4, <2>5 DEF CanTransition, WorkflowTransitions, ActiveStatuses, Absent,
                      InitialStatus
  <2>8. request = [id |-> SeedWorkflow[t], ticket |-> t, action |-> SeedAction,
                   run |-> None, status |-> "approved", decider |-> "approver"]
    BY <1>2 DEF SeededApproval
  <2>9. request \in RequestEntries
    BY <1>1, <2>8 DEF RequestEntries, ApprovalStatuses, Roles
  <2>10. wf \in WorkflowEntries
    BY <1>1, <2>3 DEF WorkflowEntries, WorkflowStatuses
  <2> QED BY <1>2, <2>3, <2>5, <2>6, <2>7, <2>8, <2>9, <2>10 DEF wf, list
<1>3. CASE t \notin HistoryTickets
  <2>1. path = <<"absent", "investigating", "awaiting_approval">>
    BY <1>3 DEF SeededPath, Absent
  <2>2. /\ Len(path) = 3 /\ path[1] = "absent" /\ path[2] = "investigating"
        /\ path[3] = "awaiting_approval" /\ Last(path) = "awaiting_approval"
    BY <2>1 DEF Last
  <2> HIDE DEF path
  <2>3. /\ wf = [id |-> SeedWorkflow[t], ticket |-> t, cycle |-> 1,
                 status |-> "awaiting_approval", sequence |-> 2]
        /\ list = [n \in 1..2 |-> [sequence |-> n, from |-> path[n], to |-> path[n + 1]]]
    BY <2>2 DEF SeededWorkflow, SeededMoves, path
  <2>4. \A n \in 1..2 : n = 1 \/ n = 2
    OBVIOUS
  <2>5. /\ \A n \in 1..2 : list[n] \in MoveEntries
        /\ list[1] = [sequence |-> 1, from |-> "absent", to |-> "investigating"]
        /\ list[2] = [sequence |-> 2, from |-> "investigating", to |-> "awaiting_approval"]
    BY <2>2, <2>3, <2>4 DEF MoveEntries, WorkflowStatuses, Absent
  <2>6. list \in Seq(MoveEntries) /\ Len(list) = 2 /\ Last(list) = list[2]
    <3>1. list \in [1..2 -> MoveEntries]
      BY <2>3, <2>5
    <3> HIDE DEF list
    <3>2. list \in Seq(MoveEntries)
      BY <3>1, SeqDef
    <3>3. DOMAIN list = 1..2 /\ DOMAIN list = 1..Len(list) /\ Len(list) \in Nat
      BY <3>1, <3>2, LenProperties
    <3>4. Len(list) = 2
      BY <3>3
    <3> QED BY <3>2, <3>4 DEF Last
  <2> HIDE DEF wf, list
  <2>7. \A n \in 1..2 :
          /\ list[n].sequence = n
          /\ list[n].from = IF n = 1 THEN Absent ELSE list[n - 1].to
          /\ CanTransition(list[n].from, list[n].to)
    BY <2>4, <2>5 DEF CanTransition, WorkflowTransitions, ActiveStatuses, Absent,
                      InitialStatus
  <2>8. request = [id |-> SeedWorkflow[t], ticket |-> t, action |-> SeedAction,
                   run |-> SeedRun[t], status |-> "pending", decider |-> None]
    BY <1>3 DEF SeededApproval
  <2>9. request \in RequestEntries
    BY <1>1, <1>3, <2>8 DEF RequestEntries, ApprovalStatuses
  <2>10. wf \in WorkflowEntries
    BY <1>1, <2>3 DEF WorkflowEntries, WorkflowStatuses
  <2> QED BY <1>3, <2>3, <2>5, <2>6, <2>7, <2>8, <2>9, <2>10 DEF wf, list
<1> QED BY <1>2, <1>3

\* The seed is sound.
LEMMA InitListInv == Init => ListInv
<1> SUFFICES ASSUME Init PROVE ListInv
  OBVIOUS
<1> DEFINE Wf(t) == SeededWorkflow(t)
           Request(t) == SeededApproval(t)
           Mutation(t) == [id |-> SeedWorkflow[t], ticket |-> t,
                           action |-> SeedAction, run |-> None]
           Run(t) == [id |-> SeedRun[t], ticket |-> t, key |-> None,
                      workflow |-> SeedWorkflow[t], status |-> "completed"]
           List(t) == SeededMoves(t)
<1>1. /\ \A wf \in workflows : \E t \in Seeded : wf = Wf(t)
      /\ \A t \in Seeded : Wf(t) \in workflows
      /\ \A request \in approvals : \E t \in Seeded : request = Request(t)
      /\ \A t \in Seeded : Request(t) \in approvals
      /\ \A r \in runs : \E t \in DemoTickets : r = Run(t)
      /\ \A m \in mutations : \E t \in HistoryTickets : m = Mutation(t)
      /\ \A t \in HistoryTickets : Mutation(t) \in mutations
  BY DEF Init
<1>2. \A t \in Seeded :
        /\ t \in Tickets /\ SeedWorkflow[t] \in WorkflowIds
        /\ t \in DemoTickets <=> t \notin HistoryTickets
        /\ \A u \in Seeded : SeedWorkflow[t] = SeedWorkflow[u] => t = u
  BY SeedAssumption DEF Seeded
<1>3. \A t \in HistoryTickets :
        /\ t \in Seeded /\ Mutation(t) \in MutationEntries
        /\ Mutation(t).id = SeedWorkflow[t] /\ Mutation(t).ticket = t
        /\ Mutation(t).action = SeedAction /\ Mutation(t).run = None
  BY SeedAssumption DEF Seeded, MutationEntries
<1>4. \A t \in DemoTickets :
        /\ t \in Seeded /\ Run(t) \in RunEntries /\ Run(t).id = SeedRun[t]
        /\ Run(t).ticket = t /\ Run(t).workflow = SeedWorkflow[t]
        /\ \A u \in DemoTickets : SeedRun[t] = SeedRun[u] => t = u
  BY SeedAssumption DEF Seeded, RunEntries, RunStatuses
<1>5. \A t \in Seeded :
        /\ Wf(t) \in WorkflowEntries /\ Wf(t).id = SeedWorkflow[t] /\ Wf(t).ticket = t
        /\ Wf(t).cycle = 1 /\ Wf(t).sequence >= 1
        /\ Wf(t).status = IF t \in HistoryTickets THEN "mock_executed"
                          ELSE "awaiting_approval"
        /\ List(t) \in Seq(MoveEntries) /\ Len(List(t)) = Wf(t).sequence
        /\ Last(List(t)).to = Wf(t).status
        /\ \A n \in 1..Len(List(t)) :
             /\ List(t)[n].sequence = n
             /\ List(t)[n].from = IF n = 1 THEN Absent ELSE List(t)[n - 1].to
             /\ CanTransition(List(t)[n].from, List(t)[n].to)
        /\ Request(t) \in RequestEntries /\ Request(t).id = SeedWorkflow[t]
        /\ Request(t).ticket = t /\ Request(t).action = SeedAction
        /\ Request(t).run = IF t \in HistoryTickets THEN None ELSE SeedRun[t]
        /\ Request(t).status = IF t \in HistoryTickets THEN "approved" ELSE "pending"
  BY SeededRows
<1>6. /\ moves \in [WorkflowIds -> Seq(MoveEntries)]
      /\ \A t \in Seeded : moves[SeedWorkflow[t]] = List(t)
      /\ \A w \in WorkflowIds : (\A t \in Seeded : SeedWorkflow[t] # w) => moves[w] = << >>
  <2>1. moves = [w \in WorkflowIds |->
          IF \E t \in Seeded : SeedWorkflow[t] = w
          THEN List(CHOOSE t \in Seeded : SeedWorkflow[t] = w) ELSE << >>]
    BY DEF Init
  <2>2. ASSUME NEW t \in Seeded
        PROVE  (CHOOSE u \in Seeded : SeedWorkflow[u] = SeedWorkflow[t]) = t
    BY <1>2
  <2>3. \A t \in Seeded : moves[SeedWorkflow[t]] = List(t)
    <3> HIDE DEF List
    <3> QED BY <2>1, <2>2, <1>2
  <2>4. \A w \in WorkflowIds : (\A t \in Seeded : SeedWorkflow[t] # w) => moves[w] = << >>
    <3> HIDE DEF List
    <3> QED BY <2>1
  <2>5. ASSUME NEW w \in WorkflowIds
        PROVE  moves[w] \in Seq(MoveEntries)
    <3>1. << >> \in Seq(MoveEntries)
      OBVIOUS
    <3>2. CASE \E t \in Seeded : SeedWorkflow[t] = w
      <4>1. PICK t \in Seeded : SeedWorkflow[t] = w
        BY <3>2
      <4>2. moves[w] = List(t) /\ List(t) \in Seq(MoveEntries)
        <5> HIDE DEF List
        <5> QED BY <4>1, <2>3, <1>5
      <4> QED BY <4>2
    <3>3. CASE ~\E t \in Seeded : SeedWorkflow[t] = w
      BY <3>1, <3>3, <2>4
    <3> QED BY <3>2, <3>3
  <2>6. moves = [w \in WorkflowIds |-> moves[w]]
    <3> HIDE DEF List
    <3> QED BY <2>1
  <2>7. moves \in [WorkflowIds -> Seq(MoveEntries)]
    BY <2>5, <2>6
  <2> QED BY <2>3, <2>4, <2>7
<1> HIDE DEF Wf, Request, Mutation, Run, List
<1>7. ListsAreSound
  <2>1. /\ workflows \in SUBSET WorkflowEntries /\ runs \in SUBSET RunEntries
        /\ approvals \in SUBSET RequestEntries /\ mutations \in SUBSET MutationEntries
    BY <1>1, <1>3, <1>4, <1>5
  <2>2. OneRowPerId(workflows) /\ \A wf \in workflows : wf.sequence >= 1
    BY <1>1, <1>2, <1>5 DEF OneRowPerId
  <2>3. OneRowPerId(runs)
    BY <1>1, <1>4 DEF OneRowPerId
  <2>4. OneRowPerId(approvals)
    BY <1>1, <1>2, <1>5 DEF OneRowPerId
  <2>5. OneRowPerId(mutations)
    BY <1>1, <1>2, <1>3 DEF OneRowPerId
  <2>6. ASSUME NEW t \in Tickets
        PROVE  \E n \in {0} \cup {wf.cycle : wf \in WorkflowsOf(t)} :
                 \A wf \in WorkflowsOf(t) : wf.cycle <= n
    <3>1. \A wf \in WorkflowsOf(t) : wf.cycle = 1
      BY <1>1, <1>5 DEF WorkflowsOf
    <3>2. CASE WorkflowsOf(t) = {}
      BY <3>2
    <3>3. CASE WorkflowsOf(t) # {}
      <4>1. 1 \in {wf.cycle : wf \in WorkflowsOf(t)}
        BY <3>1, <3>3
      <4> QED BY <3>1, <4>1
    <3> QED BY <3>2, <3>3
  <2> QED BY <1>6, <2>1, <2>2, <2>3, <2>4, <2>5, <2>6 DEF ListsAreSound
<1>8. ListsAgree
  <2>1. \A w \in WorkflowIds : ~Known(w) => moves[w] = << >>
    BY <1>1, <1>5, <1>6 DEF Known
  <2>2. \A r \in runs : \E wf \in workflows : wf.id = r.workflow /\ wf.ticket = r.ticket
    BY <1>1, <1>4, <1>5
  <2>3. ASSUME NEW request \in approvals, NEW wf \in workflows, wf.id = request.id
        PROVE  wf.ticket = request.ticket /\ wf.status = StatusBehind(request)
    <3>1. PICK t \in Seeded : request = Request(t)
      BY <1>1
    <3>2. wf = Wf(t)
      BY <3>1, <2>3, <1>1, <1>2, <1>5
    <3> QED BY <3>1, <3>2, <1>5 DEF StatusBehind
  <2>4. \A m \in mutations : \E request \in approvals :
          /\ request.id = m.id /\ request.ticket = m.ticket
          /\ request.action = m.action /\ request.run = m.run
          /\ request.status = "approved"
    BY <1>1, <1>3, <1>5
  <2>5. \A p, q \in approvals :
          /\ p.status = "pending" /\ q.status = "pending"
          /\ p.ticket = q.ticket /\ p.action = q.action
          => p = q
    BY <1>1, <1>5
  <2> QED BY <2>1, <2>2, <2>3, <2>4, <2>5 DEF ListsAgree
<1>9. MovesReplay
  <2> SUFFICES ASSUME NEW wf \in workflows
               PROVE  LET path == moves[wf.id] IN
                      /\ Len(path) = wf.sequence /\ Last(path).to = wf.status
                      /\ \A n \in 1..Len(path) :
                           /\ path[n].sequence = n
                           /\ path[n].from = IF n = 1 THEN Absent ELSE path[n - 1].to
                           /\ CanTransition(path[n].from, path[n].to)
    BY DEF MovesReplay
  <2>1. PICK t \in Seeded : wf = Wf(t)
    BY <1>1
  <2>2. moves[wf.id] = List(t)
    BY <2>1, <1>5, <1>6
  <2> QED BY <2>1, <2>2, <1>5
<1>10. MoneyOnce
  <2>1. \A m1, m2 \in mutations :
          m1.ticket = m2.ticket /\ m1.action = m2.action => m1 = m2
    BY <1>1, <1>3
  <2>2. \A request \in approvals : request.status = "pending" =>
          \A m \in mutations : m.ticket # request.ticket
    BY <1>1, <1>3, <1>5
  <2> QED BY <2>1, <2>2 DEF MoneyOnce, ExecutedFor
<1>11. HistoryIsKept
  BY <1>1, <1>3 DEF HistoryIsKept, ExecutedFor
<1> QED BY <1>7, <1>8, <1>9, <1>10, <1>11 DEF ListInv

\* Every step keeps the lists and is a command of the tables, or changes nothing.
LEMMA NextListInv ==
  ASSUME ListInv, [Next]_store
  PROVE  ListInv' /\ [CW!Next]_(CW!tables)
<1>1. CASE UNCHANGED store
  <2>1. /\ workflows' = workflows /\ moves' = moves /\ runs' = runs
        /\ approvals' = approvals /\ mutations' = mutations
    BY <1>1 DEF store
  <2>2. ListsAreSound' /\ ListsAgree'
    BY <2>1 DEF ListInv, ListsAreSound, ListsAgree, OneRowPerId, WorkflowsOf, Known,
                StatusBehind
  <2>3. MovesReplay' /\ MoneyOnce' /\ HistoryIsKept'
    BY <2>1 DEF ListInv, MovesReplay, MoneyOnce, HistoryIsKept, ExecutedFor
  <2>4. UNCHANGED CW!tables
    BY <2>1 DEF CW!tables, WorkflowTable, LedgerTable, RunTable, ApprovalTable,
                MutationTable, Known
  <2> QED BY <2>2, <2>3, <2>4 DEF ListInv
<1>2. ASSUME NEW t \in Tickets, NEW k \in Keys, NEW r \in RunIds, StartRetry(t, k, r)
      PROVE  ListInv' /\ CW!Next
  BY <1>2, StartRetryStep
<1>3. ASSUME NEW t \in Tickets, NEW k \in Keys, NEW r \in RunIds, NEW w \in WorkflowIds,
             StartCycle(t, k, w, r)
      PROVE  ListInv' /\ CW!Next
  BY <1>3, StartCycleStep
<1>4. ASSUME NEW r \in runs, FinalizeNoAction(r)
      PROVE  ListInv' /\ CW!Next
  BY <1>4, FinalizeNoActionStep
<1>5. ASSUME NEW r \in runs, NEW a \in Actions, FinalizeForApproval(r, a)
      PROVE  ListInv' /\ CW!Next
  BY <1>5, FinalizeForApprovalStep
<1>6. ASSUME NEW r \in runs, NEW recoverable \in BOOLEAN, FailRun(r, recoverable)
      PROVE  ListInv' /\ CW!Next
  BY <1>6, FailRunStep
<1>7. ASSUME NEW role \in Roles, NEW wf \in workflows, Cancel(wf, role)
      PROVE  ListInv' /\ CW!Next
  BY <1>7, CancelStep
<1>8. ASSUME NEW role \in Roles, NEW request \in approvals,
             ApproveAndExecute(request, role)
      PROVE  ListInv' /\ CW!Next
  BY <1>8, ApproveStep
<1>9. ASSUME NEW role \in Roles, NEW request \in approvals, Reject(request, role)
      PROVE  ListInv' /\ CW!Next
  BY <1>9, RejectStep
<1>10. ASSUME NEW t \in Tickets \ DemoTickets, ResetEvalFixture(t)
       PROVE  ListInv' /\ CW!Next
  BY <1>10, ResetEvalFixtureStep
<1>11. ASSUME NEW t \in DemoTickets, ResetDemo(t)
       PROVE  ListInv' /\ CW!Next
  BY <1>11, ResetDemoStep
<1> QED BY <1>1, <1>2, <1>3, <1>4, <1>5, <1>6, <1>7, <1>8, <1>9, <1>10, <1>11 DEF Next

\* Every reachable state of the lists satisfies the list invariant.
THEOREM Invariance == Spec => []ListInv
<1>1. ListInv /\ [Next]_store => ListInv'
  BY NextListInv
<1> QED BY InitListInv, <1>1, PTL DEF Spec

\* No action of a ticket is executed twice, nor waits once it has been executed,
\* whichever workflows the resets have deleted in between.
THEOREM MoneyMovesOnce == Spec => []MoneyOnce
<1>1. ListInv => MoneyOnce
  BY DEF ListInv
<1> QED BY <1>1, Invariance, PTL

\* The executed action an eval fixture is seeded with is there in every state.
THEOREM HistorySurvives == Spec => []HistoryIsKept
<1>1. ListInv => HistoryIsKept
  BY DEF ListInv
<1> QED BY <1>1, Invariance, PTL

\* The listed moves of every workflow are legal and lead to its status.
THEOREM MovesExplainStatus == Spec => []MovesReplay
<1>1. ListInv => MovesReplay
  BY DEF ListInv
<1> QED BY <1>1, Invariance, PTL

\* Whatever the in-memory repository does to its lists, the SQL repository may
\* do to its tables.
THEOREM ListsImplementCommands == Spec => ImplementsCommands
<1>1. ListInv /\ [Next]_store => [CW!Next]_(CW!tables)
  BY NextListInv
<1> QED BY <1>1, Invariance, PTL DEF Spec, ImplementsCommands
=============================================================================
