----------------------- MODULE WorkflowSessionsProofs -----------------------
(***************************************************************************)
(* WorkflowSessions, proved for any number of sessions, tickets, keys,     *)
(* actions and rows, and in the second half ResetSessions: a reset that    *)
(* deletes table by table is one atomic step of the tables, and commands   *)
(* deadlock with nobody but it.                                            *)
(***************************************************************************)
EXTENDS ResetSessions, CaseWorkflowProofs, WellFoundedInduction

-----------------------------------------------------------------------------
(* Who holds which row locks, step by step.                                *)

\* The steps between a command's lock on its workflow and its end.
WorkflowLocked ==
  {"lock_run", "check_end", "commit_end", "lock_pending", "lock_running",
   "commit_cancel", "lock_approval", "check_approve", "commit_approve",
   "commit_reject"}

Labels ==
  WorkflowLocked \cup
  {"idle", "answered", "lookup", "select_active", "lock_active", "use_active",
   "select_previous", "insert_cycle", "reread", "read_run", "lock_workflow",
   "read_approval"}

\* The locks a session holds, by the step it is at.
Holds(s, row) ==
  \/ at[s] = "use_active" /\ row = WorkflowRow(seen[s].target)
  \/ at[s] \in WorkflowLocked /\ row = WorkflowRow(cmd[s].workflow)
  \/ at[s] \in {"check_end", "commit_end"} /\ row = RunRow(cmd[s].run)
  \/ /\ at[s] \in {"check_approve", "commit_approve", "commit_reject"}
     /\ row = ApprovalRow(cmd[s].workflow)
  \/ /\ at[s] \in {"lock_running", "commit_cancel"}
     /\ \E w \in seen[s].pending : row = ApprovalRow(w)
  \/ /\ at[s] = "commit_cancel"
     /\ \E r \in seen[s].running : row = RunRow(r)

LocksFollowSteps ==
  \A s \in Sessions, row \in Rows : holder[row] = s <=> Holds(s, row)

\* What the ORM session holds in memory, whatever rows it has read.
IsMemory(m) ==
  m = [workflow |-> m.workflow, run |-> m.run, approval |-> m.approval,
       pending |-> m.pending, running |-> m.running, target |-> m.target]
Memory(s) == IsMemory(seen[s])

\* The rows a command goes on to lock are rows there are.
RowsAreKnown(s) ==
  /\ at[s] = "idle" => seen[s] = NothingSeen
  /\ at[s] \in {"lock_active", "use_active"} => seen[s].target \in WorkflowIds
  /\ at[s] \in WorkflowLocked \cup {"read_run", "lock_workflow", "read_approval"} =>
       cmd[s].workflow \in WorkflowIds
  /\ at[s] \in {"read_run", "lock_run", "check_end", "commit_end"} =>
       cmd[s].op = "end" /\ cmd[s].run \in RunIds
  /\ at[s] = "lock_workflow" =>
       IF cmd[s].op = "end" THEN cmd[s].run \in RunIds
       ELSE seen[s].pending = {} /\ seen[s].running = {}
  /\ at[s] = "read_approval" =>
       cmd[s].op # "end" /\ seen[s].pending = {} /\ seen[s].running = {}
  /\ at[s] = "lock_pending" => seen[s].pending = {} /\ seen[s].running = {}
  /\ at[s] = "lock_running" =>
       seen[s].pending \subseteq {cmd[s].workflow} /\ seen[s].running = {}
  /\ at[s] = "commit_cancel" => seen[s].pending \subseteq {cmd[s].workflow}

LockInv ==
  /\ at \in [Sessions -> Labels]
  /\ cmd = [s \in Sessions |-> cmd[s]]
  /\ seen = [s \in Sessions |-> seen[s]]
  /\ answer = [s \in Sessions |-> answer[s]]
  /\ holder = [row \in Rows |-> holder[row]]
  /\ \A s \in Sessions : Memory(s) /\ RowsAreKnown(s)
  /\ LocksFollowSteps

RunsNameWorkflows ==
  \A r \in RunIds : RunExists(r) => run[r].workflow \in WorkflowIds

\* Nothing happens to the sessions but s.
OthersWait(s) ==
  \A q \in Sessions \ {s} :
    at'[q] = at[q] /\ cmd'[q] = cmd[q] /\ seen'[q] = seen[q] /\ answer'[q] = answer[q]

\* Only s takes and releases locks.
OthersLocks(s) ==
  \A row \in Rows : \/ holder'[row] = holder[row]
                    \/ /\ holder[row] \in {None, s}
                       /\ holder'[row] \in {None, s}

\* Then every session holds the locks of its step.
LEMMA LocksKept ==
  ASSUME LockInv, NEW s \in Sessions, OthersWait(s),
         \A row \in Rows : holder'[row] = s <=> Holds(s, row)',
         OthersLocks(s)
  PROVE  LocksFollowSteps'
BY SessionsAssumption DEF LockInv, LocksFollowSteps, Holds, OthersWait, OthersLocks

\* An answer gives every lock back.
LEMMA AnswerKeepsLocks ==
  ASSUME LockInv, NEW s \in Sessions, NEW result, Answer(s, result)
  PROVE  LockInv' /\ OthersWait(s)
<1>1. /\ at' = [at EXCEPT ![s] = "answered"]
      /\ answer' = [answer EXCEPT ![s] = result]
      /\ cmd' = cmd /\ seen' = seen
      /\ holder' = [row \in Rows |-> IF holder[row] = s THEN None ELSE holder[row]]
  BY DEF Answer, GoTo, ReleaseAll
<1>2. at \in [Sessions -> Labels]
  BY DEF LockInv
<1>3. OthersWait(s)
  BY <1>1, <1>2 DEF OthersWait, LockInv
<1>4. at' \in [Sessions -> Labels] /\ at'[s] = "answered"
  BY <1>1, <1>2 DEF Labels
<1>5. LocksFollowSteps'
  <2>1. \A row \in Rows : ~Holds(s, row)'
    BY <1>4 DEF Holds, WorkflowLocked
  <2>2. \A row \in Rows : holder'[row] # s
    BY <1>1, SessionsAssumption
  <2>3. OthersLocks(s)
    BY <1>1 DEF OthersLocks
  <2> QED BY <1>3, <2>1, <2>2, <2>3, LocksKept
<1>6. \A q \in Sessions : Memory(q)' /\ RowsAreKnown(q)'
  BY <1>1, <1>3, <1>4 DEF LockInv, Memory, RowsAreKnown, OthersWait, WorkflowLocked
<1> QED BY <1>1, <1>3, <1>4, <1>5, <1>6 DEF LockInv

\* A step from one lock-free stretch or locked stretch into the next.
LEMMA ReadKeepsLocks ==
  ASSUME LockInv, NEW s \in Sessions, NEW rows, NEW step \in Labels, Read(s, rows, step),
         Memory(s)', RowsAreKnown(s)',
         holder' = [row \in Rows |-> holder'[row]],
         \A row \in Rows : holder'[row] = s <=> Holds(s, row)',
         OthersLocks(s)
  PROVE  LockInv' /\ OthersWait(s)
<1>1. /\ at' = [at EXCEPT ![s] = step]
      /\ seen' = [seen EXCEPT ![s] = rows]
      /\ cmd' = cmd /\ answer' = answer
  BY DEF Read, GoTo
<1>2. OthersWait(s) /\ seen'[s] = rows
  BY <1>1 DEF OthersWait, LockInv
<1>3. LocksFollowSteps'
  BY <1>2, LocksKept
<1>4. \A q \in Sessions : Memory(q)' /\ RowsAreKnown(q)'
  BY <1>1, <1>2 DEF LockInv, Memory, RowsAreKnown, OthersWait
<1> QED BY <1>1, <1>2, <1>3, <1>4 DEF LockInv

\* The commands there are, and their first steps.
Called(command, step) ==
  /\ step \in {"lookup", "read_run", "lock_workflow", "read_approval"}
  /\ step # "lookup" => command.workflow \in WorkflowIds
  /\ step = "read_run" => command.op = "end" /\ command.run \in RunIds
  /\ step \in {"lock_workflow", "read_approval"} => command.op # "end"

\* A call begins without a lock and without anything in memory.
LEMMA CallKeepsLocks ==
  ASSUME LockInv, RunsNameWorkflows, NEW s \in Sessions, Call(s)
  PROVE  LockInv' /\ OthersWait(s)
<1>1. PICK command, step : Begin(s, command, step) /\ Called(command, step)
  <2>1. ASSUME NEW t \in Tickets, NEW k \in Keys, CallStart(s, t, k)
        PROVE  \E command, step : Begin(s, command, step) /\ Called(command, step)
    <3>1. Called([op |-> "start", ticket |-> t, key |-> k], "lookup")
      BY DEF Called
    <3> QED BY <2>1, <3>1 DEF CallStart
  <2>2. ASSUME NEW r \in RunIds, NEW target, NEW a, CallEnd(s, r, target, a)
        PROVE  \E command, step : Begin(s, command, step) /\ Called(command, step)
    <3>1. Called([op |-> "end", run |-> r, workflow |-> run[r].workflow,
                  target |-> target, action |-> a], "read_run")
      BY <2>2 DEF Called, CallEnd, RunsNameWorkflows
    <3> QED BY <2>2, <3>1 DEF CallEnd
  <2>3. ASSUME NEW w \in WorkflowIds, NEW role \in Roles, CallCancel(s, w, role)
        PROVE  \E command, step : Begin(s, command, step) /\ Called(command, step)
    <3>1. Called([op |-> "cancel", workflow |-> w, role |-> role], "lock_workflow")
      BY DEF Called
    <3> QED BY <2>3, <3>1 DEF CallCancel
  <2>4. ASSUME NEW w \in WorkflowIds, NEW role \in Roles,
               NEW decision \in {"approve", "reject"}, CallDecide(s, w, role, decision)
        PROVE  \E command, step : Begin(s, command, step) /\ Called(command, step)
    <3>1. Called([op |-> decision, workflow |-> w, role |-> role], "read_approval")
      BY DEF Called
    <3> QED BY <2>4, <3>1 DEF CallDecide
  <2> QED BY <2>1, <2>2, <2>3, <2>4 DEF Call
<1>2. /\ step \in {"lookup", "read_run", "lock_workflow", "read_approval"}
      /\ step \in {"read_run", "lock_workflow", "read_approval"} =>
           command.workflow \in WorkflowIds
      /\ step = "read_run" => command.op = "end" /\ command.run \in RunIds
      /\ step \in {"lock_workflow", "read_approval"} => command.op # "end"
  BY <1>1 DEF Called
<1>3. /\ at[s] = "idle" /\ at' = [at EXCEPT ![s] = step]
      /\ cmd' = [cmd EXCEPT ![s] = command]
      /\ UNCHANGED <<seen, answer, holder>>
  BY <1>1 DEF Begin, GoTo
<1>4. OthersWait(s) /\ at'[s] = step /\ cmd'[s] = command /\ at' \in [Sessions -> Labels]
  BY <1>2, <1>3 DEF OthersWait, LockInv, Labels
<1>5. LocksFollowSteps'
  <2>1. \A row \in Rows : ~Holds(s, row) /\ ~Holds(s, row)'
    BY <1>2, <1>3, <1>4 DEF Holds, WorkflowLocked
  <2>2. \A row \in Rows : holder'[row] # s
    BY <1>3, <2>1 DEF LockInv, LocksFollowSteps
  <2>3. OthersLocks(s)
    BY <1>3 DEF OthersLocks
  <2> QED BY <1>4, <2>1, <2>2, <2>3, LocksKept
<1>6. Memory(s)' /\ RowsAreKnown(s)'
  BY <1>2, <1>3, <1>4 DEF LockInv, Memory, RowsAreKnown, NothingSeen, WorkflowLocked
<1>7. \A q \in Sessions \ {s} : Memory(q)' /\ RowsAreKnown(q)'
  BY <1>3, <1>4 DEF LockInv, Memory, RowsAreKnown, OthersWait
<1> QED BY <1>3, <1>4, <1>5, <1>6, <1>7 DEF LockInv

\* A session that goes away takes its locks with it.
LEMMA CloseKeepsLocks ==
  ASSUME LockInv, NEW s \in Sessions, Close(s)
  PROVE  LockInv' /\ OthersWait(s)
<1>1. /\ at' = [at EXCEPT ![s] = "idle"]
      /\ cmd' = [cmd EXCEPT ![s] = NoCommand]
      /\ seen' = [seen EXCEPT ![s] = NothingSeen]
      /\ answer' = [answer EXCEPT ![s] = None]
      /\ holder' = [row \in Rows |-> IF holder[row] = s THEN None ELSE holder[row]]
  BY DEF Close, GoTo, ReleaseAll
<1>2. /\ OthersWait(s) /\ at' \in [Sessions -> Labels]
      /\ at'[s] = "idle" /\ seen'[s] = NothingSeen
  BY <1>1 DEF OthersWait, LockInv, Labels
<1>3. LocksFollowSteps'
  <2>1. \A row \in Rows : ~Holds(s, row)'
    BY <1>2 DEF Holds, WorkflowLocked
  <2>2. \A row \in Rows : holder'[row] # s
    BY <1>1, SessionsAssumption
  <2>3. OthersLocks(s)
    BY <1>1 DEF OthersLocks
  <2> QED BY <1>2, <2>1, <2>2, <2>3, LocksKept
<1>4. Memory(s)' /\ RowsAreKnown(s)'
  BY <1>2 DEF Memory, IsMemory, RowsAreKnown, NothingSeen, WorkflowLocked
<1>5. \A q \in Sessions \ {s} : Memory(q)' /\ RowsAreKnown(q)'
  BY <1>2 DEF LockInv, Memory, RowsAreKnown, OthersWait
<1> QED BY <1>1, <1>2, <1>3, <1>4, <1>5 DEF LockInv

\* A step that takes no lock.
LEMMA QuietReadKeepsLocks ==
  ASSUME LockInv, NEW s \in Sessions, NEW rows, NEW step \in Labels, Read(s, rows, step),
         Memory(s)', RowsAreKnown(s)', holder' = holder,
         \A row \in Rows : Holds(s, row)' <=> Holds(s, row)
  PROVE  LockInv' /\ OthersWait(s)
<1>1. \A row \in Rows : holder'[row] = s <=> Holds(s, row)'
  BY DEF LockInv, LocksFollowSteps
<1>2. OthersLocks(s) /\ holder' = [row \in Rows |-> holder'[row]]
  BY DEF OthersLocks, LockInv
<1> QED BY <1>1, <1>2, ReadKeepsLocks

\* A step that takes one.
LEMMA LockingReadKeepsLocks ==
  ASSUME LockInv, NEW s \in Sessions, NEW rows, NEW step \in Labels, Read(s, rows, step),
         Memory(s)', RowsAreKnown(s)',
         NEW mine \in Rows, Free(s, mine), Lock(s, mine),
         \A row \in Rows : Holds(s, row)' <=> Holds(s, row) \/ row = mine
  PROVE  LockInv' /\ OthersWait(s)
<1>1. holder' = [holder EXCEPT ![mine] = s]
  BY DEF Lock
<1>2. \A row \in Rows : holder'[row] = s <=> Holds(s, row)'
  BY <1>1 DEF LockInv, LocksFollowSteps
<1>3. OthersLocks(s) /\ holder' = [row \in Rows |-> holder'[row]]
  BY <1>1 DEF OthersLocks, LockInv, Free
<1> QED BY <1>2, <1>3, ReadKeepsLocks

\* A step that takes one step's locks to none, the savepoint rolled back.
LEMMA RollbackKeepsLocks ==
  ASSUME LockInv, NEW s \in Sessions, Read(s, seen[s], "reread"), ReleaseAll(s)
  PROVE  LockInv' /\ OthersWait(s)
<1>1. /\ at' = [at EXCEPT ![s] = "reread"] /\ at'[s] = "reread"
      /\ holder' = [row \in Rows |-> IF holder[row] = s THEN None ELSE holder[row]]
  BY DEF Read, GoTo, ReleaseAll, LockInv
<1>2. \A row \in Rows : holder'[row] # s /\ ~Holds(s, row)'
  BY <1>1, SessionsAssumption DEF Holds, WorkflowLocked
<1>3. OthersLocks(s) /\ holder' = [row \in Rows |-> holder'[row]]
  BY <1>1 DEF OthersLocks
<1>4. RowsAreKnown(s)' /\ "reread" \in Labels
  BY <1>1 DEF RowsAreKnown, WorkflowLocked, Labels
<1>5. Memory(s)'
  BY DEF LockInv, Memory, Read
<1> QED BY <1>2, <1>3, <1>4, <1>5, ReadKeepsLocks

\* What a reading step leaves in memory: what was read replaces what was known.
LEMMA ReadEffect ==
  ASSUME LockInv, NEW s \in Sessions, NEW rows, NEW step, Read(s, rows, step)
  PROVE  /\ at'[s] = step /\ seen'[s] = rows /\ cmd'[s] = cmd[s]
         /\ Memory(s) /\ RowsAreKnown(s)
BY DEF LockInv, Read, GoTo

\* A step that reads nothing new.
LEMMA ReadNothing ==
  ASSUME LockInv, NEW s \in Sessions, NEW step, Read(s, seen[s], step)
  PROVE  /\ at'[s] = step /\ cmd'[s] = cmd[s] /\ RowsAreKnown(s)
         /\ Memory(s)' /\ seen'[s] = seen[s]
BY ReadEffect DEF Memory

\* A step that reads the workflow row.
LEMMA ReadWorkflow ==
  ASSUME LockInv, NEW s \in Sessions, NEW row, NEW step,
         Read(s, [seen[s] EXCEPT !.workflow = row], step)
  PROVE  /\ at'[s] = step /\ cmd'[s] = cmd[s] /\ RowsAreKnown(s)
         /\ Memory(s)' /\ seen'[s].workflow = row /\ seen'[s].run = seen[s].run
         /\ seen'[s].approval = seen[s].approval /\ seen'[s].pending = seen[s].pending
         /\ seen'[s].running = seen[s].running /\ seen'[s].target = seen[s].target
<1> DEFINE old == seen[s]
           new == seen'[s]
<1>1. /\ at'[s] = step /\ cmd'[s] = cmd[s] /\ RowsAreKnown(s)
      /\ new = [old EXCEPT !.workflow = row] /\ IsMemory(old)
  BY ReadEffect DEF Memory
<1> HIDE DEF old, new
<1>2. /\ IsMemory(new) /\ new.workflow = row /\ new.run = old.run
      /\ new.approval = old.approval /\ new.pending = old.pending
      /\ new.running = old.running /\ new.target = old.target
  BY <1>1 DEF IsMemory
<1> QED BY <1>1, <1>2 DEF Memory, old, new

\* A step that finds the ticket's active workflow.
LEMMA ReadTarget ==
  ASSUME LockInv, NEW s \in Sessions, NEW row, NEW step,
         Read(s, [seen[s] EXCEPT !.target = row], step)
  PROVE  /\ at'[s] = step /\ cmd'[s] = cmd[s] /\ RowsAreKnown(s)
         /\ Memory(s)' /\ seen'[s].workflow = seen[s].workflow /\ seen'[s].run = seen[s].run
         /\ seen'[s].approval = seen[s].approval /\ seen'[s].pending = seen[s].pending
         /\ seen'[s].running = seen[s].running /\ seen'[s].target = row
<1> DEFINE old == seen[s]
           new == seen'[s]
<1>1. /\ at'[s] = step /\ cmd'[s] = cmd[s] /\ RowsAreKnown(s)
      /\ new = [old EXCEPT !.target = row] /\ IsMemory(old)
  BY ReadEffect DEF Memory
<1> HIDE DEF old, new
<1>2. /\ IsMemory(new) /\ new.workflow = old.workflow /\ new.run = old.run
      /\ new.approval = old.approval /\ new.pending = old.pending
      /\ new.running = old.running /\ new.target = row
  BY <1>1 DEF IsMemory
<1> QED BY <1>1, <1>2 DEF Memory, old, new

\* A step that reads the run row.
LEMMA ReadOfRun ==
  ASSUME LockInv, NEW s \in Sessions, NEW row, NEW step,
         Read(s, [seen[s] EXCEPT !.run = row], step)
  PROVE  /\ at'[s] = step /\ cmd'[s] = cmd[s] /\ RowsAreKnown(s)
         /\ Memory(s)' /\ seen'[s].workflow = seen[s].workflow /\ seen'[s].run = row
         /\ seen'[s].approval = seen[s].approval /\ seen'[s].pending = seen[s].pending
         /\ seen'[s].running = seen[s].running /\ seen'[s].target = seen[s].target
<1> DEFINE old == seen[s]
           new == seen'[s]
<1>1. /\ at'[s] = step /\ cmd'[s] = cmd[s] /\ RowsAreKnown(s)
      /\ new = [old EXCEPT !.run = row] /\ IsMemory(old)
  BY ReadEffect DEF Memory
<1> HIDE DEF old, new
<1>2. /\ IsMemory(new) /\ new.workflow = old.workflow /\ new.run = row
      /\ new.approval = old.approval /\ new.pending = old.pending
      /\ new.running = old.running /\ new.target = old.target
  BY <1>1 DEF IsMemory
<1> QED BY <1>1, <1>2 DEF Memory, old, new

\* A step that reads the approval row.
LEMMA ReadOfApproval ==
  ASSUME LockInv, NEW s \in Sessions, NEW row, NEW step,
         Read(s, [seen[s] EXCEPT !.approval = row], step)
  PROVE  /\ at'[s] = step /\ cmd'[s] = cmd[s] /\ RowsAreKnown(s)
         /\ Memory(s)' /\ seen'[s].workflow = seen[s].workflow /\ seen'[s].run = seen[s].run
         /\ seen'[s].approval = row /\ seen'[s].pending = seen[s].pending
         /\ seen'[s].running = seen[s].running /\ seen'[s].target = seen[s].target
<1> DEFINE old == seen[s]
           new == seen'[s]
<1>1. /\ at'[s] = step /\ cmd'[s] = cmd[s] /\ RowsAreKnown(s)
      /\ new = [old EXCEPT !.approval = row] /\ IsMemory(old)
  BY ReadEffect DEF Memory
<1> HIDE DEF old, new
<1>2. /\ IsMemory(new) /\ new.workflow = old.workflow /\ new.run = old.run
      /\ new.approval = row /\ new.pending = old.pending
      /\ new.running = old.running /\ new.target = old.target
  BY <1>1 DEF IsMemory
<1> QED BY <1>1, <1>2 DEF Memory, old, new

\* A step that reads the workflow's pending requests.
LEMMA ReadPending ==
  ASSUME LockInv, NEW s \in Sessions, NEW row, NEW step,
         Read(s, [seen[s] EXCEPT !.pending = row], step)
  PROVE  /\ at'[s] = step /\ cmd'[s] = cmd[s] /\ RowsAreKnown(s)
         /\ Memory(s)' /\ seen'[s].workflow = seen[s].workflow /\ seen'[s].run = seen[s].run
         /\ seen'[s].approval = seen[s].approval /\ seen'[s].pending = row
         /\ seen'[s].running = seen[s].running /\ seen'[s].target = seen[s].target
<1> DEFINE old == seen[s]
           new == seen'[s]
<1>1. /\ at'[s] = step /\ cmd'[s] = cmd[s] /\ RowsAreKnown(s)
      /\ new = [old EXCEPT !.pending = row] /\ IsMemory(old)
  BY ReadEffect DEF Memory
<1> HIDE DEF old, new
<1>2. /\ IsMemory(new) /\ new.workflow = old.workflow /\ new.run = old.run
      /\ new.approval = old.approval /\ new.pending = row
      /\ new.running = old.running /\ new.target = old.target
  BY <1>1 DEF IsMemory
<1> QED BY <1>1, <1>2 DEF Memory, old, new

\* A step that reads the workflow's running runs.
LEMMA ReadRunning ==
  ASSUME LockInv, NEW s \in Sessions, NEW row, NEW step,
         Read(s, [seen[s] EXCEPT !.running = row], step)
  PROVE  /\ at'[s] = step /\ cmd'[s] = cmd[s] /\ RowsAreKnown(s)
         /\ Memory(s)' /\ seen'[s].workflow = seen[s].workflow /\ seen'[s].run = seen[s].run
         /\ seen'[s].approval = seen[s].approval /\ seen'[s].pending = seen[s].pending
         /\ seen'[s].running = row /\ seen'[s].target = seen[s].target
<1> DEFINE old == seen[s]
           new == seen'[s]
<1>1. /\ at'[s] = step /\ cmd'[s] = cmd[s] /\ RowsAreKnown(s)
      /\ new = [old EXCEPT !.running = row] /\ IsMemory(old)
  BY ReadEffect DEF Memory
<1> HIDE DEF old, new
<1>2. /\ IsMemory(new) /\ new.workflow = old.workflow /\ new.run = old.run
      /\ new.approval = old.approval /\ new.pending = old.pending
      /\ new.running = row /\ new.target = old.target
  BY <1>1 DEF IsMemory
<1> QED BY <1>1, <1>2 DEF Memory, old, new

\* The steps of start_or_replay_run.
LEMMA StartKeepsLocks ==
  ASSUME LockInv, NEW s \in Sessions,
         \/ Lookup(s) \/ SelectActive(s) \/ LockActive(s) \/ UseActive(s)
         \/ SelectPrevious(s) \/ InsertNewCycle(s) \/ Reread(s)
  PROVE  LockInv' /\ OthersWait(s)
<1>1. CASE Lookup(s)
  <2>1. CASE Replay(s)
    BY <2>1, AnswerKeepsLocks DEF Replay, Reply
  <2>2. CASE Read(s, seen[s], "select_active") /\ holder' = holder
    <3>1. at[s] = "lookup"
      BY <1>1 DEF Lookup
    <3>2. /\ at'[s] = "select_active" /\ cmd'[s] = cmd[s] /\ seen'[s] = seen[s]
          /\ Memory(s)' /\ RowsAreKnown(s)
      BY <2>2, ReadNothing
    <3>3. RowsAreKnown(s)' /\ \A row \in Rows : Holds(s, row)' <=> Holds(s, row)
      BY <3>1, <3>2 DEF RowsAreKnown, Holds, WorkflowLocked
    <3> QED BY <2>2, <3>2, <3>3, QuietReadKeepsLocks DEF Labels
  <2> QED BY <1>1, <2>1, <2>2 DEF Lookup
<1>2. CASE SelectActive(s)
  <2>1. at[s] = "select_active"
    BY <1>2 DEF SelectActive
  <2>2. CASE Read(s, seen[s], "select_previous") /\ holder' = holder
    <3>1. /\ at'[s] = "select_previous" /\ cmd'[s] = cmd[s] /\ seen'[s] = seen[s]
          /\ Memory(s)' /\ RowsAreKnown(s)
      BY <2>2, ReadNothing
    <3>2. RowsAreKnown(s)' /\ \A row \in Rows : Holds(s, row)' <=> Holds(s, row)
      BY <2>1, <3>1 DEF RowsAreKnown, Holds, WorkflowLocked
    <3> QED BY <2>2, <3>1, <3>2, QuietReadKeepsLocks DEF Labels
  <2>3. ASSUME NEW w \in WorkflowIds, holder' = holder,
               Read(s, [seen[s] EXCEPT !.target = w], "lock_active")
        PROVE  LockInv' /\ OthersWait(s)
    <3>1. /\ at'[s] = "lock_active" /\ cmd'[s] = cmd[s] /\ seen'[s].target = w
          /\ Memory(s)' /\ RowsAreKnown(s)
      BY <2>3, ReadTarget
    <3>2. RowsAreKnown(s)' /\ \A row \in Rows : Holds(s, row)' <=> Holds(s, row)
      BY <2>1, <3>1 DEF RowsAreKnown, Holds, WorkflowLocked
    <3> QED BY <2>3, <3>1, <3>2, QuietReadKeepsLocks DEF Labels
  <2> QED BY <1>2, <2>2, <2>3 DEF SelectActive, WorkflowsOf
<1>3. CASE LockActive(s)
  <2> DEFINE w == seen[s].target
  <2>1. at[s] = "lock_active" /\ w \in WorkflowIds
    BY <1>3 DEF LockActive, LockInv, RowsAreKnown
  <2>2. CASE /\ Lock(s, WorkflowRow(w)) /\ Free(s, WorkflowRow(w))
             /\ Read(s, [seen[s] EXCEPT !.workflow = workflow[w]], "use_active")
    <3>1. /\ at'[s] = "use_active" /\ cmd'[s] = cmd[s] /\ seen'[s].target = w
          /\ Memory(s)' /\ RowsAreKnown(s)
      BY <2>2, ReadWorkflow
    <3>2. WorkflowRow(w) \in Rows
      BY <2>1 DEF WorkflowRow, Rows
    <3> HIDE DEF w
    <3>3. /\ RowsAreKnown(s)'
          /\ \A row \in Rows : Holds(s, row)' <=> Holds(s, row) \/ row = WorkflowRow(w)
      BY <2>1, <3>1 DEF RowsAreKnown, Holds, WorkflowLocked
    <3> QED BY <2>2, <3>1, <3>2, <3>3, LockingReadKeepsLocks DEF Labels
  <2>3. CASE Read(s, seen[s], "select_previous") /\ holder' = holder
    <3>1. /\ at'[s] = "select_previous" /\ cmd'[s] = cmd[s] /\ seen'[s] = seen[s]
          /\ Memory(s)' /\ RowsAreKnown(s)
      BY <2>3, ReadNothing
    <3>2. RowsAreKnown(s)' /\ \A row \in Rows : Holds(s, row)' <=> Holds(s, row)
      BY <2>1, <3>1 DEF RowsAreKnown, Holds, WorkflowLocked
    <3> QED BY <2>3, <3>1, <3>2, QuietReadKeepsLocks DEF Labels
  <2> QED BY <1>3, <2>2, <2>3 DEF LockActive
<1>4. CASE UseActive(s)
  BY <1>4, AnswerKeepsLocks, RollbackKeepsLocks DEF UseActive, Replay, Reply
<1>5. CASE SelectPrevious(s)
  <2>1. at[s] = "select_previous"
    BY <1>5 DEF SelectPrevious
  <2>2. ASSUME NEW row, holder' = holder,
               Read(s, [seen[s] EXCEPT !.workflow = row], "insert_cycle")
        PROVE  LockInv' /\ OthersWait(s)
    <3>1. /\ at'[s] = "insert_cycle" /\ cmd'[s] = cmd[s]
          /\ Memory(s)' /\ RowsAreKnown(s)
      BY <2>2, ReadWorkflow
    <3>2. RowsAreKnown(s)' /\ \A held \in Rows : Holds(s, held)' <=> Holds(s, held)
      BY <2>1, <3>1 DEF RowsAreKnown, Holds, WorkflowLocked
    <3> QED BY <2>2, <3>1, <3>2, QuietReadKeepsLocks DEF Labels
  <2> QED BY <1>5, <2>2 DEF SelectPrevious
<1>6. CASE InsertNewCycle(s)
  BY <1>6, AnswerKeepsLocks, RollbackKeepsLocks DEF InsertNewCycle
<1>7. CASE Reread(s)
  BY <1>7, AnswerKeepsLocks DEF Reread, Replay, Reply
<1> QED BY <1>1, <1>2, <1>3, <1>4, <1>5, <1>6, <1>7

\* The steps of finalize_run and fail_run.
LEMMA EndKeepsLocks ==
  ASSUME LockInv, NEW s \in Sessions,
         ReadRun(s) \/ LockRun(s) \/ CheckEnd(s) \/ CommitEnd(s)
  PROVE  LockInv' /\ OthersWait(s)
<1>1. CASE ReadRun(s)
  <2>1. /\ at[s] = "read_run" /\ holder' = holder
        /\ Read(s, [seen[s] EXCEPT !.run = run[cmd[s].run]], "lock_workflow")
    BY <1>1 DEF ReadRun
  <2>2. /\ at'[s] = "lock_workflow" /\ cmd'[s] = cmd[s]
        /\ Memory(s)' /\ RowsAreKnown(s)
    BY <2>1, ReadOfRun
  <2>3. RowsAreKnown(s)' /\ \A row \in Rows : Holds(s, row)' <=> Holds(s, row)
    BY <2>1, <2>2 DEF RowsAreKnown, Holds, WorkflowLocked
  <2> QED BY <2>1, <2>2, <2>3, QuietReadKeepsLocks DEF Labels
<1>2. CASE LockRun(s)
  <2> DEFINE r == cmd[s].run
  <2>1. /\ at[s] = "lock_run" /\ Free(s, RunRow(r)) /\ Lock(s, RunRow(r))
        /\ Read(s, [seen[s] EXCEPT !.run = run[r]], "check_end")
    BY <1>2 DEF LockRun
  <2>2. /\ at'[s] = "check_end" /\ cmd'[s] = cmd[s]
        /\ Memory(s)' /\ RowsAreKnown(s)
    BY <2>1, ReadOfRun
  <2>3. RunRow(r) \in Rows
    BY <2>1, <2>2 DEF RunRow, Rows, RowsAreKnown
  <2>4. /\ RowsAreKnown(s)'
        /\ \A row \in Rows : Holds(s, row)' <=> Holds(s, row) \/ row = RunRow(r)
    BY <2>1, <2>2 DEF RowsAreKnown, Holds, WorkflowLocked
  <2> QED BY <2>1, <2>2, <2>3, <2>4, LockingReadKeepsLocks DEF Labels, WorkflowLocked
<1>3. CASE CheckEnd(s)
  <2>1. at[s] = "check_end"
    BY <1>3 DEF CheckEnd
  <2>2. CASE Read(s, seen[s], "commit_end") /\ holder' = holder
    <3>1. /\ at'[s] = "commit_end" /\ cmd'[s] = cmd[s] /\ seen'[s] = seen[s]
          /\ Memory(s)' /\ RowsAreKnown(s)
      BY <2>2, ReadNothing
    <3>2. RowsAreKnown(s)' /\ \A row \in Rows : Holds(s, row)' <=> Holds(s, row)
      BY <2>1, <3>1 DEF RowsAreKnown, Holds, WorkflowLocked
    <3> QED BY <2>2, <3>1, <3>2, QuietReadKeepsLocks DEF Labels, WorkflowLocked
  <2> QED BY <1>3, <2>2, AnswerKeepsLocks DEF CheckEnd, Reply
<1>4. CASE CommitEnd(s)
  BY <1>4, AnswerKeepsLocks DEF CommitEnd, Reply
<1> QED BY <1>1, <1>2, <1>3, <1>4

\* The steps of cancel_workflow.
LEMMA CancelKeepsLocks ==
  ASSUME LockInv, NEW s \in Sessions, LockPending(s) \/ LockRunning(s) \/ CommitCancel(s)
  PROVE  LockInv' /\ OthersWait(s)
<1>1. CASE LockPending(s)
  <2> DEFINE w == cmd[s].workflow
  <2>1. at[s] = "lock_pending" /\ w \in WorkflowIds
    BY <1>1 DEF LockPending, LockInv, RowsAreKnown, WorkflowLocked
  <2>2. CASE /\ Free(s, ApprovalRow(w)) /\ Lock(s, ApprovalRow(w))
             /\ Read(s, [seen[s] EXCEPT !.pending = {w}], "lock_running")
    <3>1. /\ at'[s] = "lock_running" /\ cmd'[s] = cmd[s] /\ seen'[s].pending = {w}
          /\ seen'[s].running = seen[s].running /\ Memory(s)' /\ RowsAreKnown(s)
      BY <2>2, ReadPending
    <3>2. ApprovalRow(w) \in Rows
      BY <2>1 DEF ApprovalRow, Rows
    <3>3. /\ RowsAreKnown(s)'
          /\ \A row \in Rows : Holds(s, row)' <=> Holds(s, row) \/ row = ApprovalRow(w)
      BY <2>1, <3>1 DEF RowsAreKnown, Holds, WorkflowLocked
    <3> QED BY <2>2, <3>1, <3>2, <3>3, LockingReadKeepsLocks DEF Labels, WorkflowLocked
  <2>3. CASE Read(s, seen[s], "lock_running") /\ holder' = holder
    <3>1. /\ at'[s] = "lock_running" /\ cmd'[s] = cmd[s] /\ seen'[s] = seen[s]
          /\ Memory(s)' /\ RowsAreKnown(s)
      BY <2>3, ReadNothing
    <3>2. RowsAreKnown(s)' /\ \A row \in Rows : Holds(s, row)' <=> Holds(s, row)
      BY <2>1, <3>1 DEF RowsAreKnown, Holds, WorkflowLocked
    <3> QED BY <2>3, <3>1, <3>2, QuietReadKeepsLocks DEF Labels, WorkflowLocked
  <2> QED BY <1>1, <2>2, <2>3 DEF LockPending
<1>2. CASE LockRunning(s)
  <2>1. at[s] = "lock_running"
    BY <1>2 DEF LockRunning
  <2>2. ASSUME NEW r \in RunIds, Free(s, RunRow(r)), Lock(s, RunRow(r)),
               Read(s, [seen[s] EXCEPT !.running = {r}], "commit_cancel")
        PROVE  LockInv' /\ OthersWait(s)
    <3>1. /\ at'[s] = "commit_cancel" /\ cmd'[s] = cmd[s] /\ seen'[s].running = {r}
          /\ seen'[s].pending = seen[s].pending /\ Memory(s)' /\ RowsAreKnown(s)
      BY <2>2, ReadRunning
    <3>2. RunRow(r) \in Rows
      BY DEF RunRow, Rows
    <3>3. /\ RowsAreKnown(s)'
          /\ \A row \in Rows : Holds(s, row)' <=> Holds(s, row) \/ row = RunRow(r)
      BY <2>1, <3>1 DEF RowsAreKnown, Holds, WorkflowLocked
    <3> QED BY <2>2, <3>1, <3>2, <3>3, LockingReadKeepsLocks DEF Labels, WorkflowLocked
  <2>3. CASE Read(s, seen[s], "commit_cancel") /\ holder' = holder
    <3>1. /\ at'[s] = "commit_cancel" /\ cmd'[s] = cmd[s] /\ seen'[s] = seen[s]
          /\ Memory(s)' /\ RowsAreKnown(s)
      BY <2>3, ReadNothing
    <3>2. RowsAreKnown(s)' /\ \A row \in Rows : Holds(s, row)' <=> Holds(s, row)
      BY <2>1, <3>1 DEF RowsAreKnown, Holds, WorkflowLocked
    <3> QED BY <2>3, <3>1, <3>2, QuietReadKeepsLocks DEF Labels, WorkflowLocked
  <2> QED BY <1>2, <2>2, <2>3 DEF LockRunning
<1>3. CASE CommitCancel(s)
  BY <1>3, AnswerKeepsLocks DEF CommitCancel
<1> QED BY <1>1, <1>2, <1>3

\* The steps of an approval or a rejection.
LEMMA DecideKeepsLocks ==
  ASSUME LockInv, NEW s \in Sessions,
         \/ ReadApproval(s) \/ LockApproval(s) \/ CheckApprove(s)
         \/ CommitApprove(s) \/ CommitReject(s)
  PROVE  LockInv' /\ OthersWait(s)
<1>1. CASE ReadApproval(s)
  <2>1. at[s] = "read_approval"
    BY <1>1 DEF ReadApproval
  <2>2. CASE /\ holder' = holder
             /\ Read(s, [seen[s] EXCEPT !.approval = approval[cmd[s].workflow]],
                     "lock_workflow")
    <3>1. /\ at'[s] = "lock_workflow" /\ cmd'[s] = cmd[s]
          /\ seen'[s].pending = seen[s].pending /\ seen'[s].running = seen[s].running
          /\ Memory(s)' /\ RowsAreKnown(s)
      BY <2>2, ReadOfApproval
    <3>2. RowsAreKnown(s)' /\ \A row \in Rows : Holds(s, row)' <=> Holds(s, row)
      BY <2>1, <3>1 DEF RowsAreKnown, Holds, WorkflowLocked
    <3> QED BY <2>2, <3>1, <3>2, QuietReadKeepsLocks DEF Labels
  <2> QED BY <1>1, <2>2, AnswerKeepsLocks DEF ReadApproval, Reply
<1>2. CASE LockApproval(s)
  <2> DEFINE w == cmd[s].workflow
             step == IF cmd[s].op = "approve" THEN "check_approve" ELSE "commit_reject"
  <2>1. /\ at[s] = "lock_approval" /\ Free(s, ApprovalRow(w)) /\ Lock(s, ApprovalRow(w))
        /\ Read(s, [seen[s] EXCEPT !.approval = approval[w]], step)
    BY <1>2 DEF LockApproval
  <2>2. step \in {"check_approve", "commit_reject"}
    OBVIOUS
  <2> HIDE DEF step
  <2>3. /\ at'[s] = step /\ cmd'[s] = cmd[s]
        /\ Memory(s)' /\ RowsAreKnown(s)
    BY <2>1, ReadOfApproval
  <2>4. ApprovalRow(w) \in Rows
    BY <2>1, <2>3 DEF ApprovalRow, Rows, RowsAreKnown, WorkflowLocked
  <2>5. /\ RowsAreKnown(s)'
        /\ \A row \in Rows : Holds(s, row)' <=> Holds(s, row) \/ row = ApprovalRow(w)
    BY <2>1, <2>2, <2>3 DEF RowsAreKnown, Holds, WorkflowLocked
  <2> QED BY <2>1, <2>2, <2>3, <2>4, <2>5, LockingReadKeepsLocks DEF Labels, WorkflowLocked
<1>3. CASE CheckApprove(s)
  <2>1. at[s] = "check_approve"
    BY <1>3 DEF CheckApprove
  <2>2. CASE Read(s, seen[s], "commit_approve") /\ holder' = holder
    <3>1. /\ at'[s] = "commit_approve" /\ cmd'[s] = cmd[s] /\ seen'[s] = seen[s]
          /\ Memory(s)' /\ RowsAreKnown(s)
      BY <2>2, ReadNothing
    <3>2. RowsAreKnown(s)' /\ \A row \in Rows : Holds(s, row)' <=> Holds(s, row)
      BY <2>1, <3>1 DEF RowsAreKnown, Holds, WorkflowLocked
    <3> QED BY <2>2, <3>1, <3>2, QuietReadKeepsLocks DEF Labels, WorkflowLocked
  <2> QED BY <1>3, <2>2, AnswerKeepsLocks DEF CheckApprove, Reply
<1>4. CASE CommitApprove(s)
  BY <1>4, AnswerKeepsLocks DEF CommitApprove, Reply
<1>5. CASE CommitReject(s)
  BY <1>5, AnswerKeepsLocks DEF CommitReject, Reply
<1> QED BY <1>1, <1>2, <1>3, <1>4, <1>5

\* The lock every command on an existing workflow takes first.
LEMMA LockWorkflowKeepsLocks ==
  ASSUME LockInv, NEW s \in Sessions, LockWorkflow(s)
  PROVE  LockInv' /\ OthersWait(s)
<1> DEFINE w == cmd[s].workflow
           step == CASE cmd[s].op = "end" -> "lock_run"
                     [] cmd[s].op = "cancel" -> "lock_pending"
                     [] OTHER -> "lock_approval"
<1>1. at[s] = "lock_workflow" /\ Free(s, WorkflowRow(w)) /\ w \in WorkflowIds
  BY DEF LockWorkflow, LockInv, RowsAreKnown
<1>2. CASE /\ Lock(s, WorkflowRow(w))
           /\ Read(s, [seen[s] EXCEPT !.workflow = workflow[w]], step)
  <2>1. IF cmd[s].op = "end" THEN step = "lock_run"
        ELSE step \in {"lock_pending", "lock_approval"}
    OBVIOUS
  <2> HIDE DEF step
  <2>2. /\ at'[s] = step /\ cmd'[s] = cmd[s]
        /\ seen'[s].pending = seen[s].pending /\ seen'[s].running = seen[s].running
        /\ Memory(s)' /\ RowsAreKnown(s)
    BY <1>2, ReadWorkflow
  <2>3. WorkflowRow(w) \in Rows
    BY <1>1 DEF WorkflowRow, Rows
  <2>4. /\ RowsAreKnown(s)'
        /\ \A row \in Rows : Holds(s, row)' <=> Holds(s, row) \/ row = WorkflowRow(w)
    BY <1>1, <2>1, <2>2 DEF RowsAreKnown, Holds, WorkflowLocked
  <2> QED BY <1>1, <1>2, <2>1, <2>2, <2>3, <2>4, LockingReadKeepsLocks
        DEF Labels, WorkflowLocked
<1> QED BY <1>2, AnswerKeepsLocks DEF LockWorkflow, Reply

\* Every step of a session: it may change its own locks only.
LEMMA StepKeepsLocks ==
  ASSUME LockInv, RunsNameWorkflows, NEW s \in Sessions,
         Call(s) \/ Proceed(s) \/ Close(s)
  PROVE  LockInv' /\ OthersWait(s)
<1>1. CASE Call(s)
  BY <1>1, CallKeepsLocks
<1>2. CASE Close(s)
  BY <1>2, CloseKeepsLocks
<1>3. CASE Proceed(s)
  BY <1>3, StartKeepsLocks, EndKeepsLocks, CancelKeepsLocks, DecideKeepsLocks,
     LockWorkflowKeepsLocks DEF Proceed
<1> QED BY <1>1, <1>2, <1>3

-----------------------------------------------------------------------------
(* Locks are taken workflow first, then approval, then run, so that no      *)
(* sessions can wait for each other in a ring.                             *)

ApprovalLocks == {ApprovalRow(w) : w \in WorkflowIds}
RunLocks == {RunRow(r) : r \in RunIds}

\* What a session waits for is a row there is.
LEMMA WaitsForRows ==
  ASSUME LockInv, NEW s \in Sessions
  PROVE  WaitsFor(s) \subseteq Rows
<1>1. RowsAreKnown(s)
  BY DEF LockInv
<1>2. CASE at[s] = "lock_workflow"
  BY <1>1, <1>2 DEF WaitsFor, RowsAreKnown, Rows, WorkflowRow
<1>3. CASE at[s] = "lock_active"
  BY <1>1, <1>3 DEF WaitsFor, RowsAreKnown, Rows, WorkflowRow
<1>4. CASE at[s] = "use_active"
  BY <1>1, <1>4 DEF WaitsFor, RunWithKey, RunsOf, Rows, RunRow
<1>5. CASE at[s] \in {"lock_approval", "lock_pending"}
  BY <1>1, <1>5 DEF WaitsFor, RowsAreKnown, WorkflowLocked, Rows, ApprovalRow
<1>6. CASE at[s] = "lock_run"
  BY <1>1, <1>6 DEF WaitsFor, RowsAreKnown, Rows, RunRow
<1>7. CASE at[s] = "lock_running"
  BY <1>1, <1>7 DEF WaitsFor, RowsAreKnown, Rows, RunRow
<1>8. CASE at[s] \notin {"lock_workflow", "lock_active", "use_active", "lock_approval",
                         "lock_pending", "lock_run", "lock_running"}
  BY <1>8 DEF WaitsFor
<1> QED BY <1>2, <1>3, <1>4, <1>5, <1>6, <1>7, <1>8

\* A session with a lock waits for rows further down only.
LEMMA LockOrder ==
  ASSUME LockInv, NEW s \in Sessions, NEW row \in Rows, holder[row] = s
  PROVE  /\ WaitsFor(s) \subseteq ApprovalLocks \cup RunLocks
         /\ row \in ApprovalLocks => WaitsFor(s) \subseteq RunLocks
         /\ row \in RunLocks => WaitsFor(s) = {}
<1>1. Holds(s, row) /\ RowsAreKnown(s)
  BY DEF LockInv, LocksFollowSteps
<1>2. CASE at[s] = "use_active"
  <2>1. WaitsFor(s) \subseteq RunLocks
    BY <1>2 DEF WaitsFor, RunWithKey, RunsOf, RunLocks
  <2>2. row \notin RunLocks
    BY <1>1, <1>2 DEF Holds, WorkflowLocked, RunLocks, WorkflowRow, RunRow
  <2> QED BY <2>1, <2>2
<1>3. CASE at[s] = "lock_run"
  BY <1>1, <1>3 DEF Holds, WaitsFor, RowsAreKnown, WorkflowRow, ApprovalLocks, RunLocks,
     ApprovalRow, RunRow
<1>4. CASE at[s] \in {"lock_pending", "lock_approval"}
  <2>1. WaitsFor(s) \subseteq ApprovalLocks
    BY <1>1, <1>4 DEF WaitsFor, RowsAreKnown, WorkflowLocked, ApprovalLocks
  <2>2. row = WorkflowRow(cmd[s].workflow)
    BY <1>1, <1>4 DEF Holds
  <2>3. row \notin ApprovalLocks \cup RunLocks
    BY <2>2 DEF ApprovalLocks, RunLocks, WorkflowRow, ApprovalRow, RunRow
  <2> QED BY <2>1, <2>3
<1>5. CASE at[s] = "lock_running"
  <2>1. WaitsFor(s) \subseteq RunLocks
    BY <1>5 DEF WaitsFor, RunLocks
  <2>2. row \notin RunLocks
    BY <1>1, <1>5 DEF Holds, RunLocks, WorkflowRow, ApprovalRow, RunRow
  <2> QED BY <2>1, <2>2
<1>6. CASE at[s] \in {"check_end", "commit_end", "commit_cancel", "check_approve",
                      "commit_approve", "commit_reject"}
  BY <1>6 DEF WaitsFor
<1> QED BY <1>1, <1>2, <1>3, <1>4, <1>5, <1>6 DEF Holds, WorkflowLocked

\* So a ring of waiting sessions would be a ring of rows going down.
LEMMA NoRing ==
  ASSUME LockInv
  PROVE  NoWaitCycle
<1> SUFFICES ASSUME NEW group \in (SUBSET Sessions) \ {{}},
                    \A s \in group : \E row \in WaitsFor(s) : holder[row] \in group \ {s}
             PROVE  FALSE
  BY DEF NoWaitCycle
<1>0. group \subseteq Sessions /\ group # {}
  OBVIOUS
<1>1. PICK s0 \in group : TRUE
  BY <1>0
<1>2. PICK row1 \in Rows : holder[row1] \in group
  BY <1>0, <1>1, WaitsForRows
<1>3. PICK row2 \in Rows : /\ row2 \in ApprovalLocks \cup RunLocks
                           /\ holder[row2] \in group
  BY <1>0, <1>2, WaitsForRows, LockOrder
<1>4. PICK row3 \in Rows : row3 \in RunLocks /\ holder[row3] \in group
  BY <1>0, <1>3, WaitsForRows, LockOrder
<1>5. WaitsFor(holder[row3]) = {}
  BY <1>0, <1>4, LockOrder
<1> QED BY <1>4, <1>5

-----------------------------------------------------------------------------
(* What a session knows, step by step.                                     *)

\* The steps of each command.
StartSteps ==
  {"lookup", "select_active", "lock_active", "use_active", "select_previous",
   "insert_cycle", "reread", "answered"}
EndSteps ==
  {"read_run", "lock_workflow", "lock_run", "check_end", "commit_end", "answered"}
CancelSteps ==
  {"lock_workflow", "lock_pending", "lock_running", "commit_cancel", "answered"}
DecideSteps ==
  {"read_approval", "lock_workflow", "lock_approval", "check_approve",
   "commit_approve", "commit_reject", "answered"}

\* A session executes a command some caller may have sent.
StartIssued(c) == c.ticket \in Tickets /\ c.key \in Keys

EndIssued(c) ==
  /\ c.run \in RunIds /\ RunExists(c.run) /\ c.workflow = run[c.run].workflow
  /\ c.target \in EndTargets /\ c.action \in Actions \cup {None}
  /\ c.action # None <=> c.target = "awaiting_approval"

CancelIssued(c) ==
  /\ c.workflow \in WorkflowIds /\ Exists(c.workflow)
  /\ c.role \in Roles /\ May(c.role, "workflow.cancel")

DecideIssued(c) ==
  /\ c.workflow \in WorkflowIds /\ approval[c.workflow].status # Absent
  /\ c.role \in Roles /\ May(c.role, "approval.decide")

Issued(s) ==
  at[s] # "idle" =>
    \/ at[s] \in StartSteps /\ cmd[s].op = "start" /\ StartIssued(cmd[s])
    \/ at[s] \in EndSteps /\ cmd[s].op = "end" /\ EndIssued(cmd[s])
    \/ at[s] \in CancelSteps /\ cmd[s].op = "cancel" /\ CancelIssued(cmd[s])
    \/ /\ at[s] \in DecideSteps
       /\ cmd[s].op \in {"approve", "reject"}
       /\ at[s] \in {"check_approve", "commit_approve"} => cmd[s].op = "approve"
       /\ at[s] = "commit_reject" => cmd[s].op = "reject"
       /\ DecideIssued(cmd[s])

\* What a start remembers: the active workflow its lock keeps as it is; or the
\* cycle that was the last, unless another session has opened the next one.
KnowsTicket(s) ==
  LET t == cmd[s].ticket
      n == seen[s].workflow.cycle
  IN
  /\ at[s] \in {"lock_active", "use_active"} => seen[s].target \in WorkflowsOf(t)
  /\ at[s] = "use_active" => /\ seen[s].workflow = workflow[seen[s].target]
                             /\ Active(seen[s].target)
  /\ at[s] = "insert_cycle" =>
       /\ n \in CyclesOf(t)
       /\ \/ \A m \in CyclesOf(t) : m <= n
          \/ \E w \in WorkflowsOf(t) : workflow[w].cycle = n + 1

\* What the other commands remember of the workflow they have locked.
KnowsWorkflow(s) ==
  LET w == cmd[s].workflow
      r == cmd[s].run
      a == cmd[s].action
  IN
  /\ at[s] \in WorkflowLocked => seen[s].workflow = workflow[w]
  /\ at[s] \in {"lock_pending", "lock_running", "commit_cancel"} => ~Terminal(w)
  /\ at[s] \in {"check_end", "commit_end"} => seen[s].run = run[r]
  /\ at[s] = "commit_end" =>
       /\ run[r].status = "running"
       /\ CanTransition(workflow[w].status, cmd[s].target)
       /\ a # None => ~IsExecuted(workflow[w].ticket, a)
  /\ at[s] \in {"check_approve", "commit_approve", "commit_reject"} =>
       seen[s].approval = approval[w]
  /\ at[s] = "commit_approve" => /\ approval[w].status = "pending"
                                 /\ workflow[w].status = "awaiting_approval"
  /\ at[s] \in {"lock_running", "commit_cancel"} =>
       seen[s].pending = {v \in {w} : approval[v].status = "pending"}
  /\ at[s] = "commit_cancel" =>
       seen[s].running = {q \in RunIds : /\ run[q].workflow = w
                                         /\ run[q].status = "running"}

\* What a session has told its caller.
Truthful(a, c) ==
  \/ a.kind = "run" /\ a.run \in RunWithKey(c.ticket, c.key)
  \/ /\ a.kind = "executed" /\ a.workflow \in WorkflowIds
     /\ approval[a.workflow].status = "approved" /\ mutation[a.workflow] # None
  \/ /\ a.kind = "rejected" /\ a.workflow \in WorkflowIds
     /\ approval[a.workflow].status = "rejected"
  \/ /\ a.kind = "cancelled" /\ a.workflow \in WorkflowIds
     /\ workflow[a.workflow].status = "cancelled"
  \/ /\ a.kind = "ended" /\ a.run \in RunIds
     /\ run[a.run].status \in {"completed", "failed"}
  \/ a.kind \in {"conflict", "active_conflict", "start_conflict"}

AnswerHolds(s) == at[s] = "answered" => Truthful(answer[s], cmd[s])

Story(s) == Issued(s) /\ KnowsTicket(s) /\ KnowsWorkflow(s) /\ AnswerHolds(s)

SessionInv ==
  /\ IInv
  /\ LockInv
  /\ \A s \in Sessions : Story(s)

-----------------------------------------------------------------------------
(* A commit changes what hangs on one workflow, and only adds to the rest.  *)

CommitOn(w) ==
  \/ \E t \in Tickets, k \in Keys, r \in RunIds :
       StartCycle(t, k, w, r) \/ StartRetry(t, k, w, r)
  \/ \E r \in RunIds :
       /\ run[r].workflow = w
       /\ \/ FinalizeNoAction(r)
          \/ \E a \in Actions : FinalizeForApproval(r, a)
          \/ \E recoverable \in BOOLEAN : FailRun(r, recoverable)
  \/ \E role \in Roles :
       CancelWorkflow(w, role) \/ ApproveAndExecute(w, role) \/ RejectApproval(w, role)

Local(w) ==
  /\ \A v \in WorkflowIds \ {w} : /\ workflow'[v] = workflow[v]
                                  /\ approval'[v] = approval[v]
                                  /\ mutation'[v] = mutation[v]
  /\ \A r \in RunIds : \/ run'[r] = run[r]
                       \/ /\ run'[r].workflow = w
                          /\ RunExists(r) => run[r].workflow = w

Kept ==
  /\ \A v \in WorkflowIds : Exists(v) =>
       /\ Exists(v)'
       /\ workflow'[v].ticket = workflow[v].ticket
       /\ workflow'[v].cycle = workflow[v].cycle
  /\ \A v \in WorkflowIds : approval[v].status # Absent => approval'[v].status # Absent
  /\ \A r \in RunIds : RunExists(r) =>
       /\ RunExists(r)'
       /\ run'[r].ticket = run[r].ticket
       /\ run'[r].key = run[r].key
       /\ run'[r].workflow = run[r].workflow

\* A new run writes its workflow and itself.
LEMMA StartIsLocal ==
  ASSUME IInv, NEW w \in WorkflowIds, NEW t \in Tickets, NEW k \in Keys, NEW r \in RunIds,
         StartCycle(t, k, w, r) \/ StartRetry(t, k, w, r)
  PROVE  Local(w) /\ Kept
<1>1. CASE StartCycle(t, k, w, r)
  <2>1. PICK cycle \in CyclesOf(t) : InsertCycle(t, k, w, r, cycle + 1)
    BY <1>1 DEF StartCycle
  <2>2. ~Exists(w) /\ ~RunExists(r)
    BY <1>1 DEF StartCycle
  <2>3. /\ \A v \in WorkflowIds \ {w} : workflow'[v] = workflow[v]
        /\ approval' = approval /\ mutation' = mutation
        /\ run'[r].workflow = w
        /\ \A q \in RunIds \ {r} : run'[q] = run[q]
    BY <2>1 DEF InsertCycle, NewRun, IInv, TypeOK
  <2> QED BY <2>2, <2>3 DEF Local, Kept, Exists, RunExists
<1>2. CASE StartRetry(t, k, w, r)
  <2>1. /\ workflow[w].status = "needs_retry" /\ ~RunExists(r)
        /\ Move(w, workflow[w], "investigating")
        /\ run' = [run EXCEPT ![r] = NewRun(t, k, w)]
        /\ approval' = approval /\ mutation' = mutation
    BY <1>2 DEF StartRetry, InsertRetry
  <2>2. /\ CanTransition(workflow[w].status, "investigating")
        /\ workflow[w].status # Absent /\ "investigating" \in WorkflowStatuses
    BY <2>1, TransitionTable DEF WorkflowStatuses, Absent
  <2>3. /\ \A v \in WorkflowIds \ {w} : workflow'[v] = workflow[v]
        /\ workflow'[w].ticket = workflow[w].ticket
        /\ workflow'[w].cycle = workflow[w].cycle
        /\ workflow'[w].status = "investigating"
    BY <2>1, <2>2, MoveEffect DEF IInv
  <2>4. /\ run'[r].workflow = w
        /\ \A q \in RunIds \ {r} : run'[q] = run[q]
    BY <2>1 DEF NewRun, IInv, TypeOK
  <2> QED BY <2>1, <2>3, <2>4 DEF Local, Kept, Exists, RunExists, Absent
<1> QED BY <1>1, <1>2

\* The end of a run writes the run, its workflow and that one's request.
LEMMA EndIsLocal ==
  ASSUME IInv, NEW r \in RunIds,
         \/ FinalizeNoAction(r)
         \/ \E a \in Actions : FinalizeForApproval(r, a)
         \/ \E recoverable \in BOOLEAN : FailRun(r, recoverable)
  PROVE  run[r].workflow \in WorkflowIds /\ Local(run[r].workflow) /\ Kept
<1> DEFINE w == run[r].workflow
<1>1. PICK to \in {"completed_no_action", "awaiting_approval", "needs_retry", "failed"},
           ended \in {"completed", "failed"} :
        /\ run[r].status = "running"
        /\ CanTransition(workflow[w].status, to)
        /\ Move(w, workflow[w], to)
        /\ run' = [run EXCEPT ![r].status = ended]
        /\ mutation' = mutation
        /\ \/ approval' = approval
           \/ \E row : row.status = "pending" /\ approval' = [approval EXCEPT ![w] = row]
  <2>1. CASE FinalizeNoAction(r)
    BY <2>1 DEF FinalizeNoAction, MayEnd, WriteNoAction
  <2>2. ASSUME NEW a \in Actions, FinalizeForApproval(r, a)
        PROVE  /\ run[r].status = "running"
               /\ CanTransition(workflow[w].status, "awaiting_approval")
               /\ Move(w, workflow[w], "awaiting_approval")
               /\ run' = [run EXCEPT ![r].status = "completed"]
               /\ mutation' = mutation
               /\ \E row : /\ row.status = "pending"
                           /\ approval' = [approval EXCEPT ![w] = row]
    <3>1. [status |-> "pending", action |-> a, run |-> r, decider |-> None].status = "pending"
      OBVIOUS
    <3> QED BY <2>2, <3>1 DEF FinalizeForApproval, MayEnd, WriteProposal
  <2>3. ASSUME NEW recoverable \in BOOLEAN, FailRun(r, recoverable)
        PROVE  /\ run[r].status = "running"
               /\ CanTransition(workflow[w].status, FailTarget(recoverable))
               /\ Move(w, workflow[w], FailTarget(recoverable))
               /\ run' = [run EXCEPT ![r].status = "failed"]
               /\ mutation' = mutation /\ approval' = approval
               /\ FailTarget(recoverable) \in {"needs_retry", "failed"}
    BY <2>3 DEF FailRun, MayEnd, WriteFailure, FailTarget
  <2> QED BY <2>1, <2>2, <2>3
<1>2. w \in WorkflowIds /\ workflow[w].status = "investigating"
  BY <1>1 DEF IInv, RunTracksWorkflow, RunExists, WorkflowsOf, Absent
<1>3. to \in WorkflowStatuses /\ workflow[w].status # Absent
  BY <1>2 DEF WorkflowStatuses, Absent
<1> HIDE DEF w
<1>4. /\ \A v \in WorkflowIds \ {w} : workflow'[v] = workflow[v]
      /\ workflow'[w].ticket = workflow[w].ticket
      /\ workflow'[w].cycle = workflow[w].cycle
      /\ workflow'[w].status # Absent
  <2> HIDE DEF Absent
  <2> QED BY <1>1, <1>2, <1>3, MoveEffect DEF IInv
<1>5. /\ run'[r].workflow = w /\ run'[r].ticket = run[r].ticket
      /\ run'[r].key = run[r].key /\ run'[r].status # Absent
      /\ \A q \in RunIds \ {r} : run'[q] = run[q]
  <2>1. run[r] \in RunRows /\ run \in [RunIds -> RunRows]
    BY DEF IInv, TypeOK
  <2> QED BY <1>1, <2>1 DEF RunRows, Absent, w
<1>6. /\ \A v \in WorkflowIds \ {w} : approval'[v] = approval[v]
      /\ approval[w].status # Absent => approval'[w].status # Absent
  BY <1>1, <1>2 DEF IInv, TypeOK, Absent
<1>7. run[r].workflow = w
  BY DEF w
<1> QED BY <1>1, <1>2, <1>4, <1>5, <1>6, <1>7 DEF Local, Kept, Exists, RunExists

\* A cancellation or a decision writes one workflow and what hangs on it.
LEMMA DecisionIsLocal ==
  ASSUME IInv, NEW w \in WorkflowIds, NEW role \in Roles,
         CancelWorkflow(w, role) \/ ApproveAndExecute(w, role) \/ RejectApproval(w, role)
  PROVE  Local(w) /\ Kept
<1>1. PICK to \in {"cancelled", "mock_executed", "rejected"} :
        /\ CanTransition(workflow[w].status, to)
        /\ workflow[w].status \in ActiveStatuses
        /\ Move(w, workflow[w], to)
  <2>1. CASE CancelWorkflow(w, role)
    <3>1. workflow[w].status \in WorkflowStatuses
      BY <2>1, CancelEffect DEF IInv, WorkflowStatuses, ActiveStatuses
    <3> QED BY <2>1, <3>1, CancelEffect, TransitionTable DEF IInv
  <2>2. CASE ApproveAndExecute(w, role)
    BY <2>2, TransitionTable DEF ApproveAndExecute, WriteExecution, ActiveStatuses,
       WorkflowStatuses
  <2>3. CASE RejectApproval(w, role)
    BY <2>3, TransitionTable DEF RejectApproval, WriteRejection, ActiveStatuses,
       WorkflowStatuses
  <2> QED BY <2>1, <2>2, <2>3
<1>2. to \in WorkflowStatuses /\ workflow[w].status # Absent
  BY <1>1 DEF WorkflowStatuses, ActiveStatuses, Absent
<1>3. /\ \A v \in WorkflowIds \ {w} : workflow'[v] = workflow[v]
      /\ workflow'[w].ticket = workflow[w].ticket
      /\ workflow'[w].cycle = workflow[w].cycle
      /\ workflow'[w].status # Absent
  BY <1>1, <1>2, MoveEffect DEF IInv
<1>4. /\ \A v \in WorkflowIds \ {w} : approval'[v] = approval[v] /\ mutation'[v] = mutation[v]
      /\ approval[w].status # Absent => approval'[w].status # Absent
      /\ \A r \in RunIds :
           /\ run'[r] = run[r] \/ run[r].workflow = w
           /\ run[r].workflow = w => run'[r].workflow = w
           /\ RunExists(r) => /\ RunExists(r)'
                              /\ run'[r].ticket = run[r].ticket
                              /\ run'[r].key = run[r].key
  <2>1. CASE CancelWorkflow(w, role)
    BY <2>1, CancelEffect DEF IInv, Absent, RunExists
  <2>2. CASE ApproveAndExecute(w, role)
    BY <2>2 DEF ApproveAndExecute, WriteExecution, IInv, TypeOK, ApprovalRows, Absent,
       RunExists
  <2>3. CASE RejectApproval(w, role)
    BY <2>3 DEF RejectApproval, WriteRejection, IInv, TypeOK, ApprovalRows, Absent,
       RunExists
  <2> QED BY <2>1, <2>2, <2>3
<1> QED BY <1>3, <1>4 DEF Local, Kept, Exists, RunExists

\* A commit of s as the other sessions see it: what they have locked is untouched.
CommitBy(s) ==
  /\ [Next]_tables
  /\ Kept
  /\ \A v \in WorkflowIds : Exists(v) /\ holder[WorkflowRow(v)] # s =>
       /\ workflow'[v] = workflow[v]
       /\ approval'[v] = approval[v]
       /\ mutation'[v] = mutation[v]
       /\ \A r \in RunIds : \/ run'[r] = run[r]
                            \/ /\ run'[r].workflow # v
                               /\ RunExists(r) => run[r].workflow # v
  /\ \A v \in WorkflowIds : Exists(v)' =>
       \/ Exists(v)
       \/ \E t \in Tickets, k \in Keys, r \in RunIds : StartCycle(t, k, v, r)

\* A commit on a workflow that s has locked, or that is new, is such a commit.
LEMMA CommitIsBySession ==
  ASSUME IInv, NEW s \in Sessions, NEW w \in WorkflowIds, CommitOn(w),
         ~Exists(w) \/ holder[WorkflowRow(w)] = s
  PROVE  CommitBy(s)
<1>1. Local(w) /\ Kept
  BY StartIsLocal, EndIsLocal, DecisionIsLocal DEF CommitOn
<1>2. Next
  BY DEF Next, CommitOn
<1>3. \A v \in WorkflowIds : Exists(v)' =>
        \/ Exists(v)
        \/ \E t \in Tickets, k \in Keys, r \in RunIds : StartCycle(t, k, v, r)
  <2>1. CASE Exists(w)
    BY <1>1, <2>1 DEF Local, Exists
  <2>2. CASE ~Exists(w)
    <3>1. \E t \in Tickets, k \in Keys, r \in RunIds : StartCycle(t, k, w, r)
      <4>1. \A r \in RunIds : run[r].workflow = w => run[r].status # "running"
        BY <2>2 DEF IInv, RunTracksWorkflow, RunExists, WorkflowsOf, Absent
      <4> QED BY <2>2, <4>1 DEF CommitOn, StartRetry, WorkflowsOf, FinalizeNoAction,
            FinalizeForApproval, FailRun, MayEnd, CancelWorkflow, ApproveAndExecute,
            RejectApproval, Exists, Absent
    <3> QED BY <1>1, <3>1 DEF Local, Exists
  <2> QED BY <2>1, <2>2
<1> QED BY <1>1, <1>2, <1>3 DEF CommitBy, Local

\* A step that commits nothing is one too.
LEMMA QuietIsBySession ==
  ASSUME NEW s \in Sessions, UNCHANGED tables
  PROVE  CommitBy(s)
BY DEF CommitBy, Kept, tables, Exists, RunExists

-----------------------------------------------------------------------------
(* What the others know stays true.                                        *)

\* A workflow whose row q has locked exists, and no other session changes it.
LEMMA LockedWorkflow ==
  ASSUME IInv, LockInv, NEW q \in Sessions, Story(q), at[q] \in WorkflowLocked
  PROVE  /\ cmd[q].workflow \in WorkflowIds /\ Exists(cmd[q].workflow)
         /\ holder[WorkflowRow(cmd[q].workflow)] = q
<1>1. RowsAreKnown(q) /\ Issued(q)
  BY DEF LockInv, Story
<1>2. cmd[q].workflow \in WorkflowIds
  BY <1>1 DEF RowsAreKnown
<1>3. holder[WorkflowRow(cmd[q].workflow)] = q
  BY <1>2 DEF LockInv, LocksFollowSteps, Holds, Rows, WorkflowRow
<1>4. Exists(cmd[q].workflow)
  <2>1. at[q] # "idle" /\ at[q] \notin StartSteps
    BY DEF WorkflowLocked, StartSteps
  <2>2. EndIssued(cmd[q]) => Exists(cmd[q].workflow)
    BY DEF EndIssued, IInv, RunTracksWorkflow, WorkflowsOf
  <2>3. DecideIssued(cmd[q]) => Exists(cmd[q].workflow)
    BY DEF DecideIssued, IInv, RowsAreComplete, Exists
  <2>4. at[q] # "answered"
    BY DEF WorkflowLocked
  <2> QED BY <1>1, <2>1, <2>2, <2>3, <2>4 DEF Issued, CancelIssued
<1> QED BY <1>2, <1>3, <1>4

\* The commands of the others refer to rows that are still there.
LEMMA OthersIssued ==
  ASSUME NEW s \in Sessions, NEW q \in Sessions \ {s}, OthersWait(s), Kept, Issued(q)
  PROVE  Issued(q)'
<1>1. at'[q] = at[q] /\ cmd'[q] = cmd[q]
  BY DEF OthersWait
<1>2. /\ StartIssued(cmd[q]) => StartIssued(cmd[q])'
      /\ EndIssued(cmd[q]) => EndIssued(cmd[q])'
      /\ CancelIssued(cmd[q]) => CancelIssued(cmd[q])'
      /\ DecideIssued(cmd[q]) => DecideIssued(cmd[q])'
  BY <1>1 DEF Kept, StartIssued, EndIssued, CancelIssued, DecideIssued
<1> QED BY <1>1, <1>2 DEF Issued

\* The cycle numbers of a ticket: another session may only open the next one.
LEMMA CyclesGrow ==
  ASSUME IInv, NEW s \in Sessions, CommitBy(s), NEW t, NEW n \in CyclesOf(t),
         \/ \A m \in CyclesOf(t) : m <= n
         \/ \E w \in WorkflowsOf(t) : workflow[w].cycle = n + 1
  PROVE  /\ n \in CyclesOf(t)'
         /\ \/ \A m \in CyclesOf(t)' : m <= n
            \/ \E w \in WorkflowsOf(t)' : workflow'[w].cycle = n + 1
<1>1. \A v \in WorkflowsOf(t) : v \in WorkflowsOf(t)' /\ workflow'[v].cycle = workflow[v].cycle
  BY DEF CommitBy, Kept, WorkflowsOf
<1>2. n \in CyclesOf(t)'
  BY <1>1 DEF CyclesOf
<1>3. CASE \E w \in WorkflowsOf(t) : workflow[w].cycle = n + 1
  BY <1>1, <1>2, <1>3
<1>4. CASE \A m \in CyclesOf(t) : m <= n
  <2>1. CASE \A v \in WorkflowsOf(t)' : Exists(v)
    <3>1. \A v \in WorkflowsOf(t)' : /\ v \in WorkflowsOf(t)
                                     /\ workflow'[v].cycle = workflow[v].cycle
      BY <2>1 DEF CommitBy, Kept, WorkflowsOf
    <3>2. CyclesOf(t)' \subseteq CyclesOf(t)
      BY <3>1 DEF CyclesOf
    <3> QED BY <1>2, <1>4, <3>2
  <2>2. ASSUME NEW v \in WorkflowsOf(t)', ~Exists(v)
        PROVE  workflow'[v].cycle = n + 1
    <3>1. v \in WorkflowIds /\ Exists(v)' /\ workflow'[v].ticket = t
      BY <2>2 DEF WorkflowsOf
    <3>2. PICK u \in Tickets, k \in Keys, r \in RunIds : StartCycle(u, k, v, r)
      BY <2>2, <3>1 DEF CommitBy
    <3>3. PICK last \in CyclesOf(u) : /\ \A m \in CyclesOf(u) : m <= last
                                      /\ InsertCycle(u, k, v, r, last + 1)
      BY <3>2 DEF StartCycle
    <3>4. workflow'[v] = [ticket |-> u, cycle |-> last + 1, status |-> InitialStatus,
                          sequence |-> 1]
      BY <3>1, <3>3 DEF InsertCycle, IInv, TypeOK
    <3>5. u = t /\ workflow'[v].cycle = last + 1
      BY <3>1, <3>4
    <3>6. last \in Nat /\ n \in Nat
      BY <3>3 DEF CyclesOf, WorkflowsOf, IInv, TypeOK, WorkflowRows
    <3>7. last = n
      BY <1>4, <3>3, <3>5, <3>6
    <3> QED BY <3>5, <3>7
  <2> QED BY <1>2, <2>1, <2>2
<1> QED BY <1>3, <1>4

\* A start of another session keeps what it knows of its ticket.
LEMMA OthersKnowTicket ==
  ASSUME IInv, LockInv, NEW s \in Sessions, NEW q \in Sessions \ {s},
         OthersWait(s), CommitBy(s), KnowsTicket(q)
  PROVE  KnowsTicket(q)'
<1>1. at'[q] = at[q] /\ cmd'[q] = cmd[q] /\ seen'[q] = seen[q]
  BY DEF OthersWait
<1>2. CASE at[q] \in {"lock_active", "use_active"}
  <2> DEFINE w == seen[q].target
  <2>1. w \in WorkflowsOf(cmd[q].ticket) /\ w \in WorkflowIds /\ Exists(w)
    BY <1>2 DEF KnowsTicket, WorkflowsOf
  <2>2. w \in WorkflowsOf(cmd[q].ticket)'
    BY <1>1, <2>1 DEF WorkflowsOf, CommitBy, Kept
  <2>3. ASSUME at[q] = "use_active"
        PROVE  workflow'[w] = workflow[w]
    <3>1. holder[WorkflowRow(w)] = q
      BY <2>1, <2>3 DEF LockInv, LocksFollowSteps, Holds, Rows, WorkflowRow
    <3> QED BY <2>1, <3>1 DEF CommitBy
  <2> QED BY <1>1, <1>2, <2>2, <2>3 DEF KnowsTicket, Active
<1>3. CASE at[q] = "insert_cycle"
  BY <1>1, <1>3, CyclesGrow DEF KnowsTicket
<1> QED BY <1>1, <1>2, <1>3 DEF KnowsTicket

\* No action of a ticket is executed while another of its workflows is
\* investigated: only one is active.
LEMMA NotExecutedMeanwhile ==
  ASSUME IInv, NEW s \in Sessions, CommitBy(s), NEW w \in WorkflowIds, NEW a,
         workflow[w].status = "investigating",
         ~IsExecuted(workflow[w].ticket, a)
  PROVE  ~ \E v \in WorkflowIds : /\ mutation'[v] # None
                                  /\ workflow'[v].ticket = workflow'[w].ticket
                                  /\ mutation'[v] = a
<1>1. workflow'[w].ticket = workflow[w].ticket
  BY DEF CommitBy, Kept, Exists, Absent
<1> SUFFICES ASSUME NEW v \in WorkflowIds, mutation'[v] # None,
                    workflow'[v].ticket = workflow[w].ticket, mutation'[v] = a
             PROVE  FALSE
  BY <1>1
<1>2. CASE mutation'[v] = mutation[v]
  <2>1. Exists(v)
    BY <1>2 DEF IInv, DecisionsAgree, RowsAreComplete, Exists, Absent
  <2> QED BY <1>2, <2>1 DEF IsExecuted, CommitBy, Kept
<1>3. CASE mutation'[v] # mutation[v]
  <2>1. workflow[v].status = "awaiting_approval"
    BY <1>3, MoneyStep DEF CommitBy
  <2>2. workflow[v].ticket = workflow[w].ticket
    BY <2>1 DEF CommitBy, Kept, Exists, Absent
  <2>3. v = w
    BY <2>1, <2>2, OneActive DEF IInv, Active, ActiveStatuses
  <2> QED BY <2>1, <2>3
<1> QED BY <1>2, <1>3

\* A command of another session keeps what it knows of the workflow it has locked.
LEMMA OthersKnowWorkflow ==
  ASSUME IInv, LockInv, NEW s \in Sessions, NEW q \in Sessions \ {s},
         OthersWait(s), CommitBy(s), Story(q)
  PROVE  KnowsWorkflow(q)'
<1> DEFINE w == cmd[q].workflow
           r == cmd[q].run
<1>1. at'[q] = at[q] /\ cmd'[q] = cmd[q] /\ seen'[q] = seen[q]
  BY DEF OthersWait
<1>2. CASE at[q] \notin WorkflowLocked
  BY <1>1, <1>2 DEF KnowsWorkflow, WorkflowLocked
<1>3. CASE at[q] \in WorkflowLocked
  <2>1. w \in WorkflowIds /\ Exists(w) /\ holder[WorkflowRow(w)] = q
    BY <1>3, LockedWorkflow
  <2>2. /\ workflow'[w] = workflow[w] /\ approval'[w] = approval[w]
        /\ \A p \in RunIds : \/ run'[p] = run[p]
                             \/ /\ run'[p].workflow # w
                                /\ RunExists(p) => run[p].workflow # w
    BY <2>1 DEF CommitBy
  <2>3. ASSUME at[q] \in {"check_end", "commit_end"}
        PROVE  run'[r] = run[r]
    <3>1. EndIssued(cmd[q])
      BY <2>3 DEF Story, Issued, StartSteps, CancelSteps, DecideSteps
    <3> QED BY <2>2, <3>1 DEF EndIssued
  <2>4. ASSUME at[q] = "commit_end", cmd[q].action # None
        PROVE  ~ \E v \in WorkflowIds : /\ mutation'[v] # None
                                        /\ workflow'[v].ticket = workflow'[w].ticket
                                        /\ mutation'[v] = cmd[q].action
    <3>1. EndIssued(cmd[q]) /\ CanTransition(workflow[w].status, cmd[q].target)
      BY <2>4 DEF Story, Issued, StartSteps, CancelSteps, DecideSteps, KnowsWorkflow
    <3>2. workflow[w].status = "investigating"
      BY <2>1, <2>4, <3>1, TransitionTable DEF EndIssued, IInv, TypeOK, WorkflowRows
    <3>3. ~IsExecuted(workflow[w].ticket, cmd[q].action)
      BY <2>4 DEF Story, KnowsWorkflow
    <3> QED BY <2>1, <3>2, <3>3, NotExecutedMeanwhile
  <2>5. {p \in RunIds : run'[p].workflow = w /\ run'[p].status = "running"}
          = {p \in RunIds : run[p].workflow = w /\ run[p].status = "running"}
    BY <2>2 DEF RunExists, Absent
  <2> HIDE DEF w, r
  <2>6. KnowsWorkflow(q)
    BY DEF Story
  <2> QED BY <1>1, <2>2, <2>3, <2>4, <2>5, <2>6 DEF KnowsWorkflow, Terminal, IsExecuted, w, r
<1> QED BY <1>2, <1>3

\* What a caller was told stays true.
LEMMA SettledKept ==
  ASSUME IInv, NEW s \in Sessions, CommitBy(s), NEW w \in WorkflowIds, Terminal(w)
  PROVE  /\ workflow'[w] = workflow[w]
         /\ approval'[w] = approval[w]
         /\ mutation'[w] = mutation[w]
<1>1. workflow'[w].status # Absent
  BY DEF Terminal, TerminalStatuses, Exists, Absent, CommitBy, Kept
<1> QED BY <1>1, SettledStep DEF CommitBy

\* A run that has ended stays.
LEMMA EndedKept ==
  ASSUME IInv, NEW s \in Sessions, CommitBy(s), NEW r \in RunIds,
         run[r].status \in {"completed", "failed"}
  PROVE  run'[r] = run[r]
<1>1. run'[r].status # Absent
  BY DEF CommitBy, Kept, RunExists, Absent
<1> QED BY <1>1, AttemptStep DEF CommitBy, RunStatuses

\* The run of a key stays the run of that key.
LEMMA ReplayKept ==
  ASSUME NEW s \in Sessions, CommitBy(s), NEW t, NEW k, NEW r \in RunWithKey(t, k)
  PROVE  /\ r \in RunIds /\ run'[r].status # Absent
         /\ run'[r].ticket = t /\ run'[r].key = k
BY DEF RunWithKey, RunsOf, RunExists, CommitBy, Kept

\* What the others were told stays true.
LEMMA OthersAnswers ==
  ASSUME IInv, NEW s \in Sessions, CommitBy(s), NEW q \in Sessions \ {s},
         OthersWait(s), AnswerHolds(q)
  PROVE  AnswerHolds(q)'
<1> DEFINE a == answer[q]
           c == cmd[q]
<1>1. at'[q] = at[q] /\ answer'[q] = a /\ cmd'[q] = c
  BY DEF OthersWait
<1> SUFFICES ASSUME at[q] = "answered"
             PROVE  Truthful(a, c)'
  BY <1>1 DEF AnswerHolds
<1>2. CASE a.kind = "run" /\ a.run \in RunWithKey(c.ticket, c.key)
  BY <1>1, <1>2, ReplayKept DEF Truthful, RunWithKey, RunsOf, RunExists
<1>3. CASE /\ a.kind = "executed" /\ a.workflow \in WorkflowIds
           /\ approval[a.workflow].status = "approved" /\ mutation[a.workflow] # None
  <2>1. Terminal(a.workflow)
    BY <1>3 DEF IInv, DecisionsAgree, Terminal, TerminalStatuses
  <2> QED BY <1>1, <1>3, <2>1, SettledKept DEF Truthful
<1>4. CASE /\ a.kind = "rejected" /\ a.workflow \in WorkflowIds
           /\ approval[a.workflow].status = "rejected"
  <2>1. Terminal(a.workflow)
    BY <1>4 DEF IInv, DecisionsAgree, Terminal, TerminalStatuses
  <2> QED BY <1>1, <1>4, <2>1, SettledKept DEF Truthful
<1>5. CASE /\ a.kind = "cancelled" /\ a.workflow \in WorkflowIds
           /\ workflow[a.workflow].status = "cancelled"
  <2>1. Terminal(a.workflow)
    BY <1>5 DEF Terminal, TerminalStatuses
  <2> QED BY <1>1, <1>5, <2>1, SettledKept DEF Truthful
<1>6. CASE /\ a.kind = "ended" /\ a.run \in RunIds
           /\ run[a.run].status \in {"completed", "failed"}
  BY <1>1, <1>6, EndedKept DEF Truthful
<1>7. CASE a.kind \in {"conflict", "active_conflict", "start_conflict"}
  BY <1>1, <1>7 DEF Truthful
<1> QED BY <1>2, <1>3, <1>4, <1>5, <1>6, <1>7 DEF AnswerHolds, Truthful

\* A step of one session leaves what the others know as it is.
LEMMA OthersKnow ==
  ASSUME IInv, LockInv, NEW s \in Sessions, NEW q \in Sessions \ {s},
         OthersWait(s), CommitBy(s), Story(q)
  PROVE  Story(q)'
BY OthersIssued, OthersKnowTicket, OthersKnowWorkflow, OthersAnswers DEF Story, CommitBy

-----------------------------------------------------------------------------
(* What a session knows after its own steps.                               *)

\* Truthful, of the tables the step leaves behind.
TruthfulAfter(a, c) ==
  \/ /\ a.kind = "run" /\ a.run \in RunIds /\ run'[a.run].status # Absent
     /\ run'[a.run].ticket = c.ticket /\ run'[a.run].key = c.key
  \/ /\ a.kind = "executed" /\ a.workflow \in WorkflowIds
     /\ approval'[a.workflow].status = "approved" /\ mutation'[a.workflow] # None
  \/ /\ a.kind = "rejected" /\ a.workflow \in WorkflowIds
     /\ approval'[a.workflow].status = "rejected"
  \/ /\ a.kind = "cancelled" /\ a.workflow \in WorkflowIds
     /\ workflow'[a.workflow].status = "cancelled"
  \/ /\ a.kind = "ended" /\ a.run \in RunIds
     /\ run'[a.run].status \in {"completed", "failed"}
  \/ a.kind \in {"conflict", "active_conflict", "start_conflict"}

\* After its commit a session has an answer that the tables bear out.
LEMMA AnswerStory ==
  ASSUME LockInv, NEW s \in Sessions, Story(s), at[s] # "idle", CommitBy(s),
         NEW result, Answer(s, result), TruthfulAfter(result, cmd[s])
  PROVE  Story(s)'
<1>1. at'[s] = "answered" /\ cmd'[s] = cmd[s] /\ answer'[s] = result
  BY DEF Answer, GoTo, LockInv
<1>2. /\ StartIssued(cmd[s]) => StartIssued(cmd[s])'
      /\ EndIssued(cmd[s]) => EndIssued(cmd[s])'
      /\ CancelIssued(cmd[s]) => CancelIssued(cmd[s])'
      /\ DecideIssued(cmd[s]) => DecideIssued(cmd[s])'
  BY <1>1 DEF CommitBy, Kept, StartIssued, EndIssued, CancelIssued, DecideIssued
<1>3. Issued(s)'
  BY <1>1, <1>2 DEF Story, Issued, StartSteps, EndSteps, CancelSteps, DecideSteps
<1>4. KnowsTicket(s)' /\ KnowsWorkflow(s)'
  BY <1>1 DEF KnowsTicket, KnowsWorkflow, WorkflowLocked
<1>5. Truthful(answer[s], cmd[s])'
  BY <1>1 DEF TruthfulAfter, Truthful, RunWithKey, RunsOf, RunExists
<1> QED BY <1>3, <1>4, <1>5 DEF Story, AnswerHolds

\* So it has after an answer without a commit.
LEMMA ReplyStory ==
  ASSUME LockInv, NEW s \in Sessions, Story(s), at[s] # "idle",
         NEW result, Reply(s, result), Truthful(result, cmd[s])
  PROVE  Story(s)' /\ CommitBy(s)
<1>1. Answer(s, result) /\ UNCHANGED tables
  BY DEF Reply
<1>2. CommitBy(s)
  BY <1>1, QuietIsBySession
<1>3. TruthfulAfter(result, cmd[s])
  BY <1>1 DEF TruthfulAfter, Truthful, tables, RunWithKey, RunsOf, RunExists
<1> QED BY <1>1, <1>2, <1>3, AnswerStory

\* A step that commits nothing keeps the rows the command refers to.
LEMMA IssuedUnchanged ==
  ASSUME NEW s \in Sessions, UNCHANGED tables, cmd'[s] = cmd[s]
  PROVE  /\ StartIssued(cmd[s]) => StartIssued(cmd[s])'
         /\ EndIssued(cmd[s]) => EndIssued(cmd[s])'
         /\ CancelIssued(cmd[s]) => CancelIssued(cmd[s])'
         /\ DecideIssued(cmd[s]) => DecideIssued(cmd[s])'
BY DEF tables, StartIssued, EndIssued, CancelIssued, DecideIssued, RunExists, Exists

\* The command behind a step.
LEMMA CommandOfStep ==
  ASSUME NEW s \in Sessions, Story(s)
  PROVE  /\ at[s] \in StartSteps \ {"answered"} =>
              cmd[s].op = "start" /\ StartIssued(cmd[s])
         /\ at[s] \in {"read_run", "lock_run", "check_end", "commit_end"} =>
              cmd[s].op = "end" /\ EndIssued(cmd[s])
         /\ at[s] \in {"lock_pending", "lock_running", "commit_cancel"} =>
              cmd[s].op = "cancel" /\ CancelIssued(cmd[s])
         /\ at[s] \in {"read_approval", "lock_approval", "check_approve",
                       "commit_approve", "commit_reject"} =>
              cmd[s].op \in {"approve", "reject"} /\ DecideIssued(cmd[s])
BY DEF Story, Issued, StartSteps, EndSteps, CancelSteps, DecideSteps

\* After a reading step of start_or_replay_run the rest of the story is clear.
LEMMA StartReads ==
  ASSUME NEW s \in Sessions, UNCHANGED tables, cmd'[s] = cmd[s],
         at'[s] \in StartSteps \ {"answered"}, cmd[s].op = "start", StartIssued(cmd[s]),
         KnowsTicket(s)'
  PROVE  Story(s)' /\ CommitBy(s)
<1>1. CommitBy(s) /\ StartIssued(cmd[s])'
  BY QuietIsBySession, IssuedUnchanged
<1>2. KnowsWorkflow(s)' /\ AnswerHolds(s)' /\ Issued(s)'
  BY <1>1 DEF KnowsWorkflow, WorkflowLocked, StartSteps, AnswerHolds, Issued
<1> QED BY <1>1, <1>2 DEF Story

\* After a reading step of finalize_run or fail_run.
LEMMA EndReads ==
  ASSUME NEW s \in Sessions, UNCHANGED tables, cmd'[s] = cmd[s],
         at'[s] \in EndSteps \ {"answered"}, cmd[s].op = "end", EndIssued(cmd[s]),
         KnowsWorkflow(s)'
  PROVE  Story(s)' /\ CommitBy(s)
<1>1. CommitBy(s) /\ EndIssued(cmd[s])'
  BY QuietIsBySession, IssuedUnchanged
<1>2. KnowsTicket(s)' /\ AnswerHolds(s)' /\ Issued(s)'
  BY <1>1 DEF KnowsTicket, EndSteps, AnswerHolds, Issued
<1> QED BY <1>1, <1>2 DEF Story

\* After a reading step of cancel_workflow.
LEMMA CancelReads ==
  ASSUME NEW s \in Sessions, UNCHANGED tables, cmd'[s] = cmd[s],
         at'[s] \in CancelSteps \ {"answered"}, cmd[s].op = "cancel", CancelIssued(cmd[s]),
         KnowsWorkflow(s)'
  PROVE  Story(s)' /\ CommitBy(s)
<1>1. CommitBy(s) /\ CancelIssued(cmd[s])'
  BY QuietIsBySession, IssuedUnchanged
<1>2. KnowsTicket(s)' /\ AnswerHolds(s)' /\ Issued(s)'
  BY <1>1 DEF KnowsTicket, CancelSteps, AnswerHolds, Issued
<1> QED BY <1>1, <1>2 DEF Story

\* After a reading step of an approval or a rejection.
LEMMA DecideReads ==
  ASSUME NEW s \in Sessions, UNCHANGED tables, cmd'[s] = cmd[s],
         at'[s] \in DecideSteps \ {"answered"}, cmd[s].op \in {"approve", "reject"},
         at'[s] \in {"check_approve", "commit_approve"} => cmd[s].op = "approve",
         at'[s] = "commit_reject" => cmd[s].op = "reject",
         DecideIssued(cmd[s]), KnowsWorkflow(s)'
  PROVE  Story(s)' /\ CommitBy(s)
<1>1. CommitBy(s) /\ DecideIssued(cmd[s])'
  BY QuietIsBySession, IssuedUnchanged
<1>2. KnowsTicket(s)' /\ AnswerHolds(s)' /\ Issued(s)'
  BY <1>1 DEF KnowsTicket, DecideSteps, AnswerHolds, Issued
<1> QED BY <1>1, <1>2 DEF Story

\* A call knows its command and nothing else.
LEMMA CallStory ==
  ASSUME LockInv, NEW s \in Sessions, Call(s)
  PROVE  Story(s)' /\ CommitBy(s)
<1>1. ASSUME NEW t \in Tickets, NEW k \in Keys, CallStart(s, t, k)
      PROVE  Story(s)' /\ CommitBy(s)
  <2>1. /\ at'[s] = "lookup" /\ cmd'[s] = [op |-> "start", ticket |-> t, key |-> k]
        /\ UNCHANGED tables
    BY <1>1 DEF CallStart, Begin, GoTo, LockInv
  <2>2. Issued(s)'
    BY <2>1 DEF Issued, StartSteps, StartIssued
  <2>3. KnowsTicket(s)' /\ KnowsWorkflow(s)' /\ AnswerHolds(s)'
    BY <2>1 DEF KnowsTicket, KnowsWorkflow, WorkflowLocked, AnswerHolds
  <2> QED BY <2>1, <2>2, <2>3, QuietIsBySession DEF Story
<1>2. ASSUME NEW r \in RunIds, NEW target \in EndTargets, NEW a \in Actions \cup {None},
             CallEnd(s, r, target, a)
      PROVE  Story(s)' /\ CommitBy(s)
  <2>1. /\ at'[s] = "read_run" /\ UNCHANGED tables /\ RunExists(r)
        /\ cmd'[s] = [op |-> "end", run |-> r, workflow |-> run[r].workflow,
                      target |-> target, action |-> a]
        /\ a # None <=> target = "awaiting_approval"
    BY <1>2 DEF CallEnd, Begin, GoTo, LockInv
  <2>2. Issued(s)'
    BY <2>1 DEF Issued, EndSteps, EndIssued, RunExists, tables
  <2>3. KnowsTicket(s)' /\ KnowsWorkflow(s)' /\ AnswerHolds(s)'
    BY <2>1 DEF KnowsTicket, KnowsWorkflow, WorkflowLocked, AnswerHolds
  <2> QED BY <2>1, <2>2, <2>3, QuietIsBySession DEF Story
<1>3. ASSUME NEW w \in WorkflowIds, NEW role \in Roles, CallCancel(s, w, role)
      PROVE  Story(s)' /\ CommitBy(s)
  <2>1. /\ at'[s] = "lock_workflow" /\ UNCHANGED tables
        /\ cmd'[s] = [op |-> "cancel", workflow |-> w, role |-> role]
        /\ Exists(w) /\ May(role, "workflow.cancel")
    BY <1>3 DEF CallCancel, Begin, GoTo, LockInv
  <2>2. Issued(s)'
    BY <2>1 DEF Issued, CancelSteps, CancelIssued, Exists, tables
  <2>3. KnowsTicket(s)' /\ KnowsWorkflow(s)' /\ AnswerHolds(s)'
    BY <2>1 DEF KnowsTicket, KnowsWorkflow, WorkflowLocked, AnswerHolds
  <2> QED BY <2>1, <2>2, <2>3, QuietIsBySession DEF Story
<1>4. ASSUME NEW w \in WorkflowIds, NEW role \in Roles,
             NEW decision \in {"approve", "reject"}, CallDecide(s, w, role, decision)
      PROVE  Story(s)' /\ CommitBy(s)
  <2>1. /\ at'[s] = "read_approval" /\ UNCHANGED tables
        /\ cmd'[s] = [op |-> decision, workflow |-> w, role |-> role]
        /\ approval[w].status # Absent /\ May(role, "approval.decide")
    BY <1>4 DEF CallDecide, Begin, GoTo, LockInv
  <2>2. Issued(s)'
    BY <2>1 DEF Issued, DecideSteps, DecideIssued, tables
  <2>3. KnowsTicket(s)' /\ KnowsWorkflow(s)' /\ AnswerHolds(s)'
    BY <2>1 DEF KnowsTicket, KnowsWorkflow, WorkflowLocked, AnswerHolds
  <2> QED BY <2>1, <2>2, <2>3, QuietIsBySession DEF Story
<1> QED BY <1>1, <1>2, <1>3, <1>4 DEF Call

\* A session that is gone knows nothing.
LEMMA CloseStory ==
  ASSUME LockInv, NEW s \in Sessions, Close(s)
  PROVE  Story(s)' /\ CommitBy(s)
<1>1. at'[s] = "idle" /\ UNCHANGED tables
  BY DEF Close, GoTo, LockInv
<1> QED BY <1>1, QuietIsBySession
      DEF Story, Issued, KnowsTicket, KnowsWorkflow, WorkflowLocked, AnswerHolds

\* A replay answers with the run of the ticket and the key.
LEMMA ReplayStory ==
  ASSUME LockInv, NEW s \in Sessions, Story(s), at[s] # "idle", Replay(s)
  PROVE  Story(s)' /\ CommitBy(s)
<1>1. PICK r \in RunWithKey(cmd[s].ticket, cmd[s].key) :
        Reply(s, [kind |-> "run", run |-> r, new |-> FALSE])
  BY DEF Replay
<1>2. Truthful([kind |-> "run", run |-> r, new |-> FALSE], cmd[s])
  BY DEF Truthful
<1> QED BY <1>1, <1>2, ReplyStory

\* A 409 claims nothing.
LEMMA RefusalStory ==
  ASSUME LockInv, NEW s \in Sessions, Story(s), at[s] # "idle",
         NEW kind \in {"conflict", "active_conflict", "start_conflict"},
         Reply(s, [kind |-> kind])
  PROVE  Story(s)' /\ CommitBy(s)
<1>1. Truthful([kind |-> kind], cmd[s])
  BY DEF Truthful
<1> QED BY <1>1, ReplyStory

\* A new run is the run of its ticket and key.
LEMMA NewRunStory ==
  ASSUME IInv, LockInv, NEW s \in Sessions, Story(s), at[s] # "idle", CommitBy(s),
         NEW r \in RunIds, NEW w,
         run' = [run EXCEPT ![r] = NewRun(cmd[s].ticket, cmd[s].key, w)],
         Answer(s, [kind |-> "run", run |-> r, new |-> TRUE])
  PROVE  Story(s)'
<1>1. run'[r] = NewRun(cmd[s].ticket, cmd[s].key, w)
  BY DEF IInv, TypeOK
<1>2. TruthfulAfter([kind |-> "run", run |-> r, new |-> TRUE], cmd[s])
  BY <1>1 DEF TruthfulAfter, NewRun, Absent
<1> QED BY <1>2, AnswerStory

\* The locked workflow is still the one that was read: a retry is StartRetry.
LEMMA UseActiveStory ==
  ASSUME IInv, LockInv, NEW s \in Sessions, Story(s), UseActive(s)
  PROVE  Story(s)' /\ CommitBy(s)
<1> DEFINE w == seen[s].target
           t == cmd[s].ticket
           k == cmd[s].key
<1>1. /\ at[s] = "use_active" /\ cmd[s].op = "start" /\ StartIssued(cmd[s])
      /\ seen[s].workflow = workflow[w] /\ w \in WorkflowsOf(t)
  <2>1. at[s] = "use_active"
    BY DEF UseActive
  <2> QED BY <2>1, CommandOfStep DEF StartSteps, Story, KnowsTicket
<1>2. CASE Replay(s)
  BY <1>1, <1>2, ReplayStory
<1>3. CASE Reply(s, [kind |-> "active_conflict"])
  BY <1>1, <1>3, RefusalStory
<1>4. ASSUME NEW r \in RunIds, seen[s].workflow.status = "needs_retry",
             RunWithKey(t, k) = {}, ~RunExists(r),
             InsertRetry(t, k, w, r, seen[s].workflow),
             Answer(s, [kind |-> "run", run |-> r, new |-> TRUE])
      PROVE  Story(s)' /\ CommitBy(s)
  <2>1. t \in Tickets /\ k \in Keys /\ w \in WorkflowIds
    BY <1>1 DEF StartIssued, WorkflowsOf
  <2>2. StartRetry(t, k, w, r)
    BY <1>1, <1>4 DEF StartRetry
  <2>3. holder[WorkflowRow(w)] = s
    BY <1>1, <2>1 DEF LockInv, LocksFollowSteps, Holds, Rows, WorkflowRow
  <2>4. CommitBy(s)
    BY <2>1, <2>2, <2>3, CommitIsBySession DEF CommitOn
  <2>5. run' = [run EXCEPT ![r] = NewRun(t, k, w)]
    BY <1>4 DEF InsertRetry
  <2> QED BY <1>1, <1>4, <2>4, <2>5, NewRunStory
<1>5. CASE Read(s, seen[s], "reread")
  <2>1. at'[s] = "reread" /\ cmd'[s] = cmd[s] /\ UNCHANGED tables
    BY <1>5, ReadNothing DEF Read
  <2>2. KnowsTicket(s)'
    BY <2>1 DEF KnowsTicket
  <2> QED BY <1>1, <2>1, <2>2, StartReads DEF StartSteps
<1> QED BY <1>2, <1>3, <1>4, <1>5 DEF UseActive

\* What the unique indexes let pass is the next cycle: StartCycle.
LEMMA InsertNewCycleStory ==
  ASSUME IInv, LockInv, NEW s \in Sessions, Story(s), InsertNewCycle(s)
  PROVE  Story(s)' /\ CommitBy(s)
<1> DEFINE t == cmd[s].ticket
           k == cmd[s].key
           n == seen[s].workflow.cycle
<1>1. at[s] = "insert_cycle" /\ cmd[s].op = "start" /\ StartIssued(cmd[s])
  <2>1. at[s] = "insert_cycle"
    BY DEF InsertNewCycle
  <2> QED BY <2>1, CommandOfStep DEF StartSteps
<1>2. ASSUME NEW w \in WorkflowIds, NEW r \in RunIds, InsertCycleAllowed(t, k, n + 1),
             ~Exists(w), ~RunExists(r), InsertCycle(t, k, w, r, n + 1),
             Answer(s, [kind |-> "run", run |-> r, new |-> TRUE])
      PROVE  Story(s)' /\ CommitBy(s)
  <2>1. t \in Tickets /\ k \in Keys
    BY <1>1 DEF StartIssued
  <2>2. n \in CyclesOf(t) /\ \A m \in CyclesOf(t) : m <= n
    BY <1>1, <1>2 DEF Story, KnowsTicket, InsertCycleAllowed
  <2>3. StartCycle(t, k, w, r)
    BY <1>2, <2>2 DEF StartCycle, InsertCycleAllowed
  <2>4. CommitBy(s)
    BY <1>2, <2>1, <2>3, CommitIsBySession DEF CommitOn
  <2>5. run' = [run EXCEPT ![r] = NewRun(t, k, w)]
    BY <1>2 DEF InsertCycle
  <2> QED BY <1>1, <1>2, <2>4, <2>5, NewRunStory
<1>3. CASE Read(s, seen[s], "reread")
  <2>1. at'[s] = "reread" /\ cmd'[s] = cmd[s] /\ UNCHANGED tables
    BY <1>3, ReadNothing DEF Read
  <2>2. KnowsTicket(s)'
    BY <2>1 DEF KnowsTicket
  <2> QED BY <1>1, <2>1, <2>2, StartReads DEF StartSteps
<1> QED BY <1>2, <1>3 DEF InsertNewCycle

\* The steps of start_or_replay_run.
LEMMA StartStory ==
  ASSUME IInv, LockInv, NEW s \in Sessions, Story(s),
         \/ Lookup(s) \/ SelectActive(s) \/ LockActive(s) \/ UseActive(s)
         \/ SelectPrevious(s) \/ InsertNewCycle(s) \/ Reread(s)
  PROVE  Story(s)' /\ CommitBy(s)
<1> DEFINE t == cmd[s].ticket
<1>1. /\ at[s] \in StartSteps \ {"answered"} /\ at[s] # "idle"
      /\ cmd[s].op = "start" /\ StartIssued(cmd[s])
  <2>1. at[s] \in StartSteps \ {"answered"} /\ at[s] # "idle"
    BY DEF Lookup, SelectActive, LockActive, UseActive, SelectPrevious, InsertNewCycle,
       Reread, StartSteps
  <2> QED BY <2>1, CommandOfStep
<1>2. ASSUME NEW step \in {"select_active", "select_previous", "reread"},
             Read(s, seen[s], step)
      PROVE  Story(s)' /\ CommitBy(s)
  <2>1. at'[s] = step /\ cmd'[s] = cmd[s] /\ UNCHANGED tables
    BY <1>2, ReadNothing DEF Read
  <2>2. KnowsTicket(s)'
    BY <2>1 DEF KnowsTicket
  <2> QED BY <1>1, <2>1, <2>2, StartReads DEF StartSteps
<1>3. CASE Lookup(s)
  BY <1>1, <1>2, <1>3, ReplayStory DEF Lookup
<1>4. CASE SelectActive(s)
  <2>1. ASSUME NEW w \in WorkflowsOf(t), Read(s, [seen[s] EXCEPT !.target = w], "lock_active")
        PROVE  Story(s)' /\ CommitBy(s)
    <3>1. /\ at'[s] = "lock_active" /\ cmd'[s] = cmd[s] /\ seen'[s].target = w
          /\ UNCHANGED tables
      BY <2>1, ReadTarget DEF Read
    <3>2. KnowsTicket(s)'
      BY <2>1, <3>1 DEF KnowsTicket, WorkflowsOf, Exists, tables
    <3> QED BY <1>1, <3>1, <3>2, StartReads DEF StartSteps
  <2> QED BY <1>2, <1>4, <2>1 DEF SelectActive
<1>5. CASE LockActive(s)
  <2> DEFINE w == seen[s].target
  <2>1. CASE /\ Active(w)
             /\ Read(s, [seen[s] EXCEPT !.workflow = workflow[w]], "use_active")
    <3>1. w \in WorkflowsOf(t)
      BY <1>5 DEF LockActive, Story, KnowsTicket
    <3>2. /\ at'[s] = "use_active" /\ cmd'[s] = cmd[s] /\ seen'[s].target = w
          /\ seen'[s].workflow = workflow[w] /\ UNCHANGED tables
      BY <2>1, ReadWorkflow DEF Read
    <3>3. KnowsTicket(s)'
      BY <2>1, <3>1, <3>2 DEF KnowsTicket, WorkflowsOf, Exists, Active, tables
    <3> QED BY <1>1, <3>2, <3>3, StartReads DEF StartSteps
  <2> QED BY <1>2, <1>5, <2>1 DEF LockActive
<1>6. CASE SelectPrevious(s)
  <2>1. PICK last \in CyclesOf(t) :
          /\ \A n \in CyclesOf(t) : n <= last
          /\ Read(s, [seen[s] EXCEPT !.workflow = [NoWorkflow EXCEPT !.cycle = last]],
                  "insert_cycle")
    BY <1>6 DEF SelectPrevious
  <2>2. /\ at'[s] = "insert_cycle" /\ cmd'[s] = cmd[s] /\ UNCHANGED tables
        /\ seen'[s].workflow = [NoWorkflow EXCEPT !.cycle = last]
    BY <2>1, ReadWorkflow DEF Read
  <2>3. seen'[s].workflow.cycle = last
    BY <2>2 DEF NoWorkflow
  <2>4. CyclesOf(t)' = CyclesOf(t)
    BY <2>2 DEF CyclesOf, WorkflowsOf, Exists, tables
  <2>5. KnowsTicket(s)'
    BY <2>1, <2>2, <2>3, <2>4 DEF KnowsTicket
  <2> QED BY <1>1, <2>2, <2>5, StartReads DEF StartSteps
<1>7. CASE Reread(s)
  BY <1>1, <1>7, ReplayStory, RefusalStory DEF Reread
<1> QED BY <1>3, <1>4, <1>5, <1>6, <1>7, UseActiveStory, InsertNewCycleStory

\* A commit on the workflow whose row the session has locked.
LEMMA LockedCommit ==
  ASSUME IInv, LockInv, NEW s \in Sessions, Story(s), at[s] \in WorkflowLocked,
         CommitOn(cmd[s].workflow)
  PROVE  CommitBy(s)
BY LockedWorkflow, CommitIsBySession

\* The rows of a run that is being ended.
LEMMA EndedRun ==
  ASSUME IInv, NEW s \in Sessions, Story(s),
         at[s] \in {"lock_run", "check_end", "commit_end"}
  PROVE  /\ cmd[s].op = "end" /\ EndIssued(cmd[s])
         /\ cmd[s].run \in RunIds /\ cmd[s].workflow \in WorkflowIds
         /\ cmd[s].workflow = run[cmd[s].run].workflow
         /\ run[cmd[s].run].ticket = workflow[cmd[s].workflow].ticket
         /\ seen[s].workflow = workflow[cmd[s].workflow]
<1>1. cmd[s].op = "end" /\ EndIssued(cmd[s])
  BY CommandOfStep
<1>2. cmd[s].workflow \in WorkflowsOf(run[cmd[s].run].ticket)
  BY <1>1 DEF EndIssued, IInv, RunTracksWorkflow
<1> QED BY <1>1, <1>2 DEF EndIssued, WorkflowsOf, Story, KnowsWorkflow, WorkflowLocked

\* The checks are made on locked rows, so they still hold at the commit.
LEMMA CheckEndStory ==
  ASSUME IInv, LockInv, NEW s \in Sessions, Story(s), CheckEnd(s)
  PROVE  Story(s)' /\ CommitBy(s)
<1> DEFINE w == cmd[s].workflow
           r == cmd[s].run
           a == cmd[s].action
<1>1. at[s] = "check_end" /\ at[s] # "idle"
  BY DEF CheckEnd
<1>2. /\ cmd[s].op = "end" /\ EndIssued(cmd[s])
      /\ run[r].ticket = workflow[w].ticket /\ seen[s].workflow = workflow[w]
      /\ seen[s].run = run[r]
  BY <1>1, EndedRun DEF Story, KnowsWorkflow
<1>3. CASE Reply(s, [kind |-> "conflict"])
  BY <1>1, <1>3, RefusalStory
<1>4. CASE /\ seen[s].run.status = "running"
           /\ CanTransition(seen[s].workflow.status, cmd[s].target)
           /\ a # None => ~IsPending(seen[s].run.ticket, a) /\ ~IsExecuted(seen[s].run.ticket, a)
           /\ Read(s, seen[s], "commit_end")
  <2>1. /\ at'[s] = "commit_end" /\ cmd'[s] = cmd[s] /\ seen'[s] = seen[s]
        /\ UNCHANGED tables
    BY <1>4, ReadNothing DEF Read
  <2>2. KnowsWorkflow(s)'
    BY <1>2, <1>4, <2>1 DEF KnowsWorkflow, IsExecuted, tables
  <2> QED BY <1>2, <2>1, <2>2, EndReads DEF EndSteps
<1> QED BY <1>3, <1>4 DEF CheckEnd

\* A commit of finalize_run or fail_run is the atomic command.
LEMMA CommitEndStory ==
  ASSUME IInv, LockInv, NEW s \in Sessions, Story(s), CommitEnd(s)
  PROVE  Story(s)' /\ CommitBy(s)
<1> DEFINE w == cmd[s].workflow
           r == cmd[s].run
           a == cmd[s].action
           ended == [kind |-> "ended", run |-> r]
<1>1. at[s] = "commit_end" /\ at[s] # "idle" /\ at[s] \in WorkflowLocked
  BY DEF CommitEnd, WorkflowLocked
<1>2. /\ EndIssued(cmd[s]) /\ r \in RunIds /\ w \in WorkflowIds /\ w = run[r].workflow
      /\ run[r].ticket = workflow[w].ticket /\ seen[s].workflow = workflow[w]
      /\ MayEnd(r, cmd[s].target)
      /\ a # None => ~IsExecuted(run[r].ticket, a)
  BY <1>1, EndedRun DEF Story, KnowsWorkflow, MayEnd
<1>3. ASSUME Answer(s, ended), CommitBy(s),
             \E status \in {"completed", "failed"} : run' = [run EXCEPT ![r].status = status]
      PROVE  Story(s)' /\ CommitBy(s)
  <2>1. run'[r].status \in {"completed", "failed"}
    BY <1>2, <1>3 DEF IInv, TypeOK, RunRows
  <2>2. TruthfulAfter(ended, cmd[s])
    BY <1>2, <2>1 DEF TruthfulAfter
  <2> QED BY <1>1, <1>3, <2>2, AnswerStory
<1>4. CASE /\ cmd[s].target = "completed_no_action"
           /\ WriteNoAction(r, w, seen[s].workflow)
           /\ Answer(s, ended)
  <2>1. FinalizeNoAction(r)
    BY <1>2, <1>4 DEF FinalizeNoAction
  <2>2. CommitBy(s)
    BY <1>1, <1>2, <2>1, LockedCommit DEF CommitOn
  <2> QED BY <1>3, <1>4, <2>2 DEF WriteNoAction
<1>5. CASE /\ cmd[s].target \in {"needs_retry", "failed"}
           /\ WriteFailure(r, w, seen[s].workflow, cmd[s].target)
           /\ Answer(s, ended)
  <2>1. PICK recoverable \in BOOLEAN : FailTarget(recoverable) = cmd[s].target
    BY <1>5 DEF FailTarget
  <2>2. FailRun(r, recoverable)
    BY <1>2, <1>5, <2>1 DEF FailRun
  <2>3. CommitBy(s)
    BY <1>1, <1>2, <2>2, LockedCommit DEF CommitOn
  <2> QED BY <1>3, <1>5, <2>3 DEF WriteFailure
<1>6. CASE /\ cmd[s].target = "awaiting_approval"
           /\ approval[w].status = Absent
           /\ ~IsPending(seen[s].workflow.ticket, a)
           /\ WriteProposal(r, w, seen[s].workflow, a)
           /\ Answer(s, ended)
  <2>1. a \in Actions /\ ~IsExecuted(run[r].ticket, a)
    BY <1>2, <1>6 DEF EndIssued
  <2>2. FinalizeForApproval(r, a)
    BY <1>2, <1>6, <2>1 DEF FinalizeForApproval
  <2>3. CommitBy(s)
    BY <1>1, <1>2, <2>1, <2>2, LockedCommit DEF CommitOn
  <2> QED BY <1>3, <1>6, <2>3 DEF WriteProposal
<1>7. CASE Reply(s, [kind |-> "conflict"])
  BY <1>1, <1>7, RefusalStory
<1> QED BY <1>4, <1>5, <1>6, <1>7 DEF CommitEnd

\* The steps of finalize_run and fail_run.
LEMMA EndStory ==
  ASSUME IInv, LockInv, NEW s \in Sessions, Story(s),
         ReadRun(s) \/ LockRun(s) \/ CheckEnd(s) \/ CommitEnd(s)
  PROVE  Story(s)' /\ CommitBy(s)
<1>1. CASE ReadRun(s)
  <2>1. /\ at[s] = "read_run" /\ cmd[s].op = "end" /\ EndIssued(cmd[s])
        /\ Read(s, [seen[s] EXCEPT !.run = run[cmd[s].run]], "lock_workflow")
    BY <1>1, CommandOfStep DEF ReadRun
  <2>2. at'[s] = "lock_workflow" /\ cmd'[s] = cmd[s] /\ UNCHANGED tables
    BY <2>1, ReadOfRun DEF Read
  <2>3. KnowsWorkflow(s)'
    BY <2>2 DEF KnowsWorkflow, WorkflowLocked
  <2> QED BY <2>1, <2>2, <2>3, EndReads DEF EndSteps
<1>2. CASE LockRun(s)
  <2>1. /\ at[s] = "lock_run"
        /\ Read(s, [seen[s] EXCEPT !.run = run[cmd[s].run]], "check_end")
    BY <1>2 DEF LockRun
  <2>2. /\ cmd[s].op = "end" /\ EndIssued(cmd[s])
        /\ seen[s].workflow = workflow[cmd[s].workflow]
    BY <2>1, EndedRun
  <2>3. /\ at'[s] = "check_end" /\ cmd'[s] = cmd[s]
        /\ seen'[s].workflow = seen[s].workflow /\ seen'[s].run = run[cmd[s].run]
    BY <2>1, ReadOfRun
  <2>4. UNCHANGED tables
    BY <2>1 DEF Read
  <2>5. KnowsWorkflow(s)'
    BY <2>2, <2>3, <2>4 DEF KnowsWorkflow, tables
  <2> QED BY <2>2, <2>3, <2>4, <2>5, EndReads DEF EndSteps
<1> QED BY <1>1, <1>2, CheckEndStory, CommitEndStory

\* The steps of cancel_workflow; its commit is CancelWorkflow.
LEMMA CancelStory ==
  ASSUME IInv, LockInv, NEW s \in Sessions, Story(s),
         LockPending(s) \/ LockRunning(s) \/ CommitCancel(s)
  PROVE  Story(s)' /\ CommitBy(s)
<1> DEFINE w == cmd[s].workflow
           pending == {v \in {w} : approval[v].status = "pending"}
           running == {q \in RunIds : run[q].workflow = w /\ run[q].status = "running"}
<1>1. /\ at[s] \in {"lock_pending", "lock_running", "commit_cancel"}
      /\ at[s] # "idle" /\ at[s] \in WorkflowLocked
  BY DEF LockPending, LockRunning, CommitCancel, WorkflowLocked
<1>2. /\ cmd[s].op = "cancel" /\ CancelIssued(cmd[s])
      /\ seen[s].workflow = workflow[w] /\ ~Terminal(w) /\ w \in WorkflowIds
      /\ at[s] \in {"lock_running", "commit_cancel"} => seen[s].pending = pending
      /\ at[s] = "commit_cancel" => seen[s].running = running
      /\ at[s] = "lock_pending" => seen[s].pending = {}
      /\ at[s] = "lock_running" => seen[s].running = {}
  BY <1>1, CommandOfStep DEF Story, KnowsWorkflow, CancelIssued, LockInv, RowsAreKnown
<1>3. ASSUME LockPending(s), UNCHANGED tables, cmd'[s] = cmd[s],
             at'[s] = "lock_running", seen'[s].workflow = seen[s].workflow,
             seen'[s].pending = pending
      PROVE  Story(s)' /\ CommitBy(s)
  <2>1. KnowsWorkflow(s)'
    BY <1>2, <1>3 DEF KnowsWorkflow, Terminal, tables
  <2> QED BY <1>2, <1>3, <2>1, CancelReads DEF CancelSteps
<1>4. CASE LockPending(s)
  <2>1. at[s] = "lock_pending"
    BY <1>4 DEF LockPending
  <2>2. CASE /\ approval[w].status = "pending"
             /\ Read(s, [seen[s] EXCEPT !.pending = {w}], "lock_running")
    <3>1. pending = {w}
      BY <2>2
    <3> HIDE DEF w, pending
    <3>2. /\ at'[s] = "lock_running" /\ cmd'[s] = cmd[s] /\ UNCHANGED tables
          /\ seen'[s].workflow = seen[s].workflow /\ seen'[s].pending = {w}
      BY <2>2, ReadPending DEF Read
    <3> QED BY <1>3, <1>4, <3>1, <3>2
  <2>3. CASE /\ approval[w].status # "pending"
             /\ Read(s, seen[s], "lock_running")
    <3>1. pending = {}
      BY <2>3
    <3> HIDE DEF w, pending
    <3>2. /\ at'[s] = "lock_running" /\ cmd'[s] = cmd[s] /\ UNCHANGED tables
          /\ seen'[s] = seen[s]
      BY <2>3, ReadNothing DEF Read
    <3> QED BY <1>2, <1>3, <1>4, <2>1, <3>1, <3>2
  <2> QED BY <1>4, <2>2, <2>3 DEF LockPending
<1>5. ASSUME LockRunning(s), UNCHANGED tables, cmd'[s] = cmd[s],
             at'[s] = "commit_cancel", seen'[s].workflow = seen[s].workflow,
             seen'[s].pending = seen[s].pending, seen'[s].running = running
      PROVE  Story(s)' /\ CommitBy(s)
  <2>1. at[s] = "lock_running"
    BY <1>5 DEF LockRunning
  <2>2. KnowsWorkflow(s)'
    BY <1>2, <1>5, <2>1 DEF KnowsWorkflow, Terminal, tables
  <2> QED BY <1>2, <1>5, <2>2, CancelReads DEF CancelSteps
<1>6. CASE LockRunning(s)
  <2>1. at[s] = "lock_running"
    BY <1>6 DEF LockRunning
  <2>2. ASSUME NEW r \in running,
               Read(s, [seen[s] EXCEPT !.running = {r}], "commit_cancel")
        PROVE  Story(s)' /\ CommitBy(s)
    <3>1. running = {r}
      BY DEF IInv, RunTracksWorkflow
    <3> HIDE DEF running
    <3>2. /\ at'[s] = "commit_cancel" /\ cmd'[s] = cmd[s] /\ UNCHANGED tables
          /\ seen'[s].workflow = seen[s].workflow /\ seen'[s].pending = seen[s].pending
          /\ seen'[s].running = {r}
      BY <2>2, ReadRunning DEF Read
    <3> QED BY <1>5, <1>6, <3>1, <3>2
  <2>3. CASE running = {} /\ Read(s, seen[s], "commit_cancel")
    <3> HIDE DEF running
    <3>1. /\ at'[s] = "commit_cancel" /\ cmd'[s] = cmd[s] /\ UNCHANGED tables
          /\ seen'[s] = seen[s]
      BY <2>3, ReadNothing DEF Read
    <3> QED BY <1>2, <1>5, <1>6, <2>1, <2>3, <3>1
  <2> QED BY <1>6, <2>2, <2>3 DEF LockRunning
<1>7. CASE CommitCancel(s)
  <2>1. /\ at[s] = "commit_cancel"
        /\ WriteCancellation(w, workflow[w], pending, running, cmd[s].role)
        /\ Answer(s, [kind |-> "cancelled", workflow |-> w])
    BY <1>2, <1>7 DEF CommitCancel
  <2>2. CancelWorkflow(w, cmd[s].role)
    BY <1>2, <2>1 DEF CancelWorkflow, CancelIssued
  <2>3. CommitBy(s)
    BY <1>1, <1>2, <2>2, LockedCommit DEF CommitOn, CancelIssued
  <2>4. workflow'[w].status = "cancelled"
    BY <1>2, <2>1 DEF WriteCancellation, Move, IInv, TypeOK, WorkflowRows
  <2>5. TruthfulAfter([kind |-> "cancelled", workflow |-> w], cmd[s])
    BY <1>2, <2>4 DEF TruthfulAfter
  <2> QED BY <1>1, <2>1, <2>3, <2>5, AnswerStory
<1> QED BY <1>4, <1>6, <1>7

\* A repeated approval is answered with the execution that is on record.
LEMMA ExecutedStory ==
  ASSUME IInv, LockInv, NEW s \in Sessions, Story(s), at[s] # "idle",
         cmd[s].workflow \in WorkflowIds, approval[cmd[s].workflow].status = "approved",
         Reply(s, Executed(cmd[s].workflow))
  PROVE  Story(s)' /\ CommitBy(s)
<1>1. mutation[cmd[s].workflow] # None
  BY DEF IInv, DecisionsAgree, Absent
<1>2. Truthful(Executed(cmd[s].workflow), cmd[s])
  BY <1>1 DEF Truthful, Executed
<1> QED BY <1>2, ReplyStory

\* A repeated rejection is answered with the rejection on record.
LEMMA RejectedStory ==
  ASSUME LockInv, NEW s \in Sessions, Story(s), at[s] # "idle",
         cmd[s].workflow \in WorkflowIds, approval[cmd[s].workflow].status = "rejected",
         Reply(s, Rejected(cmd[s].workflow))
  PROVE  Story(s)' /\ CommitBy(s)
<1>1. Truthful(Rejected(cmd[s].workflow), cmd[s])
  BY DEF Truthful, Rejected
<1> QED BY <1>1, ReplyStory

\* A commit of approve_and_execute is ApproveAndExecute.
LEMMA CommitApproveStory ==
  ASSUME IInv, LockInv, NEW s \in Sessions, Story(s), CommitApprove(s)
  PROVE  Story(s)' /\ CommitBy(s)
<1> DEFINE w == cmd[s].workflow
<1>1. at[s] = "commit_approve" /\ at[s] # "idle" /\ at[s] \in WorkflowLocked
  BY DEF CommitApprove, WorkflowLocked
<1>2. /\ DecideIssued(cmd[s]) /\ w \in WorkflowIds /\ seen[s].workflow = workflow[w]
      /\ seen[s].approval = approval[w] /\ approval[w].status = "pending"
      /\ workflow[w].status = "awaiting_approval"
  BY <1>1, CommandOfStep DEF Story, KnowsWorkflow, DecideIssued
<1>3. CASE Reply(s, [kind |-> "conflict"])
  BY <1>1, <1>3, RefusalStory
<1>4. CASE /\ mutation[w] = None
           /\ ~IsExecuted(workflow[w].ticket, approval[w].action)
           /\ WriteExecution(w, workflow[w], approval[w], cmd[s].role)
           /\ Answer(s, Executed(w))
  <2>1. ApproveAndExecute(w, cmd[s].role)
    BY <1>2, <1>4 DEF ApproveAndExecute, DecideIssued
  <2>2. CommitBy(s)
    BY <1>1, <1>2, <2>1, LockedCommit DEF CommitOn, DecideIssued
  <2>3. approval[w].action # None
    BY <1>2 DEF IInv, DecisionsAgree, Absent
  <2>4. approval'[w].status = "approved" /\ mutation'[w] # None
    BY <1>2, <1>4, <2>3 DEF WriteExecution, IInv, TypeOK, ApprovalRows
  <2>5. TruthfulAfter(Executed(w), cmd[s])
    BY <1>2, <2>4 DEF TruthfulAfter, Executed
  <2> QED BY <1>1, <1>4, <2>2, <2>5, AnswerStory
<1> QED BY <1>2, <1>3, <1>4 DEF CommitApprove

\* A commit of reject_approval is RejectApproval.
LEMMA CommitRejectStory ==
  ASSUME IInv, LockInv, NEW s \in Sessions, Story(s), CommitReject(s)
  PROVE  Story(s)' /\ CommitBy(s)
<1> DEFINE w == cmd[s].workflow
<1>1. at[s] = "commit_reject" /\ at[s] # "idle" /\ at[s] \in WorkflowLocked
  BY DEF CommitReject, WorkflowLocked
<1>2. /\ DecideIssued(cmd[s]) /\ w \in WorkflowIds /\ seen[s].workflow = workflow[w]
      /\ seen[s].approval = approval[w]
  BY <1>1, CommandOfStep DEF Story, KnowsWorkflow, DecideIssued
<1>3. CASE Reply(s, [kind |-> "conflict"])
  BY <1>1, <1>3, RefusalStory
<1>4. CASE approval[w].status = "rejected" /\ Reply(s, Rejected(w))
  BY <1>1, <1>2, <1>4, RejectedStory
<1>5. CASE /\ approval[w].status = "pending"
           /\ workflow[w].status = "awaiting_approval"
           /\ WriteRejection(w, workflow[w], approval[w], cmd[s].role)
           /\ Answer(s, Rejected(w))
  <2>1. RejectApproval(w, cmd[s].role)
    BY <1>2, <1>5 DEF RejectApproval, DecideIssued
  <2>2. CommitBy(s)
    BY <1>1, <1>2, <2>1, LockedCommit DEF CommitOn, DecideIssued
  <2>3. approval'[w].status = "rejected"
    BY <1>2, <1>5 DEF WriteRejection, IInv, TypeOK, ApprovalRows
  <2>4. TruthfulAfter(Rejected(w), cmd[s])
    BY <1>2, <2>3 DEF TruthfulAfter, Rejected
  <2> QED BY <1>1, <1>5, <2>2, <2>4, AnswerStory
<1> QED BY <1>2, <1>3, <1>4, <1>5 DEF CommitReject

\* Behind an approved request there is a mutation: audit_incomplete is never told.
LEMMA CheckApproveStory ==
  ASSUME IInv, LockInv, NEW s \in Sessions, Story(s), CheckApprove(s)
  PROVE  Story(s)' /\ CommitBy(s)
<1> DEFINE w == cmd[s].workflow
<1>1. at[s] = "check_approve" /\ at[s] # "idle"
  BY DEF CheckApprove
<1>2. /\ DecideIssued(cmd[s]) /\ w \in WorkflowIds /\ seen[s].workflow = workflow[w]
      /\ seen[s].approval = approval[w] /\ cmd[s].op = "approve"
  <2>1. cmd[s].op = "approve"
    BY <1>1 DEF Story, Issued, StartSteps, EndSteps, CancelSteps
  <2> QED BY <1>1, <2>1, CommandOfStep DEF Story, KnowsWorkflow, DecideIssued, WorkflowLocked
<1>3. CASE Reply(s, [kind |-> "conflict"])
  BY <1>1, <1>3, RefusalStory
<1>4. CASE approval[w].status = "approved"
  <2>1. mutation[w] # None
    BY <1>2, <1>4 DEF IInv, DecisionsAgree, Absent
  <2>2. Reply(s, Executed(w))
    BY <1>2, <1>4, <2>1 DEF CheckApprove
  <2> QED BY <1>1, <1>2, <1>4, <2>2, ExecutedStory
<1>5. CASE /\ approval[w].status = "pending"
           /\ workflow[w].status = "awaiting_approval"
           /\ Read(s, seen[s], "commit_approve")
  <2>1. /\ at'[s] = "commit_approve" /\ cmd'[s] = cmd[s] /\ seen'[s] = seen[s]
    BY <1>5, ReadNothing
  <2>2. UNCHANGED tables
    BY <1>5 DEF Read
  <2>3. KnowsWorkflow(s)'
    BY <1>2, <1>5, <2>1, <2>2 DEF KnowsWorkflow, tables
  <2> QED BY <1>2, <2>1, <2>2, <2>3, DecideReads DEF DecideSteps
<1> QED BY <1>2, <1>3, <1>4, <1>5 DEF CheckApprove

\* The steps of an approval or a rejection.
LEMMA DecideStory ==
  ASSUME IInv, LockInv, NEW s \in Sessions, Story(s),
         \/ ReadApproval(s) \/ LockApproval(s) \/ CheckApprove(s)
         \/ CommitApprove(s) \/ CommitReject(s)
  PROVE  Story(s)' /\ CommitBy(s)
<1> DEFINE w == cmd[s].workflow
<1>1. CASE ReadApproval(s)
  <2>1. /\ at[s] = "read_approval" /\ at[s] # "idle" /\ w \in WorkflowIds
        /\ cmd[s].op \in {"approve", "reject"} /\ DecideIssued(cmd[s])
    BY <1>1, CommandOfStep DEF ReadApproval, DecideIssued
  <2>2. CASE Reply(s, [kind |-> "conflict"])
    BY <2>1, <2>2, RefusalStory
  <2>3. CASE approval[w].status = "approved" /\ Reply(s, Executed(w))
    BY <2>1, <2>3, ExecutedStory
  <2>4. CASE approval[w].status = "rejected" /\ Reply(s, Rejected(w))
    BY <2>1, <2>4, RejectedStory
  <2>5. CASE Read(s, [seen[s] EXCEPT !.approval = approval[w]], "lock_workflow")
    <3>1. at'[s] = "lock_workflow" /\ cmd'[s] = cmd[s]
      BY <2>5, ReadOfApproval
    <3>2. UNCHANGED tables
      BY <2>5 DEF Read
    <3>3. KnowsWorkflow(s)'
      BY <3>1 DEF KnowsWorkflow, WorkflowLocked
    <3> QED BY <2>1, <3>1, <3>2, <3>3, DecideReads DEF DecideSteps
  <2> QED BY <1>1, <2>2, <2>3, <2>4, <2>5 DEF ReadApproval
<1>2. CASE LockApproval(s)
  <2> DEFINE step == IF cmd[s].op = "approve" THEN "check_approve" ELSE "commit_reject"
  <2>1. /\ at[s] = "lock_approval"
        /\ Read(s, [seen[s] EXCEPT !.approval = approval[w]], step)
    BY <1>2 DEF LockApproval
  <2>2. /\ cmd[s].op \in {"approve", "reject"} /\ DecideIssued(cmd[s])
        /\ seen[s].workflow = workflow[w]
    BY <2>1, CommandOfStep DEF Story, KnowsWorkflow, WorkflowLocked
  <2>3. \/ step = "check_approve" /\ cmd[s].op = "approve"
        \/ step = "commit_reject" /\ cmd[s].op = "reject"
    BY <2>2
  <2> HIDE DEF step
  <2>4. /\ at'[s] = step /\ cmd'[s] = cmd[s]
        /\ seen'[s].workflow = seen[s].workflow /\ seen'[s].approval = approval[w]
    BY <2>1, ReadOfApproval
  <2>5. UNCHANGED tables
    BY <2>1 DEF Read
  <2>6. KnowsWorkflow(s)'
    BY <2>2, <2>3, <2>4, <2>5 DEF KnowsWorkflow, tables
  <2> QED BY <2>2, <2>3, <2>4, <2>5, <2>6, DecideReads DEF DecideSteps
<1> QED BY <1>1, <1>2, CheckApproveStory, CommitApproveStory, CommitRejectStory

\* The lock every command on an existing workflow takes first.
LEMMA LockWorkflowStory ==
  ASSUME IInv, LockInv, NEW s \in Sessions, Story(s), LockWorkflow(s)
  PROVE  Story(s)' /\ CommitBy(s)
<1> DEFINE w == cmd[s].workflow
           step == CASE cmd[s].op = "end" -> "lock_run"
                     [] cmd[s].op = "cancel" -> "lock_pending"
                     [] OTHER -> "lock_approval"
<1>1. /\ at[s] = "lock_workflow" /\ at[s] # "idle"
      /\ \/ cmd[s].op = "end" /\ EndIssued(cmd[s])
         \/ cmd[s].op = "cancel" /\ CancelIssued(cmd[s])
         \/ cmd[s].op \in {"approve", "reject"} /\ DecideIssued(cmd[s])
  BY DEF LockWorkflow, Story, Issued, StartSteps
<1>2. CASE Reply(s, [kind |-> "conflict"])
  BY <1>1, <1>2, RefusalStory
<1>3. CASE /\ cmd[s].op = "cancel" => ~Terminal(w)
           /\ Read(s, [seen[s] EXCEPT !.workflow = workflow[w]], step)
  <2>1. \/ cmd[s].op = "end" /\ step = "lock_run"
        \/ cmd[s].op = "cancel" /\ step = "lock_pending"
        \/ cmd[s].op \in {"approve", "reject"} /\ step = "lock_approval"
    BY <1>1
  <2> HIDE DEF step
  <2>2. at'[s] = step /\ cmd'[s] = cmd[s] /\ seen'[s].workflow = workflow[w]
    BY <1>3, ReadWorkflow
  <2>3. UNCHANGED tables
    BY <1>3 DEF Read
  <2>4. KnowsWorkflow(s)'
    BY <1>3, <2>1, <2>2, <2>3 DEF KnowsWorkflow, Terminal, tables
  <2>5. CASE cmd[s].op = "end"
    BY <1>1, <2>1, <2>2, <2>3, <2>4, <2>5, EndReads DEF EndSteps
  <2>6. CASE cmd[s].op = "cancel"
    BY <1>1, <2>1, <2>2, <2>3, <2>4, <2>6, CancelReads DEF CancelSteps
  <2>7. CASE cmd[s].op \in {"approve", "reject"}
    BY <1>1, <2>1, <2>2, <2>3, <2>4, <2>7, DecideReads DEF DecideSteps
  <2> QED BY <1>1, <2>5, <2>6, <2>7
<1> QED BY <1>2, <1>3 DEF LockWorkflow

-----------------------------------------------------------------------------
(* The theorems.                                                           *)

\* Every step of a session keeps the session invariant, and the tables see a
\* command of CaseWorkflow or nothing.
LEMMA SessionStep ==
  ASSUME SessionInv, NEW s \in Sessions, Call(s) \/ Proceed(s) \/ Close(s)
  PROVE  SessionInv' /\ CommitBy(s)
<1>1. IInv /\ LockInv /\ \A q \in Sessions : Story(q)
  BY DEF SessionInv
<1>2. RunsNameWorkflows
  BY <1>1 DEF IInv, RunTracksWorkflow, WorkflowsOf, RunsNameWorkflows
<1>3. LockInv' /\ OthersWait(s)
  BY <1>1, <1>2, StepKeepsLocks
<1>4. Story(s)' /\ CommitBy(s)
  <2>1. CASE Call(s)
    BY <1>1, <2>1, CallStory
  <2>2. CASE Close(s)
    BY <1>1, <2>2, CloseStory
  <2>3. CASE Proceed(s)
    BY <1>1, <2>3, StartStory, EndStory, CancelStory, DecideStory, LockWorkflowStory
       DEF Proceed
  <2> QED BY <2>1, <2>2, <2>3
<1>5. \A q \in Sessions \ {s} : Story(q)'
  BY <1>1, <1>3, <1>4, OthersKnow
<1>6. IInv'
  BY <1>1, <1>4, NextIInv, StutterIInv DEF CommitBy
<1> QED BY <1>3, <1>4, <1>5, <1>6 DEF SessionInv

\* An empty database without sessions satisfies the session invariant.
LEMMA SessionInitInv == SessionInit => SessionInv
<1> SUFFICES ASSUME SessionInit PROVE SessionInv
  OBVIOUS
<1>1. IInv
  BY InitIInv DEF SessionInit
<1>2. /\ at = [s \in Sessions |-> "idle"]
      /\ cmd = [s \in Sessions |-> NoCommand]
      /\ seen = [s \in Sessions |-> NothingSeen]
      /\ answer = [s \in Sessions |-> None]
      /\ holder = [row \in Rows |-> None]
  BY DEF SessionInit
<1>3. \A s \in Sessions : at[s] = "idle" /\ seen[s] = NothingSeen
  BY <1>2
<1>4. \A s \in Sessions : Memory(s) /\ RowsAreKnown(s)
  BY <1>3 DEF Memory, IsMemory, RowsAreKnown, NothingSeen, WorkflowLocked
<1>5. LocksFollowSteps
  BY <1>2, <1>3, SessionsAssumption DEF LocksFollowSteps, Holds, WorkflowLocked
<1>6. LockInv
  BY <1>2, <1>4, <1>5 DEF LockInv, Labels
<1>7. \A s \in Sessions : Story(s)
  BY <1>3 DEF Story, Issued, KnowsTicket, KnowsWorkflow, WorkflowLocked, AnswerHolds
<1> QED BY <1>1, <1>6, <1>7 DEF SessionInv

\* While neither the tables nor the session change, its story stays the same.
LEMMA StoryUnchanged ==
  ASSUME NEW s \in Sessions, Story(s), UNCHANGED <<tables, local>>
  PROVE  Story(s)'
<1>1. UNCHANGED <<workflow, run, approval, mutation, at, cmd, seen, answer>>
  BY DEF local, tables
<1>2. Issued(s)'
  BY <1>1 DEF Story, Issued, StartIssued, EndIssued, CancelIssued, DecideIssued,
     RunExists, Exists
<1>3. KnowsTicket(s)'
  BY <1>1 DEF Story, KnowsTicket, WorkflowsOf, CyclesOf, Exists, Active
<1>4. KnowsWorkflow(s)'
  BY <1>1 DEF Story, KnowsWorkflow, Terminal, IsExecuted
<1>5. AnswerHolds(s)'
  BY <1>1 DEF Story, AnswerHolds, Truthful, RunWithKey, RunsOf, RunExists
<1> QED BY <1>2, <1>3, <1>4, <1>5 DEF Story

\* Time passing keeps the session invariant.
LEMMA SessionStutter == SessionInv /\ UNCHANGED vars => SessionInv'
<1> SUFFICES ASSUME SessionInv, UNCHANGED vars PROVE SessionInv'
  OBVIOUS
<1>1. IInv'
  BY StutterIInv DEF SessionInv, vars
<1>2. LockInv'
  BY DEF SessionInv, vars, LockInv, Memory, IsMemory, RowsAreKnown, LocksFollowSteps, Holds
<1>3. \A s \in Sessions : Story(s)'
  BY StoryUnchanged DEF SessionInv, vars, local
<1> QED BY <1>1, <1>2, <1>3 DEF SessionInv

\* In every reachable state the tables are sound, every session holds exactly the
\* locks of its step, and what it remembers of the rows it has locked is what the
\* tables say.
THEOREM SessionInvariance == SessionSpec => []SessionInv
<1>1. SessionInv /\ [SessionNext]_vars => SessionInv'
  BY SessionStep, SessionStutter DEF SessionNext
<1> QED BY <1>1, SessionInitInv, PTL DEF SessionSpec

\* Nobody is told what is not so: whatever the sessions interleave, a replayed run,
\* an execution, a rejection, a cancellation and an end that was answered are in
\* the tables (the answers of start_or_replay_run, the approval service and
\* finalize_run, also from unlocked reads).
THEOREM AnswersAreTruthful == SessionSpec => []AnswersAreTrue
<1>1. SessionInv => AnswersAreTrue
  BY DEF SessionInv, Story, AnswerHolds, Truthful, AnswersAreTrue
<1> QED BY <1>1, SessionInvariance, PTL

\* The sessions never wait for each other in a ring: every command locks the
\* workflow row, then the approval row, then run rows (with_for_update in
\* repositories.py).
THEOREM SessionsNeverDeadlock == SessionSpec => []NoWaitCycle
<1>1. SessionInv => NoWaitCycle
  BY NoRing DEF SessionInv
<1> QED BY <1>1, SessionInvariance, PTL

\* The commands that the sessions implement are those of CaseWorkflow.
LEMMA CommandsAreTheCommands == Commands!Spec <=> Spec
BY DEF Absent, TerminalStatuses, ActiveStatuses, InitialStatus,
     WorkflowTransitions, CanTransition, Roles, RolePermissions, May, tables,
     NoWorkflow, NoRun, NoApproval, Empty, Exists, Active, Terminal,
     WorkflowsOf, CyclesOf, RunExists, RunsOf, RunWithKey, IsPending,
     IsExecuted, Move, NewRun, InsertCycle, InsertRetry, WriteNoAction,
     WriteProposal, WriteFailure, WriteCancellation, WriteExecution,
     WriteRejection, DeleteTicket, StartCycle, StartRetry, MayEnd,
     FinalizeNoAction, FinalizeForApproval, FailTarget, FailRun,
     CancelWorkflow, ApproveAndExecute, RejectApproval, ResetTicket, Next,
     Spec, Commands!Absent, Commands!TerminalStatuses,
     Commands!ActiveStatuses, Commands!InitialStatus,
     Commands!WorkflowTransitions, Commands!CanTransition, Commands!Roles,
     Commands!RolePermissions, Commands!May, Commands!tables,
     Commands!NoWorkflow, Commands!NoRun, Commands!NoApproval, Commands!Empty,
     Commands!Exists, Commands!Active, Commands!Terminal,
     Commands!WorkflowsOf, Commands!CyclesOf, Commands!RunExists,
     Commands!RunsOf, Commands!RunWithKey, Commands!IsPending,
     Commands!IsExecuted, Commands!Move, Commands!NewRun,
     Commands!InsertCycle, Commands!InsertRetry, Commands!WriteNoAction,
     Commands!WriteProposal, Commands!WriteFailure,
     Commands!WriteCancellation, Commands!WriteExecution,
     Commands!WriteRejection, Commands!DeleteTicket, Commands!StartCycle,
     Commands!StartRetry, Commands!MayEnd, Commands!FinalizeNoAction,
     Commands!FinalizeForApproval, Commands!FailTarget, Commands!FailRun,
     Commands!CancelWorkflow, Commands!ApproveAndExecute,
     Commands!RejectApproval, Commands!ResetTicket, Commands!Next,
     Commands!Spec

\* The sessions implement the atomic commands: what one session decides on what it
\* holds in memory is what CaseWorkflow decides on the tables at the commit.
THEOREM SessionsImplementCommands == SessionSpec => ImplementsCaseWorkflow
<1>1. SessionInit => Empty
  BY DEF SessionInit
<1>2. SessionInv /\ [SessionNext]_vars => [Next]_tables
  BY SessionStep DEF SessionNext, CommitBy, vars
<1>3. SessionSpec => Spec
  BY <1>1, <1>2, SessionInvariance, PTL DEF SessionSpec, Spec
<1> QED BY <1>3, CommandsAreTheCommands DEF ImplementsCaseWorkflow

-----------------------------------------------------------------------------
(* Resets.                                                                 *)

\* The command names a row that a reset has deleted since.
Adrift(s) ==
  \/ /\ at[s] = "lock_active" /\ WorkflowRow(seen[s].target) \in spent
     /\ cmd[s].op = "start" /\ StartIssued(cmd[s])
  \/ at[s] = "read_run" /\ RunRow(cmd[s].run) \in spent
  \/ at[s] \in {"lock_workflow", "read_approval"} /\ WorkflowRow(cmd[s].workflow) \in spent

\* A start that has read the last cycle of its ticket, whatever became of it.
Counting(s) ==
  /\ at[s] = "insert_cycle"
  /\ cmd[s].op = "start" /\ StartIssued(cmd[s])
  /\ seen[s].workflow.cycle \in Nat

\* What is left of what a session knows when resets delete rows under it.
Survives(s) == at[s] = "answered" \/ Story(s) \/ Adrift(s) \/ Counting(s)

SpentRowsAreGone ==
  /\ \A w \in WorkflowIds : WorkflowRow(w) \in spent => ~Exists(w)
  /\ \A r \in RunIds : RunRow(r) \in spent => ~RunExists(r)

-----------------------------------------------------------------------------
(* What a reset has done to its ticket so far.                             *)

RowsOfTicket(t) ==
  {WorkflowRow(w) : w \in WorkflowsOf(t)} \cup {ApprovalRow(w) : w \in WorkflowsOf(t)}
  \cup {RunRow(r) : r \in RunsOf(t)}

\* The ticket had no workflow when the last DELETE began.
FoundNothing == reset.gone = {} /\ reset.todo = {} /\ reset.mutations = {}

\* The last DELETE found the ticket's workflows, the first cycle among them.
FoundFirstCycle ==
  \E w \in WorkflowsOf(reset.ticket) :
    workflow[w].cycle = 1 /\ WorkflowRow(w) \in reset.gone \cup reset.todo

\* Nothing of the ticket is left, and nobody can add to it.
FoundAll ==
  /\ \A w \in WorkflowsOf(reset.ticket) :
       /\ WorkflowRow(w) \in reset.gone
       /\ approval[w].status # Absent => ApprovalRow(w) \in reset.gone
       /\ mutation[w] # None => w \in reset.mutations
  /\ \A r \in RunsOf(reset.ticket) : RunRow(r) \in reset.gone

IsReset(r) ==
  r = [at |-> r.at, ticket |-> r.ticket, known |-> r.known, mutations |-> r.mutations,
       gone |-> r.gone, todo |-> r.todo, row |-> r.row]

ResetStory ==
  /\ IsReset(reset)
  /\ reset.at \in {"idle", "commit"} \cup DOMAIN AfterTable
  /\ InReset => reset.ticket \in Tickets
  /\ ~InReset => reset = NoReset
  /\ reset.gone \cup reset.todo \subseteq RowsOfTicket(reset.ticket)
  /\ reset.row \in reset.todo \cup {None}
  /\ reset.mutations \subseteq WorkflowsOf(reset.ticket)
  /\ reset.at = "workflows" => FoundNothing \/ FoundFirstCycle
  /\ reset.at = "commit" => FoundNothing \/ (FoundFirstCycle /\ FoundAll)

ResetHoldsRows == \A row \in Rows : holder[row] = Resetter <=> row \in reset.gone

ResetInv ==
  /\ IInv
  /\ LockInv
  /\ \A s \in Sessions : Survives(s)
  /\ SpentRowsAreGone
  /\ ResetStory
  /\ ResetHoldsRows

-----------------------------------------------------------------------------
(* The cycles of a ticket.                                                 *)

\* A set of numbers that is not empty has a least member.
LEMMA Least ==
  ASSUME NEW numbers, numbers \subseteq Nat, numbers # {}
  PROVE  \E n \in numbers : \A m \in numbers : n <= m
<1> DEFINE R == OpToRel(<, Nat)
<1>1. IsWellFoundedOn(R, Nat) /\ \A i, j \in Nat : j < i => <<j, i>> \in R
  BY NatLessThanWellFounded DEF OpToRel
<1> HIDE DEF R
<1>2. PICK n \in numbers : \A m \in numbers : <<m, n>> \notin R
  BY <1>1, WFMin
<1>3. ASSUME NEW m \in numbers PROVE n <= m
  <2>1. ~(m < n)
    BY <1>1, <1>2
  <2> QED BY <2>1
<1> QED BY <1>3

\* A ticket with a workflow has a first cycle.
LEMMA FirstCycle ==
  ASSUME IInv, NEW t, WorkflowsOf(t) # {}
  PROVE  \E w \in WorkflowsOf(t) : workflow[w].cycle = 1
<1> DEFINE cycles == {workflow[w].cycle : w \in WorkflowsOf(t)}
<1>1. cycles \subseteq Nat /\ cycles # {}
  BY DEF IInv, TypeOK, WorkflowRows, WorkflowsOf
<1>2. PICK n \in cycles : \A m \in cycles : n <= m
  <2> HIDE DEF cycles
  <2> QED BY <1>1, Least
<1>3. PICK w \in WorkflowsOf(t) : workflow[w].cycle = n
  BY <1>2
<1>4. w \in WorkflowIds /\ Exists(w) /\ workflow[w].ticket = t
  BY <1>3 DEF WorkflowsOf
<1>5. \/ workflow[w].cycle = 1
      \/ \E v \in WorkflowsOf(t) : workflow[v].cycle = workflow[w].cycle - 1
  BY <1>4 DEF IInv, OneActiveCycle
<1>6. ASSUME NEW v \in WorkflowsOf(t), workflow[v].cycle = n - 1
      PROVE  FALSE
  <2>1. n - 1 \in cycles /\ n \in Nat
    BY <1>1, <1>6
  <2> QED BY <1>2, <2>1
<1> QED BY <1>3, <1>5, <1>6

\* Above the number of a cycle there is the next cycle or none.
LEMMA NextCycle ==
  ASSUME IInv, NEW t, NEW n \in CyclesOf(t)
  PROVE  \/ \A m \in CyclesOf(t) : m <= n
         \/ \E w \in WorkflowsOf(t) : workflow[w].cycle = n + 1
<1> DEFINE above == {m \in CyclesOf(t) : m > n}
<1>1. CyclesOf(t) \subseteq Nat
  BY DEF CyclesOf, IInv, TypeOK, WorkflowRows, WorkflowsOf
<1>2. CASE above = {}
  BY <1>1, <1>2
<1>3. CASE above # {}
  <2>1. PICK m \in above : \A k \in above : m <= k
    <3>1. above \subseteq Nat
      BY <1>1
    <3> HIDE DEF above
    <3> QED BY <1>3, <3>1, Least
  <2>2. m \in CyclesOf(t) /\ m > n /\ m \in Nat /\ n \in Nat
    BY <1>1
  <2>3. PICK w \in WorkflowsOf(t) : workflow[w].cycle = m
    BY <2>2 DEF CyclesOf
  <2>4. w \in WorkflowIds /\ Exists(w) /\ workflow[w].ticket = t
    BY <2>3 DEF WorkflowsOf
  <2>5. \/ m = 1
        \/ \E v \in WorkflowsOf(t) : workflow[v].cycle = m - 1
    BY <2>3, <2>4 DEF IInv, OneActiveCycle
  <2>6. m - 1 \in CyclesOf(t)
    BY <2>5 DEF CyclesOf
  <2>7. ~(m - 1 > n)
    BY <2>1, <2>2, <2>6
  <2>8. m = n + 1
    BY <2>2, <2>7
  <2> QED BY <2>3, <2>8
<1> QED BY <1>2, <1>3

-----------------------------------------------------------------------------
(* The locks of the commands and the locks of the reset.                   *)

\* Neither takes or releases a lock of the other.
LEMMA SessionLocks ==
  ASSUME LockInv, NEW s \in Sessions, Call(s) \/ Proceed(s) \/ Close(s)
  PROVE  \A row \in Rows : holder'[row] = Resetter <=> holder[row] = Resetter
<1>1. \/ holder' = holder
      \/ ReleaseAll(s)
      \/ \E row : Free(s, row) /\ Lock(s, row)
  <2>1. CASE Call(s)
    BY <2>1 DEF Call, CallStart, CallEnd, CallCancel, CallDecide, Begin
  <2>2. CASE Close(s)
    BY <2>2 DEF Close
  <2>3. CASE Lookup(s) \/ SelectActive(s) \/ LockActive(s) \/ SelectPrevious(s)
    BY <2>3 DEF Lookup, Replay, Reply, Answer, SelectActive, LockActive, SelectPrevious
  <2>4. CASE UseActive(s) \/ InsertNewCycle(s) \/ Reread(s)
    BY <2>4 DEF UseActive, InsertNewCycle, Reread, Replay, Reply, Answer
  <2>5. CASE ReadRun(s) \/ LockRun(s) \/ CheckEnd(s) \/ CommitEnd(s)
    BY <2>5 DEF ReadRun, LockRun, CheckEnd, CommitEnd, Reply, Answer
  <2>6. CASE LockPending(s) \/ LockRunning(s) \/ CommitCancel(s)
    BY <2>6 DEF LockPending, LockRunning, CommitCancel, Answer
  <2>7. CASE ReadApproval(s) \/ LockApproval(s) \/ CheckApprove(s)
    BY <2>7 DEF ReadApproval, LockApproval, CheckApprove, Reply, Answer
  <2>8. CASE CommitApprove(s) \/ CommitReject(s) \/ LockWorkflow(s)
    BY <2>8 DEF CommitApprove, CommitReject, LockWorkflow, Reply, Answer
  <2> QED BY <2>1, <2>2, <2>3, <2>4, <2>5, <2>6, <2>7, <2>8 DEF Proceed
<1>2. holder = [row \in Rows |-> holder[row]]
  BY DEF LockInv
<1> QED BY <1>1, <1>2, ResetterAssumption DEF ReleaseAll, Free, Lock

\* The locks of the commands are what they were when the reset changes its own.
LEMMA ResetKeepsLocks ==
  ASSUME LockInv, UNCHANGED local,
         holder' = [row \in Rows |-> holder'[row]],
         \A row \in Rows : \/ holder'[row] = holder[row]
                           \/ /\ holder[row] \in {None, Resetter}
                              /\ holder'[row] \in {None, Resetter}
  PROVE  LockInv'
<1>1. \A s \in Sessions, row \in Rows : holder'[row] = s <=> holder[row] = s
  BY SessionsAssumption, ResetterAssumption
<1> QED BY <1>1 DEF LockInv, local, Memory, IsMemory, RowsAreKnown, LocksFollowSteps, Holds

-----------------------------------------------------------------------------
(* The commands among resets.                                              *)

\* A command whose row is gone is answered so, or finds no active workflow.
LEMMA AdriftStep ==
  ASSUME IInv, LockInv, SpentRowsAreGone, NEW s \in Sessions, Adrift(s),
         ~Missing(s), Proceed(s)
  PROVE  Story(s)' /\ CommitBy(s)
<1>1. RowsAreKnown(s)
  BY DEF LockInv
<1>2. at[s] # "read_run"
  BY <1>1 DEF Adrift, RowsAreKnown, SpentRowsAreGone, Missing
<1>3. at[s] \notin {"lock_workflow", "read_approval"}
  <2> SUFFICES ASSUME at[s] \in {"lock_workflow", "read_approval"} PROVE FALSE
    OBVIOUS
  <2>1. cmd[s].workflow \in WorkflowIds /\ WorkflowRow(cmd[s].workflow) \in spent
    BY <1>1 DEF Adrift, RowsAreKnown
  <2>2. ~Exists(cmd[s].workflow) /\ approval[cmd[s].workflow].status = Absent
    BY <2>1 DEF SpentRowsAreGone, IInv, RowsAreComplete, Exists
  <2> QED BY <2>2 DEF Missing
<1>4. /\ at[s] = "lock_active" /\ WorkflowRow(seen[s].target) \in spent
      /\ cmd[s].op = "start" /\ StartIssued(cmd[s])
  BY <1>2, <1>3 DEF Adrift
<1>5. ~Active(seen[s].target)
  BY <1>1, <1>4 DEF RowsAreKnown, SpentRowsAreGone, Exists, Active, ActiveStatuses, Absent
<1>6. LockActive(s)
  BY <1>4 DEF Proceed, Lookup, SelectActive, UseActive, SelectPrevious, InsertNewCycle,
     Reread, ReadRun, LockRun, CheckEnd, CommitEnd, LockPending, LockRunning,
     CommitCancel, ReadApproval, LockApproval, CheckApprove, CommitApprove,
     CommitReject, LockWorkflow
<1>7. Read(s, seen[s], "select_previous")
  BY <1>5, <1>6 DEF LockActive
<1>8. at'[s] = "select_previous" /\ cmd'[s] = cmd[s] /\ UNCHANGED tables
  BY <1>7, ReadNothing DEF Read
<1>9. KnowsTicket(s)'
  BY <1>8 DEF KnowsTicket
<1> QED BY <1>4, <1>8, <1>9, StartReads DEF StartSteps

\* A start that still finds the cycle it has read knows its ticket.
LEMMA CountingKnows ==
  ASSUME IInv, NEW s \in Sessions, Counting(s), InsertsMayGoOn(s)
  PROVE  Story(s)
<1> DEFINE t == cmd[s].ticket
           n == seen[s].workflow.cycle
<1>1. at[s] = "insert_cycle" /\ n \in Nat /\ cmd[s].op = "start" /\ StartIssued(cmd[s])
  BY DEF Counting
<1>2. n \in CyclesOf(t)
  <2>1. CASE n = 0
    BY <2>1 DEF CyclesOf
  <2>2. CASE n > 0
    BY <1>1, <2>2 DEF InsertsMayGoOn, Previous, CyclesOf
  <2> QED BY <1>1, <2>1, <2>2
<1>3. KnowsTicket(s)
  BY <1>1, <1>2, NextCycle DEF KnowsTicket
<1>4. KnowsWorkflow(s) /\ AnswerHolds(s) /\ Issued(s)
  BY <1>1 DEF KnowsWorkflow, WorkflowLocked, AnswerHolds, Issued, StartSteps
<1> QED BY <1>3, <1>4 DEF Story

\* Every step of a session is a command of CaseWorkflow or nothing.
LEMMA CommandStory ==
  ASSUME IInv, LockInv, SpentRowsAreGone, NEW s \in Sessions, Survives(s),
         CommandStep(s) \/ Call(s) \/ Close(s)
  PROVE  Survives(s)' /\ CommitBy(s) /\ LockInv' /\ OthersWait(s)
<1>1. RunsNameWorkflows
  BY DEF IInv, RunTracksWorkflow, WorkflowsOf, RunsNameWorkflows
<1>2. CASE Call(s)
  BY <1>1, <1>2, CallStory, StepKeepsLocks DEF Survives
<1>3. CASE Close(s)
  BY <1>1, <1>3, CloseStory, StepKeepsLocks DEF Survives
<1>4. CASE ReplyMissing(s)
  <2>1. Answer(s, [kind |-> "missing"]) /\ UNCHANGED tables
    BY <1>4 DEF ReplyMissing, Reply
  <2>2. at'[s] = "answered"
    BY <2>1 DEF Answer, GoTo, LockInv
  <2> QED BY <2>1, <2>2, AnswerKeepsLocks, QuietIsBySession DEF Survives
<1>5. CASE PreviousIsGone(s)
  <2>1. at[s] = "insert_cycle" /\ ReleaseAll(s) /\ Read(s, seen[s], "reread")
    BY <1>5 DEF PreviousIsGone
  <2>2. cmd[s].op = "start" /\ StartIssued(cmd[s])
    <3>1. ASSUME Story(s) PROVE cmd[s].op = "start" /\ StartIssued(cmd[s])
      BY <2>1, <3>1, CommandOfStep DEF StartSteps
    <3> QED BY <2>1, <3>1 DEF Survives, Adrift, Counting
  <2>3. at'[s] = "reread" /\ cmd'[s] = cmd[s] /\ UNCHANGED tables
    BY <2>1, ReadNothing DEF Read
  <2>4. KnowsTicket(s)'
    BY <2>3 DEF KnowsTicket
  <2>5. Story(s)' /\ CommitBy(s)
    BY <2>2, <2>3, <2>4, StartReads DEF StartSteps
  <2> QED BY <2>1, <2>5, RollbackKeepsLocks DEF Survives
<1>6. CASE ~Missing(s) /\ InsertsMayGoOn(s) /\ Proceed(s)
  <2>1. at[s] # "answered"
    BY <1>6 DEF Proceed, Lookup, SelectActive, LockActive, UseActive, SelectPrevious,
       InsertNewCycle, Reread, ReadRun, LockRun, CheckEnd, CommitEnd, LockPending,
       LockRunning, CommitCancel, ReadApproval, LockApproval, CheckApprove,
       CommitApprove, CommitReject, LockWorkflow
  <2>2. ASSUME Story(s) PROVE Story(s)' /\ CommitBy(s)
    BY <1>6, <2>2, StartStory, EndStory, CancelStory, DecideStory, LockWorkflowStory
       DEF Proceed
  <2>3. Story(s)' /\ CommitBy(s)
    BY <1>6, <2>1, <2>2, AdriftStep, CountingKnows DEF Survives
  <2> QED BY <1>1, <1>6, <2>3, StepKeepsLocks DEF Survives
<1> QED BY <1>2, <1>3, <1>4, <1>5, <1>6 DEF CommandStep

\* What the others know survives it.
LEMMA OthersSurvive ==
  ASSUME IInv, LockInv, NEW s \in Sessions, NEW q \in Sessions \ {s},
         OthersWait(s), CommitBy(s), Survives(q), spent' = spent
  PROVE  Survives(q)'
<1>1. at'[q] = at[q] /\ cmd'[q] = cmd[q] /\ seen'[q] = seen[q]
  BY DEF OthersWait
<1>2. CASE at[q] = "answered"
  BY <1>1, <1>2 DEF Survives
<1>3. CASE Story(q)
  BY <1>3, OthersKnow DEF Survives
<1>4. CASE Adrift(q)
  BY <1>1, <1>4 DEF Survives, Adrift, StartIssued
<1>5. CASE Counting(q)
  BY <1>1, <1>5 DEF Survives, Counting, StartIssued
<1> QED BY <1>2, <1>3, <1>4, <1>5 DEF Survives

-----------------------------------------------------------------------------
(* What the reset has found stays found while commands commit.             *)

\* Only an insert of a new cycle brings a workflow to the table.
LEMMA OnlyInsertsOpenCycles ==
  ASSUME IInv, LockInv, NEW s \in Sessions, Survives(s), Proceed(s), ~InsertNewCycle(s),
         NEW v \in WorkflowIds, ~Exists(v)
  PROVE  ~Exists(v)'
<1>1. UNCHANGED tables => ~Exists(v)'
  BY DEF tables, Exists
<1>2. ASSUME NEW w, NEW row, w # v, workflow' = [workflow EXCEPT ![w] = row]
      PROVE  ~Exists(v)'
  BY <1>2 DEF Exists, IInv, TypeOK
<1>3. ASSUME NEW w, NEW row, NEW to, Exists(w), Move(w, row, to)
      PROVE  ~Exists(v)'
  <2>1. w # v
    BY <1>3
  <2> QED BY <1>2, <1>3, <2>1 DEF Move
<1>4. CASE UseActive(s)
  <2>1. at[s] = "use_active"
    BY <1>4 DEF UseActive
  <2>2. Exists(seen[s].target)
    BY <2>1 DEF Survives, Adrift, Counting, Story, KnowsTicket, WorkflowsOf
  <2> QED BY <1>1, <1>3, <1>4, <2>2 DEF UseActive, Replay, Reply, Read, InsertRetry
<1>5. ASSUME at[s] \in WorkflowLocked PROVE Exists(cmd[s].workflow)
  BY <1>5, LockedWorkflow DEF Survives, Adrift, Counting, WorkflowLocked
<1>6. CASE CommitEnd(s)
  <2>1. Exists(cmd[s].workflow)
    BY <1>5, <1>6 DEF CommitEnd, WorkflowLocked
  <2> QED BY <1>1, <1>3, <1>6, <2>1
        DEF CommitEnd, WriteNoAction, WriteFailure, WriteProposal, Reply
<1>7. CASE CommitCancel(s)
  <2>1. Exists(cmd[s].workflow)
    BY <1>5, <1>7 DEF CommitCancel, WorkflowLocked
  <2> QED BY <1>3, <1>7, <2>1 DEF CommitCancel, WriteCancellation
<1>8. CASE CommitApprove(s)
  <2>1. Exists(cmd[s].workflow)
    BY <1>5, <1>8 DEF CommitApprove, WorkflowLocked
  <2> QED BY <1>1, <1>3, <1>8, <2>1 DEF CommitApprove, WriteExecution, Reply
<1>9. CASE CommitReject(s)
  <2>1. Exists(cmd[s].workflow)
    BY <1>5, <1>9 DEF CommitReject, WorkflowLocked
  <2> QED BY <1>1, <1>3, <1>9, <2>1 DEF CommitReject, WriteRejection, Reply
<1>10. CASE Lookup(s) \/ SelectActive(s) \/ LockActive(s) \/ SelectPrevious(s)
  BY <1>1, <1>10 DEF Lookup, Replay, Reply, Read, SelectActive, LockActive, SelectPrevious
<1>11. CASE Reread(s) \/ ReadRun(s) \/ LockRun(s) \/ CheckEnd(s)
  BY <1>1, <1>11 DEF Reread, Replay, Reply, Read, ReadRun, LockRun, CheckEnd
<1>12. CASE LockPending(s) \/ LockRunning(s) \/ LockWorkflow(s)
  BY <1>1, <1>12 DEF LockPending, LockRunning, LockWorkflow, Reply, Read
<1>13. CASE ReadApproval(s) \/ LockApproval(s) \/ CheckApprove(s)
  BY <1>1, <1>13 DEF ReadApproval, LockApproval, CheckApprove, Reply, Read
<1> QED BY <1>4, <1>6, <1>7, <1>8, <1>9, <1>10, <1>11, <1>12, <1>13 DEF Proceed

\* No cycle is opened on a ticket whose first cycle, and every other, is locked
\* for deletion: the insert waits for the previous workflow or meets the index.
LEMMA NoCycleUnderReset ==
  ASSUME IInv, LockInv, ResetHoldsRows, NEW s \in Sessions, Survives(s),
         CommandStep(s) \/ Call(s) \/ Close(s),
         NEW t, NEW first \in WorkflowsOf(t), workflow[first].cycle = 1,
         \A w \in WorkflowsOf(t) : WorkflowRow(w) \in reset.gone,
         NEW v \in WorkflowsOf(t)'
  PROVE  Exists(v)
<1>1. v \in WorkflowIds /\ workflow'[v].status # Absent /\ workflow'[v].ticket = t
  BY DEF WorkflowsOf, Exists
<1> SUFFICES ASSUME ~Exists(v) PROVE FALSE
  OBVIOUS
<1>2. workflow' # workflow
  BY <1>1 DEF Exists
<1>3. /\ CommandStep(s) /\ ~Missing(s) /\ InsertsMayGoOn(s) /\ Proceed(s)
  BY <1>2 DEF CommandStep, ReplyMissing, PreviousIsGone, Reply, Read, Call, CallStart,
     CallEnd, CallCancel, CallDecide, Begin, Close, tables
<1>4. InsertNewCycle(s)
  BY <1>1, <1>3, OnlyInsertsOpenCycles DEF Exists
<1> DEFINE n == seen[s].workflow.cycle
<1>5. /\ at[s] = "insert_cycle" /\ InsertCycleAllowed(cmd[s].ticket, cmd[s].key, n + 1)
      /\ \E w \in WorkflowIds, r \in RunIds :
           /\ ~Exists(w)
           /\ InsertCycle(cmd[s].ticket, cmd[s].key, w, r, n + 1)
  BY <1>2, <1>4 DEF InsertNewCycle, Read, tables
<1>6. PICK w \in WorkflowIds, r \in RunIds :
        InsertCycle(cmd[s].ticket, cmd[s].key, w, r, n + 1)
  BY <1>5
<1>7. workflow' = [workflow EXCEPT ![w] = [ticket |-> cmd[s].ticket, cycle |-> n + 1,
                                           status |-> InitialStatus, sequence |-> 1]]
  BY <1>6 DEF InsertCycle
<1>8. v = w
  BY <1>1, <1>7 DEF Exists, IInv, TypeOK
<1>9. cmd[s].ticket = t
  BY <1>1, <1>7, <1>8 DEF IInv, TypeOK
<1>10. n \in CyclesOf(t)
  <2>1. Story(s) => n \in CyclesOf(t)
    BY <1>5, <1>9 DEF Story, KnowsTicket
  <2>2. Counting(s) => n \in CyclesOf(t)
    BY <1>3, <1>5, <1>9, CountingKnows DEF Story, KnowsTicket
  <2> QED BY <1>5, <2>1, <2>2 DEF Survives, Adrift
<1>11. n \in Nat
  BY <1>10 DEF CyclesOf, IInv, TypeOK, WorkflowRows, WorkflowsOf
<1>12. CASE n = 0
  BY <1>5, <1>9, <1>12 DEF InsertCycleAllowed
<1>13. CASE n > 0
  <2>1. PICK p \in WorkflowsOf(t) : workflow[p].cycle = n
    BY <1>10, <1>11, <1>13 DEF CyclesOf
  <2>2. WorkflowRow(p) \in InsertsBehind(s)
    BY <1>5, <1>9, <2>1 DEF InsertsBehind, Previous
  <2>3. holder[WorkflowRow(p)] # Resetter
    BY <1>3, <2>2 DEF InsertsMayGoOn
  <2>4. WorkflowRow(p) \in Rows
    BY <2>1 DEF WorkflowsOf, WorkflowRow, Rows
  <2> QED BY <2>1, <2>3, <2>4 DEF ResetHoldsRows
<1> QED BY <1>11, <1>12, <1>13

\* The reset's story goes on while a session takes a step.
LEMMA ResetStoryKept ==
  ASSUME IInv, IInv', LockInv, ResetStory, ResetHoldsRows, NEW s \in Sessions, Survives(s),
         CommandStep(s) \/ Call(s) \/ Close(s), CommitBy(s), reset' = reset
  PROVE  ResetStory'
<1> DEFINE t == reset.ticket
<1>1. \A w \in WorkflowsOf(t) : /\ w \in WorkflowsOf(t)'
                                /\ workflow'[w].cycle = workflow[w].cycle
  BY DEF CommitBy, Kept, WorkflowsOf
<1>2. RunsOf(t) \subseteq RunsOf(t)'
  BY DEF CommitBy, Kept, RunsOf
<1>3. RowsOfTicket(t) \subseteq RowsOfTicket(t)'
  <2>1. WorkflowsOf(t) \subseteq WorkflowsOf(t)'
    BY <1>1
  <2> QED BY <1>2, <2>1 DEF RowsOfTicket
<1>4. FoundFirstCycle => FoundFirstCycle'
  BY <1>1 DEF FoundFirstCycle
<1>5. ASSUME reset.at = "commit", FoundFirstCycle, FoundAll
      PROVE  FoundAll'
  <2>1. PICK first \in WorkflowsOf(t) : workflow[first].cycle = 1
    BY <1>5 DEF FoundFirstCycle
  <2>2. ASSUME NEW w \in WorkflowsOf(t)'
        PROVE  w \in WorkflowsOf(t)
    <3>1. Exists(w) /\ w \in WorkflowIds /\ workflow'[w].ticket = t
      BY <1>5, <2>1, <2>2, NoCycleUnderReset DEF FoundAll, WorkflowsOf
    <3> QED BY <3>1 DEF CommitBy, Kept, WorkflowsOf
  <2>3. ASSUME NEW w \in WorkflowsOf(t)
        PROVE  /\ w \in WorkflowIds /\ Exists(w)
               /\ holder[WorkflowRow(w)] # s
    <3>1. w \in WorkflowIds /\ Exists(w) /\ WorkflowRow(w) \in Rows
      BY <2>3 DEF WorkflowsOf, WorkflowRow, Rows
    <3> QED BY <1>5, <3>1, ResetterAssumption DEF FoundAll, ResetHoldsRows
  <2>4. ASSUME NEW w \in WorkflowsOf(t)
        PROVE  /\ approval'[w] = approval[w] /\ mutation'[w] = mutation[w]
               /\ \A r \in RunIds : \/ run'[r] = run[r]
                                    \/ run'[r].workflow # w
    BY <2>3 DEF CommitBy
  <2>5. ASSUME NEW r \in RunsOf(t)'
        PROVE  r \in RunsOf(t)
    <3>1. r \in RunIds /\ run'[r].status # Absent /\ run'[r].ticket = t
      BY <2>5 DEF RunsOf, RunExists
    <3>2. run'[r].workflow \in WorkflowsOf(t)'
      BY <3>1 DEF IInv, RunTracksWorkflow, RunExists, WorkflowsOf, Exists
    <3>3. run'[r] = run[r]
      BY <2>2, <2>4, <3>1, <3>2
    <3> QED BY <3>1, <3>3 DEF RunsOf, RunExists
  <2> QED BY <1>5, <2>2, <2>4, <2>5 DEF FoundAll
<1> QED BY <1>1, <1>3, <1>4, <1>5 DEF ResetStory, InReset, FoundNothing, IsReset

-----------------------------------------------------------------------------
(* The steps of the reset.                                                 *)

\* What a DELETE goes through are rows of the ticket.
LEMMA DeletesRowsOfTicket ==
  ASSUME NEW table \in {"approvals", "runs", "workflows", "commit"}, NEW t
  PROVE  RowsOf(table, t) \subseteq RowsOfTicket(t)
BY DEF RowsOf, RowsOfTicket

\* The rows of a ticket are rows.
LEMMA TicketRowsAreRows ==
  ASSUME NEW t
  PROVE  RowsOfTicket(t) \subseteq Rows
BY DEF RowsOfTicket, WorkflowsOf, RunsOf, Rows, WorkflowRow, ApprovalRow, RunRow

\* When the last DELETE begins, either the ticket has no workflow, or its first
\* cycle is among those the DELETE will meet.
LEMMA LastDeleteBegins ==
  ASSUME IInv, ResetStory, reset.at = "runs", reset.todo = {}, EndDelete
  PROVE  FoundNothing' \/ FoundFirstCycle'
<1> DEFINE t == reset.ticket
<1>1. reset' = [reset EXCEPT !.at = "workflows", !.todo = RowsOf("workflows", t)]
  BY DEF EndDelete, AfterTable
<1>2. /\ reset'.todo = {WorkflowRow(w) : w \in WorkflowsOf(t)}
      /\ reset'.ticket = t /\ reset'.gone = reset.gone
      /\ reset'.mutations = reset.mutations
  BY <1>1 DEF ResetStory, IsReset, RowsOf
<1>3. UNCHANGED tables
  BY DEF EndDelete, vars
<1>4. CASE WorkflowsOf(t) = {}
  <2>1. RunsOf(t) = {}
    BY <1>4 DEF RunsOf, IInv, RunTracksWorkflow
  <2>2. reset.gone = {} /\ reset.mutations = {}
    BY <1>4, <2>1 DEF ResetStory, RowsOfTicket
  <2> QED BY <1>2, <1>4, <2>2 DEF FoundNothing
<1>5. CASE WorkflowsOf(t) # {}
  <2>1. PICK w \in WorkflowsOf(t) : workflow[w].cycle = 1
    BY <1>5, FirstCycle
  <2>2. w \in WorkflowsOf(t)' /\ workflow'[w].cycle = 1
    BY <1>2, <1>3, <2>1 DEF tables, WorkflowsOf, Exists
  <2> QED BY <1>2, <2>1, <2>2 DEF FoundFirstCycle
<1> QED BY <1>4, <1>5

\* When the last DELETE ends, its foreign keys have shown that nothing of the
\* ticket is left: no row refers to a deleted workflow, not even a next cycle.
LEMMA LastDeleteEnds ==
  ASSUME IInv, ResetStory, FoundFirstCycle, reset.todo = {}, ForeignKeysHold("workflows")
  PROVE  FoundAll
<1> DEFINE t == reset.ticket
           left == {workflow[w].cycle : w \in {v \in WorkflowsOf(t) :
                                                 WorkflowRow(v) \notin reset.gone}}
<1>1. \A w \in WorkflowIds : WorkflowRow(w) \in reset.gone =>
        /\ ~MutationRefersTo(w) /\ ~ApprovalRefersTo(w) /\ ~RunRefersTo(w)
        /\ \A v \in WorkflowsOf(t) :
             workflow[v].cycle = workflow[w].cycle + 1 => WorkflowRow(v) \in reset.gone
  BY DEF ForeignKeysHold
<1>2. PICK first \in WorkflowsOf(t) : /\ workflow[first].cycle = 1
                                      /\ WorkflowRow(first) \in reset.gone
  BY DEF FoundFirstCycle
<1>3. \A w \in WorkflowsOf(t) : /\ w \in WorkflowIds /\ Exists(w)
                                /\ workflow[w].ticket = t /\ workflow[w].cycle \in Nat
  BY DEF WorkflowsOf, IInv, TypeOK, WorkflowRows
<1>4. left = {}
  <2> SUFFICES ASSUME left # {} PROVE FALSE
    OBVIOUS
  <2>1. left \subseteq Nat
    BY <1>3
  <2>2. PICK n \in left : \A m \in left : n <= m
    <3> HIDE DEF left
    <3> QED BY <2>1, Least
  <2>3. PICK w \in WorkflowsOf(t) : /\ WorkflowRow(w) \notin reset.gone
                                    /\ workflow[w].cycle = n
    BY <2>2
  <2>4. CASE n = 1
    <3>1. w = first
      BY <1>2, <1>3, <2>3, <2>4 DEF IInv, OneActiveCycle
    <3> QED BY <1>2, <2>3, <3>1
  <2>5. ASSUME NEW v \in WorkflowsOf(t), workflow[v].cycle = n - 1
        PROVE  FALSE
    <3>1. n \in Nat /\ workflow[w].cycle = workflow[v].cycle + 1
      BY <2>1, <2>2, <2>3, <2>5
    <3>2. WorkflowRow(v) \notin reset.gone
      BY <1>1, <1>3, <2>3, <3>1
    <3>3. n - 1 \in left
      BY <2>5, <3>2
    <3> HIDE DEF left
    <3> QED BY <2>2, <3>1, <3>3
  <2> QED BY <1>3, <2>3, <2>4, <2>5 DEF IInv, OneActiveCycle
<1>5. \A w \in WorkflowsOf(t) : WorkflowRow(w) \in reset.gone
  BY <1>4
<1>6. \A w \in WorkflowsOf(t) :
        /\ approval[w].status # Absent => ApprovalRow(w) \in reset.gone
        /\ mutation[w] # None => w \in reset.mutations
  BY <1>1, <1>3, <1>5 DEF MutationRefersTo, ApprovalRefersTo
<1>7. \A r \in RunsOf(t) : RunRow(r) \in reset.gone
  <2> TAKE r \in RunsOf(t)
  <2>1. r \in RunIds /\ run[r].workflow \in WorkflowsOf(t)
    BY DEF RunsOf, IInv, RunTracksWorkflow
  <2> QED BY <1>1, <1>3, <1>5, <2>1 DEF RunRefersTo
<1> QED BY <1>5, <1>6, <1>7 DEF FoundAll

\* What has to be shown of a step within a reset.
LEMMA StoryGoesOn ==
  ASSUME ResetStory, UNCHANGED tables, InReset, IsReset(reset'),
         reset'.ticket = reset.ticket,
         reset'.at \in {"commit"} \cup DOMAIN AfterTable,
         reset'.gone \cup reset'.todo \subseteq RowsOfTicket(reset.ticket),
         reset'.row \in reset'.todo \cup {None},
         reset'.mutations \subseteq WorkflowsOf(reset.ticket),
         reset'.at = "workflows" => FoundNothing' \/ FoundFirstCycle',
         reset'.at = "commit" => FoundNothing' \/ (FoundFirstCycle' /\ FoundAll')
  PROVE  ResetStory'
<1> DEFINE t == reset.ticket
<1>1. UNCHANGED <<workflow, run>> /\ reset'.at # "idle" /\ t \in Tickets
  BY DEF tables, AfterTable, ResetStory
<1>2. \A w \in WorkflowIds : Exists(w)' <=> Exists(w)
  BY <1>1 DEF Exists
<1>3. \A r \in RunIds : RunExists(r)' <=> RunExists(r)
  BY <1>1 DEF RunExists
<1>4. {w \in WorkflowIds : Exists(w)' /\ workflow'[w].ticket = t} = WorkflowsOf(t)
  BY <1>1, <1>2 DEF WorkflowsOf
<1>5. {r \in RunIds : RunExists(r)' /\ run'[r].ticket = t} = RunsOf(t)
  BY <1>1, <1>3 DEF RunsOf
<1>6. WorkflowsOf(reset.ticket)' = WorkflowsOf(t)
  BY <1>4 DEF WorkflowsOf
<1>7. RunsOf(reset.ticket)' = RunsOf(t)
  BY <1>5 DEF RunsOf
<1>8. RowsOfTicket(reset.ticket)' = RowsOfTicket(t)
  BY <1>6, <1>7 DEF RowsOfTicket
<1> QED BY <1>1, <1>6, <1>8 DEF ResetStory, InReset, IsReset

\* The rows the reset has met are the rows it holds.
LEMMA QuietResetStep ==
  ASSUME IInv, LockInv, ResetStory, ResetHoldsRows,
         \/ \E t \in Tickets : BeginReset(t)
         \/ DeleteMutations \/ NextRow \/ DeleteRow \/ EndDelete
         \/ RefuseDelete \/ ResetDies
  PROVE  /\ UNCHANGED <<tables, local, spent>>
         /\ LockInv' /\ ResetStory' /\ ResetHoldsRows'
<1> DEFINE t == reset.ticket
<1>1. ASSUME UNCHANGED <<vars, spent>>, reset'.gone = reset.gone
      PROVE  /\ UNCHANGED <<tables, local, spent>>
             /\ LockInv' /\ ResetHoldsRows'
  <2>1. UNCHANGED <<tables, local, spent, holder>>
    BY <1>1 DEF vars, local
  <2>2. LockInv'
    BY <2>1, ResetKeepsLocks DEF LockInv
  <2> QED BY <1>1, <2>1, <2>2 DEF ResetHoldsRows
<1>2. /\ IsReset(reset)
      /\ reset.at = "workflows" => FoundNothing \/ FoundFirstCycle
      /\ reset.gone \subseteq RowsOfTicket(t) /\ reset.todo \subseteq RowsOfTicket(t)
      /\ reset.mutations \subseteq WorkflowsOf(t)
      /\ reset.row \in reset.todo \cup {None}
      /\ InReset => reset.at \in {"commit"} \cup DOMAIN AfterTable
      /\ ~InReset => reset = NoReset
  BY DEF ResetStory, InReset
<1>3. CASE \E u \in Tickets : BeginReset(u)
  <2>1. PICK u \in Tickets : /\ ~InReset /\ UNCHANGED <<vars, spent>>
                             /\ reset' = [NoReset EXCEPT !.at = "mutations", !.ticket = u,
                                                         !.known = Transitions(u)]
    BY <1>3 DEF BeginReset
  <2>2. /\ IsReset(reset') /\ reset'.at = "mutations" /\ reset'.ticket = u
        /\ reset'.gone = {} /\ reset'.todo = {} /\ reset'.mutations = {}
        /\ reset'.row = None /\ reset.gone = {}
    <3> DEFINE known == Transitions(u)
    <3>1. reset' = [NoReset EXCEPT !.at = "mutations", !.ticket = u, !.known = known]
      BY <2>1
    <3>2. reset.gone = {}
      BY <1>2, <2>1 DEF NoReset
    <3> HIDE DEF known
    <3>3. reset' = [at |-> "mutations", ticket |-> u, known |-> known, mutations |-> {},
                    gone |-> {}, todo |-> {}, row |-> None]
      BY <3>1 DEF NoReset
    <3> QED BY <3>2, <3>3 DEF IsReset
  <2>3. ResetStory'
    BY <2>2 DEF ResetStory, InReset, IsReset, AfterTable
  <2> QED BY <1>1, <2>1, <2>2, <2>3
<1>4. CASE DeleteMutations
  <2>1. /\ reset.at = "mutations" /\ UNCHANGED <<vars, spent>> /\ InReset
        /\ reset' = [reset EXCEPT !.mutations = {w \in WorkflowsOf(t) : mutation[w] # None}]
    BY <1>4 DEF DeleteMutations, InReset
  <2>2. /\ IsReset(reset') /\ reset'.at = "mutations" /\ reset'.ticket = t
        /\ reset'.gone = reset.gone /\ reset'.todo = reset.todo /\ reset'.row = reset.row
        /\ reset'.mutations \subseteq WorkflowsOf(t)
    BY <1>2, <2>1 DEF IsReset
  <2>3. ResetStory'
    BY <1>2, <2>1, <2>2, StoryGoesOn DEF vars, AfterTable
  <2> QED BY <1>1, <2>1, <2>2, <2>3
<1>5. CASE NextRow
  <2>1. PICK row \in reset.todo : reset' = [reset EXCEPT !.row = row]
    BY <1>5 DEF NextRow
  <2>2. UNCHANGED <<vars, spent>>
    BY <1>5 DEF NextRow
  <2>3. /\ IsReset(reset') /\ reset'.at = reset.at /\ reset'.ticket = t
        /\ reset'.gone = reset.gone /\ reset'.todo = reset.todo /\ reset'.row \in reset.todo
        /\ reset'.mutations = reset.mutations
    BY <1>2, <2>1 DEF IsReset
  <2>4. InReset
    BY <1>2, <2>1 DEF NoReset
  <2>5. UNCHANGED <<workflow, run, approval, mutation>> /\ UNCHANGED tables
    BY <2>2 DEF vars, tables
  <2>6. ResetStory'
    <3>1. /\ FoundNothing => FoundNothing'
          /\ FoundFirstCycle => FoundFirstCycle'
          /\ FoundAll => FoundAll'
      BY <2>3, <2>5 DEF FoundNothing, FoundFirstCycle, FoundAll, WorkflowsOf, RunsOf,
         Exists, RunExists
    <3> QED BY <1>2, <2>3, <2>4, <2>5, <3>1, StoryGoesOn DEF ResetStory
  <2> QED BY <1>1, <2>2, <2>3, <2>6
<1>6. CASE DeleteRow
  <2> DEFINE row == reset.row
  <2>1. /\ row # None /\ Free(Resetter, row) /\ Lock(Resetter, row)
        /\ reset' = [reset EXCEPT !.row = None, !.todo = @ \ {row}, !.gone = @ \cup {row}]
        /\ UNCHANGED <<tables, local, spent>>
    BY <1>6 DEF DeleteRow
  <2>2. row \in reset.todo /\ row \in Rows
    BY <1>2, <2>1, TicketRowsAreRows
  <2> HIDE DEF row
  <2>3. /\ IsReset(reset') /\ reset'.at = reset.at /\ reset'.ticket = t
        /\ reset'.gone = reset.gone \cup {row} /\ reset'.todo = reset.todo \ {row}
        /\ reset'.row = None /\ reset'.mutations = reset.mutations
    BY <1>2, <2>1 DEF IsReset
  <2>4. InReset
    BY <1>2, <2>2 DEF NoReset
  <2>5. LockInv' /\ ResetHoldsRows'
    <3>1. holder = [r \in Rows |-> holder[r]]
      BY DEF LockInv
    <3>2. holder' = [holder EXCEPT ![row] = Resetter] /\ holder[row] \in {None, Resetter}
      BY <2>1 DEF Lock, Free
    <3>3. LockInv'
      BY <2>1, <3>1, <3>2, ResetKeepsLocks
    <3> QED BY <2>2, <2>3, <3>1, <3>2, <3>3 DEF ResetHoldsRows
  <2>6. UNCHANGED <<workflow, run, approval, mutation>> /\ UNCHANGED tables
    BY <2>1 DEF tables
  <2>7. ResetStory'
    <3>1. /\ FoundFirstCycle => FoundFirstCycle'
          /\ FoundAll => FoundAll'
      BY <2>3, <2>6 DEF FoundFirstCycle, FoundAll, WorkflowsOf, RunsOf, Exists, RunExists
    <3>2. ~FoundNothing
      BY <2>2 DEF FoundNothing
    <3>3. reset'.gone \cup reset'.todo \subseteq RowsOfTicket(t)
      BY <1>2, <2>2, <2>3
    <3> QED BY <1>2, <2>3, <2>4, <2>6, <3>1, <3>2, <3>3, StoryGoesOn DEF ResetStory
  <2> QED BY <2>1, <2>5, <2>7
<1>7. CASE EndDelete
  <2> DEFINE next == AfterTable[reset.at]
  <2>1. /\ reset.at \in DOMAIN AfterTable /\ reset.row = None /\ reset.todo = {}
        /\ ForeignKeysHold(reset.at) /\ UNCHANGED <<vars, spent>>
        /\ reset' = [reset EXCEPT !.at = next, !.todo = RowsOf(next, t)]
    BY <1>7 DEF EndDelete
  <2>2. /\ next \in {"approvals", "runs", "workflows", "commit"}
        /\ next = "workflows" => reset.at = "runs"
        /\ next = "commit" => reset.at = "workflows"
    BY <2>1 DEF AfterTable
  <2>3. RowsOf(next, t) \subseteq RowsOfTicket(t)
    BY <2>2, DeletesRowsOfTicket
  <2> HIDE DEF next
  <2>4. /\ IsReset(reset') /\ reset'.at = next /\ reset'.ticket = t
        /\ reset'.gone = reset.gone /\ reset'.todo = RowsOf(next, t)
        /\ reset'.row = None /\ reset'.mutations = reset.mutations
    BY <1>2, <2>1 DEF IsReset
  <2>5. InReset /\ UNCHANGED tables /\ UNCHANGED <<workflow, run, approval, mutation>>
    BY <2>1 DEF InReset, AfterTable, vars, tables
  <2>6. next = "workflows" => FoundNothing' \/ FoundFirstCycle'
    BY <1>7, <2>1, <2>2, LastDeleteBegins
  <2>7. next = "commit" => FoundNothing' \/ (FoundFirstCycle' /\ FoundAll')
    <3> SUFFICES ASSUME next = "commit"
                 PROVE  FoundNothing' \/ (FoundFirstCycle' /\ FoundAll')
      OBVIOUS
    <3>1. reset.at = "workflows" /\ reset'.todo = {}
      BY <2>2, <2>4 DEF RowsOf
    <3>2. CASE FoundNothing
      BY <2>4, <3>1, <3>2 DEF FoundNothing
    <3>3. CASE FoundFirstCycle
      <4>1. FoundAll
        BY <2>1, <3>1, <3>3, LastDeleteEnds
      <4>2. FoundFirstCycle' /\ FoundAll'
        BY <2>1, <2>4, <2>5, <3>1, <3>3, <4>1
           DEF FoundFirstCycle, FoundAll, WorkflowsOf, RunsOf, Exists, RunExists
      <4> QED BY <4>2
    <3> QED BY <1>2, <3>1, <3>2, <3>3
  <2>8. reset'.at \in {"commit"} \cup DOMAIN AfterTable
    BY <2>2, <2>4 DEF AfterTable
  <2>9. ResetStory'
    BY <1>2, <2>3, <2>4, <2>5, <2>6, <2>7, <2>8, StoryGoesOn
  <2> QED BY <1>1, <2>1, <2>4, <2>9
<1>8. CASE AbortReset
  <2>1. /\ reset' = NoReset /\ UNCHANGED <<tables, local, spent>>
        /\ holder' = [row \in Rows |-> IF holder[row] = Resetter THEN None ELSE holder[row]]
    BY <1>8 DEF AbortReset, ReleaseAll
  <2>2. LockInv'
    BY <2>1, ResetKeepsLocks
  <2>3. ResetHoldsRows'
    BY <2>1, ResetterAssumption DEF ResetHoldsRows, NoReset
  <2>4. ResetStory'
    BY <2>1 DEF ResetStory, IsReset, NoReset, InReset
  <2> QED BY <2>1, <2>2, <2>3, <2>4
<1> QED BY <1>3, <1>4, <1>5, <1>6, <1>7, <1>8 DEF RefuseDelete, ResetDies

-----------------------------------------------------------------------------
(* The commit of the reset.                                                *)

\* What has been deleted is of the reset's ticket.
LEMMA GoneRows ==
  ASSUME ResetStory
  PROVE  /\ \A w : WorkflowRow(w) \in reset.gone => w \in WorkflowsOf(reset.ticket)
         /\ \A w : ApprovalRow(w) \in reset.gone => w \in WorkflowsOf(reset.ticket)
         /\ \A r : RunRow(r) \in reset.gone => r \in RunsOf(reset.ticket)
BY DEF ResetStory, RowsOfTicket, WorkflowRow, ApprovalRow, RunRow

\* A reset that has found everything deletes the ticket.
LEMMA FoundAllIsReset ==
  ASSUME IInv, ResetStory, CommitReset, FoundAll
  PROVE  reset.ticket \in Tickets /\ ResetTicket(reset.ticket)
<1> DEFINE t == reset.ticket
<1>1. t \in Tickets
  BY DEF CommitReset, ResetStory, InReset
<1>2. \A w \in WorkflowIds : WorkflowRow(w) \in reset.gone <=> w \in WorkflowsOf(t)
  BY GoneRows DEF FoundAll
<1>3. \A r \in RunIds : RunRow(r) \in reset.gone <=> r \in RunsOf(t)
  BY GoneRows DEF FoundAll
<1>4. ASSUME NEW w \in WorkflowIds
      PROVE  (IF ApprovalRow(w) \in reset.gone THEN NoApproval ELSE approval[w])
               = (IF w \in WorkflowsOf(t) THEN NoApproval ELSE approval[w])
  <2>1. approval[w].status = Absent => approval[w] = NoApproval
    BY DEF IInv, RowsAreComplete
  <2> QED BY <2>1, GoneRows DEF FoundAll
<1>5. ASSUME NEW w \in WorkflowIds
      PROVE  (IF w \in reset.mutations THEN None ELSE mutation[w])
               = (IF w \in WorkflowsOf(t) THEN None ELSE mutation[w])
  BY DEF FoundAll, ResetStory
<1> HIDE DEF t
<1>6. /\ workflow' = [w \in WorkflowIds |->
           IF w \in WorkflowsOf(t) THEN NoWorkflow ELSE workflow[w]]
      /\ ledger' = [w \in WorkflowIds |-> IF w \in WorkflowsOf(t) THEN {} ELSE ledger[w]]
      /\ run' = [r \in RunIds |-> IF r \in RunsOf(t) THEN NoRun ELSE run[r]]
  BY <1>2, <1>3 DEF CommitReset
<1>7. approval' = [w \in WorkflowIds |->
        IF w \in WorkflowsOf(t) THEN NoApproval ELSE approval[w]]
  BY <1>4 DEF CommitReset
<1>8. mutation' = [w \in WorkflowIds |->
        IF w \in WorkflowsOf(t) THEN None ELSE mutation[w]]
  BY <1>5 DEF CommitReset
<1> QED BY <1>1, <1>6, <1>7, <1>8 DEF ResetTicket, DeleteTicket, t

\* A reset that has found nothing deletes nothing.
LEMMA FoundNothingIsQuiet ==
  ASSUME IInv, CommitReset, FoundNothing
  PROVE  UNCHANGED tables
BY DEF CommitReset, FoundNothing, IInv, TypeOK, tables

\* The commit of a reset is a reset of CaseWorkflow or nothing.
LEMMA CommitIsReset ==
  ASSUME IInv, ResetStory, CommitReset
  PROVE  [Next]_tables /\ IInv'
<1>1. FoundNothing \/ FoundAll
  BY DEF CommitReset, ResetStory
<1>2. [Next]_tables
  BY <1>1, FoundAllIsReset, FoundNothingIsQuiet DEF Next
<1> QED BY <1>2, NextIInv, StutterIInv

\* It gives its locks back and uses up the ids of what it has deleted.
LEMMA CommitEndsReset ==
  ASSUME IInv, LockInv, SpentRowsAreGone, ResetStory, CommitReset
  PROVE  LockInv' /\ SpentRowsAreGone' /\ ResetStory' /\ ResetHoldsRows'
<1>1. /\ reset' = NoReset /\ UNCHANGED local /\ spent' = spent \cup reset.gone
      /\ holder' = [row \in Rows |-> IF holder[row] = Resetter THEN None ELSE holder[row]]
  BY DEF CommitReset, ReleaseAll
<1>2. LockInv'
  BY <1>1, ResetKeepsLocks
<1>3. ResetHoldsRows'
  BY <1>1, ResetterAssumption DEF ResetHoldsRows, NoReset
<1>4. ResetStory'
  BY <1>1 DEF ResetStory, IsReset, NoReset, InReset
<1>5. SpentRowsAreGone'
  <2>1. \A w \in WorkflowIds : WorkflowRow(w) \in spent' => ~Exists(w)'
    BY <1>1 DEF SpentRowsAreGone, CommitReset, Exists, NoWorkflow
  <2>2. \A r \in RunIds : RunRow(r) \in spent' => ~RunExists(r)'
    BY <1>1 DEF SpentRowsAreGone, CommitReset, RunExists, NoRun
  <2> QED BY <2>1, <2>2 DEF SpentRowsAreGone
<1> QED BY <1>2, <1>3, <1>4, <1>5

-----------------------------------------------------------------------------
(* What the sessions know when the reset commits.                          *)

\* A command on a workflow of another ticket knows what it knew.
LEMMA ResetSparesCommand ==
  ASSUME IInv, LockInv, NEW t \in Tickets, ResetTicket(t), UNCHANGED local,
         NEW q \in Sessions, Story(q), cmd[q].workflow \notin WorkflowsOf(t),
         at[q] \in WorkflowLocked \cup {"read_run", "lock_workflow", "read_approval"}
  PROVE  Story(q)'
<1> DEFINE w == cmd[q].workflow
           r == cmd[q].run
<1>1. at' = at /\ cmd' = cmd /\ seen' = seen /\ RowsAreKnown(q)
  BY DEF local, LockInv
<1>2. w \in WorkflowIds
  BY <1>1 DEF RowsAreKnown
<1>3. workflow'[w] = workflow[w] /\ approval'[w] = approval[w]
  BY <1>2, ResetEffect DEF WorkflowsOf
<1>4. ASSUME NEW p \in RunIds
      PROVE  \/ run'[p] = run[p]
             \/ /\ run'[p].workflow # w
                /\ RunExists(p) => run[p].workflow # w
  <2>1. CASE RunExists(p) /\ run[p].ticket = t
    <3>1. run'[p].workflow = None
      BY <2>1, ResetEffect DEF NoRun
    <3>2. run[p].workflow \in WorkflowsOf(t)
      BY <2>1 DEF IInv, RunTracksWorkflow
    <3> QED BY <1>2, <3>1, <3>2, NoneAssumption
  <2>2. CASE ~(RunExists(p) /\ run[p].ticket = t)
    BY <2>2, ResetEffect
  <2> QED BY <2>1, <2>2
<1>5. at[q] \notin StartSteps /\ at[q] # "idle"
  BY DEF WorkflowLocked, StartSteps
<1>6. EndIssued(cmd[q]) => EndIssued(cmd[q])' /\ run'[r] = run[r]
  BY <1>1, <1>4 DEF EndIssued, RunExists
<1>7. /\ CancelIssued(cmd[q]) => CancelIssued(cmd[q])'
      /\ DecideIssued(cmd[q]) => DecideIssued(cmd[q])'
  BY <1>1, <1>3 DEF CancelIssued, DecideIssued, Exists
<1>8. Issued(q)'
  BY <1>1, <1>5, <1>6, <1>7 DEF Story, Issued
<1>9. KnowsTicket(q)' /\ AnswerHolds(q)'
  BY <1>1, <1>5 DEF KnowsTicket, AnswerHolds, StartSteps
<1>10. KnowsWorkflow(q)'
  <2>1. KnowsWorkflow(q)
    BY DEF Story
  <2>2. ASSUME at[q] \in {"check_end", "commit_end"}
        PROVE  run'[r] = run[r]
    <3>1. EndIssued(cmd[q])
      BY <2>2 DEF Story, Issued, StartSteps, CancelSteps, DecideSteps
    <3> QED BY <1>6, <3>1
  <2>3. \A a : IsExecuted(workflow[w].ticket, a)' => IsExecuted(workflow[w].ticket, a)
    <3> SUFFICES ASSUME NEW a, NEW v \in WorkflowIds, mutation'[v] # None,
                        workflow'[v].ticket = workflow'[w].ticket, mutation'[v] = a
                 PROVE  IsExecuted(workflow[w].ticket, a)
      BY <1>1 DEF IsExecuted
    <3>1. workflow'[v] = workflow[v] /\ mutation'[v] = mutation[v]
      BY ResetEffect
    <3> QED BY <1>3, <3>1 DEF IsExecuted
  <2>4. {p \in RunIds : run'[p].workflow = w /\ run'[p].status = "running"}
          = {p \in RunIds : run[p].workflow = w /\ run[p].status = "running"}
    BY <1>4 DEF RunExists, Absent
  <2> HIDE DEF w, r
  <2> QED BY <1>1, <1>3, <2>1, <2>2, <2>3, <2>4 DEF KnowsWorkflow, Terminal, w, r
<1> QED BY <1>8, <1>9, <1>10 DEF Story

\* A start whose active workflow is of another ticket knows what it knew.
LEMMA ResetSparesStart ==
  ASSUME IInv, LockInv, NEW t \in Tickets, ResetTicket(t), UNCHANGED local,
         NEW q \in Sessions, Story(q),
         at[q] \in {"lock_active", "use_active"}, seen[q].target \notin WorkflowsOf(t)
  PROVE  Story(q)'
<1> DEFINE w == seen[q].target
<1>1. at' = at /\ cmd' = cmd /\ seen' = seen
  BY DEF local
<1>2. w \in WorkflowIds /\ w \in WorkflowsOf(cmd[q].ticket)
  BY DEF Story, KnowsTicket, WorkflowsOf
<1>3. workflow'[w] = workflow[w]
  BY <1>2, ResetEffect DEF WorkflowsOf
<1>4. Issued(q)'
  BY <1>1 DEF Story, Issued, StartIssued, EndSteps, CancelSteps, DecideSteps
<1>5. KnowsTicket(q)'
  <2>1. w \in WorkflowsOf(cmd[q].ticket)'
    BY <1>1, <1>2, <1>3 DEF WorkflowsOf, Exists
  <2>2. Active(w)' <=> Active(w)
    BY <1>1, <1>3 DEF Active
  <2> HIDE DEF w
  <2> QED BY <1>1, <1>3, <2>1, <2>2 DEF Story, KnowsTicket, w
<1>6. KnowsWorkflow(q)' /\ AnswerHolds(q)'
  BY <1>1 DEF KnowsWorkflow, WorkflowLocked, AnswerHolds
<1> QED BY <1>4, <1>5, <1>6 DEF Story

\* Every session goes on with what it knows, or names a row that is gone.
LEMMA CommitSurvives ==
  ASSUME IInv, LockInv, ResetStory, ResetHoldsRows, CommitReset,
         NEW q \in Sessions, Survives(q)
  PROVE  Survives(q)'
<1> DEFINE t == reset.ticket
<1>1. UNCHANGED local /\ spent' = spent \cup reset.gone
  BY DEF CommitReset
<1>2. at' = at /\ cmd' = cmd /\ seen' = seen
  BY <1>1 DEF local
<1>3. CASE at[q] = "answered" \/ Adrift(q) \/ Counting(q)
  BY <1>1, <1>2, <1>3 DEF Survives, Adrift, Counting, StartIssued
<1>4. CASE Story(q) /\ FoundNothing
  BY <1>1, <1>4, FoundNothingIsQuiet, StoryUnchanged DEF Survives
<1>5. ASSUME Story(q), FoundAll, at[q] # "answered"
      PROVE  Survives(q)'
  <2>1. t \in Tickets /\ ResetTicket(t)
    BY <1>5, FoundAllIsReset
  <2>2. \A w \in WorkflowsOf(t) : /\ WorkflowRow(w) \in spent'
                                  /\ holder[WorkflowRow(w)] \notin Sessions
    <3>1. \A w \in WorkflowsOf(t) : WorkflowRow(w) \in Rows
      BY DEF WorkflowsOf, WorkflowRow, Rows
    <3> QED BY <1>1, <1>5, <3>1, ResetterAssumption DEF FoundAll, ResetHoldsRows
  <2>3. RowsAreKnown(q) /\ at[q] \in Labels
    BY DEF LockInv
  <2>4. CASE at[q] \in {"idle", "lookup", "select_active", "select_previous", "reread"}
    <3>1. Issued(q)'
      BY <1>2, <1>5, <2>4 DEF Story, Issued, StartIssued, EndSteps, CancelSteps, DecideSteps,
         StartSteps
    <3>2. KnowsTicket(q)' /\ KnowsWorkflow(q)' /\ AnswerHolds(q)'
      BY <1>2, <2>4 DEF KnowsTicket, KnowsWorkflow, WorkflowLocked, AnswerHolds
    <3> QED BY <3>1, <3>2 DEF Story, Survives
  <2>5. CASE at[q] = "insert_cycle"
    <3>1. cmd[q].op = "start" /\ StartIssued(cmd[q])
      BY <1>5, <2>5, CommandOfStep DEF StartSteps
    <3>2. seen[q].workflow.cycle \in Nat
      BY <1>5, <2>5 DEF Story, KnowsTicket, CyclesOf, IInv, TypeOK, WorkflowRows, WorkflowsOf
    <3> QED BY <1>2, <2>5, <3>1, <3>2 DEF Survives, Counting, StartIssued
  <2>6. CASE at[q] \in {"lock_active", "use_active"}
    <3> DEFINE w == seen[q].target
    <3>1. CASE w \notin WorkflowsOf(t)
      BY <1>1, <1>5, <2>1, <2>6, <3>1, ResetSparesStart DEF Survives
    <3>2. CASE w \in WorkflowsOf(t)
      <4>1. at[q] = "lock_active"
        <5> SUFFICES ASSUME at[q] = "use_active" PROVE FALSE
          BY <2>6
        <5>1. WorkflowRow(w) \in Rows /\ Holds(q, WorkflowRow(w))
          BY <3>2 DEF WorkflowsOf, Rows, WorkflowRow, Holds
        <5>2. holder[WorkflowRow(w)] = q
          BY <5>1 DEF LockInv, LocksFollowSteps
        <5> QED BY <2>2, <3>2, <5>2
      <4>2. cmd[q].op = "start" /\ StartIssued(cmd[q])
        BY <1>5, <4>1, CommandOfStep DEF StartSteps
      <4> QED BY <1>2, <2>2, <3>2, <4>1, <4>2 DEF Survives, Adrift, StartIssued
    <3> QED BY <3>1, <3>2
  <2>7. CASE at[q] \in WorkflowLocked \cup {"read_run", "lock_workflow", "read_approval"}
    <3> DEFINE w == cmd[q].workflow
    <3>1. CASE w \notin WorkflowsOf(t)
      BY <1>1, <1>5, <2>1, <2>7, <3>1, ResetSparesCommand DEF Survives
    <3>2. CASE w \in WorkflowsOf(t)
      <4>1. at[q] \notin WorkflowLocked
        BY <1>5, <2>2, <3>2, LockedWorkflow
      <4>2. CASE at[q] = "read_run"
        <5>1. EndIssued(cmd[q])
          BY <1>5, <4>2 DEF Story, Issued, StartSteps, CancelSteps, DecideSteps
        <5>2. cmd[q].run \in RunsOf(t)
          BY <3>2, <5>1 DEF EndIssued, IInv, RunTracksWorkflow, WorkflowsOf, RunsOf
        <5>3. RunRow(cmd[q].run) \in spent'
          BY <1>1, <1>5, <5>2 DEF FoundAll
        <5> QED BY <1>2, <4>2, <5>3 DEF Survives, Adrift
      <4>3. CASE at[q] \in {"lock_workflow", "read_approval"}
        BY <1>2, <2>2, <3>2, <4>3 DEF Survives, Adrift
      <4> QED BY <2>7, <4>1, <4>2, <4>3
    <3> QED BY <3>1, <3>2
  <2> QED BY <1>5, <2>3, <2>4, <2>5, <2>6, <2>7 DEF Labels
<1> QED BY <1>3, <1>4, <1>5 DEF Survives, CommitReset, ResetStory

-----------------------------------------------------------------------------
(* The invariant of the resets.                                            *)

\* A step of a command leaves the reset its rows, and takes no deleted id.
LEMMA CommandKeepsReset ==
  ASSUME LockInv, SpentRowsAreGone, ResetHoldsRows, NEW s \in Sessions,
         \/ CommandStep(s)
         \/ (Call(s) \/ Close(s)) /\ UNCHANGED <<reset, spent>>
  PROVE  UNCHANGED <<reset, spent>> /\ ResetHoldsRows' /\ SpentRowsAreGone'
<1>1. UNCHANGED <<reset, spent>>
  BY DEF CommandStep
<1>2. \A row \in Rows : holder'[row] = Resetter <=> holder[row] = Resetter
  <2>1. CASE Call(s) \/ Proceed(s) \/ Close(s)
    BY <2>1, SessionLocks
  <2>2. CASE ReplyMissing(s) \/ PreviousIsGone(s)
    <3>1. ReleaseAll(s)
      BY <2>2 DEF ReplyMissing, Reply, Answer, PreviousIsGone
    <3> QED BY <3>1, ResetterAssumption DEF ReleaseAll
  <2> QED BY <2>1, <2>2 DEF CommandStep
<1>3. SpentRowsAreGone'
  <2>1. CASE CommandStep(s)
    BY <1>1, <2>1 DEF CommandStep, FreshIds, SpentRowsAreGone, Exists, RunExists
  <2>2. CASE Call(s) \/ Close(s)
    <3>1. UNCHANGED tables
      BY <2>2 DEF Call, CallStart, CallEnd, CallCancel, CallDecide, Begin, Close
    <3> QED BY <1>1, <3>1 DEF tables, SpentRowsAreGone, Exists, RunExists
  <2> QED BY <2>1, <2>2
<1> QED BY <1>1, <1>2, <1>3 DEF ResetHoldsRows

\* A step of a command among resets.
LEMMA CommandInvStep ==
  ASSUME ResetInv, NEW s \in Sessions,
         \/ CommandStep(s)
         \/ (Call(s) \/ Close(s)) /\ UNCHANGED <<reset, spent>>
  PROVE  ResetInv' /\ [Next]_tables
<1>1. /\ IInv /\ LockInv /\ SpentRowsAreGone /\ ResetStory /\ ResetHoldsRows
      /\ \A q \in Sessions : Survives(q)
  BY DEF ResetInv
<1>2. Survives(s)' /\ CommitBy(s) /\ LockInv' /\ OthersWait(s)
  BY <1>1, CommandStory
<1>3. UNCHANGED <<reset, spent>> /\ ResetHoldsRows' /\ SpentRowsAreGone'
  BY <1>1, CommandKeepsReset
<1>4. [Next]_tables /\ IInv'
  BY <1>1, <1>2, NextIInv, StutterIInv DEF CommitBy
<1>5. \A q \in Sessions \ {s} : Survives(q)'
  BY <1>1, <1>2, <1>3, OthersSurvive
<1>6. ResetStory'
  BY <1>1, <1>2, <1>3, <1>4, ResetStoryKept
<1> QED BY <1>2, <1>3, <1>4, <1>5, <1>6 DEF ResetInv

\* A step of a reset.
LEMMA ResetInvStep ==
  ASSUME ResetInv, (\E t \in Tickets : BeginReset(t)) \/ Reset \/ ResetDies
  PROVE  ResetInv' /\ [Next]_tables
<1>1. /\ IInv /\ LockInv /\ SpentRowsAreGone /\ ResetStory /\ ResetHoldsRows
      /\ \A q \in Sessions : Survives(q)
  BY DEF ResetInv
<1>2. CASE CommitReset
  <2>1. [Next]_tables /\ IInv'
    BY <1>1, <1>2, CommitIsReset
  <2>2. LockInv' /\ SpentRowsAreGone' /\ ResetStory' /\ ResetHoldsRows'
    BY <1>1, <1>2, CommitEndsReset
  <2>3. \A q \in Sessions : Survives(q)'
    BY <1>1, <1>2, CommitSurvives
  <2> QED BY <2>1, <2>2, <2>3 DEF ResetInv
<1>3. CASE \/ \E t \in Tickets : BeginReset(t)
           \/ DeleteMutations \/ NextRow \/ DeleteRow \/ EndDelete
           \/ RefuseDelete \/ ResetDies
  <2>1. /\ UNCHANGED <<tables, local, spent>>
        /\ LockInv' /\ ResetStory' /\ ResetHoldsRows'
    BY <1>1, <1>3, QuietResetStep
  <2>2. IInv'
    BY <1>1, <2>1, StutterIInv
  <2>3. SpentRowsAreGone'
    BY <1>1, <2>1 DEF tables, SpentRowsAreGone, Exists, RunExists
  <2>4. ASSUME NEW q \in Sessions PROVE Survives(q)'
    <3>1. Story(q) => Story(q)'
      BY <2>1, StoryUnchanged
    <3>2. at' = at /\ cmd' = cmd /\ seen' = seen /\ spent' = spent
      BY <2>1 DEF local
    <3> QED BY <1>1, <3>1, <3>2 DEF Survives, Adrift, Counting, StartIssued
  <2> QED BY <2>1, <2>2, <2>3, <2>4 DEF ResetInv
<1> QED BY <1>2, <1>3 DEF Reset

\* Time passing keeps the invariant.
LEMMA ResetStutter == ResetInv /\ UNCHANGED resetVars => ResetInv'
<1> SUFFICES ASSUME ResetInv, UNCHANGED resetVars PROVE ResetInv'
  OBVIOUS
<1>1. /\ UNCHANGED <<workflow, ledger, run, approval, mutation, at, cmd, seen, answer,
                     holder, reset, spent>>
      /\ UNCHANGED <<tables, local>>
  BY DEF resetVars, vars, tables, local
<1>2. IInv'
  BY <1>1, StutterIInv DEF ResetInv
<1>3. LockInv'
  BY <1>1, ResetKeepsLocks DEF ResetInv, LockInv
<1>4. SpentRowsAreGone' /\ ResetHoldsRows'
  BY <1>1 DEF ResetInv, SpentRowsAreGone, Exists, RunExists, ResetHoldsRows
<1>5. ResetStory'
  <2>1. ResetStory
    BY DEF ResetInv
  <2>2. CASE InReset
    <3>1. /\ FoundNothing => FoundNothing'
          /\ FoundFirstCycle => FoundFirstCycle'
          /\ FoundAll => FoundAll'
      BY <1>1 DEF FoundNothing, FoundFirstCycle, FoundAll, WorkflowsOf, RunsOf, Exists,
         RunExists
    <3> QED BY <1>1, <2>1, <2>2, <3>1, StoryGoesOn DEF ResetStory, InReset
  <2>3. CASE ~InReset
    <3>1. reset' = NoReset
      BY <1>1, <2>1, <2>3 DEF ResetStory
    <3> QED BY <3>1 DEF ResetStory, IsReset, NoReset, InReset
  <2> QED BY <2>2, <2>3
<1>6. ASSUME NEW q \in Sessions PROVE Survives(q)'
  <2>1. Story(q) => Story(q)'
    BY <1>1, StoryUnchanged
  <2> QED BY <1>1, <2>1 DEF ResetInv, Survives, Adrift, Counting, StartIssued
<1> QED BY <1>2, <1>3, <1>4, <1>5, <1>6 DEF ResetInv

\* An empty database without sessions and without a reset satisfies it.
LEMMA ResetInitInv == ResetInit => ResetInv
<1> SUFFICES ASSUME ResetInit PROVE ResetInv
  OBVIOUS
<1>1. SessionInv /\ reset = NoReset /\ spent = {}
  BY SessionInitInv DEF ResetInit
<1>2. IInv /\ LockInv /\ \A q \in Sessions : Survives(q)
  BY <1>1 DEF SessionInv, Survives
<1>3. SpentRowsAreGone
  BY <1>1 DEF SpentRowsAreGone
<1>4. ResetStory
  BY <1>1 DEF ResetStory, IsReset, NoReset, InReset
<1>5. ResetHoldsRows
  BY <1>1, ResetterAssumption DEF ResetInit, SessionInit, ResetHoldsRows, NoReset
<1> QED BY <1>2, <1>3, <1>4, <1>5 DEF ResetInv

\* In every reachable state the tables are sound, every session and the reset hold
\* the locks of their steps, no deleted id is in use, and a reset that is about
\* to commit has either found nothing or locked all there is of its ticket
\* (reset_demo_live_state and reset_eval_fixture_state, repositories.py).
THEOREM ResetInvariance == ResetSpec => []ResetInv
<1>1. ResetInv /\ [ResetNext]_resetVars => ResetInv'
  BY CommandInvStep, ResetInvStep, ResetStutter DEF ResetNext
<1> QED BY <1>1, ResetInitInv, PTL DEF ResetSpec

\* Resets are atomic: the tables change as if each reset that commits had deleted
\* its ticket in one step, between two commands, although its DELETEs see the
\* rows of different moments (reset_demo_live_state, repositories.py).
THEOREM ResetsAreAtomicSteps == ResetSpec => ResetsAreAtomic
<1>1. ResetInit => Empty
  BY DEF ResetInit, SessionInit
<1>2. ResetInv /\ [ResetNext]_resetVars => [Next]_tables
  BY CommandInvStep, ResetInvStep DEF ResetNext, resetVars, vars
<1>3. ResetSpec => Spec
  BY <1>1, <1>2, ResetInvariance, PTL DEF ResetSpec, Spec
<1> QED BY <1>3, CommandsAreTheCommands DEF ResetsAreAtomic

-----------------------------------------------------------------------------
(* Who waits for whom.                                                     *)

\* The inserts of a start wait for rows there are, and only when the start holds
\* no lock yet or its workflow's alone.
LEMMA InsertOrder ==
  ASSUME LockInv, NEW s \in Sessions
  PROVE  /\ InsertsBehind(s) \subseteq Rows
         /\ \A row \in Rows : holder[row] = s =>
              /\ InsertsBehind(s) \subseteq RunLocks
              /\ row \in ApprovalLocks \cup RunLocks => InsertsBehind(s) = {}
<1>1. {RunRow(r) : r \in RunWithKey(cmd[s].ticket, cmd[s].key)} \subseteq RunLocks
  BY DEF RunWithKey, RunsOf, RunLocks
<1>2. RunLocks \subseteq Rows
  BY DEF RunLocks, RunRow, Rows
<1>3. {WorkflowRow(w) : w \in Previous(s)} \subseteq Rows
  BY DEF Previous, WorkflowsOf, WorkflowRow, Rows
<1>4. InsertsBehind(s) \subseteq Rows
  BY <1>1, <1>2, <1>3 DEF InsertsBehind
<1>5. ASSUME NEW row \in Rows, holder[row] = s
      PROVE  /\ InsertsBehind(s) \subseteq RunLocks
             /\ row \in ApprovalLocks \cup RunLocks => InsertsBehind(s) = {}
  <2>1. Holds(s, row)
    BY <1>5 DEF LockInv, LocksFollowSteps
  <2>2. at[s] # "insert_cycle"
    BY <2>1 DEF Holds, WorkflowLocked
  <2>3. InsertsBehind(s) \subseteq RunLocks
    BY <1>1, <2>2 DEF InsertsBehind
  <2>4. at[s] = "use_active" => row \notin ApprovalLocks \cup RunLocks
    BY <2>1 DEF Holds, WorkflowLocked, WorkflowRow, ApprovalRow, RunRow, ApprovalLocks,
       RunLocks
  <2>5. at[s] # "use_active" => InsertsBehind(s) = {}
    BY <2>2 DEF InsertsBehind, Retrying
  <2> QED BY <2>3, <2>4, <2>5
<1> QED BY <1>4, <1>5

\* So commands that wait for each other would hold a ring of rows going down.
LEMMA NoRingOfCommands ==
  ASSUME LockInv
  PROVE  OnlyResetsDeadlock
<1> SUFFICES ASSUME NEW group \in (SUBSET Sessions) \ {{}}, Deadlocked(group)
             PROVE  FALSE
  BY DEF OnlyResetsDeadlock
<1>0. /\ group \subseteq Sessions /\ group # {}
      /\ \A s \in group : \E row \in WaitsFor(s) \cup InsertsBehind(s) :
           holder[row] \in group
  BY DEF Deadlocked
<1>1. PICK row1 \in Rows : holder[row1] \in group
  BY <1>0, WaitsForRows, InsertOrder
<1>2. PICK row2 \in Rows : /\ row2 \in ApprovalLocks \cup RunLocks
                           /\ holder[row2] \in group
  BY <1>0, <1>1, WaitsForRows, LockOrder, InsertOrder
<1>3. PICK row3 \in Rows : row3 \in RunLocks /\ holder[row3] \in group
  BY <1>0, <1>2, WaitsForRows, LockOrder, InsertOrder
<1>4. WaitsFor(holder[row3]) = {} /\ InsertsBehind(holder[row3]) = {}
  BY <1>0, <1>3, LockOrder, InsertOrder
<1> QED BY <1>0, <1>3, <1>4

\* The commands never deadlock among themselves, the waits of their inserts
\* included: whatever cycle of waiting there is, a reset is in it.
THEOREM OnlyResetsCanDeadlock == ResetSpec => []OnlyResetsDeadlock
<1>1. ResetInv => OnlyResetsDeadlock
  BY NoRingOfCommands DEF ResetInv
<1> QED BY <1>1, ResetInvariance, PTL
=============================================================================
