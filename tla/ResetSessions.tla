---------------------------- MODULE ResetSessions ----------------------------
(***************************************************************************)
(* The resets of the SQL repository among the commands of WorkflowSessions. *)
(* A reset deletes the rows of a ticket table by table, children first, in  *)
(* one transaction that takes no lock on the workflow beforehand.  Each     *)
(* DELETE has a snapshot of its own, waits for the rows others have locked  *)
(* and locks those it deletes; at its end the foreign keys of models.py are *)
(* checked against what has been committed meanwhile.                       *)
(***************************************************************************)
EXTENDS WorkflowSessions

CONSTANT Resetter   \* the session of the reset

ASSUME ResetterAssumption == Resetter \notin Sessions \cup {None}

VARIABLES
  reset,   \* the reset in progress
  spent    \* the deleted rows: a uuid is not used again

resetVars == <<vars, reset, spent>>

NoReset == [at |-> "idle", ticket |-> None, known |-> {}, mutations |-> {},
            gone |-> {}, todo |-> {}, row |-> None]

InReset == reset.at # "idle"

-----------------------------------------------------------------------------
(* Foreign keys.  A transition row refers to what its command changed.      *)

\* The ticket's transitions, and those the first DELETE did not see.
Transitions(t) == UNION {{w} \X ledger[w] : w \in WorkflowsOf(t)}
Late == Transitions(reset.ticket) \ reset.known

RefersToRun(w, entry) ==
  \/ entry.to \in {"completed_no_action", "needs_retry", "failed", "awaiting_approval"}
  \/ entry.to = "cancelled" /\ \E r \in RunIds : run[r].workflow = w
                                                 /\ run[r].status = "cancelled"
RefersToApproval(w, entry) ==
  \/ entry.to \in {"awaiting_approval", "mock_executed", "rejected"}
  \/ entry.to = "cancelled" /\ approval[w].status = "withdrawn"

MutationRefersTo(w) == mutation[w] # None /\ w \notin reset.mutations
ApprovalRefersTo(w) == approval[w].status # Absent /\ ApprovalRow(w) \notin reset.gone
RunRefersTo(w) ==
  \E r \in RunIds : run[r].workflow = w /\ RunRow(r) \notin reset.gone

\* Mutant of ForeignKeysHold: the keys are not declared.
ForeignKeysIgnored(table) == TRUE

\* The rows a DELETE on `table` has removed are referred to by no row left.
ForeignKeysHold(table) ==
  CASE table = "mutations" ->
         \A entry \in Late : ~(/\ entry[2].to = "mock_executed"
                               /\ entry[1] \in reset.mutations)
    [] table = "approvals" ->
         \A w \in WorkflowIds : ApprovalRow(w) \in reset.gone =>
           /\ ~MutationRefersTo(w)
           /\ \A entry \in Late : entry[1] = w => ~RefersToApproval(w, entry[2])
    [] table = "runs" ->
         \A r \in RunIds : RunRow(r) \in reset.gone =>
           /\ ~ApprovalRefersTo(run[r].workflow)
           /\ \A entry \in Late :
                entry[1] = run[r].workflow => ~RefersToRun(entry[1], entry[2])
    [] table = "workflows" ->
         \A w \in WorkflowIds : WorkflowRow(w) \in reset.gone =>
           /\ ~MutationRefersTo(w) /\ ~ApprovalRefersTo(w) /\ ~RunRefersTo(w)
           /\ \A v \in WorkflowsOf(reset.ticket) :
                workflow[v].cycle = workflow[w].cycle + 1 => WorkflowRow(v) \in reset.gone

-----------------------------------------------------------------------------
(* The reset.                                                              *)

RowsOf(table, t) ==
  CASE table = "approvals" -> {ApprovalRow(w) : w \in {v \in WorkflowsOf(t) :
                                                         approval[v].status # Absent}}
    [] table = "runs" -> {RunRow(r) : r \in RunsOf(t)}
    [] table = "workflows" -> {WorkflowRow(w) : w \in WorkflowsOf(t)}
    [] OTHER -> {}

AfterTable == [mutations |-> "approvals", approvals |-> "runs",
               runs |-> "workflows", workflows |-> "commit"]

\* The DELETE of transitions, whose rows nobody locks, and that of mutations.
BeginReset(t) ==
  /\ ~InReset
  /\ reset' = [NoReset EXCEPT !.at = "mutations", !.ticket = t, !.known = Transitions(t)]
  /\ UNCHANGED <<vars, spent>>

DeleteMutations ==
  /\ reset.at = "mutations" /\ reset.mutations = {}
  /\ reset' = [reset EXCEPT
       !.mutations = {w \in WorkflowsOf(reset.ticket) : mutation[w] # None}]
  /\ UNCHANGED <<vars, spent>>

\* A DELETE meets its rows in an order of its own and waits at each.
NextRow ==
  /\ reset.row = None
  /\ \E row \in reset.todo : reset' = [reset EXCEPT !.row = row]
  /\ UNCHANGED <<vars, spent>>

DeleteRow ==
  /\ reset.row # None
  /\ Free(Resetter, reset.row)
  /\ Lock(Resetter, reset.row)
  /\ reset' = [reset EXCEPT !.row = None, !.todo = @ \ {reset.row},
                            !.gone = @ \cup {reset.row}]
  /\ UNCHANGED <<tables, local, spent>>

EndDelete ==
  /\ reset.at \in DOMAIN AfterTable
  /\ reset.row = None /\ reset.todo = {}
  /\ ForeignKeysHold(reset.at)
  /\ reset' = [reset EXCEPT !.at = AfterTable[reset.at],
                            !.todo = RowsOf(AfterTable[reset.at], reset.ticket)]
  /\ UNCHANGED <<vars, spent>>

CommitReset ==
  LET gone(row) == row \in reset.gone IN
  /\ reset.at = "commit"
  /\ workflow' = [w \in WorkflowIds |->
       IF gone(WorkflowRow(w)) THEN NoWorkflow ELSE workflow[w]]
  /\ ledger' = [w \in WorkflowIds |-> IF gone(WorkflowRow(w)) THEN {} ELSE ledger[w]]
  /\ run' = [r \in RunIds |-> IF gone(RunRow(r)) THEN NoRun ELSE run[r]]
  /\ approval' = [w \in WorkflowIds |->
       IF gone(ApprovalRow(w)) THEN NoApproval ELSE approval[w]]
  /\ mutation' = [w \in WorkflowIds |->
       IF w \in reset.mutations THEN None ELSE mutation[w]]
  /\ spent' = spent \cup reset.gone
  /\ reset' = NoReset
  /\ ReleaseAll(Resetter)
  /\ UNCHANGED local

AbortReset == reset' = NoReset /\ ReleaseAll(Resetter) /\ UNCHANGED <<tables, local, spent>>

\* A foreign key refuses the DELETE: the error leaves the reset, and its
\* session rolls back.
RefuseDelete ==
  /\ reset.at \in DOMAIN AfterTable
  /\ reset.row = None /\ reset.todo = {}
  /\ ~ForeignKeysHold(reset.at)
  /\ AbortReset

ResetDies == InReset /\ AbortReset

Reset ==
  \/ DeleteMutations \/ NextRow \/ DeleteRow \/ EndDelete
  \/ CommitReset \/ RefuseDelete

-----------------------------------------------------------------------------
(* The commands, where a row may have gone since they were called.         *)

\* The 404s and 409s for a run, workflow or request that is not there.
Missing(s) ==
  CASE at[s] = "lock_workflow" -> ~Exists(cmd[s].workflow)
    [] at[s] \in {"read_run", "lock_run"} -> ~RunExists(cmd[s].run)
    [] at[s] \in {"read_approval", "lock_approval"} ->
         approval[cmd[s].workflow].status = Absent
    [] OTHER -> FALSE

ReplyMissing(s) == Missing(s) /\ Reply(s, [kind |-> "missing"])

\* The workflow a new cycle names as its previous one.
Previous(s) ==
  {w \in WorkflowsOf(cmd[s].ticket) : workflow[w].cycle = seen[s].workflow.cycle}

\* The inserts of a start wait for what a reset is deleting: the previous
\* workflow, on which they take a key-share lock and without which they fail,
\* and a run with the same idempotency key, which is unique.
Retrying(s) == at[s] = "use_active" /\ seen[s].workflow.status = "needs_retry"
InsertsBehind(s) ==
  (IF at[s] = "insert_cycle" THEN {WorkflowRow(w) : w \in Previous(s)} ELSE {})
  \cup (IF at[s] = "insert_cycle" \/ Retrying(s)
        THEN {RunRow(r) : r \in RunWithKey(cmd[s].ticket, cmd[s].key)} ELSE {})

InsertsMayGoOn(s) ==
  /\ \A row \in InsertsBehind(s) : holder[row] # Resetter
  /\ at[s] = "insert_cycle" /\ seen[s].workflow.cycle > 0 => Previous(s) # {}

PreviousIsGone(s) ==
  /\ at[s] = "insert_cycle"
  /\ seen[s].workflow.cycle > 0 /\ Previous(s) = {}
  /\ ReleaseAll(s)
  /\ Read(s, seen[s], "reread")

FreshIds ==
  /\ \A w \in WorkflowIds : WorkflowRow(w) \in spent => workflow'[w].status = Absent
  /\ \A r \in RunIds : RunRow(r) \in spent => run'[r].status = Absent

CommandStep(s) ==
  /\ \/ ReplyMissing(s)
     \/ PreviousIsGone(s)
     \/ ~Missing(s) /\ InsertsMayGoOn(s) /\ Proceed(s)
  /\ FreshIds
  /\ UNCHANGED <<reset, spent>>

ResetNext ==
  \/ \E t \in Tickets : BeginReset(t)
  \/ Reset \/ ResetDies
  \/ \E s \in Sessions : \/ CommandStep(s)
                         \/ (Call(s) \/ Close(s)) /\ UNCHANGED <<reset, spent>>

ResetInit == SessionInit /\ reset = NoReset /\ spent = {}

ResetSpec == ResetInit /\ [][ResetNext]_resetVars

-----------------------------------------------------------------------------
(* Who waits for whom.                                                     *)

\* A session waits for every row it needs and another holds; the reset does
\* so too, but a cycle it is in is not what the property below is about.
Deadlocked(group) ==
  \A s \in group : \E row \in WaitsFor(s) \cup InsertsBehind(s) :
    holder[row] \in group \ {s}

\* A reset takes effect in one step or not at all, whatever is committed
\* between its DELETEs, and the commands it overtakes still take effect one at
\* a time: it never removes a request and leaves the mutation it led to, nor a
\* workflow and leaves its run.
ResetsAreAtomic == Commands!Spec

\* The commands never deadlock among themselves: the reset is in every cycle
\* of sessions that wait for each other.
OnlyResetsDeadlock ==
  \A group \in (SUBSET Sessions) \ {{}} : ~Deadlocked(group)
=============================================================================
