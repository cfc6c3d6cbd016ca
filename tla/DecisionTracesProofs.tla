------------------------ MODULE DecisionTracesProofs ------------------------
(***************************************************************************)
(* DecisionTraces, proved for any number of deciding sessions.             *)
(***************************************************************************)
EXTENDS DecisionTraces, FiniteSetTheorems, TLAPS

Ends == {"idle", "not_found", "turned_away", "replayed", "executed", "conflict",
         "internal_error", "rejected", "refused", "cancelled", "dead"}

TypeOK ==
  /\ request \in {"pending", "approved", "rejected", "withdrawn", "deleted"}
  /\ mutation \in SUBSET Sessions
  /\ traces \in SUBSET [number : Nat, by : Sessions \cup {Nobody}, blocked : BOOLEAN]
  /\ lock \in Sessions \cup {Nobody}
  /\ at \in [Sessions -> Steps \cup Ends]
  /\ number \in [Sessions -> Nat]

\* What the run's traces look like at each status of its request.
Story ==
  /\ request = "pending" => mutation = {} /\ traces = {Proposal}
  /\ request = "approved" => \E s \in Sessions :
       /\ mutation = {s}
       /\ traces = {Proposal, [number |-> 2, by |-> s, blocked |-> FALSE]}
  /\ request \in {"rejected", "withdrawn"} =>
       /\ mutation = {}
       /\ Proposal \in traces
       /\ \A t \in traces \ {Proposal} : t.blocked /\ t.number >= 2
  /\ request = "deleted" => mutation = {} /\ traces = {}

\* max(sequence) is defined, though nothing bounds the number of traces.
HighestTrace ==
  traces # {} => \E t \in traces : \A u \in traces : u.number <= t.number

\* Who holds the locks executes a pending request; who was refused was so
\* because the request is settled without execution.
SessionsFollowRequest ==
  \A s \in Sessions :
    /\ lock = s <=> at[s] = "executing"
    /\ at[s] = "executing" => request = "pending" /\ number[s] = 2
    /\ at[s] \in {"block", "insert", "conflict"} =>
         request \in {"rejected", "withdrawn", "deleted"}
    /\ at[s] = "insert" /\ request # "deleted" => number[s] >= 2

IInv ==
  /\ TypeOK
  /\ Story
  /\ HighestTrace
  /\ SessionsFollowRequest

-----------------------------------------------------------------------------

\* The number a transaction reads is above every number there is.
LEMMA NextNumberIsFresh ==
  ASSUME TypeOK, HighestTrace
  PROVE  /\ NextNumber \in Nat
         /\ \A t \in traces : t.number < NextNumber
         /\ traces = {Proposal} => NextNumber = 2
<1>1. CASE traces = {}
  BY <1>1 DEF NextNumber, Proposal
<1>2. CASE traces # {}
  <2> DEFINE highest(n) == n \in {t.number : t \in traces} /\ \A t \in traces : t.number <= n
             n == CHOOSE m \in {t.number : t \in traces} : \A t \in traces : t.number <= m
  <2>1. PICK t \in traces : \A u \in traces : u.number <= t.number
    BY <1>2 DEF HighestTrace
  <2>2. highest(t.number)
    BY <2>1
  <2>3. highest(n)
    BY <2>2
  <2>4. NextNumber = 1 + n
    BY <1>2 DEF NextNumber
  <2>5. \A u \in traces : u.number \in Nat
    BY DEF TypeOK
  <2> HIDE DEF n
  <2>6. n \in Nat
    BY <2>3, <2>5
  <2>7. traces = {Proposal} => n = 1
    BY <2>3 DEF Proposal
  <2> QED BY <2>3, <2>4, <2>5, <2>6, <2>7
<1> QED BY <1>1, <1>2

\* A trace more leaves a highest one.
LEMMA HighestTraceKept ==
  ASSUME TypeOK, HighestTrace, NEW t, t.number \in Nat, traces' = traces \cup {t}
  PROVE  HighestTrace'
<1>1. CASE \E u \in traces : u.number >= t.number /\ \A v \in traces : v.number <= u.number
  BY <1>1 DEF HighestTrace
<1>2. CASE \A u \in traces : ~(u.number >= t.number /\ \A v \in traces : v.number <= u.number)
  <2>1. \A u \in traces : u.number <= t.number
    BY <1>2 DEF HighestTrace, TypeOK
  <2>2. t \in traces' /\ \A u \in traces' : u.number <= t.number
    BY <2>1
  <2> QED BY <2>2 DEF HighestTrace
<1> QED BY <1>1, <1>2

\* The seeded rows satisfy the invariant.
LEMMA InitIInv == Init => IInv
BY NobodyAssumption
   DEF Init, IInv, TypeOK, Story, HighestTrace, SessionsFollowRequest, Proposal, Ends, Steps

\* A step of one session towards its end, on which nothing else depends.
LEMMA QuietStep ==
  ASSUME IInv, NEW s \in Sessions, NEW step \in {"command"} \cup (Ends \ {"conflict"}),
         at' = [at EXCEPT ![s] = step], at[s] # "executing",
         UNCHANGED <<request, mutation, traces, lock, number>>
  PROVE  IInv'
BY DEF IInv, TypeOK, Story, HighestTrace, SessionsFollowRequest, Ends, Steps

\* A request is settled, withdrawn or deleted while nobody executes it.
LEMMA SettleStep ==
  ASSUME IInv, NEW s \in Sessions, NEW status \in {"rejected", "withdrawn"},
         NEW step \in {"rejected", "cancelled"},
         at[s] = "idle", lock = Nobody, request = "pending",
         request' = status, at' = [at EXCEPT ![s] = step],
         UNCHANGED <<mutation, traces, lock, number>>
  PROVE  IInv'
BY NobodyAssumption
   DEF IInv, TypeOK, Story, HighestTrace, SessionsFollowRequest, Ends, Steps

\* An approval locks its request and finds out what has become of it.
LEMMA ApproveLockStep ==
  ASSUME IInv, NEW s \in Sessions, ApproveLock(s)
  PROVE  IInv'
<1> USE NobodyAssumption DEF IInv
<1>1. CASE request = "pending"
  <2>1. /\ lock' = s /\ at[s] = "command" /\ lock = Nobody
        /\ at' = [at EXCEPT ![s] = "executing"]
        /\ number' = [number EXCEPT ![s] = NextNumber]
        /\ UNCHANGED <<request, mutation, traces>>
    BY <1>1 DEF ApproveLock, GoTo, ReadNumber
  <2>2. NextNumber = 2
    BY <1>1, NextNumberIsFresh DEF Story
  <2>3. TypeOK' /\ Story' /\ HighestTrace'
    BY <2>1, <2>2 DEF TypeOK, Story, HighestTrace, Steps
  <2>4. SessionsFollowRequest'
    BY <1>1, <2>1, <2>2 DEF TypeOK, SessionsFollowRequest
  <2> QED BY <2>3, <2>4
<1>2. CASE request = "approved"
  BY <1>2, QuietStep DEF ApproveLock, GoTo, Ends
<1>3. CASE request \in {"rejected", "withdrawn", "deleted"}
  <2>1. /\ at[s] = "command" /\ at' = [at EXCEPT ![s] = "block"]
        /\ UNCHANGED <<request, mutation, traces, lock, number>>
    BY <1>3 DEF ApproveLock, GoTo
  <2> QED BY <1>3, <2>1 DEF TypeOK, Story, HighestTrace, SessionsFollowRequest, Steps
<1> QED BY <1>1, <1>2, <1>3 DEF TypeOK

\* An approval commits with its trace.
LEMMA ApproveCommitStep ==
  ASSUME IInv, NEW s \in Sessions, ApproveCommit(s)
  PROVE  IInv'
<1> USE NobodyAssumption DEF IInv
<1> DEFINE t == [number |-> 2, by |-> s, blocked |-> FALSE]
<1>1. /\ request = "pending" /\ mutation = {} /\ traces = {Proposal}
      /\ lock = s /\ number[s] = 2
  BY DEF ApproveCommit, SessionsFollowRequest, Story
<1>2. /\ request' = "approved" /\ mutation' = {s} /\ traces' = {Proposal, t}
      /\ lock' = Nobody /\ at' = [at EXCEPT ![s] = "executed"] /\ number' = number
  BY <1>1 DEF ApproveCommit, TraceOf, GoTo
<1>3. TypeOK'
  BY <1>1, <1>2 DEF TypeOK, Ends
<1>4. HighestTrace'
  BY <1>1, <1>2, HighestTraceKept
<1>5. SessionsFollowRequest'
  BY <1>1, <1>2 DEF TypeOK, SessionsFollowRequest
<1> QED BY <1>2, <1>3, <1>4, <1>5 DEF Story

\* A refused session reads the highest sequence its trace will follow.
LEMMA BlockReadStep ==
  ASSUME IInv, NEW s \in Sessions, BlockRead(s)
  PROVE  IInv'
<1> USE DEF IInv
<1>1. /\ at[s] = "block" /\ at' = [at EXCEPT ![s] = "insert"]
      /\ number' = [number EXCEPT ![s] = NextNumber]
      /\ UNCHANGED <<request, mutation, traces, lock>>
  BY DEF BlockRead, GoTo, ReadNumber
<1>2. request \in {"rejected", "withdrawn", "deleted"}
  BY <1>1 DEF SessionsFollowRequest
<1>3. NextNumber \in Nat
  BY NextNumberIsFresh
<1>4. request # "deleted" => NextNumber >= 2
  BY <1>2, <1>3, NextNumberIsFresh DEF Story, Proposal
<1>5. TypeOK' /\ Story' /\ HighestTrace'
  BY <1>1, <1>3 DEF TypeOK, Story, HighestTrace, Steps
<1>6. SessionsFollowRequest'
  BY <1>1, <1>2, <1>3, <1>4 DEF TypeOK, SessionsFollowRequest
<1> QED BY <1>5, <1>6

\* And inserts the blocked trace.
LEMMA BlockInsertStep ==
  ASSUME IInv, NEW s \in Sessions, BlockInsert(s)
  PROVE  IInv'
<1> USE DEF IInv
<1>1. CASE request = "deleted"
  BY <1>1, QuietStep DEF BlockInsert, GoTo, Ends
<1>2. CASE request # "deleted"
  <2>1. /\ at[s] = "insert" /\ at' = [at EXCEPT ![s] = "conflict"]
        /\ traces' = traces \cup {TraceOf(s, TRUE)}
        /\ UNCHANGED <<request, mutation, lock, number>>
    BY <1>2 DEF BlockInsert, GoTo
  <2>2. request \in {"rejected", "withdrawn"} /\ number[s] >= 2 /\ number[s] \in Nat
    BY <1>2, <2>1 DEF SessionsFollowRequest, TypeOK
  <2>3. TypeOK'
    <3>1. TraceOf(s, TRUE) \in [number : Nat, by : Sessions \cup {Nobody}, blocked : BOOLEAN]
      BY <2>2 DEF TraceOf
    <3>2. at' \in [Sessions -> Steps \cup Ends]
      BY <2>1 DEF TypeOK, Ends
    <3> QED BY <2>1, <3>1, <3>2 DEF TypeOK
  <2>4. Story'
    BY <2>1, <2>2 DEF Story, TraceOf
  <2>5. HighestTrace'
    BY <2>1, <2>2, HighestTraceKept DEF TraceOf
  <2>6. SessionsFollowRequest'
    BY <2>1, <2>2 DEF TypeOK, SessionsFollowRequest
  <2> QED BY <2>3, <2>4, <2>5, <2>6
<1> QED BY <1>1, <1>2

\* A process dies: what it had not committed is gone.
LEMMA DieStep ==
  ASSUME IInv, NEW s \in Sessions, Die(s)
  PROVE  IInv'
BY NobodyAssumption
   DEF IInv, Die, GoTo, TypeOK, Story, HighestTrace, SessionsFollowRequest, Ends, Steps

\* A reset deletes the request, its mutation and its traces.
LEMMA ResetStep ==
  ASSUME IInv, Reset
  PROVE  IInv'
BY NobodyAssumption
   DEF IInv, Reset, TypeOK, Story, HighestTrace, SessionsFollowRequest

\* Every step of a session or the reset keeps the invariant.
LEMMA NextIInv ==
  ASSUME IInv, Next
  PROVE  IInv'
<1>1. ASSUME NEW s \in Sessions, ApproveRead(s) PROVE IInv'
  BY <1>1, QuietStep DEF ApproveRead, GoTo, IInv, TypeOK, Ends
<1>2. ASSUME NEW s \in Sessions, Reject(s) PROVE IInv'
  BY <1>2, QuietStep, SettleStep DEF Reject, GoTo, Ends
<1>3. ASSUME NEW s \in Sessions, Cancel(s) PROVE IInv'
  BY <1>3, SettleStep DEF Cancel, GoTo
<1> QED BY <1>1, <1>2, <1>3, ApproveLockStep, ApproveCommitStep, BlockReadStep,
           BlockInsertStep, DieStep, ResetStep DEF Next

-----------------------------------------------------------------------------
(* The theorems.                                                           *)

\* The invariant holds in every reachable state.
THEOREM Invariance == Spec => []IInv
<1>1. IInv /\ UNCHANGED vars => IInv'
  BY DEF vars, IInv, TypeOK, Story, HighestTrace, SessionsFollowRequest
<1> QED BY <1>1, InitIInv, NextIInv, PTL DEF Spec

\* approve_and_execute moves the money once and leaves one execution trace,
\* whoever else approves, rejects, cancels, resets or dies.
THEOREM OneExecutionIsTraced == Spec => []OneExecutionTrace
<1>1. IInv => OneExecutionTrace
  <2> SUFFICES ASSUME IInv PROVE OneExecutionTrace
    OBVIOUS
  <2> USE NobodyAssumption DEF IInv
  <2>1. CASE request = "approved"
    <3>1. PICK s \in Sessions :
            /\ mutation = {s}
            /\ traces = {Proposal, [number |-> 2, by |-> s, blocked |-> FALSE]}
      BY <2>1 DEF Story
    <3>2. Cardinality(mutation) = 1
      BY <3>1, FS_Singleton
    <3>3. {t.by : t \in {u \in traces : ~u.blocked}} = {Nobody, s}
      <4>1. \A t \in traces : ~t.blocked /\ t.by \in {Nobody, s}
        BY <3>1 DEF Proposal
      <4>2. \A b \in {Nobody, s} : \E t \in traces : t.by = b
        BY <3>1 DEF Proposal
      <4> QED BY <4>1, <4>2
    <3> QED BY <2>1, <3>1, <3>2, <3>3 DEF OneExecutionTrace
  <2>2. CASE request # "approved"
    <3>1. mutation = {} /\ Cardinality(mutation) = 0
      BY <2>2, FS_EmptySet DEF TypeOK, Story
    <3>2. \A t \in traces : t = Proposal \/ t.blocked
      BY <2>2 DEF TypeOK, Story
    <3>3. {t.by : t \in {u \in traces : ~u.blocked}} \ {Nobody} = {}
      BY <3>2 DEF Proposal
    <3> QED BY <2>2, <3>1, <3>3 DEF OneExecutionTrace
  <2> QED BY <2>1, <2>2
<1> QED BY <1>1, Invariance, PTL

\* A second approver's refusal leaves no blocked trace on an executed run.
THEOREM ExecutionIsNeverBlocked == Spec => []ExecutedRunsStayClean
<1>1. IInv => ExecutedRunsStayClean
  BY DEF IInv, Story, ExecutedRunsStayClean, Proposal
<1> QED BY <1>1, Invariance, PTL

\* The unlocked max(sequence) + 1 of _record_financial_block gives one number
\* to two traces only if both are blocked ones.
THEOREM TiesAreHarmless == Spec => []OnlyBlockedTracesTie
<1>1. IInv => OnlyBlockedTracesTie
  <2> SUFFICES ASSUME IInv, NEW t \in traces, NEW u \in traces, t # u,
                      t.number = u.number
               PROVE  t.blocked /\ u.blocked
    BY DEF OnlyBlockedTracesTie
  <2> QED BY DEF IInv, TypeOK, Story, Proposal
<1> QED BY <1>1, Invariance, PTL
=============================================================================
