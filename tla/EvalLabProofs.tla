--------------------------- MODULE EvalLabProofs ---------------------------
(***************************************************************************)
(* EvalLab, proved for any number of eval requests, any cases the          *)
(* assumptions of EvalLab admit and any seed.                              *)
(***************************************************************************)
EXTENDS EvalLab, AgentRunProofs

GradingPcs == {"traces", "workflow", "requests", "grade",
               "comply_traces", "comply_requests", "comply"}
StoringPcs == {"save", "insert", "snapshot"}
JobPcs == {"idle", "case", "loop", "done", "raised", "dead"} \cup GradingPcs \cup StoringPcs

\* Named, for the provers to take as they are.
CaseSeqs == Seq(DOMAIN CaseTable)
Logs == Seq(TraceRows)
RequestSets == SUBSET ApprovalRows
Reads == [WorkflowIds -> ApprovalRows]
DimensionSets == SUBSET BlockingDimensions
BlockedResults == {Blocked(code) : code \in BlockedCodes}
GradedResults == {Graded(passed) : passed \in DimensionSets}
ResultRows == [case : DOMAIN CaseTable, job : Jobs, run : RunIds \cup {None}]
ResultSets == SUBSET ResultRows

JobRecords ==
  [pc : JobPcs, todo : CaseSeqs, ended : RunStatuses \cup {Absent}, traces : Logs,
   workflow : WorkflowIds \cup {None}, status : WorkflowStatuses \cup {Absent},
   requests : RequestSets, read : Reads,
   result : BlockedResults \cup GradedResults \cup {None}, sees : ResultSets,
   cause : Causes \cup {"conflict", "reset"}]

JobsTypeOK ==
  /\ job \in [Jobs -> JobRecords]
  /\ evalRun \in [Jobs -> {Absent, "running", "completed"}]
  /\ results \in ResultSets
  /\ snapshots \in [Calls -> BlockedResults \cup GradedResults \cup {None}]

\* The call is over, with a run of its own.
Answered(c) == call[c].pc = "answered" /\ call[c].run = c

\* A call, its run and the workflow it opened have one name, and a call goes on
\* only while its request is at it.
CallIsOwn(c) ==
  /\ call[c].run \in {None, c}
  /\ RunExists(c) => call[c].run = c
  /\ Exists(c) => call[c].run = c
  /\ call[c].run = c => call[c].ticket = CaseTable[c[2]].ticket
  /\ Answered(c) => run[c].status \in {Absent, "completed", "failed"}
  /\ Live(c) => job[c[1]].pc = "loop" /\ c = CallOf(c[1])

CallsAreOwn == evidence = Fixture /\ \A c \in Calls : CallIsOwn(c)

\* Why a request may end without ending its eval run.
Strands(j) ==
  \/ job[j].cause \in {"escaped", "conflict", "superseded", "deleted", "reset"}
  \/ job[j].cause = "duplicate" /\ Fixture[CaseOf(j).ticket].subscription = "early"

\* A request runs and grades only cases that can be run, and one that raised
\* says why.
JobIsSound(j) ==
  /\ job[j].pc \in {"loop"} \cup GradingPcs \cup StoringPcs => job[j].todo # << >>
  /\ job[j].pc \in {"loop"} \cup GradingPcs => Case(j) \in Runnable
  /\ job[j].pc \in GradingPcs => Answered(CallOf(j))
  /\ job[j].pc \in {"traces", "workflow"} => job[j].workflow \in WorkflowIds
  /\ job[j].pc = "idle" => evalRun[j] = Absent
  /\ job[j].pc = "done" => evalRun[j] = "completed"
  /\ job[j].pc = "raised" => Strands(j)

JobsAreSound == \A j \in Jobs : JobIsSound(j)

\* Nothing has touched what the run of the case left, and it is what the case
\* expects.
Intact(c) ==
  /\ call[c].decision.outcome = CaseTable[c[2]].outcome
  /\ run[c].status = "completed"
  /\ workflow[run[c].workflow].status \notin {"mock_executed", "rejected", "cancelled"}

\* What the compliance check read of the requests before it reads the mutations:
\* no two pending ones of a ticket, of workflows that are not opened again.
PendingIsApart(read) ==
  /\ \A w \in WorkflowIds : read[w].status # Absent => w \in DOMAIN Seeded \/ call[w].run = w
  /\ \A v, w \in WorkflowIds :
       (/\ v # w /\ Exists(v) /\ Exists(w)
        /\ read[v].status = "pending" /\ read[w].status = "pending") =>
          workflow[v].ticket # workflow[w].ticket

\* Those of the run are as they are, and what was executed was read as approved.
RequestsAreRead(c, read) ==
  /\ \A w \in WorkflowIds : read[w].run = c => read[w] = approval[w]
  /\ \A w \in WorkflowIds :
       mutation[w] # None /\ workflow[w].ticket = CaseTable[c[2]].ticket =>
         read[w].status = "approved" /\ read[w].action = mutation[w]

\* As long as the case is intact, what was read of it one query after the other
\* is what it is.
ReadsAreCurrent(j) ==
  LET c == CallOf(j)
      local == job[j]
  IN /\ local.pc \in {"traces", "workflow", "requests", "grade"} /\ RunExists(c) =>
          local.ended = run[c].status
     /\ local.pc \in {"traces", "workflow"} /\ RunExists(c) => local.workflow = run[c].workflow
     /\ local.pc = "comply" => PendingIsApart(local.read)
     /\ local.pc \in GradingPcs /\ Intact(c) =>
          /\ local.pc \in {"workflow", "requests", "grade", "comply_requests", "comply"} =>
               local.traces = trace[c]
          /\ local.pc \in {"requests", "grade"} =>
               local.status = workflow[run[c].workflow].status
          /\ local.pc = "grade" =>
               local.requests = {approval[w] : w \in {v \in WorkflowIds : approval[v].run = c}}
          /\ local.pc = "comply" => RequestsAreRead(c, local.read)

\* A grade of the case: it passes the outcome only if it is the one the case
\* expects, and as long as the case is intact it passes at least `needed`.
ExactGrade(c, result, needed) ==
  result \in BlockedResults \/
    /\ CaseTable[c[2]].scenario \in SupportedScenarios
    /\ Answered(c)
    /\ \E passed \in DimensionSets :
         /\ result = Graded(passed)
         /\ "outcome_correctness" \in passed =>
              call[c].decision.outcome = CaseTable[c[2]].outcome
         /\ Intact(c) => needed \subseteq passed

GradeIsExact(j) ==
  /\ job[j].pc \in {"comply_traces", "comply_requests", "comply"} =>
       /\ job[j].result \in GradedResults
       /\ ExactGrade(CallOf(j), job[j].result, BlockingDimensions \ {"governance_compliance"})
  /\ job[j].pc \in StoringPcs => ExactGrade(CallOf(j), job[j].result, BlockingDimensions)

GradesAreExact ==
  /\ \A j \in Jobs : ReadsAreCurrent(j) /\ GradeIsExact(j)
  /\ \A c \in Calls : snapshots[c] # None => ExactGrade(c, snapshots[c], BlockingDimensions)

EvalInv ==
  /\ AgentInv
  /\ LoopInv
  /\ JobsTypeOK
  /\ CallsAreOwn
  /\ JobsAreSound
  /\ GradesAreExact

-----------------------------------------------------------------------------
(* An eval request takes steps of the governed loop, and no others.        *)

\* The case at the head of a request, and its call.
LEMMA CallOfCase ==
  ASSUME JobsTypeOK, NEW j \in Jobs, job[j].todo # << >>
  PROVE  /\ Case(j) \in DOMAIN CaseTable /\ CallOf(j) = <<j, Case(j)>>
         /\ CallOf(j) \in Calls /\ CallOf(j)[1] = j /\ CallOf(j)[2] = Case(j)
         /\ CallOf(j) # None
         /\ CallOf(j) \in RunIds /\ CallOf(j) \in Keys /\ CallOf(j) \in WorkflowIds
<1>1. job[j].todo \in Seq(DOMAIN CaseTable)
  BY DEF JobsTypeOK, JobRecords, CaseSeqs
<1>2. Case(j) \in DOMAIN CaseTable
  BY <1>1 DEF Case
<1>3. CallOf(j) \in Calls /\ CallOf(j)[1] = j /\ CallOf(j)[2] = Case(j)
  BY <1>2, IdAssumption DEF CallOf
<1> QED BY <1>2, <1>3, IdAssumption, NoneAssumption DEF CallOf

\* A call is a request and a case.
LEMMA CallParts ==
  ASSUME NEW c \in Calls
  PROVE  /\ c[1] \in Jobs /\ c[2] \in DOMAIN CaseTable /\ c = <<c[1], c[2]>>
         /\ c \in RunIds /\ c \in Keys /\ c \in WorkflowIds /\ c # None
         /\ c \notin DOMAIN Seeded
BY IdAssumption, NoneAssumption

\* The fixture of a case the runner runs.
LEMMA RunnableCase ==
  ASSUME NEW id \in Runnable
  PROVE  /\ id \in DOMAIN CaseTable /\ CaseTable[id].ticket \in Tickets
         /\ CaseTable[id].scenario \in SupportedScenarios
         /\ Fixture[CaseTable[id].ticket] \in EvidenceSet
<1>1. id \in DOMAIN CaseTable /\ CaseTable[id].ticket # Absent
       /\ CaseTable[id].scenario \in SupportedScenarios
  BY DEF Runnable
<1>2. CaseTable[id].ticket \in Tickets
  BY <1>1, CaseAssumption
<1> QED BY <1>1, <1>2, CaseAssumption

LEMMA LoopingJob ==
  ASSUME EvalInv, NEW j \in Jobs, job[j].pc = "loop"
  PROVE  /\ job[j].todo # << >> /\ Case(j) \in Runnable
         /\ CaseOf(j) = CaseTable[Case(j)] /\ CaseOf(j).ticket \in Tickets
         /\ CallOf(j) \in Calls
<1>1. job[j].todo # << >> /\ Case(j) \in Runnable
  BY DEF EvalInv, JobsAreSound, JobIsSound
<1> QED BY <1>1, CallOfCase, RunnableCase DEF EvalInv, CaseOf

\* The process that dies is that of the call at the head of its request, if any.
LEMMA JobDiesStep ==
  ASSUME EvalInv, NEW j \in Jobs, JobDies(j)
  PROVE  \/ UNCHANGED vars
         \/ \E c \in Calls : /\ c = CallOf(j) /\ Live(c) /\ job[j].pc = "loop"
                             /\ Die(c)
<1>1. call \in [Calls -> CallRecords]
  BY DEF EvalInv, AgentInv, CallsAreSound
<1>2. UNCHANGED <<tables, trace, evidence>>
  BY DEF JobDies
<1>3. call' = [c \in Calls |-> IF c[1] = j /\ Live(c) THEN [call[c] EXCEPT !.pc = "dead"]
                                                   ELSE call[c]]
  BY DEF JobDies
<1>4. \A c \in Calls : c[1] = j /\ Live(c) => c = CallOf(j) /\ job[j].pc = "loop"
  BY DEF EvalInv, CallsAreOwn, CallIsOwn
<1>5. CASE \E c \in Calls : c[1] = j /\ Live(c)
  <2>1. PICK c \in Calls : c[1] = j /\ Live(c)
    BY <1>5
  <2>2. c = CallOf(j) /\ job[j].pc = "loop"
    BY <2>1, <1>4
  <2>3. call' = [call EXCEPT ![c].pc = "dead"]
    <3>1. \A d \in Calls : d # c => ~(d[1] = j /\ Live(d))
      BY <1>4, <2>2
    <3>2. [call EXCEPT ![c].pc = "dead"] \in [Calls -> CallRecords \cup {[call[c] EXCEPT !.pc = "dead"]}]
      BY <1>1
    <3>3. \A d \in Calls : call'[d] = [call EXCEPT ![c].pc = "dead"][d]
      BY <1>1, <1>3, <2>1, <3>1
    <3>4. DOMAIN call' = Calls /\ DOMAIN [call EXCEPT ![c].pc = "dead"] = Calls
      BY <1>1, <1>3
    <3> QED BY <1>1, <1>3, <3>1, <2>1
  <2> QED BY <2>1, <2>2, <2>3, <1>2 DEF Die, Goto
<1>6. CASE ~\E c \in Calls : c[1] = j /\ Live(c)
  <2>1. \A c \in Calls : call'[c] = call[c]
    BY <1>3, <1>6
  <2>2. call' = call
    BY <1>1, <1>3, <2>1
  <2> QED BY <1>2, <2>2 DEF vars, locals
<1> QED BY <1>5, <1>6

\* Every step of the Eval Lab is a step of the loop, of the people or of a reset,
\* or leaves their variables alone.
LEMMA EvalStepIsAgentStep ==
  ASSUME EvalInv, EvalNext
  PROVE  [AgentNext]_vars
<1>1. ASSUME NEW j \in Jobs, Begin(j) \/ Quiet \/ InsertResult(j) \/ AddSnapshot(j) \/ Complete(j)
      PROVE  UNCHANGED vars
  BY <1>1 DEF Begin, Quiet, InsertResult, AddSnapshot, Complete, Idling, vars, locals
<1>2. ASSUME NEW j \in Jobs,
             \/ ReadTraces(j) \/ ReadWorkflow(j) \/ ReadRequests(j) \/ ReadMutations(j)
             \/ ComplyTraces(j) \/ ComplyRequests(j) \/ Comply(j) \/ DeleteResults(j)
      PROVE  Quiet
  BY <1>2 DEF ReadTraces, ReadWorkflow, ReadRequests, ReadMutations, ComplyTraces,
              ComplyRequests, Comply, DeleteResults
<1>3. ASSUME NEW j \in Jobs, OpenCase(j)
      PROVE  [AgentNext]_vars
  <2>1. CaseOf(j).ticket \in Tickets \cup {Absent}
    BY <1>3, CallOfCase, CaseAssumption DEF OpenCase, EvalInv, CaseOf
  <2>2. CASE CaseOf(j).ticket = Absent
    BY <1>3, <2>2 DEF OpenCase, vars, locals
  <2>3. CASE CaseOf(j).ticket # Absent
    BY <1>3, <2>1, <2>3 DEF OpenCase, AgentNext
  <2> QED BY <2>2, <2>3
<1>4. ASSUME NEW j \in Jobs, Loop(j) \/ LoopEscapes(j) \/ LoopConflict(j)
      PROVE  AgentNext
  <2>1. job[j].pc = "loop"
    BY <1>4 DEF Loop, LoopEscapes, LoopConflict
  <2>2. CallOf(j) \in Calls /\ CaseOf(j).ticket \in Tickets
    BY <2>1, LoopingJob
  <2>3. CallOf(j) \in Keys /\ CallOf(j) \in RunIds /\ CallOf(j) \in WorkflowIds
    BY <2>2, CallParts
  <2>4. WorkflowsOf(CaseOf(j).ticket) \subseteq WorkflowIds
    BY DEF WorkflowsOf
  <2> QED BY <1>4, <2>2, <2>3, <2>4 DEF Loop, LoopEscapes, LoopConflict, AgentNext
<1>5. ASSUME NEW j \in Jobs, JobDies(j)
      PROVE  [AgentNext]_vars
  BY <1>5, JobDiesStep DEF AgentNext
<1>6. ASSUME NEW w \in WorkflowIds, Cancel(w) \/ Reject(w) \/ Approve(w) \/ ApproveRefused(w)
      PROVE  AgentNext
  BY <1>6 DEF AgentNext
<1> QED BY <1>1, <1>2, <1>3, <1>4, <1>5, <1>6 DEF EvalNext, EvalStep

-----------------------------------------------------------------------------
(* What a step of the loop does to the call on a complete fixture.         *)

CompleteFixture(known) ==
  /\ known \in EvidenceSet /\ known.found
  /\ known.charges # {} /\ known.credits # << >>
  /\ IF known.scenario = "duplicate_charge" THEN known.usage ELSE known.subscription # "none"

\* The two reads of a complete fixture lack no reference.
LEMMA FixtureTrace ==
  ASSUME NEW known, CompleteFixture(known)
  PROVE  ~Raises(EvidenceTrace(known)) /\ EvidenceTrace(known).cites
<1> DEFINE policy == IF known.scenario = "duplicate_charge" THEN "read.billing_evidence"
                                                          ELSE "read.credit_refund_evidence"
           refs == CollectedRefs(known)
<1>1. refs \in RefSets /\ policy \in PolicyIds
  BY DEF CollectedRefs, RefSets, RefNames, PolicyIds
<1>2. MissingRefs(policy, refs, TRUE, {}) = {}
  <2>1. RequiredRefs(policy) \subseteq refs \cup {"policy"}
    <3>1. CASE known.scenario = "duplicate_charge"
      BY <3>1 DEF CompleteFixture, CollectedRefs, RequiredRefs, RequiredEvidence, PolicyIds,
                  RequiresPolicyRefs, RequiresApprovalRef, MutationPolicies
    <3>2. CASE known.scenario # "duplicate_charge"
      BY <3>2 DEF CompleteFixture, CollectedRefs, RequiredRefs, RequiredEvidence, PolicyIds,
                  RequiresPolicyRefs, RequiresApprovalRef, MutationPolicies
    <3> QED BY <3>1, <3>2
  <2> QED BY <2>1 DEF MissingRefs
<1>3. {} \in WorkflowSets /\ Absent \in Errors
  BY DEF WorkflowSets, Errors
<1>4. EvidenceTrace(known) = Governed(policy, refs, TRUE, {}, Absent)
  BY DEF EvidenceTrace
<1> HIDE DEF policy, refs
<1>5. ~Raises(Governed(policy, refs, TRUE, {}, Absent))
  BY <1>1, <1>2, <1>3, GovernedTrace
<1>6. Governed(policy, refs, TRUE, {}, Absent).cites = TRUE
  BY DEF Governed, Trace
<1> QED BY <1>4, <1>5, <1>6

LEMMA FixtureDecision ==
  ASSUME NEW known, CompleteFixture(known), NEW reading \in Readings(known.charges),
         NEW executed \in SUBSET Actions
  PROVE  LET decision == Evaluate(known, reading, executed) IN
         /\ decision.refs \in RefSets
         /\ ~Raises(DecisionTrace(known, decision))
<1> DEFINE decision == Evaluate(known, reading, executed)
           policy == DecisionPolicy(known.scenario)
           refs == decision.refs
<1>1. known \in EvidenceSet
  BY DEF CompleteFixture
<1>2. refs \in RefSets /\ policy \in PolicyIds
  BY <1>1, EvaluateShape DEF DecisionRecords, RefSets, DecisionPolicy, PolicyIds
<1>3. reading # << >>
  <2>1. Cardinality(known.charges) # 0 /\ Cardinality(known.charges) \in Nat
    BY <1>1, ChargesAssumption, FS_EmptySet, FS_CardinalityType DEF CompleteFixture
  <2>2. DOMAIN reading = 1..Cardinality(known.charges)
    BY DEF Readings
  <2>3. 1 \in DOMAIN reading
    BY <2>1, <2>2
  <2> QED BY <2>3
<1>4. IF known.scenario = "duplicate_charge" THEN {"invoice", "charge"} \subseteq refs
                                             ELSE {"invoice", "credit", "subscription"} \subseteq refs
  BY <1>3 DEF Evaluate, EvaluateDuplicateCharge, EvaluateCreditRefund, Conclude, Propose
<1>5. MissingRefs(policy, refs, TRUE, {}) = {}
  <2>1. RequiredRefs(policy) \subseteq refs \cup {"policy"}
    <3>1. CASE known.scenario = "duplicate_charge"
      BY <1>4, <3>1 DEF DecisionPolicy, RequiredRefs, RequiredEvidence, PolicyIds,
                  RequiresPolicyRefs, RequiresApprovalRef, MutationPolicies
    <3>2. CASE known.scenario # "duplicate_charge"
      BY <1>4, <3>2 DEF DecisionPolicy, RequiredRefs, RequiredEvidence, PolicyIds,
                  RequiresPolicyRefs, RequiresApprovalRef, MutationPolicies
    <3> QED BY <3>1, <3>2
  <2> QED BY <2>1 DEF MissingRefs
<1>6. {} \in WorkflowSets /\ Absent \in Errors
  BY DEF WorkflowSets, Errors
<1>7. DecisionTrace(known, decision) = Governed(policy, refs, TRUE, {}, Absent)
  BY DEF DecisionTrace
<1> HIDE DEF policy, refs
<1>8. ~Raises(Governed(policy, refs, TRUE, {}, Absent))
  BY <1>2, <1>5, <1>6, GovernedTrace
<1> QED BY <1>2, <1>7, <1>8 DEF refs

\* The traces of the loop itself.
LEMMA LoopTraces ==
  /\ \A policy \in {"plan.investigation", "plan.verify", "read.prior_financial_actions"},
        error \in Errors :
       ~Raises(Governed(policy, {"ticket"}, FALSE, {}, error))
  /\ ~Raises([Governed("plan.verify", {"ticket"}, FALSE, {}, "plan.blocked")
                EXCEPT !.metadata.reason = "plan.blocked"])
  /\ \A refs \in RefSets, error \in Errors : "invoice" \in refs =>
       ~Raises(Governed("draft.resolution", refs, TRUE, {}, error))
<1> USE DEF RequiredRefs, RequiredEvidence, PolicyIds, RequiresPolicyRefs, RequiresApprovalRef,
            MutationPolicies, MissingRefs
<1>1. ASSUME NEW policy \in {"plan.investigation", "plan.verify", "read.prior_financial_actions"},
             NEW error \in Errors
      PROVE  ~Raises(Governed(policy, {"ticket"}, FALSE, {}, error))
  <2>1. MissingRefs(policy, {"ticket"}, FALSE, {}) = {}
    OBVIOUS
  <2> QED BY <2>1 DEF Governed, Trace, Metadata, Raises
<1>2. ~Raises([Governed("plan.verify", {"ticket"}, FALSE, {}, "plan.blocked")
                 EXCEPT !.metadata.reason = "plan.blocked"])
  <2>1. MissingRefs("plan.verify", {"ticket"}, FALSE, {}) = {}
    OBVIOUS
  <2> QED BY <2>1 DEF Governed, Trace, Metadata, Raises
<1>3. ASSUME NEW refs \in RefSets, NEW error \in Errors, "invoice" \in refs
      PROVE  ~Raises(Governed("draft.resolution", refs, TRUE, {}, error))
  <2>1. MissingRefs("draft.resolution", refs, TRUE, {}) = {}
    BY <1>3
  <2> QED BY <2>1 DEF Governed, Trace, Metadata, Raises
<1> QED BY <1>1, <1>2, <1>3

\* A live call goes on, or it ends its run, or it raises with a reason that may
\* strand an eval run.
GoesOn(c) ==
  /\ Live(c)
  /\ \A d \in Calls \ {c} : call'[d] = call[d]
  /\ call'[c].run = call[c].run /\ call'[c].ticket = call[c].ticket
  /\ call'[c].pc \notin {"idle", "dead"}
  /\ call'[c].pc = "answered" => run'[call[c].run].status \in {"completed", "failed"}
  /\ call'[c].pc = "raised" =>
       \/ call'[c].cause \in {"escaped", "deleted", "superseded"}
       \/ /\ call'[c].cause = "duplicate"
          /\ evidence[call[c].ticket].subscription = "early"

\* A record of a trace that lacks nothing goes on as asked, or its run is gone.
LEMMA RecordGoesOn ==
  ASSUME AgentInv, NEW c \in Calls, Live(c), NEW row, ~Raises(row), NEW ACTION goto,
         Record(c, row, goto),
         goto => /\ \A d \in Calls \ {c} : call'[d] = call[d]
                 /\ call'[c].run = call[c].run /\ call'[c].ticket = call[c].ticket
                 /\ call'[c].pc \notin {"idle", "dead", "answered", "raised"}
  PROVE  GoesOn(c)
<1>1. CASE RunExists(call[c].run)
  BY <1>1 DEF Record, GoesOn
<1>2. CASE ~RunExists(call[c].run)
  <2>1. Raise(c, "deleted") /\ evidence' = evidence
    BY <1>2 DEF Record
  <2>2. "deleted" \in Causes
    BY DEF Causes
  <2>3. CallSteps(c) /\ call'[c].pc = "raised" /\ call'[c].cause = "deleted"
    BY <2>1, <2>2, RaiseEffect
  <2> QED BY <2>3 DEF GoesOn, CallSteps
<1> QED BY <1>1, <1>2

\* The plan and its verdict.
LEMMA PlanGoesOn ==
  ASSUME AgentInv, NEW c \in Calls,
         Plan(c) \/ RecordPlan(c) \/ RecordVerdict(c) \/ Escape(c, "plan") \/ Escape(c, "draft")
  PROVE  GoesOn(c)
<1>1. call \in [Calls -> CallRecords] /\ call[c] \in CallRecords
  BY DEF AgentInv, CallsAreSound
<1>2. Live(c)
  BY DEF Plan, RecordPlan, RecordVerdict, Escape, Live, Ended
<1>3. CASE Plan(c)
  <2>1. CASE Goto(c, "fail")
    BY <1>1, <1>2, <2>1 DEF Goto, GoesOn, CallRecords
  <2>2. ASSUME NEW verdict, NEW again \in BOOLEAN,
               call' = [call EXCEPT ![c].pc = IF again THEN "plan" ELSE "plan_trace",
                                    ![c].tries = IF again THEN 1 ELSE @,
                                    ![c].accepted = verdict.accepted,
                                    ![c].follows = verdict.follows]
        PROVE  GoesOn(c)
    <3>1. /\ \A d \in Calls \ {c} : call'[d] = call[d]
          /\ call'[c].run = call[c].run /\ call'[c].ticket = call[c].ticket
          /\ call'[c].pc \in {"plan", "plan_trace"}
      BY <1>1, <2>2 DEF CallRecords
    <3> QED BY <1>2, <3>1 DEF GoesOn
  <2> QED BY <1>3, <2>1, <2>2 DEF Plan
<1>4. CASE RecordPlan(c)
  <2>1. Goto(c, "verify_trace") =>
           /\ \A d \in Calls \ {c} : call'[d] = call[d]
           /\ call'[c].run = call[c].run /\ call'[c].ticket = call[c].ticket
           /\ call'[c].pc \notin {"idle", "dead", "answered", "raised"}
    BY JumpEffect
  <2>2. ~Raises(Governed("plan.investigation", {"ticket"}, FALSE, {}, Absent))
    BY LoopTraces DEF Errors
  <2> QED BY <1>2, <1>4, <2>1, <2>2, RecordGoesOn DEF RecordPlan
<1>5. CASE RecordVerdict(c)
  <2>1. \A pc \in {"evidence", "fail"} :
           Goto(c, pc) => /\ \A d \in Calls \ {c} : call'[d] = call[d]
                          /\ call'[c].run = call[c].run /\ call'[c].ticket = call[c].ticket
                          /\ call'[c].pc \notin {"idle", "dead", "answered", "raised"}
    BY JumpEffect
  <2>2. CASE call[c].accepted
    <3>1. Record(c, Governed("plan.verify", {"ticket"}, FALSE, {}, Absent), Goto(c, "evidence"))
      BY <1>5, <2>2 DEF RecordVerdict
    <3>2. ~Raises(Governed("plan.verify", {"ticket"}, FALSE, {}, Absent))
      BY LoopTraces DEF Errors
    <3> QED BY <1>2, <2>1, <3>1, <3>2, RecordGoesOn
  <2>3. CASE ~call[c].accepted
    <3>1. PICK row : row = [Governed("plan.verify", {"ticket"}, FALSE, {}, "plan.blocked")
                              EXCEPT !.metadata.reason = "plan.blocked"]
      OBVIOUS
    <3>2. Record(c, row, Goto(c, "fail"))
      BY <1>5, <2>3, <3>1, Zenon DEF RecordVerdict
    <3>3. ~Raises(row)
      BY <3>1, LoopTraces
    <3> QED BY <1>2, <2>1, <3>2, <3>3, RecordGoesOn
  <2> QED BY <2>2, <2>3
<1>6. CASE Escape(c, "plan") \/ Escape(c, "draft")
  BY <1>1, <1>2, <1>6 DEF Escape, Raise, GoesOn, CallRecords
<1> QED BY <1>3, <1>4, <1>5, <1>6

\* Reading and deciding.
LEMMA ReadGoesOn ==
  ASSUME AgentInv, NEW c \in Calls, CompleteFixture(evidence[call[c].ticket]),
         ReadEvidence(c) \/ ReadPrior(c) \/ Decide(c)
  PROVE  GoesOn(c)
<1>1. call \in [Calls -> CallRecords] /\ call[c] \in CallRecords
  BY DEF AgentInv, CallsAreSound
<1>2. Live(c)
  BY DEF ReadEvidence, ReadPrior, Decide, Live, Ended
<1>3. PICK known : known = evidence[call[c].ticket]
  OBVIOUS
<1>4. CASE ReadEvidence(c)
  <2>1. Goto(c, "prior") =>
           /\ \A d \in Calls \ {c} : call'[d] = call[d]
           /\ call'[c].run = call[c].run /\ call'[c].ticket = call[c].ticket
           /\ call'[c].pc \notin {"idle", "dead", "answered", "raised"}
    BY JumpEffect
  <2>2. Record(c, EvidenceTrace(known), Goto(c, "prior"))
    BY <1>3, <1>4 DEF ReadEvidence, CompleteFixture
  <2>3. ~Raises(EvidenceTrace(known))
    BY <1>3, FixtureTrace
  <2> QED BY <1>2, <2>1, <2>2, <2>3, RecordGoesOn
<1>5. CASE ReadPrior(c)
  <2>1. ~Raises(Governed("read.prior_financial_actions", {"ticket"}, FALSE, {}, Absent))
    BY LoopTraces DEF Errors
  <2>2. PICK executed :
          Record(c, Governed("read.prior_financial_actions", {"ticket"}, FALSE, {}, Absent),
                 call' = [call EXCEPT ![c].pc = "decide", ![c].executed = executed])
    BY <1>5 DEF ReadPrior
  <2>3. (call' = [call EXCEPT ![c].pc = "decide", ![c].executed = executed]) =>
           /\ \A d \in Calls \ {c} : call'[d] = call[d]
           /\ call'[c].run = call[c].run /\ call'[c].ticket = call[c].ticket
           /\ call'[c].pc \notin {"idle", "dead", "answered", "raised"}
    BY <1>1 DEF CallRecords
  <2> QED BY <1>2, <2>1, <2>2, <2>3, RecordGoesOn
<1>6. CASE Decide(c)
  <2>1. call[c].executed \in SUBSET Actions
    BY <1>1 DEF CallRecords
  <2>2. PICK decision :
          /\ \E reading \in Readings(known.charges) :
               decision = Evaluate(known, reading, call[c].executed)
          /\ Record(c, DecisionTrace(known, decision),
               call' = [call EXCEPT ![c].pc = "draft", ![c].tries = 0,
                                    ![c].decision = decision, ![c].executed = {}])
    BY <1>3, <1>6 DEF Decide
  <2>3. (call' = [call EXCEPT ![c].pc = "draft", ![c].tries = 0,
                                    ![c].decision = decision, ![c].executed = {}]) =>
           /\ \A d \in Calls \ {c} : call'[d] = call[d]
           /\ call'[c].run = call[c].run /\ call'[c].ticket = call[c].ticket
           /\ call'[c].pc \notin {"idle", "dead", "answered", "raised"}
    BY <1>1 DEF CallRecords
  <2>4. ~Raises(DecisionTrace(known, decision))
    BY <1>3, <2>1, <2>2, FixtureDecision
  <2> QED BY <1>2, <2>2, <2>3, <2>4, RecordGoesOn
<1> QED BY <1>4, <1>5, <1>6

\* Drafting and failing.
LEMMA DraftGoesOn ==
  ASSUME AgentInv, NEW c \in Calls, Draft(c) \/ RecordDraftFailure(c) \/ Fail(c)
  PROVE  GoesOn(c)
<1>1. call \in [Calls -> CallRecords] /\ call[c] \in CallRecords
  BY DEF AgentInv, CallsAreSound
<1>2. Live(c)
  BY DEF Draft, RecordDraftFailure, Fail, Live, Ended
<1>3. CASE Draft(c)
  BY <1>1, <1>2, <1>3 DEF Draft, Goto, GoesOn, CallRecords
<1>4. CASE RecordDraftFailure(c)
  <2>1. Goto(c, "fail") =>
           /\ \A d \in Calls \ {c} : call'[d] = call[d]
           /\ call'[c].run = call[c].run /\ call'[c].ticket = call[c].ticket
           /\ call'[c].pc \notin {"idle", "dead", "answered", "raised"}
    BY JumpEffect
  <2>2. call[c].decision.refs \in RefSets /\ "invoice" \in call[c].decision.refs
    BY <1>1, <1>4 DEF RecordDraftFailure, AgentInv, CallsAreSound, CallRecords, DecisionRecords,
                      RefSets
  <2>3. ~Raises(Governed("draft.resolution", call[c].decision.refs, TRUE, {}, "provider.failed"))
    BY <2>2, LoopTraces DEF Errors
  <2> QED BY <1>2, <1>4, <2>1, <2>3, RecordGoesOn DEF RecordDraftFailure
<1>5. CASE Fail(c)
  <2>1. PICK r \in RunIds : r = call[c].run
    BY <1>2 DEF AgentInv, CallsAreSound
  <2>2. CASE Commands!FailRun(r, TRUE) /\ Goto(c, "answered")
    <3>1. FailRun(r, TRUE)
      BY <2>2, SameEnd
    <3>2. run'[r].status = "failed"
      BY <3>1 DEF FailRun, WriteFailure, AgentInv, IInv, TypeOK, RunRows
    <3>3. Goto(c, "answered")
      BY <2>2
    <3> QED BY <1>1, <1>2, <2>1, <3>2, <3>3 DEF GoesOn, Goto, CallRecords
  <2>3. CASE Raise(c, "superseded")
    BY <1>1, <1>2, <2>3 DEF GoesOn, Raise, CallRecords
  <2> QED BY <1>5, <2>1, <2>2, <2>3 DEF Fail
<1> QED BY <1>3, <1>4, <1>5

\* Finalizing: an action that is refused as a duplicate was executed, for nothing
\* of the ticket is pending while the run is running.
LEMMA FinalizeGoesOn ==
  ASSUME AgentInv, LoopInv, NEW c \in Calls, CompleteFixture(evidence[call[c].ticket]),
         Finalize(c) \/ FinalizeRefused(c)
  PROVE  GoesOn(c)
<1>1. call \in [Calls -> CallRecords] /\ call[c] \in CallRecords
  BY DEF AgentInv, CallsAreSound
<1>2. Live(c) /\ call[c].pc = "finalize"
  BY DEF Finalize, FinalizeRefused, Live, Ended
<1>3. PICK r \in RunIds : r = call[c].run
  BY <1>2 DEF AgentInv, CallsAreSound
<1>4. PICK a : a = call[c].decision.action
  OBVIOUS
<1>5. CASE Finalize(c)
  <2>1. FinalizeNoAction(r) \/ FinalizeForApproval(r, a)
    BY <1>3, <1>4, <1>5, SameEnd DEF Finalize
  <2>2. run'[r].status = "completed"
    BY <2>1 DEF FinalizeNoAction, WriteNoAction, FinalizeForApproval, WriteProposal,
                AgentInv, IInv, TypeOK, RunRows
  <2>3. Goto(c, "answered")
    BY <1>5 DEF Finalize
  <2> QED BY <1>1, <1>2, <1>3, <2>2, <2>3 DEF GoesOn, Goto, CallRecords
<1>6. CASE FinalizeRefused(c) /\ Raise(c, "superseded")
  BY <1>1, <1>2, <1>6 DEF GoesOn, Raise, CallRecords
<1>7. CASE FinalizeRefused(c) /\ ~Raise(c, "superseded")
  <2>1. PICK target : MayEnd(r, target)
    BY <1>3, <1>7, SameEnd DEF FinalizeRefused
  <2>2. run[r].status = "running"
    BY <2>1 DEF MayEnd
  <2>3. PICK t \in Tickets : t = call[c].ticket
    BY <1>2, <1>3, <2>2, FinalizingCall
  <2>4. run[r].ticket = t /\ Concluded(t, call[c].decision, ExecutedOf(t))
    BY <1>2, <1>3, <2>2, <2>3, FinalizingCall
  <2>5. a # NoAction /\ (IsPending(t, a) \/ IsExecuted(t, a)) /\ Raise(c, "duplicate")
    BY <1>4, <1>7, <2>3 DEF FinalizeRefused
  <2>6. ~IsPending(t, a)
    <3>1. SUFFICES ASSUME NEW w \in WorkflowIds, approval[w].status = "pending",
                          workflow[w].ticket = t
                   PROVE  FALSE
      BY DEF IsPending
    <3>2. workflow[w].status = "awaiting_approval" /\ Active(w) /\ Exists(w)
      BY <3>1 DEF AgentInv, IInv, DecisionsAgree, Active, ActiveStatuses, Exists, Absent
    <3>3. PICK v \in WorkflowIds : v = run[r].workflow
      BY <2>2, RunsWorkflow DEF AgentInv, RunExists, Absent
    <3>4. /\ workflow[v].status = "investigating" /\ Active(v) /\ Exists(v)
          /\ workflow[v].ticket = t
      BY <2>2, <2>4, <3>3, RunsWorkflow
         DEF AgentInv, IInv, RunTracksWorkflow, RunExists, Active, ActiveStatuses, Absent
    <3> QED BY <3>1, <3>2, <3>3, <3>4, OneActive DEF AgentInv, IInv
  <2>7. a \in ExecutedOf(t)
    <3>1. PICK w \in WorkflowIds : mutation[w] # None /\ workflow[w].ticket = t /\ mutation[w] = a
      BY <2>5, <2>6 DEF IsExecuted
    <3>2. w \in WorkflowsOf(t)
      BY <3>1, MutationSettles DEF AgentInv, WorkflowsOf
    <3> QED BY <3>1, <3>2 DEF ExecutedOf
  <2>8. PICK known : known = evidence[t]
    OBVIOUS
  <2>9. known \in EvidenceSet
    BY <2>3, <2>8 DEF AgentInv, CallsAreSound
  <2>10. PICK reading \in Readings(known.charges) :
           call[c].decision = Evaluate(known, reading, ExecutedOf(t))
    BY <2>4, <2>8 DEF Concluded
  <2>11. known.subscription = "early"
    BY <1>4, <2>5, <2>7, <2>9, <2>10, NewProposal
  <2>12. Raise(c, "duplicate")
    BY <2>5
  <2> QED BY <1>1, <1>2, <2>3, <2>8, <2>11, <2>12 DEF GoesOn, Raise, CallRecords
<1> QED BY <1>5, <1>6, <1>7

LEMMA StepGoesOn ==
  ASSUME AgentInv, LoopInv, NEW c \in Calls, CompleteFixture(evidence[call[c].ticket]), Step(c)
  PROVE  GoesOn(c)
BY PlanGoesOn, ReadGoesOn, DraftGoesOn, FinalizeGoesOn DEF Step

-----------------------------------------------------------------------------
(* The local variables of a request.                                       *)

\* A step of a request changes nobody else's variables, and goes on to `local`.
JobGoes(j, local) ==
  /\ local \in JobRecords
  /\ job' = [job EXCEPT ![j] = local]

LEMMA JobGoesEffect ==
  ASSUME JobsTypeOK, NEW j \in Jobs, NEW local, JobGoes(j, local)
  PROVE  /\ job' \in [Jobs -> JobRecords] /\ job'[j] = local
         /\ \A i \in Jobs \ {j} : job'[i] = job[i]
BY DEF JobGoes, JobsTypeOK

\* A case that is opened starts from blank variables.
LEMMA BlankJob ==
  /\ NoRequests \in Reads
  /\ NoJob \in JobRecords
<1>1. NoRequests \in Reads
  BY DEF NoRequests, NoApproval, Reads, ApprovalRows
<1>2. << >> \in CaseSeqs /\ << >> \in Logs
  BY DEF CaseSeqs, Logs
<1>3. {} \in RequestSets /\ {} \in ResultSets
  BY DEF RequestSets, ResultSets
<1> QED BY <1>1, <1>2, <1>3 DEF NoJob, JobRecords, JobPcs, Causes

LEMMA GateType ==
  ASSUME NEW case
  PROVE  /\ CaseGate(case) \in BlockedResults \cup {None}
         /\ CaseGate(case) = None => /\ case.scenario \in SupportedScenarios
                                     /\ case.ticket # Absent
<1>1. \A code \in BlockedCodes : Blocked(code) \in BlockedResults /\ Blocked(code) # None
  BY IdAssumption DEF BlockedResults
<1>2. /\ "scenario.runner_not_implemented" \in BlockedCodes
      /\ "eval.fixture_missing" \in BlockedCodes /\ "provider.not_configured" \in BlockedCodes
  BY DEF BlockedCodes
<1> QED BY <1>1, <1>2, Zenon DEF CaseGate

\* Results are graded on dimensions, and blocked ones pass none of them.
LEMMA ResultTypes ==
  /\ \A passed \in DimensionSets : Graded(passed) \in GradedResults /\ Graded(passed).passed = passed
  /\ \A result \in BlockedResults \cup GradedResults : result.passed \in DimensionSets
<1>1. \A passed : Graded(passed).passed = passed
  BY DEF Graded
<1>2. \A code : Blocked(code).passed = {}
  BY DEF Blocked
<1>3. {} \in DimensionSets
  BY DEF DimensionSets
<1> QED BY <1>1, <1>2, <1>3 DEF BlockedResults, GradedResults

LEMMA BeginGoes ==
  ASSUME EvalInv, NEW j \in Jobs, Begin(j)
  PROVE  \E todo \in CaseSeqs : JobGoes(j, [job[j] EXCEPT !.pc = "case", !.todo = todo])
<1>1. job[j] \in JobRecords
  BY DEF EvalInv, JobsTypeOK
<1>2. PICK todo \in {CaseOrder} \cup {<<CaseOrder[i]>> : i \in DOMAIN CaseOrder} :
        job' = [job EXCEPT ![j].pc = "case", ![j].todo = todo]
  BY DEF Begin
<1>3. todo \in CaseSeqs
  <2>1. CaseOrder \in Seq(DOMAIN CaseTable)
    BY CaseAssumption
  <2>2. \A i \in DOMAIN CaseOrder : <<CaseOrder[i]>> \in Seq(DOMAIN CaseTable)
    BY <2>1
  <2> QED BY <1>2, <2>1, <2>2 DEF CaseSeqs
<1>4. [job[j] EXCEPT !.pc = "case", !.todo = todo] \in JobRecords
  BY <1>1, <1>3 DEF JobRecords, JobPcs
<1>5. job' = [job EXCEPT ![j] = [job[j] EXCEPT !.pc = "case", !.todo = todo]]
  BY <1>1, <1>2 DEF EvalInv, JobsTypeOK
<1> QED BY <1>3, <1>4, <1>5 DEF JobGoes

LEMMA OpenCaseGoes ==
  ASSUME EvalInv, NEW j \in Jobs, OpenCase(j)
  PROVE  LET gate == CaseGate(CaseOf(j)) IN
         JobGoes(j, [NoJob EXCEPT !.pc = IF gate = None THEN "loop" ELSE "save",
                                  !.todo = job[j].todo, !.result = gate])
<1>1. job[j] \in JobRecords
  BY DEF EvalInv, JobsTypeOK
<1>2. PICK gate : gate = CaseGate(CaseOf(j))
  OBVIOUS
<1>3. gate \in BlockedResults \cup {None}
  BY <1>2, GateType
<1>4. [NoJob EXCEPT !.pc = IF gate = None THEN "loop" ELSE "save",
                    !.todo = job[j].todo, !.result = gate] \in JobRecords
  <2>1. PICK pc : pc = (IF gate = None THEN "loop" ELSE "save") /\ pc \in JobPcs
    BY DEF JobPcs, StoringPcs
  <2>2. job[j].todo \in CaseSeqs
    BY <1>1 DEF JobRecords
  <2>3. [NoJob EXCEPT !.pc = pc, !.todo = job[j].todo, !.result = gate] \in JobRecords
    BY <2>1, <2>2, <1>3, BlankJob DEF JobRecords
  <2> QED BY <2>1, <2>3
<1>5. job' = [job EXCEPT ![j] = [NoJob EXCEPT !.pc = IF gate = None THEN "loop" ELSE "save",
                                              !.todo = job[j].todo, !.result = gate]]
  BY <1>2 DEF OpenCase
<1> QED BY <1>2, <1>4, <1>5 DEF JobGoes

\* What a request takes over from a call that has ended.
LEMMA FollowGoes ==
  ASSUME EvalInv, AgentInv', NEW j \in Jobs, NEW c \in Calls, Follow(j, c)
  PROVE  \/ /\ call'[c].pc = "answered"
            /\ JobGoes(j, [job[j] EXCEPT !.pc = "traces", !.ended = run'[c].status,
                                         !.workflow = run'[c].workflow])
         \/ /\ call'[c].pc = "raised"
            /\ JobGoes(j, [job[j] EXCEPT !.pc = "raised", !.cause = call'[c].cause])
         \/ /\ call'[c].pc \notin {"answered", "raised"}
            /\ JobGoes(j, job[j])
<1>1. job \in [Jobs -> JobRecords] /\ job[j] \in JobRecords
  BY DEF EvalInv, JobsTypeOK
<1>2. c \in RunIds
  BY CallParts
<1>3. PICK row : row = run'[c]
  OBVIOUS
<1>4. row.status \in RunStatuses \cup {Absent} /\ row.workflow \in WorkflowIds \cup {None}
  BY <1>2, <1>3 DEF AgentInv, IInv, TypeOK, RunRows
<1>5. PICK cause : cause = call'[c].cause
  OBVIOUS
<1>6. cause \in Causes
  BY <1>5 DEF AgentInv, CallsAreSound, CallRecords
<1>7. CASE call'[c].pc = "answered"
  <2>1. [job[j] EXCEPT !.pc = "traces", !.ended = row.status, !.workflow = row.workflow]
          \in JobRecords
    BY <1>1, <1>4 DEF JobRecords, JobPcs, GradingPcs
  <2>2. job' = [job EXCEPT ![j] = [job[j] EXCEPT !.pc = "traces", !.ended = row.status,
                                                 !.workflow = row.workflow]]
    BY <1>3, <1>7 DEF Follow
  <2> QED BY <1>3, <1>7, <2>1, <2>2 DEF JobGoes
<1>8. CASE call'[c].pc = "raised"
  <2>1. [job[j] EXCEPT !.pc = "raised", !.cause = cause] \in JobRecords
    BY <1>1, <1>6 DEF JobRecords, JobPcs
  <2>2. job' = [job EXCEPT ![j] = [job[j] EXCEPT !.pc = "raised", !.cause = cause]]
    BY <1>5, <1>8 DEF Follow
  <2> QED BY <1>5, <1>8, <2>1, <2>2 DEF JobGoes
<1>9. CASE call'[c].pc \notin {"answered", "raised"}
  <2>1. job' = [job EXCEPT ![j] = job[j]]
    BY <1>9 DEF Follow
  <2> QED BY <1>1, <1>9, <2>1 DEF JobGoes
<1> QED BY <1>7, <1>8, <1>9

\* What a request reads is of the columns' types.
LEMMA ReadTypes ==
  ASSUME EvalInv
  PROVE  /\ trace \in [RunIds -> Logs] /\ approval \in Reads
         /\ workflow \in [WorkflowIds -> WorkflowRows] /\ run \in [RunIds -> RunRows]
         /\ << >> \in Logs /\ {} \in RequestSets /\ {} \in ResultSets
<1>1. trace \in [RunIds -> Logs]
  BY DEF EvalInv, AgentInv, LogsAreSound, Logs
<1>2. approval \in Reads /\ workflow \in [WorkflowIds -> WorkflowRows] /\ run \in [RunIds -> RunRows]
  BY DEF EvalInv, AgentInv, IInv, TypeOK, Reads
<1>3. << >> \in Logs
  BY DEF Logs
<1> QED BY <1>1, <1>2, <1>3 DEF RequestSets, ResultSets

\* The case a request grades and the call it grades.
LEMMA GradingJob ==
  ASSUME EvalInv, NEW j \in Jobs, job[j].pc \in GradingPcs
  PROVE  /\ job[j].todo # << >> /\ Case(j) \in Runnable
         /\ CaseOf(j) = CaseTable[Case(j)]
         /\ CallOf(j) \in Calls /\ CallOf(j) \in RunIds /\ CallOf(j)[2] = Case(j)
         /\ Answered(CallOf(j))
<1>1. job[j].todo # << >> /\ Case(j) \in Runnable /\ Answered(CallOf(j))
  BY DEF EvalInv, JobsAreSound, JobIsSound
<1> QED BY <1>1, CallOfCase DEF EvalInv, CaseOf

LEMMA ReadTracesGoes ==
  ASSUME EvalInv, NEW j \in Jobs, ReadTraces(j)
  PROVE  JobGoes(j, [job[j] EXCEPT !.pc = "workflow", !.traces = trace[CallOf(j)]])
<1>1. job \in [Jobs -> JobRecords] /\ job[j] \in JobRecords
  BY DEF EvalInv, JobsTypeOK
<1>2. CallOf(j) \in RunIds
  BY GradingJob DEF ReadTraces, GradingPcs
<1>3. PICK log \in Logs : log = trace[CallOf(j)]
  BY <1>2, ReadTypes
<1>4. [job[j] EXCEPT !.pc = "workflow", !.traces = log] \in JobRecords
  BY <1>1, <1>3 DEF JobRecords, JobPcs, GradingPcs
<1>5. job' = [job EXCEPT ![j] = [job[j] EXCEPT !.pc = "workflow", !.traces = log]]
  BY <1>1, <1>3 DEF ReadTraces
<1> QED BY <1>3, <1>4, <1>5 DEF JobGoes

LEMMA ReadWorkflowGoes ==
  ASSUME EvalInv, NEW j \in Jobs, ReadWorkflow(j)
  PROVE  JobGoes(j, [job[j] EXCEPT !.pc = "requests", !.workflow = None,
                                   !.status = workflow[job[j].workflow].status])
<1>1. job \in [Jobs -> JobRecords] /\ job[j] \in JobRecords
  BY DEF EvalInv, JobsTypeOK
<1>2. job[j].workflow \in WorkflowIds
  BY DEF ReadWorkflow, EvalInv, JobsAreSound, JobIsSound
<1>3. PICK status \in WorkflowStatuses \cup {Absent} : status = workflow[job[j].workflow].status
  BY <1>2, ReadTypes DEF WorkflowRows
<1>4. [job[j] EXCEPT !.pc = "requests", !.workflow = None, !.status = status] \in JobRecords
  BY <1>1, <1>3 DEF JobRecords, JobPcs, GradingPcs
<1>5. job' = [job EXCEPT ![j] = [job[j] EXCEPT !.pc = "requests", !.workflow = None,
                                               !.status = status]]
  BY <1>1, <1>3 DEF ReadWorkflow
<1> QED BY <1>3, <1>4, <1>5 DEF JobGoes

LEMMA ReadRequestsGoes ==
  ASSUME EvalInv, NEW j \in Jobs, ReadRequests(j)
  PROVE  JobGoes(j, [job[j] EXCEPT !.pc = "grade",
           !.requests = {approval[w] : w \in {v \in WorkflowIds : approval[v].run = CallOf(j)}}])
<1>1. job \in [Jobs -> JobRecords] /\ job[j] \in JobRecords
  BY DEF EvalInv, JobsTypeOK
<1>2. {approval[w] : w \in {v \in WorkflowIds : approval[v].run = CallOf(j)}} \in RequestSets
  BY ReadTypes DEF Reads, RequestSets
<1>3. PICK requests \in RequestSets :
        requests = {approval[w] : w \in {v \in WorkflowIds : approval[v].run = CallOf(j)}}
  BY <1>2
<1>4. [job[j] EXCEPT !.pc = "grade", !.requests = requests] \in JobRecords
  BY <1>1, <1>3 DEF JobRecords, JobPcs, GradingPcs
<1>5. job' = [job EXCEPT ![j] = [job[j] EXCEPT !.pc = "grade", !.requests = requests]]
  BY <1>1, <1>3 DEF ReadRequests
<1> QED BY <1>3, <1>4, <1>5 DEF JobGoes

LEMMA DimensionsType ==
  ASSUME NEW j, NEW mutated
  PROVE  Dimensions(j, mutated) \in DimensionSets
BY DEF Dimensions, DimensionSets, BlockingDimensions

\* Whether there is a mutation of the run.
Mutated(c) == \E w \in WorkflowIds : approval[w].run = c /\ mutation[w] # None

LEMMA ReadMutationsGoes ==
  ASSUME EvalInv, NEW j \in Jobs, ReadMutations(j)
  PROVE  JobGoes(j, [job[j] EXCEPT !.pc = "comply_traces", !.traces = << >>, !.status = Absent,
                       !.requests = {}, !.result = Graded(Dimensions(j, Mutated(CallOf(j))))])
<1>1. job \in [Jobs -> JobRecords] /\ job[j] \in JobRecords
  BY DEF EvalInv, JobsTypeOK
<1>2. PICK result \in GradedResults : result = Graded(Dimensions(j, Mutated(CallOf(j))))
  BY DimensionsType, ResultTypes
<1>3. [job[j] EXCEPT !.pc = "comply_traces", !.traces = << >>, !.status = Absent,
                     !.requests = {}, !.result = result] \in JobRecords
  BY <1>1, <1>2, ReadTypes DEF JobRecords, JobPcs, GradingPcs
<1>4. job' = [job EXCEPT ![j] = [job[j] EXCEPT !.pc = "comply_traces", !.traces = << >>,
                             !.status = Absent, !.requests = {}, !.result = result]]
  BY <1>1, <1>2 DEF ReadMutations, Mutated
<1> QED BY <1>2, <1>3, <1>4 DEF JobGoes

LEMMA ComplyTracesGoes ==
  ASSUME EvalInv, NEW j \in Jobs, ComplyTraces(j)
  PROVE  IF RunExists(CallOf(j))
         THEN JobGoes(j, [job[j] EXCEPT !.pc = "comply_requests", !.traces = trace[CallOf(j)]])
         ELSE JobGoes(j, [job[j] EXCEPT !.pc = "save"])
<1>1. job \in [Jobs -> JobRecords] /\ job[j] \in JobRecords
  BY DEF EvalInv, JobsTypeOK
<1>2. CallOf(j) \in RunIds
  BY GradingJob DEF ComplyTraces, GradingPcs
<1>3. PICK log \in Logs : log = trace[CallOf(j)]
  BY <1>2, ReadTypes
<1>4. /\ [job[j] EXCEPT !.pc = "comply_requests", !.traces = log] \in JobRecords
      /\ [job[j] EXCEPT !.pc = "save"] \in JobRecords
  BY <1>1, <1>3 DEF JobRecords, JobPcs, GradingPcs, StoringPcs
<1>5. CASE RunExists(CallOf(j))
  <2>1. job' = [job EXCEPT ![j] = [job[j] EXCEPT !.pc = "comply_requests", !.traces = log]]
    BY <1>1, <1>3, <1>5 DEF ComplyTraces
  <2> QED BY <1>3, <1>4, <1>5, <2>1 DEF JobGoes
<1>6. CASE ~RunExists(CallOf(j))
  <2>1. job' = [job EXCEPT ![j] = [job[j] EXCEPT !.pc = "save"]]
    BY <1>1, <1>6 DEF ComplyTraces
  <2> QED BY <1>4, <1>6, <2>1 DEF JobGoes
<1> QED BY <1>5, <1>6

LEMMA ComplyRequestsGoes ==
  ASSUME EvalInv, NEW j \in Jobs, ComplyRequests(j)
  PROVE  JobGoes(j, [job[j] EXCEPT !.pc = "comply", !.read = approval])
<1>1. job \in [Jobs -> JobRecords] /\ job[j] \in JobRecords
  BY DEF EvalInv, JobsTypeOK
<1>2. PICK read \in Reads : read = approval
  BY ReadTypes
<1>3. [job[j] EXCEPT !.pc = "comply", !.read = read] \in JobRecords
  BY <1>1, <1>2 DEF JobRecords, JobPcs, GradingPcs
<1>4. job' = [job EXCEPT ![j] = [job[j] EXCEPT !.pc = "comply", !.read = read]]
  BY <1>1, <1>2 DEF ComplyRequests
<1> QED BY <1>2, <1>3, <1>4 DEF JobGoes

\* The dimensions a result has with the last one.
Complied(j) ==
  job[j].result.passed
    \cup (IF Failures(CallOf(j), CaseOf(j).ticket, TRUE, job[j].traces, job[j].read, mutation) = {}
          THEN {"governance_compliance"} ELSE {})

LEMMA ComplyGoes ==
  ASSUME EvalInv, NEW j \in Jobs, Comply(j)
  PROVE  /\ Complied(j) \in DimensionSets
         /\ JobGoes(j, [job[j] EXCEPT !.pc = "save", !.traces = << >>, !.read = NoRequests,
                                      !.result = Graded(Complied(j))])
<1>1. job \in [Jobs -> JobRecords] /\ job[j] \in JobRecords
  BY DEF EvalInv, JobsTypeOK
<1>2. job[j].result \in BlockedResults \cup GradedResults
  <2>1. job[j].pc = "comply"
    BY DEF Comply
  <2>2. GradeIsExact(j)
    BY DEF EvalInv, GradesAreExact
  <2> QED BY <2>1, <2>2 DEF GradeIsExact, ExactGrade, GradedResults
<1>3. Complied(j) \in DimensionSets
  <2>1. job[j].result.passed \in DimensionSets
    BY <1>2, ResultTypes
  <2> QED BY <2>1 DEF Complied, DimensionSets, BlockingDimensions
<1>4. PICK result \in GradedResults : result = Graded(Complied(j))
  BY <1>3, ResultTypes
<1>5. [job[j] EXCEPT !.pc = "save", !.traces = << >>, !.read = NoRequests, !.result = result]
        \in JobRecords
  BY <1>1, <1>4, ReadTypes, BlankJob DEF JobRecords, JobPcs, StoringPcs
<1>6. job' = [job EXCEPT ![j] = [job[j] EXCEPT !.pc = "save", !.traces = << >>,
                                               !.read = NoRequests, !.result = result]]
  BY <1>1, <1>4 DEF Comply, Complied
<1> QED BY <1>3, <1>4, <1>5, <1>6 DEF JobGoes

\* The case whose result a request stores.
LEMMA StoringJob ==
  ASSUME EvalInv, NEW j \in Jobs, job[j].pc \in StoringPcs
  PROVE  /\ job[j].todo # << >> /\ Case(j) \in DOMAIN CaseTable
         /\ CallOf(j) \in Calls /\ CallOf(j) \in RunIds /\ CallOf(j)[2] = Case(j)
<1>1. job[j].todo # << >>
  BY DEF EvalInv, JobsAreSound, JobIsSound
<1> QED BY <1>1, CallOfCase DEF EvalInv

LEMMA DeleteResultsGoes ==
  ASSUME EvalInv, NEW j \in Jobs, DeleteResults(j)
  PROVE  \E sees \in ResultSets : JobGoes(j, [job[j] EXCEPT !.pc = "insert", !.sees = sees])
<1>1. job \in [Jobs -> JobRecords] /\ job[j] \in JobRecords
  BY DEF EvalInv, JobsTypeOK
<1>2. {row \in results : row.case = Case(j)} \in ResultSets
  BY DEF EvalInv, JobsTypeOK, ResultSets
<1>3. PICK sees \in ResultSets : sees = {row \in results : row.case = Case(j)}
  BY <1>2
<1>4. [job[j] EXCEPT !.pc = "insert", !.sees = sees] \in JobRecords
  BY <1>1, <1>3 DEF JobRecords, JobPcs, StoringPcs
<1>5. job' = [job EXCEPT ![j] = [job[j] EXCEPT !.pc = "insert", !.sees = sees]]
  BY <1>1, <1>3 DEF DeleteResults
<1> QED BY <1>3, <1>4, <1>5 DEF JobGoes

LEMMA InsertResultGoes ==
  ASSUME EvalInv, NEW j \in Jobs, InsertResult(j)
  PROVE  /\ results' \in ResultSets
         /\ \/ JobGoes(j, [job[j] EXCEPT !.pc = "snapshot", !.sees = {}])
            \/ JobGoes(j, [job[j] EXCEPT !.pc = "raised", !.sees = {}, !.cause = "reset"])
<1>1. job \in [Jobs -> JobRecords] /\ job[j] \in JobRecords /\ results \subseteq ResultRows
  BY DEF EvalInv, JobsTypeOK, ResultSets
<1>2. Case(j) \in DOMAIN CaseTable /\ ResultRun(j) \in RunIds \cup {None}
  BY StoringJob DEF InsertResult, StoringPcs, ResultRun
<1>3. [case |-> Case(j), job |-> j, run |-> ResultRun(j)] \in ResultRows
  BY <1>2 DEF ResultRows
<1>4. /\ [job[j] EXCEPT !.pc = "snapshot", !.sees = {}] \in JobRecords
      /\ [job[j] EXCEPT !.pc = "raised", !.sees = {}, !.cause = "reset"] \in JobRecords
  BY <1>1, ReadTypes DEF JobRecords, JobPcs, StoringPcs
<1>5. CASE ResultRun(j) = None \/ RunExists(CallOf(j))
  <2>1. /\ results' = (results \ job[j].sees) \cup {[case |-> Case(j), job |-> j, run |-> ResultRun(j)]}
        /\ job' = [job EXCEPT ![j].pc = "snapshot", ![j].sees = {}]
    BY <1>5 DEF InsertResult
  <2>2. results' \in ResultSets
    BY <1>1, <1>3, <2>1 DEF ResultSets
  <2>3. job' = [job EXCEPT ![j] = [job[j] EXCEPT !.pc = "snapshot", !.sees = {}]]
    BY <1>1, <2>1
  <2> QED BY <1>4, <2>2, <2>3 DEF JobGoes
<1>6. CASE ~(ResultRun(j) = None \/ RunExists(CallOf(j)))
  <2>1. /\ results' = results
        /\ job' = [job EXCEPT ![j].pc = "raised", ![j].sees = {}, ![j].cause = "reset"]
    BY <1>6 DEF InsertResult
  <2>2. job' = [job EXCEPT ![j] = [job[j] EXCEPT !.pc = "raised", !.sees = {}, !.cause = "reset"]]
    BY <1>1, <2>1
  <2> QED BY <1>1, <1>4, <2>1, <2>2 DEF JobGoes, ResultSets
<1> QED BY <1>5, <1>6

LEMMA AddSnapshotGoes ==
  ASSUME EvalInv, NEW j \in Jobs, AddSnapshot(j)
  PROVE  \E todo \in CaseSeqs : JobGoes(j, [NoJob EXCEPT !.pc = "case", !.todo = todo])
<1>1. job[j] \in JobRecords
  BY DEF EvalInv, JobsTypeOK
<1>2. PICK todo : todo = Tail(job[j].todo)
  OBVIOUS
<1>3. todo \in CaseSeqs
  <2>1. job[j].todo \in Seq(DOMAIN CaseTable) /\ job[j].todo # << >>
    BY <1>1, StoringJob DEF AddSnapshot, StoringPcs, JobRecords, CaseSeqs
  <2> QED BY <1>2, <2>1, HeadTailProperties DEF CaseSeqs
<1>4. [NoJob EXCEPT !.pc = "case", !.todo = todo] \in JobRecords
  BY <1>3, BlankJob DEF JobRecords, JobPcs
<1>5. job' = [job EXCEPT ![j] = [NoJob EXCEPT !.pc = "case", !.todo = todo]]
  BY <1>2 DEF AddSnapshot
<1> QED BY <1>3, <1>4, <1>5 DEF JobGoes

\* The steps that end a request.
LEMMA EndGoes ==
  ASSUME EvalInv, NEW j \in Jobs, NEW pc \in JobPcs, job' = [job EXCEPT ![j].pc = pc]
  PROVE  JobGoes(j, [job[j] EXCEPT !.pc = pc])
<1>1. job \in [Jobs -> JobRecords] /\ job[j] \in JobRecords
  BY DEF EvalInv, JobsTypeOK
<1>2. [job[j] EXCEPT !.pc = pc] \in JobRecords
  BY <1>1 DEF JobRecords
<1> QED BY <1>1, <1>2 DEF JobGoes

LEMMA LoopConflictGoes ==
  ASSUME EvalInv, NEW j \in Jobs, LoopConflict(j)
  PROVE  JobGoes(j, [job[j] EXCEPT !.pc = "raised", !.cause = "conflict"])
<1>1. job \in [Jobs -> JobRecords] /\ job[j] \in JobRecords
  BY DEF EvalInv, JobsTypeOK
<1>2. [job[j] EXCEPT !.pc = "raised", !.cause = "conflict"] \in JobRecords
  BY <1>1 DEF JobRecords, JobPcs
<1>3. job' = [job EXCEPT ![j] = [job[j] EXCEPT !.pc = "raised", !.cause = "conflict"]]
  BY <1>1 DEF LoopConflict
<1> QED BY <1>2, <1>3 DEF JobGoes

\* A step changes the variables of one request at most, and keeps the types.
LEMMA JobsTypes ==
  ASSUME EvalInv, AgentInv', EvalNext
  PROVE  JobsTypeOK'
<1> USE DEF EvalInv
<1>1. ASSUME NEW j \in Jobs, NEW local, JobGoes(j, local)
      PROVE  job' \in [Jobs -> JobRecords]
  BY <1>1, JobGoesEffect
<1>2. ASSUME NEW j \in Jobs, Begin(j)
      PROVE  JobsTypeOK'
  <2>1. job' \in [Jobs -> JobRecords]
    BY <1>1, <1>2, BeginGoes
  <2>2. evalRun' \in [Jobs -> {Absent, "running", "completed"}]
    BY <1>2 DEF Begin, JobsTypeOK
  <2> QED BY <1>2, <2>1, <2>2 DEF Begin, JobsTypeOK
<1>3. ASSUME NEW j \in Jobs, OpenCase(j)
      PROVE  JobsTypeOK'
  <2>1. job' \in [Jobs -> JobRecords]
    BY <1>1, <1>3, OpenCaseGoes
  <2>2. results' \in ResultSets
    <3>1. results' \subseteq results
      BY <1>3 DEF OpenCase
    <3> QED BY <3>1 DEF JobsTypeOK, ResultSets
  <2> QED BY <1>3, <2>1, <2>2 DEF OpenCase, JobsTypeOK
<1>4. ASSUME NEW j \in Jobs, Loop(j) \/ LoopEscapes(j)
      PROVE  JobsTypeOK'
  <2>1. Follow(j, CallOf(j)) /\ UNCHANGED <<evalRun, results, snapshots>> /\ job[j].pc = "loop"
    BY <1>4 DEF Loop, LoopEscapes
  <2>2. CallOf(j) \in Calls
    BY <2>1, LoopingJob
  <2>3. job' \in [Jobs -> JobRecords]
    BY <1>1, <2>1, <2>2, FollowGoes
  <2> QED BY <2>1, <2>3 DEF JobsTypeOK
<1>5. ASSUME NEW j \in Jobs, LoopConflict(j)
      PROVE  JobsTypeOK'
  <2>1. job' \in [Jobs -> JobRecords]
    BY <1>1, <1>5, LoopConflictGoes
  <2> QED BY <1>5, <2>1 DEF LoopConflict, JobsTypeOK
<1>6. ASSUME NEW j \in Jobs,
             \/ ReadTraces(j) \/ ReadWorkflow(j) \/ ReadRequests(j) \/ ReadMutations(j)
             \/ ComplyTraces(j) \/ ComplyRequests(j) \/ Comply(j) \/ DeleteResults(j)
      PROVE  JobsTypeOK'
  <2>1. job' \in [Jobs -> JobRecords]
    BY <1>1, <1>6, ReadTracesGoes, ReadWorkflowGoes, ReadRequestsGoes, ReadMutationsGoes,
       ComplyTracesGoes, ComplyRequestsGoes, ComplyGoes, DeleteResultsGoes
  <2>2. UNCHANGED <<evalRun, results, snapshots>>
    BY <1>6 DEF ReadTraces, ReadWorkflow, ReadRequests, ReadMutations, ComplyTraces,
              ComplyRequests, Comply, DeleteResults, Quiet
  <2> QED BY <2>1, <2>2 DEF JobsTypeOK
<1>7. ASSUME NEW j \in Jobs, InsertResult(j)
      PROVE  JobsTypeOK'
  <2>1. job' \in [Jobs -> JobRecords] /\ results' \in ResultSets
    BY <1>1, <1>7, InsertResultGoes
  <2> QED BY <1>7, <2>1 DEF InsertResult, JobsTypeOK
<1>8. ASSUME NEW j \in Jobs, AddSnapshot(j)
      PROVE  JobsTypeOK'
  <2>1. job' \in [Jobs -> JobRecords]
    BY <1>1, <1>8, AddSnapshotGoes
  <2>2. job[j].result \in BlockedResults \cup GradedResults \cup {None}
    BY DEF JobsTypeOK, JobRecords
  <2>3. snapshots' \in [Calls -> BlockedResults \cup GradedResults \cup {None}]
    BY <1>8, <2>2 DEF AddSnapshot, JobsTypeOK
  <2> QED BY <1>8, <2>1, <2>3 DEF AddSnapshot, JobsTypeOK
<1>9. ASSUME NEW j \in Jobs, Complete(j)
      PROVE  JobsTypeOK'
  <2>1. job' \in [Jobs -> JobRecords]
    BY <1>1, <1>9, EndGoes DEF Complete, To, JobPcs
  <2>2. evalRun' \in [Jobs -> {Absent, "running", "completed"}]
    BY <1>9 DEF Complete, JobsTypeOK
  <2> QED BY <1>9, <2>1, <2>2 DEF Complete, JobsTypeOK
<1>10. ASSUME NEW j \in Jobs, JobDies(j)
       PROVE  JobsTypeOK'
  <2>1. job' \in [Jobs -> JobRecords]
    BY <1>1, <1>10, EndGoes DEF JobDies, To, JobPcs
  <2> QED BY <1>10, <2>1 DEF JobDies, JobsTypeOK
<1>11. ASSUME UNCHANGED evals
       PROVE  JobsTypeOK'
  BY <1>11 DEF evals, JobsTypeOK
<1> QED BY <1>2, <1>3, <1>4, <1>5, <1>6, <1>7, <1>8, <1>9, <1>10, <1>11 DEF EvalNext, EvalStep

-----------------------------------------------------------------------------
(* Who owns what.                                                          *)

\* No workflow and no run appears.
InsertsNothing ==
  /\ \A w \in WorkflowIds : workflow'[w].status # Absent => Exists(w)
  /\ \A q \in RunIds : run'[q].status # Absent => RunExists(q)

\* Only a start inserts a workflow or a run.
LEMMA CommandsInsertNothing ==
  ASSUME IInv,
         \/ \E r \in RunIds : \/ FinalizeNoAction(r) \/ FailRun(r, TRUE)
                              \/ \E a : FinalizeForApproval(r, a)
         \/ \E w \in WorkflowIds, role \in Roles :
              CancelWorkflow(w, role) \/ ApproveAndExecute(w, role) \/ RejectApproval(w, role)
         \/ \E t \in Tickets : ResetTicket(t)
         \/ UNCHANGED tables
  PROVE  InsertsNothing
<1>1. TypeOK
  BY DEF IInv
<1>2. ASSUME NEW w \in WorkflowIds, Exists(w), NEW to, Move(w, workflow[w], to)
      PROVE  \A v \in WorkflowIds : workflow'[v].status # Absent => Exists(v)
  BY <1>1, <1>2, MovedRow DEF Exists
<1>3. ASSUME NEW r \in RunIds, run[r].status = "running", NEW ended,
             run' = [run EXCEPT ![r].status = ended]
      PROVE  \A q \in RunIds : run'[q].status # Absent => RunExists(q)
  BY <1>1, <1>3 DEF TypeOK, RunRows, RunExists, Absent
<1>4. ASSUME NEW r \in RunIds, run[r].status = "running"
      PROVE  run[r].workflow \in WorkflowIds /\ Exists(run[r].workflow)
  BY <1>4, RunsWorkflow DEF RunExists, Absent
<1>5. ASSUME NEW r \in RunIds,
             FinalizeNoAction(r) \/ FailRun(r, TRUE) \/ \E a : FinalizeForApproval(r, a)
      PROVE  InsertsNothing
  <2>1. run[r].status = "running"
    BY <1>5 DEF FinalizeNoAction, FailRun, FinalizeForApproval, MayEnd
  <2>2. PICK to : Move(run[r].workflow, workflow[run[r].workflow], to)
    BY <1>5 DEF FinalizeNoAction, WriteNoAction, FailRun, WriteFailure, FinalizeForApproval,
                WriteProposal
  <2>3. PICK ended : run' = [run EXCEPT ![r].status = ended]
    BY <1>5 DEF FinalizeNoAction, WriteNoAction, FailRun, WriteFailure, FinalizeForApproval,
                WriteProposal
  <2> QED BY <2>1, <2>2, <2>3, <1>2, <1>3, <1>4 DEF InsertsNothing
<1>6. ASSUME NEW w \in WorkflowIds, NEW role \in Roles, CancelWorkflow(w, role)
      PROVE  InsertsNothing
  <2>1. Exists(w) /\ Move(w, workflow[w], "cancelled")
    BY <1>6 DEF CancelWorkflow, WriteCancellation
  <2>2. \A q \in RunIds : run'[q].status # Absent => RunExists(q)
    BY <1>1, <1>6, CancelEffect DEF RunExists, Absent
  <2> QED BY <2>1, <2>2, <1>2 DEF InsertsNothing
<1>7. ASSUME NEW w \in WorkflowIds, NEW role \in Roles,
             ApproveAndExecute(w, role) \/ RejectApproval(w, role)
      PROVE  InsertsNothing
  <2>1. Exists(w)
    BY <1>7 DEF ApproveAndExecute, RejectApproval, Exists, Absent
  <2>2. PICK to : Move(w, workflow[w], to)
    BY <1>7 DEF ApproveAndExecute, WriteExecution, RejectApproval, WriteRejection
  <2>3. run' = run
    BY <1>7 DEF ApproveAndExecute, WriteExecution, RejectApproval, WriteRejection
  <2> QED BY <2>1, <2>2, <2>3, <1>2 DEF InsertsNothing, RunExists
<1>8. ASSUME NEW t \in Tickets, ResetTicket(t)
      PROVE  InsertsNothing
  BY <1>8, ResetEffect DEF InsertsNothing, Exists, RunExists, NoWorkflow, NoRun
<1>9. CASE UNCHANGED tables
  BY <1>9 DEF tables, InsertsNothing, Exists, RunExists
<1> QED BY <1>5, <1>6, <1>7, <1>8, <1>9

LEMMA StepInsertsNothing ==
  ASSUME AgentInv, NEW c \in Calls, Step(c) \/ Escape(c, "plan") \/ Escape(c, "draft")
  PROVE  InsertsNothing
<1>1. IInv
  BY DEF AgentInv
<1>2. CASE Fail(c)
  <2>1. PICK r \in RunIds : call[c].run = r
    BY <1>2 DEF Fail, AgentInv, CallsAreSound, Live, Ended
  <2>2. FailRun(r, TRUE) \/ UNCHANGED tables
    BY <1>2, <2>1, SameEnd DEF Fail
  <2> QED BY <1>1, <2>2, CommandsInsertNothing
<1>3. CASE Finalize(c)
  <2>1. PICK r \in RunIds : call[c].run = r
    BY <1>3 DEF Finalize, AgentInv, CallsAreSound, Live, Ended
  <2>2. FinalizeNoAction(r) \/ FinalizeForApproval(r, call[c].decision.action)
    BY <1>3, <2>1, SameEnd DEF Finalize
  <2> QED BY <1>1, <2>1, <2>2, CommandsInsertNothing
<1>4. CASE ~Fail(c) /\ ~Finalize(c)
  <2>1. UNCHANGED tables
    BY <1>4 DEF Step, Plan, RecordPlan, RecordVerdict, ReadEvidence, ReadPrior, Decide, Draft,
                RecordDraftFailure, FinalizeRefused, Record, Escape
  <2> QED BY <1>1, <2>1, CommandsInsertNothing
<1> QED BY <1>2, <1>3, <1>4

\* What a step of the loop of a case does to its call.
LEMMA LoopCall ==
  ASSUME EvalInv, NEW j \in Jobs, Loop(j) \/ LoopEscapes(j),
         NEW c \in Calls, c = CallOf(j)
  PROVE  /\ call[c].pc = "idle" \/ Live(c)
         /\ \A d \in Calls \ {c} : call'[d] = call[d]
         /\ call'[c].run = c /\ call'[c].ticket = CaseOf(j).ticket
         /\ call'[c].pc \notin {"idle", "dead"}
         /\ call'[c].pc = "answered" => run'[c].status \in {"completed", "failed"}
         /\ call'[c].pc = "raised" =>
              \/ call'[c].cause \in {"escaped", "deleted", "superseded"}
              \/ call'[c].cause = "duplicate" /\ Fixture[CaseOf(j).ticket].subscription = "early"
<1>1. job[j].pc = "loop"
  BY DEF Loop, LoopEscapes
<1>2. Case(j) \in Runnable /\ CaseOf(j) = CaseTable[Case(j)] /\ c = <<j, Case(j)>>
  BY <1>1, LoopingJob DEF CallOf
<1>3. CASE Step(c) \/ Escape(c, "plan") \/ Escape(c, "draft")
  <2>1. AgentInv /\ LoopInv
    BY DEF EvalInv
  <2>2. Live(c)
    BY <1>3 DEF Step, Plan, RecordPlan, RecordVerdict, ReadEvidence, ReadPrior, Decide, Draft,
                RecordDraftFailure, Fail, Finalize, FinalizeRefused, Escape, Live, Ended
  <2>3. call[c].run = c /\ call[c].ticket = CaseOf(j).ticket /\ evidence = Fixture
    <3>1. call[c].run \in RunIds /\ CallIsOwn(c) /\ evidence = Fixture
      BY <2>2 DEF EvalInv, AgentInv, CallsAreSound, CallsAreOwn
    <3> QED BY <3>1, <1>2, NoneAssumption DEF CallIsOwn
  <2>4. CompleteFixture(evidence[call[c].ticket])
    BY <1>2, <2>3, FixtureAssumption, RunnableCase DEF CompleteFixture
  <2>5. GoesOn(c)
    BY <1>3, <2>1, <2>4, StepGoesOn, PlanGoesOn
  <2> QED BY <2>2, <2>3, <2>5 DEF GoesOn
<1>4. CASE \E w : Start(c, CaseOf(j).ticket, c, w, c)
  <2>1. /\ call[c].pc = "idle"
        /\ call' = [call EXCEPT ![c] = [Idle EXCEPT !.pc = "plan", !.ticket = CaseOf(j).ticket,
                                                    !.run = c]]
    BY <1>4 DEF Start
  <2>2. call \in [Calls -> CallRecords]
    BY DEF EvalInv, AgentInv, CallsAreSound
  <2> QED BY <2>1, <2>2 DEF Idle
<1> QED BY <1>3, <1>4 DEF Loop, LoopEscapes

\* A workflow or a run that appears is its call's, which had no run before.
Inserted(c) == call[c].run = None /\ call'[c].run = c

LEMMA OnlyCallsInsert ==
  ASSUME EvalInv, EvalNext
  PROVE  /\ \A w \in WorkflowIds : workflow'[w].status # Absent =>
              Exists(w) \/ (w \in Calls /\ Inserted(w))
         /\ \A q \in RunIds : run'[q].status # Absent => RunExists(q) \/ Inserted(q)
<1>1. IInv
  BY DEF EvalInv, AgentInv
<1>2. ASSUME InsertsNothing
      PROVE  /\ \A w \in WorkflowIds : workflow'[w].status # Absent =>
                  Exists(w) \/ (w \in Calls /\ Inserted(w))
             /\ \A q \in RunIds : run'[q].status # Absent => RunExists(q) \/ Inserted(q)
  BY <1>2 DEF InsertsNothing
<1>3. ASSUME UNCHANGED tables
      PROVE  InsertsNothing
  BY <1>1, <1>3, CommandsInsertNothing
<1>4. ASSUME NEW j \in Jobs,
             \/ Begin(j) \/ LoopConflict(j) \/ JobDies(j) \/ InsertResult(j) \/ AddSnapshot(j)
             \/ Complete(j)
             \/ ReadTraces(j) \/ ReadWorkflow(j) \/ ReadRequests(j) \/ ReadMutations(j)
             \/ ComplyTraces(j) \/ ComplyRequests(j) \/ Comply(j) \/ DeleteResults(j)
      PROVE  UNCHANGED tables
  BY <1>4 DEF Begin, LoopConflict, Replay, JobDies, InsertResult, AddSnapshot, Complete,
              ReadTraces, ReadWorkflow, ReadRequests, ReadMutations, ComplyTraces,
              ComplyRequests, Comply, DeleteResults, Quiet, Idling
<1>5. ASSUME NEW j \in Jobs, OpenCase(j)
      PROVE  InsertsNothing
  <2>1. CaseOf(j).ticket \in Tickets \cup {Absent}
    BY <1>5, CallOfCase, CaseAssumption DEF OpenCase, EvalInv, CaseOf
  <2>2. UNCHANGED tables \/ (CaseOf(j).ticket \in Tickets /\ ResetTicket(CaseOf(j).ticket))
    BY <1>5, <2>1, SameDecision DEF OpenCase, Reset
  <2> QED BY <1>1, <2>2, CommandsInsertNothing
<1>6. ASSUME NEW w \in WorkflowIds, Cancel(w) \/ Reject(w) \/ Approve(w) \/ ApproveRefused(w)
      PROVE  InsertsNothing
  <2>1. \/ CancelWorkflow(w, Supervisor) \/ RejectApproval(w, Supervisor)
        \/ ApproveAndExecute(w, Supervisor) \/ UNCHANGED tables
    BY <1>6, SameDecision DEF Cancel, Reject, Approve, ApproveRefused
  <2>2. Supervisor \in Roles
    BY DEF Supervisor, Roles
  <2> QED BY <1>1, <1>3, <2>1, <2>2, CommandsInsertNothing
<1>7. ASSUME NEW j \in Jobs, Loop(j) \/ LoopEscapes(j)
      PROVE  /\ \A w \in WorkflowIds : workflow'[w].status # Absent =>
                  Exists(w) \/ (w \in Calls /\ Inserted(w))
             /\ \A q \in RunIds : run'[q].status # Absent => RunExists(q) \/ Inserted(q)
  <2>1. PICK c \in Calls : c = CallOf(j)
    BY <1>7, LoopingJob DEF Loop, LoopEscapes
  <2>2. PICK t \in Tickets : t = CaseOf(j).ticket
    BY <1>7, LoopingJob DEF Loop, LoopEscapes
  <2>3. CASE Step(c) \/ Escape(c, "plan") \/ Escape(c, "draft")
    BY <2>3, <1>2, StepInsertsNothing DEF EvalInv
  <2>4. CASE \E w \in {c} \cup WorkflowsOf(t) : Start(c, t, c, w, c)
    <3>1. PICK w \in {c} \cup WorkflowsOf(t) : Start(c, t, c, w, c)
      BY <2>4
    <3>2. w \in WorkflowIds /\ c \in RunIds /\ c \in Keys
      BY CallParts DEF WorkflowsOf
    <3>3. call[c].run = None
      BY <3>1 DEF Start, EvalInv, LoopInv, CurrentDecisions, CurrentDecision
    <3>4. Inserted(c)
      BY <1>7, <2>1, <3>3, LoopCall DEF Inserted
    <3>5. \A q \in RunIds : q # c => run'[q] = run[q]
      <4>1. StartCycle(t, c, w, c) \/ StartRetry(t, c, w, c)
        BY <3>1, SameStart DEF Start
      <4> QED BY <1>1, <3>2, <4>1 DEF StartCycle, InsertCycle, StartRetry, InsertRetry, IInv, TypeOK
    <3>6. CASE StartCycle(t, c, w, c)
      <4>1. ~Exists(w) /\ w = c
        <5>1. ~Exists(w)
          BY <3>6 DEF StartCycle
        <5> QED BY <3>1, <5>1 DEF WorkflowsOf
      <4>2. \A v \in WorkflowIds \ {w} : workflow'[v] = workflow[v]
        BY <1>1, <3>2, <3>6 DEF StartCycle, InsertCycle, IInv, TypeOK
      <4>3. \A v \in WorkflowIds : workflow'[v].status # Absent =>
              Exists(v) \/ (v \in Calls /\ Inserted(v))
        BY <3>4, <4>1, <4>2 DEF Exists
      <4>4. \A q \in RunIds : run'[q].status # Absent => RunExists(q) \/ Inserted(q)
        BY <3>4, <3>5 DEF RunExists
      <4> QED BY <4>3, <4>4
    <3>7. CASE StartRetry(t, c, w, c)
      <4>1. w \in WorkflowIds /\ Exists(w) /\ Move(w, workflow[w], "investigating")
        BY <3>2, <3>7 DEF StartRetry, InsertRetry, WorkflowsOf
      <4>2. \A v \in WorkflowIds \ {w} : workflow'[v] = workflow[v]
        BY <1>1, <4>1, MovedRow DEF IInv
      <4> QED BY <3>4, <3>5, <4>1, <4>2 DEF Exists, RunExists
    <3>8. StartCycle(t, c, w, c) \/ StartRetry(t, c, w, c)
      BY <3>1, SameStart DEF Start
    <3> QED BY <3>6, <3>7, <3>8
  <2> QED BY <1>7, <2>1, <2>2, <2>3, <2>4 DEF Loop, LoopEscapes
<1> QED BY <1>2, <1>3, <1>4, <1>5, <1>6, <1>7 DEF EvalNext, EvalStep

LEMMA EvidenceStays ==
  ASSUME [AgentNext]_vars
  PROVE  evidence' = evidence
BY DEF AgentNext, Replay, Start, Step, Plan, RecordPlan, RecordVerdict, ReadEvidence, ReadPrior,
       Decide, Draft, RecordDraftFailure, Fail, Finalize, FinalizeRefused, Record, Die, Escape,
       Cancel, Reject, Approve, ApproveRefused, Reset, vars, locals

\* A call that is left alone stays its own.
LEMMA KeptOwn ==
  ASSUME EvalInv, EvalNext, NEW c \in Calls, call'[c] = call[c],
         Live(c) => job'[c[1]] = job[c[1]]
  PROVE  CallIsOwn(c)'
<1>1. /\ IInv /\ CallIsOwn(c) /\ c \in RunIds /\ c \in WorkflowIds /\ c # None
      /\ [Next]_tables
  BY CallParts, EvalStepIsAgentStep, LoopStep DEF EvalInv, AgentInv, CallsAreOwn
<1>2. RunExists(c)' \/ Exists(c)' => call'[c].run = c
  BY <1>1, OnlyCallsInsert DEF RunExists, Exists, Inserted, CallIsOwn
<1>3. Answered(c)' => run'[c].status \in {Absent, "completed", "failed"}
  <2> SUFFICES ASSUME Answered(c)', run'[c].status # Absent
               PROVE  run'[c].status \in {"completed", "failed"}
    OBVIOUS
  <2>1. Answered(c) /\ call[c].run = c
    BY DEF Answered
  <2>2. RunExists(c)
    BY <1>1, <2>1, OnlyCallsInsert DEF Inserted
  <2>3. run[c].status \in {"completed", "failed"}
    BY <1>1, <2>1, <2>2 DEF CallIsOwn, RunExists
  <2>4. run'[c] = run[c]
    BY <1>1, <2>3, AttemptStep DEF RunStatuses
  <2> QED BY <2>3, <2>4
<1>4. Live(c)' => job'[c[1]].pc = "loop" /\ c = CallOf(c[1])'
  BY <1>1 DEF CallIsOwn, Live, CallOf, Case
<1> QED BY <1>1, <1>2, <1>3, <1>4 DEF CallIsOwn

LEMMA OwnCalls ==
  ASSUME EvalInv, AgentInv', EvalNext
  PROVE  CallsAreOwn'
<1>1. evidence' = Fixture
  BY EvalStepIsAgentStep, EvidenceStays DEF EvalInv, CallsAreOwn
<1>2. \A c \in Calls : Live(c) => job[c[1]].pc = "loop" /\ c = CallOf(c[1])
  BY DEF EvalInv, CallsAreOwn, CallIsOwn
<1>3. JobsTypeOK
  BY DEF EvalInv
<1>4. ASSUME NEW j \in Jobs, call' = call, job[j].pc # "loop",
             \A i \in Jobs \ {j} : job'[i] = job[i]
      PROVE  CallsAreOwn'
  <2>1. \A c \in Calls : Live(c) => job'[c[1]] = job[c[1]]
    BY <1>2, <1>4, CallParts
  <2>2. \A c \in Calls : CallIsOwn(c)'
    BY <1>4, <2>1, KeptOwn
  <2> QED BY <1>1, <2>2 DEF CallsAreOwn
<1>5. ASSUME NEW j \in Jobs, NEW local, JobGoes(j, local), call' = call, job[j].pc # "loop"
      PROVE  CallsAreOwn'
  BY <1>3, <1>4, <1>5, JobGoesEffect
<1>6. ASSUME NEW j \in Jobs, Begin(j)
      PROVE  CallsAreOwn'
  BY <1>5, <1>6, BeginGoes DEF Begin, Idling
<1>7. ASSUME NEW j \in Jobs, OpenCase(j)
      PROVE  CallsAreOwn'
  BY <1>5, <1>7, OpenCaseGoes DEF OpenCase, Reset
<1>8. ASSUME NEW j \in Jobs,
             \/ ReadTraces(j) \/ ReadWorkflow(j) \/ ReadRequests(j) \/ ReadMutations(j)
             \/ ComplyTraces(j) \/ ComplyRequests(j) \/ Comply(j) \/ DeleteResults(j)
      PROVE  CallsAreOwn'
  <2>1. call' = call /\ job[j].pc # "loop"
    BY <1>8 DEF ReadTraces, ReadWorkflow, ReadRequests, ReadMutations, ComplyTraces,
              ComplyRequests, Comply, DeleteResults, Quiet, Idling
  <2>2. \E local : JobGoes(j, local)
    BY <1>8, ReadTracesGoes, ReadWorkflowGoes, ReadRequestsGoes, ReadMutationsGoes,
       ComplyTracesGoes, ComplyRequestsGoes, ComplyGoes, DeleteResultsGoes
  <2> QED BY <2>1, <2>2, <1>5
<1>9. ASSUME NEW j \in Jobs, InsertResult(j) \/ AddSnapshot(j) \/ Complete(j)
      PROVE  CallsAreOwn'
  <2>1. call' = call /\ job[j].pc # "loop"
    BY <1>9 DEF InsertResult, AddSnapshot, Complete, Idling
  <2>2. \E local : JobGoes(j, local)
    BY <1>9, InsertResultGoes, AddSnapshotGoes, EndGoes DEF Complete, To, JobPcs
  <2> QED BY <2>1, <2>2, <1>5
<1>10. ASSUME NEW j \in Jobs, Loop(j) \/ LoopEscapes(j)
       PROVE  CallsAreOwn'
  <2>1. PICK c \in Calls : c = CallOf(j)
    BY <1>10, LoopingJob DEF Loop, LoopEscapes
  <2>2. Follow(j, c) /\ job[j].pc = "loop" /\ c[1] = j /\ c[2] = Case(j)
    BY <1>10, <2>1, CallOfCase, LoopingJob DEF Loop, LoopEscapes, CallOf
  <2>3. /\ \A d \in Calls \ {c} : call'[d] = call[d]
        /\ call'[c].run = c /\ call'[c].ticket = CaseOf(j).ticket
        /\ call'[c].pc = "answered" => run'[c].status \in {"completed", "failed"}
    BY <1>10, <2>1, LoopCall
  <2>4. \A d \in Calls \ {c} : CallIsOwn(d)'
    <3>1. \A i \in Jobs \ {j} : job'[i] = job[i]
      BY <1>3, <2>2, FollowGoes, JobGoesEffect
    <3>2. \A d \in Calls \ {c} : Live(d) => job'[d[1]] = job[d[1]]
      BY <1>2, <2>1, <3>1, CallParts
    <3> QED BY <2>3, <3>2, KeptOwn
  <2>5. call'[c].pc \notin {"answered", "raised"} => job'[j] = job[j]
    BY <1>3, <2>2, FollowGoes, JobGoesEffect
  <2>6. CallIsOwn(c)'
    <3>1. Live(c)' => job'[c[1]].pc = "loop" /\ c = CallOf(c[1])'
      BY <2>1, <2>2, <2>5 DEF Live, Ended, CallOf, Case
    <3>2. call'[c].ticket = CaseTable[c[2]].ticket
      BY <2>2, <2>3 DEF CaseOf
    <3> QED BY <2>3, <3>1, <3>2 DEF CallIsOwn, Answered
  <2> QED BY <1>1, <2>4, <2>6 DEF CallsAreOwn
<1>11. ASSUME NEW j \in Jobs, LoopConflict(j)
       PROVE  CallsAreOwn'
  <2>1. PICK c \in Calls : c = CallOf(j)
    BY <1>11, LoopingJob DEF LoopConflict
  <2>2. /\ call[c].pc = "idle" /\ UNCHANGED tables
        /\ call' = [call EXCEPT ![c] = [Idle EXCEPT !.pc = "answered", !.ticket = CaseOf(j).ticket]]
    BY <1>11, <2>1 DEF LoopConflict, Replay
  <2>3. call[c].run = None /\ c # None
    BY <2>2, CallParts DEF EvalInv, LoopInv, CurrentDecisions, CurrentDecision
  <2>4. ~RunExists(c) /\ ~Exists(c)
    BY <2>3 DEF EvalInv, CallsAreOwn, CallIsOwn
  <2>5. call \in [Calls -> CallRecords]
    BY DEF EvalInv, AgentInv, CallsAreSound
  <2>6. call'[c].run = None /\ call'[c].pc = "answered" /\ \A d \in Calls \ {c} : call'[d] = call[d]
    BY <2>2, <2>5 DEF Idle
  <2>7. CallIsOwn(c)'
    BY <2>2, <2>3, <2>4, <2>6 DEF CallIsOwn, Answered, RunExists, Exists, Live, Ended, tables
  <2>8. \A d \in Calls \ {c} : CallIsOwn(d)'
    <3>1. \A i \in Jobs \ {j} : job'[i] = job[i]
      BY <1>3, <1>11, LoopConflictGoes, JobGoesEffect
    <3>2. \A d \in Calls \ {c} : Live(d) => job'[d[1]] = job[d[1]]
      BY <1>2, <2>1, <3>1, CallParts
    <3> QED BY <2>6, <3>2, KeptOwn
  <2> QED BY <1>1, <2>7, <2>8 DEF CallsAreOwn
<1>12. ASSUME NEW j \in Jobs, JobDies(j)
       PROVE  CallsAreOwn'
  <2>1. \A i \in Jobs \ {j} : job'[i] = job[i]
    BY <1>3, <1>12, EndGoes, JobGoesEffect DEF JobDies, To, JobPcs
  <2>2. ASSUME NEW d \in Calls, call'[d] = call[d], ~(Live(d) /\ d[1] = j)
        PROVE  CallIsOwn(d)'
    BY <2>1, <2>2, KeptOwn, CallParts
  <2>3. ASSUME NEW c \in Calls, Live(c), c[1] = j
        PROVE  CallIsOwn(c)'
    <3>1. UNCHANGED tables /\ call'[c] = [call[c] EXCEPT !.pc = "dead"]
      BY <1>12, <2>3 DEF JobDies
    <3>2. call[c] \in CallRecords /\ CallIsOwn(c)
      BY DEF EvalInv, AgentInv, CallsAreSound, CallsAreOwn
    <3>3. call'[c].pc = "dead" /\ call'[c].run = call[c].run /\ call'[c].ticket = call[c].ticket
      BY <3>1, <3>2 DEF CallRecords
    <3> QED BY <3>1, <3>2, <3>3 DEF CallIsOwn, Answered, RunExists, Exists, Live, Ended, tables
  <2>4. \A d \in Calls : ~(Live(d) /\ d[1] = j) => call'[d] = call[d]
    BY <1>12 DEF JobDies
  <2> QED BY <1>1, <2>2, <2>3, <2>4 DEF CallsAreOwn
<1>13. ASSUME NEW w \in WorkflowIds, Cancel(w) \/ Reject(w) \/ Approve(w) \/ ApproveRefused(w), UNCHANGED evals
       PROVE  CallsAreOwn'
  <2>1. call' = call /\ job' = job
    BY <1>13 DEF Cancel, Reject, Approve, ApproveRefused, locals, evals
  <2> QED BY <1>1, <2>1, KeptOwn DEF CallsAreOwn
<1> QED BY <1>6, <1>7, <1>8, <1>9, <1>10, <1>11, <1>12, <1>13 DEF EvalNext, EvalStep

-----------------------------------------------------------------------------
(* Where a request stands.                                                 *)

\* A call that has ended is left as it is.
LEMMA EndedCallStays ==
  ASSUME EvalInv, EvalNext, NEW c \in Calls, call[c].pc \in {"answered", "raised", "dead"}
  PROVE  call'[c] = call[c]
<1>1. ASSUME NEW j \in Jobs,
             \/ Begin(j) \/ OpenCase(j) \/ InsertResult(j) \/ AddSnapshot(j) \/ Complete(j)
             \/ ReadTraces(j) \/ ReadWorkflow(j) \/ ReadRequests(j) \/ ReadMutations(j)
             \/ ComplyTraces(j) \/ ComplyRequests(j) \/ Comply(j) \/ DeleteResults(j)
      PROVE  call' = call
  BY <1>1 DEF Begin, OpenCase, Reset, InsertResult, AddSnapshot, Complete,
              ReadTraces, ReadWorkflow, ReadRequests, ReadMutations, ComplyTraces,
              ComplyRequests, Comply, DeleteResults, Quiet, Idling
<1>2. ASSUME NEW j \in Jobs, Loop(j) \/ LoopEscapes(j)
      PROVE  call'[c] = call[c]
  <2>1. PICK d \in Calls : d = CallOf(j)
    BY <1>2, LoopingJob DEF Loop, LoopEscapes
  <2>2. /\ call[d].pc = "idle" \/ Live(d)
        /\ \A e \in Calls \ {d} : call'[e] = call[e]
    BY <1>2, <2>1, LoopCall
  <2> QED BY <2>2 DEF Live, Ended
<1>3. ASSUME NEW j \in Jobs, LoopConflict(j)
      PROVE  call'[c] = call[c]
  <2>1. PICK d \in Calls : d = CallOf(j)
    BY <1>3, LoopingJob DEF LoopConflict
  <2>2. call[d].pc = "idle" /\ call' = [call EXCEPT ![d] = [Idle EXCEPT !.pc = "answered", !.ticket = CaseOf(j).ticket]]
    BY <1>3, <2>1 DEF LoopConflict, Replay
  <2>3. call \in [Calls -> CallRecords]
    BY DEF EvalInv, AgentInv, CallsAreSound
  <2> QED BY <2>2, <2>3
<1>4. ASSUME NEW j \in Jobs, JobDies(j)
      PROVE  call'[c] = call[c]
  BY <1>4 DEF JobDies, Live, Ended
<1>5. ASSUME NEW w \in WorkflowIds, Cancel(w) \/ Reject(w) \/ Approve(w) \/ ApproveRefused(w)
      PROVE  call' = call
  BY <1>5 DEF Cancel, Reject, Approve, ApproveRefused, locals
<1> QED BY <1>1, <1>2, <1>3, <1>4, <1>5 DEF EvalNext, EvalStep

LEMMA SameCase ==
  ASSUME NEW j, job'[j].todo = job[j].todo
  PROVE  Case(j)' = Case(j) /\ CaseOf(j)' = CaseOf(j) /\ CallOf(j)' = CallOf(j)
BY DEF Case, CaseOf, CallOf

\* What a request holds on to when it steps within a case.
LEMMA SoundWithinCase ==
  ASSUME EvalInv, EvalNext, NEW j \in Jobs, job'[j].todo = job[j].todo,
         job[j].pc \in GradingPcs \cup StoringPcs,
         job'[j].pc \in GradingPcs \cup StoringPcs \cup {"dead", "raised"},
         job'[j].pc \in GradingPcs => job[j].pc \in GradingPcs,
         job'[j].pc \in {"traces", "workflow"} => job'[j].workflow \in WorkflowIds,
         job'[j].pc = "raised" => job'[j].cause = "reset"
  PROVE  JobIsSound(j)'
<1>1. JobIsSound(j)
  BY DEF EvalInv, JobsAreSound
<1>2. Case(j)' = Case(j) /\ CallOf(j)' = CallOf(j) /\ job[j].todo # << >>
  BY <1>1, SameCase DEF JobIsSound
<1>3. job'[j].pc \in GradingPcs => Answered(CallOf(j)) /\ CallOf(j) \in Calls
  BY <1>1, GradingJob DEF JobIsSound
<1>4. job'[j].pc \in GradingPcs => Answered(CallOf(j))'
  BY <1>2, <1>3, EndedCallStays DEF Answered
<1>5. job'[j].pc = "raised" => Strands(j)'
  BY DEF Strands
<1> QED BY <1>1, <1>2, <1>4, <1>5 DEF JobIsSound, GradingPcs, StoringPcs

LEMMA KeptJob ==
  ASSUME EvalInv, EvalNext, NEW i \in Jobs, job'[i] = job[i], evalRun'[i] = evalRun[i]
  PROVE  JobIsSound(i)'
<1>1. JobIsSound(i)
  BY DEF EvalInv, JobsAreSound
<1>2. Case(i)' = Case(i) /\ CallOf(i)' = CallOf(i) /\ CaseOf(i)' = CaseOf(i)
  BY SameCase
<1>3. job'[i].pc \in GradingPcs => Answered(CallOf(i))'
  BY <1>1, <1>2, GradingJob, EndedCallStays DEF JobIsSound, Answered
<1>4. Strands(i) => Strands(i)'
  BY <1>2 DEF Strands
<1> QED BY <1>1, <1>2, <1>3, <1>4 DEF JobIsSound

\* When only one request steps.
LEMMA OneJobSteps ==
  ASSUME EvalInv, EvalNext, NEW j \in Jobs, NEW local, JobGoes(j, local),
         \A i \in Jobs \ {j} : evalRun'[i] = evalRun[i],
         JobIsSound(j)'
  PROVE  JobsAreSound'
<1>1. \A i \in Jobs \ {j} : job'[i] = job[i]
  BY JobGoesEffect DEF EvalInv
<1>2. \A i \in Jobs \ {j} : JobIsSound(i)'
  BY <1>1, KeptJob
<1> QED BY <1>2 DEF JobsAreSound

LEMMA LoopingStaysSound ==
  ASSUME EvalInv, AgentInv', EvalNext, NEW j \in Jobs, Loop(j) \/ LoopEscapes(j)
  PROVE  JobsAreSound'
<1>1. PICK c \in Calls : c = CallOf(j)
  BY LoopingJob DEF Loop, LoopEscapes
<1>2. /\ Follow(j, c) /\ job[j].pc = "loop" /\ evalRun' = evalRun
      /\ job[j].todo # << >> /\ Case(j) \in Runnable
  BY <1>1, LoopingJob DEF Loop, LoopEscapes
<1>3. /\ call'[c].run = c
      /\ call'[c].pc = "answered" => run'[c].status \in {"completed", "failed"}
      /\ call'[c].pc = "raised" =>
           \/ call'[c].cause \in {"escaped", "deleted", "superseded"}
           \/ call'[c].cause = "duplicate" /\ Fixture[CaseOf(j).ticket].subscription = "early"
  BY <1>1, LoopCall
<1>4. JobsTypeOK /\ job[j] \in JobRecords
  BY DEF EvalInv, JobsTypeOK
<1>5. CASE call'[c].pc = "answered"
  <2>1. PICK row : row = run'[c]
    OBVIOUS
  <2>2. row.workflow \in WorkflowIds
    <3>1. RunTracksWorkflow' /\ c \in RunIds /\ RunExists(c)'
      BY <1>3, <1>5, CallParts DEF AgentInv, IInv, RunExists, Absent
    <3> QED BY <2>1, <3>1 DEF RunTracksWorkflow, WorkflowsOf
  <2>3. PICK local : /\ local = [job[j] EXCEPT !.pc = "traces", !.ended = row.status,
                                               !.workflow = row.workflow]
                     /\ JobGoes(j, local)
    BY <1>2, <1>5, <2>1, FollowGoes
  <2>4. local.pc = "traces" /\ local.workflow = row.workflow /\ local.todo = job[j].todo
    BY <1>4, <2>3 DEF JobRecords
  <2>5. job'[j] = local
    BY <1>4, <2>3, JobGoesEffect
  <2>6. Case(j)' = Case(j) /\ CallOf(j)' = c
    BY <1>1, <2>4, <2>5, SameCase
  <2>7. Answered(c)'
    BY <1>3, <1>5 DEF Answered
  <2>8. JobIsSound(j)'
    BY <1>2, <2>2, <2>4, <2>5, <2>6, <2>7 DEF JobIsSound, GradingPcs, StoringPcs
  <2> QED BY <1>2, <2>3, <2>8, OneJobSteps
<1>6. CASE call'[c].pc = "raised"
  <2>1. PICK cause : cause = call'[c].cause
    OBVIOUS
  <2>2. PICK local : local = [job[j] EXCEPT !.pc = "raised", !.cause = cause] /\ JobGoes(j, local)
    BY <1>2, <1>6, <2>1, FollowGoes
  <2>3. local.pc = "raised" /\ local.cause = cause /\ local.todo = job[j].todo
    BY <1>4, <2>2 DEF JobRecords
  <2>4. job'[j] = local
    BY <1>4, <2>2, JobGoesEffect
  <2>5. CaseOf(j)' = CaseOf(j)
    BY <2>3, <2>4, SameCase
  <2>6. Strands(j)'
    BY <1>3, <1>6, <2>1, <2>3, <2>4, <2>5 DEF Strands
  <2>7. JobIsSound(j)'
    BY <2>3, <2>4, <2>6 DEF JobIsSound, GradingPcs, StoringPcs
  <2> QED BY <1>2, <2>2, <2>7, OneJobSteps
<1>7. CASE call'[c].pc \notin {"answered", "raised"}
  <2>1. JobGoes(j, job[j]) /\ job'[j] = job[j]
    BY <1>2, <1>4, <1>7, FollowGoes, JobGoesEffect
  <2>2. JobIsSound(j)'
    BY <1>2, <2>1, KeptJob
  <2> QED BY <1>2, <2>1, <2>2, OneJobSteps
<1> QED BY <1>5, <1>6, <1>7

LEMMA GradingStaysSound ==
  ASSUME EvalInv, EvalNext, NEW j \in Jobs, evalRun' = evalRun,
         \/ ReadTraces(j) \/ ReadWorkflow(j) \/ ReadRequests(j) \/ ReadMutations(j)
         \/ ComplyTraces(j) \/ ComplyRequests(j) \/ Comply(j)
  PROVE  JobsAreSound'
<1>1. JobsTypeOK /\ job[j] \in JobRecords /\ JobIsSound(j)
  BY DEF EvalInv, JobsTypeOK, JobsAreSound
<1>2. ASSUME NEW local, JobGoes(j, local), local.todo = job[j].todo, job[j].pc \in GradingPcs,
             local.pc \in GradingPcs \cup StoringPcs,
             local.pc \notin {"traces", "workflow"} \/ local.workflow \in WorkflowIds
      PROVE  JobsAreSound'
  <2>1. job'[j] = local
    BY <1>1, <1>2, JobGoesEffect
  <2>2. local.pc # "raised"
    BY <1>2 DEF GradingPcs, StoringPcs
  <2>3. JobIsSound(j)'
    BY <1>2, <2>1, <2>2, SoundWithinCase DEF GradingPcs, StoringPcs
  <2> QED BY <1>2, <2>3, OneJobSteps
<1>3. CASE ReadTraces(j)
  <2>1. PICK local : /\ local = [job[j] EXCEPT !.pc = "workflow", !.traces = trace[CallOf(j)]]
                     /\ JobGoes(j, local)
    BY <1>3, ReadTracesGoes
  <2>2. local.pc = "workflow" /\ local.workflow = job[j].workflow /\ local.todo = job[j].todo
    BY <1>1, <2>1 DEF JobRecords
  <2>3. job[j].pc = "traces" /\ job[j].workflow \in WorkflowIds
    BY <1>1, <1>3 DEF ReadTraces, JobIsSound
  <2> QED BY <1>2, <2>1, <2>2, <2>3 DEF GradingPcs
<1>4. CASE ReadWorkflow(j)
  <2>1. PICK local : /\ local = [job[j] EXCEPT !.pc = "requests", !.workflow = None,
                                   !.status = workflow[job[j].workflow].status]
                     /\ JobGoes(j, local)
    BY <1>4, ReadWorkflowGoes
  <2>2. local.pc = "requests" /\ local.todo = job[j].todo
    BY <1>1, <2>1 DEF JobRecords
  <2> QED BY <1>2, <1>4, <2>1, <2>2 DEF ReadWorkflow, GradingPcs
<1>5. CASE ReadRequests(j)
  <2>1. PICK requests : requests = {approval[w] : w \in {v \in WorkflowIds : approval[v].run = CallOf(j)}}
    OBVIOUS
  <2>2. PICK local : local = [job[j] EXCEPT !.pc = "grade", !.requests = requests] /\ JobGoes(j, local)
    BY <1>5, <2>1, ReadRequestsGoes
  <2>3. local.pc = "grade" /\ local.todo = job[j].todo
    BY <1>1, <2>2 DEF JobRecords
  <2> QED BY <1>2, <1>5, <2>2, <2>3 DEF ReadRequests, GradingPcs
<1>6. CASE ReadMutations(j)
  <2>1. PICK result : result = Graded(Dimensions(j, Mutated(CallOf(j))))
    OBVIOUS
  <2>2. PICK local : /\ local = [job[j] EXCEPT !.pc = "comply_traces", !.traces = << >>,
                                   !.status = Absent, !.requests = {}, !.result = result]
                     /\ JobGoes(j, local)
    BY <1>6, <2>1, ReadMutationsGoes
  <2>3. local.pc = "comply_traces" /\ local.todo = job[j].todo
    BY <1>1, <2>2 DEF JobRecords
  <2> QED BY <1>2, <1>6, <2>2, <2>3 DEF ReadMutations, GradingPcs
<1>7. CASE ComplyTraces(j)
  <2>1. PICK log : log = trace[CallOf(j)]
    OBVIOUS
  <2>2. PICK local : /\ \/ local = [job[j] EXCEPT !.pc = "comply_requests", !.traces = log]
                        \/ local = [job[j] EXCEPT !.pc = "save"]
                     /\ JobGoes(j, local)
    BY <1>7, <2>1, ComplyTracesGoes
  <2>3. local.pc \in {"comply_requests", "save"} /\ local.todo = job[j].todo
    BY <1>1, <2>2 DEF JobRecords
  <2> QED BY <1>2, <1>7, <2>2, <2>3 DEF ComplyTraces, GradingPcs, StoringPcs
<1>8. CASE ComplyRequests(j)
  <2>1. PICK local : local = [job[j] EXCEPT !.pc = "comply", !.read = approval] /\ JobGoes(j, local)
    BY <1>8, ComplyRequestsGoes
  <2>2. local.pc = "comply" /\ local.todo = job[j].todo
    BY <1>1, <2>1 DEF JobRecords
  <2> QED BY <1>2, <1>8, <2>1, <2>2 DEF ComplyRequests, GradingPcs
<1>9. CASE Comply(j)
  <2>1. PICK result : result = Graded(Complied(j))
    OBVIOUS
  <2>2. PICK local : /\ local = [job[j] EXCEPT !.pc = "save", !.traces = << >>,
                                               !.read = NoRequests, !.result = result]
                     /\ JobGoes(j, local)
    BY <1>9, <2>1, ComplyGoes
  <2>3. local.pc = "save" /\ local.todo = job[j].todo
    BY <1>1, <2>2 DEF JobRecords
  <2> QED BY <1>2, <1>9, <2>2, <2>3 DEF Comply, GradingPcs, StoringPcs
<1> QED BY <1>3, <1>4, <1>5, <1>6, <1>7, <1>8, <1>9

LEMMA StoringStaysSound ==
  ASSUME EvalInv, EvalNext, NEW j \in Jobs, DeleteResults(j) \/ InsertResult(j) \/ AddSnapshot(j)
  PROVE  JobsAreSound'
<1>1. JobsTypeOK /\ job[j] \in JobRecords /\ JobIsSound(j) /\ evalRun' = evalRun
  BY DEF EvalInv, JobsTypeOK, JobsAreSound, DeleteResults, Quiet, InsertResult, AddSnapshot
<1>2. ASSUME NEW local, JobGoes(j, local), local.todo = job[j].todo, job[j].pc \in StoringPcs,
             local.pc \in StoringPcs \/ (local.pc = "raised" /\ local.cause = "reset")
      PROVE  JobsAreSound'
  <2>1. job'[j] = local
    BY <1>1, <1>2, JobGoesEffect
  <2>2. JobIsSound(j)'
    BY <1>2, <2>1, SoundWithinCase DEF GradingPcs, StoringPcs
  <2> QED BY <1>1, <1>2, <2>2, OneJobSteps
<1>3. CASE DeleteResults(j)
  <2>1. PICK local : (\E sees \in ResultSets : local = [job[j] EXCEPT !.pc = "insert", !.sees = sees])
                       /\ JobGoes(j, local)
    BY <1>3, DeleteResultsGoes
  <2>2. local.pc = "insert" /\ local.todo = job[j].todo
    BY <1>1, <2>1 DEF JobRecords
  <2> QED BY <1>2, <1>3, <2>1, <2>2 DEF DeleteResults, StoringPcs
<1>4. CASE InsertResult(j)
  <2>1. PICK local : /\ \/ local = [job[j] EXCEPT !.pc = "snapshot", !.sees = {}]
                        \/ local = [job[j] EXCEPT !.pc = "raised", !.sees = {}, !.cause = "reset"]
                     /\ JobGoes(j, local)
    BY <1>4, InsertResultGoes
  <2>2. /\ local.pc = "snapshot" \/ (local.pc = "raised" /\ local.cause = "reset")
        /\ local.todo = job[j].todo
    BY <1>1, <2>1 DEF JobRecords
  <2> QED BY <1>2, <1>4, <2>1, <2>2 DEF InsertResult, StoringPcs
<1>5. CASE AddSnapshot(j)
  <2>1. PICK local : /\ \E todo \in CaseSeqs : local = [NoJob EXCEPT !.pc = "case", !.todo = todo]
                     /\ JobGoes(j, local)
    BY <1>5, AddSnapshotGoes
  <2>2. local.pc = "case"
    BY <2>1 DEF NoJob
  <2>3. job'[j] = local
    BY <1>1, <2>1, JobGoesEffect
  <2>4. JobIsSound(j)'
    BY <2>2, <2>3 DEF JobIsSound, GradingPcs, StoringPcs
  <2> QED BY <1>1, <2>1, <2>4, OneJobSteps
<1> QED BY <1>3, <1>4, <1>5

LEMMA SoundJobs ==
  ASSUME EvalInv, AgentInv', EvalNext
  PROVE  JobsAreSound'
<1>1. JobsTypeOK /\ JobsAreSound /\ \A j \in Jobs : job[j] \in JobRecords
  BY DEF EvalInv, JobsTypeOK
<1>2. ASSUME NEW j \in Jobs, Begin(j)
      PROVE  JobsAreSound'
  <2>1. PICK local : /\ \E todo \in CaseSeqs : local = [job[j] EXCEPT !.pc = "case", !.todo = todo]
                     /\ JobGoes(j, local)
    BY <1>2, BeginGoes
  <2>2. local.pc = "case" /\ job'[j] = local
    BY <1>1, <2>1, JobGoesEffect DEF JobRecords
  <2>3. JobIsSound(j)'
    BY <2>2 DEF JobIsSound, GradingPcs, StoringPcs
  <2>4. \A i \in Jobs \ {j} : evalRun'[i] = evalRun[i]
    BY <1>1, <1>2 DEF Begin, JobsTypeOK
  <2> QED BY <2>1, <2>3, <2>4, OneJobSteps
<1>3. ASSUME NEW j \in Jobs, OpenCase(j)
      PROVE  JobsAreSound'
  <2>1. PICK gate : gate = CaseGate(CaseOf(j))
    OBVIOUS
  <2>2. PICK local : /\ local = [NoJob EXCEPT !.pc = IF gate = None THEN "loop" ELSE "save",
                                  !.todo = job[j].todo, !.result = gate]
                     /\ JobGoes(j, local)
    BY <1>3, <2>1, OpenCaseGoes
  <2>3. /\ local.pc = IF gate = None THEN "loop" ELSE "save"
        /\ local.todo = job[j].todo /\ local.cause = Absent
    BY <2>2 DEF NoJob
  <2>4. job'[j] = local
    BY <1>1, <2>2, JobGoesEffect
  <2>5. Case(j)' = Case(j) /\ job[j].todo # << >>
    BY <1>3, <2>3, <2>4, SameCase DEF OpenCase
  <2>6. gate = None => Case(j) \in Runnable
    BY <1>1, <2>1, <2>5, GateType, CallOfCase DEF Runnable, CaseOf
  <2>7. JobIsSound(j)'
    BY <2>3, <2>4, <2>5, <2>6 DEF JobIsSound, GradingPcs, StoringPcs
  <2>8. \A i \in Jobs \ {j} : evalRun'[i] = evalRun[i]
    BY <1>3 DEF OpenCase
  <2> QED BY <2>2, <2>7, <2>8, OneJobSteps
<1>4. ASSUME NEW j \in Jobs, LoopConflict(j)
      PROVE  JobsAreSound'
  <2>1. PICK local : local = [job[j] EXCEPT !.pc = "raised", !.cause = "conflict"] /\ JobGoes(j, local)
    BY <1>4, LoopConflictGoes
  <2>2. local.pc = "raised" /\ local.cause = "conflict" /\ job'[j] = local
    BY <1>1, <2>1, JobGoesEffect DEF JobRecords
  <2>3. JobIsSound(j)'
    BY <2>2 DEF JobIsSound, Strands, GradingPcs, StoringPcs
  <2>4. \A i \in Jobs \ {j} : evalRun'[i] = evalRun[i]
    BY <1>4 DEF LoopConflict
  <2> QED BY <2>1, <2>3, <2>4, OneJobSteps
<1>5. ASSUME NEW j \in Jobs,
             \/ ReadTraces(j) \/ ReadWorkflow(j) \/ ReadRequests(j) \/ ReadMutations(j)
             \/ ComplyTraces(j) \/ ComplyRequests(j) \/ Comply(j)
      PROVE  JobsAreSound'
  <2>1. evalRun' = evalRun
    BY <1>5 DEF ReadTraces, ReadWorkflow, ReadRequests, ReadMutations, ComplyTraces,
              ComplyRequests, Comply, Quiet
  <2> QED BY <1>5, <2>1, GradingStaysSound
<1>6. ASSUME NEW j \in Jobs, Complete(j)
      PROVE  JobsAreSound'
  <2>1. PICK local : local = [job[j] EXCEPT !.pc = "done"] /\ JobGoes(j, local)
    BY <1>6, EndGoes DEF Complete, To, JobPcs
  <2>2. local.pc = "done" /\ job'[j] = local
    BY <1>1, <2>1, JobGoesEffect DEF JobRecords
  <2>3. evalRun'[j] = "completed" /\ \A i \in Jobs \ {j} : evalRun'[i] = evalRun[i]
    BY <1>1, <1>6 DEF Complete, JobsTypeOK
  <2>4. JobIsSound(j)'
    BY <2>2, <2>3 DEF JobIsSound, GradingPcs, StoringPcs
  <2> QED BY <2>1, <2>3, <2>4, OneJobSteps
<1>7. ASSUME NEW j \in Jobs, JobDies(j)
      PROVE  JobsAreSound'
  <2>1. PICK local : local = [job[j] EXCEPT !.pc = "dead"] /\ JobGoes(j, local)
    BY <1>7, EndGoes DEF JobDies, To, JobPcs
  <2>2. local.pc = "dead" /\ job'[j] = local
    BY <1>1, <2>1, JobGoesEffect DEF JobRecords
  <2>3. JobIsSound(j)'
    BY <2>2 DEF JobIsSound, GradingPcs, StoringPcs
  <2>4. \A i \in Jobs \ {j} : evalRun'[i] = evalRun[i]
    BY <1>7 DEF JobDies
  <2> QED BY <2>1, <2>3, <2>4, OneJobSteps
<1>8. ASSUME UNCHANGED evals
      PROVE  JobsAreSound'
  <2>1. \A i \in Jobs : JobIsSound(i)'
    BY <1>8, KeptJob DEF evals
  <2> QED BY <2>1 DEF JobsAreSound
<1> QED BY <1>2, <1>3, <1>4, <1>5, <1>6, <1>7, <1>8, LoopingStaysSound, StoringStaysSound
        DEF EvalNext, EvalStep

-----------------------------------------------------------------------------
(* What a case keeps as long as it is intact.                              *)

\* Only an approval of its own request, or a refused one, writes to the log of an
\* answered call.
LEMMA AnsweredLog ==
  ASSUME EvalInv, EvalNext, NEW c \in Calls, Answered(c), run'[c].status # Absent
  PROVE  \/ trace'[c] = trace[c]
         \/ \E w \in WorkflowIds : approval[w].run = c /\ (Approve(w) \/ ApproveRefused(w))
<1>1. trace \in [RunIds -> Seq(TraceRows)] /\ c \in RunIds
  BY CallParts DEF EvalInv, AgentInv, LogsAreSound
<1>2. ASSUME NEW j \in Jobs,
             \/ Begin(j) \/ LoopConflict(j) \/ JobDies(j) \/ InsertResult(j) \/ AddSnapshot(j)
             \/ Complete(j)
             \/ ReadTraces(j) \/ ReadWorkflow(j) \/ ReadRequests(j) \/ ReadMutations(j)
             \/ ComplyTraces(j) \/ ComplyRequests(j) \/ Comply(j) \/ DeleteResults(j)
      PROVE  trace' = trace
  BY <1>2 DEF Begin, LoopConflict, Replay, JobDies, InsertResult, AddSnapshot, Complete,
              ReadTraces, ReadWorkflow, ReadRequests, ReadMutations, ComplyTraces,
              ComplyRequests, Comply, DeleteResults, Quiet, Idling
<1>3. ASSUME NEW j \in Jobs, OpenCase(j)
      PROVE  trace'[c] = trace[c]
  <2>1. CaseOf(j).ticket \in Tickets \cup {Absent}
    BY <1>3, CallOfCase, CaseAssumption DEF OpenCase, EvalInv, CaseOf
  <2>2. CASE CaseOf(j).ticket = Absent
    BY <1>3, <2>2 DEF OpenCase
  <2>3. CASE CaseOf(j).ticket # Absent
    <3>1. PICK t \in Tickets : t = CaseOf(j).ticket /\ Reset(t)
      BY <1>3, <2>1, <2>3 DEF OpenCase
    <3>2. ResetTicket(t)
      BY <3>1, SameDecision DEF Reset
    <3>3. c \notin RunsOf(t)
      BY <1>1, <3>2, ResetEffect DEF RunsOf, NoRun
    <3> QED BY <1>1, <3>1, <3>3 DEF Reset
  <2> QED BY <2>2, <2>3
<1>4. ASSUME NEW j \in Jobs, Loop(j) \/ LoopEscapes(j)
      PROVE  trace'[c] = trace[c]
  <2>1. PICK d \in Calls : d = CallOf(j)
    BY <1>4, LoopingJob DEF Loop, LoopEscapes
  <2>2. d # c /\ (Live(d) => call[d].run = d) /\ d \in RunIds
    <3>1. call[d].pc = "idle" \/ Live(d)
      BY <1>4, <2>1, LoopCall
    <3>2. Live(d) => call[d].run \in RunIds
      BY DEF EvalInv, AgentInv, CallsAreSound
    <3>3. CallIsOwn(d)
      BY DEF EvalInv, CallsAreOwn
    <3> QED BY <3>1, <3>2, <3>3, CallParts, NoneAssumption DEF CallIsOwn, Answered, Live, Ended
  <2>3. CASE \E w : Start(d, CaseOf(j).ticket, d, w, d)
    BY <2>3 DEF Start
  <2>4. CASE Step(d) \/ Escape(d, "plan") \/ Escape(d, "draft")
    <3>1. Live(d)
      BY <2>4 DEF Step, Plan, RecordPlan, RecordVerdict, ReadEvidence, ReadPrior, Decide, Draft,
                RecordDraftFailure, Fail, Finalize, FinalizeRefused, Escape, Live, Ended
    <3>2. \/ trace' = trace
          \/ \E log : trace' = [trace EXCEPT ![call[d].run] = log]
      BY <2>4 DEF Step, Plan, RecordPlan, RecordVerdict, ReadEvidence, ReadPrior, Decide, Draft,
                RecordDraftFailure, Fail, Finalize, FinalizeRefused, Escape, Record
    <3> QED BY <1>1, <2>2, <3>1, <3>2
  <2> QED BY <1>4, <2>1, <2>3, <2>4 DEF Loop, LoopEscapes
<1>5. ASSUME NEW w \in WorkflowIds, Cancel(w) \/ Reject(w)
      PROVE  trace' = trace
  BY <1>5 DEF Cancel, Reject, locals
<1>6. ASSUME NEW w \in WorkflowIds, Approve(w) \/ ApproveRefused(w), approval[w].run # c
      PROVE  trace'[c] = trace[c]
  BY <1>1, <1>6 DEF Approve, ApproveRefused
<1> QED BY <1>2, <1>3, <1>4, <1>5, <1>6 DEF EvalNext, EvalStep

\* The requests of a run are that of its workflow.
LEMMA RunsRequest ==
  ASSUME IInv, NEW r \in RunIds, r # None, NEW w \in WorkflowIds, approval[w].run = r
  PROVE  w = run[r].workflow /\ approval[w].status # Absent
<1>1. approval[w].status # Absent
  BY DEF IInv, RowsAreComplete, NoApproval
<1> QED BY <1>1 DEF IInv, DecisionsAgree

LEMMA IntactStep ==
  ASSUME EvalInv, AgentInv', LoopInv', EvalNext, NEW c \in Calls, Answered(c), Intact(c)'
  PROVE  /\ Intact(c)
         /\ call'[c] = call[c] /\ run'[c] = run[c] /\ trace'[c] = trace[c]
         /\ workflow'[run[c].workflow].status = workflow[run[c].workflow].status
         /\ \A w \in WorkflowIds : approval'[w].run = c \/ approval[w].run = c =>
              approval'[w] = approval[w]
<1>1. /\ IInv /\ IInv' /\ [Next]_tables /\ CallIsOwn(c)
      /\ c \in RunIds /\ c # None /\ call[c].run = c /\ call[c].pc = "answered"
  BY CallParts, EvalStepIsAgentStep, LoopStep DEF EvalInv, AgentInv, CallsAreOwn, Answered
<1>2. call'[c] = call[c]
  BY <1>1, EndedCallStays
<1>3. run'[c] = run[c] /\ run[c].status = "completed"
  <2>1. run'[c].status = "completed" /\ run'[c].status # Absent
    BY DEF Intact, Absent
  <2>2. RunExists(c)
    BY <1>1, <2>1, OnlyCallsInsert DEF Inserted
  <2>3. run[c].status \in {"completed", "failed"}
    BY <1>1, <2>2 DEF CallIsOwn, RunExists, Answered
  <2>4. run'[c] = run[c]
    BY <1>1, <2>1, <2>3, AttemptStep DEF RunStatuses
  <2> QED BY <2>1, <2>4
<1>4. PICK w : w = run[c].workflow
  OBVIOUS
<1>5. w \in WorkflowIds /\ Exists(w) /\ workflow'[w].status # Absent
  <2>1. RunExists(c) /\ RunExists(c)' /\ run'[c].workflow = w
    BY <1>3, <1>4 DEF RunExists, Absent
  <2>2. RunTracksWorkflow' /\ RunTracksWorkflow
    BY <1>1 DEF IInv
  <2> QED BY <1>1, <1>4, <2>1, <2>2 DEF RunTracksWorkflow, WorkflowsOf, Exists
<1>6. Finalized(c) /\ Finalized(c)'
  BY <1>1, <1>2, <1>3 DEF Finalized
<1>7. workflow'[w].status = workflow[w].status /\ approval'[w] = approval[w]
  <2>1. workflow'[w].status \notin {"mock_executed", "rejected", "cancelled"}
    BY <1>3, <1>4 DEF Intact
  <2>2. CASE Terminal(w)
    BY <1>1, <1>5, <2>2, SettledStep
  <2>3. CASE ~Terminal(w)
    <3>1. CurrentDecision(c) /\ CurrentDecision(c)'
      BY DEF EvalInv, LoopInv, CurrentDecisions
    <3>2. /\ call[c].decision.action # NoAction
          /\ approval[w].run = c /\ approval'[w].run = c
      BY <1>1, <1>2, <1>3, <1>4, <1>6, <2>3, <3>1 DEF CurrentDecision, Terminal, TerminalStatuses
    <3>3. approval[w].status # Absent /\ approval'[w].status # Absent
      <4>1. RowsAreComplete /\ RowsAreComplete'
        BY <1>1 DEF IInv
      <4> QED BY <1>1, <1>5, <3>2, <4>1 DEF RowsAreComplete, NoApproval
    <3>4. /\ approval[w] \in ApprovalRows /\ approval'[w] \in ApprovalRows
          /\ workflow[w].status \notin {"mock_executed", "rejected", "cancelled"}
      BY <1>1, <1>5, <2>3 DEF IInv, TypeOK, Terminal, TerminalStatuses
    <3>5. /\ approval[w].status = "pending" /\ approval'[w].status = "pending"
          /\ workflow[w].status = "awaiting_approval" /\ workflow'[w].status = "awaiting_approval"
      <4>1. DecisionsAgree /\ DecisionsAgree'
        BY <1>1 DEF IInv
      <4> QED BY <1>5, <2>1, <3>3, <3>4, <4>1 DEF DecisionsAgree, ApprovalRows, ApprovalStatuses
    <3>6. approval[w].decider = None /\ approval'[w].decider = None
      BY <1>1, <1>5, <3>5 DEF IInv, DecidersAreAuthorised
    <3>7. approval'[w].action = approval[w].action
      BY <1>1, <1>5, <3>2, RequestStep
    <3> QED BY <3>2, <3>4, <3>5, <3>6, <3>7 DEF ApprovalRows
  <2> QED BY <2>2, <2>3
<1>8. Intact(c)
  BY <1>2, <1>3, <1>4, <1>7 DEF Intact
<1>9. ASSUME NEW v \in WorkflowIds, approval'[v].run = c \/ approval[v].run = c
      PROVE  v = w
  <2>1. CASE approval[v].run = c
    BY <1>1, <1>4, <2>1, RunsRequest
  <2>2. CASE approval'[v].run = c
    <3>1. RowsAreComplete' /\ DecisionsAgree'
      BY <1>1 DEF IInv
    <3>2. approval'[v].status # Absent
      BY <1>1, <2>2, <3>1 DEF RowsAreComplete, NoApproval
    <3> QED BY <1>1, <1>3, <1>4, <2>2, <3>1, <3>2 DEF DecisionsAgree
  <2> QED BY <1>9, <2>1, <2>2
<1>10. trace'[c] = trace[c]
  <2>1. run'[c].status # Absent
    BY <1>3 DEF Absent
  <2>2. ASSUME NEW v \in WorkflowIds, approval[v].run = c, Approve(v)
        PROVE  FALSE
    <3>1. v = w
      BY <1>9, <2>2
    <3>2. ApproveAndExecute(v, Supervisor)
      BY <2>2, SameDecision DEF Approve
    <3>3. /\ workflow[v].status = "awaiting_approval"
          /\ Move(v, workflow[v], "mock_executed")
      BY <3>2 DEF ApproveAndExecute, WriteExecution
    <3>4. workflow'[v].status = "mock_executed"
      BY <1>1, <3>3, MovedRow DEF IInv
    <3> QED BY <1>7, <3>1, <3>3, <3>4
  <2>3. ASSUME NEW v \in WorkflowIds, approval[v].run = c, ApproveRefused(v)
        PROVE  FALSE
    <3>1. v = w
      BY <1>9, <2>3
    <3>2. approval[w].status \in {"rejected", "withdrawn"}
      BY <2>3, <3>1, RefusedApproval DEF EvalInv
    <3>3. workflow[w].status \in {"rejected", "cancelled"}
      BY <1>1, <1>5, <3>2 DEF IInv, DecisionsAgree
    <3> QED BY <1>4, <1>8, <3>3 DEF Intact
  <2> QED BY <2>1, <2>2, <2>3, AnsweredLog
<1> QED BY <1>2, <1>3, <1>4, <1>7, <1>8, <1>9, <1>10

\* What an intact case left: no action and nobody waits, or its pending request.
LEMMA IntactRequest ==
  ASSUME EvalInv, NEW c \in Calls, Answered(c), Intact(c), c[2] \in Runnable
  PROVE  LET t == CaseTable[c[2]].ticket
             w == run[c].workflow
             decision == call[c].decision
         IN /\ Finalized(c) /\ t \in Tickets /\ call[c].ticket = t
            /\ w \in WorkflowIds /\ Exists(w) /\ workflow[w].ticket = t
            /\ decision.outcome # "duplicate_action_already_executed"
            /\ \E executed \in SUBSET ExecutedOf(t) : Concluded(t, decision, executed)
            /\ IF decision.action = NoAction
               THEN /\ workflow[w].status = "completed_no_action"
                    /\ \A v \in WorkflowsOf(t) : approval[v].status # "pending"
                    /\ \A v \in WorkflowIds : approval[v].run # c
               ELSE /\ approval[w].run = c /\ approval[w].action = decision.action
                    /\ approval[w].status = "pending"
                    /\ workflow[w].status = "awaiting_approval"
<1>1. /\ IInv /\ CallIsOwn(c) /\ CurrentDecision(c)
      /\ c \in RunIds /\ c # None /\ call[c].run = c /\ call[c].pc = "answered"
  BY CallParts DEF EvalInv, AgentInv, LoopInv, CurrentDecisions, CallsAreOwn, Answered
<1>2. PICK t \in Tickets : t = CaseTable[c[2]].ticket
  BY RunnableCase
<1>3. PICK w : w = run[c].workflow
  OBVIOUS
<1>4. PICK decision : decision = call[c].decision
  OBVIOUS
<1>5. run[c].status = "completed" /\ RunExists(c)
  BY DEF Intact, RunExists, Absent
<1>6. Finalized(c) /\ call[c].ticket = t /\ run[c].ticket = t
  BY <1>1, <1>2, <1>5 DEF Finalized, CallIsOwn, CurrentDecision
<1>7. w \in WorkflowIds /\ Exists(w) /\ workflow[w].ticket = t
  BY <1>1, <1>3, <1>5, <1>6, RunsWorkflow
<1>8. decision.outcome # "duplicate_action_already_executed"
  <2>1. CaseTable[c[2]].outcome # "duplicate_action_already_executed"
    BY ExpectationAssumption
  <2> QED BY <1>4, <2>1 DEF Intact
<1>9. /\ \E executed \in SUBSET ExecutedOf(t) : Concluded(t, decision, executed)
      /\ IF decision.action = NoAction
         THEN workflow[w].status = "completed_no_action"
         ELSE approval[w].run = c /\ approval[w].action = decision.action
      /\ decision.action = NoAction => \A v \in WorkflowsOf(t) : approval[v].status # "pending"
  BY <1>1, <1>3, <1>4, <1>6, <1>8 DEF CurrentDecision
<1>10. DecisionsAgree
  BY <1>1 DEF IInv
<1>11. ASSUME decision.action = NoAction, NEW v \in WorkflowIds, approval[v].run = c
       PROVE  FALSE
  <2>1. v = w /\ approval[w].status # Absent
    BY <1>1, <1>3, <1>11, RunsRequest
  <2>2. workflow[w].status = "completed_no_action" /\ approval[w] \in ApprovalRows
    BY <1>1, <1>7, <1>9, <1>11 DEF IInv, TypeOK
  <2> QED BY <1>7, <1>10, <2>1, <2>2 DEF DecisionsAgree, ApprovalRows, ApprovalStatuses
<1>12. ASSUME decision.action # NoAction
       PROVE  approval[w].status = "pending" /\ workflow[w].status = "awaiting_approval"
  <2>1. approval[w].status # Absent /\ approval[w] \in ApprovalRows
    BY <1>1, <1>7, <1>9, <1>12, RunsRequest DEF IInv, TypeOK
  <2>2. workflow[w].status \notin {"mock_executed", "rejected", "cancelled"}
    BY <1>3 DEF Intact
  <2> QED BY <1>7, <1>10, <2>1, <2>2 DEF DecisionsAgree, ApprovalRows, ApprovalStatuses
<1> HIDE DEF Finalized, Concluded, ExecutedOf, Exists
<1> QED BY <1>2, <1>3, <1>4, <1>6, <1>7, <1>8, <1>9, <1>11, <1>12

\* A call keeps its run.
LEMMA CallKeepsRun ==
  ASSUME EvalInv, EvalNext, NEW c \in Calls, call[c].run = c
  PROVE  call'[c].run = c
<1>1. c # None /\ CurrentDecision(c)
  BY CallParts DEF EvalInv, LoopInv, CurrentDecisions
<1>2. call[c].pc # "idle"
  BY <1>1 DEF CurrentDecision
<1>3. CASE ~Live(c)
  BY <1>2, <1>3, EndedCallStays DEF Live, Ended
<1>4. CASE Live(c)
  <2>1. ASSUME NEW j \in Jobs, Loop(j) \/ LoopEscapes(j)
        PROVE  call'[c].run = c
    <3>1. PICK d \in Calls : d = CallOf(j)
      BY <2>1, LoopingJob DEF Loop, LoopEscapes
    <3>2. call'[d].run = d /\ \A e \in Calls \ {d} : call'[e] = call[e]
      BY <2>1, <3>1, LoopCall
    <3> QED BY <3>2
  <2>2. ASSUME NEW j \in Jobs, LoopConflict(j)
        PROVE  call'[c].run = c
    <3>1. PICK d \in Calls : d = CallOf(j)
      BY <2>2, LoopingJob DEF LoopConflict
    <3>2. call[d].pc = "idle" /\ call' = [call EXCEPT ![d] = [Idle EXCEPT !.pc = "answered", !.ticket = CaseOf(j).ticket]]
      BY <2>2, <3>1 DEF LoopConflict, Replay
    <3>3. call \in [Calls -> CallRecords]
      BY DEF EvalInv, AgentInv, CallsAreSound
    <3> QED BY <1>2, <3>2, <3>3
  <2>3. ASSUME NEW j \in Jobs, JobDies(j)
        PROVE  call'[c].run = c
    <3>1. call[c] \in CallRecords
      BY DEF EvalInv, AgentInv, CallsAreSound
    <3>2. call'[c] = call[c] \/ call'[c] = [call[c] EXCEPT !.pc = "dead"]
      BY <2>3 DEF JobDies
    <3> QED BY <3>1, <3>2 DEF CallRecords
  <2>4. ASSUME NEW j \in Jobs,
             \/ Begin(j) \/ OpenCase(j) \/ InsertResult(j) \/ AddSnapshot(j) \/ Complete(j)
             \/ ReadTraces(j) \/ ReadWorkflow(j) \/ ReadRequests(j) \/ ReadMutations(j)
             \/ ComplyTraces(j) \/ ComplyRequests(j) \/ Comply(j) \/ DeleteResults(j)
        PROVE  call' = call
    BY <2>4 DEF Begin, OpenCase, Reset, InsertResult, AddSnapshot, Complete,
              ReadTraces, ReadWorkflow, ReadRequests, ReadMutations, ComplyTraces,
              ComplyRequests, Comply, DeleteResults, Quiet, Idling
  <2>5. ASSUME NEW w \in WorkflowIds, Cancel(w) \/ Reject(w) \/ Approve(w) \/ ApproveRefused(w)
        PROVE  call' = call
    BY <2>5 DEF Cancel, Reject, Approve, ApproveRefused, locals
  <2> QED BY <2>1, <2>2, <2>3, <2>4, <2>5 DEF EvalNext, EvalStep
<1> QED BY <1>3, <1>4

\* What was read of the requests stays apart: no id is used twice.
LEMMA PendingStaysApart ==
  ASSUME EvalInv, EvalNext, NEW read, PendingIsApart(read)
  PROVE  PendingIsApart(read)'
<1>1. IInv /\ [Next]_tables
  BY EvalStepIsAgentStep, LoopStep DEF EvalInv, AgentInv
<1>2. \A w \in WorkflowIds : read[w].status # Absent =>
        w \in DOMAIN Seeded \/ (w \in Calls /\ call[w].run = w)
  BY IdAssumption DEF PendingIsApart
<1>3. \A w \in WorkflowIds : read[w].status # Absent => w \in DOMAIN Seeded \/ call'[w].run = w
  BY <1>2, CallKeepsRun
<1>4. ASSUME NEW w \in WorkflowIds, read[w].status # Absent, workflow'[w].status # Absent
      PROVE  Exists(w) /\ workflow'[w].ticket = workflow[w].ticket
  <2>1. ~(w \in Calls /\ Inserted(w))
    BY <1>2, <1>4, CallParts DEF Inserted
  <2>2. Exists(w)
    BY <1>4, <2>1, OnlyCallsInsert
  <2> QED BY <1>1, <1>4, <2>2, OwnerStep
<1>5. \A v, w \in WorkflowIds :
        (/\ v # w /\ workflow'[v].status # Absent /\ workflow'[w].status # Absent
         /\ read[v].status = "pending" /\ read[w].status = "pending") =>
           workflow'[v].ticket # workflow'[w].ticket
  BY <1>4 DEF PendingIsApart, Absent
<1> QED BY <1>3, <1>5 DEF PendingIsApart, Exists

LEMMA ReadIsApart ==
  ASSUME EvalInv
  PROVE  PendingIsApart(approval)
<1>1. IInv /\ CallsAreOwn
  BY DEF EvalInv, AgentInv
<1>2. ASSUME NEW w \in WorkflowIds, approval[w].status # Absent
      PROVE  w \in DOMAIN Seeded \/ call[w].run = w
  <2>1. Exists(w)
    BY <1>1, <1>2 DEF IInv, RowsAreComplete, Exists
  <2> QED BY <1>1, <2>1, IdAssumption DEF CallsAreOwn, CallIsOwn
<1>3. ASSUME NEW v \in WorkflowIds, NEW w \in WorkflowIds,
             approval[v].status = "pending", approval[w].status = "pending",
             workflow[v].ticket = workflow[w].ticket
      PROVE  v = w
  <2>1. Active(v) /\ Active(w)
    BY <1>1, <1>3 DEF IInv, DecisionsAgree, Active, ActiveStatuses
  <2> QED BY <1>1, <1>3, <2>1, OneActive DEF IInv
<1> QED BY <1>2, <1>3 DEF PendingIsApart

\* Nothing of the ticket is executed beside an intact case: it left nothing that
\* waits, or it waits itself.
LEMMA RequestsStayRead ==
  ASSUME EvalInv, AgentInv', LoopInv', EvalNext, NEW c \in Calls, Answered(c), Intact(c)',
         c[2] \in Runnable, NEW read, RequestsAreRead(c, read)
  PROVE  RequestsAreRead(c, read)'
<1>1. IInv /\ IInv' /\ [Next]_tables
  BY EvalStepIsAgentStep, LoopStep DEF EvalInv, AgentInv
<1>2. PICK t \in Tickets : t = CaseTable[c[2]].ticket
  BY RunnableCase
<1>3. PICK w : w = run[c].workflow
  OBVIOUS
<1>4. /\ Intact(c)
      /\ \A v \in WorkflowIds : approval'[v].run = c \/ approval[v].run = c =>
           approval'[v] = approval[v]
  BY IntactStep
<1>5. /\ w \in WorkflowIds /\ Exists(w) /\ workflow[w].ticket = t
      /\ \/ \A v \in WorkflowsOf(t) : approval[v].status # "pending"
         \/ /\ approval[w].run = c /\ approval[w].status = "pending"
            /\ workflow[w].status = "awaiting_approval"
  BY <1>2, <1>3, <1>4, IntactRequest
<1>6. ASSUME NEW v \in WorkflowIds, mutation'[v] # None, workflow'[v].ticket = t
      PROVE  mutation'[v] = mutation[v] /\ workflow[v].ticket = t
  <2>1. workflow'[v].status # Absent
    <3>1. DecisionsAgree'
      BY <1>1 DEF IInv
    <3> QED BY <1>6, <3>1 DEF DecisionsAgree, Absent
  <2>2. CASE mutation'[v] = mutation[v]
    <3>1. Exists(v)
      BY <1>1, <1>6, <2>2, MutationSettles
    <3> QED BY <1>1, <1>6, <2>1, <2>2, <3>1, OwnerStep
  <2>3. CASE mutation'[v] # mutation[v]
    <3>1. /\ approval[v].status = "pending" /\ workflow[v].status = "awaiting_approval"
          /\ approval'[v].status = "approved"
      BY <1>1, <1>6, <2>3, MoneyStep
    <3>2. Exists(v) /\ Active(v)
      BY <3>1 DEF Exists, Active, ActiveStatuses, Absent
    <3>3. workflow[v].ticket = t
      BY <1>1, <1>6, <2>1, <3>2, OwnerStep
    <3>4. v \in WorkflowsOf(t)
      BY <3>2, <3>3 DEF WorkflowsOf
    <3>5. approval[w].run = c /\ Active(w)
      BY <1>5, <3>1, <3>4 DEF Active, ActiveStatuses
    <3>6. v = w
      BY <1>1, <1>5, <3>2, <3>3, <3>5, OneActive DEF IInv
    <3> QED BY <1>4, <3>1, <3>5, <3>6
  <2> QED BY <2>2, <2>3
<1>7. \A v \in WorkflowIds : read[v].run = c => read[v] = approval'[v]
  BY <1>4 DEF RequestsAreRead
<1>8. \A v \in WorkflowIds : mutation'[v] # None /\ workflow'[v].ticket = CaseTable[c[2]].ticket =>
        read[v].status = "approved" /\ read[v].action = mutation'[v]
  BY <1>2, <1>6 DEF RequestsAreRead
<1> QED BY <1>7, <1>8 DEF RequestsAreRead

LEMMA RequestsRead ==
  ASSUME EvalInv, NEW c \in Calls
  PROVE  RequestsAreRead(c, approval)
<1>1. DecisionsAgree
  BY DEF EvalInv, AgentInv, IInv
<1> QED BY <1>1 DEF RequestsAreRead, DecisionsAgree

\* A grade stays exact.
LEMMA GradeStaysExact ==
  ASSUME EvalInv, AgentInv', LoopInv', EvalNext, NEW c \in Calls, NEW result, NEW needed,
         ExactGrade(c, result, needed)
  PROVE  ExactGrade(c, result, needed)'
<1>1. CASE result \in BlockedResults
  BY <1>1 DEF ExactGrade
<1>2. CASE result \notin BlockedResults
  <2>1. Answered(c) /\ CaseTable[c[2]].scenario \in SupportedScenarios
    BY <1>2 DEF ExactGrade
  <2>2. call'[c] = call[c]
    BY <2>1, EndedCallStays DEF Answered
  <2>3. Answered(c)'
    BY <2>1, <2>2 DEF Answered
  <2>4. Intact(c)' => Intact(c)
    BY <2>1, IntactStep
  <2> QED BY <1>2, <2>1, <2>2, <2>3, <2>4 DEF ExactGrade
<1> QED BY <1>1, <1>2

\* A request that does not step keeps what it read and its grade.
LEMMA KeptReads ==
  ASSUME EvalInv, AgentInv', LoopInv', EvalNext, NEW i \in Jobs, job'[i] = job[i]
  PROVE  ReadsAreCurrent(i)' /\ GradeIsExact(i)'
<1>1. ReadsAreCurrent(i) /\ GradeIsExact(i)
  BY DEF EvalInv, GradesAreExact
<1>2. Case(i)' = Case(i) /\ CallOf(i)' = CallOf(i)
  BY SameCase
<1>3. PICK local : local = job[i]
  OBVIOUS
<1>4. PICK c : c = CallOf(i)
  OBVIOUS
<1>5. CASE local.pc \in GradingPcs
  <2>1. c \in Calls /\ c \in RunIds /\ Answered(c) /\ c[2] \in Runnable
    BY <1>3, <1>4, <1>5, GradingJob
  <2>2. run'[c].status # Absent => RunExists(c) /\ run'[c] = run[c]
    <3> SUFFICES ASSUME run'[c].status # Absent
                 PROVE  RunExists(c) /\ run'[c] = run[c]
      OBVIOUS
    <3>1. RunExists(c)
      BY <2>1, OnlyCallsInsert, CallParts DEF Inserted, Answered
    <3>2. CallIsOwn(c) /\ IInv /\ [Next]_tables
      BY <2>1, EvalStepIsAgentStep, LoopStep DEF EvalInv, AgentInv, CallsAreOwn
    <3>3. run[c].status \in {"completed", "failed"}
      BY <2>1, <3>1, <3>2 DEF CallIsOwn, RunExists
    <3> QED BY <2>1, <3>1, <3>2, <3>3, AttemptStep DEF RunStatuses
  <2>3. local.pc = "comply" => PendingIsApart(local.read)'
    <3>1. PICK read : read = local.read
      OBVIOUS
    <3> QED BY <1>1, <1>3, <3>1, PendingStaysApart DEF ReadsAreCurrent
  <2>4. ASSUME Intact(c)'
        PROVE  /\ Intact(c)
               /\ trace'[c] = trace[c]
               /\ workflow'[run'[c].workflow].status = workflow[run[c].workflow].status
               /\ {approval'[w] : w \in {v \in WorkflowIds : approval'[v].run = c}} =
                    {approval[w] : w \in {v \in WorkflowIds : approval[v].run = c}}
    <3>1. /\ Intact(c) /\ trace'[c] = trace[c] /\ run'[c] = run[c]
          /\ workflow'[run[c].workflow].status = workflow[run[c].workflow].status
          /\ \A w \in WorkflowIds : approval'[w].run = c \/ approval[w].run = c =>
               approval'[w] = approval[w]
      BY <2>1, <2>4, IntactStep
    <3> QED BY <3>1
  <2>5. Intact(c)' /\ local.pc = "comply" => RequestsAreRead(c, local.read)'
    <3>1. PICK read : read = local.read
      OBVIOUS
    <3>2. Intact(c)' /\ local.pc = "comply" => RequestsAreRead(c, read)
      BY <1>1, <1>3, <1>4, <1>5, <2>4, <3>1 DEF ReadsAreCurrent
    <3>3. Intact(c)' /\ local.pc = "comply" => RequestsAreRead(c, read)'
      BY <2>1, <3>2, RequestsStayRead
    <3> QED BY <3>1, <3>3
  <2>6. ReadsAreCurrent(i)'
    BY <1>1, <1>2, <1>3, <1>4, <1>5, <2>2, <2>3, <2>4, <2>5 DEF ReadsAreCurrent, RunExists
  <2>7. GradeIsExact(i)'
    <3>1. PICK result : result = local.result
      OBVIOUS
    <3>2. PICK needed : needed = BlockingDimensions \ {"governance_compliance"}
      OBVIOUS
    <3>3. local.pc \in {"comply_traces", "comply_requests", "comply"} =>
            result \in GradedResults /\ ExactGrade(c, result, needed)
      BY <1>1, <1>3, <1>4, <3>1, <3>2 DEF GradeIsExact
    <3>4. local.pc \in {"comply_traces", "comply_requests", "comply"} => ExactGrade(c, result, needed)'
      BY <2>1, <3>3, GradeStaysExact
    <3>5. local.pc \notin StoringPcs
      BY <1>5 DEF GradingPcs, StoringPcs
    <3> QED BY <1>2, <1>3, <1>4, <3>1, <3>2, <3>3, <3>4, <3>5 DEF GradeIsExact
  <2> QED BY <2>6, <2>7
<1>6. CASE local.pc \in StoringPcs
  <2>1. c \in Calls
    BY <1>3, <1>4, <1>6, StoringJob
  <2>2. PICK result : result = local.result
    OBVIOUS
  <2>3. ExactGrade(c, result, BlockingDimensions)
    BY <1>1, <1>3, <1>4, <1>6, <2>2 DEF GradeIsExact
  <2>4. ExactGrade(c, result, BlockingDimensions)'
    BY <2>1, <2>3, GradeStaysExact
  <2>5. GradeIsExact(i)'
    BY <1>2, <1>3, <1>4, <1>6, <2>2, <2>4 DEF GradeIsExact, StoringPcs
  <2>6. ReadsAreCurrent(i)'
    BY <1>3, <1>6 DEF ReadsAreCurrent, GradingPcs, StoringPcs
  <2> QED BY <2>5, <2>6
<1>7. CASE local.pc \notin GradingPcs \cup StoringPcs
  BY <1>3, <1>7 DEF ReadsAreCurrent, GradeIsExact, GradingPcs, StoringPcs
<1> QED BY <1>5, <1>6, <1>7

-----------------------------------------------------------------------------
(* What an intact case is graded.                                          *)

\* The log of an intact case starts with the loop's traces.
LEMMA IntactLog ==
  ASSUME EvalInv, NEW c \in Calls, Answered(c), Intact(c), c[2] \in Runnable
  PROVE  LET known == Fixture[CaseTable[c[2]].ticket]
             log == trace[c]
         IN /\ log \in Seq(TraceRows) /\ Len(log) \in Nat /\ Len(log) >= 5
            /\ DOMAIN log = 1..Len(log) /\ 1..5 \subseteq DOMAIN log
            /\ log[1].policy = "plan.investigation"
            /\ log[2].policy = "plan.verify" /\ log[2].error = Absent
            /\ log[3] = EvidenceTrace(known)
            /\ log[4].policy = "read.prior_financial_actions"
            /\ log[5] = DecisionTrace(known, call[c].decision)
<1>1. PICK log : log = trace[c]
  OBVIOUS
<1>2. log \in Seq(TraceRows) /\ Len(log) \in Nat /\ DOMAIN log = 1..Len(log)
  <2>1. c \in RunIds
    BY CallParts
  <2> QED BY <1>1, <2>1, LenProperties DEF EvalInv, AgentInv, LogsAreSound
<1>3. Finalized(c) /\ OrderedLog(c) /\ call[c].run = c
      /\ call[c].ticket = CaseTable[c[2]].ticket /\ evidence = Fixture
  BY IntactRequest DEF EvalInv, LoopInv, OrderedLogs, Answered, CallsAreOwn
<1>4. Len(log) >= 5 /\ \A i \in 1..5 : log[i] = LoopTrace(c)[i]
  BY <1>1, <1>3 DEF OrderedLog
<1>5. 1..5 \subseteq DOMAIN log
  BY <1>2, <1>4
<1>6. /\ log[1] = Governed("plan.investigation", {"ticket"}, FALSE, {}, Absent)
      /\ log[2] = Governed("plan.verify", {"ticket"}, FALSE, {}, Absent)
      /\ log[3] = EvidenceTrace(Fixture[CaseTable[c[2]].ticket])
      /\ log[4] = Governed("read.prior_financial_actions", {"ticket"}, FALSE, {}, Absent)
      /\ log[5] = DecisionTrace(Fixture[CaseTable[c[2]].ticket], call[c].decision)
  <2>1. PICK first : first = Governed("plan.investigation", {"ticket"}, FALSE, {}, Absent)
    OBVIOUS
  <2>2. PICK second : second = Governed("plan.verify", {"ticket"}, FALSE, {}, Absent)
    OBVIOUS
  <2>3. PICK third : third = EvidenceTrace(Fixture[CaseTable[c[2]].ticket])
    OBVIOUS
  <2>4. PICK fourth : fourth = Governed("read.prior_financial_actions", {"ticket"}, FALSE, {}, Absent)
    OBVIOUS
  <2>5. PICK fifth : fifth = DecisionTrace(Fixture[CaseTable[c[2]].ticket], call[c].decision)
    OBVIOUS
  <2>6. LoopTrace(c) = <<first, second, third, fourth, fifth>>
    BY <1>3, <2>1, <2>2, <2>3, <2>4, <2>5 DEF LoopTrace
  <2>7. /\ LoopTrace(c)[1] = first /\ LoopTrace(c)[2] = second /\ LoopTrace(c)[3] = third
        /\ LoopTrace(c)[4] = fourth /\ LoopTrace(c)[5] = fifth
    BY <2>6
  <2>8. /\ log[1] = LoopTrace(c)[1] /\ log[2] = LoopTrace(c)[2] /\ log[3] = LoopTrace(c)[3]
        /\ log[4] = LoopTrace(c)[4] /\ log[5] = LoopTrace(c)[5]
    BY <1>4
  <2> QED BY <2>1, <2>2, <2>3, <2>4, <2>5, <2>7, <2>8
<1>7. /\ Governed("plan.investigation", {"ticket"}, FALSE, {}, Absent).policy = "plan.investigation"
      /\ Governed("plan.verify", {"ticket"}, FALSE, {}, Absent).policy = "plan.verify"
      /\ Governed("read.prior_financial_actions", {"ticket"}, FALSE, {}, Absent).policy
            = "read.prior_financial_actions"
  BY DEF Governed, Trace
<1>8. Governed("plan.verify", {"ticket"}, FALSE, {}, Absent).error = Absent
  <2>1. MissingRefs("plan.verify", {"ticket"}, FALSE, {}) = {}
    BY DEF RequiredRefs, RequiredEvidence, PolicyIds, RequiresPolicyRefs, RequiresApprovalRef,
           MutationPolicies, MissingRefs
  <2> QED BY <2>1 DEF Governed, Trace
<1>9. /\ log[1].policy = "plan.investigation" /\ log[2].policy = "plan.verify"
      /\ log[4].policy = "read.prior_financial_actions" /\ log[2].error = Absent
  BY <1>6, <1>7, <1>8, Zenon
<1>10. Len(log) >= 5
  BY <1>4
<1>11. /\ log[3] = EvidenceTrace(Fixture[CaseTable[c[2]].ticket])
       /\ log[5] = DecisionTrace(Fixture[CaseTable[c[2]].ticket], call[c].decision)
  BY <1>6
<1> QED BY <1>1, <1>2, <1>5, <1>9, <1>10, <1>11

LEMMA FirstTraceIs ==
  ASSUME NEW log \in Seq(TraceRows), NEW i \in DOMAIN log, NEW policy, log[i].policy = policy,
         \A k \in 1..(i - 1) : log[k].policy # policy
  PROVE  FirstTrace(log, policy) = i
<1>1. DOMAIN log = 1..Len(log) /\ Len(log) \in Nat
  BY LenProperties
<1>2. \A m \in DOMAIN log :
        (log[m].policy = policy /\ \A k \in 1..(m - 1) : log[k].policy # policy) => m = i
  BY <1>1
<1> QED BY <1>2 DEF FirstTrace

\* The loop takes what it planned, in the contract's order.
LEMMA IntactPlanning ==
  ASSUME EvalInv, NEW c \in Calls, Answered(c), Intact(c), c[2] \in Runnable
  PROVE  PlanningPasses(trace[c], CaseTable[c[2]].scenario)
<1>1. PICK log : log = trace[c]
  OBVIOUS
<1>2. PICK scenario : scenario = CaseTable[c[2]].scenario
  OBVIOUS
<1>3. PICK known : known = Fixture[CaseTable[c[2]].ticket]
  OBVIOUS
<1>4. known.scenario = scenario
  BY <1>2, <1>3, FixtureAssumption
<1>5. PICK order \in Seq(PolicyIds) : order = ActionOrder(scenario)
  <2>1. CASE scenario = "duplicate_charge"
    <3>1. ActionOrder(scenario) = <<"read.billing_evidence", "read.prior_financial_actions",
                                    "decision.refund_eligibility">>
      BY <2>1 DEF ActionOrder
    <3>2. ActionOrder(scenario) \in Seq(PolicyIds)
      BY <3>1 DEF PolicyIds
    <3> QED BY <3>2
  <2>2. CASE scenario # "duplicate_charge"
    <3>1. ActionOrder(scenario) = <<"read.credit_refund_evidence", "read.prior_financial_actions",
                                    "decision.credit_refund_eligibility">>
      BY <2>2 DEF ActionOrder
    <3>2. ActionOrder(scenario) \in Seq(PolicyIds)
      BY <3>1 DEF PolicyIds
    <3> QED BY <3>2
  <2> QED BY <2>1, <2>2
<1>6. /\ Len(order) = 3 /\ DOMAIN order = 1..3
      /\ order[2] = "read.prior_financial_actions"
      /\ IF scenario = "duplicate_charge"
         THEN order[1] = "read.billing_evidence" /\ order[3] = "decision.refund_eligibility"
         ELSE order[1] = "read.credit_refund_evidence"
                /\ order[3] = "decision.credit_refund_eligibility"
  BY <1>5 DEF ActionOrder
<1>7. PICK steps : steps = <<"plan.verify">> \o order
  OBVIOUS
<1>8. /\ steps \in Seq(PolicyIds) /\ Len(steps) = 4 /\ DOMAIN steps = 1..4
      /\ steps[1] = "plan.verify"
      /\ steps[2] = order[1] /\ steps[3] = order[2] /\ steps[4] = order[3]
  <2>1. <<"plan.verify">> \in Seq(PolicyIds) /\ Len(<<"plan.verify">>) = 1
    BY DEF PolicyIds
  <2>2. /\ steps \in Seq(PolicyIds) /\ Len(steps) = 1 + Len(order)
        /\ \A i \in 1..Len(steps) : steps[i] = IF i <= 1 THEN "plan.verify" ELSE order[i - 1]
    BY <1>5, <1>7, <2>1, ConcatProperties
  <2> QED BY <1>6, <2>2, LenProperties
<1>9. /\ log \in Seq(TraceRows) /\ Len(log) \in Nat /\ DOMAIN log = 1..Len(log)
      /\ 1..5 \subseteq DOMAIN log
      /\ log[1].policy = "plan.investigation"
      /\ log[2].policy = "plan.verify" /\ log[2].error = Absent
      /\ log[3] = EvidenceTrace(known)
      /\ log[4].policy = "read.prior_financial_actions"
      /\ log[5] = DecisionTrace(known, call[c].decision)
  BY <1>1, <1>3, IntactLog
<1>10. log[3].policy = order[1] /\ log[5].policy = order[3] /\ log[4].policy = order[2]
  BY <1>4, <1>6, <1>9 DEF EvidenceTrace, DecisionTrace, DecisionPolicy, Governed, Trace
<1>11. \A i \in 1..4 : log[i + 1].policy = steps[i]
  BY <1>8, <1>9, <1>10
<1>12. /\ order[1] # order[2] /\ order[1] # order[3] /\ order[2] # order[3]
       /\ \A i \in 1..3 : order[i] # "plan.verify" /\ order[i] # "plan.investigation"
  BY <1>6
<1>13. /\ FirstTrace(log, steps[1]) = 2 /\ FirstTrace(log, steps[2]) = 3
       /\ FirstTrace(log, steps[3]) = 4 /\ FirstTrace(log, steps[4]) = 5
  <2>1. FirstTrace(log, steps[1]) = 2
    <3>1. \A k \in 1..(2 - 1) : log[k].policy # steps[1]
      <4>1. \A k \in 1..(2 - 1) : k = 1
        OBVIOUS
      <4> QED BY <1>8, <1>9, <4>1
    <3>2. 2 \in DOMAIN log /\ log[2].policy = steps[1]
      BY <1>8, <1>9
    <3> QED BY <1>9, <3>1, <3>2, FirstTraceIs
  <2>2. FirstTrace(log, steps[2]) = 3
    <3>1. \A k \in 1..(3 - 1) : log[k].policy # steps[2]
      <4>1. \A k \in 1..(3 - 1) : k = 1 \/ k = 2
        OBVIOUS
      <4> QED BY <1>8, <1>9, <1>10, <1>12, <4>1
    <3>2. 3 \in DOMAIN log /\ log[3].policy = steps[2]
      BY <1>8, <1>9, <1>10
    <3> QED BY <1>9, <3>1, <3>2, FirstTraceIs
  <2>3. FirstTrace(log, steps[3]) = 4
    <3>1. \A k \in 1..(4 - 1) : log[k].policy # steps[3]
      <4>1. \A k \in 1..(4 - 1) : k = 1 \/ k = 2 \/ k = 3
        OBVIOUS
      <4> QED BY <1>8, <1>9, <1>10, <1>12, <4>1
    <3>2. 4 \in DOMAIN log /\ log[4].policy = steps[3]
      BY <1>8, <1>9, <1>10
    <3> QED BY <1>9, <3>1, <3>2, FirstTraceIs
  <2>4. FirstTrace(log, steps[4]) = 5
    <3>1. \A k \in 1..(5 - 1) : log[k].policy # steps[4]
      <4>1. \A k \in 1..(5 - 1) : k = 1 \/ k = 2 \/ k = 3 \/ k = 4
        OBVIOUS
      <4> QED BY <1>8, <1>9, <1>10, <1>12, <4>1
    <3>2. 5 \in DOMAIN log /\ log[5].policy = steps[4]
      BY <1>8, <1>9, <1>10
    <3> QED BY <1>9, <3>1, <3>2, FirstTraceIs
  <2> QED BY <2>1, <2>2, <2>3, <2>4
<1>14. \A i \in 1..(Len(steps) - 1) : FirstTrace(log, steps[i]) < FirstTrace(log, steps[i + 1])
  BY <1>8, <1>13
<1>15. \A i \in DOMAIN steps : \E k \in DOMAIN log : log[k].policy = steps[i]
  BY <1>8, <1>9, <1>11
<1>16. \E k \in DOMAIN log : log[k].policy = "plan.investigation"
  BY <1>9
<1>17. log[FirstTrace(log, steps[1])].error = Absent
  BY <1>9, <1>13
<1>18. PlanningPasses(log, scenario)
  BY <1>5, <1>7, <1>14, <1>15, <1>16, <1>17 DEF PlanningPasses
<1> QED BY <1>1, <1>2, <1>18

\* Evidence seen in some traces is seen in a log that has them.
LEMMA SeenInLog ==
  ASSUME NEW log \in Seq(TraceRows), NEW a \in DOMAIN log, NEW b \in DOMAIN log,
         NEW x, NEW y, log[a] = x, log[b] = y
  PROVE  EvidenceSeen(<<x, y>>) \subseteq EvidenceSeen(log)
<1> DEFINE Seen(row) == ReadCategories(row.policy)
                          \cup UNION {RefCategories(ref) : ref \in row.refs}
                          \cup (IF row.cites THEN {"policy"} ELSE {})
<1>1. EvidenceSeen(log) = UNION {Seen(log[i]) : i \in DOMAIN log}
  BY DEF EvidenceSeen
<1>2. EvidenceSeen(<<x, y>>) = UNION {Seen(<<x, y>>[i]) : i \in DOMAIN <<x, y>>}
  BY DEF EvidenceSeen
<1> HIDE DEF Seen
<1>3. DOMAIN <<x, y>> = {1, 2} /\ <<x, y>>[1] = x /\ <<x, y>>[2] = y
  OBVIOUS
<1>4. EvidenceSeen(<<x, y>>) = Seen(x) \cup Seen(y)
  BY <1>2, <1>3
<1>5. Seen(x) \subseteq EvidenceSeen(log) /\ Seen(y) \subseteq EvidenceSeen(log)
  BY <1>1
<1> QED BY <1>4, <1>5

\* What the assumption on the cases says of a decision the tools reach.
LEMMA ExpectedCase ==
  ASSUME NEW id \in Runnable, NEW known, known = Fixture[CaseTable[id].ticket],
         NEW reading \in Readings(known.charges), NEW executed \in SUBSET Actions,
         NEW decision, decision = Evaluate(known, reading, executed),
         decision.outcome = CaseTable[id].outcome
  PROVE  /\ CaseTable[id].evidence \subseteq
              EvidenceSeen(<<EvidenceTrace(known), DecisionTrace(known, decision)>>)
         /\ IF decision.action = NoAction
            THEN RoutingMatches(CaseTable[id].routing, "completed_no_action", {}, FALSE)
            ELSE RoutingMatches(CaseTable[id].routing, "awaiting_approval",
                   {[status |-> "pending", action |-> decision.action]}, FALSE)
BY ExpectationAssumption

\* The routing looks at the status and the action of a request only.
LEMMA RoutingOfRequest ==
  ASSUME NEW expected, NEW status, NEW x, NEW y, x.status = y.status, x.action = y.action,
         RoutingMatches(expected, status, {x}, FALSE)
  PROVE  RoutingMatches(expected, status, {y}, FALSE)
BY DEF RoutingMatches

\* Whatever the case expects, an intact run passes all the dimensions graded
\* before the compliance check.
LEMMA IntactDimensions ==
  ASSUME EvalInv, NEW j \in Jobs, job[j].pc = "grade", NEW c \in Calls, c = CallOf(j), Intact(c)
  PROVE  BlockingDimensions \ {"governance_compliance"} \subseteq Dimensions(j, Mutated(c))
<1>1. /\ Answered(c) /\ c[2] = Case(j) /\ c[2] \in Runnable /\ CaseOf(j) = CaseTable[c[2]]
      /\ ReadsAreCurrent(j) /\ IInv /\ evidence = Fixture
  BY GradingJob DEF GradingPcs, EvalInv, AgentInv, GradesAreExact, CallsAreOwn
<1>2. PICK case : case = CaseTable[c[2]]
  OBVIOUS
<1>3. PICK local : local = job[j]
  OBVIOUS
<1>4. PICK known : known = Fixture[case.ticket]
  OBVIOUS
<1>5. PICK decision : decision = call[c].decision
  OBVIOUS
<1>6. PICK w : w = run[c].workflow
  OBVIOUS
<1>7. PICK t \in Tickets : t = case.ticket
  BY <1>1, <1>2, RunnableCase
<1>8. PICK log : log = trace[c]
  OBVIOUS
<1>9. /\ w \in WorkflowIds /\ Exists(w) /\ workflow[w].ticket = t
      /\ \E executed \in SUBSET ExecutedOf(t) : Concluded(t, decision, executed)
      /\ IF decision.action = NoAction
         THEN /\ workflow[w].status = "completed_no_action"
              /\ \A v \in WorkflowIds : approval[v].run # c
         ELSE /\ approval[w].run = c /\ approval[w].action = decision.action
              /\ approval[w].status = "pending"
              /\ workflow[w].status = "awaiting_approval"
  BY <1>1, <1>2, <1>5, <1>6, <1>7, IntactRequest
<1>10. /\ local.ended = "completed" /\ local.traces = log
       /\ local.status = workflow[w].status
       /\ local.requests = {approval[v] : v \in {u \in WorkflowIds : approval[u].run = c}}
  <2>1. RunExists(c) /\ run[c].status = "completed" /\ local.pc = "grade" /\ local.pc \in GradingPcs
    BY <1>3 DEF Intact, RunExists, Absent, GradingPcs
  <2> QED BY <1>1, <1>3, <1>6, <1>8, <2>1 DEF ReadsAreCurrent
<1>11. /\ log \in Seq(TraceRows) /\ 1..5 \subseteq DOMAIN log
       /\ log[3] = EvidenceTrace(known) /\ log[5] = DecisionTrace(known, decision)
  BY <1>1, <1>2, <1>4, <1>5, <1>8, IntactLog
<1>12. decision.outcome = case.outcome
  BY <1>2, <1>5 DEF Intact
<1>13. PICK executed \in SUBSET Actions : \E reading \in Readings(known.charges) :
         decision = Evaluate(known, reading, executed)
  <2>1. ExecutedOf(t) \in SUBSET Actions
    BY <1>1, ExecutedActions DEF IInv
  <2> QED BY <1>1, <1>4, <1>7, <1>9, <2>1 DEF Concluded
<1>14. /\ case.evidence \subseteq EvidenceSeen(<<EvidenceTrace(known), DecisionTrace(known, decision)>>)
       /\ IF decision.action = NoAction
          THEN RoutingMatches(case.routing, "completed_no_action", {}, FALSE)
          ELSE RoutingMatches(case.routing, "awaiting_approval",
                 {[status |-> "pending", action |-> decision.action]}, FALSE)
  <2>1. PICK id \in Runnable : id = c[2]
    BY <1>1
  <2>2. known = Fixture[CaseTable[id].ticket] /\ case = CaseTable[id]
    BY <1>2, <1>4, <2>1
  <2>3. PICK reading \in Readings(known.charges) : decision = Evaluate(known, reading, executed)
    BY <1>13
  <2>4. decision.outcome = CaseTable[id].outcome
    BY <1>12, <2>2
  <2> QED BY <2>2, <2>3, <2>4, ExpectedCase
<1>15. ~Mutated(c)
  <2>1. ASSUME NEW v \in WorkflowIds, approval[v].run = c, mutation[v] # None
        PROVE  FALSE
    <3>1. v = w /\ approval[v].status # Absent
      BY <1>1, <1>6, <2>1, RunsRequest, CallParts
    <3>2. approval[v].status = "pending"
      BY <1>9, <2>1, <3>1
    <3> QED BY <1>1, <2>1, <3>2 DEF IInv, DecisionsAgree
  <2> QED BY <2>1 DEF Mutated
<1>16. RoutingMatches(case.routing, local.status, local.requests, FALSE)
  <2>1. CASE decision.action = NoAction
    <3>1. local.requests = {} /\ local.status = "completed_no_action"
      BY <1>9, <1>10, <2>1
    <3> QED BY <1>14, <2>1, <3>1
  <2>2. CASE decision.action # NoAction
    <3>1. \A v \in WorkflowIds : approval[v].run = c => v = w
      BY <1>1, <1>6, RunsRequest, CallParts
    <3>2. local.requests = {approval[w]} /\ local.status = "awaiting_approval"
      BY <1>9, <1>10, <2>2, <3>1
    <3>3. PICK y : y = approval[w]
      OBVIOUS
    <3>4. PICK x : x = [status |-> "pending", action |-> decision.action]
      OBVIOUS
    <3>5. x.status = y.status /\ x.action = y.action
      BY <1>9, <2>2, <3>3, <3>4
    <3>6. RoutingMatches(case.routing, "awaiting_approval", {x}, FALSE)
      BY <1>14, <2>2, <3>4
    <3>7. RoutingMatches(case.routing, "awaiting_approval", {y}, FALSE)
      BY <3>5, <3>6, RoutingOfRequest
    <3> QED BY <3>2, <3>3, <3>7
  <2> QED BY <2>1, <2>2
<1>17. case.evidence \subseteq EvidenceSeen(local.traces)
  BY <1>10, <1>11, <1>14, SeenInLog
<1>18. \E i \in DOMAIN local.traces : local.traces[i].cites
  <2>1. CompleteFixture(known)
    BY <1>1, <1>2, <1>4, FixtureAssumption, RunnableCase DEF CompleteFixture
  <2> QED BY <1>10, <1>11, <2>1, FixtureTrace
<1>19. PlanningPasses(local.traces, case.scenario)
  BY <1>1, <1>2, <1>8, <1>10, IntactPlanning
<1>20. local.status \in {"awaiting_approval", "completed_no_action", "rejected", "mock_executed"}
  BY <1>9, <1>10
<1> HIDE DEF Mutated, RunExists
<1>21. PICK mutated : mutated = Mutated(c) /\ mutated = FALSE
  BY <1>15
<1>22. {"outcome_correctness", "required_evidence", "policy_compliance", "approval_routing",
        "mutation_safety", "tool_planning", "draft_safety"} \subseteq Dimensions(j, mutated)
  BY <1>1, <1>2, <1>3, <1>5, <1>10, <1>12, <1>16, <1>17, <1>18, <1>19, <1>20, <1>21
     DEF Dimensions
<1> QED BY <1>21, <1>22 DEF BlockingDimensions

\* And the compliance check finds nothing: the log is the loop's, and what was
\* read of the requests agrees with the mutations.
LEMMA IntactComplies ==
  ASSUME EvalInv, NEW c \in Calls, Answered(c), Intact(c), NEW t, t = CaseTable[c[2]].ticket,
         NEW read, PendingIsApart(read), RequestsAreRead(c, read)
  PROVE  Failures(c, t, TRUE, trace[c], read, mutation) = {}
<1> DEFINE log == trace[c]
           mine == {w \in WorkflowIds : read[w].status # Absent /\ read[w].run = c}
           mutated == {w \in WorkflowIds : mutation[w] # None}
           seen == {w \in mutated : workflow[w].ticket = t \/ read[w].run = c}
<1>1. AgentInv /\ c \in RunIds /\ c # None /\ run[c].status = "completed"
  BY CallParts DEF EvalInv, Intact
<1>2. \A w \in WorkflowIds : read[w].run = c => read[w] = approval[w]
  BY DEF RequestsAreRead
<1>3. \A w \in WorkflowIds :
        /\ w \in mutated => approval[w].status = "approved"
        /\ approval[w].status = "approved" =>
             mutation[w] = approval[w].action /\ w \in mutated
  BY <1>1 DEF AgentInv, IInv, DecisionsAgree, Absent
<1>4. \A w \in mine : /\ w \in TracedApprovals(log, {"approval.create_request"})
                      /\ read[w].status = "approved" =>
                           w \in TracedApprovals(log, MutationPolicies)
  BY <1>1, <1>2 DEF AgentInv, LogsAreSound
<1>5. \A w \in seen : read[w].status = "approved" /\ read[w].action = mutation[w]
  <2> SUFFICES ASSUME NEW w \in seen
               PROVE  read[w].status = "approved" /\ read[w].action = mutation[w]
    OBVIOUS
  <2>1. CASE read[w].run = c
    BY <1>2, <1>3, <2>1
  <2>2. CASE workflow[w].ticket = t
    BY <2>2 DEF RequestsAreRead
  <2> QED BY <2>1, <2>2
<1>6. \A w \in mine \cap mutated : read[w].status = "approved"
  BY <1>5
<1>7. \A w \in mine : read[w].status = "approved" => w \in mutated
  BY <1>2, <1>3
<1>8. \A v, w \in mutated :
        mutation[v] = mutation[w] /\ workflow[v].ticket = workflow[w].ticket => v = w
  BY <1>1 DEF AgentInv, IInv, NoDoubleExecution
<1>9. FinancialFailures(c, t, log, read, mutation) = {}
  <2> DEFINE same(v, w, what) ==
               /\ v # w /\ Exists(v) /\ Exists(w)
               /\ workflow[v].ticket = workflow[w].ticket /\ what[v] = what[w]
             actions == [w \in WorkflowIds |-> read[w].action]
             pending == {w \in WorkflowIds : read[w].status = "pending"}
             approved == {w \in mine : read[w].status = "approved"}
  <2>1. {w \in pending : \E v \in pending : same(v, w, actions)} = {}
    BY DEF PendingIsApart
  <2>2. {w \in mutated : \E v \in mutated : same(v, w, mutation)} = {}
    BY <1>8
  <2>3. mine \ TracedApprovals(log, {"approval.create_request"}) = {}
    BY <1>4
  <2>4. /\ mine \cap pending \cap mutated = {}
        /\ {w \in mine \cap mutated : read[w].status = "rejected"} = {}
        /\ approved \ mutated = {}
    BY <1>6, <1>7
  <2>5. (approved \cap mutated) \ TracedApprovals(log, MutationPolicies) = {}
    BY <1>4
  <2>6. /\ {w \in seen : read[w].status = Absent} = {}
        /\ {w \in seen : read[w].status \notin {Absent, "approved"}} = {}
        /\ {w \in seen : read[w].status # Absent /\ read[w].action # mutation[w]} = {}
    BY <1>5 DEF Absent
  <2> QED BY <2>1, <2>2, <2>3, <2>4, <2>5, <2>6, Zenon DEF FinancialFailures
<1>10. log # << >> /\ \A i \in DOMAIN log : TraceFailures(log[i], TRUE) = {}
  <2>1. ~SettledRequest(c)
    <3> SUFFICES ASSUME NEW w \in WorkflowIds, approval[w].run = c,
                        approval[w].status \in {"rejected", "withdrawn"}
                 PROVE  FALSE
      BY DEF SettledRequest
    <3>1. w = run[c].workflow
      BY <1>1, RunsRequest DEF AgentInv
    <3>2. workflow[w].status \in {"rejected", "cancelled"}
      BY <1>1 DEF AgentInv, IInv, DecisionsAgree
    <3> QED BY <3>1, <3>2 DEF Intact
  <2> QED BY <1>1, <2>1 DEF AgentInv, LogsAreSound, ExcusedLog, CleanLog
<1> HIDE DEF log
<1>11. UNION {TraceFailures(log[i], TRUE) : i \in DOMAIN log} = {}
  BY <1>10
<1> QED BY <1>9, <1>10, <1>11 DEF Failures, log

-----------------------------------------------------------------------------
(* What each step of a request makes of its reads and its grade.           *)

\* A step that writes no table leaves every case as it is.
LEMMA QuietStep ==
  ASSUME Idling, NEW c
  PROVE  /\ UNCHANGED <<workflow, run, approval, mutation, call, trace>>
         /\ Intact(c)' = Intact(c) /\ Answered(c)' = Answered(c) /\ RunExists(c)' = RunExists(c)
         /\ \A read : PendingIsApart(read)' = PendingIsApart(read)
         /\ \A read : RequestsAreRead(c, read)' = RequestsAreRead(c, read)
         /\ \A result, needed : ExactGrade(c, result, needed)' = ExactGrade(c, result, needed)
<1>1. UNCHANGED <<workflow, run, approval, mutation, call, trace>>
  BY DEF Idling, tables
<1>2. Intact(c)' = Intact(c) /\ Answered(c)' = Answered(c) /\ RunExists(c)' = RunExists(c)
  BY <1>1 DEF Intact, Answered, RunExists
<1>3. \A read : PendingIsApart(read)' = PendingIsApart(read)
  BY <1>1 DEF PendingIsApart, Exists
<1>4. \A read : RequestsAreRead(c, read)' = RequestsAreRead(c, read)
  BY <1>1 DEF RequestsAreRead
<1>5. \A result, needed : ExactGrade(c, result, needed)' = ExactGrade(c, result, needed)
  BY <1>1, <1>2 DEF ExactGrade
<1> QED BY <1>1, <1>2, <1>3, <1>4, <1>5

\* The traces, then the status of the workflow, then the requests are those of the
\* run, unless the case has been touched.
LEMMA ReadTracesExact ==
  ASSUME EvalInv, NEW j \in Jobs, ReadTraces(j)
  PROVE  ReadsAreCurrent(j)' /\ GradeIsExact(j)'
<1>1. PICK c : c = CallOf(j)
  OBVIOUS
<1>2. job[j].pc = "traces" /\ Idling /\ job[j] \in JobRecords /\ JobsTypeOK /\ ReadsAreCurrent(j)
  BY DEF ReadTraces, Quiet, EvalInv, JobsTypeOK, GradesAreExact
<1>3. PICK local : local = [job[j] EXCEPT !.pc = "workflow", !.traces = trace[c]] /\ JobGoes(j, local)
  BY <1>1, ReadTracesGoes
<1>4. /\ local.pc = "workflow" /\ local.traces = trace[c] /\ local.ended = job[j].ended
      /\ local.workflow = job[j].workflow /\ local.todo = job[j].todo
  BY <1>2, <1>3 DEF JobRecords
<1>5. job'[j] = local /\ CallOf(j)' = c
  BY <1>1, <1>2, <1>3, <1>4, JobGoesEffect, SameCase
<1>6. ReadsAreCurrent(j)'
  BY <1>1, <1>2, <1>4, <1>5, QuietStep DEF ReadsAreCurrent
<1> QED BY <1>4, <1>5, <1>6 DEF GradeIsExact, StoringPcs

LEMMA ReadWorkflowExact ==
  ASSUME EvalInv, NEW j \in Jobs, ReadWorkflow(j)
  PROVE  ReadsAreCurrent(j)' /\ GradeIsExact(j)'
<1>1. PICK c : c = CallOf(j)
  OBVIOUS
<1>2. job[j].pc = "workflow" /\ Idling /\ job[j] \in JobRecords /\ JobsTypeOK /\ ReadsAreCurrent(j)
  BY DEF ReadWorkflow, Quiet, EvalInv, JobsTypeOK, GradesAreExact
<1>3. PICK status : status = workflow[job[j].workflow].status
  OBVIOUS
<1>4. PICK local : /\ local = [job[j] EXCEPT !.pc = "requests", !.workflow = None, !.status = status]
                   /\ JobGoes(j, local)
  BY <1>3, ReadWorkflowGoes
<1>5. /\ local.pc = "requests" /\ local.traces = job[j].traces /\ local.ended = job[j].ended
      /\ local.status = status /\ local.todo = job[j].todo
  BY <1>2, <1>4 DEF JobRecords
<1>6. job'[j] = local /\ CallOf(j)' = c
  BY <1>1, <1>2, <1>4, <1>5, JobGoesEffect, SameCase
<1>7. Intact(c) => status = workflow[run[c].workflow].status
  BY <1>1, <1>2, <1>3 DEF ReadsAreCurrent, Intact, RunExists, Absent
<1>8. ReadsAreCurrent(j)'
  BY <1>1, <1>2, <1>5, <1>6, <1>7, QuietStep DEF ReadsAreCurrent, GradingPcs
<1> QED BY <1>5, <1>6, <1>8 DEF GradeIsExact, StoringPcs

LEMMA ReadRequestsExact ==
  ASSUME EvalInv, NEW j \in Jobs, ReadRequests(j)
  PROVE  ReadsAreCurrent(j)' /\ GradeIsExact(j)'
<1>1. PICK c : c = CallOf(j)
  OBVIOUS
<1>2. job[j].pc = "requests" /\ Idling /\ job[j] \in JobRecords /\ JobsTypeOK /\ ReadsAreCurrent(j)
  BY DEF ReadRequests, Quiet, EvalInv, JobsTypeOK, GradesAreExact
<1>3. PICK requests : requests = {approval[w] : w \in {v \in WorkflowIds : approval[v].run = c}}
  OBVIOUS
<1>4. PICK local : local = [job[j] EXCEPT !.pc = "grade", !.requests = requests] /\ JobGoes(j, local)
  BY <1>1, <1>3, ReadRequestsGoes
<1>5. /\ local.pc = "grade" /\ local.traces = job[j].traces /\ local.ended = job[j].ended
      /\ local.status = job[j].status /\ local.requests = requests /\ local.todo = job[j].todo
  BY <1>2, <1>4 DEF JobRecords
<1>6. job'[j] = local /\ CallOf(j)' = c
  BY <1>1, <1>2, <1>4, <1>5, JobGoesEffect, SameCase
<1>7. requests = {approval'[w] : w \in {v \in WorkflowIds : approval'[v].run = c}}
  BY <1>2, <1>3, QuietStep
<1>8. ReadsAreCurrent(j)'
  BY <1>1, <1>2, <1>5, <1>6, <1>7, QuietStep DEF ReadsAreCurrent, GradingPcs
<1> QED BY <1>5, <1>6, <1>8 DEF GradeIsExact, StoringPcs

\* The grade without its last dimension.
LEMMA ReadMutationsExact ==
  ASSUME EvalInv, NEW j \in Jobs, ReadMutations(j)
  PROVE  ReadsAreCurrent(j)' /\ GradeIsExact(j)'
<1>1. PICK c : c = CallOf(j)
  OBVIOUS
<1>2. job[j].pc = "grade" /\ Idling /\ job[j] \in JobRecords /\ JobsTypeOK
  BY DEF ReadMutations, Quiet, EvalInv, JobsTypeOK
<1>3. /\ c \in Calls /\ c[2] = Case(j) /\ c[2] \in Runnable /\ CaseOf(j) = CaseTable[c[2]]
      /\ Answered(c)
  BY <1>1, <1>2, GradingJob DEF GradingPcs
<1>4. PICK passed \in DimensionSets : passed = Dimensions(j, Mutated(c))
  BY DimensionsType
<1>5. "outcome_correctness" \in passed => call[c].decision.outcome = CaseTable[c[2]].outcome
  BY <1>1, <1>3, <1>4 DEF Dimensions
<1>6. Intact(c) => BlockingDimensions \ {"governance_compliance"} \subseteq passed
  BY <1>1, <1>2, <1>3, <1>4, IntactDimensions
<1>7. PICK result : result = Graded(passed)
  OBVIOUS
<1>8. PICK needed : needed = BlockingDimensions \ {"governance_compliance"}
  OBVIOUS
<1>9. ExactGrade(c, result, needed)
  BY <1>3, <1>5, <1>6, <1>7, <1>8, RunnableCase DEF ExactGrade
<1>10. PICK local : /\ local = [job[j] EXCEPT !.pc = "comply_traces", !.traces = << >>,
                                   !.status = Absent, !.requests = {}, !.result = result]
                    /\ JobGoes(j, local)
  BY <1>1, <1>4, <1>7, ReadMutationsGoes
<1>11. local.pc = "comply_traces" /\ local.result = result /\ local.todo = job[j].todo
  BY <1>2, <1>10 DEF JobRecords
<1>12. job'[j] = local /\ CallOf(j)' = c
  BY <1>1, <1>2, <1>10, <1>11, JobGoesEffect, SameCase
<1>13. ExactGrade(c, result, needed)'
  BY <1>2, <1>9, QuietStep
<1>14. GradeIsExact(j)'
  <2>1. result \in GradedResults
    BY <1>4, <1>7, ResultTypes
  <2> QED BY <1>8, <1>11, <1>12, <1>13, <2>1 DEF GradeIsExact, StoringPcs
<1>15. ReadsAreCurrent(j)'
  BY <1>11, <1>12 DEF ReadsAreCurrent
<1> QED BY <1>14, <1>15

\* The compliance check finds the run, or the case has been touched.
LEMMA ComplyTracesExact ==
  ASSUME EvalInv, NEW j \in Jobs, ComplyTraces(j)
  PROVE  ReadsAreCurrent(j)' /\ GradeIsExact(j)'
<1>1. PICK c : c = CallOf(j)
  OBVIOUS
<1>2. /\ job[j].pc = "comply_traces" /\ Idling /\ job[j] \in JobRecords /\ JobsTypeOK
      /\ GradeIsExact(j)
  BY DEF ComplyTraces, Quiet, EvalInv, JobsTypeOK, GradesAreExact
<1>3. PICK result : result = job[j].result
  OBVIOUS
<1>4. PICK needed : needed = BlockingDimensions \ {"governance_compliance"}
  OBVIOUS
<1>5. result \in GradedResults /\ ExactGrade(c, result, needed)
  BY <1>1, <1>2, <1>3, <1>4 DEF GradeIsExact
<1>6. CASE RunExists(c)
  <2>1. PICK local : /\ local = [job[j] EXCEPT !.pc = "comply_requests", !.traces = trace[c]]
                     /\ JobGoes(j, local)
    BY <1>1, <1>6, ComplyTracesGoes
  <2>2. /\ local.pc = "comply_requests" /\ local.traces = trace[c] /\ local.result = result
        /\ local.todo = job[j].todo
    BY <1>2, <1>3, <2>1 DEF JobRecords
  <2>3. job'[j] = local /\ CallOf(j)' = c
    BY <1>1, <1>2, <2>1, <2>2, JobGoesEffect, SameCase
  <2>4. ExactGrade(c, result, needed)'
    BY <1>2, <1>5, QuietStep
  <2>5. GradeIsExact(j)'
    BY <1>4, <1>5, <2>2, <2>3, <2>4 DEF GradeIsExact, StoringPcs
  <2>6. ReadsAreCurrent(j)'
    BY <1>2, <2>2, <2>3, QuietStep DEF ReadsAreCurrent
  <2> QED BY <2>5, <2>6
<1>7. CASE ~RunExists(c)
  <2>1. PICK local : local = [job[j] EXCEPT !.pc = "save"] /\ JobGoes(j, local)
    BY <1>1, <1>7, ComplyTracesGoes
  <2>2. local.pc = "save" /\ local.result = result /\ local.todo = job[j].todo
    BY <1>2, <1>3, <2>1 DEF JobRecords
  <2>3. job'[j] = local /\ CallOf(j)' = c
    BY <1>1, <1>2, <2>1, <2>2, JobGoesEffect, SameCase
  <2>4. ~Intact(c)
    BY <1>7 DEF Intact, RunExists, Absent
  <2>5. ExactGrade(c, result, BlockingDimensions)
    BY <1>5, <2>4 DEF ExactGrade
  <2>6. ExactGrade(c, result, BlockingDimensions)'
    BY <1>2, <2>5, QuietStep
  <2>7. GradeIsExact(j)'
    BY <2>2, <2>3, <2>6 DEF GradeIsExact
  <2>8. ReadsAreCurrent(j)'
    BY <2>2, <2>3 DEF ReadsAreCurrent, GradingPcs
  <2> QED BY <2>7, <2>8
<1> QED BY <1>6, <1>7

LEMMA ComplyRequestsExact ==
  ASSUME EvalInv, NEW j \in Jobs, ComplyRequests(j)
  PROVE  ReadsAreCurrent(j)' /\ GradeIsExact(j)'
<1>1. PICK c : c = CallOf(j)
  OBVIOUS
<1>2. /\ job[j].pc = "comply_requests" /\ Idling /\ job[j] \in JobRecords /\ JobsTypeOK
      /\ GradeIsExact(j) /\ ReadsAreCurrent(j)
  BY DEF ComplyRequests, Quiet, EvalInv, JobsTypeOK, GradesAreExact
<1>3. PICK result : result = job[j].result
  OBVIOUS
<1>4. PICK needed : needed = BlockingDimensions \ {"governance_compliance"}
  OBVIOUS
<1>5. PICK read : read = approval
  OBVIOUS
<1>6. PICK local : local = [job[j] EXCEPT !.pc = "comply", !.read = read] /\ JobGoes(j, local)
  BY <1>5, ComplyRequestsGoes
<1>7. /\ local.pc = "comply" /\ local.read = read /\ local.traces = job[j].traces
      /\ local.result = result /\ local.todo = job[j].todo
  BY <1>2, <1>3, <1>6 DEF JobRecords
<1>8. job'[j] = local /\ CallOf(j)' = c
  BY <1>1, <1>2, <1>6, <1>7, JobGoesEffect, SameCase
<1>9. result \in GradedResults /\ ExactGrade(c, result, needed)'
  <2>1. result \in GradedResults /\ ExactGrade(c, result, needed)
    BY <1>1, <1>2, <1>3, <1>4 DEF GradeIsExact
  <2> QED BY <1>2, <2>1, QuietStep
<1>10. GradeIsExact(j)'
  BY <1>4, <1>7, <1>8, <1>9 DEF GradeIsExact, StoringPcs
<1>11. PendingIsApart(read)' /\ RequestsAreRead(c, read)'
  <2>1. c \in Calls
    BY <1>1, <1>2, GradingJob DEF GradingPcs
  <2>2. PendingIsApart(read) /\ RequestsAreRead(c, read)
    BY <1>5, <2>1, ReadIsApart, RequestsRead
  <2> QED BY <1>2, <2>2, QuietStep
<1>12. Intact(c)' => job[j].traces = trace'[c]
  BY <1>1, <1>2, QuietStep DEF ReadsAreCurrent, GradingPcs
<1>13. ReadsAreCurrent(j)'
  BY <1>7, <1>8, <1>11, <1>12 DEF ReadsAreCurrent
<1> QED BY <1>10, <1>13

\* The last dimension.
LEMMA ComplyExact ==
  ASSUME EvalInv, NEW j \in Jobs, Comply(j)
  PROVE  ReadsAreCurrent(j)' /\ GradeIsExact(j)'
<1>1. PICK c : c = CallOf(j)
  OBVIOUS
<1>2. /\ job[j].pc = "comply" /\ Idling /\ job[j] \in JobRecords /\ JobsTypeOK
      /\ GradeIsExact(j) /\ ReadsAreCurrent(j)
  BY DEF Comply, Quiet, EvalInv, JobsTypeOK, GradesAreExact
<1>3. /\ c \in Calls /\ c[2] = Case(j) /\ c[2] \in Runnable /\ CaseOf(j) = CaseTable[c[2]]
      /\ Answered(c)
  BY <1>1, <1>2, GradingJob DEF GradingPcs
<1>4. PICK old : old = job[j].result
  OBVIOUS
<1>5. PICK passed \in DimensionSets : passed = Complied(j)
  BY ComplyGoes
<1>6. PICK read : read = job[j].read
  OBVIOUS
<1>7. PICK t : t = CaseOf(j).ticket
  OBVIOUS
<1>8. PICK log : log = job[j].traces
  OBVIOUS
<1>9. passed = old.passed \cup (IF Failures(c, t, TRUE, log, read, mutation) = {}
                                THEN {"governance_compliance"} ELSE {})
  BY <1>1, <1>4, <1>5, <1>6, <1>7, <1>8 DEF Complied
<1>10. old \in GradedResults /\ ExactGrade(c, old, BlockingDimensions \ {"governance_compliance"})
  BY <1>1, <1>2, <1>4 DEF GradeIsExact
<1>11. Intact(c) => "governance_compliance" \in passed
  <2> SUFFICES ASSUME Intact(c) PROVE "governance_compliance" \in passed
    OBVIOUS
  <2>1. log = trace[c] /\ PendingIsApart(read) /\ RequestsAreRead(c, read)
    BY <1>1, <1>2, <1>6, <1>8 DEF ReadsAreCurrent, GradingPcs
  <2>2. Failures(c, t, TRUE, log, read, mutation) = {}
    BY <1>3, <1>7, <2>1, IntactComplies
  <2> QED BY <1>9, <2>2
<1>12. PICK result : result = Graded(passed)
  OBVIOUS
<1>13. ExactGrade(c, result, BlockingDimensions)
  <2>1. old \notin BlockedResults
    <3>1. \A code : Blocked(code).status = "blocked"
      BY DEF Blocked
    <3>2. \A set : Graded(set).status # "blocked"
      BY DEF Graded
    <3> QED BY <1>10, <3>1, <3>2 DEF BlockedResults, GradedResults
  <2>2. PICK before \in DimensionSets :
          /\ old = Graded(before)
          /\ "outcome_correctness" \in before =>
               call[c].decision.outcome = CaseTable[c[2]].outcome
          /\ Intact(c) => BlockingDimensions \ {"governance_compliance"} \subseteq before
    BY <1>10, <2>1 DEF ExactGrade
  <2>3. old.passed = before
    BY <2>2, ResultTypes
  <2>4. before \subseteq passed /\ passed \subseteq before \cup {"governance_compliance"}
    BY <1>9, <2>3
  <2>5. "outcome_correctness" \in passed =>
          call[c].decision.outcome = CaseTable[c[2]].outcome
    BY <2>2, <2>4
  <2>6. Intact(c) => BlockingDimensions \subseteq passed
    BY <1>11, <2>2, <2>4
  <2> QED BY <1>3, <1>12, <2>5, <2>6, RunnableCase DEF ExactGrade
<1>14. PICK local : /\ local = [job[j] EXCEPT !.pc = "save", !.traces = << >>,
                                              !.read = NoRequests, !.result = result]
                    /\ JobGoes(j, local)
  BY <1>5, <1>12, ComplyGoes
<1>15. local.pc = "save" /\ local.result = result /\ local.todo = job[j].todo
  BY <1>2, <1>14 DEF JobRecords
<1>16. job'[j] = local /\ CallOf(j)' = c
  BY <1>1, <1>2, <1>14, <1>15, JobGoesEffect, SameCase
<1>17. ExactGrade(c, result, BlockingDimensions)'
  BY <1>2, <1>13, QuietStep
<1>18. GradeIsExact(j)'
  BY <1>15, <1>16, <1>17 DEF GradeIsExact
<1>19. ReadsAreCurrent(j)'
  BY <1>15, <1>16 DEF ReadsAreCurrent, GradingPcs
<1> QED BY <1>18, <1>19

\* A case that is opened is run, or blocked at once.
LEMMA OpenCaseExact ==
  ASSUME EvalInv, NEW j \in Jobs, OpenCase(j)
  PROVE  ReadsAreCurrent(j)' /\ GradeIsExact(j)'
<1>1. PICK gate : gate = CaseGate(CaseOf(j))
  OBVIOUS
<1>2. PICK local : /\ local = [NoJob EXCEPT !.pc = IF gate = None THEN "loop" ELSE "save",
                                            !.todo = job[j].todo, !.result = gate]
                   /\ JobGoes(j, local)
  BY <1>1, OpenCaseGoes
<1>3. local.pc = (IF gate = None THEN "loop" ELSE "save") /\ local.result = gate
  BY <1>2 DEF NoJob
<1>4. job'[j] = local
  BY <1>2, JobGoesEffect DEF EvalInv
<1>5. gate # None => ExactGrade(CallOf(j), gate, BlockingDimensions)'
  BY <1>1, GateType DEF ExactGrade
<1>6. ReadsAreCurrent(j)'
  BY <1>3, <1>4 DEF ReadsAreCurrent, GradingPcs
<1>7. GradeIsExact(j)'
  <2>1. gate # None => gate \in BlockedResults
    BY <1>1, GateType
  <2> QED BY <1>3, <1>4, <2>1 DEF GradeIsExact, StoringPcs, ExactGrade
<1> QED BY <1>6, <1>7

\* What a request takes over from its call is what the run says.
LEMMA FollowExact ==
  ASSUME EvalInv, AgentInv', NEW j \in Jobs, Loop(j) \/ LoopEscapes(j)
  PROVE  ReadsAreCurrent(j)' /\ GradeIsExact(j)'
<1>1. PICK c \in Calls : c = CallOf(j)
  BY LoopingJob DEF Loop, LoopEscapes
<1>2. Follow(j, c) /\ job[j].pc = "loop" /\ JobsTypeOK /\ job[j] \in JobRecords
  BY <1>1 DEF Loop, LoopEscapes, EvalInv, JobsTypeOK
<1>3. PICK row : row = run'[c]
  OBVIOUS
<1>4. CASE call'[c].pc = "answered"
  <2>1. PICK local : /\ local = [job[j] EXCEPT !.pc = "traces", !.ended = row.status,
                                               !.workflow = row.workflow]
                     /\ JobGoes(j, local)
    BY <1>2, <1>3, <1>4, FollowGoes
  <2>2. /\ local.pc = "traces" /\ local.ended = row.status /\ local.workflow = row.workflow
        /\ local.todo = job[j].todo
    BY <1>2, <2>1 DEF JobRecords
  <2>3. job'[j] = local /\ CallOf(j)' = c
    BY <1>1, <1>2, <2>1, <2>2, JobGoesEffect, SameCase
  <2> QED BY <1>3, <2>2, <2>3 DEF ReadsAreCurrent, GradeIsExact, StoringPcs
<1>5. CASE call'[c].pc # "answered"
  <2>1. PICK local : /\ local.pc \in {"raised", "loop"}
                     /\ JobGoes(j, local)
    <3>1. PICK ended : ended = [job[j] EXCEPT !.pc = "raised", !.cause = call'[c].cause]
      OBVIOUS
    <3>2. ended.pc = "raised"
      BY <1>2, <3>1 DEF JobRecords
    <3>3. JobGoes(j, ended) \/ JobGoes(j, job[j])
      BY <1>2, <1>5, <3>1, FollowGoes
    <3> QED BY <1>2, <3>2, <3>3
  <2>2. job'[j] = local
    BY <1>2, <2>1, JobGoesEffect
  <2> QED BY <2>1, <2>2 DEF ReadsAreCurrent, GradeIsExact, GradingPcs, StoringPcs
<1> QED BY <1>4, <1>5

\* Storing keeps the grade.
LEMMA StoringExact ==
  ASSUME EvalInv, NEW j \in Jobs, DeleteResults(j) \/ InsertResult(j) \/ AddSnapshot(j)
  PROVE  ReadsAreCurrent(j)' /\ GradeIsExact(j)'
<1>1. PICK c : c = CallOf(j)
  OBVIOUS
<1>2. /\ job[j].pc \in StoringPcs /\ Idling /\ job[j] \in JobRecords /\ JobsTypeOK
      /\ GradeIsExact(j)
  BY DEF DeleteResults, InsertResult, AddSnapshot, StoringPcs, Quiet, EvalInv, JobsTypeOK,
         GradesAreExact
<1>3. PICK result : result = job[j].result
  OBVIOUS
<1>4. ExactGrade(c, result, BlockingDimensions)'
  <2>1. ExactGrade(c, result, BlockingDimensions)
    BY <1>1, <1>2, <1>3 DEF GradeIsExact
  <2> QED BY <1>2, <2>1, QuietStep
<1>5. ASSUME NEW local, JobGoes(j, local), local.pc \in StoringPcs, local.result = result,
             local.todo = job[j].todo
      PROVE  ReadsAreCurrent(j)' /\ GradeIsExact(j)'
  <2>1. job'[j] = local /\ CallOf(j)' = c
    BY <1>1, <1>2, <1>5, JobGoesEffect, SameCase
  <2> QED BY <1>4, <1>5, <2>1 DEF ReadsAreCurrent, GradeIsExact, GradingPcs, StoringPcs
<1>6. ASSUME NEW local, JobGoes(j, local), local.pc \in {"raised", "case"}
      PROVE  ReadsAreCurrent(j)' /\ GradeIsExact(j)'
  <2>1. job'[j] = local
    BY <1>2, <1>6, JobGoesEffect
  <2> QED BY <1>6, <2>1 DEF ReadsAreCurrent, GradeIsExact, GradingPcs, StoringPcs
<1>7. CASE DeleteResults(j)
  <2>1. PICK sees \in ResultSets : JobGoes(j, [job[j] EXCEPT !.pc = "insert", !.sees = sees])
    BY <1>7, DeleteResultsGoes
  <2>2. PICK local : local = [job[j] EXCEPT !.pc = "insert", !.sees = sees]
    OBVIOUS
  <2>3. local.pc = "insert" /\ local.result = result /\ local.todo = job[j].todo
    BY <1>2, <1>3, <2>2 DEF JobRecords
  <2> QED BY <1>5, <2>1, <2>2, <2>3 DEF StoringPcs
<1>8. CASE InsertResult(j)
  <2>1. CASE JobGoes(j, [job[j] EXCEPT !.pc = "snapshot", !.sees = {}])
    <3>1. PICK local : local = [job[j] EXCEPT !.pc = "snapshot", !.sees = {}]
      OBVIOUS
    <3>2. local.pc = "snapshot" /\ local.result = result /\ local.todo = job[j].todo
      BY <1>2, <1>3, <3>1 DEF JobRecords
    <3> QED BY <1>5, <2>1, <3>1, <3>2 DEF StoringPcs
  <2>2. CASE JobGoes(j, [job[j] EXCEPT !.pc = "raised", !.sees = {}, !.cause = "reset"])
    <3>1. PICK local : local = [job[j] EXCEPT !.pc = "raised", !.sees = {}, !.cause = "reset"]
      OBVIOUS
    <3>2. local.pc = "raised"
      BY <1>2, <3>1 DEF JobRecords
    <3> QED BY <1>6, <2>2, <3>1, <3>2
  <2> QED BY <1>8, <2>1, <2>2, InsertResultGoes
<1>9. CASE AddSnapshot(j)
  <2>1. PICK todo \in CaseSeqs : JobGoes(j, [NoJob EXCEPT !.pc = "case", !.todo = todo])
    BY <1>9, AddSnapshotGoes
  <2>2. PICK local : local = [NoJob EXCEPT !.pc = "case", !.todo = todo]
    OBVIOUS
  <2>3. local.pc = "case"
    BY <2>2 DEF NoJob
  <2> QED BY <1>6, <2>1, <2>2, <2>3
<1> QED BY <1>7, <1>8, <1>9

\* The steps that begin and end a request.
LEMMA IdleExact ==
  ASSUME EvalInv, NEW j \in Jobs, Begin(j) \/ LoopConflict(j) \/ Complete(j) \/ JobDies(j)
  PROVE  ReadsAreCurrent(j)' /\ GradeIsExact(j)'
<1>1. JobsTypeOK /\ job[j] \in JobRecords
  BY DEF EvalInv, JobsTypeOK
<1>2. ASSUME NEW local, JobGoes(j, local), local.pc \in {"case", "raised", "done", "dead"}
      PROVE  ReadsAreCurrent(j)' /\ GradeIsExact(j)'
  <2>1. job'[j] = local
    BY <1>1, <1>2, JobGoesEffect
  <2> QED BY <1>2, <2>1 DEF ReadsAreCurrent, GradeIsExact, GradingPcs, StoringPcs
<1>3. CASE Begin(j)
  <2>1. PICK todo \in CaseSeqs : JobGoes(j, [job[j] EXCEPT !.pc = "case", !.todo = todo])
    BY <1>3, BeginGoes
  <2>2. PICK begun : begun = [job[j] EXCEPT !.pc = "case", !.todo = todo]
    OBVIOUS
  <2>3. begun.pc = "case"
    BY <1>1, <2>2 DEF JobRecords
  <2> QED BY <1>2, <2>1, <2>2, <2>3
<1>4. CASE LoopConflict(j)
  <2>1. PICK ended : ended = [job[j] EXCEPT !.pc = "raised", !.cause = "conflict"]
    OBVIOUS
  <2>2. ended.pc = "raised"
    BY <1>1, <2>1 DEF JobRecords
  <2> QED BY <1>2, <1>4, <2>1, <2>2, LoopConflictGoes
<1>5. CASE Complete(j) \/ JobDies(j)
  <2>1. PICK pc \in {"done", "dead"} : JobGoes(j, [job[j] EXCEPT !.pc = pc])
    BY <1>5, EndGoes DEF Complete, JobDies, To, JobPcs
  <2>2. PICK ended : ended = [job[j] EXCEPT !.pc = pc]
    OBVIOUS
  <2>3. ended.pc = pc
    BY <1>1, <2>2 DEF JobRecords
  <2> QED BY <1>2, <2>1, <2>2, <2>3
<1> QED BY <1>3, <1>4, <1>5

\* A step of a request changes nobody else's variables.
LEMMA OneJobGoes ==
  ASSUME EvalInv, AgentInv', NEW j \in Jobs,
         Begin(j) \/ EvalStep(j) \/ LoopEscapes(j) \/ JobDies(j)
  PROVE  \A i \in Jobs \ {j} : job'[i] = job[i]
<1>1. JobsTypeOK
  BY DEF EvalInv
<1>2. ASSUME NEW local, JobGoes(j, local)
      PROVE  \A i \in Jobs \ {j} : job'[i] = job[i]
  BY <1>1, <1>2, JobGoesEffect
<1>3. CASE Begin(j) \/ OpenCase(j) \/ LoopConflict(j)
  BY <1>2, <1>3, BeginGoes, OpenCaseGoes, LoopConflictGoes
<1>4. CASE Loop(j) \/ LoopEscapes(j)
  <2>1. PICK c \in Calls : c = CallOf(j)
    BY <1>4, LoopingJob DEF Loop, LoopEscapes
  <2>2. Follow(j, c)
    BY <1>4, <2>1 DEF Loop, LoopEscapes
  <2> QED BY <1>2, <2>2, FollowGoes
<1>5. CASE \/ ReadTraces(j) \/ ReadWorkflow(j) \/ ReadRequests(j) \/ ReadMutations(j)
           \/ ComplyTraces(j) \/ ComplyRequests(j) \/ Comply(j)
  BY <1>2, <1>5, ReadTracesGoes, ReadWorkflowGoes, ReadRequestsGoes, ReadMutationsGoes,
     ComplyTracesGoes, ComplyRequestsGoes, ComplyGoes
<1>6. CASE DeleteResults(j) \/ InsertResult(j) \/ AddSnapshot(j)
  BY <1>2, <1>6, DeleteResultsGoes, InsertResultGoes, AddSnapshotGoes
<1>7. CASE Complete(j) \/ JobDies(j)
  BY <1>2, <1>7, EndGoes DEF Complete, JobDies, To, JobPcs
<1> QED BY <1>3, <1>4, <1>5, <1>6, <1>7 DEF EvalStep

\* Every step keeps what was read and what was graded.
LEMMA GradesStayExact ==
  ASSUME EvalInv, AgentInv', LoopInv', EvalNext
  PROVE  GradesAreExact'
<1>1. \A c \in Calls : snapshots[c] # None => ExactGrade(c, snapshots[c], BlockingDimensions)
  BY DEF EvalInv, GradesAreExact
<1>2. ASSUME NEW c \in Calls, snapshots'[c] = snapshots[c]
      PROVE  (snapshots[c] # None => ExactGrade(c, snapshots[c], BlockingDimensions))'
  <2>1. PICK result : result = snapshots[c]
    OBVIOUS
  <2>2. result # None => ExactGrade(c, result, BlockingDimensions)
    BY <1>1, <2>1
  <2>3. result # None => ExactGrade(c, result, BlockingDimensions)'
    BY <2>2, GradeStaysExact
  <2> QED BY <1>2, <2>1, <2>3
<1>3. CASE \E j \in Jobs : Begin(j) \/ EvalStep(j) \/ LoopEscapes(j) \/ JobDies(j)
  <2>1. PICK j \in Jobs : Begin(j) \/ EvalStep(j) \/ LoopEscapes(j) \/ JobDies(j)
    BY <1>3
  <2>2. ReadsAreCurrent(j)' /\ GradeIsExact(j)'
    BY <2>1, OpenCaseExact, FollowExact, StoringExact, IdleExact, ReadTracesExact,
       ReadWorkflowExact, ReadRequestsExact, ReadMutationsExact, ComplyTracesExact,
       ComplyRequestsExact, ComplyExact DEF EvalStep
  <2>3. \A i \in Jobs \ {j} : ReadsAreCurrent(i)' /\ GradeIsExact(i)'
    BY <2>1, OneJobGoes, KeptReads
  <2>4. \A c \in Calls : (snapshots[c] # None => ExactGrade(c, snapshots[c], BlockingDimensions))'
    <3>1. CASE snapshots' = snapshots
      BY <1>2, <3>1
    <3>2. CASE AddSnapshot(j)
      <4>1. PICK d : d = CallOf(j)
        OBVIOUS
      <4>2. PICK result : result = job[j].result
        OBVIOUS
      <4>3. snapshots' = [snapshots EXCEPT ![d] = result]
        BY <3>2, <4>1, <4>2 DEF AddSnapshot
      <4>4. d \in Calls /\ snapshots \in [Calls -> BlockedResults \cup GradedResults \cup {None}]
        BY <3>2, <4>1, StoringJob DEF AddSnapshot, StoringPcs, EvalInv, JobsTypeOK
      <4>5. ExactGrade(d, result, BlockingDimensions)
        BY <3>2, <4>1, <4>2 DEF AddSnapshot, StoringPcs, EvalInv, GradesAreExact, GradeIsExact
      <4>6. ExactGrade(d, result, BlockingDimensions)'
        BY <4>4, <4>5, GradeStaysExact
      <4>7. snapshots'[d] = result
        BY <4>3, <4>4
      <4>8. (snapshots[d] # None => ExactGrade(d, snapshots[d], BlockingDimensions))'
        BY <4>6, <4>7
      <4>9. \A c \in Calls \ {d} : snapshots'[c] = snapshots[c]
        BY <4>3, <4>4
      <4> QED BY <1>2, <4>8, <4>9
    <3>3. snapshots' = snapshots \/ AddSnapshot(j)
      BY <2>1 DEF Begin, EvalStep, OpenCase, Loop, LoopEscapes, LoopConflict, JobDies,
                  InsertResult, Complete, ReadTraces, ReadWorkflow, ReadRequests, ReadMutations,
                  ComplyTraces, ComplyRequests, Comply, DeleteResults, Quiet
    <3> QED BY <3>1, <3>2, <3>3
  <2> QED BY <2>2, <2>3, <2>4 DEF GradesAreExact
<1>4. CASE UNCHANGED evals
  <2>1. job' = job /\ snapshots' = snapshots
    BY <1>4 DEF evals
  <2>2. \A i \in Jobs : ReadsAreCurrent(i)' /\ GradeIsExact(i)'
    BY <2>1, KeptReads
  <2>3. \A c \in Calls : (snapshots[c] # None => ExactGrade(c, snapshots[c], BlockingDimensions))'
    BY <1>2, <2>1
  <2> QED BY <2>2, <2>3 DEF GradesAreExact
<1> QED BY <1>3, <1>4 DEF EvalNext

-----------------------------------------------------------------------------
(* The seed.                                                               *)

\* The ledger of a seeded cycle.
SeededLedger ==
  {[sequence |-> 1, from |-> Absent, to |-> "investigating"],
   [sequence |-> 2, from |-> "investigating", to |-> "awaiting_approval"],
   [sequence |-> 3, from |-> "awaiting_approval", to |-> "mock_executed"]}

\* It replays to the executed cycle.
LEMMA SeededLedgerReplays ==
  /\ SeededLedger \subseteq LedgerRows
  /\ {row.sequence : row \in SeededLedger} = 1..3
  /\ \A row \in SeededLedger :
       /\ CanTransition(row.from, row.to)
       /\ row.sequence = 1 <=> row.from = Absent
       /\ row.sequence = 3 => row.to = "mock_executed"
  /\ \A row1, row2 \in SeededLedger :
       /\ row1.sequence = row2.sequence => row1 = row2
       /\ row2.sequence = row1.sequence + 1 => row2.from = row1.to
<1>1. PICK row1 : row1 = [sequence |-> 1, from |-> Absent, to |-> "investigating"]
  OBVIOUS
<1>2. PICK row2 : row2 = [sequence |-> 2, from |-> "investigating", to |-> "awaiting_approval"]
  OBVIOUS
<1>3. PICK row3 : row3 = [sequence |-> 3, from |-> "awaiting_approval", to |-> "mock_executed"]
  OBVIOUS
<1>4. SeededLedger = {row1, row2, row3}
  BY <1>1, <1>2, <1>3, Zenon DEF SeededLedger
<1>5. row1 \in LedgerRows /\ row2 \in LedgerRows /\ row3 \in LedgerRows
  BY <1>1, <1>2, <1>3 DEF LedgerRows, WorkflowStatuses, Absent
<1>6. /\ row1.sequence = 1 /\ row1.from = Absent /\ row1.to = "investigating"
      /\ row2.sequence = 2 /\ row2.from = "investigating" /\ row2.to = "awaiting_approval"
      /\ row3.sequence = 3 /\ row3.from = "awaiting_approval" /\ row3.to = "mock_executed"
  BY <1>1, <1>2, <1>3
<1>7. /\ CanTransition(Absent, "investigating")
      /\ CanTransition("investigating", "awaiting_approval")
      /\ CanTransition("awaiting_approval", "mock_executed")
  BY DEF CanTransition, ActiveStatuses, WorkflowTransitions, InitialStatus, Absent
<1>8. {row.sequence : row \in SeededLedger} = 1..3
  BY <1>4, <1>6
<1> QED BY <1>4, <1>5, <1>6, <1>7, <1>8 DEF Absent

\* The tables of an eval lab nobody has used yet.
LEMMA SeededTables ==
  ASSUME EvalInit
  PROVE  /\ \A w \in WorkflowIds \ DOMAIN Seeded :
              /\ workflow[w] = NoWorkflow /\ ledger[w] = {}
              /\ approval[w] = NoApproval /\ mutation[w] = None
         /\ \A w \in DOMAIN Seeded :
              /\ workflow[w] \in WorkflowRows /\ ledger[w] = SeededLedger
              /\ workflow[w].ticket = Seeded[w].ticket /\ workflow[w].ticket \in Tickets
              /\ workflow[w].cycle = 1 /\ workflow[w].status = "mock_executed"
              /\ workflow[w].sequence = 3
              /\ approval[w] \in ApprovalRows /\ approval[w].status = "approved"
              /\ approval[w].action = Seeded[w].action /\ approval[w].run = None
              /\ approval[w].decider = "approver"
              /\ mutation[w] = Seeded[w].action /\ mutation[w] \in Actions
         /\ \A r \in RunIds : run[r] = NoRun
         /\ DOMAIN workflow = WorkflowIds /\ DOMAIN ledger = WorkflowIds
         /\ DOMAIN approval = WorkflowIds /\ DOMAIN mutation = WorkflowIds
         /\ DOMAIN run = RunIds
<1>1. \A w \in WorkflowIds \ DOMAIN Seeded :
        /\ workflow[w] = NoWorkflow /\ ledger[w] = {}
        /\ approval[w] = NoApproval /\ mutation[w] = None
  BY Zenon DEF EvalInit
<1>2. ASSUME NEW w \in DOMAIN Seeded
      PROVE  /\ workflow[w] \in WorkflowRows /\ ledger[w] = SeededLedger
             /\ workflow[w].ticket = Seeded[w].ticket /\ workflow[w].ticket \in Tickets
             /\ workflow[w].cycle = 1 /\ workflow[w].status = "mock_executed"
             /\ workflow[w].sequence = 3
             /\ approval[w] \in ApprovalRows /\ approval[w].status = "approved"
             /\ approval[w].action = Seeded[w].action /\ approval[w].run = None
             /\ approval[w].decider = "approver"
             /\ mutation[w] = Seeded[w].action /\ mutation[w] \in Actions
  <2>1. w \in WorkflowIds
    BY IdAssumption
  <2>2. Seeded[w].ticket \in Tickets /\ Seeded[w].action \in Actions
    BY SeedAssumption
  <2>3. PICK t \in Tickets : t = Seeded[w].ticket
    BY <2>2
  <2>4. PICK a \in Actions : a = Seeded[w].action
    BY <2>2
  <2>5. workflow[w] = [ticket |-> t, cycle |-> 1, status |-> "mock_executed", sequence |-> 3]
    BY <2>1, <2>3, Zenon DEF EvalInit
  <2>6. approval[w] = [status |-> "approved", action |-> a, run |-> None, decider |-> "approver"]
    BY <2>1, <2>4, Zenon DEF EvalInit
  <2>7. ledger[w] = SeededLedger /\ mutation[w] = a
    BY <2>1, <2>4, Zenon DEF EvalInit, SeededLedger
  <2>8. workflow[w] \in WorkflowRows
    BY <2>5 DEF WorkflowRows, WorkflowStatuses
  <2>9. approval[w] \in ApprovalRows
    BY <2>6 DEF ApprovalRows, ApprovalStatuses, Roles
  <2> QED BY <2>3, <2>4, <2>5, <2>6, <2>7, <2>8, <2>9
<1>3. /\ \A r \in RunIds : run[r] = NoRun
      /\ DOMAIN workflow = WorkflowIds /\ DOMAIN ledger = WorkflowIds
      /\ DOMAIN approval = WorkflowIds /\ DOMAIN mutation = WorkflowIds
      /\ DOMAIN run = RunIds
  BY Zenon DEF EvalInit
<1> QED BY <1>1, <1>2, <1>3

\* They satisfy the strengthened invariant of the commands.
LEMMA SeedIInv == EvalInit => IInv
<1> SUFFICES ASSUME EvalInit PROVE IInv
  OBVIOUS
<1>1. /\ NoWorkflow \in WorkflowRows /\ NoWorkflow.status = Absent /\ NoRun \in RunRows
      /\ NoApproval \in ApprovalRows /\ NoApproval.status = Absent /\ NoApproval.run = None
      /\ NoRun.status = Absent /\ NoRun.workflow = None
  BY DEF NoWorkflow, WorkflowRows, NoApproval, ApprovalRows, NoRun, RunRows, Absent
<1>2. \A w \in WorkflowIds \ DOMAIN Seeded :
        workflow[w] = NoWorkflow /\ ledger[w] = {} /\ approval[w] = NoApproval /\ mutation[w] = None
  BY SeededTables
<1>3. \A w \in DOMAIN Seeded :
        /\ workflow[w] \in WorkflowRows /\ ledger[w] = SeededLedger
        /\ workflow[w].ticket = Seeded[w].ticket /\ workflow[w].ticket \in Tickets
        /\ workflow[w].cycle = 1 /\ workflow[w].status = "mock_executed"
        /\ workflow[w].sequence = 3
  BY SeededTables
<1>4. \A w \in DOMAIN Seeded :
        /\ approval[w] \in ApprovalRows /\ approval[w].status = "approved"
        /\ approval[w].action = Seeded[w].action /\ approval[w].run = None
        /\ approval[w].decider = "approver"
        /\ mutation[w] = Seeded[w].action /\ mutation[w] \in Actions
  BY SeededTables
<1>5. \A r \in RunIds : run[r] = NoRun
  BY SeededTables
<1>6. TypeOK
  <2>1. workflow \in [WorkflowIds -> WorkflowRows]
    <3>1. \A w \in WorkflowIds : workflow[w] \in WorkflowRows
      BY <1>1, <1>2, <1>3
    <3>2. workflow = [w \in WorkflowIds |-> workflow[w]]
      BY Zenon DEF EvalInit
    <3> QED BY <3>1, <3>2, Zenon
  <2>2. ledger \in [WorkflowIds -> SUBSET LedgerRows]
    <3>1. \A w \in WorkflowIds : ledger[w] \in SUBSET LedgerRows
      BY <1>2, <1>3, SeededLedgerReplays
    <3>2. ledger = [w \in WorkflowIds |-> ledger[w]]
      BY Zenon DEF EvalInit
    <3> QED BY <3>1, <3>2, Zenon
  <2>3. run \in [RunIds -> RunRows]
    BY <1>1, Zenon DEF EvalInit
  <2>4. approval \in [WorkflowIds -> ApprovalRows]
    <3>1. \A w \in WorkflowIds : approval[w] \in ApprovalRows
      BY <1>1, <1>2, <1>4
    <3>2. approval = [w \in WorkflowIds |-> approval[w]]
      BY Zenon DEF EvalInit
    <3> QED BY <3>1, <3>2, Zenon
  <2>5. mutation \in [WorkflowIds -> Actions \cup {None}]
    <3>1. \A w \in WorkflowIds : mutation[w] \in Actions \cup {None}
      BY <1>2, <1>4
    <3>2. mutation = [w \in WorkflowIds |-> mutation[w]]
      BY Zenon DEF EvalInit
    <3> QED BY <3>1, <3>2, Zenon
  <2> QED BY <2>1, <2>2, <2>3, <2>4, <2>5 DEF TypeOK
<1>7. RowsAreComplete
  BY <1>1, <1>2, <1>3, <1>4, <1>5 DEF RowsAreComplete, Absent
<1>8. OneActiveCycle
  <2>1. SUFFICES ASSUME NEW w \in WorkflowIds, Exists(w)
                 PROVE  /\ workflow[w].cycle = 1
                        /\ WorkflowsOf(workflow[w].ticket) \ {w} = {}
    BY DEF OneActiveCycle
  <2>2. \A v \in WorkflowIds : Exists(v) => v \in DOMAIN Seeded
    BY <1>1, <1>2 DEF Exists
  <2>3. \A v \in WorkflowsOf(workflow[w].ticket) : v = w
    BY <1>3, <2>1, <2>2, SeedAssumption DEF WorkflowsOf
  <2> QED BY <1>3, <2>1, <2>2, <2>3
<1>9. RunTracksWorkflow
  BY <1>1, <1>2, <1>3, <1>5 DEF RunTracksWorkflow, RunExists, Absent
<1>10. DecisionsAgree
  BY <1>1, <1>2, <1>3, <1>4, <1>5, NoneAssumption DEF DecisionsAgree, Absent
<1>11. NoDoubleExecution
  BY <1>1, <1>2, <1>3, <1>4, SeedAssumption DEF NoDoubleExecution, Absent
<1>12. KeyNamesOneRun
  BY <1>1, <1>5 DEF KeyNamesOneRun, RunExists
<1>13. LedgerExplainsStatus
  <2>1. SUFFICES ASSUME NEW w \in WorkflowIds, Exists(w)
                 PROVE  /\ {row.sequence : row \in ledger[w]} = 1..workflow[w].sequence
                        /\ \A row \in ledger[w] :
                             /\ CanTransition(row.from, row.to)
                             /\ row.sequence = 1 <=> row.from = Absent
                             /\ row.sequence = workflow[w].sequence => row.to = workflow[w].status
                        /\ \A row1, row2 \in ledger[w] :
                             /\ row1.sequence = row2.sequence => row1 = row2
                             /\ row2.sequence = row1.sequence + 1 => row2.from = row1.to
    BY DEF LedgerExplainsStatus
  <2>2. w \in DOMAIN Seeded
    BY <1>1, <1>2, <2>1 DEF Exists
  <2>3. ledger[w] = SeededLedger /\ workflow[w].sequence = 3 /\ workflow[w].status = "mock_executed"
    BY <1>3, <2>2
  <2> QED BY <2>3, SeededLedgerReplays
<1>14. DecidersAreAuthorised
  <2>1. May("approver", "approval.decide") /\ "approver" \in Roles
    BY DEF May, RolePermissions, Roles
  <2> QED BY <1>1, <1>2, <1>4, <2>1, NoneAssumption DEF DecidersAreAuthorised, Absent
<1> QED BY <1>6, <1>7, <1>8, <1>9, <1>10, <1>11, <1>12, <1>13, <1>14 DEF IInv

\* And that of the loop and of the eval requests: nothing has been called, read
\* or graded.
LEMMA InitEvalInv == EvalInit => EvalInv
<1> SUFFICES ASSUME EvalInit PROVE EvalInv
  OBVIOUS
<1>1. IInv
  BY SeedIInv
<1>2. /\ \A c \in Calls : call[c] = Idle
      /\ \A r \in RunIds : run[r] = NoRun /\ trace[r] = << >>
      /\ \A w \in WorkflowIds : approval[w].run = None
      /\ \A w \in WorkflowIds : Exists(w) => w \in DOMAIN Seeded
      /\ evidence = Fixture
  <2>1. \A w \in WorkflowIds : approval[w].run = None /\ (Exists(w) => w \in DOMAIN Seeded)
    BY SeededTables DEF NoApproval, NoWorkflow, Exists
  <2>2. /\ \A c \in Calls : call[c] = Idle
        /\ \A r \in RunIds : trace[r] = << >>
        /\ evidence = Fixture
    BY Zenon DEF EvalInit
  <2> QED BY <2>1, <2>2, SeededTables
<1>3. /\ Idle \in CallRecords /\ Idle.pc = "idle" /\ Idle.run = None
      /\ Idle.accepted = Idle.follows
  BY DEF Idle, CallRecords, Conclude, DecisionRecords, Outcomes, Causes, Ended
<1>4. NoRun.status = Absent
  BY DEF NoRun
<1>5. AgentInv
  <2>1. call \in [Calls -> CallRecords] /\ evidence \in [Tickets -> EvidenceSet]
    <3>1. call = [c \in Calls |-> Idle]
      BY Zenon DEF EvalInit
    <3> QED BY <1>2, <1>3, <3>1, CaseAssumption
  <2>2. CallsAreSound
    BY <1>2, <1>3, <2>1 DEF CallsAreSound, Live, Ended
  <2>3. OneLoopPerRun /\ AcceptanceIsExact
    BY <1>2, <1>3 DEF OneLoopPerRun, AcceptanceIsExact
  <2>4. OnlyRefusalsStrand
    BY <1>2, <1>4 DEF OnlyRefusalsStrand, Absent
  <2>5. LogsAreSound
    <3>1. << >> \in Seq(TraceRows)
      OBVIOUS
    <3>2. trace = [r \in RunIds |-> << >>]
      BY Zenon DEF EvalInit
    <3>3. trace \in [RunIds -> Seq(TraceRows)]
      BY <3>1, <3>2
    <3> QED BY <3>3, <1>2, <1>3, <1>4 DEF LogsAreSound, Absent, LivePcs
  <2> QED BY <1>1, <2>2, <2>3, <2>4, <2>5 DEF AgentInv
<1>6. LoopInv
  <2>1. \A c \in Calls : call[c].pc = "idle" /\ call[c].run = None
    BY <1>2, <1>3
  <2>2. CurrentDecisions /\ OrderedLogs
    BY <2>1 DEF CurrentDecisions, CurrentDecision, OrderedLogs, OrderedLog, Finalized,
                Live, Ended, LivePcs
  <2>3. RequestsFollowRuns
    BY <1>2 DEF RequestsFollowRuns
  <2> QED BY <2>2, <2>3 DEF LoopInv
<1>7. JobsTypeOK
  <2>1. job = [j \in Jobs |-> NoJob] /\ evalRun = [j \in Jobs |-> Absent]
    BY Zenon DEF EvalInit
  <2>2. results = {} /\ snapshots = [c \in Calls |-> None]
    BY Zenon DEF EvalInit
  <2>3. results \in ResultSets
    BY <2>2 DEF ResultSets
  <2> QED BY <2>1, <2>2, <2>3, BlankJob DEF JobsTypeOK
<1>8. CallsAreOwn
  <2>1. SUFFICES ASSUME NEW c \in Calls PROVE CallIsOwn(c)
    BY <1>2 DEF CallsAreOwn
  <2>2. c \in RunIds /\ c \in WorkflowIds /\ c \notin DOMAIN Seeded
    BY IdAssumption
  <2>3. ~RunExists(c) /\ ~Exists(c)
    BY <1>2, <1>4, <2>2 DEF RunExists
  <2>4. c # None
    BY <2>2, NoneAssumption
  <2> QED BY <1>2, <1>3, <2>3, <2>4 DEF CallIsOwn, Answered, Live, Ended
<1>9. /\ \A j \in Jobs : job[j].pc = "idle" /\ evalRun[j] = Absent
      /\ \A c \in Calls : snapshots[c] = None
  <2>1. \A j \in Jobs : job[j] = NoJob /\ evalRun[j] = Absent
    BY Zenon DEF EvalInit
  <2>2. \A c \in Calls : snapshots[c] = None
    BY Zenon DEF EvalInit
  <2>3. NoJob.pc = "idle"
    BY DEF NoJob
  <2> QED BY <2>1, <2>2, <2>3
<1>10. JobsAreSound
  BY <1>9 DEF JobsAreSound, JobIsSound, GradingPcs, StoringPcs
<1>11. GradesAreExact
  BY <1>9 DEF GradesAreExact, ReadsAreCurrent, GradeIsExact, GradingPcs, StoringPcs
<1> QED BY <1>5, <1>6, <1>7, <1>8, <1>10, <1>11 DEF EvalInv

LEMMA NextEvalInv ==
  ASSUME EvalInv, [EvalNext]_allvars
  PROVE  EvalInv'
<1>1. AgentInv /\ LoopInv
  BY DEF EvalInv
<1>2. CASE EvalNext
  <2>1. [AgentNext]_vars
    BY <1>2, EvalStepIsAgentStep
  <2>2. AgentInv' /\ LoopInv'
    BY <1>1, <2>1, NextAgentInv, NextLoopInv
  <2> QED BY <1>2, <2>2, JobsTypes, OwnCalls, SoundJobs, GradesStayExact DEF EvalInv
<1>3. CASE UNCHANGED allvars
  <2>1. /\ job' = job /\ evalRun' = evalRun /\ results' = results /\ snapshots' = snapshots
        /\ call' = call /\ trace' = trace /\ evidence' = evidence /\ run' = run
        /\ workflow' = workflow /\ approval' = approval /\ mutation' = mutation
        /\ UNCHANGED vars
    BY <1>3 DEF allvars, evals, vars, locals, tables
  <2>2. AgentInv' /\ LoopInv'
    <3>1. [AgentNext]_vars
      BY <2>1
    <3> QED BY <1>1, <3>1, NextAgentInv, NextLoopInv
  <2>3. JobsTypeOK'
    BY <2>1 DEF EvalInv, JobsTypeOK
  <2>4. CallsAreOwn'
    BY <2>1 DEF EvalInv, CallsAreOwn, CallIsOwn, Answered, Live, CallOf, Case, RunExists, Exists
  <2>5. JobsAreSound'
    BY <2>1 DEF EvalInv, JobsAreSound, JobIsSound, Strands, Answered, CallOf, CaseOf, Case
  <2>6. ASSUME NEW j \in Jobs
        PROVE  ReadsAreCurrent(j)'
    <3>1. ReadsAreCurrent(j)
      BY DEF EvalInv, GradesAreExact
    <3>2. \A read : PendingIsApart(read) => PendingIsApart(read)'
      BY <2>1 DEF PendingIsApart, Exists
    <3>3. \A c, read : RequestsAreRead(c, read) => RequestsAreRead(c, read)'
      BY <2>1 DEF RequestsAreRead
    <3>4. CallOf(j)' = CallOf(j)
      BY <2>1 DEF CallOf, Case
    <3>5. \A c : (RunExists(c)' <=> RunExists(c)) /\ (Intact(c)' <=> Intact(c))
      BY <2>1 DEF RunExists, Intact
    <3> QED BY <2>1, <3>1, <3>2, <3>3, <3>4, <3>5 DEF ReadsAreCurrent
  <2>7. ASSUME NEW j \in Jobs
        PROVE  GradeIsExact(j)'
    BY <2>1 DEF EvalInv, GradesAreExact, GradeIsExact, ExactGrade, Answered, Intact, CallOf, Case
  <2>8. \A c \in Calls : (snapshots[c] # None => ExactGrade(c, snapshots[c], BlockingDimensions))'
    BY <2>1 DEF EvalInv, GradesAreExact, ExactGrade, Answered, Intact
  <2>9. GradesAreExact'
    BY <2>6, <2>7, <2>8 DEF GradesAreExact
  <2> QED BY <2>2, <2>3, <2>4, <2>5, <2>9 DEF EvalInv
<1> QED BY <1>2, <1>3

-----------------------------------------------------------------------------
(* What the summary says.                                                  *)

\* Against the baseline of a supported case a graded result is unchanged only if
\* it passes every blocking dimension, and regressed only if it does not.
LEMMA GradedLabel ==
  ASSUME NEW scenario \in SupportedScenarios, NEW passed \in DimensionSets
  PROVE  /\ Label(Baseline(scenario), Graded(passed)) = "unchanged" =>
              BlockingDimensions \subseteq passed
         /\ Label(Baseline(scenario), Graded(passed)) = "regressed" =>
              ~(BlockingDimensions \subseteq passed)
<1>1. PICK baseline : baseline = Baseline(scenario)
  OBVIOUS
<1>2. PICK current : current = Graded(passed)
  OBVIOUS
<1>3. baseline = Graded(BlockingDimensions)
  BY <1>1 DEF Baseline
<1>4. baseline.status = "passed" /\ baseline.passed = BlockingDimensions
  BY <1>3 DEF Graded
<1>5. /\ current.status = (IF BlockingDimensions \subseteq passed THEN "passed" ELSE "failed")
      /\ current.passed = passed
  BY <1>2 DEF Graded
<1>6. CASE current = None
  BY <1>1, <1>2, <1>4, <1>6 DEF Label
<1>7. CASE current # None /\ BlockingDimensions \subseteq passed
  <2>1. current.status = "passed" /\ baseline.passed \ current.passed = {}
    BY <1>4, <1>5, <1>7
  <2>2. Label(baseline, current) # "regressed"
    BY <1>4, <1>7, <2>1 DEF Label
  <2> QED BY <1>1, <1>2, <1>7, <2>2
<1>8. CASE current # None /\ ~(BlockingDimensions \subseteq passed)
  <2>1. current.status = "failed"
    BY <1>5, <1>8
  <2>2. Label(baseline, current) # "unchanged"
    BY <1>4, <1>8, <2>1 DEF Label
  <2> QED BY <1>1, <1>2, <1>8, <2>2
<1> QED BY <1>6, <1>7, <1>8

\* A blocked result is neither.
LEMMA BlockedLabel ==
  ASSUME NEW baseline, NEW result \in BlockedResults
  PROVE  Label(baseline, result) \notin {"unchanged", "regressed"}
<1>1. result.status = "blocked"
  BY DEF BlockedResults, Blocked
<1> QED BY <1>1 DEF Label

LEMMA ExactVerdicts ==
  ASSUME EvalInv
  PROVE  VerdictsAreExact
<1>1. SUFFICES
        ASSUME NEW c \in Calls, snapshots[c] # None
        PROVE  LET label == SummaryLabel(c[1], c[2])
                   ended == /\ call[c].pc = "answered"
                            /\ call[c].decision.outcome = CaseTable[c[2]].outcome
                   touched == ~RunExists(c) \/ workflow[run[c].workflow].status
                                                 \in {"mock_executed", "rejected", "cancelled"}
               IN /\ label = "unchanged" => ended
                  /\ label = "regressed" => ~ended \/ touched \/ run[c].status = "failed"
  BY DEF VerdictsAreExact
<1>2. PICK baseline : baseline = Baseline(CaseTable[c[2]].scenario)
  OBVIOUS
<1>3. PICK result : result = snapshots[c]
  OBVIOUS
<1>4. SummaryLabel(c[1], c[2]) = Label(baseline, result)
  <2>1. c = <<c[1], c[2]>>
    BY CallParts
  <2> QED BY <1>2, <1>3, <2>1, Zenon DEF SummaryLabel
<1>5. ExactGrade(c, result, BlockingDimensions)
  BY <1>1, <1>3 DEF EvalInv, GradesAreExact
<1>6. CASE result \in BlockedResults
  BY <1>4, <1>6, BlockedLabel
<1>7. CASE result \notin BlockedResults
  <2>1. PICK passed \in DimensionSets :
          /\ result = Graded(passed)
          /\ "outcome_correctness" \in passed =>
               call[c].decision.outcome = CaseTable[c[2]].outcome
          /\ Intact(c) => BlockingDimensions \subseteq passed
    BY <1>5, <1>7 DEF ExactGrade
  <2>2. CaseTable[c[2]].scenario \in SupportedScenarios /\ Answered(c)
    BY <1>5, <1>7 DEF ExactGrade
  <2>3. /\ Label(baseline, result) = "unchanged" => BlockingDimensions \subseteq passed
        /\ Label(baseline, result) = "regressed" => ~(BlockingDimensions \subseteq passed)
    BY <1>2, <2>1, <2>2, GradedLabel
  <2>4. "outcome_correctness" \in BlockingDimensions
    BY DEF BlockingDimensions
  <2>5. run[c].status \in {Absent, "completed", "failed"}
    BY <2>2 DEF EvalInv, CallsAreOwn, CallIsOwn
  <2> QED BY <1>4, <2>1, <2>2, <2>3, <2>4, <2>5 DEF Answered, Intact, RunExists
<1> QED BY <1>6, <1>7

LEMMA StrandedEvals ==
  ASSUME EvalInv
  PROVE  OnlyRacesStrandEvals
<1>1. SUFFICES ASSUME NEW j \in Jobs, evalRun[j] = "running"
               PROVE  JobLive(j) \/ job[j].pc = "dead" \/ Strands(j)
  BY DEF OnlyRacesStrandEvals, Strands
<1>2. job[j].pc \notin {"idle", "done"} /\ (job[j].pc = "raised" => Strands(j))
  BY <1>1 DEF EvalInv, JobsAreSound, JobIsSound, Absent
<1> QED BY <1>2 DEF JobLive

-----------------------------------------------------------------------------
(* The theorems.                                                           *)

\* The strengthened invariant holds whatever requests, people and deaths of
\* processes interleave, and whatever the seed executed before.
THEOREM EvalInvariance == EvalSpec => []EvalInv
<1>1. EvalInv /\ [EvalNext]_allvars => EvalInv'
  BY NextEvalInv
<1> QED BY <1>1, InitEvalInv, PTL DEF EvalSpec

\* The labels of summary_for_run say of every graded case what its run did.
THEOREM LabelsAreExact == EvalSpec => []VerdictsAreExact
<1>1. EvalInv => VerdictsAreExact
  BY ExactVerdicts
<1> QED BY <1>1, EvalInvariance, PTL

\* A request that ends without ending its eval run died, met an exception nobody
\* converts, lost a race for its ticket, or graded the refund of a renewal.
THEOREM StrandedEvalRunsAreExplained == EvalSpec => []OnlyRacesStrandEvals
<1>1. EvalInv => OnlyRacesStrandEvals
  BY StrandedEvals
<1> QED BY <1>1, EvalInvariance, PTL

\* EvalRunner changes nothing of the loop's but by what the loop, the decision
\* routes and the reset do themselves.
THEOREM LabStepsAreLoopSteps == EvalSpec => [][AgentNext]_vars
<1>1. EvalInv /\ [EvalNext]_allvars => [AgentNext]_vars
  <2>1. UNCHANGED allvars => UNCHANGED vars
    BY DEF allvars
  <2> QED BY <2>1, EvalStepIsAgentStep
<1> QED BY <1>1, EvalInvariance, PTL DEF EvalSpec

\* So what is proved of the commands and of the loop holds of tables that eval
\* requests reset and fill side by side, beside executed cycles of a seed.
THEOREM LabKeepsTheTables ==
  EvalSpec => /\ []OneActiveCycle /\ []RunTracksWorkflow /\ []NoDoubleExecution
              /\ []LedgerExplainsStatus /\ []DecidersAreAuthorised
              /\ []OneLoopPerRun /\ []FinishedRunsComply
<1>1. EvalInv => /\ OneActiveCycle /\ RunTracksWorkflow /\ NoDoubleExecution
                 /\ LedgerExplainsStatus /\ DecidersAreAuthorised /\ OneLoopPerRun
  BY DEF EvalInv, AgentInv, IInv
<1>2. EvalInv => FinishedRunsComply
  BY FinishedRuns DEF EvalInv
<1> QED BY <1>1, <1>2, EvalInvariance, PTL

\* A seeded or eval cycle that was settled stays as it is until a reset deletes
\* it, and money moves in the Eval Lab, too, only on an approver's decision.
THEOREM LabKeepsDecisions ==
  EvalSpec => SettledStaysSettled /\ AttemptsEndOnce /\ MoneyNeedsApproval
<1>1. EvalInv /\ [AgentNext]_vars => IInv /\ [Next]_tables
  BY LoopStep DEF EvalInv, AgentInv
<1>2. IInv /\ [Next]_tables =>
        [\A w \in WorkflowIds :
          Terminal(w) /\ workflow'[w].status # Absent =>
            /\ workflow'[w] = workflow[w]
            /\ ledger'[w] = ledger[w]
            /\ approval'[w] = approval[w]
            /\ mutation'[w] = mutation[w]
            /\ \A r \in RunIds : run[r].workflow = w => run'[r] = run[r]]_tables
  BY SettledStep
<1>3. IInv /\ [Next]_tables =>
        [\A r \in RunIds :
          run[r].status \in RunStatuses \ {"running"} /\ run'[r].status # Absent =>
            run'[r] = run[r]]_tables
  BY AttemptStep
<1>4. IInv /\ [Next]_tables =>
        [\A w \in WorkflowIds :
          mutation'[w] # None /\ mutation'[w] # mutation[w] =>
            /\ approval[w].status = "pending"
            /\ workflow[w].status = "awaiting_approval"
            /\ approval'[w].status = "approved"
            /\ mutation'[w] = approval[w].action
            /\ approval'[w].decider # None
            /\ May(approval'[w].decider, "approval.decide")]_tables
  BY MoneyStep
<1> QED
  BY <1>1, <1>2, <1>3, <1>4, EvalInvariance, LabStepsAreLoopSteps, PTL
  DEF SettledStaysSettled, AttemptsEndOnce, MoneyNeedsApproval
=============================================================================
