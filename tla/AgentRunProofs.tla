--------------------------- MODULE AgentRunProofs ---------------------------
(***************************************************************************)
(* AgentRun, proved for any number of calls, tickets, keys and rows, any   *)
(* billing evidence and any plans.                                         *)
(***************************************************************************)
EXTENDS AgentRun, CaseWorkflowProofs, FiniteSetTheorems, SequenceTheorems

LivePcs == {"plan", "plan_trace", "verify_trace", "evidence", "prior", "decide",
            "draft", "draft_trace", "finalize", "fail"}

Causes == {Absent, "evidence", "deleted", "escaped", "superseded", "duplicate"}

RefNames == {"ticket", "invoice", "charge", "credit", "usage", "subscription",
             "policy", "prior_adjustment"}

\* Named, for the provers to take as they are.
RefSets == SUBSET RefNames
WorkflowSets == SUBSET WorkflowIds

Outcomes ==
  {"not_started", "no_refund_expected_billing_behavior",
   "insufficient_evidence_human_review", "duplicate_action_already_executed",
   "confirmed_duplicate_charge", "prior_adjustment_already_applied",
   "refund_requires_approval", "goodwill_credit_requires_approval"}

DecisionRecords ==
  [outcome : Outcomes, action : Actions \cup {NoAction}, refs : SUBSET RefNames]

CallRecords ==
  [pc : LivePcs \cup Ended, ticket : Tickets \cup {None}, run : RunIds \cup {None},
   tries : {0, 1}, accepted : BOOLEAN, follows : BOOLEAN, executed : SUBSET Actions,
   decision : DecisionRecords, cause : Causes]

Errors == {Absent, "plan.blocked", "provider.failed", "governance.missing_required_ref",
           "approval.terminal_conflict"}

TraceRows ==
  [policy : PolicyIds, refs : SUBSET RefNames, cites : BOOLEAN,
   approvals : SUBSET WorkflowIds, error : Errors,
   metadata : [form : {"current"}, policy : PolicyIds,
               missing : SUBSET (RefNames \cup {"approval"}),
               gate : {"allowed", "blocked"},
               reason : {"governance.allowed", "governance.missing_required_ref",
                         "plan.blocked", "approval.terminal_conflict"}]]

\* A call that goes on has a run that nobody completed, and once it has decided
\* it can cite an invoice.
CallsAreSound ==
  /\ call \in [Calls -> CallRecords]
  /\ evidence \in [Tickets -> EvidenceSet]
  /\ \A c \in Calls :
       /\ Live(c) => /\ call[c].run \in RunIds /\ call[c].ticket \in Tickets
                     /\ run[call[c].run].status # "completed"
       /\ call[c].pc \in {"draft", "draft_trace", "finalize"} =>
            "invoice" \in call[c].decision.refs

\* The compliance check finds nothing in any single trace of the run.
CleanLog(r) == \A i \in DOMAIN trace[r] : TraceFailures(trace[r][i], TRUE) = {}

\* Somebody rejected or withdrew the request of the run.
SettledRequest(r) ==
  \E w \in WorkflowIds : approval[w].run = r /\ approval[w].status \in {"rejected", "withdrawn"}

\* It finds nothing but approvers who came too late, and those only of a run
\* whose request was rejected or withdrawn.
ExcusedLog(r) ==
  /\ \A i \in DOMAIN trace[r] :
       TraceFailures(trace[r][i], TRUE) \subseteq {"approval.terminal_conflict"}
  /\ CleanLog(r) \/ SettledRequest(r)

\* A run's log is clean until its call is about to fail it, and afterwards, but
\* for late approvers, if it completed; a request comes from a completed run, and
\* what it went through is in the log of that run.
LogsAreSound ==
  /\ trace \in [RunIds -> Seq(TraceRows)]
  /\ \A r \in RunIds :
       /\ run[r].status = Absent => trace[r] = << >>
       /\ run[r].status = "completed" => trace[r] # << >> /\ ExcusedLog(r)
  /\ \A c \in Calls : call[c].pc \in LivePcs \ {"fail"} => CleanLog(call[c].run)
  /\ \A w \in WorkflowIds : approval[w].run # None => run[approval[w].run].status = "completed"
  /\ \A w \in WorkflowIds : approval[w].run # None =>
       /\ w \in TracedApprovals(trace[approval[w].run], {"approval.create_request"})
       /\ approval[w].status = "approved" =>
            w \in TracedApprovals(trace[approval[w].run], MutationPolicies)

AgentInv ==
  /\ IInv
  /\ CallsAreSound
  /\ OneLoopPerRun
  /\ OnlyRefusalsStrand
  /\ AcceptanceIsExact
  /\ LogsAreSound

-----------------------------------------------------------------------------
(* The plan verifier.                                                      *)

\* Of either scenario: the contract's three actions, the decision last, and the
\* targets of all of them together.
LEMMA ContractShape ==
  ASSUME NEW scenario \in Scenarios
  PROVE  LET contract == Contract(scenario)
             loop == ActionOrder(scenario)
         IN /\ ContractActions(contract) = {loop[1], loop[2], loop[3]}
            /\ loop[1] # loop[2] /\ loop[1] # loop[3] /\ loop[2] # loop[3]
            /\ contract.decision = loop[3]
            /\ Len(loop) = 3 /\ DOMAIN loop = 1..3
            /\ contract.targets = contract.byAction[loop[1]] \cup contract.byAction[loop[2]]
                                    \cup contract.byAction[loop[3]]
            /\ ContractActions(contract) \subseteq PolicyIds \ Forbidden
<1>1. CASE scenario = "duplicate_charge"
  <2>1. ContractActions(DuplicateChargeContract) =
          {"read.billing_evidence", "read.prior_financial_actions", "decision.refund_eligibility"}
    BY DEF ContractActions, DuplicateChargeContract
  <2>2. DuplicateChargeContract.targets =
          DuplicateChargeContract.byAction["read.billing_evidence"]
            \cup DuplicateChargeContract.byAction["read.prior_financial_actions"]
            \cup DuplicateChargeContract.byAction["decision.refund_eligibility"]
    BY DEF DuplicateChargeContract
  <2>3. DuplicateChargeContract.decision = "decision.refund_eligibility"
    BY DEF DuplicateChargeContract
  <2> QED BY <1>1, <2>1, <2>2, <2>3
          DEF Contract, ActionOrder, PolicyIds, Forbidden, MutationPolicies
<1>2. CASE scenario = "credit_refund_dispute"
  <2>1. ContractActions(CreditRefundContract) =
          {"read.credit_refund_evidence", "read.prior_financial_actions",
           "decision.credit_refund_eligibility"}
    BY DEF ContractActions, CreditRefundContract
  <2>2. CreditRefundContract.targets =
          CreditRefundContract.byAction["read.credit_refund_evidence"]
            \cup CreditRefundContract.byAction["read.prior_financial_actions"]
            \cup CreditRefundContract.byAction["decision.credit_refund_eligibility"]
    BY DEF CreditRefundContract
  <2>3. CreditRefundContract.decision = "decision.credit_refund_eligibility"
    BY DEF CreditRefundContract
  <2> QED BY <1>2, <2>1, <2>2, <2>3
          DEF Contract, ActionOrder, PolicyIds, Forbidden, MutationPolicies
<1> QED BY <1>1, <1>2 DEF Scenarios

\* What the verifier asks of a plan, reason by reason.
LEMMA AcceptedPlan ==
  ASSUME NEW plan \in Plans
  PROVE  LET steps == plan.steps
             contract == Contract(plan.ticket)
             kept == Admitted(contract, steps)
             planned == {steps[i].action : i \in kept}
         IN Accepts(plan) <=>
              /\ plan.scenario = plan.ticket
              /\ \A i \in DOMAIN steps :
                   /\ steps[i].rationale
                   /\ steps[i].action \notin Forbidden
                   /\ steps[i].action \in PolicyIds
                   /\ i \in kept
              /\ \A i, j \in kept : j < i => steps[j].action # steps[i].action
              /\ \A i \in kept :
                   /\ steps[i].targets \subseteq contract.targets
                   /\ contract.byAction[steps[i].action] \subseteq steps[i].targets
                   /\ steps[i].depends \subseteq {steps[j].id : j \in DOMAIN steps}
              /\ ContractActions(contract) \subseteq planned
              /\ contract.decision \in planned =>
                   \A a \in planned \ {contract.decision} :
                     ~(Position(steps, a) > Position(steps, contract.decision))
              /\ contract.targets \subseteq
                   UNION {steps[Position(steps, a)].targets : a \in planned}
<1> DEFINE steps == plan.steps
           contract == Contract(plan.ticket)
           kept == Admitted(contract, steps)
           planned == {steps[i].action : i \in kept}
<1>1. Accepts(plan) <=>
        /\ plan.scenario = plan.ticket
        /\ StepReasons(contract, plan) = {}
        /\ PlanReasons(contract, plan) = {}
  BY DEF Accepts, Reasons
<1>2. PlanReasons(contract, plan) = {} <=>
        /\ ContractActions(contract) \subseteq planned
        /\ contract.decision \in planned =>
             \A a \in planned \ {contract.decision} :
               ~(Position(steps, a) > Position(steps, contract.decision))
        /\ contract.targets \subseteq
             UNION {steps[Position(steps, a)].targets : a \in planned}
  BY DEF PlanReasons
<1>3. StepReasons(contract, plan) = {} <=>
        /\ \A i \in DOMAIN steps :
             /\ steps[i].rationale
             /\ steps[i].action \notin Forbidden
             /\ steps[i].action \in PolicyIds
             /\ i \in kept
        /\ \A i, j \in kept : j < i => steps[j].action # steps[i].action
        /\ \A i \in kept :
             /\ steps[i].targets \subseteq contract.targets
             /\ contract.byAction[steps[i].action] \subseteq steps[i].targets
             /\ steps[i].depends \subseteq {steps[j].id : j \in DOMAIN steps}
  BY DEF StepReasons
<1> QED BY <1>1, <1>2, <1>3

\* An action planned once is where it is planned.
LEMMA OnlyPosition ==
  ASSUME NEW steps, NEW p \in DOMAIN steps, DOMAIN steps \subseteq Nat,
         \A i \in DOMAIN steps : steps[i].action = steps[p].action => i = p
  PROVE  Position(steps, steps[p].action) = p
BY DEF Position

\* PlanContractVerifier.verify accepts a plan exactly when it says what the loop
\* will do, whatever is wrong with the other plans, how many steps they have and
\* in which order they come.
THEOREM VerifierIsExact == \A plan \in Plans : Accepts(plan) <=> Follows(plan)
<1> SUFFICES ASSUME NEW plan \in Plans
             PROVE  Accepts(plan) <=> Follows(plan)
  OBVIOUS
<1> DEFINE steps == plan.steps
           contract == Contract(plan.ticket)
           loop == ActionOrder(plan.ticket)
           kept == Admitted(contract, steps)
           planned == {steps[i].action : i \in kept}
           n == Len(steps)
<1>1. /\ steps \in Seq(PlannedSteps)
      /\ n \in Nat /\ DOMAIN steps = 1..n
  BY PlansAssumption
<1>2. /\ ContractActions(contract) = {loop[1], loop[2], loop[3]}
      /\ loop[1] # loop[2] /\ loop[1] # loop[3] /\ loop[2] # loop[3]
      /\ contract.decision = loop[3]
      /\ Len(loop) = 3 /\ DOMAIN loop = 1..3
      /\ contract.targets = contract.byAction[loop[1]] \cup contract.byAction[loop[2]]
                              \cup contract.byAction[loop[3]]
      /\ ContractActions(contract) \subseteq PolicyIds \ Forbidden
  BY ContractShape, PlansAssumption
<1>3. {loop[i] : i \in DOMAIN loop} = {loop[1], loop[2], loop[3]}
  BY <1>2
<1>4. Follows(plan) <=>
        /\ plan.scenario = plan.ticket
        /\ n = 3
        /\ {steps[i].action : i \in DOMAIN steps} = {loop[1], loop[2], loop[3]}
        /\ steps[n].action = loop[3]
        /\ \A i \in DOMAIN steps :
             /\ steps[i].rationale
             /\ contract.byAction[steps[i].action] \subseteq steps[i].targets
             /\ steps[i].targets \subseteq contract.targets
             /\ steps[i].depends \subseteq {steps[j].id : j \in DOMAIN steps}
  BY <1>2, <1>3 DEF Follows
<1>5. \A i : i \in kept <=> i \in DOMAIN steps /\ steps[i].action \in ContractActions(contract)
  BY DEF Admitted
<1>6. ASSUME Accepts(plan) PROVE Follows(plan)
  <2>1. /\ plan.scenario = plan.ticket
        /\ kept = DOMAIN steps
        /\ \A i \in DOMAIN steps : steps[i].rationale
        /\ \A i, j \in kept : j < i => steps[j].action # steps[i].action
        /\ \A i \in kept :
             /\ steps[i].targets \subseteq contract.targets
             /\ contract.byAction[steps[i].action] \subseteq steps[i].targets
             /\ steps[i].depends \subseteq {steps[j].id : j \in DOMAIN steps}
        /\ ContractActions(contract) \subseteq planned
        /\ contract.decision \in planned =>
             \A a \in planned \ {contract.decision} :
               ~(Position(steps, a) > Position(steps, contract.decision))
    BY <1>6, <1>5, AcceptedPlan
  <2> HIDE DEF steps, contract, loop, n
  <2>2. \A i, j \in 1..n : steps[i].action = steps[j].action => i = j
    BY <2>1, <1>1
  <2>3. \A i \in 1..n : steps[i].action \in {loop[1], loop[2], loop[3]}
    BY <2>1, <1>1, <1>2, <1>5
  <2>4. PICK p1, p2, p3 \in 1..n : /\ steps[p1].action = loop[1]
                                   /\ steps[p2].action = loop[2]
                                   /\ steps[p3].action = loop[3]
    BY <2>1, <1>1, <1>2
  <2>5. n = 3
    <3>1. n >= 3
      BY <2>4, <1>2, <1>1
    <3>2. ~(n >= 4)
      <4>1. SUFFICES ASSUME n >= 4 PROVE FALSE
        OBVIOUS
      <4>2. 1 \in 1..n /\ 2 \in 1..n /\ 3 \in 1..n /\ 4 \in 1..n
        BY <4>1, <1>1
      <4> QED BY <4>2, <2>2, <2>3
    <3> QED BY <3>1, <3>2, <1>1
  <2>6. \A a \in {p1, p2, p3} : Position(steps, steps[a].action) = a
    BY <2>2, <1>1, OnlyPosition
  <2>7. p1 < p3 /\ p2 < p3
    BY <2>1, <2>4, <2>6, <1>1, <1>2
  <2>8. p3 = n
    BY <2>7, <2>5, <2>4, <1>2
  <2>9. {steps[i].action : i \in DOMAIN steps} = {loop[1], loop[2], loop[3]}
    BY <2>3, <2>4, <1>1
  <2> QED BY <2>1, <2>4, <2>5, <2>8, <2>9, <1>4
<1>7. ASSUME Follows(plan) PROVE Accepts(plan)
  <2>1. /\ plan.scenario = plan.ticket
        /\ n = 3
        /\ {steps[i].action : i \in DOMAIN steps} = {loop[1], loop[2], loop[3]}
        /\ steps[3].action = loop[3]
        /\ \A i \in DOMAIN steps :
             /\ steps[i].rationale
             /\ contract.byAction[steps[i].action] \subseteq steps[i].targets
             /\ steps[i].targets \subseteq contract.targets
             /\ steps[i].depends \subseteq {steps[j].id : j \in DOMAIN steps}
    BY <1>7, <1>4
  <2> HIDE DEF steps, contract, loop, n
  <2>2. DOMAIN steps = {1, 2, 3} /\ DOMAIN steps \subseteq Nat
    BY <2>1, <1>1
  <2>3. \A i \in DOMAIN steps : steps[i].action \in {loop[1], loop[2], loop[3]}
    BY <2>1
  <2>4. PICK p1, p2 \in {1, 2, 3} : steps[p1].action = loop[1] /\ steps[p2].action = loop[2]
    BY <2>1, <2>2
  <2>5. p1 # p2 /\ p1 # 3 /\ p2 # 3
    BY <2>1, <2>4, <1>2
  <2>6. \A i, j \in DOMAIN steps : steps[i].action = steps[j].action => i = j
    BY <2>1, <2>2, <2>4, <2>5, <1>2
  <2>7. \A i \in DOMAIN steps : Position(steps, steps[i].action) = i
    BY <2>2, <2>6, OnlyPosition
  <2>8. kept = DOMAIN steps
    BY <1>2, <1>5, <2>3
  <2>9. contract.decision \in planned =>
          \A a \in planned \ {contract.decision} :
            ~(Position(steps, a) > Position(steps, contract.decision))
    BY <1>2, <2>1, <2>2, <2>7, <2>8
  <2>10. contract.targets \subseteq UNION {steps[Position(steps, a)].targets : a \in planned}
    <3>1. \A i \in DOMAIN steps :
            steps[i].targets \subseteq UNION {steps[Position(steps, a)].targets : a \in planned}
      BY <2>7, <2>8
    <3>2. /\ contract.byAction[loop[1]] \subseteq steps[p1].targets
          /\ contract.byAction[loop[2]] \subseteq steps[p2].targets
          /\ contract.byAction[loop[3]] \subseteq steps[3].targets
      BY <2>1, <2>2, <2>4
    <3> QED BY <3>1, <3>2, <1>2, <2>2
  <2>11. ContractActions(contract) \subseteq planned
    BY <1>2, <2>1, <2>8
  <2>12. \A i \in DOMAIN steps : steps[i].action \in PolicyIds /\ steps[i].action \notin Forbidden
    BY <1>2, <2>3
  <2>13. \A i, j \in kept : j < i => steps[j].action # steps[i].action
    BY <2>2, <2>6, <2>8
  <2> QED BY <2>1, <2>8, <2>9, <2>10, <2>11, <2>12, <2>13, AcceptedPlan DEF steps, contract
<1> QED BY <1>6, <1>7

-----------------------------------------------------------------------------
(* Traces.                                                                 *)

\* A governed trace that lacks no reference and no success passes the compliance
\* check; one that lacks a reference raises.
LEMMA GovernedTrace ==
  ASSUME NEW policy \in PolicyIds, NEW refs \in RefSets, NEW cites \in BOOLEAN,
         NEW approvals \in WorkflowSets, NEW error \in Errors
  PROVE  LET row == Governed(policy, refs, cites, approvals, error)
             missing == MissingRefs(policy, refs, cites, approvals)
         IN /\ row \in TraceRows
            /\ Raises(row) <=> missing # {}
            /\ missing = {} /\ error = Absent => TraceFailures(row, TRUE) = {}
<1> DEFINE missing == MissingRefs(policy, refs, cites, approvals)
<1>1. missing \in SUBSET (RefNames \cup {"approval"})
  BY DEF RefSets, MissingRefs, RequiredRefs, RequiredEvidence, PolicyIds, RefNames
<1> HIDE DEF missing
<1>2. ASSUME missing = {}
      PROVE  Governed(policy, refs, cites, approvals, error) =
               [policy |-> policy, refs |-> refs, cites |-> cites,
                approvals |-> approvals, error |-> error,
                metadata |-> [form |-> "current", policy |-> policy, missing |-> {},
                              gate |-> "allowed", reason |-> "governance.allowed"]]
  BY <1>2 DEF Governed, Trace, Metadata, missing
<1>3. ASSUME missing # {}
      PROVE  Governed(policy, refs, cites, approvals, error) =
               [policy |-> policy, refs |-> refs, cites |-> cites,
                approvals |-> approvals, error |-> "governance.missing_required_ref",
                metadata |-> [form |-> "current", policy |-> policy, missing |-> missing,
                              gate |-> "blocked",
                              reason |-> "governance.missing_required_ref"]]
  BY <1>3 DEF Governed, Trace, Metadata, BlockedMetadata, missing, Absent
<1> DEFINE row == Governed(policy, refs, cites, approvals, error)
<1>4. CASE missing = {}
  <2>1. /\ row.policy = policy /\ row.refs = refs /\ row.cites = cites
        /\ row.approvals = approvals /\ row.error = error
        /\ row.metadata.form = "current" /\ row.metadata.policy = policy
        /\ row.metadata.missing = {} /\ row.metadata.gate = "allowed"
    BY <1>2, <1>4
  <2>2. row \in TraceRows
    BY <1>2, <1>4 DEF TraceRows, RefSets, WorkflowSets
  <2>3. Raises(row) <=> missing # {}
    BY <2>1, <1>4 DEF Raises
  <2>4. ASSUME error = Absent PROVE TraceFailures(row, TRUE) = {}
    <3> HIDE DEF row
    <3> QED BY <2>1, <2>4, <1>4 DEF TraceFailures, missing
  <2> QED BY <2>1, <2>2, <2>3, <2>4 DEF missing
<1>5. CASE missing # {}
  <2>1. row.metadata.missing = missing
    BY <1>3, <1>5
  <2>2. row \in TraceRows
    BY <1>1, <1>3, <1>5 DEF TraceRows, Errors, RefSets, WorkflowSets
  <2> QED BY <2>1, <2>2, <1>5 DEF Raises, missing
<1> QED BY <1>4, <1>5

\* So a trace of a success either raises or passes.
LEMMA SuccessTrace ==
  ASSUME NEW policy \in PolicyIds, NEW refs \in RefSets, NEW cites \in BOOLEAN
  PROVE  LET row == Governed(policy, refs, cites, {}, Absent)
         IN /\ row \in TraceRows
            /\ ~Raises(row) => TraceFailures(row, TRUE) = {}
<1>1. {} \in WorkflowSets /\ Absent \in Errors
  BY DEF Errors, WorkflowSets
<1> QED BY <1>1, GovernedTrace

\* A trace that lacks nothing passes.
LEMMA CompleteTrace ==
  ASSUME NEW policy \in PolicyIds, NEW refs \in RefSets, NEW cites \in BOOLEAN,
         NEW approvals \in WorkflowSets,
         MissingRefs(policy, refs, cites, approvals) = {}
  PROVE  LET row == Governed(policy, refs, cites, approvals, Absent)
         IN row \in TraceRows /\ TraceFailures(row, TRUE) = {}
<1> DEFINE row == Governed(policy, refs, cites, approvals, Absent)
<1>1. row = [policy |-> policy, refs |-> refs, cites |-> cites,
             approvals |-> approvals, error |-> Absent,
             metadata |-> [form |-> "current", policy |-> policy, missing |-> {},
                           gate |-> "allowed", reason |-> "governance.allowed"]]
  BY DEF Governed, Trace, Metadata
<1> HIDE DEF row
<1>2. row \in TraceRows
  BY <1>1 DEF TraceRows, RefSets, WorkflowSets, Errors
<1>3. /\ row.policy = policy /\ row.approvals = approvals /\ row.refs = refs
      /\ row.cites = cites /\ row.error = Absent
      /\ row.metadata.form = "current" /\ row.metadata.policy = policy
      /\ row.metadata.missing = {} /\ row.metadata.gate = "allowed"
  BY <1>1
<1>4. TraceFailures(row, TRUE) = {}
  BY <1>3 DEF TraceFailures
<1> QED BY <1>2, <1>4 DEF row

\* One more trace keeps what the log says of a request.
LEMMA AppendedLog ==
  ASSUME NEW log \in Seq(TraceRows), NEW row \in TraceRows
  PROVE  /\ Append(log, row) \in Seq(TraceRows)
         /\ Append(log, row) # << >>
         /\ \A policies : TracedApprovals(log, policies)
                            \subseteq TracedApprovals(Append(log, row), policies)
         /\ \A policies : row.policy \in policies =>
              row.approvals \subseteq TracedApprovals(Append(log, row), policies)
         /\ TraceFailures(row, TRUE) = {}
              /\ (\A i \in DOMAIN log : TraceFailures(log[i], TRUE) = {}) =>
              \A i \in DOMAIN Append(log, row) : TraceFailures(Append(log, row)[i], TRUE) = {}
<1> DEFINE new == Append(log, row)
<1>1. /\ new \in Seq(TraceRows) /\ Len(new) = Len(log) + 1
      /\ DOMAIN new = 1..Len(new) /\ DOMAIN log = 1..Len(log) /\ Len(log) \in Nat
      /\ \A i \in 1..Len(log) : new[i] = log[i]
      /\ new[Len(log) + 1] = row
  BY AppendProperties
<1>2. new # << >>
  BY <1>1
<1> HIDE DEF new
<1>3. \A i \in DOMAIN log : i \in DOMAIN new /\ new[i] = log[i]
  BY <1>1
<1>4. Len(new) \in DOMAIN new /\ new[Len(new)] = row
  BY <1>1
<1>5. \A i \in DOMAIN new : i \in DOMAIN log \/ new[i] = row
  BY <1>1
<1>6. \A policies : TracedApprovals(log, policies) \subseteq TracedApprovals(new, policies)
  BY <1>3 DEF TracedApprovals
<1>7. \A policies : row.policy \in policies => row.approvals \subseteq TracedApprovals(new, policies)
  BY <1>4 DEF TracedApprovals
<1> QED BY <1>1, <1>2, <1>3, <1>5, <1>6, <1>7 DEF new

\* One more trace the check excuses.
LEMMA ExcusedAppend ==
  ASSUME NEW log \in Seq(TraceRows), NEW row \in TraceRows, NEW excused,
         TraceFailures(row, TRUE) \subseteq excused,
         \A i \in DOMAIN log : TraceFailures(log[i], TRUE) \subseteq excused
  PROVE  \A i \in DOMAIN Append(log, row) :
           TraceFailures(Append(log, row)[i], TRUE) \subseteq excused
<1> DEFINE new == Append(log, row)
<1>1. /\ Len(new) = Len(log) + 1 /\ DOMAIN new = 1..Len(new) /\ DOMAIN log = 1..Len(log)
      /\ Len(log) \in Nat
      /\ \A i \in 1..Len(log) : new[i] = log[i]
      /\ new[Len(log) + 1] = row
  BY AppendProperties
<1> HIDE DEF new
<1>2. \A i \in DOMAIN new : new[i] = row \/ (i \in DOMAIN log /\ new[i] = log[i])
  BY <1>1
<1>3. \A i \in DOMAIN new : TraceFailures(new[i], TRUE) \subseteq excused
  BY <1>2
<1> QED BY <1>3 DEF new

-----------------------------------------------------------------------------
(* Steps of a call that change no table.                                   *)

\* What every step of a call leaves alone.
CallSteps(c) ==
  /\ Live(c)
  /\ call' \in [Calls -> CallRecords]
  /\ \A d \in Calls \ {c} : call'[d] = call[d]
  /\ call'[c].run = call[c].run /\ call'[c].ticket = call[c].ticket
  /\ call'[c].accepted = call'[c].follows
  /\ call'[c].pc \in {"draft", "draft_trace", "finalize"} =>
       "invoice" \in call'[c].decision.refs
  /\ evidence' = evidence

\* A call that ends either leaves no running run or ended for one of the reasons
\* that may leave one.
EndsWithReason(c) ==
  \/ call'[c].pc \in LivePcs \cup {"dead"}
  \/ call'[c].pc = "raised" /\ call'[c].cause \in {"evidence", "escaped", "duplicate"}
  \/ run[call[c].run].status # "running"

\* The parts of the invariant a step of one call keeps when no table changes.
LEMMA CallStep ==
  ASSUME AgentInv, NEW c \in Calls, CallSteps(c), EndsWithReason(c), UNCHANGED tables
  PROVE  /\ IInv' /\ CallsAreSound' /\ OneLoopPerRun' /\ OnlyRefusalsStrand'
         /\ AcceptanceIsExact'
<1>1. IInv'
  BY StutterIInv DEF AgentInv
<1>2. CallsAreSound'
  BY DEF AgentInv, CallsAreSound, CallSteps, Live, tables
<1>3. OneLoopPerRun'
  BY DEF AgentInv, OneLoopPerRun, CallSteps
<1>4. AcceptanceIsExact'
  BY DEF AgentInv, AcceptanceIsExact, CallSteps
<1>5. OnlyRefusalsStrand'
  <2>1. LivePcs \cap Ended = {}
    BY DEF LivePcs, Ended
  <2> SUFFICES ASSUME NEW r \in RunIds, run[r].status = "running"
               PROVE  \E d \in Calls :
                        /\ call'[d].run = r
                        /\ \/ call'[d].pc \notin Ended
                           \/ call'[d].pc = "dead"
                           \/ /\ call'[d].pc = "raised"
                              /\ call'[d].cause \in {"evidence", "escaped", "duplicate"}
    BY DEF OnlyRefusalsStrand, Live, tables
  <2>2. PICK d \in Calls :
          /\ call[d].run = r
          /\ \/ call[d].pc \notin Ended
             \/ call[d].pc = "dead"
             \/ /\ call[d].pc = "raised"
                /\ call[d].cause \in {"evidence", "escaped", "duplicate"}
    BY DEF AgentInv, OnlyRefusalsStrand, Live
  <2>3. CASE d = c
    BY <2>1, <2>2, <2>3 DEF CallSteps, EndsWithReason
  <2>4. CASE d # c
    BY <2>2, <2>4 DEF CallSteps
  <2> QED BY <2>3, <2>4
<1> QED BY <1>1, <1>2, <1>3, <1>4, <1>5

\* A step that leaves no trace.
LEMMA SilentStep ==
  ASSUME AgentInv, NEW c \in Calls, CallSteps(c), EndsWithReason(c),
         UNCHANGED tables, trace' = trace,
         call'[c].pc \in LivePcs \ {"fail"} => call[c].pc # "fail"
  PROVE  AgentInv'
<1>1. LivePcs \cap Ended = {} /\ call[c].pc \in LivePcs
  BY DEF LivePcs, Ended, AgentInv, CallsAreSound, CallRecords, CallSteps, Live
<1>2. \A d \in Calls : call'[d].pc \in LivePcs \ {"fail"} =>
        call[d].pc \in LivePcs \ {"fail"} /\ call'[d].run = call[d].run
  BY <1>1 DEF CallSteps
<1>3. LogsAreSound'
  BY <1>2 DEF AgentInv, LogsAreSound, ExcusedLog, SettledRequest, CleanLog, tables
<1> QED BY <1>3, CallStep DEF AgentInv

\* A step that leaves a trace on the call's run.
LEMMA TracedStep ==
  ASSUME AgentInv, NEW c \in Calls, CallSteps(c), EndsWithReason(c),
         UNCHANGED tables, RunExists(call[c].run), NEW row \in TraceRows,
         trace' = [trace EXCEPT ![call[c].run] = Append(@, row)],
         call'[c].pc \in LivePcs \ {"fail"} =>
           call[c].pc # "fail" /\ TraceFailures(row, TRUE) = {}
  PROVE  AgentInv'
<1> DEFINE r == call[c].run
<1>1. /\ LivePcs \cap Ended = {} /\ call[c].pc \in LivePcs
      /\ r \in RunIds /\ run[r].status # "completed" /\ run[r].status # Absent
  BY DEF LivePcs, Ended, AgentInv, CallsAreSound, CallRecords, CallSteps, Live, RunExists
<1>2. \A d \in Calls : d # c => call[d].run # r
  BY <1>1, NoneAssumption DEF AgentInv, OneLoopPerRun
<1>3. /\ trace \in [RunIds -> Seq(TraceRows)]
      /\ trace' \in [RunIds -> Seq(TraceRows)]
      /\ \A q \in RunIds \ {r} : trace'[q] = trace[q]
      /\ trace'[r] = Append(trace[r], row)
  BY <1>1, AppendedLog DEF AgentInv, LogsAreSound
<1> HIDE DEF r
<1>4. ASSUME NEW q \in RunIds
      PROVE  /\ \A policies : TracedApprovals(trace[q], policies)
                                \subseteq TracedApprovals(trace'[q], policies)
             /\ (q = r => TraceFailures(row, TRUE) = {}) /\ CleanLog(q) => CleanLog(q)'
  <2>1. CASE q = r
    <3>1. trace[q] \in Seq(TraceRows) /\ trace'[q] = Append(trace[q], row)
      BY <2>1, <1>3
    <3> QED BY <3>1, <2>1, AppendedLog DEF CleanLog
  <2>2. CASE q # r
    <3>1. trace'[q] = trace[q]
      BY <2>2, <1>3
    <3> QED BY <3>1, <2>2 DEF CleanLog
  <2> QED BY <2>1, <2>2
<1>6. ASSUME NEW q \in RunIds
      PROVE  /\ run'[q].status = Absent => trace'[q] = << >>
             /\ run'[q].status = "completed" => trace'[q] # << >> /\ ExcusedLog(q)'
  BY <1>1, <1>3 DEF AgentInv, LogsAreSound, ExcusedLog, SettledRequest, CleanLog, tables
<1>7. ASSUME NEW d \in Calls, call'[d].pc \in LivePcs \ {"fail"}
      PROVE  CleanLog(call[d].run)'
  <2>1. call[d].pc \in LivePcs \ {"fail"} /\ (d = c => TraceFailures(row, TRUE) = {})
    BY <1>1, <1>7 DEF CallSteps
  <2>2. PICK q \in RunIds : q = call[d].run /\ q = call'[d].run
    BY <1>1, <1>7, <2>1 DEF CallSteps, AgentInv, CallsAreSound, Live
  <2>3. CleanLog(q)
    BY <2>1, <2>2 DEF AgentInv, LogsAreSound
  <2>4. q = r => d = c
    BY <2>2, <1>2
  <2>5. CleanLog(q)'
    BY <2>1, <2>3, <2>4, <1>4
  <2> QED BY <2>2, <2>5 DEF CleanLog
<1>8. \A w \in WorkflowIds : approval[w].run # None =>
        /\ w \in TracedApprovals(trace'[approval[w].run], {"approval.create_request"})
        /\ approval[w].status = "approved" =>
             w \in TracedApprovals(trace'[approval[w].run], MutationPolicies)
  <2> SUFFICES ASSUME NEW w \in WorkflowIds, approval[w].run # None
               PROVE  /\ w \in TracedApprovals(trace'[approval[w].run], {"approval.create_request"})
                      /\ approval[w].status = "approved" =>
                           w \in TracedApprovals(trace'[approval[w].run], MutationPolicies)
    OBVIOUS
  <2>1. approval[w].run \in RunIds
    BY DEF AgentInv, IInv, TypeOK, ApprovalRows
  <2> QED BY <2>1, <1>4 DEF AgentInv, LogsAreSound
<1>10. LogsAreSound'
  BY <1>3, <1>6, <1>7, <1>8 DEF AgentInv, LogsAreSound, tables
<1> QED BY <1>10, CallStep DEF AgentInv

-----------------------------------------------------------------------------
(* The steps, one by one.                                                  *)

\* A call goes to another control point.
LEMMA GotoEffect ==
  ASSUME AgentInv, NEW c \in Calls, Live(c), NEW pc \in LivePcs \cup Ended,
         Goto(c, pc), evidence' = evidence,
         pc \in {"draft", "draft_trace", "finalize"} =>
           "invoice" \in call[c].decision.refs
  PROVE  CallSteps(c) /\ call'[c].pc = pc
<1> DEFINE old == call[c]
           new == [old EXCEPT !.pc = pc]
<1>1. old \in CallRecords /\ old.accepted = old.follows
  BY DEF AgentInv, CallsAreSound, AcceptanceIsExact
<1>2. call \in [Calls -> CallRecords] /\ call' = [call EXCEPT ![c] = new]
  BY DEF Goto, AgentInv, CallsAreSound
<1> HIDE DEF old
<1>3. /\ new \in CallRecords /\ new.pc = pc /\ new.run = old.run /\ new.ticket = old.ticket
      /\ new.accepted = new.follows /\ new.decision = old.decision
  BY <1>1 DEF CallRecords
<1> HIDE DEF new
<1>4. /\ call' \in [Calls -> CallRecords] /\ call'[c] = new
      /\ \A d \in Calls \ {c} : call'[d] = call[d]
  BY <1>2, <1>3
<1> QED BY <1>3, <1>4 DEF CallSteps, old

\* A call raises.
LEMMA RaiseEffect ==
  ASSUME AgentInv, NEW c \in Calls, Live(c), NEW cause \in Causes,
         Raise(c, cause), evidence' = evidence
  PROVE  CallSteps(c) /\ call'[c].pc = "raised" /\ call'[c].cause = cause
<1> DEFINE old == call[c]
           new == [old EXCEPT !.pc = "raised", !.cause = cause]
<1>1. old \in CallRecords /\ old.accepted = old.follows
  BY DEF AgentInv, CallsAreSound, AcceptanceIsExact
<1>2. call \in [Calls -> CallRecords] /\ call' = [call EXCEPT ![c] = new]
  BY DEF Raise, AgentInv, CallsAreSound
<1> HIDE DEF old
<1>3. /\ new \in CallRecords /\ new.pc = "raised" /\ new.cause = cause
      /\ new.run = old.run /\ new.ticket = old.ticket
      /\ new.accepted = new.follows
  BY <1>1 DEF CallRecords, Ended
<1> HIDE DEF new
<1>4. /\ call' \in [Calls -> CallRecords] /\ call'[c] = new
      /\ \A d \in Calls \ {c} : call'[d] = call[d]
  BY <1>2, <1>3
<1> QED BY <1>3, <1>4 DEF CallSteps, old

\* record_action, and what the call does next.
LEMMA RecordStep ==
  ASSUME AgentInv, NEW c \in Calls, Live(c), NEW row \in TraceRows, NEW ACTION goto,
         Record(c, row, goto), call[c].pc # "fail",
         goto /\ evidence' = evidence /\ ~Raises(row) =>
           /\ CallSteps(c) /\ call'[c].pc \in LivePcs
           /\ call'[c].pc # "fail" => TraceFailures(row, TRUE) = {}
  PROVE  AgentInv'
<1>1. UNCHANGED tables /\ evidence' = evidence
  BY DEF Record
<1>2. "raised" \notin LivePcs
  BY DEF LivePcs
<1>3. CASE ~RunExists(call[c].run)
  <2>1. Raise(c, "deleted") /\ trace' = trace
    BY <1>3 DEF Record
  <2>2. CallSteps(c) /\ call'[c].pc = "raised"
    BY <2>1, <1>1, RaiseEffect DEF Causes
  <2>3. EndsWithReason(c)
    BY <1>3 DEF EndsWithReason, RunExists, Absent
  <2> QED BY <2>1, <2>2, <2>3, <1>1, <1>2, SilentStep
<1>4. CASE RunExists(call[c].run) /\ Raises(row)
  <2>1. Raise(c, "evidence") /\ trace' = [trace EXCEPT ![call[c].run] = Append(@, row)]
    BY <1>4 DEF Record
  <2>2. CallSteps(c) /\ call'[c].pc = "raised" /\ call'[c].cause = "evidence"
    BY <2>1, <1>1, RaiseEffect DEF Causes
  <2>3. EndsWithReason(c)
    BY <2>2 DEF EndsWithReason
  <2> QED BY <2>1, <2>2, <2>3, <1>1, <1>2, <1>4, TracedStep
<1>5. CASE RunExists(call[c].run) /\ ~Raises(row)
  <2>1. goto /\ trace' = [trace EXCEPT ![call[c].run] = Append(@, row)]
    BY <1>5 DEF Record
  <2>2. EndsWithReason(c)
    BY <2>1, <1>1, <1>5 DEF EndsWithReason
  <2> QED BY <2>1, <2>2, <1>1, <1>5, TracedStep
<1> QED BY <1>3, <1>4, <1>5

\* Whatever the evidence, a decision tool cites the invoice and proposes an action
\* the tables may hold, or none.
LEMMA EvaluateShape ==
  ASSUME NEW known \in EvidenceSet, NEW reading \in Readings(known.charges),
         NEW executed \in SUBSET Actions
  PROVE  LET decision == Evaluate(known, reading, executed)
         IN decision \in DecisionRecords /\ "invoice" \in decision.refs
<1> DEFINE decision == Evaluate(known, reading, executed)
<1>1. decision.action \in Actions \cup {NoAction}
  BY ProposalsAssumption
<1>2. CASE known.scenario = "duplicate_charge"
  <2>1. decision = EvaluateDuplicateCharge(known, reading, executed)
    BY <1>2 DEF Evaluate
  <2>2. \E outcome \in Outcomes, refs \in SUBSET RefNames : \E action :
          /\ decision = [outcome |-> outcome, action |-> action, refs |-> refs]
          /\ "invoice" \in refs
    BY <2>1 DEF EvaluateDuplicateCharge, Conclude, Propose, Outcomes, RefNames
  <2> QED BY <2>2, <1>1 DEF DecisionRecords
<1>3. CASE known.scenario # "duplicate_charge"
  <2>1. decision = EvaluateCreditRefund(known, reading, executed)
    BY <1>3 DEF Evaluate
  <2>2. \E outcome \in Outcomes, refs \in SUBSET RefNames : \E action :
          /\ decision = [outcome |-> outcome, action |-> action, refs |-> refs]
          /\ "invoice" \in refs
    BY <2>1 DEF EvaluateCreditRefund, Conclude, Propose, Outcomes, RefNames
  <2> QED BY <2>2, <1>1 DEF DecisionRecords
<1> QED BY <1>2, <1>3

\* create_investigation_plan, verified: the verdict is about the last plan.
LEMMA PlanStep ==
  ASSUME AgentInv, NEW c \in Calls, Plan(c)
  PROVE  AgentInv'
<1>1. Live(c) /\ UNCHANGED tables /\ trace' = trace /\ evidence' = evidence
  BY DEF Plan, Live, Ended
<1>2. CASE Goto(c, "fail")
  <2>1. CallSteps(c) /\ call'[c].pc = "fail"
    BY <1>1, <1>2, GotoEffect DEF LivePcs
  <2> QED BY <1>1, <2>1, SilentStep DEF EndsWithReason, LivePcs
<1>3. ASSUME NEW verdict \in Verdicts, NEW again \in BOOLEAN,
             call' = [call EXCEPT ![c].pc = IF again THEN "plan" ELSE "plan_trace",
                                  ![c].tries = IF again THEN 1 ELSE @,
                                  ![c].accepted = verdict.accepted,
                                  ![c].follows = verdict.follows]
      PROVE  AgentInv'
  <2> DEFINE old == call[c]
             pc == IF again THEN "plan" ELSE "plan_trace"
             tries == IF again THEN 1 ELSE old.tries
             new == [old EXCEPT !.pc = pc, !.tries = tries,
                                !.accepted = verdict.accepted, !.follows = verdict.follows]
  <2>1. verdict.accepted \in BOOLEAN /\ verdict.follows = verdict.accepted
    <3>1. PICK plan \in Plans :
            verdict = [accepted |-> Accepts(plan), follows |-> Follows(plan)]
      BY DEF Verdicts
    <3>2. Accepts(plan) \in BOOLEAN /\ Follows(plan) \in BOOLEAN
      BY DEF Accepts, Follows
    <3>3. Follows(plan) = Accepts(plan)
      BY <3>2, VerifierIsExact
    <3> QED BY <3>1, <3>2, <3>3
  <2>2. /\ old \in CallRecords /\ pc \in {"plan", "plan_trace"} /\ tries \in {0, 1}
        /\ pc \in LivePcs
    BY DEF AgentInv, CallsAreSound, CallRecords, LivePcs
  <2>3. call \in [Calls -> CallRecords] /\ call' = [call EXCEPT ![c] = new]
    BY <1>3 DEF AgentInv, CallsAreSound
  <2> HIDE DEF old, pc, tries
  <2>4. /\ new \in CallRecords /\ new.pc = pc /\ new.run = old.run /\ new.ticket = old.ticket
        /\ new.accepted = new.follows
    BY <2>1, <2>2 DEF CallRecords
  <2> HIDE DEF new
  <2>5. /\ call' \in [Calls -> CallRecords] /\ call'[c] = new
        /\ \A d \in Calls \ {c} : call'[d] = call[d]
    BY <2>3, <2>4
  <2>6. CallSteps(c) /\ call'[c].pc \in LivePcs
    BY <1>1, <2>2, <2>4, <2>5 DEF CallSteps, old
  <2>7. call[c].pc # "fail"
    BY DEF Plan
  <2> QED BY <1>1, <2>6, <2>7, SilentStep DEF EndsWithReason
<1> QED BY <1>2, <1>3 DEF Plan

\* The trace of the plan.
LEMMA RecordPlanStep ==
  ASSUME AgentInv, NEW c \in Calls, RecordPlan(c)
  PROVE  AgentInv'
<1> DEFINE row == Governed("plan.investigation", {"ticket"}, FALSE, {}, Absent)
<1>1. Live(c) /\ call[c].pc = "plan_trace" /\ Record(c, row, Goto(c, "verify_trace"))
  BY DEF RecordPlan, Live, Ended
<1>2. /\ row \in TraceRows
      /\ ~Raises(row) => TraceFailures(row, TRUE) = {}
  <2>1. "plan.investigation" \in PolicyIds /\ {"ticket"} \in RefSets
    BY DEF PolicyIds, RefNames, RefSets
  <2> QED BY <2>1, SuccessTrace
<1> HIDE DEF row
<1>3. Goto(c, "verify_trace") /\ evidence' = evidence =>
        CallSteps(c) /\ call'[c].pc \in LivePcs
  BY <1>1, GotoEffect DEF LivePcs
<1> QED BY <1>1, <1>2, <1>3, RecordStep

\* The trace of the verdict: a plan that was refused leads to fail_run.
LEMMA RecordVerdictStep ==
  ASSUME AgentInv, NEW c \in Calls, RecordVerdict(c)
  PROVE  AgentInv'
<1>1. Live(c) /\ call[c].pc = "verify_trace" /\ call[c].accepted \in BOOLEAN
  BY DEF RecordVerdict, Live, Ended, AgentInv, CallsAreSound, CallRecords
<1>2. CASE call[c].accepted
  <2> DEFINE row == Governed("plan.verify", {"ticket"}, FALSE, {}, Absent)
  <2>1. Record(c, row, Goto(c, "evidence"))
    BY <1>2 DEF RecordVerdict, Record
  <2>2. /\ row \in TraceRows
        /\ ~Raises(row) => TraceFailures(row, TRUE) = {}
    <3>1. "plan.verify" \in PolicyIds /\ {"ticket"} \in RefSets
      BY DEF PolicyIds, RefNames, RefSets
    <3> QED BY <3>1, SuccessTrace
  <2> HIDE DEF row
  <2>3. Goto(c, "evidence") /\ evidence' = evidence =>
          CallSteps(c) /\ call'[c].pc \in LivePcs
    BY <1>1, GotoEffect DEF LivePcs
  <2> QED BY <1>1, <2>1, <2>2, <2>3, RecordStep
<1>3. CASE ~call[c].accepted
  <2> DEFINE governed == Governed("plan.verify", {"ticket"}, FALSE, {}, "plan.blocked")
             row == [governed EXCEPT !.metadata.reason = "plan.blocked"]
  <2>1. Record(c, row, Goto(c, "fail"))
    BY <1>3 DEF RecordVerdict, Record
  <2>2. governed \in TraceRows
    <3>1. /\ "plan.verify" \in PolicyIds /\ {"ticket"} \in RefSets
          /\ {} \in WorkflowSets /\ "plan.blocked" \in Errors
      BY DEF PolicyIds, RefNames, RefSets, WorkflowSets, Errors
    <3> QED BY <3>1, GovernedTrace
  <2> HIDE DEF governed
  <2>3. row \in TraceRows
    BY <2>2 DEF TraceRows, RefSets, WorkflowSets
  <2> HIDE DEF row
  <2>4. Goto(c, "fail") /\ evidence' = evidence =>
          CallSteps(c) /\ call'[c].pc \in LivePcs /\ call'[c].pc = "fail"
    BY <1>1, GotoEffect DEF LivePcs
  <2> QED BY <1>1, <2>1, <2>3, <2>4, RecordStep
<1> QED BY <1>1, <1>2, <1>3

\* The evidence that was found, or fail_run.
LEMMA ReadEvidenceStep ==
  ASSUME AgentInv, NEW c \in Calls, ReadEvidence(c)
  PROVE  AgentInv'
<1> DEFINE known == evidence[call[c].ticket]
<1>1. Live(c) /\ call[c].pc = "evidence"
  BY DEF ReadEvidence, Live, Ended
<1>2. CASE known.found
  <2> DEFINE row == EvidenceTrace(known)
  <2>1. Record(c, row, Goto(c, "prior"))
    BY <1>2 DEF ReadEvidence
  <2>2. /\ row \in TraceRows
        /\ ~Raises(row) => TraceFailures(row, TRUE) = {}
    <3>1. CollectedRefs(known) \in SUBSET RefNames
      BY DEF CollectedRefs, RefNames
    <3>2. "read.billing_evidence" \in PolicyIds /\ "read.credit_refund_evidence" \in PolicyIds
      BY DEF PolicyIds
    <3> DEFINE policy == IF known.scenario = "duplicate_charge" THEN "read.billing_evidence"
                         ELSE "read.credit_refund_evidence"
               refs == CollectedRefs(known)
    <3>3. policy \in PolicyIds
      BY <3>2
    <3>4. row = Governed(policy, refs, TRUE, {}, Absent)
      BY DEF EvidenceTrace
    <3> HIDE DEF policy, row, refs
    <3>5. refs \in RefSets
      BY <3>1 DEF refs, RefSets
    <3> QED BY <3>3, <3>4, <3>5, SuccessTrace
  <2> HIDE DEF row
  <2>3. Goto(c, "prior") /\ evidence' = evidence =>
          CallSteps(c) /\ call'[c].pc \in LivePcs
    BY <1>1, GotoEffect DEF LivePcs
  <2> QED BY <1>1, <2>1, <2>2, <2>3, RecordStep
<1>3. CASE ~known.found
  <2>1. Goto(c, "fail") /\ UNCHANGED tables /\ trace' = trace /\ evidence' = evidence
    BY <1>3 DEF ReadEvidence
  <2>2. CallSteps(c) /\ call'[c].pc = "fail"
    BY <1>1, <2>1, GotoEffect DEF LivePcs
  <2> QED BY <2>1, <2>2, SilentStep DEF EndsWithReason, LivePcs
<1> QED BY <1>2, <1>3

\* The ticket's executed actions, which the decision will use.
LEMMA ReadPriorStep ==
  ASSUME AgentInv, NEW c \in Calls, ReadPrior(c)
  PROVE  AgentInv'
<1> DEFINE row == Governed("read.prior_financial_actions", {"ticket"}, FALSE, {}, Absent)
           executed == {mutation[w] : w \in {v \in WorkflowsOf(call[c].ticket) :
                                              mutation[v] # None}}
           old == call[c]
           new == [old EXCEPT !.pc = "decide", !.executed = executed]
           goto == call' = [call EXCEPT ![c].pc = "decide", ![c].executed = executed]
<1>1. Live(c) /\ call[c].pc = "prior" /\ Record(c, row, goto)
  BY DEF ReadPrior, Live, Ended
<1>2. /\ row \in TraceRows
      /\ ~Raises(row) => TraceFailures(row, TRUE) = {}
  <2>1. "read.prior_financial_actions" \in PolicyIds /\ {"ticket"} \in RefSets
    BY DEF PolicyIds, RefNames, RefSets
  <2> QED BY <2>1, SuccessTrace
<1>3. ASSUME goto, evidence' = evidence
      PROVE  CallSteps(c) /\ call'[c].pc \in LivePcs
  <2>1. executed \in SUBSET Actions
    BY DEF AgentInv, IInv, TypeOK, WorkflowsOf
  <2>2. old \in CallRecords /\ old.accepted = old.follows
    BY DEF AgentInv, CallsAreSound, AcceptanceIsExact
  <2>3. call \in [Calls -> CallRecords] /\ call' = [call EXCEPT ![c] = new]
    BY <1>3 DEF AgentInv, CallsAreSound
  <2> HIDE DEF old, executed
  <2>4. /\ new \in CallRecords /\ new.pc = "decide" /\ new.run = old.run
        /\ new.ticket = old.ticket /\ new.accepted = new.follows
    BY <2>1, <2>2 DEF CallRecords, LivePcs
  <2> HIDE DEF new
  <2>5. /\ call' \in [Calls -> CallRecords] /\ call'[c] = new
        /\ \A d \in Calls \ {c} : call'[d] = call[d]
    BY <2>3, <2>4
  <2> QED BY <1>1, <1>3, <2>4, <2>5 DEF CallSteps, old, LivePcs
<1> HIDE DEF row, goto
<1> QED BY <1>1, <1>2, <1>3, RecordStep

\* The decision is made on what was read, and recorded if it cites enough.
LEMMA DecideStep ==
  ASSUME AgentInv, NEW c \in Calls, Decide(c)
  PROVE  AgentInv'
<1> DEFINE known == evidence[call[c].ticket]
<1>1. Live(c) /\ call[c].pc = "decide"
  BY DEF Decide, Live, Ended
<1>2. PICK reading \in Readings(known.charges) :
        LET decision == Evaluate(known, reading, call[c].executed) IN
        Record(c, Governed(DecisionPolicy(known.scenario), decision.refs, TRUE, {}, Absent),
               call' = [call EXCEPT ![c].pc = "draft", ![c].tries = 0,
                                    ![c].decision = decision, ![c].executed = {}])
  BY DEF Decide, DecisionTrace
<1> DEFINE decision == Evaluate(known, reading, call[c].executed)
           policy == DecisionPolicy(known.scenario)
           refs == decision.refs
           row == Governed(policy, refs, TRUE, {}, Absent)
           old == call[c]
           new == [old EXCEPT !.pc = "draft", !.tries = 0, !.decision = decision,
                              !.executed = {}]
           goto == call' = [call EXCEPT ![c].pc = "draft", ![c].tries = 0,
                                        ![c].decision = decision, ![c].executed = {}]
<1>3. Record(c, row, goto)
  BY <1>2
<1>4. decision \in DecisionRecords /\ "invoice" \in decision.refs
  <2>1. known \in EvidenceSet /\ call[c].executed \in SUBSET Actions
    BY <1>1 DEF AgentInv, CallsAreSound, CallRecords
  <2> QED BY <2>1, EvaluateShape
<1>5. policy \in PolicyIds /\ refs \in RefSets
  BY <1>4 DEF RefSets, DecisionPolicy, PolicyIds, DecisionRecords
<1> HIDE DEF decision, policy, refs
<1>6. /\ row \in TraceRows
      /\ ~Raises(row) => TraceFailures(row, TRUE) = {}
  BY <1>5, SuccessTrace
<1>7. ASSUME goto, evidence' = evidence
      PROVE  CallSteps(c) /\ call'[c].pc \in LivePcs
  <2>1. old \in CallRecords /\ old.accepted = old.follows
    BY DEF AgentInv, CallsAreSound, AcceptanceIsExact
  <2>2. call \in [Calls -> CallRecords] /\ call' = [call EXCEPT ![c] = new]
    BY <1>7 DEF AgentInv, CallsAreSound
  <2> HIDE DEF old
  <2>3. /\ new \in CallRecords /\ new.pc = "draft" /\ new.run = old.run
        /\ new.ticket = old.ticket /\ new.accepted = new.follows /\ new.decision = decision
    BY <1>4, <2>1 DEF CallRecords, LivePcs
  <2> HIDE DEF new
  <2>4. /\ call' \in [Calls -> CallRecords] /\ call'[c] = new
        /\ \A d \in Calls \ {c} : call'[d] = call[d]
    BY <2>2, <2>3
  <2> QED BY <1>1, <1>4, <1>7, <2>3, <2>4 DEF CallSteps, old, LivePcs
<1> HIDE DEF row, goto
<1> QED BY <1>1, <1>3, <1>6, <1>7, RecordStep

\* A draft that is right goes on, two that are wrong end the attempt.
LEMMA DraftStep ==
  ASSUME AgentInv, NEW c \in Calls, Draft(c)
  PROVE  AgentInv'
<1>1. /\ Live(c) /\ call[c].pc = "draft" /\ UNCHANGED tables
      /\ trace' = trace /\ evidence' = evidence
      /\ "invoice" \in call[c].decision.refs
  BY DEF Draft, Live, Ended, AgentInv, CallsAreSound
<1>2. ASSUME NEW pc \in {"finalize", "draft_trace"}, Goto(c, pc)
      PROVE  AgentInv'
  <2>1. pc \in LivePcs
    BY DEF LivePcs
  <2>2. CallSteps(c) /\ call'[c].pc = pc
    BY <1>1, <1>2, <2>1, GotoEffect
  <2> QED BY <1>1, <2>1, <2>2, SilentStep DEF EndsWithReason
<1>3. ASSUME call' = [call EXCEPT ![c].tries = 1]
      PROVE  AgentInv'
  <2> DEFINE old == call[c]
             new == [old EXCEPT !.tries = 1]
  <2>1. old \in CallRecords /\ old.accepted = old.follows
    BY DEF AgentInv, CallsAreSound, AcceptanceIsExact
  <2>2. call \in [Calls -> CallRecords] /\ call' = [call EXCEPT ![c] = new]
    BY <1>3 DEF AgentInv, CallsAreSound
  <2> HIDE DEF old
  <2>3. /\ new \in CallRecords /\ new.pc = old.pc /\ new.run = old.run
        /\ new.ticket = old.ticket /\ new.accepted = new.follows
        /\ new.decision = old.decision
    BY <2>1 DEF CallRecords
  <2> HIDE DEF new
  <2>4. /\ call' \in [Calls -> CallRecords] /\ call'[c] = new
        /\ \A d \in Calls \ {c} : call'[d] = call[d]
    BY <2>2, <2>3
  <2>5. CallSteps(c) /\ call'[c].pc \in LivePcs
    BY <1>1, <2>3, <2>4 DEF CallSteps, old, LivePcs
  <2> QED BY <1>1, <2>5, SilentStep DEF EndsWithReason
<1> QED BY <1>2, <1>3 DEF Draft

\* The failed draft is on record before the attempt ends.
LEMMA RecordDraftFailureStep ==
  ASSUME AgentInv, NEW c \in Calls, RecordDraftFailure(c)
  PROVE  AgentInv'
<1> DEFINE refs == call[c].decision.refs
           row == Governed("draft.resolution", refs, TRUE, {}, "provider.failed")
<1>1. Live(c) /\ call[c].pc = "draft_trace" /\ Record(c, row, Goto(c, "fail"))
  BY DEF RecordDraftFailure, Live, Ended
<1>2. row \in TraceRows
  <2>1. /\ refs \in RefSets /\ "draft.resolution" \in PolicyIds
        /\ "provider.failed" \in Errors /\ {} \in WorkflowSets
    BY DEF RefSets, WorkflowSets, AgentInv, CallsAreSound, CallRecords, DecisionRecords, PolicyIds, Errors
  <2> HIDE DEF refs
  <2> QED BY <2>1, GovernedTrace
<1> HIDE DEF row
<1>3. Goto(c, "fail") /\ evidence' = evidence =>
        CallSteps(c) /\ call'[c].pc \in LivePcs /\ call'[c].pc = "fail"
  BY <1>1, GotoEffect DEF LivePcs
<1> QED BY <1>1, <1>2, <1>3, RecordStep

\* The process dies.
LEMMA DieStep ==
  ASSUME AgentInv, NEW c \in Calls, Die(c)
  PROVE  AgentInv'
<1>1. /\ Live(c) /\ Goto(c, "dead") /\ UNCHANGED tables
      /\ trace' = trace /\ evidence' = evidence
  BY DEF Die
<1>2. CallSteps(c) /\ call'[c].pc = "dead"
  BY <1>1, GotoEffect DEF Ended
<1> QED BY <1>1, <1>2, SilentStep DEF EndsWithReason, LivePcs

\* The provider raises what nobody converts.
LEMMA EscapeStep ==
  ASSUME AgentInv, NEW c \in Calls, NEW pc \in {"plan", "draft"}, Escape(c, pc)
  PROVE  AgentInv'
<1>1. /\ Live(c) /\ Raise(c, "escaped") /\ UNCHANGED tables
      /\ trace' = trace /\ evidence' = evidence
  BY DEF Escape, Live, Ended
<1>2. CallSteps(c) /\ call'[c].pc = "raised" /\ call'[c].cause = "escaped"
  BY <1>1, RaiseEffect DEF Causes
<1> QED BY <1>1, <1>2, SilentStep DEF EndsWithReason, LivePcs

-----------------------------------------------------------------------------
(* Ending a run.                                                           *)

\* The commands the loop calls are those of CaseWorkflow.
LEMMA SameStart ==
  ASSUME NEW t, NEW k, NEW w, NEW r
  PROVE  /\ Commands!StartCycle(t, k, w, r) => StartCycle(t, k, w, r)
         /\ Commands!StartRetry(t, k, w, r) => StartRetry(t, k, w, r)
BY DEF Commands!StartCycle, Commands!StartRetry, StartCycle, StartRetry,
       Commands!InsertCycle, InsertCycle, Commands!InsertRetry, InsertRetry,
       Commands!Move, Move, Commands!NewRun, NewRun, Commands!RunWithKey, RunWithKey,
       Commands!RunsOf, RunsOf, Commands!RunExists, RunExists, Commands!Exists, Exists,
       Commands!WorkflowsOf, WorkflowsOf, Commands!CyclesOf, CyclesOf,
       Commands!Active, Active, Commands!ActiveStatuses, ActiveStatuses,
       Commands!InitialStatus, InitialStatus, Commands!Absent, Absent

\* How the loop ends a run.
LEMMA SameEnd ==
  ASSUME NEW r, NEW a, NEW target
  PROVE  /\ Commands!MayEnd(r, target) <=> MayEnd(r, target)
         /\ Commands!FailRun(r, TRUE) => FailRun(r, TRUE)
         /\ Commands!FinalizeNoAction(r) => FinalizeNoAction(r)
         /\ Commands!FinalizeForApproval(r, a) => FinalizeForApproval(r, a)
BY DEF Commands!MayEnd, MayEnd, Commands!CanTransition, CanTransition,
       Commands!WorkflowTransitions, WorkflowTransitions, Commands!Absent, Absent,
       Commands!ActiveStatuses, ActiveStatuses, Commands!InitialStatus, InitialStatus,
       Commands!FailRun, FailRun, Commands!FailTarget, FailTarget,
       Commands!WriteFailure, WriteFailure, Commands!Move, Move,
       Commands!FinalizeNoAction, FinalizeNoAction, Commands!WriteNoAction, WriteNoAction,
       Commands!FinalizeForApproval, FinalizeForApproval,
       Commands!WriteProposal, WriteProposal,
       Commands!IsPending, IsPending, Commands!IsExecuted, IsExecuted

\* What people do.
LEMMA SameDecision ==
  ASSUME NEW w, NEW t
  PROVE  /\ Commands!CancelWorkflow(w, Supervisor) => CancelWorkflow(w, Supervisor)
         /\ Commands!ApproveAndExecute(w, Supervisor) => ApproveAndExecute(w, Supervisor)
         /\ Commands!RejectApproval(w, Supervisor) => RejectApproval(w, Supervisor)
         /\ Commands!ResetTicket(t) => ResetTicket(t)
BY DEF Commands!CancelWorkflow, CancelWorkflow, Commands!May, May,
       Commands!RolePermissions, RolePermissions, Commands!Exists, Exists,
       Commands!Terminal, Terminal, Commands!TerminalStatuses, TerminalStatuses,
       Commands!WriteCancellation, WriteCancellation, Commands!Move, Move,
       Commands!ApproveAndExecute, ApproveAndExecute, Commands!IsExecuted, IsExecuted,
       Commands!WriteExecution, WriteExecution, Commands!RejectApproval, RejectApproval,
       Commands!WriteRejection, WriteRejection, Commands!ResetTicket, ResetTicket,
       Commands!DeleteTicket, DeleteTicket, Commands!WorkflowsOf, WorkflowsOf,
       Commands!RunsOf, RunsOf, Commands!RunExists, RunExists, Commands!Absent, Absent,
       Commands!NoWorkflow, NoWorkflow, Commands!NoRun, NoRun,
       Commands!NoApproval, NoApproval

\* A run that is still running may end in every way the loop ends it.
LEMMA RunningMayEnd ==
  ASSUME IInv, NEW r \in RunIds, run[r].status = "running",
         NEW target \in {"needs_retry", "completed_no_action", "awaiting_approval"}
  PROVE  MayEnd(r, target)
<1>1. workflow[run[r].workflow].status = "investigating"
  BY DEF IInv, RunTracksWorkflow, RunExists, Absent
<1> QED BY <1>1 DEF MayEnd, CanTransition, Absent, ActiveStatuses, WorkflowTransitions

\* A call that ends its run: what holds but for the log.
LEMMA EndStep ==
  ASSUME AgentInv, NEW c \in Calls, Live(c), NEW r \in RunIds, call[c].run = r,
         NEW ended \in {"completed", "failed"}, IInv',
         run' = [run EXCEPT ![r].status = ended], evidence' = evidence,
         Goto(c, "answered")
  PROVE  /\ CallsAreSound' /\ OneLoopPerRun' /\ OnlyRefusalsStrand' /\ AcceptanceIsExact'
         /\ \A d \in Calls : call'[d].pc \in LivePcs =>
              d # c /\ call'[d] = call[d] /\ call[d].run # r
<1>1. CallSteps(c) /\ call'[c].pc = "answered"
  BY GotoEffect DEF Ended
<1>2. \A d \in Calls \ {c} : call'[d] = call[d] /\ call[d].run # r
  BY <1>1, NoneAssumption DEF CallSteps, AgentInv, OneLoopPerRun
<1>3. LivePcs \cap Ended = {} /\ "answered" \in Ended
  BY DEF LivePcs, Ended
<1>4. /\ run'[r].status = ended
      /\ \A q \in RunIds \ {r} : run'[q] = run[q]
  BY DEF AgentInv, IInv, TypeOK, RunRows
<1>5. CallsAreSound'
  <2> SUFFICES ASSUME NEW d \in Calls
               PROVE  /\ call'[d].pc \notin Ended =>
                           /\ call'[d].run \in RunIds /\ call'[d].ticket \in Tickets
                           /\ run'[call'[d].run].status # "completed"
                      /\ call'[d].pc \in {"draft", "draft_trace", "finalize"} =>
                           "invoice" \in call'[d].decision.refs
    BY <1>1 DEF CallsAreSound, CallSteps, Live, AgentInv
  <2>1. CASE d = c
    BY <2>1, <1>1, <1>3
  <2>2. CASE d # c
    BY <2>2, <1>2, <1>4 DEF AgentInv, CallsAreSound, Live
  <2> QED BY <2>1, <2>2
<1>6. OneLoopPerRun'
  BY <1>1 DEF AgentInv, OneLoopPerRun, CallSteps
<1>7. AcceptanceIsExact'
  BY <1>1 DEF AgentInv, AcceptanceIsExact, CallSteps
<1>8. OnlyRefusalsStrand'
  <2> SUFFICES ASSUME NEW q \in RunIds, run'[q].status = "running"
               PROVE  \E d \in Calls :
                        /\ call'[d].run = q
                        /\ \/ call'[d].pc \notin Ended
                           \/ call'[d].pc = "dead"
                           \/ /\ call'[d].pc = "raised"
                              /\ call'[d].cause \in {"evidence", "escaped", "duplicate"}
    BY DEF OnlyRefusalsStrand, Live
  <2>1. q # r /\ run[q].status = "running"
    BY <1>4
  <2>2. PICK d \in Calls :
          /\ call[d].run = q
          /\ \/ call[d].pc \notin Ended
             \/ call[d].pc = "dead"
             \/ /\ call[d].pc = "raised"
                /\ call[d].cause \in {"evidence", "escaped", "duplicate"}
    BY <2>1 DEF AgentInv, OnlyRefusalsStrand, Live
  <2> QED BY <1>2, <2>1, <2>2
<1>9. \A d \in Calls : call'[d].pc \in LivePcs => d # c /\ call'[d] = call[d] /\ call[d].run # r
  BY <1>1, <1>2, <1>3
<1> QED BY <1>5, <1>6, <1>7, <1>8, <1>9

\* A step that writes no trace, ends no run as completed and approves nothing
\* keeps what the logs say.
LEMMA LogsKept ==
  ASSUME AgentInv, trace' = trace,
         \A w \in WorkflowIds :
           /\ approval'[w].run = approval[w].run
           /\ \/ approval'[w].status = approval[w].status
              \/ /\ approval[w].status = "pending"
                 /\ approval'[w].status \in {"withdrawn", "rejected"},
         \A q \in RunIds :
           \/ run'[q] = run[q]
           \/ /\ run[q].status # "completed"
              /\ run'[q].status \in {"failed", "cancelled"},
         \A c \in Calls : call'[c].pc \in LivePcs \ {"fail"} => call'[c] = call[c]
  PROVE  LogsAreSound'
<1>1. \A q \in RunIds : ExcusedLog(q) => ExcusedLog(q)'
  BY DEF ExcusedLog, SettledRequest, CleanLog
<1>2. \A q \in RunIds : /\ run'[q].status = Absent => trace'[q] = << >>
                        /\ run'[q].status = "completed" => trace'[q] # << >> /\ ExcusedLog(q)'
  BY <1>1 DEF AgentInv, LogsAreSound, Absent
<1>5. \A c \in Calls : call'[c].pc \in LivePcs \ {"fail"} => CleanLog(call[c].run)'
  <2> SUFFICES ASSUME NEW c \in Calls, call'[c].pc \in LivePcs \ {"fail"}
               PROVE  \A i \in DOMAIN trace[call[c].run] :
                        TraceFailures(trace[call[c].run][i], TRUE) = {}
    BY DEF CleanLog
  <2>1. call[c].pc \in LivePcs \ {"fail"}
    OBVIOUS
  <2> QED BY <2>1 DEF AgentInv, LogsAreSound, CleanLog
<1>6. \A w \in WorkflowIds : approval[w].run \in RunIds \cup {None}
  BY DEF AgentInv, IInv, TypeOK, ApprovalRows
<1>7. \A w \in WorkflowIds : approval'[w].run # None => run'[approval'[w].run].status = "completed"
  <2> SUFFICES ASSUME NEW w \in WorkflowIds, approval'[w].run # None
               PROVE  run'[approval'[w].run].status = "completed"
    OBVIOUS
  <2>1. approval'[w].run = approval[w].run /\ approval[w].run \in RunIds
    BY <1>6
  <2>2. run[approval[w].run].status = "completed"
    BY <2>1 DEF AgentInv, LogsAreSound
  <2> QED BY <2>1, <2>2
<1>8. \A w \in WorkflowIds : approval'[w].run # None =>
        /\ w \in TracedApprovals(trace'[approval'[w].run], {"approval.create_request"})
        /\ approval'[w].status = "approved" =>
             w \in TracedApprovals(trace'[approval'[w].run], MutationPolicies)
  BY DEF AgentInv, LogsAreSound
<1>9. trace' \in [RunIds -> Seq(TraceRows)]
  BY DEF AgentInv, LogsAreSound
<1> QED BY <1>2, <1>5, <1>7, <1>8, <1>9 DEF LogsAreSound

\* fail_run, or its refusal, which leaves no running run either.
LEMMA FailStep ==
  ASSUME AgentInv, NEW c \in Calls, Fail(c)
  PROVE  AgentInv'
<1>1. /\ Live(c) /\ call[c].pc = "fail" /\ trace' = trace /\ evidence' = evidence
  BY DEF Fail, Live, Ended
<1>2. PICK r \in RunIds : call[c].run = r
  BY <1>1 DEF AgentInv, CallsAreSound
<1>3. CASE Commands!FailRun(r, TRUE) /\ Goto(c, "answered")
  <2>1. FailRun(r, TRUE)
    BY <1>3, SameEnd
  <2>2. IInv'
    BY <2>1, FailRunStep DEF AgentInv
  <2>3. run' = [run EXCEPT ![r].status = "failed"] /\ approval' = approval
    BY <2>1 DEF FailRun, WriteFailure
  <2>4. /\ CallsAreSound' /\ OneLoopPerRun' /\ OnlyRefusalsStrand' /\ AcceptanceIsExact'
        /\ \A d \in Calls : call'[d].pc \in LivePcs =>
             d # c /\ call'[d] = call[d] /\ call[d].run # r
    BY <1>1, <1>2, <1>3, <2>2, <2>3, EndStep
  <2>5. /\ run'[r].status = "failed" /\ \A q \in RunIds \ {r} : run'[q] = run[q]
    BY <2>3 DEF AgentInv, IInv, TypeOK, RunRows
  <2>6. run[r].status # "completed"
    BY <2>1 DEF FailRun, MayEnd
  <2>7. LogsAreSound'
    BY <1>1, <2>3, <2>4, <2>5, <2>6, LogsKept
  <2> QED BY <2>2, <2>4, <2>7 DEF AgentInv
<1>4. CASE ~Commands!MayEnd(r, "needs_retry") /\ Raise(c, "superseded") /\ UNCHANGED tables
  <2>1. run[r].status # "running"
    BY <1>4, SameEnd, RunningMayEnd DEF AgentInv
  <2>2. CallSteps(c) /\ call'[c].pc = "raised"
    BY <1>1, <1>4, RaiseEffect DEF Causes
  <2> QED BY <1>1, <1>2, <1>4, <2>1, <2>2, SilentStep DEF EndsWithReason, LivePcs
<1> QED BY <1>2, <1>3, <1>4 DEF Fail

\* The traces finalize_run writes never lack a reference, though nobody looks.
LEMMA FinalTraces ==
  ASSUME NEW refs \in RefSets, "invoice" \in refs, NEW w \in WorkflowIds,
         NEW cites \in BOOLEAN, cites
  PROVE  LET draft == Governed("draft.resolution", refs, cites, {}, Absent)
             proposal == Governed("approval.create_request", refs, cites, {w}, Absent)
         IN /\ draft \in TraceRows /\ TraceFailures(draft, TRUE) = {}
            /\ proposal \in TraceRows /\ TraceFailures(proposal, TRUE) = {}
            /\ proposal.policy = "approval.create_request" /\ proposal.approvals = {w}
<1>1. MissingRefs("draft.resolution", refs, cites, {}) = {}
  BY DEF MissingRefs, RequiredRefs, RequiredEvidence, PolicyIds, RequiresPolicyRefs,
         RequiresApprovalRef, MutationPolicies
<1>2. MissingRefs("approval.create_request", refs, cites, {w}) = {}
  BY DEF MissingRefs, RequiredRefs, RequiredEvidence, PolicyIds, RequiresPolicyRefs,
         RequiresApprovalRef, MutationPolicies
<1>3. /\ "draft.resolution" \in PolicyIds /\ "approval.create_request" \in PolicyIds
      /\ {} \in WorkflowSets /\ {w} \in WorkflowSets
  BY DEF PolicyIds, WorkflowSets
<1> DEFINE draft == Governed("draft.resolution", refs, cites, {}, Absent)
           proposal == Governed("approval.create_request", refs, cites, {w}, Absent)
<1>4. draft \in TraceRows
  BY <1>1, <1>3, CompleteTrace
<1>5. TraceFailures(draft, TRUE) = {}
  BY <1>1, <1>3, CompleteTrace
<1>6. proposal \in TraceRows
  BY <1>2, <1>3, CompleteTrace
<1>7. TraceFailures(proposal, TRUE) = {}
  BY <1>2, <1>3, CompleteTrace
<1>8. proposal.policy = "approval.create_request"
  BY <1>2 DEF Governed, Trace
<1>9. proposal.approvals = {w}
  BY <1>2 DEF Governed, Trace
<1> QED BY <1>4, <1>5, <1>6, <1>7, <1>8, <1>9

\* The log of a completed run, and the logs of the others.
LEMMA CompletedLog ==
  ASSUME AgentInv, NEW r \in RunIds, NEW log \in Seq(TraceRows), log # << >>,
         \A i \in DOMAIN log : TraceFailures(log[i], TRUE) = {},
         \A policies : TracedApprovals(trace[r], policies) \subseteq TracedApprovals(log, policies),
         trace' = [trace EXCEPT ![r] = log],
         run' = [run EXCEPT ![r].status = "completed"],
         \A d \in Calls : call'[d].pc \in LivePcs => call'[d] = call[d] /\ call[d].run # r,
         \A w \in WorkflowIds :
           \/ approval'[w] = approval[w]
           \/ /\ approval[w].status = Absent
              /\ approval'[w].status = "pending" /\ approval'[w].run = r
              /\ w \in TracedApprovals(log, {"approval.create_request"})
  PROVE  LogsAreSound'
<1>1. /\ run'[r].status = "completed"
      /\ \A q \in RunIds \ {r} : run'[q] = run[q]
  BY DEF AgentInv, IInv, TypeOK, RunRows
<1>2. /\ trace' \in [RunIds -> Seq(TraceRows)]
      /\ \A q \in RunIds \ {r} : trace'[q] = trace[q]
      /\ trace'[r] = log
  BY DEF AgentInv, LogsAreSound
<1>3. \A q \in RunIds : CleanLog(q) \/ q = r => CleanLog(q)'
  BY <1>2 DEF CleanLog
<1>4. \A q \in RunIds : /\ run'[q].status = Absent => trace'[q] = << >>
                        /\ run'[q].status = "completed" => trace'[q] # << >> /\ ExcusedLog(q)'
  <2>1. \A q \in RunIds : SettledRequest(q) => SettledRequest(q)'
    BY DEF SettledRequest, Absent
  <2>2. \A q \in RunIds \ {r} : ExcusedLog(q) => ExcusedLog(q)'
    BY <1>2, <2>1 DEF ExcusedLog, CleanLog
  <2>3. ExcusedLog(r)'
    BY <1>2 DEF ExcusedLog, CleanLog
  <2> QED BY <1>1, <1>2, <2>2, <2>3 DEF AgentInv, LogsAreSound, Absent
<1>5. ASSUME NEW d \in Calls, call'[d].pc \in LivePcs \ {"fail"}
      PROVE  CleanLog(call[d].run)'
  <2>1. call'[d] = call[d] /\ CleanLog(call[d].run) /\ call[d].run # r
    BY <1>5 DEF AgentInv, LogsAreSound
  <2>2. PICK q \in RunIds : q = call[d].run /\ q = call'[d].run
    BY <1>5, <2>1 DEF AgentInv, CallsAreSound, Live, LivePcs, Ended
  <2>3. CleanLog(q)'
    BY <2>1, <2>2, <1>3
  <2> QED BY <2>2, <2>3 DEF CleanLog
<1>6. ASSUME NEW w \in WorkflowIds, approval'[w].run # None
      PROVE  /\ w \in TracedApprovals(trace'[approval'[w].run], {"approval.create_request"})
             /\ approval'[w].status = "approved" =>
                  w \in TracedApprovals(trace'[approval'[w].run], MutationPolicies)
  <2>1. CASE approval'[w] = approval[w]
    <3>1. approval[w].run \in RunIds
      BY <1>6, <2>1 DEF AgentInv, IInv, TypeOK, ApprovalRows
    <3> QED BY <1>2, <1>6, <2>1, <3>1 DEF AgentInv, LogsAreSound
  <2>2. CASE approval'[w] # approval[w]
    BY <1>2, <2>2
  <2> QED BY <2>1, <2>2
<1>7. ASSUME NEW w \in WorkflowIds, approval'[w].run # None
      PROVE  run'[approval'[w].run].status = "completed"
  <2>1. CASE approval'[w] = approval[w]
    <3>1. approval[w].run \in RunIds /\ run[approval[w].run].status = "completed"
      BY <1>7, <2>1 DEF AgentInv, IInv, TypeOK, ApprovalRows, LogsAreSound
    <3> QED BY <1>1, <2>1, <3>1
  <2>2. CASE approval'[w] # approval[w]
    BY <1>1, <2>2
  <2> QED BY <2>1, <2>2
<1> QED BY <1>2, <1>4, <1>5, <1>6, <1>7 DEF LogsAreSound, Absent

\* finalize_run: the run completes with all the traces the check will ask for.
LEMMA FinalizeStep ==
  ASSUME AgentInv, NEW c \in Calls, Finalize(c)
  PROVE  AgentInv'
<1>1. /\ Live(c) /\ call[c].pc = "finalize" /\ Goto(c, "answered") /\ evidence' = evidence
      /\ "invoice" \in call[c].decision.refs
  BY DEF Finalize, Live, Ended, AgentInv, CallsAreSound
<1>2. PICK r \in RunIds : call[c].run = r
  BY <1>1 DEF AgentInv, CallsAreSound
<1>3. trace[r] \in Seq(TraceRows) /\ \A i \in DOMAIN trace[r] : TraceFailures(trace[r][i], TRUE) = {}
  BY <1>1, <1>2 DEF AgentInv, LogsAreSound, LivePcs, CleanLog
<1> DEFINE refs == call[c].decision.refs
<1>4. refs \in RefSets /\ call[c].decision.action \in Actions \cup {NoAction}
  BY DEF RefSets, AgentInv, CallsAreSound, CallRecords, DecisionRecords
<1>5. ASSUME FinalizeNoAction(r), trace' = [trace EXCEPT ![r] = Append(@, DraftTrace(c))]
      PROVE  AgentInv'
  <2> DEFINE log == Append(trace[r], DraftTrace(c))
  <2>1. IInv'
    BY <1>5, FinalizeNoActionStep DEF AgentInv
  <2>2. run' = [run EXCEPT ![r].status = "completed"] /\ approval' = approval
    BY <1>5 DEF FinalizeNoAction, WriteNoAction
  <2>3. /\ CallsAreSound' /\ OneLoopPerRun' /\ OnlyRefusalsStrand' /\ AcceptanceIsExact'
        /\ \A d \in Calls : call'[d].pc \in LivePcs =>
             d # c /\ call'[d] = call[d] /\ call[d].run # r
    BY <1>1, <1>2, <2>1, <2>2, EndStep
  <2>4. DraftTrace(c) \in TraceRows /\ TraceFailures(DraftTrace(c), TRUE) = {}
    <3>1. run[r].workflow \in WorkflowIds
      BY <1>5 DEF FinalizeNoAction, MayEnd, AgentInv, IInv, RunTracksWorkflow, RunExists,
                  WorkflowsOf, Absent
    <3> DEFINE row == Governed("draft.resolution", refs, TRUE, {}, Absent)
    <3>2. row \in TraceRows /\ TraceFailures(row, TRUE) = {}
      <4> HIDE DEF refs
      <4> QED BY <1>1, <1>4, <3>1, FinalTraces DEF refs
    <3> QED BY <3>2 DEF DraftTrace
  <2>5. /\ log \in Seq(TraceRows) /\ log # << >>
        /\ \A i \in DOMAIN log : TraceFailures(log[i], TRUE) = {}
        /\ \A policies : TracedApprovals(trace[r], policies) \subseteq TracedApprovals(log, policies)
    BY <1>3, <2>4, AppendedLog
  <2>6. trace' = [trace EXCEPT ![r] = log]
    BY <1>5
  <2> HIDE DEF log
  <2>7. LogsAreSound'
    BY <2>2, <2>3, <2>5, <2>6, CompletedLog
  <2> QED BY <2>1, <2>3, <2>7 DEF AgentInv
<1>6. ASSUME NEW action \in Actions, FinalizeForApproval(r, action),
             trace' = [trace EXCEPT ![r] = @ \o <<DraftTrace(c), ApprovalTrace(c)>>]
      PROVE  AgentInv'
  <2> DEFINE w == run[r].workflow
             draft == DraftTrace(c)
             proposal == ApprovalTrace(c)
             log == Append(Append(trace[r], draft), proposal)
  <2>1. IInv'
    BY <1>6, FinalizeForApprovalStep DEF AgentInv
  <2>2. /\ run' = [run EXCEPT ![r].status = "completed"]
        /\ approval' = [approval EXCEPT
             ![w] = [status |-> "pending", action |-> action, run |-> r, decider |-> None]]
    BY <1>6 DEF FinalizeForApproval, WriteProposal
  <2>3. /\ CallsAreSound' /\ OneLoopPerRun' /\ OnlyRefusalsStrand' /\ AcceptanceIsExact'
        /\ \A d \in Calls : call'[d].pc \in LivePcs =>
             d # c /\ call'[d] = call[d] /\ call[d].run # r
    BY <1>1, <1>2, <2>1, <2>2, EndStep
  <2>4. w \in WorkflowIds
    BY <1>6 DEF FinalizeForApproval, MayEnd, AgentInv, IInv, RunTracksWorkflow, RunExists,
                WorkflowsOf, Absent
  <2>5. /\ draft \in TraceRows /\ TraceFailures(draft, TRUE) = {}
        /\ proposal \in TraceRows /\ TraceFailures(proposal, TRUE) = {}
        /\ proposal.policy = "approval.create_request" /\ proposal.approvals = {w}
    <3>1. /\ draft = Governed("draft.resolution", refs, TRUE, {}, Absent)
          /\ proposal = Governed("approval.create_request", refs, TRUE, {w}, Absent)
      BY <1>2 DEF DraftTrace, ApprovalTrace
    <3> HIDE DEF draft, proposal, refs, w
    <3> QED BY <1>1, <1>4, <2>4, <3>1, FinalTraces DEF refs
  <2>6. log = trace[r] \o <<draft, proposal>>
    <3> HIDE DEF draft, proposal
    <3> QED BY <1>3, <2>5
  <2> HIDE DEF draft, proposal
  <2>7. /\ log \in Seq(TraceRows) /\ log # << >>
        /\ \A i \in DOMAIN log : TraceFailures(log[i], TRUE) = {}
        /\ \A policies : TracedApprovals(trace[r], policies) \subseteq TracedApprovals(log, policies)
        /\ w \in TracedApprovals(log, {"approval.create_request"})
    <3> DEFINE half == Append(trace[r], draft)
    <3>1. /\ half \in Seq(TraceRows)
          /\ \A i \in DOMAIN half : TraceFailures(half[i], TRUE) = {}
          /\ \A policies : TracedApprovals(trace[r], policies) \subseteq TracedApprovals(half, policies)
      BY <1>3, <2>5, AppendedLog
    <3> HIDE DEF half
    <3>2. /\ Append(half, proposal) \in Seq(TraceRows) /\ Append(half, proposal) # << >>
          /\ \A i \in DOMAIN Append(half, proposal) :
               TraceFailures(Append(half, proposal)[i], TRUE) = {}
          /\ \A policies : TracedApprovals(half, policies)
                             \subseteq TracedApprovals(Append(half, proposal), policies)
          /\ proposal.approvals \subseteq
               TracedApprovals(Append(half, proposal), {"approval.create_request"})
      BY <2>5, <3>1, AppendedLog
    <3> QED BY <2>5, <3>1, <3>2 DEF half
  <2>8. trace' = [trace EXCEPT ![r] = log]
    BY <1>6, <2>6 DEF draft, proposal
  <2> HIDE DEF log, w
  <2>9. \A v \in WorkflowIds :
          \/ approval'[v] = approval[v]
          \/ /\ approval[v].status = Absent
             /\ approval'[v].status = "pending" /\ approval'[v].run = r
             /\ v \in TracedApprovals(log, {"approval.create_request"})
    BY <1>6, <2>2, <2>4, <2>7 DEF AgentInv, IInv, TypeOK, FinalizeForApproval, w
  <2>10. LogsAreSound'
    BY <2>2, <2>3, <2>7, <2>8, <2>9, CompletedLog
  <2> QED BY <2>1, <2>3, <2>10 DEF AgentInv
<1>7. CASE call[c].decision.action = NoAction
  BY <1>2, <1>5, <1>7, SameEnd DEF Finalize
<1>8. CASE call[c].decision.action # NoAction
  <2>1. PICK action \in Actions : action = call[c].decision.action
    BY <1>4, <1>8
  <2>2. /\ Commands!FinalizeForApproval(r, action)
        /\ trace' = [trace EXCEPT ![r] = @ \o <<DraftTrace(c), ApprovalTrace(c)>>]
    BY <1>2, <1>8, <2>1 DEF Finalize
  <2>3. FinalizeForApproval(r, action)
    BY <2>2, SameEnd
  <2> QED BY <1>6, <2>2, <2>3
<1> QED BY <1>7, <1>8

\* finalize_run's refusals: the run is no longer running, or its action is not new.
LEMMA FinalizeRefusedStep ==
  ASSUME AgentInv, NEW c \in Calls, FinalizeRefused(c)
  PROVE  AgentInv'
<1>1. /\ Live(c) /\ call[c].pc = "finalize" /\ UNCHANGED tables
      /\ trace' = trace /\ evidence' = evidence
  BY DEF FinalizeRefused, Live, Ended
<1>2. PICK r \in RunIds : call[c].run = r
  BY <1>1 DEF AgentInv, CallsAreSound
<1>3. CASE Raise(c, "duplicate")
  <2>1. CallSteps(c) /\ call'[c].pc = "raised" /\ call'[c].cause = "duplicate"
    BY <1>1, <1>3, RaiseEffect DEF Causes
  <2> QED BY <1>1, <2>1, SilentStep DEF EndsWithReason, LivePcs
<1>4. ASSUME NEW target \in {"completed_no_action", "awaiting_approval"},
             ~Commands!MayEnd(r, target), Raise(c, "superseded")
      PROVE  AgentInv'
  <2>1. run[r].status # "running"
    BY <1>4, SameEnd, RunningMayEnd DEF AgentInv
  <2>2. CallSteps(c) /\ call'[c].pc = "raised"
    BY <1>1, <1>4, RaiseEffect DEF Causes
  <2> QED BY <1>1, <1>2, <2>1, <2>2, SilentStep DEF EndsWithReason, LivePcs
<1> QED BY <1>2, <1>3, <1>4 DEF FinalizeRefused

-----------------------------------------------------------------------------
(* Starting, and the people.                                               *)

\* A call that only answers has no run.
LEMMA ReplayStep ==
  ASSUME AgentInv, NEW c \in Calls, NEW t \in Tickets, NEW k \in Keys, Replay(c, t, k)
  PROVE  AgentInv'
<1> DEFINE new == [Idle EXCEPT !.pc = "answered", !.ticket = t]
<1>1. /\ call[c].pc = "idle" /\ call' = [call EXCEPT ![c] = new]
      /\ UNCHANGED tables /\ trace' = trace /\ evidence' = evidence
  BY DEF Replay
<1>2. /\ new \in CallRecords /\ new.pc = "answered" /\ new.run = None
      /\ new.accepted = FALSE /\ new.follows = FALSE
  BY DEF Idle, CallRecords, Conclude, DecisionRecords, Outcomes, Causes, Ended
<1> HIDE DEF new
<1>3. /\ call' \in [Calls -> CallRecords] /\ call'[c] = new
      /\ \A d \in Calls \ {c} : call'[d] = call[d]
  BY <1>1, <1>2 DEF AgentInv, CallsAreSound
<1>4. IInv'
  BY <1>1, StutterIInv DEF AgentInv
<1>5. CallsAreSound'
  BY <1>1, <1>2, <1>3 DEF AgentInv, CallsAreSound, Live, Ended, tables
<1>6. OneLoopPerRun'
  BY <1>2, <1>3 DEF AgentInv, OneLoopPerRun
<1>7. OnlyRefusalsStrand'
  BY <1>1, <1>3 DEF AgentInv, OnlyRefusalsStrand, Live, Ended, tables
<1>8. AcceptanceIsExact'
  BY <1>2, <1>3 DEF AgentInv, AcceptanceIsExact
<1>9. "answered" \notin LivePcs
  BY DEF LivePcs
<1>10. LogsAreSound'
  BY <1>1, <1>2, <1>3, <1>9 DEF AgentInv, LogsAreSound, ExcusedLog, SettledRequest, CleanLog, tables
<1> QED BY <1>4, <1>5, <1>6, <1>7, <1>8, <1>10 DEF AgentInv

\* A call that starts a run is the only one that has it.
LEMMA StartStep ==
  ASSUME AgentInv, NEW c \in Calls, NEW t \in Tickets, NEW k \in Keys,
         NEW w \in WorkflowIds, NEW r \in RunIds, Start(c, t, k, w, r)
  PROVE  AgentInv'
<1> DEFINE new == [Idle EXCEPT !.pc = "plan", !.ticket = t, !.run = r]
<1>1. /\ call[c].pc = "idle" /\ call' = [call EXCEPT ![c] = new]
      /\ trace' = trace /\ evidence' = evidence
      /\ \A d \in Calls : call[d].run # r
  BY DEF Start, Fresh
<1>2. StartCycle(t, k, w, r) \/ StartRetry(t, k, w, r)
  BY SameStart DEF Start
<1>3. IInv'
  BY <1>2, StartCycleStep, StartRetryStep DEF AgentInv
<1>4. /\ run[r].status = Absent
      /\ run' = [run EXCEPT ![r] = NewRun(t, k, w)] /\ approval' = approval
  BY <1>2 DEF StartCycle, StartRetry, InsertCycle, InsertRetry, RunExists
<1>5. /\ run'[r].status = "running" /\ \A q \in RunIds \ {r} : run'[q] = run[q]
  BY <1>4 DEF NewRun, AgentInv, IInv, TypeOK
<1>6. /\ new \in CallRecords /\ new.pc = "plan" /\ new.run = r /\ new.ticket = t
      /\ new.accepted = FALSE /\ new.follows = FALSE
  BY DEF Idle, CallRecords, Conclude, DecisionRecords, Outcomes, Causes, LivePcs
<1> HIDE DEF new
<1>7. /\ call' \in [Calls -> CallRecords] /\ call'[c] = new
      /\ \A d \in Calls \ {c} : call'[d] = call[d]
  BY <1>1, <1>6 DEF AgentInv, CallsAreSound
<1>8. CallsAreSound'
  BY <1>1, <1>5, <1>6, <1>7 DEF AgentInv, CallsAreSound, Live
<1>9. OneLoopPerRun'
  BY <1>1, <1>6, <1>7 DEF AgentInv, OneLoopPerRun
<1>10. OnlyRefusalsStrand'
  <2> SUFFICES ASSUME NEW q \in RunIds, run'[q].status = "running"
               PROVE  \E d \in Calls :
                        /\ call'[d].run = q
                        /\ \/ call'[d].pc \notin Ended
                           \/ call'[d].pc = "dead"
                           \/ /\ call'[d].pc = "raised"
                              /\ call'[d].cause \in {"evidence", "escaped", "duplicate"}
    BY DEF OnlyRefusalsStrand, Live
  <2>1. CASE q = r
    BY <2>1, <1>6, <1>7 DEF Ended
  <2>2. CASE q # r
    <3>1. run[q].status = "running"
      BY <2>2, <1>5
    <3>2. PICK d \in Calls :
            /\ call[d].run = q
            /\ \/ call[d].pc \notin Ended
               \/ call[d].pc = "dead"
               \/ /\ call[d].pc = "raised"
                  /\ call[d].cause \in {"evidence", "escaped", "duplicate"}
      BY <3>1 DEF AgentInv, OnlyRefusalsStrand, Live
    <3>3. d # c
      BY <3>2, <1>1 DEF Ended
    <3> QED BY <3>2, <3>3, <1>7
  <2> QED BY <2>1, <2>2
<1>11. AcceptanceIsExact'
  BY <1>6, <1>7 DEF AgentInv, AcceptanceIsExact
<1>12. LogsAreSound'
  <2>1. trace[r] = << >>
    BY <1>4 DEF AgentInv, LogsAreSound
  <2>2. \A q \in RunIds : CleanLog(q) \/ q = r => CleanLog(q)'
    <3>1. DOMAIN trace[r] = {}
      BY <2>1
    <3> QED BY <1>1, <3>1 DEF CleanLog
  <2>3. \A q \in RunIds : /\ run'[q].status = Absent => trace'[q] = << >>
                          /\ run'[q].status = "completed" => trace'[q] # << >> /\ ExcusedLog(q)'
    BY <1>1, <1>4, <1>5, <2>2
       DEF AgentInv, LogsAreSound, ExcusedLog, SettledRequest, CleanLog, Absent
  <2>4. ASSUME NEW d \in Calls, call'[d].pc \in LivePcs \ {"fail"}
        PROVE  CleanLog(call[d].run)'
    <3>1. PICK q \in RunIds : q = call'[d].run /\ (d = c => q = r)
      BY <1>6, <1>7, <2>4 DEF AgentInv, CallsAreSound, Live, LivePcs, Ended
    <3>2. d # c => CleanLog(q)
      BY <3>1, <1>7, <2>4 DEF AgentInv, LogsAreSound
    <3>3. CleanLog(q)'
      BY <3>1, <3>2, <2>2
    <3> QED BY <3>1, <3>3 DEF CleanLog
  <2> QED BY <1>1, <1>4, <2>3, <2>4 DEF AgentInv, LogsAreSound
<1> QED BY <1>3, <1>8, <1>9, <1>10, <1>11, <1>12 DEF AgentInv

\* What people do starts, completes and finishes no run.
LEMMA PeopleStep ==
  ASSUME AgentInv, call' = call, evidence' = evidence,
         \A q \in RunIds : run'[q] = run[q] \/ run'[q].status \in {"cancelled", Absent}
  PROVE  /\ CallsAreSound' /\ OneLoopPerRun' /\ OnlyRefusalsStrand' /\ AcceptanceIsExact'
<1>1. \A q \in RunIds : /\ run'[q].status = "running" => run[q].status = "running"
                        /\ run'[q].status = "completed" => run[q].status = "completed"
  BY DEF Absent
<1>2. CallsAreSound'
  BY <1>1 DEF AgentInv, CallsAreSound, Live
<1>3. OnlyRefusalsStrand'
  BY <1>1 DEF AgentInv, OnlyRefusalsStrand, Live
<1> QED BY <1>2, <1>3 DEF AgentInv, OneLoopPerRun, AcceptanceIsExact

\* Cancellation withdraws the request and ends the run, and writes no trace.
LEMMA CancelStep ==
  ASSUME AgentInv, NEW w \in WorkflowIds, Cancel(w)
  PROVE  AgentInv'
<1>1. call' = call /\ trace' = trace /\ evidence' = evidence
  BY DEF Cancel, locals
<1>2. CancelWorkflow(w, Supervisor) /\ Supervisor \in Roles
  BY SameDecision DEF Cancel, Supervisor, Roles
<1>3. IInv'
  BY <1>2, CancelWorkflowStep DEF AgentInv
<1>4. /\ \A v \in WorkflowIds :
           \/ approval'[v] = approval[v]
           \/ /\ approval[v].status = "pending" /\ approval'[v].status = "withdrawn"
              /\ approval'[v].run = approval[v].run
      /\ \A q \in RunIds :
           \/ run'[q] = run[q]
           \/ run[q].status = "running" /\ run'[q].status = "cancelled"
  BY <1>2, CancelEffect DEF AgentInv, IInv
<1>5. LogsAreSound'
  BY <1>1, <1>4, LogsKept
<1> QED BY <1>1, <1>3, <1>4, <1>5, PeopleStep DEF AgentInv

\* Rejection refuses the request, and writes no trace either.
LEMMA RejectStep ==
  ASSUME AgentInv, NEW w \in WorkflowIds, Reject(w)
  PROVE  AgentInv'
<1>1. call' = call /\ trace' = trace /\ evidence' = evidence
  BY DEF Reject, locals
<1>2. RejectApproval(w, Supervisor) /\ Supervisor \in Roles
  BY SameDecision DEF Reject, Supervisor, Roles
<1>3. IInv'
  BY <1>2, RejectApprovalStep DEF AgentInv
<1>4. /\ \A v \in WorkflowIds :
           \/ approval'[v] = approval[v]
           \/ /\ approval[v].status = "pending" /\ approval'[v].status = "rejected"
              /\ approval'[v].run = approval[v].run
      /\ run' = run
  BY <1>2 DEF RejectApproval, WriteRejection, AgentInv, IInv, TypeOK, ApprovalRows
<1>5. LogsAreSound'
  BY <1>1, <1>4, LogsKept
<1> QED BY <1>1, <1>3, <1>4, <1>5, PeopleStep DEF AgentInv

\* Approval writes the mutation's trace to the request's run, and it lacks nothing.
LEMMA ApproveStep ==
  ASSUME AgentInv, NEW w \in WorkflowIds, Approve(w)
  PROVE  AgentInv'
<1> DEFINE type == approval[w].action.type
           policy == MutationPolicy(type)
           refs == ActionRefs(type)
           row == Governed(policy, refs, TRUE, {w}, Absent)
<1>1. call' = call /\ evidence' = evidence
  BY DEF Approve
<1>2. ApproveAndExecute(w, Supervisor) /\ Supervisor \in Roles
  BY SameDecision DEF Approve, Supervisor, Roles
<1>3. IInv'
  BY <1>2, ApproveAndExecuteStep DEF AgentInv
<1>4. /\ run' = run /\ approval[w].status = "pending"
      /\ \A v \in WorkflowIds :
           /\ v # w => approval'[v] = approval[v]
           /\ approval'[v].run = approval[v].run
  BY <1>2 DEF ApproveAndExecute, WriteExecution, AgentInv, IInv, TypeOK, ApprovalRows, Absent
<1>5. PICK r \in RunIds : approval[w].run = r
  BY <1>4 DEF AgentInv, IInv, RowsAreComplete, TypeOK, ApprovalRows, Absent
<1>6. /\ run[r].status # Absent
      /\ trace' = [trace EXCEPT ![r] = Append(@, row)]
  <2>1. run[r].workflow = w
    BY <1>4, <1>5, NoneAssumption DEF AgentInv, IInv, DecisionsAgree, Absent
  <2>2. run[r].status # Absent
    BY <2>1, NoneAssumption DEF AgentInv, IInv, RowsAreComplete, NoRun
  <2> QED BY <2>2, <1>5 DEF Approve
<1>7. row \in TraceRows /\ TraceFailures(row, TRUE) = {}
      /\ row.policy \in MutationPolicies /\ row.approvals = {w}
  <2>1. /\ policy \in PolicyIds /\ policy \in MutationPolicies
        /\ refs \in RefSets /\ {w} \in WorkflowSets
    BY DEF MutationPolicy, PolicyIds, MutationPolicies, ActionRefs, RefSets, RefNames, WorkflowSets
  <2>2. MissingRefs(policy, refs, TRUE, {w}) = {}
    BY DEF MissingRefs, RequiredRefs, RequiredEvidence, PolicyIds, MutationPolicy, ActionRefs
  <2>3. row.policy = policy /\ row.approvals = {w}
    BY <2>2 DEF Governed, Trace
  <2> HIDE DEF policy, refs
  <2>4. row \in TraceRows /\ TraceFailures(row, TRUE) = {}
    BY <2>1, <2>2, CompleteTrace
  <2> QED BY <2>1, <2>3, <2>4
<1> HIDE DEF row
<1>8. /\ trace' \in [RunIds -> Seq(TraceRows)]
      /\ \A q \in RunIds \ {r} : trace'[q] = trace[q]
      /\ trace'[r] = Append(trace[r], row)
      /\ trace[r] \in Seq(TraceRows)
  BY <1>6, <1>7, AppendedLog DEF AgentInv, LogsAreSound
<1>9. ASSUME NEW q \in RunIds
      PROVE  /\ \A policies : TracedApprovals(trace[q], policies)
                                \subseteq TracedApprovals(trace'[q], policies)
             /\ CleanLog(q) => CleanLog(q)'
             /\ ExcusedLog(q) => ExcusedLog(q)'
             /\ run[q].status = Absent => trace'[q] = << >>
             /\ run[q].status = "completed" => trace'[q] # << >>
  <2>1. SettledRequest(q) => SettledRequest(q)'
    BY <1>4 DEF SettledRequest
  <2>2. CASE q = r
    <3>1. /\ CleanLog(q) => CleanLog(q)'
          /\ \A policies : TracedApprovals(trace[q], policies)
                              \subseteq TracedApprovals(trace'[q], policies)
          /\ trace'[q] # << >>
      BY <2>2, <1>7, <1>8, AppendedLog DEF CleanLog
    <3>2. (\A i \in DOMAIN trace[q] :
             TraceFailures(trace[q][i], TRUE) \subseteq {"approval.terminal_conflict"}) =>
          (\A i \in DOMAIN trace'[q] :
             TraceFailures(trace'[q][i], TRUE) \subseteq {"approval.terminal_conflict"})
      BY <2>2, <1>7, <1>8, ExcusedAppend
    <3> QED BY <2>1, <2>2, <3>1, <3>2, <1>6 DEF ExcusedLog
  <2>3. CASE q # r
    <3>1. trace'[q] = trace[q]
      BY <2>3, <1>8
    <3> QED BY <2>1, <3>1 DEF ExcusedLog, CleanLog, AgentInv, LogsAreSound
  <2> QED BY <2>2, <2>3
<1>10. ASSUME NEW d \in Calls, call'[d].pc \in LivePcs \ {"fail"}
       PROVE  CleanLog(call[d].run)'
  <2>1. PICK q \in RunIds : q = call[d].run /\ CleanLog(q)
    BY <1>1, <1>10 DEF AgentInv, CallsAreSound, LogsAreSound, Live, LivePcs, Ended
  <2>2. CleanLog(q)'
    BY <2>1, <1>9
  <2> QED BY <1>1, <2>1, <2>2 DEF CleanLog
<1>11. ASSUME NEW v \in WorkflowIds, approval'[v].run # None
       PROVE  /\ v \in TracedApprovals(trace'[approval'[v].run], {"approval.create_request"})
              /\ approval'[v].status = "approved" =>
                   v \in TracedApprovals(trace'[approval'[v].run], MutationPolicies)
  <2>1. PICK q \in RunIds : approval[v].run = q /\ approval'[v].run = q
    BY <1>4, <1>11 DEF AgentInv, IInv, TypeOK, ApprovalRows
  <2>2. v \in TracedApprovals(trace'[q], {"approval.create_request"})
    BY <1>4, <1>9, <1>11, <2>1 DEF AgentInv, LogsAreSound
  <2>3. ASSUME approval'[v].status = "approved"
        PROVE  v \in TracedApprovals(trace'[q], MutationPolicies)
    <3>1. CASE v = w
      <4>1. q = r
        BY <1>5, <2>1, <3>1
      <4>2. row.approvals \subseteq TracedApprovals(Append(trace[r], row), MutationPolicies)
        BY <1>7, <1>8, AppendedLog
      <4> QED BY <4>1, <4>2, <1>7, <1>8, <3>1
    <3>2. CASE v # w
      <4>1. approval[v].status = "approved" /\ approval[v].run # None
        BY <3>2, <1>4, <1>11, <2>3
      <4> QED BY <4>1, <1>9, <2>1 DEF AgentInv, LogsAreSound
    <3> QED BY <3>1, <3>2
  <2> QED BY <2>1, <2>2, <2>3
<1>12. LogsAreSound'
  BY <1>4, <1>8, <1>9, <1>10, <1>11 DEF AgentInv, LogsAreSound, Absent
<1> QED BY <1>1, <1>3, <1>4, <1>12, PeopleStep DEF AgentInv

\* Only a request somebody rejected or withdrew is refused, and the refusal's
\* trace is the one thing the compliance check finds in it.
LEMMA RefusedApproval ==
  ASSUME AgentInv, NEW w \in WorkflowIds, ApproveRefused(w)
  PROVE  LET row == RefusedTrace(w) IN
         /\ approval[w].status \in {"rejected", "withdrawn"}
         /\ row \in TraceRows
         /\ row.policy \in MutationPolicies
         /\ TraceFailures(row, TRUE) = {"approval.terminal_conflict"}
<1> DEFINE type == approval[w].action.type
           policy == MutationPolicy(type)
           refs == ActionRefs(type)
           row == RefusedTrace(w)
<1>1. approval[w].status \in ApprovalStatuses
  BY DEF ApproveRefused, AgentInv, IInv, TypeOK, ApprovalRows, Absent
<1>2. approval[w].status # "approved"
  BY DEF ApproveRefused, RefusalOf, AgentInv, IInv, DecisionsAgree
<1>3. approval[w].status # "pending"
  <2>1. approval[w].status = "pending" =>
          /\ workflow[w].status = "awaiting_approval" /\ mutation[w] = None
          /\ ~IsExecuted(workflow[w].ticket, approval[w].action)
    BY DEF AgentInv, IInv, DecisionsAgree, NoDoubleExecution
  <2> QED BY <2>1 DEF ApproveRefused, RefusalOf
<1>4. /\ approval[w].status \in {"rejected", "withdrawn"}
      /\ RefusalOf(w) = "approval.terminal_conflict"
  BY <1>1, <1>2, <1>3 DEF ApprovalStatuses, RefusalOf
<1>5. /\ policy \in PolicyIds /\ policy \in MutationPolicies
      /\ refs \subseteq RefNames
  BY DEF MutationPolicy, PolicyIds, MutationPolicies, ActionRefs, RefNames
<1>6. MissingRefs(policy, refs, TRUE, {w}) = {}
  BY DEF MissingRefs, RequiredRefs, RequiredEvidence, PolicyIds, MutationPolicy, ActionRefs
<1> HIDE DEF policy, refs
<1>7. BlockedMetadata(policy, {}, "approval.terminal_conflict")
        = [form |-> "current", policy |-> policy, missing |-> {},
           gate |-> "blocked", reason |-> "approval.terminal_conflict"]
  BY DEF BlockedMetadata, Metadata, Absent
<1>8. row = [policy |-> policy, refs |-> refs, cites |-> TRUE, approvals |-> {w},
             error |-> "approval.terminal_conflict",
             metadata |-> [form |-> "current", policy |-> policy, missing |-> {},
                           gate |-> "blocked", reason |-> "approval.terminal_conflict"]]
  <2>1. row = Trace(policy, refs, TRUE, {w}, "approval.terminal_conflict",
                    BlockedMetadata(policy, {}, "approval.terminal_conflict"))
    BY <1>4, <1>6 DEF RefusedTrace, policy, refs
  <2> QED BY <1>7, <2>1 DEF Trace
<1> HIDE DEF row
<1>9. row \in TraceRows
  BY <1>5, <1>8 DEF TraceRows, Errors
<1>10. /\ row.policy = policy /\ row.refs = refs /\ row.cites = TRUE /\ row.approvals = {w}
      /\ row.error = "approval.terminal_conflict"
      /\ row.metadata.form = "current" /\ row.metadata.policy = policy
      /\ row.metadata.missing = {} /\ row.metadata.gate = "blocked"
      /\ row.metadata.reason = "approval.terminal_conflict"
  BY <1>8
<1>11. TraceFailures(row, TRUE) = {"approval.terminal_conflict"}
  BY <1>5, <1>6, <1>10 DEF TraceFailures
<1> QED BY <1>4, <1>5, <1>9, <1>10, <1>11 DEF row

\* A refused approval adds its blocked trace and changes nothing else.
LEMMA ApproveRefusedStep ==
  ASSUME AgentInv, NEW w \in WorkflowIds, ApproveRefused(w)
  PROVE  AgentInv'
<1> DEFINE row == RefusedTrace(w)
<1>1. UNCHANGED tables /\ call' = call /\ evidence' = evidence
  BY DEF ApproveRefused
<1>2. IInv' /\ CallsAreSound' /\ OneLoopPerRun' /\ OnlyRefusalsStrand' /\ AcceptanceIsExact'
  BY <1>1, StutterIInv, PeopleStep DEF AgentInv, tables
<1>3. PICK r \in RunIds : /\ approval[w].run = r /\ run[r].status # Absent
                         /\ trace' = [trace EXCEPT ![r] = Append(@, row)]
  BY DEF ApproveRefused, RunExists, AgentInv, IInv, TypeOK, ApprovalRows
<1>4. /\ row \in TraceRows
      /\ TraceFailures(row, TRUE) \subseteq {"approval.terminal_conflict"}
      /\ SettledRequest(r)'
  BY <1>1, <1>3, RefusedApproval DEF SettledRequest, tables
<1> HIDE DEF row
<1>5. /\ trace' \in [RunIds -> Seq(TraceRows)]
      /\ \A q \in RunIds \ {r} : trace'[q] = trace[q]
      /\ trace'[r] = Append(trace[r], row) /\ trace'[r] # << >>
      /\ trace[r] \in Seq(TraceRows)
  BY <1>3, <1>4, AppendedLog DEF AgentInv, LogsAreSound
<1>6. run[r].status = "completed"
  BY <1>3, NoneAssumption DEF AgentInv, LogsAreSound
<1>7. ExcusedLog(r)'
  <2>1. \A i \in DOMAIN trace[r] :
          TraceFailures(trace[r][i], TRUE) \subseteq {"approval.terminal_conflict"}
    BY <1>6 DEF AgentInv, LogsAreSound, ExcusedLog
  <2>2. \A i \in DOMAIN trace'[r] :
          TraceFailures(trace'[r][i], TRUE) \subseteq {"approval.terminal_conflict"}
    BY <1>4, <1>5, <2>1, ExcusedAppend
  <2> QED BY <1>4, <2>2 DEF ExcusedLog
<1>8. \A q \in RunIds : /\ run'[q].status = Absent => trace'[q] = << >>
                        /\ run'[q].status = "completed" => trace'[q] # << >> /\ ExcusedLog(q)'
  <2>1. \A q \in RunIds \ {r} : ExcusedLog(q) => ExcusedLog(q)'
    BY <1>1, <1>5 DEF ExcusedLog, SettledRequest, CleanLog, tables
  <2> QED BY <1>1, <1>3, <1>5, <1>7, <2>1 DEF AgentInv, LogsAreSound, tables
<1>9. ASSUME NEW d \in Calls, call'[d].pc \in LivePcs \ {"fail"}
      PROVE  CleanLog(call[d].run)'
  <2>1. PICK q \in RunIds : q = call[d].run /\ CleanLog(q) /\ run[q].status # "completed"
    BY <1>1, <1>9 DEF AgentInv, CallsAreSound, LogsAreSound, Live, LivePcs, Ended
  <2>2. trace'[q] = trace[q]
    BY <1>5, <1>6, <2>1
  <2> QED BY <1>1, <2>1, <2>2 DEF CleanLog
<1>10. ASSUME NEW v \in WorkflowIds, approval[v].run # None
       PROVE  /\ v \in TracedApprovals(trace'[approval[v].run], {"approval.create_request"})
              /\ approval[v].status = "approved" =>
                   v \in TracedApprovals(trace'[approval[v].run], MutationPolicies)
  <2>1. PICK q \in RunIds : approval[v].run = q
    BY <1>10 DEF AgentInv, IInv, TypeOK, ApprovalRows
  <2>2. \A policies : TracedApprovals(trace[q], policies)
                         \subseteq TracedApprovals(trace'[q], policies)
    BY <1>4, <1>5, AppendedLog
  <2> QED BY <1>10, <2>1, <2>2 DEF AgentInv, LogsAreSound
<1>11. LogsAreSound'
  BY <1>1, <1>5, <1>8, <1>9, <1>10 DEF AgentInv, LogsAreSound, tables
<1> QED BY <1>2, <1>11 DEF AgentInv

\* A reset deletes a ticket's runs with their requests and their traces.
LEMMA ResetStep ==
  ASSUME AgentInv, NEW t \in Tickets, Reset(t)
  PROVE  AgentInv'
<1>1. call' = call /\ evidence' = evidence
  BY DEF Reset
<1>2. ResetTicket(t)
  BY SameDecision DEF Reset
<1>3. IInv'
  BY <1>2, ResetTicketStep DEF AgentInv
<1>4. /\ \A v \in WorkflowIds :
           IF Exists(v) /\ workflow[v].ticket = t
           THEN approval'[v].run = None
           ELSE approval'[v] = approval[v]
      /\ \A q \in RunIds : IF RunExists(q) /\ run[q].ticket = t
                           THEN run'[q].status = Absent
                           ELSE run'[q] = run[q]
  BY <1>2, ResetEffect DEF NoApproval, NoRun
<1>5. /\ trace' \in [RunIds -> Seq(TraceRows)]
      /\ \A q \in RunIds : trace'[q] = IF RunExists(q) /\ run[q].ticket = t
                                       THEN << >> ELSE trace[q]
  BY DEF Reset, RunsOf, AgentInv, LogsAreSound
<1>6. \A q \in RunIds : CleanLog(q) => CleanLog(q)'
  <2> SUFFICES ASSUME NEW q \in RunIds, CleanLog(q)
               PROVE  \A i \in DOMAIN trace'[q] : TraceFailures(trace'[q][i], TRUE) = {}
    BY DEF CleanLog
  <2>1. trace'[q] = trace[q] \/ trace'[q] = << >>
    BY <1>5
  <2>2. trace'[q] = << >> => DOMAIN trace'[q] = {}
    OBVIOUS
  <2> QED BY <2>1, <2>2 DEF CleanLog
<1>7. \A q \in RunIds : /\ run'[q].status = Absent => trace'[q] = << >>
                        /\ run'[q].status = "completed" => trace'[q] # << >> /\ ExcusedLog(q)'
  <2> SUFFICES ASSUME NEW q \in RunIds
               PROVE  /\ run'[q].status = Absent => trace'[q] = << >>
                      /\ run'[q].status = "completed" => trace'[q] # << >> /\ ExcusedLog(q)'
    OBVIOUS
  <2>1. run'[q].status = Absent => trace'[q] = << >>
    BY <1>4, <1>5 DEF AgentInv, LogsAreSound, RunExists
  <2>2. ASSUME run'[q].status = "completed"
        PROVE  trace'[q] # << >> /\ ExcusedLog(q)'
    <3>1. /\ RunExists(q) /\ run[q].ticket # t /\ run[q].status = "completed"
          /\ trace'[q] = trace[q]
      BY <2>2, <1>4, <1>5 DEF RunExists, Absent
    <3>2. trace[q] # << >> /\ ExcusedLog(q)
      BY <3>1 DEF AgentInv, LogsAreSound
    <3>3. ASSUME NEW v \in WorkflowIds, approval[v].run = q
          PROVE  approval'[v] = approval[v]
      <4>1. run[q].workflow = v
        BY <3>3, NoneAssumption DEF AgentInv, IInv, DecisionsAgree, RowsAreComplete, NoApproval
      <4>2. workflow[v].ticket = run[q].ticket
        BY <3>1, <4>1 DEF AgentInv, IInv, RunTracksWorkflow, WorkflowsOf
      <4> QED BY <3>1, <4>2, <1>4
    <3>4. SettledRequest(q) => SettledRequest(q)'
      BY <3>3 DEF SettledRequest
    <3> QED BY <3>1, <3>2, <3>4 DEF ExcusedLog, CleanLog
  <2> QED BY <2>1, <2>2
<1>8. ASSUME NEW d \in Calls, call'[d].pc \in LivePcs \ {"fail"}
      PROVE  CleanLog(call[d].run)'
  <2>1. PICK q \in RunIds : q = call[d].run /\ CleanLog(q)
    BY <1>1, <1>8 DEF AgentInv, CallsAreSound, LogsAreSound, Live, LivePcs, Ended
  <2>2. CleanLog(q)'
    BY <2>1, <1>6
  <2> QED BY <1>1, <2>1, <2>2 DEF CleanLog
<1>9. ASSUME NEW v \in WorkflowIds, approval'[v].run # None
      PROVE  /\ approval'[v] = approval[v]
             /\ approval[v].run \in RunIds
             /\ trace'[approval[v].run] = trace[approval[v].run]
             /\ run'[approval[v].run] = run[approval[v].run]
  <2>1. approval'[v] = approval[v] /\ ~(Exists(v) /\ workflow[v].ticket = t)
    BY <1>4, <1>9
  <2>2. PICK q \in RunIds : approval[v].run = q
    BY <1>9, <2>1 DEF AgentInv, IInv, TypeOK, ApprovalRows
  <2>3. run[q].workflow = v
    BY <1>9, <2>1, <2>2 DEF AgentInv, IInv, DecisionsAgree, RowsAreComplete, NoApproval
  <2>4. RunExists(q) => Exists(v) /\ workflow[v].ticket = run[q].ticket
    BY <2>3 DEF AgentInv, IInv, RunTracksWorkflow, WorkflowsOf
  <2> QED BY <2>1, <2>2, <2>4, <1>4, <1>5
<1>10. \A v \in WorkflowIds : approval'[v].run # None =>
         /\ v \in TracedApprovals(trace'[approval'[v].run], {"approval.create_request"})
         /\ approval'[v].status = "approved" =>
              v \in TracedApprovals(trace'[approval'[v].run], MutationPolicies)
  BY <1>9 DEF AgentInv, LogsAreSound
<1>11. \A v \in WorkflowIds : approval'[v].run # None =>
         run'[approval'[v].run].status = "completed"
  BY <1>9 DEF AgentInv, LogsAreSound
<1>12. LogsAreSound'
  BY <1>5, <1>7, <1>8, <1>10, <1>11 DEF LogsAreSound
<1> QED BY <1>1, <1>3, <1>4, <1>12, PeopleStep DEF AgentInv

-----------------------------------------------------------------------------
(* Every step.                                                             *)

\* Before the first request nothing is stored and no call was made.
LEMMA InitAgentInv == AgentInit => AgentInv
<1> SUFFICES ASSUME AgentInit PROVE AgentInv
  OBVIOUS
<1>1. IInv
  BY InitIInv DEF AgentInit
<1>2. /\ \A c \in Calls : call[c] = Idle
      /\ \A r \in RunIds : run[r] = NoRun /\ trace[r] = << >>
      /\ \A w \in WorkflowIds : approval[w] = NoApproval
  BY DEF AgentInit, Empty
<1>3. /\ Idle \in CallRecords /\ Idle.pc = "idle" /\ Idle.run = None
      /\ Idle.accepted = Idle.follows
  BY DEF Idle, CallRecords, Conclude, DecisionRecords, Outcomes, Causes, Ended
<1>4. CallsAreSound
  <2>1. call \in [Calls -> CallRecords]
    BY <1>3 DEF AgentInit
  <2> QED BY <2>1, <1>2, <1>3 DEF CallsAreSound, AgentInit, Live, Ended
<1>5. OneLoopPerRun /\ AcceptanceIsExact
  BY <1>2, <1>3 DEF OneLoopPerRun, AcceptanceIsExact
<1>6. OnlyRefusalsStrand
  BY <1>2 DEF OnlyRefusalsStrand, NoRun, Absent
<1>7. LogsAreSound
  <2>1. << >> \in Seq(TraceRows)
    OBVIOUS
  <2>2. trace \in [RunIds -> Seq(TraceRows)]
    BY <2>1 DEF AgentInit
  <2> QED BY <2>2, <1>2, <1>3 DEF LogsAreSound, NoRun, NoApproval, Absent, LivePcs
<1> QED BY <1>1, <1>4, <1>5, <1>6, <1>7 DEF AgentInv

\* Every step of every call, and everything people do, keeps the invariant.
LEMMA NextAgentInv ==
  ASSUME AgentInv, [AgentNext]_vars
  PROVE  AgentInv'
<1>1. CASE \E c \in Calls, t \in Tickets, k \in Keys :
             \/ Replay(c, t, k)
             \/ \E w \in WorkflowIds, r \in RunIds : Start(c, t, k, w, r)
  BY <1>1, ReplayStep, StartStep
<1>2. CASE \E c \in Calls : Step(c)
  BY <1>2, PlanStep, RecordPlanStep, RecordVerdictStep, ReadEvidenceStep, ReadPriorStep,
     DecideStep, DraftStep, RecordDraftFailureStep, FailStep, FinalizeStep,
     FinalizeRefusedStep DEF Step
<1>3. CASE \E c \in Calls : Die(c) \/ Escape(c, "plan") \/ Escape(c, "draft")
  BY <1>3, DieStep, EscapeStep
<1>4. CASE \E w \in WorkflowIds : Cancel(w) \/ Reject(w) \/ Approve(w) \/ ApproveRefused(w)
  BY <1>4, CancelStep, RejectStep, ApproveStep, ApproveRefusedStep
<1>5. CASE \E t \in Tickets : Reset(t)
  BY <1>5, ResetStep
<1>6. CASE UNCHANGED vars
  <2>1. UNCHANGED tables /\ call' = call /\ trace' = trace /\ evidence' = evidence
    BY <1>6 DEF vars, locals
  <2>2. IInv'
    BY <2>1, StutterIInv DEF AgentInv
  <2>3. CallsAreSound' /\ OneLoopPerRun' /\ OnlyRefusalsStrand' /\ AcceptanceIsExact'
    BY <2>1, PeopleStep DEF tables
  <2>4. LogsAreSound'
    BY <2>1 DEF AgentInv, LogsAreSound, ExcusedLog, SettledRequest, CleanLog, tables
  <2> QED BY <2>2, <2>3, <2>4 DEF AgentInv
<1> QED BY <1>1, <1>2, <1>3, <1>4, <1>5, <1>6 DEF AgentNext

\* A completed run passes the check: its own traces tell what its request went
\* through, no other request or mutation of any ticket disagrees, and they are
\* clean, but for the refusals of a request that was rejected or withdrawn.
LEMMA CompletedRunsPass ==
  ASSUME AgentInv, NEW r \in RunIds, run[r].status = "completed"
  PROVE  LET failures == Failures(r, run[r].ticket, TRUE, trace[r], approval, mutation) IN
         /\ failures \subseteq {"approval.terminal_conflict"}
         /\ failures = {} \/ SettledRequest(r)
<1> DEFINE t == run[r].ticket
           log == trace[r]
           mine == {w \in WorkflowIds : approval[w].status # Absent /\ approval[w].run = r}
           mutated == {w \in WorkflowIds : mutation[w] # None}
<1>1. \A w \in mine : /\ w \in TracedApprovals(log, {"approval.create_request"})
                      /\ approval[w].status = "approved" =>
                           w \in TracedApprovals(log, MutationPolicies)
  BY NoneAssumption DEF AgentInv, LogsAreSound
<1>2. \A w \in WorkflowIds :
        /\ w \in mutated => approval[w].status = "approved"
        /\ approval[w].status = "approved" =>
             mutation[w] = approval[w].action /\ w \in mutated
  BY DEF AgentInv, IInv, DecisionsAgree, Absent
<1>3. \A v, w \in WorkflowIds :
        /\ approval[v].status = "pending" /\ approval[w].status = "pending"
        /\ workflow[v].ticket = workflow[w].ticket
        => v = w
  <2> SUFFICES ASSUME NEW v \in WorkflowIds, NEW w \in WorkflowIds,
                      approval[v].status = "pending", approval[w].status = "pending",
                      workflow[v].ticket = workflow[w].ticket
               PROVE  v = w
    OBVIOUS
  <2>1. Active(v) /\ Active(w)
    BY DEF AgentInv, IInv, DecisionsAgree, Active, ActiveStatuses
  <2> QED BY <2>1, OneActive DEF AgentInv, IInv
<1>4. \A v, w \in mutated :
        mutation[v] = mutation[w] /\ workflow[v].ticket = workflow[w].ticket => v = w
  BY DEF AgentInv, IInv, NoDoubleExecution
<1>5. FinancialFailures(r, t, log, approval, mutation) = {}
  <2> DEFINE same(v, w, what) ==
               /\ v # w /\ Exists(v) /\ Exists(w)
               /\ workflow[v].ticket = workflow[w].ticket /\ what[v] = what[w]
             actions == [w \in WorkflowIds |-> approval[w].action]
             pending == {w \in WorkflowIds : approval[w].status = "pending"}
             approved == {w \in mine : approval[w].status = "approved"}
             seen == {w \in mutated : workflow[w].ticket = t \/ approval[w].run = r}
  <2>1. {w \in pending : \E v \in pending : same(v, w, actions)} = {}
    BY <1>3
  <2>2. {w \in mutated : \E v \in mutated : same(v, w, mutation)} = {}
    BY <1>4
  <2>3. mine \ TracedApprovals(log, {"approval.create_request"}) = {}
    BY <1>1
  <2>4. /\ mine \cap pending \cap mutated = {}
        /\ {w \in mine \cap mutated : approval[w].status = "rejected"} = {}
        /\ approved \ mutated = {}
    BY <1>2
  <2>5. (approved \cap mutated) \ TracedApprovals(log, MutationPolicies) = {}
    BY <1>1
  <2>6. /\ {w \in seen : approval[w].status = Absent} = {}
        /\ {w \in seen : approval[w].status \notin {Absent, "approved"}} = {}
        /\ {w \in seen : approval[w].status # Absent /\ approval[w].action # mutation[w]} = {}
    BY <1>2 DEF Absent
  <2> QED BY <2>1, <2>2, <2>3, <2>4, <2>5, <2>6, Zenon DEF FinancialFailures
<1>6. /\ log # << >>
      /\ \A i \in DOMAIN log : TraceFailures(log[i], TRUE) \subseteq {"approval.terminal_conflict"}
      /\ (\A i \in DOMAIN log : TraceFailures(log[i], TRUE) = {}) \/ SettledRequest(r)
  BY DEF AgentInv, LogsAreSound, ExcusedLog, CleanLog
<1> HIDE DEF log, t
<1>7. /\ UNION {TraceFailures(log[i], TRUE) : i \in DOMAIN log}
           \subseteq {"approval.terminal_conflict"}
      /\ UNION {TraceFailures(log[i], TRUE) : i \in DOMAIN log} = {} \/ SettledRequest(r)
  BY <1>6
<1>8. Failures(r, t, TRUE, log, approval, mutation)
        = UNION {TraceFailures(log[i], TRUE) : i \in DOMAIN log}
  BY <1>5, <1>6 DEF Failures
<1> QED BY <1>7, <1>8 DEF log, t

\* Only the two steps that end a run change a table, and only if it still runs.
LEMMA LateStep ==
  ASSUME AgentInv, [AgentNext]_vars, NEW c \in Calls, Live(c), call'[c] # call[c]
  PROVE  run[call[c].run].status = "running" \/ UNCHANGED tables
<1>1. CASE \E d \in Calls, t \in Tickets, k \in Keys : Replay(d, t, k)
  BY <1>1 DEF Replay
<1>2. ASSUME NEW d \in Calls, NEW t \in Tickets, NEW k \in Keys, NEW w \in WorkflowIds,
             NEW r \in RunIds, Start(d, t, k, w, r)
      PROVE  FALSE
  BY <1>2 DEF Start, Live, Ended, AgentInv, CallsAreSound
<1>3. ASSUME NEW d \in Calls, Fail(d) \/ Finalize(d)
      PROVE  run[call[c].run].status = "running" \/ UNCHANGED tables
  <2>1. d = c
    BY <1>3 DEF Fail, Finalize, Goto, Raise, AgentInv, CallsAreSound
  <2>2. CASE Fail(c)
    BY <2>2, SameEnd DEF Fail, FailRun, MayEnd
  <2>3. CASE Finalize(c)
    BY <2>3, SameEnd DEF Finalize, FinalizeNoAction, FinalizeForApproval, MayEnd
  <2> QED BY <1>3, <2>1, <2>2, <2>3
<1>4. ASSUME NEW d \in Calls, Step(d), ~Fail(d), ~Finalize(d)
      PROVE  UNCHANGED tables
  BY <1>4 DEF Step, Plan, RecordPlan, RecordVerdict, ReadEvidence, ReadPrior, Decide, Draft,
              RecordDraftFailure, FinalizeRefused, Record
<1>5. ASSUME NEW d \in Calls, Die(d) \/ Escape(d, "plan") \/ Escape(d, "draft")
      PROVE  UNCHANGED tables
  BY <1>5 DEF Die, Escape
<1>6. ASSUME \/ \E w \in WorkflowIds : Cancel(w) \/ Reject(w) \/ Approve(w) \/ ApproveRefused(w)
             \/ \E t \in Tickets : Reset(t)
             \/ UNCHANGED vars
      PROVE  FALSE
  BY <1>6 DEF Cancel, Reject, Approve, ApproveRefused, Reset, vars, locals
<1> QED BY <1>1, <1>2, <1>3, <1>4, <1>5, <1>6 DEF AgentNext

\* What a step of the loop or of the people does to the tables is one command, or
\* nothing.
LEMMA LoopStep ==
  ASSUME AgentInv, [AgentNext]_vars
  PROVE  [Next]_tables
<1>1. CASE \E c \in Calls, t \in Tickets, k \in Keys : Replay(c, t, k)
  BY <1>1 DEF Replay
<1>2. ASSUME NEW c \in Calls, NEW t \in Tickets, NEW k \in Keys, NEW w \in WorkflowIds,
             NEW r \in RunIds, Start(c, t, k, w, r)
      PROVE  Next
  BY <1>2, SameStart DEF Start, Next
<1>3. ASSUME NEW c \in Calls, Fail(c)
      PROVE  [Next]_tables
  <2>1. PICK r \in RunIds : call[c].run = r
    BY <1>3 DEF Fail, AgentInv, CallsAreSound, Live, Ended
  <2>2. FailRun(r, TRUE) \/ UNCHANGED tables
    BY <1>3, <2>1, SameEnd DEF Fail
  <2> QED BY <2>2 DEF Next
<1>4. ASSUME NEW c \in Calls, Finalize(c)
      PROVE  Next
  <2>1. PICK r \in RunIds, a \in Actions \cup {NoAction} :
          call[c].run = r /\ call[c].decision.action = a
    BY <1>4 DEF Finalize, AgentInv, CallsAreSound, CallRecords, DecisionRecords, Live, Ended
  <2>2. \/ FinalizeNoAction(r)
        \/ a # NoAction /\ FinalizeForApproval(r, a)
    BY <1>4, <2>1, SameEnd DEF Finalize
  <2> QED BY <2>2 DEF Next
<1>5. ASSUME NEW c \in Calls, Step(c), ~Fail(c), ~Finalize(c)
      PROVE  UNCHANGED tables
  BY <1>5 DEF Step, Plan, RecordPlan, RecordVerdict, ReadEvidence, ReadPrior, Decide, Draft,
              RecordDraftFailure, FinalizeRefused, Record
<1>6. ASSUME NEW c \in Calls, Die(c) \/ Escape(c, "plan") \/ Escape(c, "draft")
      PROVE  UNCHANGED tables
  BY <1>6 DEF Die, Escape
<1>7. ASSUME NEW w \in WorkflowIds, Cancel(w) \/ Reject(w) \/ Approve(w)
      PROVE  Next
  <2>1. CancelWorkflow(w, Supervisor) \/ RejectApproval(w, Supervisor)
          \/ ApproveAndExecute(w, Supervisor)
    BY <1>7, SameDecision DEF Cancel, Reject, Approve
  <2>2. Supervisor \in Roles
    BY DEF Supervisor, Roles
  <2> QED BY <2>1, <2>2 DEF Next
<1>8. ASSUME NEW t \in Tickets, Reset(t)
      PROVE  Next
  BY <1>8, SameDecision DEF Reset, Next
<1>9. CASE UNCHANGED vars \/ \E w \in WorkflowIds : ApproveRefused(w)
  BY <1>9 DEF vars, ApproveRefused
<1> QED BY <1>1, <1>2, <1>3, <1>4, <1>5, <1>6, <1>7, <1>8, <1>9 DEF AgentNext

-----------------------------------------------------------------------------
(* The theorems.                                                           *)

\* The strengthened invariant holds whatever calls, people and resets interleave.
THEOREM AgentInvariance == AgentSpec => []AgentInv
<1>1. AgentInv /\ [AgentNext]_vars => AgentInv'
  BY NextAgentInv
<1> QED BY <1>1, InitAgentInv, PTL DEF AgentSpec

\* run_ticket never has two loops writing one run, whatever keys are sent again.
THEOREM OneLoopWritesARun == AgentSpec => []OneLoopPerRun
BY AgentInvariance, PTL DEF AgentInv

\* Only a dead process or one of the three errors run_ticket does not turn into a
\* failed run leaves a run running.
THEOREM OnlyRefusalsStrandRuns == AgentSpec => []OnlyRefusalsStrand
BY AgentInvariance, PTL DEF AgentInv

\* The loop goes on with the plans that say what it will do and with no other.
THEOREM AcceptedPlansAreFollowed == AgentSpec => []AcceptanceIsExact
BY AgentInvariance, PTL DEF AgentInv

\* What the loop leaves behind passes check_agent_run_compliance, but for the
\* approvers who came after a rejection or a withdrawal.
LEMMA FinishedRuns ==
  ASSUME AgentInv
  PROVE  FinishedRunsComply
<1> SUFFICES ASSUME NEW r \in RunIds, run[r].status = "completed"
             PROVE  LET failures == Failures(r, run[r].ticket, TRUE, trace[r], approval, mutation) IN
                    \/ failures = {}
                    \/ failures = {"approval.terminal_conflict"} /\ SettledRequest(r)
  BY DEF FinishedRunsComply, SettledRequest
<1> DEFINE failures == Failures(r, run[r].ticket, TRUE, trace[r], approval, mutation)
<1>1. failures \subseteq {"approval.terminal_conflict"} /\ (failures = {} \/ SettledRequest(r))
  BY CompletedRunsPass
<1> HIDE DEF failures
<1>2. failures = {} \/ (failures = {"approval.terminal_conflict"} /\ SettledRequest(r))
  BY <1>1
<1> QED BY <1>2 DEF failures

\* So it does in every reachable state.
THEOREM FinishedRunsPass == AgentSpec => []FinishedRunsComply
BY FinishedRuns, AgentInvariance, PTL

\* A loop whose run was ended or deleted under it changes no table any more.
THEOREM LateLoopsAreHarmless == AgentSpec => LateLoopsChangeNothing
<1> DEFINE Late == \A c \in Calls :
             Live(c) /\ call'[c] # call[c] /\ call[c].run # None =>
               \/ run[call[c].run].status = "running"
               \/ UNCHANGED tables
<1>1. AgentInv /\ [AgentNext]_vars => [Late]_vars
  BY LateStep
<1> QED BY <1>1, AgentInvariance, PTL DEF AgentSpec, LateLoopsChangeNothing

\* The loop, with everything that interferes with it, only ever does to the tables
\* what the repository's commands do, so it keeps what they promise.
THEOREM LoopsIssueCommands == AgentSpec => Spec
<1>1. AgentInit => Empty
  BY DEF AgentInit
<1>2. AgentInv /\ [AgentNext]_vars => [Next]_tables
  BY LoopStep
<1> QED BY <1>1, <1>2, AgentInvariance, PTL DEF AgentSpec, Spec

\* Every claim proved of the commands holds of the tables the loop works on.
THEOREM LoopsKeepTheTables ==
  AgentSpec => /\ []OneActiveCycle /\ []RunTracksWorkflow /\ []DecisionTracksWorkflow
               /\ []NoDoubleExecution /\ []LedgerExplainsStatus
BY AgentInvariance, LoopsIssueCommands, DecisionsAndWorkflowsAgree, PTL DEF AgentInv, IInv

-----------------------------------------------------------------------------
(* What a call goes by.                                                    *)

Concluded(t, decision, executed) ==
  \E reading \in Readings(evidence[t].charges) :
    decision = Evaluate(evidence[t], reading, executed)

\* The call's run was finalized, and it is still there.
Finalized(c) == /\ call[c].pc = "answered" /\ call[c].run # None
                /\ run[call[c].run].status = "completed"

\* An action executed for the ticket since the call read them would have to be
\* pending in another active cycle: what a call decides on is what is executed
\* when it finalizes, and what a finalized run says is what was decided.
CurrentDecision(c) ==
  LET t == call[c].ticket
      r == call[c].run
      decision == call[c].decision
      w == run[r].workflow
  IN /\ call[c].pc = "idle" => r = None
     /\ r # None => t \in Tickets
     /\ r # None /\ RunExists(r) => run[r].ticket = t
     /\ Live(c) /\ run[r].status = "running" =>
          /\ call[c].pc = "decide" => call[c].executed = ExecutedOf(t)
          /\ call[c].pc \in {"draft", "draft_trace", "finalize"} =>
               Concluded(t, decision, ExecutedOf(t))
     /\ Finalized(c) =>
          /\ \E executed \in SUBSET ExecutedOf(t) : Concluded(t, decision, executed)
          /\ IF decision.action = NoAction
             THEN workflow[w].status = "completed_no_action"
             ELSE approval[w].run = r /\ approval[w].action = decision.action
          /\ decision.action = NoAction /\ decision.outcome # "duplicate_action_already_executed" =>
               \A v \in WorkflowsOf(t) : approval[v].status # "pending"

\* The loop's traces, in the order in which it leaves them.
LoopTrace(c) ==
  LET known == evidence[call[c].ticket] IN
  <<Governed("plan.investigation", {"ticket"}, FALSE, {}, Absent),
    Governed("plan.verify", {"ticket"}, FALSE, {}, Absent),
    EvidenceTrace(known),
    Governed("read.prior_financial_actions", {"ticket"}, FALSE, {}, Absent),
    DecisionTrace(known, call[c].decision)>>

\* How many of them there are at a control point.
Recorded(pc) ==
  CASE pc \in {"plan", "plan_trace"} -> 0
    [] pc = "verify_trace" -> 1
    [] pc = "evidence" -> 2
    [] pc = "prior" -> 3
    [] pc = "decide" -> 4
    [] OTHER -> 5

\* A run's log is the loop's, as far as the call got.
OrderedLog(c) ==
  LET r == call[c].run
      n == Recorded(call[c].pc)
  IN /\ call[c].pc \in LivePcs \ {"fail"} /\ RunExists(r) =>
          Len(trace[r]) = n /\ \A i \in 1..n : trace[r][i] = LoopTrace(c)[i]
     /\ Finalized(c) =>
          Len(trace[r]) >= 5 /\ \A i \in 1..5 : trace[r][i] = LoopTrace(c)[i]

CurrentDecisions == \A c \in Calls : CurrentDecision(c)
OrderedLogs == \A c \in Calls : OrderedLog(c)

-----------------------------------------------------------------------------
(* What the decision tools conclude.                                       *)

\* Every reading has all the charges.
LEMMA AllChargesAreRead ==
  ASSUME NEW known \in EvidenceSet, NEW reading \in Readings(known.charges)
  PROVE  LET n == Cardinality(known.charges) IN
         /\ n \in Nat /\ reading \in Bijection(1..n, known.charges)
         /\ DOMAIN reading = 1..n
<1> DEFINE n == Cardinality(known.charges)
<1>1. n \in Nat /\ IsFiniteSet(known.charges)
  BY ChargesAssumption, FS_CardinalityType
<1>2. /\ reading \in [1..n -> known.charges]
      /\ \A i, j \in 1..n : i < j => reading[i] # reading[j]
  BY DEF Readings
<1> HIDE DEF n
<1>3. \A i, j \in 1..n : reading[i] = reading[j] => i = j
  BY <1>1, <1>2
<1>4. reading \in Injection(1..n, known.charges)
  BY <1>2, <1>3 DEF Injection, IsInjective
<1>5. Cardinality(1..n) = n
  BY <1>1, FS_Interval
<1>6. reading \in Surjection(1..n, known.charges)
  <2>1. IsFiniteSet(known.charges) /\ Cardinality(known.charges) = n
    BY <1>1 DEF n
  <2> QED BY <1>4, <1>5, <2>1, FS_Injection
<1> QED BY <1>1, <1>2, <1>4, <1>6 DEF Bijection, n

\* The charges that match are as many in every order they may be read in.
LEMMA SameFacts ==
  ASSUME NEW known \in EvidenceSet, NEW reading \in Readings(known.charges), NEW status
  PROVE  LET facts == PaymentFacts(known, reading, status)
             matching == {charge \in known.charges :
                            charge.money = known.total /\ charge.status = status}
         IN /\ IsFiniteSet(facts) /\ Cardinality(facts) \in Nat
            /\ Cardinality(facts) = Cardinality(matching)
            /\ facts # {} <=> matching # {}
<1> DEFINE facts == PaymentFacts(known, reading, status)
           matching == {charge \in known.charges :
                          charge.money = known.total /\ charge.status = status}
           n == Cardinality(known.charges)
           f == [i \in facts |-> reading[i]]
<1>1. /\ n \in Nat /\ reading \in [1..n -> known.charges] /\ DOMAIN reading = 1..n
      /\ \A i, j \in 1..n : reading[i] = reading[j] => i = j
      /\ \A charge \in known.charges : \E i \in 1..n : reading[i] = charge
  BY AllChargesAreRead DEF Bijection, Injection, IsInjective, Surjection
<1>2. facts = {i \in 1..n : reading[i].money = known.total /\ reading[i].status = status}
  BY <1>1 DEF PaymentFacts
<1> HIDE DEF facts, n
<1>3. f \in Bijection(facts, matching)
  <2>1. f \in [facts -> matching]
    BY <1>1, <1>2
  <2>2. \A i, j \in facts : f[i] = f[j] => i = j
    BY <1>1, <1>2
  <2>3. \A charge \in matching : \E i \in facts : f[i] = charge
    BY <1>1, <1>2
  <2> HIDE DEF f
  <2> QED BY <2>1, <2>2, <2>3 DEF Bijection, Injection, IsInjective, Surjection
<1>4. IsFiniteSet(facts)
  <2>1. IsFiniteSet(1..n)
    BY <1>1, FS_Interval
  <2>2. facts \subseteq 1..n
    BY <1>2
  <2> QED BY <2>1, <2>2, FS_Subset
<1>5. ExistsBijection(facts, matching)
  BY <1>3 DEF ExistsBijection
<1>6. Cardinality(matching) = Cardinality(facts) /\ Cardinality(facts) \in Nat
  BY <1>4, <1>5, FS_Bijection, FS_CardinalityType
<1>7. facts # {} <=> matching # {}
  BY <1>3 DEF Bijection, Injection, Surjection
<1> QED BY <1>4, <1>6, <1>7 DEF facts

\* Conclusions that propose nothing, but for what was executed before.
Settles(decision) ==
  decision.action = NoAction /\ decision.outcome # "duplicate_action_already_executed"

\* When a tool proposes nothing on what was executed, it proposes nothing on more.
LEMMA SettledConclusion ==
  ASSUME NEW known \in EvidenceSet, NEW first \in Readings(known.charges),
         NEW second \in Readings(known.charges), NEW fewer, NEW more, fewer \subseteq more,
         Settles(Evaluate(known, first, fewer))
  PROVE  Evaluate(known, second, more).action = NoAction
<1>1. CASE known.scenario = "duplicate_charge"
  <2> DEFINE captured(reading) == PaymentFacts(known, reading, "captured")
             authorized(reading) == PaymentFacts(known, reading, "authorized")
  <2>1. /\ Cardinality(captured(first)) \in Nat
        /\ Cardinality(captured(first)) = Cardinality(captured(second))
    BY SameFacts
  <2>2. Settles(EvaluateDuplicateCharge(known, first, fewer))
    BY <1>1 DEF Evaluate
  <2>3. Cardinality(captured(first)) < 2
    <3>1. SUFFICES ASSUME Cardinality(captured(first)) >= 2 PROVE FALSE
      BY <2>1
    <3> DEFINE duplicate == first[Max(captured(first))].id
    <3>2. CASE MetadataMatches("original_refund", duplicate, fewer)
      BY <2>1, <2>2, <3>1, <3>2 DEF EvaluateDuplicateCharge, Conclude, Settles
    <3>3. CASE ~MetadataMatches("original_refund", duplicate, fewer)
      BY <2>1, <2>2, <3>1, <3>3 DEF EvaluateDuplicateCharge, Propose, Settles, NoAction, Absent
    <3> QED BY <3>2, <3>3
  <2>4. Cardinality(captured(second)) < 2 /\ Cardinality(captured(second)) \in Nat
    BY <2>1, <2>3
  <2>5. EvaluateDuplicateCharge(known, second, more).action = NoAction
    BY <2>4 DEF EvaluateDuplicateCharge, Conclude
  <2> QED BY <1>1, <2>5 DEF Evaluate
<1>2. CASE known.scenario # "duplicate_charge"
  <2> DEFINE captured(reading) == {i \in DOMAIN reading : reading[i].status = "captured"}
             prior(executed) == /\ known.credits # << >>
                                /\ MetadataMatches("goodwill_credit", known.credits[1].id, executed)
             refundable(reading) == known.subscription = "early" /\ captured(reading) # {}
             disputed == /\ known.credits # << >> /\ known.subscription # "none"
                         /\ known.credits[1].disputed # Absent
  <2>1. captured(first) # {} <=> captured(second) # {}
    <3>1. ASSUME NEW reading \in Readings(known.charges)
          PROVE  captured(reading) # {} <=> \E charge \in known.charges : charge.status = "captured"
      BY AllChargesAreRead DEF Bijection, Surjection
    <3> QED BY <3>1
  <2>2. prior(fewer) => prior(more)
    BY DEF MetadataMatches
  <2>3. ASSUME NEW reading \in Readings(known.charges), NEW executed
        PROVE  EvaluateCreditRefund(known, reading, executed).action = NoAction <=>
                 prior(executed) \/ (~refundable(reading) /\ ~disputed)
    <3>1. CASE prior(executed)
      BY <3>1 DEF EvaluateCreditRefund, Conclude
    <3>2. CASE ~prior(executed) /\ refundable(reading)
      BY <3>2 DEF EvaluateCreditRefund, Propose, NoAction, Absent
    <3>3. CASE ~prior(executed) /\ ~refundable(reading) /\ disputed
      BY <3>3 DEF EvaluateCreditRefund, Propose, NoAction, Absent
    <3>4. CASE ~prior(executed) /\ ~refundable(reading) /\ ~disputed
      BY <3>4 DEF EvaluateCreditRefund, Conclude
    <3> QED BY <3>1, <3>2, <3>3, <3>4
  <2>4. EvaluateCreditRefund(known, first, fewer).action = NoAction
    BY <1>2 DEF Evaluate, Settles
  <2>5. EvaluateCreditRefund(known, second, more).action = NoAction
    <3> HIDE DEF captured, prior, disputed
    <3> QED BY <2>1, <2>2, <2>3, <2>4
  <2> QED BY <1>2, <2>5 DEF Evaluate
<1> QED BY <1>1, <1>2

\* Only the refund of a renewal is proposed without looking at what was executed.
LEMMA NewProposal ==
  ASSUME NEW known \in EvidenceSet, NEW reading \in Readings(known.charges), NEW executed,
         LET action == Evaluate(known, reading, executed).action IN
         action # NoAction /\ action \in executed
  PROVE  known.scenario # "duplicate_charge" /\ known.subscription = "early"
<1> DEFINE action == Evaluate(known, reading, executed).action
<1>1. CASE known.scenario = "duplicate_charge"
  <2> DEFINE captured == PaymentFacts(known, reading, "captured")
             authorized == PaymentFacts(known, reading, "authorized")
             duplicate == reading[Max(captured)].id
             decision == EvaluateDuplicateCharge(known, reading, executed)
  <2>1. Cardinality(captured) \in Nat
    BY SameFacts
  <2>2. decision.action # NoAction /\ decision.action \in executed
    BY <1>1 DEF Evaluate
  <2>3. Cardinality(captured) >= 2
    <3>1. SUFFICES ASSUME Cardinality(captured) < 2 PROVE FALSE
      BY <2>1
    <3>2. decision.action = NoAction
      BY <2>1, <3>1 DEF EvaluateDuplicateCharge, Conclude
    <3> QED BY <2>2, <3>2
  <2>4. CASE MetadataMatches("original_refund", duplicate, executed)
    BY <2>1, <2>2, <2>3, <2>4 DEF EvaluateDuplicateCharge, Conclude
  <2>5. CASE ~MetadataMatches("original_refund", duplicate, executed)
    <3>1. decision.action.type = "original_refund" /\ decision.action.target = duplicate
      BY <2>1, <2>3, <2>5 DEF EvaluateDuplicateCharge, Propose
    <3> QED BY <2>2, <2>5, <3>1 DEF MetadataMatches
  <2> QED BY <2>4, <2>5
<1>2. CASE known.scenario # "duplicate_charge"
  <2> DEFINE captured == {i \in DOMAIN reading : reading[i].status = "captured"}
             prior == /\ known.credits # << >>
                      /\ MetadataMatches("goodwill_credit", known.credits[1].id, executed)
             refundable == known.subscription = "early" /\ captured # {}
             disputed == /\ known.credits # << >> /\ known.subscription # "none"
                         /\ known.credits[1].disputed # Absent
             decision == EvaluateCreditRefund(known, reading, executed)
  <2>1. decision.action # NoAction /\ decision.action \in executed
    BY <1>2 DEF Evaluate
  <2>2. CASE prior
    BY <2>1, <2>2 DEF EvaluateCreditRefund, Conclude
  <2>3. CASE ~prior /\ refundable
    BY <1>2, <2>3
  <2>4. CASE ~prior /\ ~refundable /\ disputed
    <3>1. /\ decision.action.type = "goodwill_credit"
          /\ decision.action.target = known.credits[1].id
      BY <2>4 DEF EvaluateCreditRefund, Propose
    <3> QED BY <2>1, <2>4, <3>1 DEF MetadataMatches
  <2>5. CASE ~prior /\ ~refundable /\ ~disputed
    BY <2>1, <2>5 DEF EvaluateCreditRefund, Conclude
  <2> QED BY <2>2, <2>3, <2>4, <2>5
<1> QED BY <1>1, <1>2

-----------------------------------------------------------------------------
(* What the invariant says of a call goes on holding while others step.    *)

LoopInv == CurrentDecisions /\ OrderedLogs /\ RequestsFollowRuns

\* The workflow of a run that is there is there too, and the run's ticket's.
LEMMA RunsWorkflow ==
  ASSUME IInv, NEW r \in RunIds, RunExists(r)
  PROVE  /\ run[r].workflow \in WorkflowIds /\ Exists(run[r].workflow)
         /\ workflow[run[r].workflow].ticket = run[r].ticket
         /\ run[r].workflow \in WorkflowsOf(run[r].ticket)
BY DEF IInv, RunTracksWorkflow, WorkflowsOf

\* What was executed is an action.
LEMMA ExecutedActions ==
  ASSUME TypeOK, NEW t
  PROVE  ExecutedOf(t) \in SUBSET Actions
BY DEF ExecutedOf, TypeOK, WorkflowsOf

\* Commands of others change nothing of what a call decides on, nor of what it
\* decided and had finalized.
LEMMA KeptDecision ==
  ASSUME AgentInv, IInv', NEW c \in Calls, CurrentDecision(c), [Next]_tables,
         evidence' = evidence, call'[c] = call[c],
         NEW r \in RunIds \cup {None}, r = call[c].run,
         r # None /\ run'[r].status # Absent => RunExists(r),
         r # None /\ run'[r].status = "completed" => run[r].status = "completed",
         \A q \in RunIds, a \in Actions : FinalizeForApproval(q, a) =>
           \E decision : decision.action = a /\ a # NoAction
                           /\ Concluded(run[q].ticket, decision, ExecutedOf(run[q].ticket))
  PROVE  CurrentDecision(c)'
<1> DEFINE t == call[c].ticket
           decision == call[c].decision
           w == run[r].workflow
<1>1. CASE r = None
  <2>1. ~Live(c)
    BY <1>1, NoneAssumption DEF AgentInv, CallsAreSound
  <2> QED BY <1>1, <2>1 DEF CurrentDecision, Live, Finalized
<1>2. CASE r # None /\ run'[r].status = Absent
  BY <1>2 DEF CurrentDecision, Finalized, Absent, RunExists
<1>3. ASSUME r \in RunIds, run'[r].status # Absent
      PROVE  CurrentDecision(c)'
  <2>1. /\ RunExists(r) /\ run[r].ticket = t /\ t \in Tickets
        /\ call[c].pc # "idle" /\ r # None
    BY <1>3, NoneAssumption DEF CurrentDecision
  <2>2. run'[r].ticket = t /\ run'[r].workflow = w
    BY <2>1, <1>3, OwnerStep DEF AgentInv
  <2>3. /\ ExecutedOf(t) \subseteq ExecutedOf(t)'
        /\ run'[r].status = "running" => ExecutedOf(t)' = ExecutedOf(t)
    BY <1>3, <2>2, ExecutedStep DEF AgentInv
  <2>4. /\ w \in WorkflowIds /\ Exists(w) /\ workflow[w].ticket = t
        /\ workflow'[w].status # Absent
    BY <1>3, <2>1, <2>2, RunsWorkflow DEF AgentInv, IInv, RunTracksWorkflow, RunExists, WorkflowsOf, Exists
  <2>5. ASSUME Live(c), run'[r].status = "running"
        PROVE  /\ call[c].pc = "decide" => call[c].executed = ExecutedOf(t)'
               /\ call[c].pc \in {"draft", "draft_trace", "finalize"} =>
                    Concluded(t, decision, ExecutedOf(t))'
    <3>1. run[r].status = "running"
      BY <2>1, <2>5, RunningStep DEF AgentInv
    <3>2. ExecutedOf(t)' = ExecutedOf(t)
      BY <2>3, <2>5
    <3> QED BY <3>1, <3>2, <2>5 DEF CurrentDecision, Concluded
  <2>6. ASSUME call[c].pc = "answered", run'[r].status = "completed"
        PROVE  /\ \E executed \in SUBSET ExecutedOf(t)' : Concluded(t, decision, executed)'
               /\ IF decision.action = NoAction
                  THEN workflow'[w].status = "completed_no_action"
                  ELSE approval'[w].run = r /\ approval'[w].action = decision.action
               /\ Settles(decision) =>
                    \A v \in WorkflowsOf(t)' : approval'[v].status # "pending"
    <3>1. Finalized(c)
      BY <2>1, <2>6, <1>3 DEF Finalized
    <3>2. PICK executed \in SUBSET ExecutedOf(t) : Concluded(t, decision, executed)
      BY <3>1 DEF CurrentDecision
    <3>3. /\ IF decision.action = NoAction
             THEN workflow[w].status = "completed_no_action"
             ELSE approval[w].run = r /\ approval[w].action = decision.action
          /\ Settles(decision) => \A v \in WorkflowsOf(t) : approval[v].status # "pending"
      BY <3>1 DEF CurrentDecision, Settles
    <3>4. ASSUME decision.action = NoAction
          PROVE  workflow'[w].status = "completed_no_action"
      <4>1. Terminal(w)
        BY <3>3, <3>4 DEF Terminal, TerminalStatuses
      <4>2. workflow'[w] = workflow[w]
        BY <4>1, <2>4, SettledStep DEF AgentInv
      <4> QED BY <3>3, <3>4, <4>2
    <3>5. ASSUME decision.action # NoAction
          PROVE  approval'[w].run = r /\ approval'[w].action = decision.action
      <4>1. approval[w].run = r /\ approval[w].action = decision.action
        BY <3>3, <3>5
      <4>2. approval'[w].run = r /\ approval'[w].action = decision.action
        BY <4>1, <2>1, <2>4, RequestStep DEF AgentInv
      <4> QED BY <3>5, <4>2
    <3>6. ASSUME Settles(decision), NEW v \in WorkflowsOf(t)', approval'[v].status = "pending"
          PROVE  FALSE
      <4>1. v \in WorkflowIds /\ workflow'[v].status # Absent /\ workflow'[v].ticket = t
        BY <3>6 DEF WorkflowsOf, Exists
      <4>2. CASE approval'[v] = approval[v]
        <5>1. workflow[v].status = "awaiting_approval"
          BY <4>1, <4>2, <3>6 DEF AgentInv, IInv, DecisionsAgree
        <5>2. v \in WorkflowsOf(t)
          BY <4>1, <5>1, OwnerStep DEF AgentInv, WorkflowsOf, Exists, Absent
        <5> QED BY <3>3, <3>6, <4>2, <5>2
      <4>3. ASSUME NEW q \in RunIds, NEW a \in Actions, FinalizeForApproval(q, a),
                   v = run[q].workflow
            PROVE  FALSE
        <5>1. RunExists(q)
          BY <4>3 DEF FinalizeForApproval, MayEnd, RunExists, Absent
        <5>2. run[q].ticket = t
          <6>1. workflow[v].ticket = run[q].ticket /\ Exists(v)
            BY <4>3, <5>1, RunsWorkflow DEF AgentInv
          <6> QED BY <6>1, <4>1, OwnerStep DEF AgentInv
        <5>3. PICK other : /\ other.action = a /\ a # NoAction
                           /\ Concluded(t, other, ExecutedOf(t))
          BY <4>3, <5>2
        <5>4. evidence[t] \in EvidenceSet
          BY <2>1 DEF AgentInv, CallsAreSound
        <5>5. PICK first \in Readings(evidence[t].charges) :
                decision = Evaluate(evidence[t], first, executed)
          BY <3>2 DEF Concluded
        <5>6. PICK second \in Readings(evidence[t].charges) :
                other = Evaluate(evidence[t], second, ExecutedOf(t))
          BY <5>3 DEF Concluded
        <5>7. executed \subseteq ExecutedOf(t)
          BY <3>2
        <5> HIDE DEF decision
        <5>8. Evaluate(evidence[t], second, ExecutedOf(t)).action = NoAction
          BY <3>6, <5>4, <5>5, <5>7, SettledConclusion
        <5> QED BY <5>3, <5>6, <5>8
      <4> QED BY <3>6, <4>1, <4>2, <4>3, PendingStep DEF AgentInv
    <3>7. \E e \in SUBSET ExecutedOf(t)' : Concluded(t, decision, e)'
      <4>1. executed \in SUBSET ExecutedOf(t)'
        BY <3>2, <2>3
      <4>2. Concluded(t, decision, executed)'
        BY <3>2 DEF Concluded
      <4> QED BY <4>1, <4>2
    <3> QED BY <3>4, <3>5, <3>6, <3>7
  <2> QED BY <2>1, <2>2, <2>5, <2>6, <1>3 DEF CurrentDecision, Finalized, Live, Settles
<1> QED BY <1>1, <1>2, <1>3

\* One more trace, at the end.
LEMMA AppendedTrace ==
  ASSUME NEW log \in Seq(TraceRows), NEW row
  PROVE  /\ Len(Append(log, row)) = Len(log) + 1 /\ Len(log) \in Nat
         /\ \A i \in 1..Len(log) : Append(log, row)[i] = log[i]
         /\ Append(log, row)[Len(log) + 1] = row
OBVIOUS

\* What others append to a run's log comes after what its loop left.
LEMMA KeptLog ==
  ASSUME AgentInv, NEW c \in Calls, OrderedLog(c), evidence' = evidence, call'[c] = call[c],
         NEW r \in RunIds \cup {None}, r = call[c].run,
         r # None /\ run'[r].status # Absent => RunExists(r),
         r # None /\ run'[r].status = "completed" => run[r].status = "completed",
         r # None /\ run'[r].status # Absent =>
           trace'[r] = trace[r] \/ (~Live(c) /\ \E row : trace'[r] = Append(trace[r], row))
  PROVE  OrderedLog(c)'
<1>1. LivePcs \cap Ended = {}
  BY DEF LivePcs, Ended
<1>2. LoopTrace(c)' = LoopTrace(c)
  BY DEF LoopTrace
<1>3. ASSUME call[c].pc \in LivePcs \ {"fail"}, run'[r].status # Absent
      PROVE  trace'[r] = trace[r] /\ RunExists(r)
  <2>1. r # None
    BY <1>1, <1>3, NoneAssumption DEF AgentInv, CallsAreSound, Live
  <2> QED BY <1>1, <1>3, <2>1 DEF Live
<1>4. ASSUME call[c].pc = "answered", r # None, run'[r].status = "completed"
      PROVE  Len(trace'[r]) >= 5 /\ \A i \in 1..5 : trace'[r][i] = LoopTrace(c)[i]
  <2>1. Finalized(c) /\ r \in RunIds
    BY <1>4 DEF Finalized
  <2>2. Len(trace[r]) >= 5 /\ \A i \in 1..5 : trace[r][i] = LoopTrace(c)[i]
    BY <2>1 DEF OrderedLog
  <2>3. CASE trace'[r] = trace[r]
    BY <2>2, <2>3
  <2>4. ASSUME NEW row, trace'[r] = Append(trace[r], row)
        PROVE  Len(trace'[r]) >= 5 /\ \A i \in 1..5 : trace'[r][i] = LoopTrace(c)[i]
    <3>1. trace[r] \in Seq(TraceRows)
      BY <2>1 DEF AgentInv, LogsAreSound
    <3> QED BY <2>2, <2>4, <3>1, AppendedTrace
  <2> QED BY <1>4, <2>3, <2>4 DEF Absent
<1> QED BY <1>2, <1>3, <1>4 DEF OrderedLog, Finalized, RunExists

-----------------------------------------------------------------------------
(* The steps of a call that change no table.                               *)

\* What such a step has to show of its own call.
LEMMA OwnStep ==
  ASSUME AgentInv, LoopInv, NEW c \in Calls, Live(c), UNCHANGED tables, evidence' = evidence,
         NEW r \in RunIds, r = call[c].run,
         \A d \in Calls \ {c} : call'[d] = call[d],
         call'[c].run = r, call'[c].ticket = call[c].ticket,
         call'[c].pc \notin {"idle", "answered"},
         \A q \in RunIds \ {r} : trace'[q] = trace[q],
         call'[c].pc = "decide" => call'[c].executed = ExecutedOf(call[c].ticket),
         call'[c].pc \in {"draft", "draft_trace", "finalize"} /\ run[r].status = "running" =>
           Concluded(call[c].ticket, call'[c].decision, ExecutedOf(call[c].ticket)),
         call'[c].pc \in LivePcs \ {"fail"} /\ RunExists(r) =>
           /\ Len(trace'[r]) = Recorded(call'[c].pc)
           /\ \A i \in 1..Recorded(call'[c].pc) : trace'[r][i] = LoopTrace(c)'[i]
  PROVE  LoopInv'
<1>1. ASSUME NEW d \in Calls \ {c}
      PROVE  CurrentDecision(d)' /\ OrderedLog(d)'
  <2>1. PICK q \in RunIds \cup {None} : q = call[d].run
    BY DEF AgentInv, CallsAreSound, CallRecords
  <2>2. call'[d] = call[d] /\ CurrentDecision(d) /\ OrderedLog(d)
    BY DEF LoopInv, CurrentDecisions, OrderedLogs
  <2>3. q # None => trace'[q] = trace[q]
    BY <2>1, NoneAssumption DEF AgentInv, OneLoopPerRun
  <2>4. q # None /\ run'[q].status # Absent => RunExists(q)
    BY DEF RunExists, tables
  <2>5. run' = run
    BY DEF tables
  <2>6. IInv'
    BY StutterIInv DEF AgentInv
  <2>7. ASSUME NEW p \in RunIds, NEW a \in Actions, FinalizeForApproval(p, a)
        PROVE  FALSE
    BY <2>5, <2>7 DEF FinalizeForApproval, MayEnd, WriteProposal, AgentInv, IInv, TypeOK
  <2>8. CurrentDecision(d)'
    BY <2>1, <2>2, <2>4, <2>5, <2>6, <2>7, KeptDecision
  <2>9. OrderedLog(d)'
    BY <2>1, <2>2, <2>3, <2>4, <2>5, KeptLog
  <2> QED BY <2>8, <2>9
<1>2. CurrentDecision(c)'
  <2> DEFINE t == call[c].ticket
             decision == call'[c].decision
  <2>1. /\ call'[c].ticket = t /\ call'[c].run = r /\ r # None
        /\ t \in Tickets /\ (RunExists(r) => run[r].ticket = t)
    BY NoneAssumption DEF LoopInv, CurrentDecisions, CurrentDecision
  <2>2. run' = run
    BY DEF tables
  <2>3. \A executed : Concluded(t, decision, executed) =>
          \E reading \in Readings(evidence'[t].charges) :
            decision = Evaluate(evidence'[t], reading, executed)
    BY DEF Concluded
  <2>4. {mutation'[w] : w \in {v \in WorkflowsOf(t)' : mutation'[v] # None}} = ExecutedOf(t)
    BY DEF ExecutedOf, tables, WorkflowsOf, Exists
  <2> HIDE DEF t, decision
  <2> QED BY <2>1, <2>2, <2>3, <2>4 DEF CurrentDecision, Finalized, Live, RunExists, Concluded, ExecutedOf, t, decision
<1>3. OrderedLog(c)'
  BY DEF OrderedLog, Finalized, tables, RunExists
<1>4. RequestsFollowRuns'
  BY DEF LoopInv, RequestsFollowRuns, tables
<1> QED BY <1>1, <1>2, <1>3, <1>4 DEF LoopInv, CurrentDecisions, OrderedLogs

\* Where a call goes when it raises or ends its attempt, nothing is asked of it.
LEMMA EndingStep ==
  ASSUME AgentInv, LoopInv, NEW c \in Calls, Live(c), UNCHANGED tables, evidence' = evidence,
         \A d \in Calls \ {c} : call'[d] = call[d],
         call'[c].run = call[c].run, call'[c].ticket = call[c].ticket,
         call'[c].pc \in {"raised", "dead", "fail"},
         trace' = trace \/ \E row : trace' = [trace EXCEPT ![call[c].run] = Append(@, row)]
  PROVE  LoopInv'
<1>1. PICK r \in RunIds : r = call[c].run
  BY DEF AgentInv, CallsAreSound
<1>2. \A q \in RunIds \ {r} : trace'[q] = trace[q]
  BY <1>1 DEF AgentInv, LogsAreSound
<1>3. call'[c].pc \notin LivePcs \ {"fail"}
  BY DEF LivePcs
<1> QED BY <1>1, <1>2, <1>3, OwnStep

\* The next of the loop's traces.
LEMMA RecordedStep ==
  ASSUME AgentInv, LoopInv, NEW c \in Calls, Live(c), call[c].pc # "fail",
         NEW row, NEW ACTION goto, Record(c, row, goto),
         NEW n \in Nat, n = Recorded(call[c].pc),
         goto => /\ \A d \in Calls \ {c} : call'[d] = call[d]
                 /\ call'[c].run = call[c].run /\ call'[c].ticket = call[c].ticket
                 /\ call'[c].pc \in LivePcs,
         goto /\ evidence' = evidence /\ call'[c].pc # "fail" =>
           /\ Recorded(call'[c].pc) = n + 1
           /\ LoopTrace(c)'[n + 1] = row
           /\ \A i \in 1..n : LoopTrace(c)'[i] = LoopTrace(c)[i],
         goto /\ call'[c].pc = "decide" => call'[c].executed = ExecutedOf(call[c].ticket),
         goto /\ call'[c].pc \in {"draft", "draft_trace", "finalize"}
           /\ run[call[c].run].status = "running" =>
              Concluded(call[c].ticket, call'[c].decision, ExecutedOf(call[c].ticket))
  PROVE  LoopInv'
<1>1. PICK r \in RunIds : r = call[c].run
  BY DEF AgentInv, CallsAreSound
<1>2. UNCHANGED tables /\ evidence' = evidence /\ call[c].pc \in LivePcs
  BY DEF Record, AgentInv, CallsAreSound, CallRecords, Live
<1>3. ASSUME NEW cause, Raise(c, cause)
      PROVE  /\ \A d \in Calls \ {c} : call'[d] = call[d]
             /\ call'[c].run = call[c].run /\ call'[c].ticket = call[c].ticket
             /\ call'[c].pc = "raised"
  <2>1. call \in [Calls -> CallRecords] /\ call[c] \in CallRecords
    BY DEF AgentInv, CallsAreSound
  <2> QED BY <2>1, <1>3 DEF Raise, CallRecords
<1>4. CASE ~RunExists(r)
  <2>1. Raise(c, "deleted") /\ trace' = trace
    BY <1>1, <1>4 DEF Record
  <2> QED BY <2>1, <1>2, <1>3, EndingStep
<1>5. CASE RunExists(r) /\ Raises(row)
  <2>1. Raise(c, "evidence") /\ trace' = [trace EXCEPT ![r] = Append(@, row)]
    BY <1>1, <1>5 DEF Record
  <2> QED BY <2>1, <1>1, <1>2, <1>3, EndingStep
<1>6. CASE RunExists(r) /\ ~Raises(row)
  <2>1. goto /\ trace' = [trace EXCEPT ![r] = Append(@, row)]
    BY <1>1, <1>6 DEF Record
  <2>2. CASE call'[c].pc = "fail"
    BY <2>1, <2>2, <1>1, <1>2, EndingStep
  <2>3. CASE call'[c].pc # "fail"
    <3>1. /\ trace[r] \in Seq(TraceRows) /\ trace'[r] = Append(trace[r], row)
          /\ \A q \in RunIds \ {r} : trace'[q] = trace[q]
      BY <2>1 DEF AgentInv, LogsAreSound
    <3>2. Len(trace[r]) = n /\ \A i \in 1..n : trace[r][i] = LoopTrace(c)[i]
      BY <1>1, <1>2, <1>6 DEF LoopInv, OrderedLogs, OrderedLog
    <3>3. /\ Recorded(call'[c].pc) = n + 1
          /\ LoopTrace(c)'[n + 1] = row
          /\ \A i \in 1..n : LoopTrace(c)'[i] = LoopTrace(c)[i]
      BY <2>1, <2>3, <1>2
    <3>4. /\ Len(trace'[r]) = n + 1
          /\ \A i \in 1..n : trace'[r][i] = LoopTrace(c)[i]
          /\ trace'[r][n + 1] = row
      BY <3>1, <3>2, AppendedTrace
    <3>5. \A i \in 1..(n + 1) : trace'[r][i] = LoopTrace(c)'[i]
      <4> SUFFICES ASSUME NEW i \in 1..(n + 1) PROVE trace'[r][i] = LoopTrace(c)'[i]
        OBVIOUS
      <4>1. i \in 1..n \/ i = n + 1
        OBVIOUS
      <4> QED BY <4>1, <3>3, <3>4
    <3>6. call'[c].pc \notin {"idle", "answered"}
      BY <2>1 DEF LivePcs
    <3> QED BY <1>1, <1>2, <2>1, <3>1, <3>3, <3>4, <3>5, <3>6, OwnStep
  <2> QED BY <2>2, <2>3
<1> QED BY <1>4, <1>5, <1>6

\* Jumps: a call goes to another control point or raises, and says nothing.
LEMMA JumpEffect ==
  ASSUME AgentInv, NEW c \in Calls, NEW pc, NEW cause,
         Goto(c, pc) \/ (pc = "raised" /\ Raise(c, cause))
  PROVE  /\ \A d \in Calls \ {c} : call'[d] = call[d]
         /\ call'[c].run = call[c].run /\ call'[c].ticket = call[c].ticket
         /\ call'[c].pc = pc /\ call'[c].decision = call[c].decision
<1>1. call \in [Calls -> CallRecords] /\ call[c] \in CallRecords
  BY DEF AgentInv, CallsAreSound
<1> QED BY <1>1 DEF Goto, Raise, CallRecords

\* A step that leaves no trace and goes on with what it has.
LEMMA SilentOwnStep ==
  ASSUME AgentInv, LoopInv, NEW c \in Calls, Live(c), UNCHANGED tables, evidence' = evidence,
         trace' = trace,
         \A d \in Calls \ {c} : call'[d] = call[d],
         call'[c].run = call[c].run, call'[c].ticket = call[c].ticket,
         call'[c].decision = call[c].decision,
         call[c].pc # "fail", call'[c].pc \in LivePcs \ {"decide"},
         Recorded(call'[c].pc) = Recorded(call[c].pc),
         call'[c].pc \in {"draft", "draft_trace", "finalize"} =>
           call[c].pc \in {"draft", "draft_trace", "finalize"}
  PROVE  LoopInv'
<1>1. PICK r \in RunIds : r = call[c].run
  BY DEF AgentInv, CallsAreSound
<1>2. call[c].pc \in LivePcs /\ call'[c].pc \notin {"idle", "answered"}
  BY DEF AgentInv, CallsAreSound, CallRecords, Live, LivePcs
<1>3. CurrentDecision(c) /\ OrderedLog(c)
  BY DEF LoopInv, CurrentDecisions, OrderedLogs
<1>4. LoopTrace(c)' = LoopTrace(c)
  BY DEF LoopTrace
<1>5. call'[c].pc \in {"draft", "draft_trace", "finalize"} /\ run[r].status = "running" =>
        Concluded(call[c].ticket, call'[c].decision, ExecutedOf(call[c].ticket))
  BY <1>1, <1>3 DEF CurrentDecision
<1>6. RunExists(r) => /\ Len(trace'[r]) = Recorded(call'[c].pc)
                      /\ \A i \in 1..Recorded(call'[c].pc) : trace'[r][i] = LoopTrace(c)'[i]
  BY <1>1, <1>2, <1>3, <1>4 DEF OrderedLog
<1> QED BY <1>1, <1>2, <1>5, <1>6, OwnStep

\* create_investigation_plan leaves no trace.
LEMMA PlanOwnStep ==
  ASSUME AgentInv, LoopInv, NEW c \in Calls, Plan(c)
  PROVE  LoopInv'
<1>1. /\ Live(c) /\ UNCHANGED tables /\ trace' = trace /\ evidence' = evidence
      /\ call[c].pc = "plan"
  BY DEF Plan, Live, Ended
<1>2. CASE Goto(c, "fail")
  BY <1>1, <1>2, JumpEffect, EndingStep
<1>3. ASSUME NEW verdict, NEW again \in BOOLEAN,
             call' = [call EXCEPT ![c].pc = IF again THEN "plan" ELSE "plan_trace",
                                  ![c].tries = IF again THEN 1 ELSE @,
                                  ![c].accepted = verdict.accepted,
                                  ![c].follows = verdict.follows]
      PROVE  LoopInv'
  <2>1. call \in [Calls -> CallRecords] /\ call[c] \in CallRecords
    BY DEF AgentInv, CallsAreSound
  <2>2. /\ \A d \in Calls \ {c} : call'[d] = call[d]
        /\ call'[c].run = call[c].run /\ call'[c].ticket = call[c].ticket
        /\ call'[c].decision = call[c].decision
        /\ call'[c].pc \in {"plan", "plan_trace"}
    BY <2>1, <1>3 DEF CallRecords
  <2>3. Recorded(call'[c].pc) = Recorded(call[c].pc)
    BY <2>2, <1>1 DEF Recorded
  <2>4. call'[c].pc \in LivePcs \ {"decide"}
    BY <2>2 DEF LivePcs
  <2> QED BY <1>1, <2>2, <2>3, <2>4, SilentOwnStep
<1> QED BY <1>2, <1>3 DEF Plan

\* How many traces there are before and after each step that records one.
LEMMA RecordedCounts ==
  /\ Recorded("plan_trace") = 0 /\ Recorded("verify_trace") = 1 /\ Recorded("evidence") = 2
  /\ Recorded("prior") = 3 /\ Recorded("decide") = 4 /\ Recorded("draft") = 5
  /\ Recorded("draft_trace") = 5 /\ Recorded("finalize") = 5
BY DEF Recorded

\* The first trace.
LEMMA RecordPlanOwnStep ==
  ASSUME AgentInv, LoopInv, NEW c \in Calls, RecordPlan(c)
  PROVE  LoopInv'
<1> DEFINE row == Governed("plan.investigation", {"ticket"}, FALSE, {}, Absent)
           goto == Goto(c, "verify_trace")
<1>1. Live(c) /\ call[c].pc = "plan_trace" /\ Record(c, row, goto)
  BY DEF RecordPlan, Live, Ended
<1>2. Recorded(call[c].pc) = 0 /\ Recorded("verify_trace") = 0 + 1
  BY <1>1, RecordedCounts
<1>3. LoopTrace(c)'[0 + 1] = row
  BY DEF LoopTrace
<1>4. goto => /\ \A d \in Calls \ {c} : call'[d] = call[d]
              /\ call'[c].run = call[c].run /\ call'[c].ticket = call[c].ticket
              /\ call'[c].pc = "verify_trace"
  BY JumpEffect
<1>5. "verify_trace" \in LivePcs
  BY DEF LivePcs
<1> HIDE DEF row, goto
<1> QED BY <1>1, <1>2, <1>3, <1>4, <1>5, RecordedStep

\* The second, of an accepted plan.
LEMMA RecordVerdictOwnStep ==
  ASSUME AgentInv, LoopInv, NEW c \in Calls, RecordVerdict(c)
  PROVE  LoopInv'
<1> DEFINE row == IF call[c].accepted
                  THEN Governed("plan.verify", {"ticket"}, FALSE, {}, Absent)
                  ELSE [Governed("plan.verify", {"ticket"}, FALSE, {}, "plan.blocked")
                          EXCEPT !.metadata.reason = "plan.blocked"]
           next == IF call[c].accepted THEN "evidence" ELSE "fail"
           goto == Goto(c, next)
<1>1. Live(c) /\ call[c].pc = "verify_trace" /\ Record(c, row, goto)
  BY DEF RecordVerdict, Live, Ended
<1>2. Recorded(call[c].pc) = 1 /\ Recorded("evidence") = 1 + 1
  BY <1>1, RecordedCounts
<1>3. /\ next # "fail" => LoopTrace(c)'[1 + 1] = row
      /\ \A i \in 1..1 : LoopTrace(c)'[i] = LoopTrace(c)[i]
  <2>1. /\ LoopTrace(c)'[1 + 1] = Governed("plan.verify", {"ticket"}, FALSE, {}, Absent)
        /\ LoopTrace(c)'[1] = LoopTrace(c)[1]
    BY DEF LoopTrace
  <2>2. next # "fail" => row = Governed("plan.verify", {"ticket"}, FALSE, {}, Absent)
    OBVIOUS
  <2>3. \A i \in 1..1 : i = 1
    OBVIOUS
  <2> HIDE DEF row, next
  <2> QED BY <2>1, <2>2, <2>3
<1>4. goto => /\ \A d \in Calls \ {c} : call'[d] = call[d]
              /\ call'[c].run = call[c].run /\ call'[c].ticket = call[c].ticket
              /\ call'[c].pc = next
  BY JumpEffect
<1>5. next \in {"evidence", "fail"} /\ next \in LivePcs
  BY DEF LivePcs
<1> HIDE DEF row, goto, next
<1> QED BY <1>1, <1>2, <1>3, <1>4, <1>5, RecordedStep

\* The third.
LEMMA ReadEvidenceOwnStep ==
  ASSUME AgentInv, LoopInv, NEW c \in Calls, ReadEvidence(c)
  PROVE  LoopInv'
<1> DEFINE found == evidence[call[c].ticket]
           row == EvidenceTrace(found)
           goto == Goto(c, "prior")
<1>1. Live(c) /\ call[c].pc = "evidence"
  BY DEF ReadEvidence, Live, Ended
<1>2. CASE ~found.found
  BY <1>1, <1>2, JumpEffect, EndingStep DEF ReadEvidence
<1>3. CASE found.found
  <2>1. Record(c, row, goto)
    BY <1>3 DEF ReadEvidence
  <2>2. Recorded(call[c].pc) = 2 /\ Recorded("prior") = 2 + 1
    BY <1>1, RecordedCounts
  <2>3. goto => /\ \A d \in Calls \ {c} : call'[d] = call[d]
                /\ call'[c].run = call[c].run /\ call'[c].ticket = call[c].ticket
                /\ call'[c].pc = "prior"
    BY JumpEffect
  <2>4. goto /\ evidence' = evidence =>
          /\ LoopTrace(c)'[2 + 1] = row
          /\ \A i \in 1..2 : LoopTrace(c)'[i] = LoopTrace(c)[i]
    BY <2>3 DEF LoopTrace
  <2>5. "prior" \in LivePcs
    BY DEF LivePcs
  <2> HIDE DEF row, goto
  <2> QED BY <1>1, <2>1, <2>2, <2>3, <2>4, <2>5, RecordedStep
<1> QED BY <1>2, <1>3

\* The fourth, with what is executed now.
LEMMA ReadPriorOwnStep ==
  ASSUME AgentInv, LoopInv, NEW c \in Calls, ReadPrior(c)
  PROVE  LoopInv'
<1> DEFINE row == Governed("read.prior_financial_actions", {"ticket"}, FALSE, {}, Absent)
           goto == call' = [call EXCEPT ![c].pc = "decide", ![c].executed = ExecutedOf(call[c].ticket)]
<1>1. Live(c) /\ call[c].pc = "prior"
  BY DEF ReadPrior, Live, Ended
<1>2. Record(c, row, goto)
  BY DEF ReadPrior, ExecutedOf
<1>3. Recorded(call[c].pc) = 3 /\ Recorded("decide") = 3 + 1
  BY <1>1, RecordedCounts
<1>4. ASSUME goto
      PROVE  /\ \A d \in Calls \ {c} : call'[d] = call[d]
             /\ call'[c].run = call[c].run /\ call'[c].ticket = call[c].ticket
             /\ call'[c].pc = "decide" /\ call'[c].executed = ExecutedOf(call[c].ticket)
  <2>1. call \in [Calls -> CallRecords] /\ call[c] \in CallRecords
    BY DEF AgentInv, CallsAreSound
  <2> QED BY <2>1, <1>4 DEF CallRecords
<1>5. goto /\ evidence' = evidence =>
        /\ LoopTrace(c)'[3 + 1] = row
        /\ \A i \in 1..3 : LoopTrace(c)'[i] = LoopTrace(c)[i]
  BY <1>4 DEF LoopTrace
<1>6. "decide" \in LivePcs
  BY DEF LivePcs
<1> HIDE DEF row, goto
<1> QED BY <1>1, <1>2, <1>3, <1>4, <1>5, <1>6, RecordedStep

\* The fifth: the decision is the tools' on what is executed, which nobody
\* changes while the run is running.
LEMMA DecideOwnStep ==
  ASSUME AgentInv, LoopInv, NEW c \in Calls, Decide(c)
  PROVE  LoopInv'
<1> DEFINE t == call[c].ticket
           known == evidence[call[c].ticket]
<1>1. Live(c) /\ call[c].pc = "decide"
  BY DEF Decide, Live, Ended
<1>2. PICK reading \in Readings(known.charges) :
        LET decision == Evaluate(known, reading, call[c].executed) IN
        Record(c, Governed(DecisionPolicy(known.scenario), decision.refs, TRUE, {}, Absent),
               call' = [call EXCEPT ![c].pc = "draft", ![c].tries = 0,
                                    ![c].decision = decision, ![c].executed = {}])
  BY Zenon DEF Decide, DecisionTrace
<1> DEFINE decision == Evaluate(known, reading, call[c].executed)
           row == DecisionTrace(known, decision)
           goto == call' = [call EXCEPT ![c].pc = "draft", ![c].tries = 0,
                                        ![c].decision = decision, ![c].executed = {}]
<1>3. Record(c, row, goto)
  BY <1>2 DEF DecisionTrace
<1>4. Recorded(call[c].pc) = 4 /\ Recorded("draft") = 4 + 1
  BY <1>1, RecordedCounts
<1>5. run[call[c].run].status = "running" => Concluded(t, decision, ExecutedOf(t))
  BY <1>1 DEF LoopInv, CurrentDecisions, CurrentDecision, Concluded
<1> HIDE DEF decision
<1>6. ASSUME goto
      PROVE  /\ \A d \in Calls \ {c} : call'[d] = call[d]
             /\ call'[c].run = call[c].run /\ call'[c].ticket = call[c].ticket
             /\ call'[c].pc = "draft" /\ call'[c].decision = decision
  <2>1. call \in [Calls -> CallRecords] /\ call[c] \in CallRecords
    BY DEF AgentInv, CallsAreSound
  <2> QED BY <2>1, <1>6 DEF CallRecords
<1>7. goto /\ evidence' = evidence =>
        /\ LoopTrace(c)'[4 + 1] = row
        /\ \A i \in 1..4 : LoopTrace(c)'[i] = LoopTrace(c)[i]
  BY <1>6 DEF LoopTrace
<1>8. "draft" \in LivePcs
  BY DEF LivePcs
<1> HIDE DEF row, goto
<1> QED BY <1>1, <1>3, <1>4, <1>5, <1>6, <1>7, <1>8, RecordedStep

\* A draft leaves no trace, unless it failed twice.
LEMMA DraftOwnStep ==
  ASSUME AgentInv, LoopInv, NEW c \in Calls, Draft(c) \/ RecordDraftFailure(c)
  PROVE  LoopInv'
<1>1. Live(c) /\ call[c].pc \in {"draft", "draft_trace"}
  BY DEF Draft, RecordDraftFailure, Live, Ended
<1>2. call \in [Calls -> CallRecords] /\ call[c] \in CallRecords
  BY DEF AgentInv, CallsAreSound
<1>3. CASE Draft(c)
  <2>1. /\ \A d \in Calls \ {c} : call'[d] = call[d]
        /\ call'[c].run = call[c].run /\ call'[c].ticket = call[c].ticket
        /\ call'[c].decision = call[c].decision
        /\ call'[c].pc \in {"draft", "draft_trace", "finalize"}
    BY <1>2, <1>3 DEF Draft, Goto, CallRecords
  <2>2. Recorded(call'[c].pc) = Recorded(call[c].pc)
    BY <1>1, <2>1, RecordedCounts
  <2>3. call'[c].pc \in LivePcs \ {"decide"}
    BY <2>1 DEF LivePcs
  <2> QED BY <1>1, <1>3, <2>1, <2>2, <2>3, SilentOwnStep DEF Draft
<1>4. CASE RecordDraftFailure(c)
  <2> DEFINE row == Governed("draft.resolution", call[c].decision.refs, TRUE, {}, "provider.failed")
             goto == Goto(c, "fail")
  <2>1. Record(c, row, goto) /\ call[c].pc = "draft_trace"
    BY <1>4 DEF RecordDraftFailure
  <2>2. goto => /\ \A d \in Calls \ {c} : call'[d] = call[d]
                /\ call'[c].run = call[c].run /\ call'[c].ticket = call[c].ticket
                /\ call'[c].pc = "fail"
    BY JumpEffect
  <2>3. Recorded(call[c].pc) = 5 /\ "fail" \in LivePcs
    BY <2>1, RecordedCounts DEF LivePcs
  <2> HIDE DEF row, goto
  <2> QED BY <1>1, <2>1, <2>2, <2>3, RecordedStep
<1> QED BY <1>3, <1>4

\* A call that is refused, that dies or that the provider's error ends.
LEMMA LostOwnStep ==
  ASSUME AgentInv, LoopInv, NEW c \in Calls,
         FinalizeRefused(c) \/ Die(c) \/ Escape(c, "plan") \/ Escape(c, "draft")
  PROVE  LoopInv'
<1>1. Live(c) /\ UNCHANGED tables /\ trace' = trace /\ evidence' = evidence
  BY DEF FinalizeRefused, Die, Escape, Live, Ended
<1>2. Goto(c, "dead") \/ \E cause \in Causes : Raise(c, cause)
  BY DEF FinalizeRefused, Die, Escape, Causes
<1> QED BY <1>1, <1>2, JumpEffect, EndingStep

-----------------------------------------------------------------------------
(* The steps that change a table.                                          *)

\* What a step proposes was concluded from what is executed.
ProposalsAreConcluded ==
  \A q \in RunIds, a \in Actions : FinalizeForApproval(q, a) =>
    \E decision : decision.action = a /\ a # NoAction
                    /\ Concluded(run[q].ticket, decision, ExecutedOf(run[q].ticket))

\* What such a step has to show of a call that is not its own.
LEMMA KeptCall ==
  ASSUME AgentInv, LoopInv, IInv', [Next]_tables, evidence' = evidence,
         NEW d \in Calls, call'[d] = call[d],
         \A q \in RunIds : call[d].run = q /\ run'[q].status # Absent =>
           /\ RunExists(q)
           /\ run'[q].status = "completed" => run[q].status = "completed"
           /\ trace'[q] = trace[q] \/ (~Live(d) /\ \E row : trace'[q] = Append(trace[q], row)),
         ProposalsAreConcluded
  PROVE  CurrentDecision(d)' /\ OrderedLog(d)'
<1>1. PICK r \in RunIds \cup {None} : r = call[d].run
  BY DEF AgentInv, CallsAreSound, CallRecords
<1>2. CurrentDecision(d) /\ OrderedLog(d)
  BY DEF LoopInv, CurrentDecisions, OrderedLogs
<1>3. r # None /\ run'[r].status # Absent =>
        /\ RunExists(r)
        /\ run'[r].status = "completed" => run[r].status = "completed"
        /\ trace'[r] = trace[r] \/ (~Live(d) /\ \E row : trace'[r] = Append(trace[r], row))
  BY <1>1
<1>4. r # None /\ run'[r].status = "completed" => run[r].status = "completed"
  BY <1>3 DEF Absent
<1>5. CurrentDecision(d)'
  BY <1>1, <1>2, <1>3, <1>4, KeptDecision DEF ProposalsAreConcluded
<1>6. OrderedLog(d)'
  BY <1>1, <1>2, <1>3, <1>4, KeptLog
<1> QED BY <1>5, <1>6

\* Only a call that is finalizing proposes.
LEMMA FinalizingCall ==
  ASSUME AgentInv, LoopInv, NEW c \in Calls, Live(c), call[c].pc = "finalize",
         NEW r \in RunIds, r = call[c].run, run[r].status = "running"
  PROVE  /\ run[r].ticket = call[c].ticket /\ call[c].ticket \in Tickets
         /\ Concluded(call[c].ticket, call[c].decision, ExecutedOf(call[c].ticket))
BY NoneAssumption DEF LoopInv, CurrentDecisions, CurrentDecision, RunExists, Absent

\* A call that only answers.
LEMMA ReplayOwnStep ==
  ASSUME AgentInv, AgentInv', LoopInv, NEW c \in Calls, NEW t \in Tickets, NEW k \in Keys,
         Replay(c, t, k)
  PROVE  LoopInv'
<1> DEFINE new == [Idle EXCEPT !.pc = "answered", !.ticket = t]
<1>1. /\ call[c].pc = "idle" /\ call' = [call EXCEPT ![c] = new]
      /\ UNCHANGED tables /\ trace' = trace /\ evidence' = evidence
  BY DEF Replay
<1>2. new.pc = "answered" /\ new.run = None /\ new.ticket = t
  BY DEF Idle
<1> HIDE DEF new
<1>3. call'[c] = new /\ \A d \in Calls \ {c} : call'[d] = call[d]
  BY <1>1 DEF AgentInv, CallsAreSound
<1>4. ProposalsAreConcluded
  <2> SUFFICES ASSUME NEW q \in RunIds, NEW a \in Actions, FinalizeForApproval(q, a)
               PROVE  FALSE
    BY DEF ProposalsAreConcluded
  <2>1. run[q].status = "running" /\ run'[q].status = "completed"
    BY DEF FinalizeForApproval, MayEnd, WriteProposal, AgentInv, IInv, TypeOK
  <2> QED BY <1>1, <2>1 DEF tables
<1>5. ASSUME NEW d \in Calls \ {c}
      PROVE  CurrentDecision(d)' /\ OrderedLog(d)'
  <2>1. call'[d] = call[d] /\ run' = run
    BY <1>1, <1>3 DEF tables
  <2> QED BY <1>1, <1>4, <2>1, KeptCall DEF AgentInv, RunExists
<1>6. CurrentDecision(c)' /\ OrderedLog(c)'
  BY <1>2, <1>3 DEF CurrentDecision, OrderedLog, Finalized, Live, Ended, LivePcs
<1>7. RequestsFollowRuns'
  BY <1>1 DEF LoopInv, RequestsFollowRuns, tables
<1> QED BY <1>5, <1>6, <1>7 DEF LoopInv, CurrentDecisions, OrderedLogs

\* A new run has an empty log, and no call has it but its own.
LEMMA StartOwnStep ==
  ASSUME AgentInv, AgentInv', LoopInv, NEW c \in Calls, NEW t \in Tickets, NEW k \in Keys,
         NEW w \in WorkflowIds, NEW r \in RunIds, Start(c, t, k, w, r)
  PROVE  LoopInv'
<1> DEFINE new == [Idle EXCEPT !.pc = "plan", !.ticket = t, !.run = r]
<1>1. /\ call[c].pc = "idle" /\ call' = [call EXCEPT ![c] = new]
      /\ trace' = trace /\ evidence' = evidence
      /\ \A d \in Calls : call[d].run # r
  BY DEF Start, Fresh
<1>2. StartCycle(t, k, w, r) \/ StartRetry(t, k, w, r)
  BY SameStart DEF Start
<1>3. [Next]_tables
  BY <1>2 DEF Next
<1>4. /\ run[r].status = Absent
      /\ run' = [run EXCEPT ![r] = NewRun(t, k, w)] /\ approval' = approval
  BY <1>2 DEF StartCycle, StartRetry, InsertCycle, InsertRetry, RunExists
<1>5. /\ run'[r].status = "running" /\ run'[r].ticket = t
      /\ \A q \in RunIds \ {r} : run'[q] = run[q]
  BY <1>4 DEF NewRun, AgentInv, IInv, TypeOK
<1>6. new.pc = "plan" /\ new.run = r /\ new.ticket = t
  BY DEF Idle
<1> HIDE DEF new
<1>7. call'[c] = new /\ \A d \in Calls \ {c} : call'[d] = call[d]
  BY <1>1 DEF AgentInv, CallsAreSound
<1>8. ProposalsAreConcluded
  <2> SUFFICES ASSUME NEW q \in RunIds, NEW a \in Actions, FinalizeForApproval(q, a)
               PROVE  FALSE
    BY DEF ProposalsAreConcluded
  <2>1. run[q].status = "running" /\ run'[q].status = "completed"
    BY DEF FinalizeForApproval, MayEnd, WriteProposal, AgentInv, IInv, TypeOK
  <2> QED BY <1>5, <2>1
<1>9. ASSUME NEW d \in Calls \ {c}
      PROVE  CurrentDecision(d)' /\ OrderedLog(d)'
  <2>1. \A q \in RunIds : call[d].run = q => run'[q] = run[q] /\ trace'[q] = trace[q]
    BY <1>1, <1>5
  <2> QED BY <1>1, <1>3, <1>7, <1>8, <2>1, KeptCall DEF AgentInv, RunExists
<1>10. trace[r] = << >>
  BY <1>4 DEF AgentInv, LogsAreSound
<1>11. CurrentDecision(c)'
  BY <1>5, <1>6, <1>7 DEF CurrentDecision, Finalized
<1>12. OrderedLog(c)'
  BY <1>1, <1>6, <1>7, <1>10 DEF OrderedLog, Finalized, Recorded
<1>13. RequestsFollowRuns'
  BY <1>3, NextRequestsFollowRuns DEF LoopInv, AgentInv
<1> QED BY <1>9, <1>11, <1>12, <1>13 DEF LoopInv, CurrentDecisions, OrderedLogs

\* A call that ends its run: of the other calls' runs nothing changes.
LEMMA EndingCall ==
  ASSUME AgentInv, AgentInv', LoopInv, NEW c \in Calls, Live(c), Goto(c, "answered"),
         NEW r \in RunIds, r = call[c].run, evidence' = evidence, [Next]_tables,
         \A q \in RunIds \ {r} : run'[q] = run[q] /\ trace'[q] = trace[q],
         ProposalsAreConcluded
  PROVE  /\ call'[c].run = r /\ call'[c].pc = "answered"
         /\ call'[c].ticket = call[c].ticket /\ call'[c].decision = call[c].decision
         /\ CurrentDecision(c)' /\ OrderedLog(c)' => LoopInv'
<1>1. /\ \A d \in Calls \ {c} : call'[d] = call[d]
      /\ call'[c].run = r /\ call'[c].pc = "answered"
      /\ call'[c].ticket = call[c].ticket /\ call'[c].decision = call[c].decision
  BY JumpEffect
<1>2. ASSUME NEW d \in Calls \ {c}
      PROVE  CurrentDecision(d)' /\ OrderedLog(d)'
  <2>1. call[d].run # r
    BY NoneAssumption DEF AgentInv, OneLoopPerRun
  <2>2. \A q \in RunIds : call[d].run = q => run'[q] = run[q] /\ trace'[q] = trace[q]
    BY <2>1
  <2> QED BY <1>1, <2>2, KeptCall DEF AgentInv, RunExists
<1>3. RequestsFollowRuns'
  BY NextRequestsFollowRuns DEF LoopInv, AgentInv
<1> QED BY <1>1, <1>2, <1>3 DEF LoopInv, CurrentDecisions, OrderedLogs

\* fail_run, or its refusal.
LEMMA FailOwnStep ==
  ASSUME AgentInv, AgentInv', LoopInv, NEW c \in Calls, Fail(c)
  PROVE  LoopInv'
<1>1. /\ Live(c) /\ trace' = trace /\ evidence' = evidence
  BY DEF Fail, Live, Ended
<1>2. PICK r \in RunIds : call[c].run = r
  BY <1>1 DEF AgentInv, CallsAreSound
<1>3. CASE Commands!FailRun(r, TRUE) /\ Goto(c, "answered")
  <2>1. FailRun(r, TRUE)
    BY <1>3, SameEnd
  <2>2. [Next]_tables
    BY <2>1 DEF Next
  <2>3. run' = [run EXCEPT ![r].status = "failed"] /\ run[r].status = "running"
    BY <2>1 DEF FailRun, WriteFailure, MayEnd
  <2>4. ProposalsAreConcluded
    <3> SUFFICES ASSUME NEW q \in RunIds, NEW a \in Actions, FinalizeForApproval(q, a)
                 PROVE  FALSE
      BY DEF ProposalsAreConcluded
    <3>1. run[q].status = "running" /\ run'[q].status = "completed"
      BY DEF FinalizeForApproval, MayEnd, WriteProposal, AgentInv, IInv, TypeOK
    <3> QED BY <2>3, <3>1 DEF AgentInv, IInv, TypeOK
  <2>5. /\ run'[r].status = "failed" /\ run'[r].ticket = run[r].ticket
        /\ \A q \in RunIds \ {r} : run'[q] = run[q]
    BY <2>3 DEF AgentInv, IInv, TypeOK, RunRows
  <2>6. /\ call'[c].run = r /\ call'[c].pc = "answered"
        /\ call'[c].ticket = call[c].ticket
        /\ CurrentDecision(c)' /\ OrderedLog(c)' => LoopInv'
    BY <1>1, <1>2, <1>3, <2>2, <2>4, <2>5, EndingCall
  <2>7. /\ call[c].ticket \in Tickets /\ run[r].ticket = call[c].ticket
    BY <1>2, <2>3, NoneAssumption DEF LoopInv, CurrentDecisions, CurrentDecision, RunExists, Absent
  <2>8. CurrentDecision(c)'
    BY <2>5, <2>6, <2>7 DEF CurrentDecision, Finalized, Live, Ended
  <2>9. OrderedLog(c)'
    BY <2>5, <2>6 DEF OrderedLog, Finalized, LivePcs
  <2> QED BY <2>6, <2>8, <2>9
<1>4. CASE Raise(c, "superseded") /\ UNCHANGED tables
  BY <1>1, <1>4, JumpEffect, EndingStep
<1> QED BY <1>2, <1>3, <1>4 DEF Fail

\* A step proposes one action of one run.
LEMMA OneProposal ==
  ASSUME IInv, NEW r \in RunIds, NEW a, FinalizeForApproval(r, a),
         NEW q \in RunIds, NEW b, FinalizeForApproval(q, b)
  PROVE  q = r /\ b = a
<1> DEFINE v == run[r].workflow
           w == run[q].workflow
<1>1. v \in WorkflowIds /\ w \in WorkflowIds
  BY RunsWorkflow DEF FinalizeForApproval, MayEnd, RunExists, Absent
<1>2. /\ approval[w].status = Absent
      /\ approval' = [approval EXCEPT
           ![v] = [status |-> "pending", action |-> a, run |-> r, decider |-> None]]
      /\ approval' = [approval EXCEPT
           ![w] = [status |-> "pending", action |-> b, run |-> q, decider |-> None]]
  BY DEF FinalizeForApproval, WriteProposal
<1> HIDE DEF v, w
<1> QED BY <1>1, <1>2 DEF IInv, TypeOK, Absent

\* One or two more traces leave the first five.
LEMMA LongerLog ==
  ASSUME NEW log \in Seq(TraceRows), Len(log) = 5, NEW x, NEW y
  PROVE  /\ Len(Append(log, x)) >= 5 /\ Len(Append(Append(log, x), y)) >= 5
         /\ \A i \in 1..5 : Append(log, x)[i] = log[i] /\ Append(Append(log, x), y)[i] = log[i]
<1> DEFINE rows == TraceRows \cup {x}
           longer == Append(log, x)
<1>1. ASSUME NEW S, NEW s \in Seq(S), Len(s) >= 5, NEW e
      PROVE  Len(Append(s, e)) = Len(s) + 1 /\ \A i \in 1..5 : Append(s, e)[i] = s[i]
  <2>1. Len(Append(s, e)) = Len(s) + 1
    OBVIOUS
  <2>2. ASSUME NEW i \in 1..5
        PROVE  Append(s, e)[i] = s[i]
    <3>1. i \in 1..Len(s)
      BY <1>1
    <3> QED BY <3>1
  <2> QED BY <2>1, <2>2
<1>2. longer \in Seq(rows)
  <2>1. log \in Seq(rows) /\ x \in rows
    BY SeqMonotonic
  <2> HIDE DEF rows
  <2> QED BY <2>1
<1>3. Len(longer) = Len(log) + 1 /\ \A i \in 1..5 : longer[i] = log[i]
  <2>1. Len(log) >= 5
    OBVIOUS
  <2> QED BY Zenon, <1>1, <2>1
<1>4. Len(longer) = 6
  BY <1>3
<1> HIDE DEF longer, rows
<1>5. /\ Len(Append(longer, y)) = Len(longer) + 1
      /\ \A i \in 1..5 : Append(longer, y)[i] = longer[i]
  <2>1. Len(longer) >= 5
    BY <1>4
  <2> QED BY Zenon, <1>1, <1>2, <2>1
<1> QED BY <1>3, <1>4, <1>5 DEF longer

\* finalize_run's traces follow the loop's.
LEMMA FinalLog ==
  ASSUME AgentInv, LoopInv, NEW c \in Calls, Live(c), call[c].pc = "finalize",
         NEW r \in RunIds, r = call[c].run, RunExists(r), evidence' = evidence,
         call'[c].run = r, call'[c].pc = "answered", call'[c].ticket = call[c].ticket,
         call'[c].decision = call[c].decision,
         NEW row, NEW rest,
         trace'[r] = Append(trace[r], row) \/ trace'[r] = Append(Append(trace[r], row), rest)
  PROVE  OrderedLog(c)'
<1>1. trace[r] \in Seq(TraceRows)
  BY DEF AgentInv, LogsAreSound
<1>2. Len(trace[r]) = 5 /\ \A i \in 1..5 : trace[r][i] = LoopTrace(c)[i]
  BY DEF LoopInv, OrderedLogs, OrderedLog, Recorded, LivePcs
<1>3. LoopTrace(c)' = LoopTrace(c)
  BY DEF LoopTrace
<1>4. Len(trace'[r]) >= 5 /\ \A i \in 1..5 : trace'[r][i] = trace[r][i]
  <2>1. /\ Len(Append(trace[r], row)) >= 5 /\ Len(Append(Append(trace[r], row), rest)) >= 5
        /\ \A i \in 1..5 : /\ Append(trace[r], row)[i] = trace[r][i]
                          /\ Append(Append(trace[r], row), rest)[i] = trace[r][i]
    BY <1>1, <1>2, LongerLog
  <2>2. CASE trace'[r] = Append(trace[r], row)
    BY <2>1, <2>2
  <2>3. CASE trace'[r] = Append(Append(trace[r], row), rest)
    BY <2>1, <2>3
  <2> QED BY <2>2, <2>3
<1> QED BY <1>2, <1>3, <1>4 DEF OrderedLog, Finalized, LivePcs

\* finalize_run without a proposal.
LEMMA FinalizeNoActionOwnStep ==
  ASSUME AgentInv, AgentInv', LoopInv, NEW c \in Calls, Live(c), call[c].pc = "finalize",
         NEW r \in RunIds, r = call[c].run, call[c].decision.action = NoAction,
         FinalizeNoAction(r), Goto(c, "answered"), evidence' = evidence,
         trace' = [trace EXCEPT ![r] = Append(@, DraftTrace(c))]
  PROVE  LoopInv'
<1>0. PICK t, decision, w :
        t = call[c].ticket /\ decision = call[c].decision /\ w = run[r].workflow
  OBVIOUS
<1>1. [Next]_tables
  BY DEF Next
<1>2. /\ run' = [run EXCEPT ![r].status = "completed"] /\ run[r].status = "running"
      /\ approval' = approval /\ Move(w, workflow[w], "completed_no_action")
  BY <1>0 DEF FinalizeNoAction, WriteNoAction, MayEnd
<1>3. RunExists(r) /\ run[r].ticket = t /\ t \in Tickets /\ Concluded(t, decision, ExecutedOf(t))
  BY <1>0, <1>2, FinalizingCall DEF RunExists, Absent
<1>4. /\ w \in WorkflowIds /\ workflow[w].ticket = t /\ workflow[w].status = "investigating"
  BY <1>0, <1>2, <1>3, RunsWorkflow DEF AgentInv, IInv, RunTracksWorkflow
<1>5. ProposalsAreConcluded
  <2> SUFFICES ASSUME NEW q \in RunIds, NEW a \in Actions, FinalizeForApproval(q, a)
               PROVE  FALSE
    BY DEF ProposalsAreConcluded
  <2>1. run[q].workflow \in WorkflowIds
    BY RunsWorkflow DEF FinalizeForApproval, MayEnd, RunExists, Absent, AgentInv
  <2> QED BY <1>2, <2>1 DEF FinalizeForApproval, WriteProposal, AgentInv, IInv, TypeOK, Absent
<1>6. /\ trace'[r] = Append(trace[r], DraftTrace(c))
      /\ \A q \in RunIds \ {r} : trace'[q] = trace[q]
  BY DEF AgentInv, LogsAreSound
<1>7. /\ call'[c].run = r /\ call'[c].pc = "answered"
      /\ call'[c].ticket = t /\ call'[c].decision = decision
      /\ run'[r].status = "completed" /\ run'[r].ticket = run[r].ticket
      /\ run'[r].workflow = w
      /\ CurrentDecision(c)' /\ OrderedLog(c)' => LoopInv'
  <2>1. /\ run'[r].status = "completed" /\ run'[r].ticket = run[r].ticket
        /\ run'[r].workflow = w
        /\ \A q \in RunIds \ {r} : run'[q] = run[q]
    BY <1>0, <1>2 DEF AgentInv, IInv, TypeOK, RunRows
  <2>2. /\ call'[c].run = r /\ call'[c].pc = "answered"
        /\ call'[c].ticket = call[c].ticket /\ call'[c].decision = call[c].decision
        /\ CurrentDecision(c)' /\ OrderedLog(c)' => LoopInv'
    BY <1>1, <1>5, <1>6, <2>1, EndingCall
  <2> QED BY <1>0, <2>1, <2>2
<1>8. OrderedLog(c)'
  BY <1>0, <1>3, <1>6, <1>7, FinalLog
<1>9. \E executed \in SUBSET ExecutedOf(t)' : Concluded(t, decision, executed)'
  <2>1. ExecutedOf(t) \subseteq ExecutedOf(t)'
    BY <1>1, <1>3, <1>7, ExecutedStep DEF AgentInv, Absent
  <2>2. \A executed : Concluded(t, decision, executed) => Concluded(t, decision, executed)'
    BY DEF Concluded
  <2> QED BY <1>3, <2>1, <2>2
<1>10. workflow'[w].status = "completed_no_action"
  BY <1>2, <1>4, MovedRow DEF AgentInv, IInv
<1>11. ASSUME NEW v \in WorkflowsOf(t)', approval'[v].status = "pending"
       PROVE  FALSE
  <2>1. v \in WorkflowIds /\ workflow[v].status = "awaiting_approval" /\ v # w
    BY <1>2, <1>4, <1>11 DEF AgentInv, IInv, DecisionsAgree, WorkflowsOf
  <2>2. workflow[v].ticket = t
    BY <1>2, <1>4, <1>11, <2>1, MovedRow DEF WorkflowsOf, AgentInv, IInv
  <2>3. Active(v) /\ Active(w)
    BY <1>4, <2>1 DEF Active, ActiveStatuses
  <2> QED BY <1>4, <2>1, <2>2, <2>3, OneActive DEF AgentInv, IInv
<1>12. CurrentDecision(c)'
  <2>1. decision.action = NoAction
    BY <1>0
  <2> QED BY <1>3, <1>7, <1>9, <1>10, <1>11, <2>1 DEF CurrentDecision, Finalized, Live, Ended
<1> QED BY <1>7, <1>8, <1>12

\* finalize_run with a proposal.
LEMMA FinalizeForApprovalOwnStep ==
  ASSUME AgentInv, AgentInv', LoopInv, NEW c \in Calls, Live(c), call[c].pc = "finalize",
         NEW r \in RunIds, r = call[c].run,
         NEW a \in Actions, a = call[c].decision.action, a # NoAction,
         FinalizeForApproval(r, a), Goto(c, "answered"), evidence' = evidence,
         trace' = [trace EXCEPT ![r] = @ \o <<DraftTrace(c), ApprovalTrace(c)>>]
  PROVE  LoopInv'
<1>0. PICK t, decision, w :
        t = call[c].ticket /\ decision = call[c].decision /\ w = run[r].workflow
  OBVIOUS
<1>1. [Next]_tables
  BY DEF Next
<1>2. /\ run' = [run EXCEPT ![r].status = "completed"] /\ run[r].status = "running"
      /\ approval' = [approval EXCEPT
           ![w] = [status |-> "pending", action |-> a, run |-> r, decider |-> None]]
  BY <1>0 DEF FinalizeForApproval, WriteProposal, MayEnd
<1>3. RunExists(r) /\ run[r].ticket = t /\ t \in Tickets /\ Concluded(t, decision, ExecutedOf(t))
  BY <1>0, <1>2, FinalizingCall DEF RunExists, Absent
<1>4. w \in WorkflowIds
  BY <1>0, <1>3, RunsWorkflow DEF AgentInv
<1>5. ProposalsAreConcluded
  <2> SUFFICES ASSUME NEW q \in RunIds, NEW b \in Actions, FinalizeForApproval(q, b)
               PROVE  \E other : /\ other.action = b /\ b # NoAction
                                 /\ Concluded(run[q].ticket, other, ExecutedOf(run[q].ticket))
    BY DEF ProposalsAreConcluded
  <2>1. q = r /\ b = a
    BY OneProposal DEF AgentInv
  <2> QED BY <1>0, <1>3, <2>1
<1>6. /\ trace'[r] = Append(Append(trace[r], DraftTrace(c)), ApprovalTrace(c))
      /\ \A q \in RunIds \ {r} : trace'[q] = trace[q]
  <2>1. trace \in [RunIds -> Seq(TraceRows)]
    BY DEF AgentInv, LogsAreSound
  <2>2. ASSUME NEW log \in Seq(TraceRows), NEW x, NEW y
        PROVE  log \o <<x, y>> = Append(Append(log, x), y)
    OBVIOUS
  <2>3. trace'[r] = trace[r] \o <<DraftTrace(c), ApprovalTrace(c)>>
    BY <2>1
  <2> QED BY <2>1, <2>2, <2>3
<1>7. /\ call'[c].run = r /\ call'[c].pc = "answered"
      /\ call'[c].ticket = t /\ call'[c].decision = decision
      /\ run'[r].status = "completed" /\ run'[r].ticket = run[r].ticket
      /\ run'[r].workflow = w
      /\ CurrentDecision(c)' /\ OrderedLog(c)' => LoopInv'
  <2>1. /\ run'[r].status = "completed" /\ run'[r].ticket = run[r].ticket
        /\ run'[r].workflow = w
        /\ \A q \in RunIds \ {r} : run'[q] = run[q]
    BY <1>0, <1>2 DEF AgentInv, IInv, TypeOK, RunRows
  <2>2. /\ call'[c].run = r /\ call'[c].pc = "answered"
        /\ call'[c].ticket = call[c].ticket /\ call'[c].decision = call[c].decision
        /\ CurrentDecision(c)' /\ OrderedLog(c)' => LoopInv'
    BY <1>1, <1>5, <1>6, <2>1, EndingCall
  <2> QED BY <1>0, <2>1, <2>2
<1>8. OrderedLog(c)'
  <2>1. PICK row, rest : trace'[r] = Append(Append(trace[r], row), rest)
    BY <1>6
  <2> QED BY <1>0, <1>3, <1>7, <2>1, FinalLog
<1>9. \E executed \in SUBSET ExecutedOf(t)' : Concluded(t, decision, executed)'
  <2>1. ExecutedOf(t) \subseteq ExecutedOf(t)'
    BY <1>1, <1>3, <1>7, ExecutedStep DEF AgentInv, Absent
  <2>2. \A executed : Concluded(t, decision, executed) => Concluded(t, decision, executed)'
    BY DEF Concluded
  <2> QED BY <1>3, <2>1, <2>2
<1>10. approval'[w].run = r /\ approval'[w].action = a
  BY <1>2, <1>4 DEF AgentInv, IInv, TypeOK
<1>11. CurrentDecision(c)'
  <2>1. decision.action = a /\ a # NoAction
    BY <1>0
  <2> QED BY <1>3, <1>7, <1>9, <1>10, <2>1 DEF CurrentDecision, Finalized, Live, Ended
<1> QED BY <1>7, <1>8, <1>11

LEMMA FinalizeOwnStep ==
  ASSUME AgentInv, AgentInv', LoopInv, NEW c \in Calls, Finalize(c)
  PROVE  LoopInv'
<1>1. /\ Live(c) /\ call[c].pc = "finalize" /\ Goto(c, "answered") /\ evidence' = evidence
  BY DEF Finalize, Live, Ended
<1>2. PICK r \in RunIds, a \in Actions \cup {NoAction} :
        r = call[c].run /\ a = call[c].decision.action
  BY <1>1 DEF AgentInv, CallsAreSound, CallRecords, DecisionRecords
<1>3. CASE a = NoAction
  <2>1. /\ Commands!FinalizeNoAction(r)
        /\ trace' = [trace EXCEPT ![r] = Append(@, DraftTrace(c))]
    BY <1>2, <1>3 DEF Finalize
  <2>2. FinalizeNoAction(r)
    BY <2>1, SameEnd
  <2> QED BY <1>1, <1>2, <1>3, <2>1, <2>2, FinalizeNoActionOwnStep
<1>4. CASE a # NoAction
  <2>1. /\ Commands!FinalizeForApproval(r, a)
        /\ trace' = [trace EXCEPT ![r] = @ \o <<DraftTrace(c), ApprovalTrace(c)>>]
    BY <1>2, <1>4 DEF Finalize
  <2>2. FinalizeForApproval(r, a)
    BY <2>1, SameEnd
  <2> QED BY <1>1, <1>2, <1>4, <2>1, <2>2, FinalizeForApprovalOwnStep
<1> QED BY <1>3, <1>4

\* What people do and a reset ends no call's run in another way, and only the runs
\* that are completed get another trace.
LEMMA OthersStep ==
  ASSUME AgentInv, AgentInv', LoopInv, [Next]_tables, call' = call, evidence' = evidence,
         \A q \in RunIds :
           \/ run'[q] = run[q]
           \/ run[q].status = "running" /\ run'[q].status = "cancelled"
           \/ run'[q].status = Absent,
         \A q \in RunIds : run'[q].status # Absent =>
           \/ trace'[q] = trace[q]
           \/ run[q].status = "completed" /\ \E row : trace'[q] = Append(trace[q], row)
  PROVE  LoopInv'
<1>1. ProposalsAreConcluded
  <2> SUFFICES ASSUME NEW q \in RunIds, NEW a \in Actions, FinalizeForApproval(q, a)
               PROVE  FALSE
    BY DEF ProposalsAreConcluded
  <2>1. run[q].status = "running" /\ run'[q].status = "completed"
    BY DEF FinalizeForApproval, MayEnd, WriteProposal, AgentInv, IInv, TypeOK
  <2> QED BY <2>1 DEF Absent
<1>2. ASSUME NEW d \in Calls
      PROVE  CurrentDecision(d)' /\ OrderedLog(d)'
  <2>1. ASSUME NEW q \in RunIds, call[d].run = q, run'[q].status # Absent
        PROVE  /\ RunExists(q)
               /\ run'[q].status = "completed" => run[q].status = "completed"
               /\ \/ trace'[q] = trace[q]
                  \/ ~Live(d) /\ \E row : trace'[q] = Append(trace[q], row)
    <3>1. run[q].status = "completed" => ~Live(d)
      BY <2>1 DEF AgentInv, CallsAreSound
    <3> QED BY <2>1, <3>1 DEF RunExists, Absent
  <2> QED BY <1>1, <2>1, KeptCall DEF AgentInv
<1>3. RequestsFollowRuns'
  BY NextRequestsFollowRuns DEF LoopInv, AgentInv
<1> QED BY <1>2, <1>3 DEF LoopInv, CurrentDecisions, OrderedLogs

LEMMA CancelKeepsCalls ==
  ASSUME AgentInv, AgentInv', LoopInv, NEW w \in WorkflowIds, Cancel(w)
  PROVE  LoopInv'
<1>1. call' = call /\ trace' = trace /\ evidence' = evidence
  BY DEF Cancel, locals
<1>2. CancelWorkflow(w, Supervisor) /\ Supervisor \in Roles
  BY SameDecision DEF Cancel, Supervisor, Roles
<1>3. \A q \in RunIds : \/ run'[q] = run[q]
                        \/ run[q].status = "running" /\ run'[q].status = "cancelled"
  BY <1>2, CancelEffect DEF AgentInv, IInv
<1>4. [Next]_tables
  BY <1>2 DEF Next
<1> QED BY <1>1, <1>3, <1>4, OthersStep

LEMMA RejectKeepsCalls ==
  ASSUME AgentInv, AgentInv', LoopInv, NEW w \in WorkflowIds, Reject(w)
  PROVE  LoopInv'
<1>1. call' = call /\ trace' = trace /\ evidence' = evidence
  BY DEF Reject, locals
<1>2. RejectApproval(w, Supervisor) /\ Supervisor \in Roles
  BY SameDecision DEF Reject, Supervisor, Roles
<1>3. run' = run
  BY <1>2 DEF RejectApproval, WriteRejection
<1>4. [Next]_tables
  BY <1>2 DEF Next
<1> QED BY <1>1, <1>3, <1>4, OthersStep

\* The mutation's trace comes after the traces of a run that is completed.
LEMMA ApproveKeepsCalls ==
  ASSUME AgentInv, AgentInv', LoopInv, NEW w \in WorkflowIds, Approve(w)
  PROVE  LoopInv'
<1>1. call' = call /\ evidence' = evidence
  BY DEF Approve
<1>2. ApproveAndExecute(w, Supervisor) /\ Supervisor \in Roles
  BY SameDecision DEF Approve, Supervisor, Roles
<1>3. run' = run /\ approval[w].status = "pending"
  BY <1>2 DEF ApproveAndExecute, WriteExecution
<1>4. [Next]_tables
  BY <1>2 DEF Next
<1>5. PICK r \in RunIds : approval[w].run = r
  BY <1>3 DEF AgentInv, IInv, RowsAreComplete, TypeOK, ApprovalRows, Absent
<1>6. run[r].status = "completed"
  BY <1>5, NoneAssumption DEF LoopInv, RequestsFollowRuns
<1>7. \E row : trace' = [trace EXCEPT ![r] = Append(@, row)]
  BY <1>5 DEF Approve
<1>8. \A q \in RunIds : \/ trace'[q] = trace[q]
                        \/ run[q].status = "completed" /\ \E row : trace'[q] = Append(trace[q], row)
  BY <1>6, <1>7 DEF AgentInv, LogsAreSound
<1> QED BY <1>1, <1>3, <1>4, <1>8, OthersStep

\* So does the blocked trace of an approval that is refused.
LEMMA ApproveRefusedKeepsCalls ==
  ASSUME AgentInv, AgentInv', LoopInv, NEW w \in WorkflowIds, ApproveRefused(w)
  PROVE  LoopInv'
<1>1. call' = call /\ evidence' = evidence /\ run' = run /\ [Next]_tables
  BY DEF ApproveRefused, tables
<1>2. PICK r \in RunIds : approval[w].run = r
  BY DEF ApproveRefused, RunExists, AgentInv, IInv, TypeOK, ApprovalRows
<1>3. run[r].status = "completed"
  BY <1>2 DEF ApproveRefused, AgentInv, LogsAreSound
<1>4. \E row : trace' = [trace EXCEPT ![r] = Append(@, row)]
  BY <1>2 DEF ApproveRefused
<1>5. \A q \in RunIds : \/ trace'[q] = trace[q]
                        \/ run[q].status = "completed" /\ \E row : trace'[q] = Append(trace[q], row)
  BY <1>3, <1>4 DEF AgentInv, LogsAreSound
<1> QED BY <1>1, <1>5, OthersStep

LEMMA ResetKeepsCalls ==
  ASSUME AgentInv, AgentInv', LoopInv, NEW t \in Tickets, Reset(t)
  PROVE  LoopInv'
<1>1. call' = call /\ evidence' = evidence
  BY DEF Reset
<1>2. ResetTicket(t)
  BY SameDecision DEF Reset
<1>3. [Next]_tables
  BY <1>2 DEF Next
<1>4. \A q \in RunIds : IF RunExists(q) /\ run[q].ticket = t
                        THEN run'[q].status = Absent
                        ELSE run'[q] = run[q]
  BY <1>2, ResetEffect DEF NoRun
<1>5. \A q \in RunIds : trace'[q] = IF RunExists(q) /\ run[q].ticket = t
                                    THEN << >> ELSE trace[q]
  BY DEF Reset, RunsOf
<1> QED BY <1>1, <1>3, <1>4, <1>5, OthersStep

\* What is left open the first time a call is looked at: nothing.
LEMMA InitLoopInv == AgentInit => LoopInv
<1> SUFFICES ASSUME AgentInit PROVE LoopInv
  OBVIOUS
<1>1. \A c \in Calls : call[c].pc = "idle" /\ call[c].run = None
  BY DEF AgentInit, Idle
<1>2. CurrentDecisions /\ OrderedLogs
  BY <1>1 DEF CurrentDecisions, CurrentDecision, OrderedLogs, OrderedLog, Finalized,
              Live, Ended, LivePcs
<1>3. RequestsFollowRuns
  BY DEF RequestsFollowRuns, AgentInit, Empty, NoApproval
<1> QED BY <1>2, <1>3 DEF LoopInv

LEMMA NextLoopInv ==
  ASSUME AgentInv, LoopInv, [AgentNext]_vars
  PROVE  LoopInv'
<1>1. AgentInv'
  BY NextAgentInv
<1>2. CASE \E c \in Calls, t \in Tickets, k \in Keys :
             \/ Replay(c, t, k)
             \/ \E w \in WorkflowIds, r \in RunIds : Start(c, t, k, w, r)
  BY <1>1, <1>2, ReplayOwnStep, StartOwnStep
<1>3. CASE \E c \in Calls : Step(c)
  BY <1>1, <1>3, PlanOwnStep, RecordPlanOwnStep, RecordVerdictOwnStep, ReadEvidenceOwnStep,
     ReadPriorOwnStep, DecideOwnStep, DraftOwnStep, FailOwnStep, FinalizeOwnStep,
     LostOwnStep DEF Step
<1>4. CASE \E c \in Calls : Die(c) \/ Escape(c, "plan") \/ Escape(c, "draft")
  BY <1>4, LostOwnStep
<1>5. CASE \E w \in WorkflowIds : Cancel(w) \/ Reject(w) \/ Approve(w) \/ ApproveRefused(w)
  BY <1>1, <1>5, CancelKeepsCalls, RejectKeepsCalls, ApproveKeepsCalls,
     ApproveRefusedKeepsCalls
<1>6. CASE \E t \in Tickets : Reset(t)
  BY <1>1, <1>6, ResetKeepsCalls
<1>7. CASE UNCHANGED vars
  <2>1. UNCHANGED tables /\ call' = call /\ trace' = trace /\ evidence' = evidence
    BY <1>7 DEF vars, locals
  <2>2. [Next]_tables /\ run' = run
    BY <2>1 DEF tables
  <2> QED BY <1>1, <2>1, <2>2, OthersStep
<1> QED BY <1>2, <1>3, <1>4, <1>5, <1>6, <1>7 DEF AgentNext

-----------------------------------------------------------------------------
(* The theorems.                                                           *)

THEOREM LoopInvariance == AgentSpec => []LoopInv
<1>1. AgentInv /\ LoopInv /\ [AgentNext]_vars => LoopInv'
  BY NextLoopInv
<1> QED BY <1>1, InitLoopInv, AgentInvariance, PTL DEF AgentSpec

\* Between reading what was executed for the ticket (list_executed_action_metadata)
\* and finalizing the run nobody executes anything for it, so what a call concludes
\* and finalizes follows from the evidence and from what is executed when it does;
\* what was finalized goes on saying what was decided as long as it is there.
THEOREM DecisionsAreCurrent == AgentSpec => []CurrentDecisions
BY LoopInvariance, PTL DEF LoopInv

\* The log of a run begins with the loop's five traces, in the loop's order and
\* with the references it read, whatever else was appended to it.
THEOREM LogsAreOrdered == AgentSpec => []OrderedLogs
BY LoopInvariance, PTL DEF LoopInv
=============================================================================
