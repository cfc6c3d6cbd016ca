SPECIFICATION FairSpec
CONSTANTS
  MaxRefusals = 1
  Calls = {c1, c2}
  Tickets = {t1}
  Keys = {k1, k2}
  WorkflowIds = {w1, w2}
  RunIds = {r1, r2}
  None = None
  EvidenceSet <- AllEvidence
  Actions <- Proposable
  Plans <- AllPlans
INVARIANTS
  OneLoopPerRun
  OnlyRefusalsStrand
  FinishedRunsComply
  AcceptanceIsExact
PROPERTIES
  LateLoopsChangeNothing
  CallsEnd
CHECK_DEADLOCK FALSE
