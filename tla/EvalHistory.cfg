SPECIFICATION EvalSpec
CONSTANTS
  MaxRefusals = 1
  Jobs = {j1}
  None = None
  Tickets <- SuiteTickets
  Calls <- SuiteCallIds
  Keys <- SuiteCallIds
  RunIds <- SuiteCallIds
  WorkflowIds <- SuiteWorkflowIds
  Actions <- Proposable
  Plans <- SuitePlans
  EvidenceSet <- Evidences
  CaseOrder <- SuiteOrder
  CaseTable <- SuiteCases
  Fixture <- SuiteFixtures
  Seeded <- SuiteHistory
  Configured = TRUE
INVARIANTS
  CasesReachTheirOutcome
CHECK_DEADLOCK FALSE
