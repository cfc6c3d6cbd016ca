SPECIFICATION EvalSpec
CONSTANTS
  MaxRefusals = 1
  Jobs = {j1, j2}
  None = None
  Tickets = {"cr2"}
  Calls <- CallIds
  Keys <- CallIds
  RunIds <- CallIds
  WorkflowIds <- CallIds
  Actions <- RenewalActions
  Plans <- FewPlans
  EvidenceSet <- RenewalEvidence
  CaseOrder <- Order
  CaseTable <- Cases
  Fixture <- Fixtures
  Seeded <- NoHistory
  Configured = TRUE
SYMMETRY Symmetry
INVARIANTS
  VerdictsAreExact
  OnlyRacesStrandEvals
CHECK_DEADLOCK FALSE
