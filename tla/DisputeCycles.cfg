SPECIFICATION Spec
CONSTANTS
  EvidenceSet <- AllEvidence
INVARIANTS
  InvoiceStaysPaid
  ProposalsAreOwed
CHECK_DEADLOCK FALSE
