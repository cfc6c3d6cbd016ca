SPECIFICATION Spec
CONSTANTS
  Tickets = {t1, t2}
  Keys = {k1, k2, k3}
  Actions = {a1, a2}
  WorkflowIds = {w1, w2, w3}
  RunIds = {r1, r2, r3}
  None = None
SYMMETRY Symmetry
INVARIANTS
  TypeOK
  OneActiveCycle
  RunTracksWorkflow
  DecisionTracksWorkflow
  NoDoubleExecution
  KeyNamesOneRun
  LedgerExplainsStatus
  DecidersAreAuthorised
PROPERTIES
  SettledStaysSettled
  AttemptsEndOnce
  MoneyNeedsApproval
