SPECIFICATION BackfillSpec
CONSTANTS
  Tickets = {t1, t2}
  Keys = {k1, k2}
  Actions = {a1}
  WorkflowIds = {w1, w2}
  RunIds = {r1, r2}
  None = None
  OldDeciders = {"approver"}
  MaxOldRows = 3
SYMMETRY Symmetry
CHECK_DEADLOCK FALSE
INVARIANTS
  InterruptedAttemptsFail
