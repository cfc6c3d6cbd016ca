SPECIFICATION BackfillSpec
CONSTANTS
  Tickets = {t1, t2}
  Keys = {k1, k2, k3}
  Actions = {a1}
  WorkflowIds = {w1, w2}
  RunIds = {r1, r2, r3}
  None = None
  OldDeciders = {"approver"}
  MaxOldRows = 4
SYMMETRY Symmetry
CHECK_DEADLOCK FALSE
INVARIANTS
  BackfilledStoriesAgree
  RetriesAreAlone
  IndexesNeverAbort
  CommandsStaySound
PROPERTIES
  RevisionsKeepDecisions
