SPECIFICATION SessionSpec
CONSTANTS
  Tickets = {t1}
  Keys = {k1, k2}
  Actions = {a1}
  WorkflowIds = {w1, w2}
  RunIds = {r1, r2}
  Sessions = {s1, s2}
  None = None
SYMMETRY Symmetry
INVARIANTS
  AnswersAreTrue
  NoWaitCycle
PROPERTIES
  ImplementsCaseWorkflow
