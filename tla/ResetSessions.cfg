SPECIFICATION ResetSpec
CONSTANTS
  Tickets = {t1}
  Keys = {k1, k2}
  Actions = {a1}
  WorkflowIds = {w1}
  RunIds = {r1}
  Sessions = {s1, s2}
  Resetter = Resetter
  None = None
SYMMETRY Symmetry
INVARIANTS
  OnlyResetsDeadlock
PROPERTIES
  ResetsAreAtomic
