SPECIFICATION Spec
CONSTANTS
  Sessions = {s1, s2, s3, s4}
  Nobody = Nobody
SYMMETRY Symmetry
CHECK_DEADLOCK FALSE
INVARIANTS
  OneExecutionTrace
  ExecutedRunsStayClean
  OnlyBlockedTracesTie
