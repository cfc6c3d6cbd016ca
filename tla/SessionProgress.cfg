SPECIFICATION FairSpec
CONSTANTS
  Tickets = {t1}
  Keys = {k1}
  Actions = {a1}
  WorkflowIds = {w1}
  RunIds = {r1}
  Sessions = {s1, s2}
  None = None
PROPERTIES
  CommandsAreAnswered
