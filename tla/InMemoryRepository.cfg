SPECIFICATION Spec
CONSTANTS
  demo = demo
  fixture = fixture
  w1 = w1
  w2 = w2
  r1 = r1
  Tickets = {demo, fixture}
  DemoTickets = {demo}
  HistoryTickets = {fixture}
  Keys = {k1, k2}
  Actions = {a1, a2}
  WorkflowIds = {w1, w2, w3}
  RunIds = {r1, r2, r3}
  None = None
  SeedAction = a1
  SeedWorkflow <- MCSeedWorkflow
  SeedRun <- MCSeedRun
SYMMETRY Symmetry
INVARIANTS
  HistoryIsKept
  MoneyOnce
  MovesReplay
PROPERTIES
  ImplementsCommands
