------------------------- MODULE MCWorkflowSessions -------------------------
(* A small instance of WorkflowSessions for TLC.                           *)
EXTENDS WorkflowSessions, TLC

Symmetry == Permutations(WorkflowIds) \cup Permutations(RunIds)
              \cup Permutations(Keys) \cup Permutations(Sessions)
=============================================================================
