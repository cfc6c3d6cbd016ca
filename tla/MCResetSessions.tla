--------------------------- MODULE MCResetSessions ---------------------------
(* Small instances of ResetSessions for TLC.                               *)
EXTENDS ResetSessions, TLC

Symmetry == Permutations(WorkflowIds) \cup Permutations(RunIds)
              \cup Permutations(Keys) \cup Permutations(Sessions)
=============================================================================
