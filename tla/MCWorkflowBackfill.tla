------------------------- MODULE MCWorkflowBackfill -------------------------
(* A small instance of WorkflowBackfill for TLC.                           *)
EXTENDS WorkflowBackfill, TLC

Symmetry == Permutations(WorkflowIds) \cup Permutations(RunIds)
              \cup Permutations(Keys) \cup Permutations(Tickets)
=============================================================================
