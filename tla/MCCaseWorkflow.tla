--------------------------- MODULE MCCaseWorkflow ---------------------------
(* A small instance of CaseWorkflow for TLC.                               *)
EXTENDS CaseWorkflow, TLC

\* Ids, keys and actions carry no structure the module looks at.
Symmetry == Permutations(WorkflowIds) \cup Permutations(RunIds)
              \cup Permutations(Tickets) \cup Permutations(Keys) \cup Permutations(Actions)
=============================================================================
