------------------------ MODULE MCInMemoryRepository ------------------------
(* A demo ticket and an eval fixture with a past, and room for one more    *)
(* cycle and two more attempts; ids of deleted rows are used again.        *)
EXTENDS InMemoryRepository, TLC

CONSTANTS demo, fixture, w1, w2, r1

MCSeedWorkflow == (demo :> w1) @@ (fixture :> w2)
MCSeedRun == demo :> r1

\* Keys, and the ids no seeded row has, carry no structure.
Symmetry ==
  Permutations(Keys) \cup Permutations(WorkflowIds \ {w1, w2})
    \cup Permutations(RunIds \ {r1})
=============================================================================
