-------------------------- MODULE MCDecisionTraces --------------------------
(* A small instance of DecisionTraces for TLC.                             *)
EXTENDS DecisionTraces, TLC

Symmetry == Permutations(Sessions)
=============================================================================
