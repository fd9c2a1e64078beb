-------------------------- MODULE MCReconciliation --------------------------
(* Symmetry for the run of Reconciliation: strategies are alike.           *)
EXTENDS Reconciliation

MCSymmetry == Permutations(Runners)
=============================================================================
