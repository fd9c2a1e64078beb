--------------------------- MODULE MCAdvisoryLock ---------------------------
(* Symmetry for the runs of AdvisoryLock.                                   *)
EXTENDS AdvisoryLock, TLC

ProcSymmetry == Permutations(Procs)

=============================================================================
