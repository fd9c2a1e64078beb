----------------------------- MODULE MCBarCache -----------------------------
(* Symmetry for the runs of BarCache.                                      *)
EXTENDS BarCache, TLC

ReaderSymmetry == Permutations(Readers)
=============================================================================
