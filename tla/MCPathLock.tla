----------------------------- MODULE MCPathLock -----------------------------
(* PathLock for TLC; calls are interchangeable.                            *)
EXTENDS PathLock, TLC

Symmetry == Permutations(Call)
=============================================================================
