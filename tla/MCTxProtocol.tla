---------------------------- MODULE MCTxProtocol ----------------------------
(* TxProtocol for TLC; cliq processes are interchangeable.                 *)
EXTENDS TxProtocol, TLC

Symmetry == Permutations(Proc)
=============================================================================
