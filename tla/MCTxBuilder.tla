----------------------------- MODULE MCTxBuilder -----------------------------
(* TxBuilder instantiated for TLC: the constants are model values given in  *)
(* the .cfg files.                                                         *)
EXTENDS TxBuilder

=============================================================================
