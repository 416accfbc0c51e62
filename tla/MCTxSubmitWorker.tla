------------------------- MODULE MCTxSubmitWorker -------------------------
(* Instantiates TxSubmitWorker for TLC: the constants that are not model  *)
(* values are given by the cfg files.                                      *)
EXTENDS TxSubmitWorker

=============================================================================
