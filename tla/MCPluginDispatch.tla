--------------------------- MODULE MCPluginDispatch --------------------------
(* Small instances of PluginDispatch for TLC. *)
EXTENDS PluginDispatch, TLC

TxSymmetry == Permutations(PluginTxs)
=============================================================================
