---------------------------- MODULE MCChainIndex ----------------------------
(* Small instances of ChainIndex for TLC. *)
EXTENDS ChainIndex, TLC

CONSTANTS t1, t2

(* One transaction over three generations, dropped and mined again; two of  *)
(* them, which overflow the dedupe list and share or part heights, with one *)
(* fault and without a reorg; two, of which a reorg takes one from beside   *)
(* the other.                                                               *)
SmallBudgets ==
  {[txs |-> {t1}, tip |-> 3, reorgs |-> 2, faults |-> 2],
   [txs |-> {t1, t2}, tip |-> 3, reorgs |-> 0, faults |-> 1],
   [txs |-> {t1, t2}, tip |-> 2, reorgs |-> 1, faults |-> 0]}

OneOfEach == {[txs |-> {t1}, tip |-> 3, reorgs |-> 1, faults |-> 1]}

OneFault == {[txs |-> {t1, t2}, tip |-> 2, reorgs |-> 0, faults |-> 1]}
=============================================================================
