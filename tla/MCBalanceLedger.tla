--------------------------- MODULE MCBalanceLedger ---------------------------
(* A small instance of BalanceLedger for TLC. *)
EXTENDS BalanceLedger

\* b sends 1 to a and buys 1; the contract never answers for a.
MCLegs == [send |-> <<[holder |-> "b", by |-> -1], [holder |-> "a", by |-> 1]>>,
           buy |-> <<[holder |-> "b", by |-> 1]>>]
MCOnChain == [a |-> 0, b |-> 1]
=============================================================================
