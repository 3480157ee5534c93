--------------------------- MODULE MCBackwardSync ---------------------------
(* Small instances of BackwardSync for TLC. *)
EXTENDS BackwardSync, TLC

LoopSymmetry == Permutations(Loops)

(* Boots near genesis, in normal mode, and in bulk mode. *)
NearAndFar == {1, 2, 4, 5}
=============================================================================
