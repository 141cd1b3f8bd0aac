------------------------------ MODULE MCBatcher ------------------------------
(* TLC instances of Batcher. *)
EXTENDS Batcher, TLC

CONSTANTS p1, p2, p3, p4, other

AnyPuts == Permutations(Put)
=============================================================================
