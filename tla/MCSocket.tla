------------------------------ MODULE MCSocket ------------------------------
(* Instances of Socket for TLC. *)
EXTENDS SocketInv, TLC

Symmetry == Permutations(IoThreads)
=============================================================================
