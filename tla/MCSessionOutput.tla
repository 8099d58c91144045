-------------------------- MODULE MCSessionOutput --------------------------
(* A small instance of SessionOutput for TLC. *)
EXTENDS SessionOutput, TLC
SymmPanes == Permutations(Panes)
=============================================================================
