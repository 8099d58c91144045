-------------------------- MODULE MCSessionControl --------------------------
(* Small instances of SessionControl for TLC. *)
EXTENDS SessionControl

CONSTANTS d1, s1, c1, c2

\* One device whose connections replace each other.
OneDevice == [c \in {c1, c2} |-> d1]
=============================================================================
