--------------------------- MODULE MCFailureLimit ---------------------------
(* Two users and two sources, and of the three keys of a request the first  *)
(* two.  Keys of different users and sources share locks, so that r1 and r3 *)
(* need the same two locks, for keys in opposite orders.                    *)
EXTENDS FailureLimit, TLC

CONSTANTS r1, r2, r3, u1, u2, s1, s2

SomeKeysOf == r1 :> <<u1, s1>> @@ r2 :> <<u1, s2>> @@ r3 :> <<u2, s2>>
SomeSlots == u1 :> 2 @@ s1 :> 1 @@ u2 :> 1 @@ s2 :> 2

=============================================================================
