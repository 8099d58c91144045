----------------------------- MODULE MCTwoFactor -----------------------------
(* TwoFactor for TLC: the requests of a kind are alike. *)
EXTENDS TwoFactor, TLC

Symmetry == Permutations(Logins) \union Permutations(Seconds) \union Permutations(Managers)

=============================================================================
