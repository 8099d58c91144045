---------------------------- MODULE TokenLedger ----------------------------
(***************************************************************************)
(* What registration tokens promise: a token is open from its issue until  *)
(* one registration takes it or it is shut, and never again; and a device  *)
(* is enrolled only by a registration that has taken a token.              *)
(***************************************************************************)
CONSTANTS Tokens, Attempts

VARIABLES
    issued,     \* the tokens that were ever made
    open,       \* those that a registration may still take
    takers,     \* takers[t]: the registrations that have taken t
    enrolled    \* the registrations that have made a device

lvars == <<issued, open, takers, enrolled>>

\* Tokens of earlier days are there from the start.
Init ==
    /\ issued \subseteq Tokens /\ open = issued
    /\ takers = [t \in Tokens |-> {}]
    /\ enrolled = {}

Issue(t) ==
    /\ t \notin issued
    /\ issued' = issued \union {t} /\ open' = open \union {t}
    /\ UNCHANGED <<takers, enrolled>>

Take(t, a) ==
    /\ t \in open
    /\ open' = open \ {t}
    /\ takers' = [takers EXCEPT ![t] = @ \union {a}]
    /\ UNCHANGED <<issued, enrolled>>

\* Revoked before it was used.
Shut(t) == t \in open /\ open' = open \ {t} /\ UNCHANGED <<issued, takers, enrolled>>

Enroll(t, a) ==
    /\ a \in takers[t] \ enrolled
    /\ enrolled' = enrolled \union {a}
    /\ UNCHANGED <<issued, open, takers>>

Next == \E t \in Tokens : \/ Issue(t) \/ Shut(t)
                          \/ \E a \in Attempts : Take(t, a) \/ Enroll(t, a)

Spec == Init /\ [][Next]_lvars
=============================================================================
