----------------------------- MODULE CodeLedger -----------------------------
(***************************************************************************)
(* What two-factor authentication of one user promises.  One configuration *)
(* at most is enabled, by a code of its own, and stays until it is         *)
(* disabled.  A login, an enable and a replacement of the recovery codes   *)
(* each take a code that nobody has taken before: the counters taken of a  *)
(* configuration grow, and a recovery code is one of those given last.  A  *)
(* challenge lets one login in, and only while it is the last one and the  *)
(* configuration it was made for is enabled.                               *)
(***************************************************************************)
EXTENDS Integers

CONSTANTS Logins, Seconds, Managers, Original, NoId, NoLogin, CodesPerSet, Counters

VARIABLES
    enabled,    \* the configuration, or NoId
    fresh,      \* recovery codes that may be taken
    taken,      \* codes that were taken
    open,       \* challenges that a login may meet
    asked,      \* asked[l]: the configuration that the challenge of login l is for
    session     \* session[s]: the challenge that s has met

lvars == <<enabled, fresh, taken, open, asked, session>>

Totp(cfg, n) == [t |-> "totp", of |-> cfg, n |-> n]
CodeSet(m) == [t : {"recovery"}, of : {m}, n : 1..CodesPerSet]

\* Codes from before the start were taken then.
Init ==
    /\ \/ enabled = NoId /\ fresh = {}
       \/ enabled = Original /\ fresh = CodeSet(Original)
    /\ taken = {} /\ open = {}
    /\ asked = [l \in Logins |-> NoId]
    /\ session = [s \in Seconds |-> NoLogin]

\* The challenge of login l is made, for the configuration that l has seen.
Ask(l) ==
    /\ asked[l] = NoId /\ open' = {l}
    /\ \E cfg \in Managers \union {Original} : asked' = [asked EXCEPT ![l] = cfg]
    /\ UNCHANGED <<enabled, fresh, taken, session>>

\* A code that is good for the configuration cfg, and is now taken.
Take(c, cfg) ==
    /\ c \notin taken
    /\ \/ c.t = "totp" /\ c.of = cfg /\ \A d \in taken : d.t = "totp" /\ d.of = cfg => d.n < c.n
       \/ c \in fresh
    /\ taken' = taken \union {c}

Enter(s) ==
    /\ session[s] = NoLogin /\ enabled # NoId
    /\ \E l \in open :
          asked[l] = enabled /\ open' = open \ {l} /\ session' = [session EXCEPT ![s] = l]
    /\ \E c \in fresh \union {Totp(enabled, n) : n \in Counters} :
          Take(c, enabled) /\ fresh' = fresh \ {c}
    /\ UNCHANGED <<enabled, asked>>

\* Request m gives new recovery codes in the place of the others.
Give(m) == fresh' = CodeSet(m) /\ CodeSet(m) \intersect taken = {}

Enable(m) ==
    /\ enabled = NoId /\ Give(m)
    /\ \E cfg \in Managers \union {Original}, n \in Counters :
          Take(Totp(cfg, n), cfg) /\ enabled' = cfg
    /\ UNCHANGED <<open, asked, session>>

Replace(m) ==
    /\ enabled # NoId /\ Give(m)
    /\ \E n \in Counters : Take(Totp(enabled, n), enabled)
    /\ UNCHANGED <<enabled, open, asked, session>>

Disable ==
    /\ enabled # NoId
    /\ enabled' = NoId /\ fresh' = {}
    /\ UNCHANGED <<taken, open, asked, session>>

Next == \/ \E l \in Logins : Ask(l)
        \/ \E s \in Seconds : Enter(s)
        \/ \E m \in Managers : Enable(m) \/ Replace(m)
        \/ Disable

Spec == Init /\ [][Next]_lvars
=============================================================================
