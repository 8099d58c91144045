\* The requests of two logins beside three management requests.
SPECIFICATION Spec
CONSTANTS
    Logins = {l1, l2}
    Seconds = {s1, s2}
    Managers = {m1, m2, m3}
    Original = original
    NoId = noid
    NoLogin = nologin
    CodesPerSet = 1
    ChallengeLife = 0
    SetupLife = 1
    OneServer = TRUE
    MaxTime = 1
SYMMETRY Symmetry
\* Every request is made once, so all of them may be over.
CHECK_DEADLOCK FALSE
INVARIANTS TypeOK CodeOnce CodesAreCurrent EnabledIsProved
PROPERTIES OnlyDisableTurnsOff ImplementsCodes
