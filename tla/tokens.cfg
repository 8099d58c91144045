\* A token, two attempts on a machine, three requests of the page at once.
CONSTANTS
    a1 = a1  a2 = a2  m1 = m1
    Tokens = {t1}
    Attempts = {a1, a2}
    Machines = {m1}
    MachineOf <- OneMachine
    Requests = {q1, q2, q3}
SYMMETRY Symm
SPECIFICATION Spec
INVARIANTS TypeOK OneDevicePerToken ShownIsTrue NothingElseStale
PROPERTY ImplementsLedger
CHECK_DEADLOCK FALSE
