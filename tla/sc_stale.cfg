\* One device; the clean-up of an old connection runs after a new one has come.
CONSTANTS
    d1 = d1  s1 = s1  c1 = c1  c2 = c2
    NoDevice = NoDevice  NoConn = NoConn
    Devices = {d1}
    Sessions = {s1}
    Conns = {c1, c2}
    ConnDevice <- OneDevice
    Faulty = {c1}
    MaxRestarts = 0
    MaxUp = 0
SPECIFICATION Spec
INVARIANT LastIsReachable
CHECK_DEADLOCK FALSE
