\* No fault at all: a race of a close with a message or a create request.
CONSTANTS
    d1 = d1  s1 = s1  c1 = c1  c2 = c2
    NoDevice = NoDevice  NoConn = NoConn
    Devices = {d1}
    Sessions = {s1}
    Conns = {c1, c2}
    ConnDevice <- OneDevice
    Faulty = {}
    MaxRestarts = 0
    MaxUp = 1
SPECIFICATION Spec
PROPERTY ClosedStaysClosed
CHECK_DEADLOCK FALSE
