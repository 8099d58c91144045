\* One device; old and new connections may overlap in the server.
CONSTANTS
    d1 = d1  s1 = s1  c1 = c1  c2 = c2
    NoDevice = NoDevice  NoConn = NoConn
    Devices = {d1}
    Sessions = {s1}
    Conns = {c1, c2}
    ConnDevice <- OneDevice
    Faulty = {c1}
    MaxRestarts = 1
    MaxUp = 1
SPECIFICATION FairSpec
INVARIANTS TypeOK NoDeadPeer OnlineHasHandler SettledAgrees
PROPERTIES ImplementsLife EndedStays ZombiesResolved CloseReaps ConnectedIsReachable
CHECK_DEADLOCK FALSE
