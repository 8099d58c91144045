\* Two sessions whose readers share the channel.
CONSTANTS
    s1 = s1  s2 = s2
    Sessions = {s1, s2}
    MaxChunks = 2
    MaxCloses = 1
    WritesMayFail = TRUE
SPECIFICATION FairSpec
INVARIANTS TypeOK MapsAgree DeliveredIsPrefix
PROPERTIES OutputArrives ExitArrives ImplementsShells
CHECK_DEADLOCK FALSE
