\* Two sessions of one device, one request of each kind at a time.
CONSTANTS
    Sessions = {s1, s2}
    NoSession = NoSession
SPECIFICATION Spec
PROPERTY ClosedStaysHidden
CHECK_DEADLOCK FALSE
