\* The last output of a shell and its exit.
CONSTANTS
    s1 = s1  s2 = s2
    Sessions = {s1, s2}
    MaxChunks = 2
    MaxCloses = 1
    WritesMayFail = TRUE
SPECIFICATION Spec
INVARIANT ExitAfterOutput
CHECK_DEADLOCK FALSE
