\* Three requests, two of one user and two of one source.
CONSTANTS
    r1 = r1
    r2 = r2
    r3 = r3
    u1 = u1
    u2 = u2
    s1 = s1
    s2 = s2
    Requests = {r1, r2, r3}
    Keys = {u1, u2, s1, s2}
    KeysOf <- SomeKeysOf
    Slot <- SomeSlots
    NoEntry = noentry
    MaxFailures = 2
    Window = 1
    BlockFor = 2
    MaxEntries = 3
    MaxTime = 3
SPECIFICATION Spec
INVARIANTS TypeOK CheckedUnblocked FailuresBounded TableBounded NobodyStuck
PROPERTY BlockKept
