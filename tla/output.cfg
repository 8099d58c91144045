\* Two panes that open at any time, sockets that break, chunks that fail.
CONSTANTS
    Panes = {p1, p2}
    MaxSeq = 3
    PersistMayFail = TRUE
SYMMETRY SymmPanes
SPECIFICATION Spec
INVARIANTS TypeOK NoRepeat NothingElseMissed
CHECK_DEADLOCK FALSE
