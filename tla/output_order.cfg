\* One pane; nothing fails.
CONSTANTS
    Panes = {p1}
    MaxSeq = 3
    PersistMayFail = FALSE
SPECIFICATION Spec
INVARIANT OutputInOrder
CHECK_DEADLOCK FALSE
