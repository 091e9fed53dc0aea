SPECIFICATION Spec
CONSTANTS
    Messages = {m1, m2, m3}
    Watchers = {w1, w2, w3}
    BufferTTL = 3
    Margin = 2
    LockSlack = 1
    Restarts = {"crash", "stop"}
    QuietClose = FALSE
SYMMETRY Symmetry
INVARIANTS TypeOK ExclusiveWatcher
PROPERTIES NoDoubleHandover DebounceRespected
