SPECIFICATION Spec
CONSTANTS
    Messages = {m1, m2}
    Watchers = {w1, w2, w3}
    BufferTTL = 3
    Margin = 2
    LockSlack = 1
    Restarts = {}
    QuietClose = FALSE
INVARIANT BufferedIsWatched

