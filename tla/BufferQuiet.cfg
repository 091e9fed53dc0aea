SPECIFICATION FairSpec
CONSTANTS
    Messages = {m1, m2, m3}
    Watchers = {w1, w2, w3}
    BufferTTL = 3
    Margin = 2
    LockSlack = 1
    Restarts = {}
    QuietClose = TRUE
INVARIANT MarginCovers
PROPERTIES HandedOver IsDebounce
