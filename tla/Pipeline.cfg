SPECIFICATION FairSpec
CONSTANTS
    a = a
    b = b
    Messages = {a, b}
    Payloads <- SomePayloads
    Allowed = {a, b}
    Requests = {r1, r2}
    Watchers = {w1, w2}
    BufferTTL = 2
    Margin = 1
    LockSlack = 1
    NoTask = NoTask
    Faults = {"commit", "task", "close"}
    MaxFaults = 1
    MaxCrashes = 1
INVARIANTS TypeOK Accounted PushedByOne CalmLosesNothing
PROPERTIES EndToEnd Settled
