SPECIFICATION FairSpec
CONSTANTS
    a = a
    b = b
    c = c
    x = x
    Messages = {a, b, c, x}
    Payloads <- SomePayloads
    Allowed = {a, b, c}
    Requests = {r1, r2}
    Faults = {"lookup", "commit", "process", "answer"}
    MaxFaults = 2
    MaxCrashes = 1
INVARIANTS TypeOK ProcessedOnce AckedIsStored
PROPERTIES EveryMessageHandled
