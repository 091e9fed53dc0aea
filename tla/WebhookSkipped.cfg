SPECIFICATION Spec
CONSTANTS
    a = a
    b = b
    c = c
    x = x
    Messages = {b, c}
    Payloads <- OnePayload
    Allowed = {b, c}
    Requests = {r1}
    Faults = {"commit"}
    MaxFaults = 1
    MaxCrashes = 0
PROPERTIES SkippedIsProcessed
