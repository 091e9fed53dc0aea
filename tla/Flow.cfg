SPECIFICATION Spec
CONSTANTS
    Inputs = {i1, i2, i3}
    Timers = {t1, t2, t3}
    Clients = {c1}
    Priorities = {media}
    DefaultPriority = media
    NoClient = NoClient
    Text = Text
    NoSession = NoSession
    StepTimeout = 4
    BufferTTL = 3
    Margin = 2
    LockSlack = 1
    CallTicks = 1
    Faults = {"search", "create", "lost", "send", "lookup", "unknown"}
    Restarts = {"crash", "stop"}
    MaxDowns = 1
    Worker = "any"
SYMMETRY Symmetry
VIEW ButTicketsAndReplies
INVARIANTS TypeOK SessionOutlivesTimer AuditTrail
