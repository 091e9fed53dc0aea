SPECIFICATION FairSpec
CONSTANTS
    Inputs = {i1, i2, i3}
    Timers = {t1, t2, t3}
    Clients = {c1}
    Priorities = {alta, media}
    DefaultPriority = media
    NoClient = NoClient
    Text = Text
    NoSession = NoSession
    StepTimeout = 4
    BufferTTL = 3
    Margin = 2
    LockSlack = 1
    CallTicks = 1
    Faults = {"lookup", "search", "send", "log"}
    Restarts = {}
    MaxDowns = 0
    Worker = "patient"
INVARIANT QuestionIsTimed
PROPERTIES TimeoutNotEarly ClientChosenForBlock IdsKeepTheirKind EveryBlockFiled IsDialogue
