SPECIFICATION Spec
CONSTANTS
    m1 = m1
    m2 = m2
    Messages = {m1, m2}
    Fields = {"monto"}
    TitleLength = 3
    Null = Null
    NotADict = NotADict
    NotAString = NotAString
    Bodies <- MCBodies
    Replies <- MCReplies
    Tramites <- MCTramites
    Matches = {0, 2, 3, 10}
    OldSessions <- MCOldSessions
    Attempts = {t1, t2}
SYMMETRY Symmetry
INVARIANTS TypeOK OnlyWritten Titled Offered 
CHECK_DEADLOCK FALSE
