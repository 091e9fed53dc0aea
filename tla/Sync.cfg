SPECIFICATION FairSpec
CONSTANTS
    Users = {u1, u2}
    Phones <- Stable
    NoPhone = NoPhone
    Absent = Absent
    MaxChanges = 2
INVARIANTS TypeOK
PROPERTIES CycleReconciles SelfHealing
