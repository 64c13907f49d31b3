\* The unit is replaced, removed and used with the remote: every call returns,
\* every read is current, and so is what clients see.
SPECIFICATION FairSpec
CONSTANTS
    Callers = {c1, c2}
    Nobody = Nobody
    Power = Power
    Temp = Temp
    Fields = {Power}
    Values = {0, 1}
    Absent = Absent
    NoState = NoState
    Changes <- OneChange
    Operations = {"control", "read", "probe", "forget", "warm"}
    MaxSlots = 2
    MaxCalls = 2
    MaxRemote = 1
    LosesReplies = TRUE
    PanicUnwinds = TRUE
INVARIANTS BatchesAccounted ReadsAreCurrent StatusCurrent
PROPERTIES EveryCallReturns
