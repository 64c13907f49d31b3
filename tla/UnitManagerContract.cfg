\* Three controls at once; replies may be lost.
SPECIFICATION ContractSpec
CONSTANTS
    Callers = {c1, c2, c3}
    Nobody = Nobody
    Power = Power
    Temp = Temp
    Fields = {Power, Temp}
    Values = {0, 1}
    Absent = Absent
    NoState = NoState
    Changes <- MCChanges
    Operations = {"control"}
    MaxSlots = 1
    MaxCalls = 3
    MaxRemote = 0
    LosesReplies = TRUE
    PanicUnwinds = FALSE
SYMMETRY CallerSymmetry
PROPERTIES ImplementsContract OnlyAskedFieldsChange
