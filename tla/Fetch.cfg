SPECIFICATION FetchSpec
CONSTANTS
    Hosts         = {"u1", "u2"}
    Listen        = 2
    Delay         = 1
    Units         = {"u1", "u2"}
    Homes         <- MCHomes
    HomeOf        <- MCHomeOf
    UnitSeq       <- MCUnitSeq
    Programs      = {"fetch", "panel", "pair"}
    Starts        <- MCStarts
    PasswordTries = 2
    MaxFaults     = 2
INVARIANTS
    AnswersReported
    SecretsInPlace
    ExitTellsAll
    FairVerdicts
