\* Timers come, are cancelled and fire; a write fails, the server restarts.
SPECIFICATION Spec
CONSTANTS
    Units = {u1, u2}
    UnitSets <- NamedOrAll
    Delays = {1}
    Grace = 1
    NoTimer = NoTimer
    MaxClock = 3
    MaxTimers = 2
    MaxChanges = 1
    MaxFailures = 1
    MaxRestarts = 1
SYMMETRY UnitSymmetry
INVARIANTS ReportedSurvives FiresOnce CancelledStaysQuiet NoPromiseLost
PROPERTIES PassLeavesNothingDue
