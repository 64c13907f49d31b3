\* Schedules and curves are stored, edited and run; commands and writes fail; the server restarts.
SPECIFICATION Spec
CONSTANTS
    Units = {u1, u2}
    Specs <- Mixed
    NoProgram = NoProgram
    TicksPerMinute = 2
    MinutesPerDay = 4
    Nap = 1
    MaxPass = 3
    MaxClock = 11
    MaxEdits = 2
    MaxManual = 1
    MaxFailures = 1
    MaxRestarts = 1
    LateFailures = FALSE
SYMMETRY UnitSymmetry
INVARIANTS OncePerMinute NoTriggerMissed CurveTracked ReportedSurvives
PROPERTIES NudgeKept
