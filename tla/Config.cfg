\* Two requests at a time, a run of the command line, a failed save or a crash.
SPECIFICATION Spec
CONSTANTS
    Units = {u1, u2}
    Addresses = {a1, a2}
    Off = Off
    Names = {n1}
    NoName = NoName
    Generated = Generated
    Workers = {w1, w2}
    Torn = Torn
    NoRequest = NoRequest
    MaxChanges = 2
    MaxRuns = 1
    MaxMoves = 1
    MaxFaults = 1
SYMMETRY Alike
INVARIANTS DrivenAsListed ListedSurvives
PROPERTIES KeysKept
