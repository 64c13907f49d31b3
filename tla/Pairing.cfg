\* Two clients pair, use, re-key and lose their credentials; one write fails, the
\* server restarts once, codes expire.
SPECIFICATION Spec
CONSTANTS
    Devices = {d1, d2}
    Nobody = Nobody
    CodeTTL = 1
    MinVersion = 1
    MaxClock = 2
    MaxUpgrades = 1
    MaxFailures = 1
    MaxRestarts = 1
SYMMETRY DeviceSymmetry
INVARIANTS HeldIsKnown RevokedStaysOut
PROPERTIES NeverToldDead
