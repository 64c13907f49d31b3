\* Clients come and go beyond the ceiling, one falls behind, a unit is removed and added.
SPECIFICATION Spec
CONSTANTS
    u1 = u1
    u2 = u2
    Clients = {c1, c2}
    Units = {u1, u2}
    Order <- UnitOrder
    Values = {0}
    Nothing = Nothing
    Placeholder = Placeholder
    MaxStreams = 1
    QueueDepth = 1
    Lanes = 2
    MaxChanges = 1
SYMMETRY ClientSymmetry
INVARIANTS PlacesHeld NoMissedWake Converges
