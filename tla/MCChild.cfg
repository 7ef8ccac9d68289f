SPECIFICATION Spec
CONSTANTS
    MaxSignals = 4
    Members = {"quiet", "piped"}
    Stubborn = {"leader", "member"}
INVARIANTS
    TypeOK
    LeaderLeftOnlyAtExpiry
PROPERTIES
    ReturnsUnlessHeld
CHECK_DEADLOCK FALSE
