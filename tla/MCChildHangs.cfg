SPECIFICATION Spec
CONSTANTS
    MaxSignals = 4
    Members = {"quiet", "piped"}
    Stubborn = {"leader", "member"}
PROPERTIES
    ProcessReturns
CHECK_DEADLOCK FALSE
