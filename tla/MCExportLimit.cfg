SPECIFICATION Spec
CONSTANTS
    Total = 4
    MaxGenerations = 3
    Budget = 3
    Faults = {}
INVARIANTS
    LimitMeansIncomplete
