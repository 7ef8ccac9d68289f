SPECIFICATION Spec
CONSTANTS
    Controllers = {"A", "B"}
    Runs = 2
    MaxBytes = 1
    Budget = 1
    Faults = {"kill", "signal", "process", "member", "power"}
PROPERTIES
    EventuallyClosed
