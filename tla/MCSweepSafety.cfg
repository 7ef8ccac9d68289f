SPECIFICATION Spec
CONSTANTS
    Controllers = {A, B}
    Runs = 2
    MaxBytes = 1
    Budget = 2
    Faults = {"kill", "signal", "process", "member"}
SYMMETRY Interchangeable
INVARIANTS
    TypeOK
    OneWriter
    ReportedIsFrozen
    StatusIsBehind
    ZeroMeansClosed
    ScansAccept
PROPERTIES
    ImplementsLedger
