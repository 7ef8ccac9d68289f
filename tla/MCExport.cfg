SPECIFICATION Spec
CONSTANTS
    Total = 4
    MaxGenerations = 4
    Budget = 3
    Faults = {"stop", "failure"}
INVARIANTS
    TypeOK
    ImagesAreBehindTrace
    NeverWithoutImage
    CompleteIsWhole
PROPERTIES
    ImagedRunsFinish
