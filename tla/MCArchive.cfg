SPECIFICATION Spec

CONSTANTS
    Finalizers = {f1, f2}
    Versions <- MCVersions
    Changes <- MCChanges
    Content <- MCContent
    Commit <- MCCommit
    Budget <- MCBudget
    TargetCount = 2
    SourceCount = 3
    RequestCount = 3
    DeltaPaths <- MCDeltaPaths

SYMMETRY Symmetry

INVARIANTS
    TypeOK
    ArchiveIsAuthorized
    SuccessIsArchived
    NoStageLeft
    ArchivedRunsAreDistinct
    ArchivedIdentityIsWitnessed
    ArchivedProcessesAreWhole
    ArchivedInputsAreUsed

PROPERTIES
    StoreSpec

CHECK_DEADLOCK FALSE
