SPECIFICATION Spec

CONSTANTS
    Order <- MCOrder
    Dialect <- MCDialect
    Text <- MCText
    Commits <- MCCommits
    Tree <- MCTree
    Comparison <- MCComparison
    Rules <- MCRules
    InitialInputs <- MCInputs
    InitialEntries <- MCEntries
    Edits <- MCEdits
    Changes = {"base", "next"}
    Amendments <- MCAmendments
    Budget <- MCBudget
    Absent = Absent

INVARIANTS
    TypeOK
    OneGeneration
    FindingsAreCode
    ReviewedOnce
    InStepIsAccepted

CHECK_DEADLOCK FALSE
