SPECIFICATION Spec
CONSTANTS
    Inodes = {"success", "failure"}
    Terminals = {"success", "failure"}
    NoInode = NoInode
    Size = 2
    Faults = {"kill", "power"}
INVARIANTS
    TypeOK
    NoTruncatedReceipt
    NeverWedged
    CountedIsDurable
PROPERTIES
    ImplementsOneShot
