SPECIFICATION Spec
CONSTANTS
    Inodes = {n1, n2, n3}
    Terminals = {"contract"}
    NoInode = NoInode
    Size = 2
    Contracts = {"c1", "c2"}
    Faults = {"kill", "power"}
SYMMETRY Nonces
INVARIANTS
    RefusedForConflict
