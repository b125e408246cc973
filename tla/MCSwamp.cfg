SPECIFICATION Spec
CONSTANTS
    Pids = {p1, p2, p3}
    NoPid = NoPid
    Contents = {zero, data}
    Zero = zero
    NumFiles = 2
    MaxPages = 2
    MaxFrames = 2
    MaxTable = 3
    MaxConnections = 2
SYMMETRY Symmetry
INVARIANTS
    OneEntryPerPage
    NoPageBeyondFile
    ChunksNotShared
PROPERTIES
    ImplementsPageStore
    RefusedOnlyWhenFull
CHECK_DEADLOCK FALSE
