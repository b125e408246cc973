SPECIFICATION Spec
CONSTANTS
    p1 = p1
    p2 = p2
    t1 = t1
    t2 = t2
    Pids = {p1, p2}
    Threads = {t1, t2}
    NumFrames = 2
    Modes <- ApartModes
    NoPid = NoPid
    Contents = {zero, data}
    Written = {data}
    Zero = zero
    NoPage = NoPage
    Reads = Reads
    MaxTable = 2
SYMMETRY Symmetric
CHECK_DEADLOCK FALSE
INVARIANTS FrameOwner TlbCoherent CleanMatchesSwap OwnBlock
PROPERTY ImplementsPagedMemory
