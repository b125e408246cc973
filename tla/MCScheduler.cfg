\* Three control blocks, two CPUs and two devices compete for two slots.
SPECIFICATION Spec
CONSTANTS
    Procs = {p1, p2, p3}
    CPUs = {c1, c2}
    Devices = {d1, d2}
    Multiprogram = 2
    MaxIOCalls = 3
    NoProc = NoProc
SYMMETRY Symmetry
INVARIANTS
    TypeOK
    AdmissionTokens
    LongTermNeverStuck
    NoLostWakeup
    CuposTracksSlots
    DegreeAccounting
    HeldOnce
    BlockedQueuesExact
PROPERTIES
    LifecycleRespected
