SPECIFICATION Spec
CONSTANTS
    Procs = {1, 2}
    Sems = {1, 2}
    CPUs = {c1, c2}
    InitialValue <- Mutexes
    MaxPetitions = 4
    MaxSearches = 1
    NoProc = 0
SYMMETRY Symmetry
INVARIANTS
    TypeOK
    NoLostWakeup
    AvailableTracksSem
    RequestsTrackWaits
    VictimsInCycle
PROPERTIES
    ImplementsCountingSem
CHECK_DEADLOCK FALSE
