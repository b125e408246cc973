SPECIFICATION FairSpec
CONSTANTS
    NoProc = NoProc
    Nobody = Nobody
    Procs = {1, 2, 3, 4}
    Sems = {1, 2, 3, 4}
    Devices = {1}
    Hosts = {1, 2, 3}
    Tests <- CircleOfFour
CHECK_DEADLOCK FALSE
INVARIANT CycleHasVictim
