\* PruebaDeadlock on two slots: what kernel.c:89-90 says of the unsuspender.
SPECIFICATION FairSpec
CONSTANTS
    NoProc = NoProc
    Nobody = Nobody
    Procs = {1, 2, 3, 4, 5}
    Sems = {1, 2, 3, 4}
    Devices = {1}
    Hosts = {1, 2, 3}
    Tests <- DeadlockOnTwoSlots
CHECK_DEADLOCK FALSE
PROPERTY SuspendedReadyAdmitted
