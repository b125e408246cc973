SPECIFICATION FairSpec
CONSTANTS
    NoProc = NoProc
    Nobody = Nobody
    Procs = {1, 2, 3, 4, 5}
    Sems = {1, 2, 3, 4}
    Devices = {1}
    Hosts = {1, 2, 3}
    Tests <- AllTests
CHECK_DEADLOCK FALSE
INVARIANTS OneAnswerPerCall SemaphoresOutliveUse NobodyOnlyUntold NothingLeft VictimsDeadlocked StuckExact MutexCyclesFound
PROPERTY ClientsEnd
