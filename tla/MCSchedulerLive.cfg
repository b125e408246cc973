\* One slot, one CPU, one device: the unsuspender, the long term and the medium term
\* share a single degree of multiprogramming.
SPECIFICATION FairSpec
CONSTANTS
    Procs = {p1, p2, p3}
    CPUs = {c1}
    Devices = {d1}
    Multiprogram = 1
    MaxIOCalls = 2
    NoProc = NoProc
PROPERTIES
    AdmittedEventually
    ReadyAgainEventually
