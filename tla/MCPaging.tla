------------------------------ MODULE MCPaging ------------------------------
(* Paging on small instances *)
EXTENDS Paging, TLC

CONSTANTS p1, p2, t1, t2

Config(asignacion, algoritmo, framesPerProcess, tlbAlgorithm, tlbSize, threads, bound) ==
    [asignacion |-> asignacion, algoritmo |-> algoritmo, framesPerProcess |-> framesPerProcess,
     tlb |-> tlbAlgorithm, tlbSize |-> tlbSize, threads |-> threads, accesses |-> bound]

\* Threads that do not disturb each other: one at a time, or each with its own block
ApartModes == {
    Config("fijo", "clock_m", 1, "FIFO", 2, 2, 3),
    Config("global", "clock_m", NumFrames, "LRU", 2, 1, 4),
    Config("global", "LRU", NumFrames, "FIFO", 1, 1, 4)}

OneFrameModes == {Config("fijo", "LRU", 1, "FIFO", 2, 1, 4)}

SharedModes == {Config("global", "LRU", NumFrames, "FIFO", 2, 2, 4)}

Symmetric == Permutations({p1, p2}) \cup Permutations({t1, t2})

=============================================================================
