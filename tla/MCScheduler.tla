---------------------------- MODULE MCScheduler ----------------------------
(***************************************************************************)
(* Instances of Scheduler for TLC: a handful of control blocks and threads.*)
(* Blocks, CPUs and devices are interchangeable.                           *)
(***************************************************************************)
EXTENDS Scheduler, TLC

Symmetry == Permutations(Procs) \cup Permutations(CPUs) \cup Permutations(Devices)

=============================================================================
