---------------------------- MODULE MCSemaphores ----------------------------
(***************************************************************************)
(* Instances of Semaphores for TLC.                                        *)
(***************************************************************************)
EXTENDS Semaphores, TLC

\* The first value the tests of the carpinchos create most semaphores with
Mutexes == [s \in Sems |-> 1]

\* The CPU threads are alike; processes and semaphores are ordered
Symmetry == Permutations(CPUs)

=============================================================================
