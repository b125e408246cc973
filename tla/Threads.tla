------------------------------ MODULE Threads ------------------------------
(***************************************************************************)
(* Counting the threads of a component by their program counter.           *)
(***************************************************************************)
EXTENDS Naturals, FiniteSets

\* The threads whose program counter is at a step
AtStep(threads, pc, step) == {t \in threads : pc[t] = step}

\* How many threads are at a step
NumAt(threads, pc, step) == Cardinality(AtStep(threads, pc, step))

\* A condition as a number, to add it to counters
One(b) == IF b THEN 1 ELSE 0

=============================================================================
