---------------------------- MODULE MCCarpinchos ----------------------------
(* The programs of carpinchos-pruebas, with the CPUs and the degree of
   multiprogramming of kernel/cfg. *)
EXTENDS Carpinchos

P == INSTANCE Pruebas

Run(programs, multiprocess, multiprogram) ==
    [program |-> programs, cpus |-> multiprocess, slots |-> multiprogram, direct |-> FALSE]

RunOnMemory(programs) == [Run(programs, 1, 1) EXCEPT !.direct = TRUE]

\* kernelDeadlock.config has 8 and 8, kernelSuspension.config 2 and 2,
\* batallaPorNordelta.config 4 and 32, saludoAlHumedal.config 1 and 2
AllTests == [
    DeadlockOfTwo |-> Run(P!DeadlockOfTwo({2, 3}), 8, 8),
    DeadlockOfTwoOnTwoSlots |-> Run(P!DeadlockOfTwo({2, 3}), 2, 2),
    BatallaPorNordelta |-> Run(P!BatallaPorNordelta, 4, 32),
    BatallaPorNordeltaRest |-> Run(P!BatallaPorNordeltaRest, 4, 32),
    PruebaBase |-> Run(P!PruebaBase, 1, 2),
    PruebaSuspension |-> Run(P!PruebaSuspension, 2, 2),
    PruebaPlanificacion |-> Run(P!PruebaPlanificacion, 1, 3),
    PruebaMMU |-> RunOnMemory(P!PruebaMMU),
    PruebaAsignacion |-> Run(P!PruebaAsignacion, 5, 5)]

\* kernel.config has 2 and 2
DeadlockOnTwoSlots == [DeadlockOfFour |-> Run(P!DeadlockOfFour, 2, 2)]

\* Four clients, not of the repository, that may come to wait for each other in a circle.
\* They connect in order; the first creates the semaphores, 1 and 2 with one unit and 3 and 4
\* with two.
TakesAll(sems) == [k \in DOMAIN sems |-> P!Wait(sems[k])]
                  \o [k \in DOMAIN sems |-> P!Post(sems[k])] \o P!MateClose

CircleOfFour == [
    CircleOfFour |-> Run(
        [c \in Procs |->
           CASE c = 1 -> <<P!MateInit, P!SemInit(1, 1), P!SemInit(2, 1), P!SemInit(3, 2),
                           P!SemInit(4, 2), P!HostPost(1, 1)>> \o TakesAll(<<4, 1>>)
             [] c = 2 -> <<P!HostWait(1), P!MateInit, P!HostPost(2, 1)>> \o TakesAll(<<3, 2>>)
             [] c = 3 -> <<P!HostWait(2), P!MateInit, P!HostPost(3, 1)>> \o TakesAll(<<1, 4, 3>>)
             [] c = 4 -> <<P!HostWait(3), P!MateInit>> \o TakesAll(<<2, 3, 4>>)], 4, 4)]

=============================================================================
