--------------------------- MODULE DeadlockSearch ---------------------------
(***************************************************************************)
(* The deadlock detector's matrices and the search of findDeadlocks on     *)
(* them (kernel/src/deadlockResolver.c).                                   *)
(*                                                                         *)
(* A process is its pid and a semaphore a number, and dd->procs and        *)
(* dd->sems are taken in ascending order. In the program the order is that *)
(* of connection and the pid is read from a clock, so that any process of  *)
(* a circle may have the biggest. Loops are functions of the iterations    *)
(* made so far.                                                            *)
(***************************************************************************)
EXTENDS Integers, Sequences, FiniteSets, SequencesExt

CONSTANTS
    Procs,      \* pids
    Sems        \* semaphores

ASSUME SearchAssumption ==
    /\ Procs \subseteq Nat /\ IsFiniteSet(Procs)
    /\ Sems \subseteq Nat /\ IsFiniteSet(Sems)

VARIABLES
    ddProcs,        \* dd->procs
    available,      \* dd->available
    allocation,     \* dd->allocation, a row per process
    request         \* dd->request

ddVars == <<ddProcs, available, allocation, request>>

-----------------------------------------------------------------------------
(* The first half of findDeadlocks: who can finish *)

CanFinish(work, p) == \A s \in Sems : request[p][s] <= work[s]

\* Mutant: what a finished process holds is not given back
GiveNothingBack(work, p) == work

GiveBack(work, p) == [s \in Sems |-> work[s] + allocation[p][s]]

Holds(p) == \E s \in Sems : allocation[p][s] # 0

\* The locals work and finish
Scans == [work : [Sems -> Int], finish : SUBSET ddProcs]

\* A process that can finish gives back what it holds
Visit(p) ==
    [scan \in Scans |->
        IF p \in ddProcs \ scan.finish /\ CanFinish(scan.work, p)
        THEN [work |-> GiveBack(scan.work, p), finish |-> scan.finish \cup {p}]
        ELSE scan]

\* A pass over dd->procs goes through these many numbers, those of no process included
Span == Max(Procs \cup {0}) + 1

\* As many passes over dd->procs as it has processes. Those that hold nothing have finished
\* from the beginning.
Finishing ==
    LET scan[k \in Nat] ==
          IF k = 0 THEN [work |-> available, finish |-> {p \in ddProcs : ~Holds(p)}]
                   ELSE Visit((k - 1) % Span)[scan[k - 1]]
    IN  scan[Cardinality(ddProcs) * Span].finish

Stuck == ddProcs \ Finishing

-----------------------------------------------------------------------------
(* isInCircularWait *)

\* What the two loops go through for p: a semaphore it requests, and a holder of it
Edges(p) ==
    {e \in Sems \X ddProcs : request[p][e[1]] # 0 /\ allocation[e[2]][e[1]] # 0}

First(edges) ==
    CHOOSE e \in edges : \A f \in edges : e[1] < f[1] \/ (e[1] = f[1] /\ e[2] <= f[2])

\* What is left to each call to go through, the outermost first; seen, and found in the
\* innermost: a call that has found base makes no other.
Walks == [calls : Seq(SUBSET (Sems \X ddProcs)), seen : SUBSET ddProcs, found : BOOLEAN]

\* One iteration of the innermost call, or its return. A holder already seen ends the call
\* with false, even when another has led to base.
WalkStep(base) ==
    [walk \in Walks |->
        LET todo == Last(walk.calls)
            e == First(todo)
            rest == [walk.calls EXCEPT ![Len(walk.calls)] = @ \ {e}]
        IN  CASE walk.calls = <<>> -> walk
              [] walk.calls # <<>> /\ todo = {} -> [walk EXCEPT !.calls = Front(@)]
              [] walk.calls # <<>> /\ todo # {} /\ e[2] = base ->
                   [walk EXCEPT !.calls = Front(@), !.found = TRUE]
              [] walk.calls # <<>> /\ todo # {} /\ e[2] # base /\ e[2] \in walk.seen ->
                   [walk EXCEPT !.calls = Front(@), !.found = FALSE]
              [] OTHER -> [calls |-> IF walk.found THEN rest ELSE Append(rest, Edges(e[2])),
                           seen |-> walk.seen \cup {e[2]},
                           found |-> walk.found]]

\* Mutant: what the recursive calls find is not returned
InCircularWaitShallow(base) == \E e \in Edges(base) : e[2] = base

\* Mutant: a holder found is taken for the base
InCircularWaitAny(base) == Edges(base) # {}

\* Each call returns once and is for a process of its own, which bounds the iterations
InCircularWait(base) ==
    LET walk[k \in Nat] ==
          IF k = 0 THEN [calls |-> <<Edges(base)>>, seen |-> {}, found |-> FALSE]
                   ELSE WalkStep(base)[walk[k - 1]]
    IN  walk[2 * Cardinality(ddProcs) + 1].found

\* The list inCircularWait, of which findDeadlocks takes the biggest pid
Victims == {p \in Stuck : InCircularWait(p)}

-----------------------------------------------------------------------------
(* Properties *)

\* The units of s that the processes of D hold
HeldBy(D, s) ==
    LET sum[n \in Nat] ==
          IF n = 0 THEN 0
                   ELSE sum[n - 1] + (IF n - 1 \in D THEN allocation[n - 1][s] ELSE 0)
    IN  sum[Span]

\* A set whose members all ask for more than there is without the set's own units
NeverFinish(D) ==
    \A p \in D : \E s \in Sems : request[p][s] > available[s] + HeldBy(ddProcs \ D, s)

(* The scan of findDeadlocks leaves out exactly the processes that no order of
   finishing can free: the union of the deadlocked sets of processes that hold. *)
StuckExact == Stuck = UNION {D \in SUBSET {p \in ddProcs : Holds(p)} : NeverFinish(D)}

WaitsFor(p, q) == \E s \in Sems : request[p][s] # 0 /\ allocation[q][s] # 0

\* q can be reached from p: every set that is closed under WaitsFor and has what p
\* waits for has q
Reaches(p, q) ==
    \A S \in SUBSET ddProcs :
        (\A r \in S \cup {p}, t \in ddProcs : WaitsFor(r, t) => t \in S) => q \in S

(* Only processes that wait for themselves through others are terminated. *)
VictimsInCycle == \A p \in Victims : Reaches(p, p)

\* Each semaphore is held by one process and each process requests one
OneHolderEach ==
    /\ \A s \in Sems, p, q \in ddProcs : allocation[p][s] # 0 /\ allocation[q][s] # 0 => p = q
    /\ \A p \in ddProcs, s, t \in Sems : request[p][s] # 0 /\ request[p][t] # 0 => s = t

(* With semaphores that one process holds at a time isInCircularWait finds every stuck
   process that waits for itself through others. *)
MutexCyclesFound ==
    OneHolderEach => {p \in Stuck : Reaches(p, p)} \subseteq Victims

(* Whenever findDeadlocks finds a process stuck it also finds one in a circle, and
   list_get_maximum is not called on an empty list: so it is where a semaphore has one
   holder and nothing less than none available, and not with any matrices. *)
StuckHasVictim == Stuck # {} => Victims # {}

(* deadlockResolver.c:26-29: when processes ask for more than there is, "implicando un
   deadlock, termina al de mayor pid". When those in a deadlock wait for each other in a
   circle there is one to terminate. *)
CycleHasVictim == (\E p \in Stuck : Reaches(p, p)) => Victims # {}

=============================================================================
