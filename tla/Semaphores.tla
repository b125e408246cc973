----------------------------- MODULE Semaphores -----------------------------
(***************************************************************************)
(* The kernel's semaphores: mateSem.c, the petitions semWait and semPost   *)
(* of kernel/src/petitionHandlers.c, the thread each semaphore has         *)
(* (thread_semFunc) and the deadlock detector they report to               *)
(* (deadlockDetector.c and the kill of deadlockResolver.c).                *)
(*                                                                         *)
(* A region under sem_mutex, mutex_mediumTerm or dd->mutex is one action,  *)
(* except where another thread works on its data without that mutex: the   *)
(* detector removes from waitingProcesses without sem_mutex.               *)
(* The scheduler is the environment: Dispatch, Suspend and Unsuspend are   *)
(* its steps, at any time its queues allow. All the processes have         *)
(* connected and every semaphore has been created.                         *)
(*                                                                         *)
(* A thread that is about to use a process after its free (the detector    *)
(* can free one that a thread holds) goes no further: what would follow is *)
(* not defined. The use of a NULL process ends the kernel, and the model.  *)
(***************************************************************************)
EXTENDS DeadlockSearch, Threads

CONSTANTS
    CPUs,           \* CPU threads
    InitialValue,   \* the value each semaphore is created with
    MaxPetitions,   \* bound: how many SEM_WAIT and SEM_POST the clients send
    MaxSearches,    \* bound: how many times the detector wakes up
    NoProc

ASSUME SemaphoresAssumption ==
    /\ IsFiniteSet(CPUs)
    /\ InitialValue \in [Sems -> Nat]
    /\ MaxPetitions \in Nat /\ MaxSearches \in Nat
    /\ NoProc \notin Procs

VARIABLES
    sem,                    \* mateSem->sem
    waiting,                \* mateSem->waitingProcesses
    semPc, semProc,         \* thread_semFunc of each semaphore
    state,                  \* process->state; UNUSED after the free
    blockedQueue,           \* a set: the environment chooses whom to suspend
    suspendedReadyQueue,    \* a set for the same reason
    cpuPc, cpuProc, cpuSem, \* thread_CPUFunc inside the petition on a semaphore
    ddPc, ddVictim, ddTodo, \* thread_deadlockDetectorFunc, findDeadlocks' kill loop
    petitions, searches     \* counted to MaxPetitions and MaxSearches

semVars == <<sem, waiting>>
semThreadVars == <<semPc, semProc>>
procVars == <<state, blockedQueue, suspendedReadyQueue>>
cpuVars == <<cpuPc, cpuProc, cpuSem>>
detectorVars == <<ddPc, ddVictim, ddTodo>>
bounds == <<petitions, searches>>
vars == <<ddVars, semVars, semThreadVars, procVars, cpuVars, detectorVars, bounds>>

States == {"UNUSED", "READY", "EXEC", "BLOCKED", "SUSP_BLOCKED"}
CPUSteps == {"idle", "run", "block", "requested", "instant", "release", "destroy"}
SemSteps == {"check", "waiting", "take", "null", "isBlocked", "isSuspended", "remove",
             "ready", "suspReady", "allocated"}

Alive(p) == state[p] # "UNUSED"

NoUnits == [s \in Sems |-> 0]

Init ==
    /\ ddProcs = Procs
    /\ available = InitialValue
    /\ allocation = [p \in Procs |-> NoUnits]
    /\ request = [p \in Procs |-> NoUnits]
    /\ sem = InitialValue
    /\ waiting = [s \in Sems |-> <<>>]
    /\ semPc = [s \in Sems |-> "check"]
    /\ semProc = [s \in Sems |-> NoProc]
    /\ state = [p \in Procs |-> "READY"]
    /\ blockedQueue = {}
    /\ suspendedReadyQueue = {}
    /\ cpuPc = [c \in CPUs |-> "idle"]
    /\ cpuProc = [c \in CPUs |-> NoProc]
    /\ cpuSem = [c \in CPUs |-> 0]
    /\ ddPc = "sleep"
    /\ ddVictim = NoProc
    /\ ddTodo = {}
    /\ petitions = 0
    /\ searches = 0

-----------------------------------------------------------------------------
(* mateSem.c, each operation under sem_mutex *)

\* The semaphore's thread keeps sem_mutex from its test to the process it takes
Locked(s) == semPc[s] = "take"

\* mateSem_wait when it returns false
MateSemTake(s) ==
    /\ ~Locked(s)
    /\ sem[s] > 0
    /\ sem' = [sem EXCEPT ![s] = @ - 1]
    /\ UNCHANGED <<waiting, semPc>>

\* mateSem_wait when it returns true
MateSemEnqueue(s, p) ==
    /\ ~Locked(s)
    /\ sem[s] = 0
    /\ waiting' = [waiting EXCEPT ![s] = Append(@, p)]
    /\ UNCHANGED <<sem, semPc>>

\* Mutant: the condition is tested after sem++
MateSemPostLate(s) ==
    /\ ~Locked(s)
    /\ semPc' = [semPc EXCEPT ![s] =
                   IF waiting[s] # <<>> /\ sem[s] + 1 = 0 /\ @ = "waiting" THEN "check" ELSE @]
    /\ sem' = [sem EXCEPT ![s] = @ + 1]
    /\ UNCHANGED waiting

\* The semaphore's thread is signalled when a process waits and there was no unit
MateSemPost(s) ==
    /\ ~Locked(s)
    /\ semPc' = [semPc EXCEPT ![s] =
                   IF waiting[s] # <<>> /\ sem[s] = 0 /\ @ = "waiting" THEN "check" ELSE @]
    /\ sem' = [sem EXCEPT ![s] = @ + 1]
    /\ UNCHANGED waiting

-----------------------------------------------------------------------------
(* deadlockDetector.c: an update needs dd->mutex, which the detector keeps while it
   searches, and looks its process up in dd->procs *)

DDUpdates(p) == ddPc = "sleep" /\ p \in ddProcs

DDSemAllocatedInstant(p, s) ==
    /\ DDUpdates(p)
    /\ available' = [available EXCEPT ![s] = @ - 1]
    /\ allocation' = [allocation EXCEPT ![p][s] = @ + 1]
    /\ UNCHANGED <<ddProcs, request>>

\* Mutant: request keeps its entry
DDSemAllocatedKeeping(p, s) ==
    /\ DDUpdates(p)
    /\ available' = [available EXCEPT ![s] = @ - 1]
    /\ allocation' = [allocation EXCEPT ![p][s] = @ + 1]
    /\ UNCHANGED <<ddProcs, request>>

DDSemAllocated(p, s) ==
    /\ DDUpdates(p)
    /\ available' = [available EXCEPT ![s] = @ - 1]
    /\ request' = [request EXCEPT ![p][s] = @ - 1]
    /\ allocation' = [allocation EXCEPT ![p][s] = @ + 1]
    /\ UNCHANGED ddProcs

DDSemRequested(p, s) ==
    /\ DDUpdates(p)
    /\ request' = [request EXCEPT ![p][s] = @ + 1]
    /\ UNCHANGED <<ddProcs, available, allocation>>

\* Mutant: the allocation of a poster that holds nothing is decremented
DDSemReleaseUnchecked(p, s) ==
    /\ DDUpdates(p)
    /\ available' = [available EXCEPT ![s] = @ + 1]
    /\ allocation' = [allocation EXCEPT ![p][s] = @ - 1]
    /\ UNCHANGED <<ddProcs, request>>

\* Mutant: a poster that holds nothing releases nothing
DDSemReleaseOwn(p, s) ==
    /\ DDUpdates(p)
    /\ available' = [available EXCEPT ![s] = IF allocation[p][s] > 0 THEN @ + 1 ELSE @]
    /\ allocation' = [allocation EXCEPT ![p][s] = IF @ > 0 THEN @ - 1 ELSE @]
    /\ UNCHANGED <<ddProcs, request>>

DDSemRelease(p, s) ==
    /\ DDUpdates(p)
    /\ available' = [available EXCEPT ![s] = @ + 1]
    /\ allocation' = [allocation EXCEPT ![p][s] = IF @ > 0 THEN @ - 1 ELSE @]
    /\ UNCHANGED <<ddProcs, request>>

\* The row goes with the process: what it held is not given back
DDProcTerm(p) ==
    /\ DDUpdates(p)
    /\ ddProcs' = ddProcs \ {p}
    /\ allocation' = [allocation EXCEPT ![p] = NoUnits]
    /\ request' = [request EXCEPT ![p] = NoUnits]
    /\ UNCHANGED available

-----------------------------------------------------------------------------
(* The petitions, on the CPU thread that runs the process *)

Petition(c, s) ==
    /\ cpuPc[c] = "run"
    /\ Alive(cpuProc[c])
    /\ petitions < MaxPetitions
    /\ petitions' = petitions + 1
    /\ cpuSem' = [cpuSem EXCEPT ![c] = s]
    /\ UNCHANGED <<semProc, ddVars, procVars, cpuProc, detectorVars, searches>>

\* semWait without waiting
SemWaitPass(c, s) ==
    /\ Petition(c, s)
    /\ MateSemTake(s)
    /\ cpuPc' = [cpuPc EXCEPT ![c] = "instant"]

\* semWait with no unit left: waitingProcesses has the process before it is BLOCKED
SemWaitEnqueue(c, s) ==
    /\ Petition(c, s)
    /\ MateSemEnqueue(s, cpuProc[c])
    /\ cpuPc' = [cpuPc EXCEPT ![c] = "block"]

SemPost(c, s) ==
    /\ Petition(c, s)
    /\ MateSemPost(s)
    /\ cpuPc' = [cpuPc EXCEPT ![c] = "release"]

SemWaitInstant(c) ==
    /\ cpuPc[c] = "instant"
    /\ DDSemAllocatedInstant(cpuProc[c], cpuSem[c])
    /\ cpuPc' = [cpuPc EXCEPT ![c] = "run"]
    /\ UNCHANGED <<semVars, semThreadVars, procVars, cpuProc, cpuSem, detectorVars, bounds>>

SemPostRelease(c) ==
    /\ cpuPc[c] = "release"
    /\ DDSemRelease(cpuProc[c], cpuSem[c])
    /\ cpuPc' = [cpuPc EXCEPT ![c] = "run"]
    /\ UNCHANGED <<semVars, semThreadVars, procVars, cpuProc, cpuSem, detectorVars, bounds>>

\* semWait, the part under mutex_mediumTerm
SemWaitBlock(c) ==
    /\ cpuPc[c] = "block"
    /\ Alive(cpuProc[c])
    /\ state' = [state EXCEPT ![cpuProc[c]] = "BLOCKED"]
    /\ blockedQueue' = blockedQueue \cup {cpuProc[c]}
    /\ cpuPc' = [cpuPc EXCEPT ![c] = "requested"]
    /\ UNCHANGED <<ddVars, semVars, semThreadVars, suspendedReadyQueue, cpuProc, cpuSem,
                   detectorVars, bounds>>

SemWaitRequested(c) ==
    /\ cpuPc[c] = "requested"
    /\ DDSemRequested(cpuProc[c], cpuSem[c])
    /\ cpuPc' = [cpuPc EXCEPT ![c] = "idle"]
    /\ cpuProc' = [cpuProc EXCEPT ![c] = NoProc]
    /\ UNCHANGED <<semVars, semThreadVars, procVars, cpuSem, detectorVars, bounds>>

\* terminateProcess: the detector forgets the process, which is then freed
TerminateDD(c) ==
    /\ cpuPc[c] = "run"
    /\ DDProcTerm(cpuProc[c])
    /\ cpuPc' = [cpuPc EXCEPT ![c] = "destroy"]
    /\ UNCHANGED <<semVars, semThreadVars, procVars, cpuProc, cpuSem, detectorVars, bounds>>

TerminateDestroy(c) ==
    /\ cpuPc[c] = "destroy"
    /\ state' = [state EXCEPT ![cpuProc[c]] = "UNUSED"]
    /\ cpuPc' = [cpuPc EXCEPT ![c] = "idle"]
    /\ cpuProc' = [cpuProc EXCEPT ![c] = NoProc]
    /\ UNCHANGED <<ddVars, semVars, semThreadVars, blockedQueue, suspendedReadyQueue, cpuSem,
                   detectorVars, bounds>>

-----------------------------------------------------------------------------
(* thread_semFunc *)

\* Mutant: the thread takes a process without testing for a unit
CanHandOverUntested(s) == waiting[s] # <<>>

\* The loop's condition: there is a process and a unit for it
CanHandOver(s) == waiting[s] # <<>> /\ sem[s] > 0

SemSleep(s) ==
    /\ semPc[s] = "check"
    /\ ~CanHandOver(s)
    /\ semPc' = [semPc EXCEPT ![s] = "waiting"]
    /\ UNCHANGED <<ddVars, semVars, semProc, procVars, cpuVars, detectorVars, bounds>>

SemTest(s) ==
    /\ semPc[s] = "check"
    /\ CanHandOver(s)
    /\ semPc' = [semPc EXCEPT ![s] = "take"]
    /\ UNCHANGED <<ddVars, semVars, semProc, procVars, cpuVars, detectorVars, bounds>>

SemTake(s) ==
    /\ semPc[s] = "take"
    /\ waiting[s] # <<>>
    /\ semProc' = [semProc EXCEPT ![s] = Head(waiting[s])]
    /\ waiting' = [waiting EXCEPT ![s] = Tail(@)]
    /\ sem' = [sem EXCEPT ![s] = @ - 1]
    /\ semPc' = [semPc EXCEPT ![s] = "isBlocked"]
    /\ UNCHANGED <<ddVars, procVars, cpuVars, detectorVars, bounds>>

\* removeBy leaves the count of the queue's own semaphore: on the queue the detector has
\* emptied pQueue_take does not wait, and returns NULL
SemTakeNull(s) ==
    /\ semPc[s] = "take"
    /\ waiting[s] = <<>>
    /\ sem' = [sem EXCEPT ![s] = @ - 1]
    /\ semPc' = [semPc EXCEPT ![s] = "null"]
    /\ UNCHANGED <<ddVars, waiting, semProc, procVars, cpuVars, detectorVars, bounds>>

\* The two unlocked reads of process->state
SemIsBlocked(s) ==
    /\ semPc[s] = "isBlocked"
    /\ Alive(semProc[s])
    /\ semPc' = [semPc EXCEPT ![s] =
                   IF state[semProc[s]] = "BLOCKED" THEN "remove" ELSE "isSuspended"]
    /\ UNCHANGED <<ddVars, semVars, semProc, procVars, cpuVars, detectorVars, bounds>>

SemIsSuspended(s) ==
    /\ semPc[s] = "isSuspended"
    /\ Alive(semProc[s])
    /\ semPc' = [semPc EXCEPT ![s] =
                   IF state[semProc[s]] = "SUSP_BLOCKED" THEN "suspReady" ELSE "allocated"]
    /\ UNCHANGED <<ddVars, semVars, semProc, procVars, cpuVars, detectorVars, bounds>>

SemRemoveBlocked(s) ==
    /\ semPc[s] = "remove"
    /\ Alive(semProc[s])
    /\ blockedQueue' = blockedQueue \ {semProc[s]}
    /\ semPc' = [semPc EXCEPT ![s] = "ready"]
    /\ UNCHANGED <<ddVars, semVars, semProc, state, suspendedReadyQueue, cpuVars,
                   detectorVars, bounds>>

SemPutToReady(s) ==
    /\ semPc[s] = "ready"
    /\ Alive(semProc[s])
    /\ state' = [state EXCEPT ![semProc[s]] = "READY"]
    /\ semPc' = [semPc EXCEPT ![s] = "allocated"]
    /\ UNCHANGED <<ddVars, semVars, semProc, blockedQueue, suspendedReadyQueue, cpuVars,
                   detectorVars, bounds>>

\* The removal from suspendedBlockedQueue changes nothing that is read here
SemPutSuspendedReady(s) ==
    /\ semPc[s] = "suspReady"
    /\ Alive(semProc[s])
    /\ suspendedReadyQueue' = suspendedReadyQueue \cup {semProc[s]}
    /\ semPc' = [semPc EXCEPT ![s] = "allocated"]
    /\ UNCHANGED <<ddVars, semVars, semProc, state, blockedQueue, cpuVars, detectorVars, bounds>>

SemAllocated(s) ==
    /\ semPc[s] = "allocated"
    /\ DDSemAllocated(semProc[s], s)
    /\ semPc' = [semPc EXCEPT ![s] = "check"]
    /\ semProc' = [semProc EXCEPT ![s] = NoProc]
    /\ UNCHANGED <<semVars, procVars, cpuVars, detectorVars, bounds>>

-----------------------------------------------------------------------------
(* thread_deadlockDetectorFunc: dd->mutex is held until a search finds no deadlock *)

NoDeadlock == Stuck = {}

\* lock(&dd->mutex), then the searches
DetectorWake ==
    /\ ddPc = "sleep"
    /\ searches < MaxSearches
    /\ searches' = searches + 1
    /\ ddPc' = "search"
    /\ UNCHANGED <<ddVars, semVars, semThreadVars, procVars, cpuVars, ddVictim, ddTodo,
                   petitions>>

FindNone ==
    /\ ddPc = "search"
    /\ NoDeadlock
    /\ ddPc' = "sleep"
    /\ UNCHANGED <<ddVars, semVars, semThreadVars, procVars, cpuVars, ddVictim, ddTodo, bounds>>

\* Stuck processes, none of which is in a circle: there is no process to terminate and
\* the search is made again
FindNobody == ddPc = "search" /\ ~NoDeadlock /\ Victims = {} /\ UNCHANGED vars

\* The biggest pid
FindVictim ==
    /\ ddPc = "search"
    /\ \E v \in Victims : \A q \in Victims : v >= q /\ ddVictim' = v
    /\ ddTodo' = Sems
    /\ ddPc' = "kill"
    /\ UNCHANGED <<ddVars, semVars, semThreadVars, procVars, cpuVars, bounds>>

\* The next semaphore of the kill loop
Current == CHOOSE s \in ddTodo : \A t \in ddTodo : s <= t

\* pQueue_removeBy takes the first entry of the pid, under mutex_mediumTerm
KillWithdraw ==
    /\ ddPc = "kill"
    /\ ddTodo # {}
    /\ request[ddVictim][Current] # 0
    /\ waiting' = [waiting EXCEPT ![Current] = RemoveFirst(@, ddVictim)]
    /\ blockedQueue' = IF state[ddVictim] = "BLOCKED" THEN blockedQueue \ {ddVictim}
                                                      ELSE blockedQueue
    /\ request' = [request EXCEPT ![ddVictim][Current] = 0]
    /\ UNCHANGED <<ddProcs, available, allocation, sem, semThreadVars, state,
                   suspendedReadyQueue, cpuVars, detectorVars, bounds>>

\* One unit of what the victim holds is posted
KillPost ==
    /\ ddPc = "kill"
    /\ ddTodo # {}
    /\ request[ddVictim][Current] = 0
    /\ allocation[ddVictim][Current] > 0
    /\ MateSemPost(Current)
    /\ allocation' = [allocation EXCEPT ![ddVictim][Current] = @ - 1]
    /\ available' = [available EXCEPT ![Current] = @ + 1]
    /\ UNCHANGED <<ddProcs, request, semProc, procVars, cpuVars, detectorVars, bounds>>

KillNextSem ==
    /\ ddPc = "kill"
    /\ ddTodo # {}
    /\ request[ddVictim][Current] = 0
    /\ allocation[ddVictim][Current] = 0
    /\ ddTodo' = ddTodo \ {Current}
    /\ UNCHANGED <<ddVars, semVars, semThreadVars, procVars, cpuVars, ddPc, ddVictim, bounds>>

\* destroyProcess and the removal of the victim's row, then the next search
KillDestroy ==
    /\ ddPc = "kill"
    /\ ddTodo = {}
    /\ state' = [state EXCEPT ![ddVictim] = "UNUSED"]
    /\ ddProcs' = ddProcs \ {ddVictim}
    /\ ddVictim' = NoProc
    /\ ddPc' = "search"
    /\ UNCHANGED <<available, allocation, request, semVars, semThreadVars, blockedQueue,
                   suspendedReadyQueue, cpuVars, ddTodo, bounds>>

-----------------------------------------------------------------------------
(* The scheduler *)

Dispatch(c, p) ==
    /\ cpuPc[c] = "idle"
    /\ state[p] = "READY"
    /\ state' = [state EXCEPT ![p] = "EXEC"]
    /\ cpuProc' = [cpuProc EXCEPT ![c] = p]
    /\ cpuPc' = [cpuPc EXCEPT ![c] = "run"]
    /\ UNCHANGED <<ddVars, semVars, semThreadVars, blockedQueue, suspendedReadyQueue, cpuSem,
                   detectorVars, bounds>>

Suspend(p) ==
    /\ p \in blockedQueue
    /\ Alive(p)
    /\ blockedQueue' = blockedQueue \ {p}
    /\ state' = [state EXCEPT ![p] = "SUSP_BLOCKED"]
    /\ UNCHANGED <<ddVars, semVars, semThreadVars, suspendedReadyQueue, cpuVars, detectorVars,
                   bounds>>

Unsuspend(p) ==
    /\ p \in suspendedReadyQueue
    /\ Alive(p)
    /\ suspendedReadyQueue' = suspendedReadyQueue \ {p}
    /\ state' = [state EXCEPT ![p] = "READY"]
    /\ UNCHANGED <<ddVars, semVars, semThreadVars, blockedQueue, cpuVars, detectorVars, bounds>>

-----------------------------------------------------------------------------
(* The specification *)

SemThread(s) ==
    \/ SemSleep(s) \/ SemTest(s) \/ SemTake(s) \/ SemTakeNull(s)
    \/ SemIsBlocked(s) \/ SemIsSuspended(s)
    \/ SemRemoveBlocked(s) \/ SemPutToReady(s) \/ SemPutSuspendedReady(s) \/ SemAllocated(s)

CPUThread(c) ==
    \/ \E s \in Sems : SemWaitPass(c, s) \/ SemWaitEnqueue(c, s) \/ SemPost(c, s)
    \/ SemWaitInstant(c) \/ SemPostRelease(c) \/ SemWaitBlock(c) \/ SemWaitRequested(c)
    \/ TerminateDD(c) \/ TerminateDestroy(c)

Detector ==
    \/ DetectorWake \/ FindNone \/ FindNobody \/ FindVictim
    \/ KillWithdraw \/ KillPost \/ KillNextSem \/ KillDestroy

SchedulerStep ==
    \/ \E p \in Procs, c \in CPUs : Dispatch(c, p)
    \/ \E p \in Procs : Suspend(p) \/ Unsuspend(p)

\* No thread has used a NULL process
Running == \A s \in Sems : semPc[s] # "null"

Next ==
    /\ Running
    /\ \/ \E s \in Sems : SemThread(s)
       \/ \E c \in CPUs : CPUThread(c)
       \/ Detector
       \/ SchedulerStep

Spec == Init /\ [][Next]_vars

-----------------------------------------------------------------------------
(* Properties *)

TypeOK ==
    /\ ddProcs \in SUBSET Procs
    /\ available \in [Sems -> Int]
    /\ allocation \in [Procs -> [Sems -> Nat]]
    /\ request \in [Procs -> [Sems -> Int]]
    /\ sem \in [Sems -> Nat]
    /\ waiting \in [Sems -> Seq(Procs)]
    /\ semPc \in [Sems -> SemSteps]
    /\ semProc \in [Sems -> Procs \cup {NoProc}]
    /\ state \in [Procs -> States]
    /\ blockedQueue \in SUBSET Procs
    /\ suspendedReadyQueue \in SUBSET Procs
    /\ cpuPc \in [CPUs -> CPUSteps]
    /\ cpuProc \in [CPUs -> Procs \cup {NoProc}]
    /\ cpuSem \in [CPUs -> Sems \cup {0}]
    /\ ddPc \in {"sleep", "search", "kill"}
    /\ ddVictim \in Procs \cup {NoProc}
    /\ ddTodo \in SUBSET Sems
    /\ petitions \in 0 .. MaxPetitions
    /\ searches \in 0 .. MaxSearches

\* A thread holds a process, and a petition its semaphore, until it hands them on
ThreadsHoldProcess ==
    /\ \A c \in CPUs : cpuPc[c] # "idle" => cpuProc[c] \in Procs
    /\ \A c \in CPUs : cpuPc[c] \notin {"idle", "run", "destroy"} => cpuSem[c] \in Sems
    /\ \A s \in Sems :
          semPc[s] \notin {"check", "waiting", "take", "null"} => semProc[s] \in Procs
    /\ ddPc = "kill" => ddVictim \in Procs

(* A semaphore's thread does not sleep on its condition variable while a process waits
   and there is a unit for it: mateSem_post signals only on the first unit. *)
NoLostWakeup == \A s \in Sems : semPc[s] = "waiting" => ~CanHandOver(s)

\* The CPU threads inside a petition on s
At(step, s) == {c \in CPUs : cpuPc[c] = step /\ cpuSem[c] = s}

\* The thread of s has taken a process, and its unit, that the detector does not know of
HasTaken(s) == semPc[s] \notin {"check", "waiting", "take"}

(* The detector is told of each change of a semaphore after the change, by the thread
   that made it: its count of units is the semaphore's, but for the threads that have
   not told it yet. *)
AvailableTracksSem ==
    \A s \in Sems :
        available[s] + Cardinality(At("release", s))
            = sem[s] + Cardinality(At("instant", s)) + One(HasTaken(s))

Waits(p, s) == Cardinality({i \in DOMAIN waiting[s] : waiting[s][i] = p})

(* The detector's requests are the processes that wait: an entry is missing until the
   petition reports it, left over until the semaphore's thread does, and neither report
   is lost when they come in the other order. A process that is terminated is apart. *)
RequestsTrackWaits ==
    \A p \in ddProcs \ {ddVictim}, s \in Sems :
        request[p][s]
          + Cardinality({c \in At("block", s) \cup At("requested", s) : cpuProc[c] = p})
            = Waits(p, s) + One(HasTaken(s) /\ semProc[s] = p)

\* The threads that hold a process and have not handed it over
Handing(p) ==
    \E s \in Sems : semProc[s] = p /\ HasTaken(s) /\ semPc[s] # "allocated"

(* kernel.c:268, "Toma un proceso y lo pone en ready o suspended ready respectivamente":
   a blocked process still waits, is in the hands of a semaphore's thread or has been
   put in suspended-ready; nothing takes it from its semaphore and forgets it. *)
BlockedIsWoken ==
    \A p \in Procs \ {ddVictim} : state[p] \in {"BLOCKED", "SUSP_BLOCKED"} =>
        \/ \E s \in Sems : p \in Range(waiting[s])
        \/ Handing(p)
        \/ p \in suspendedReadyQueue

\* The process does not run until a unit is handed to it
Halted(p) ==
    \/ state[p] \in {"BLOCKED", "SUSP_BLOCKED"}
    \/ \E c \in CPUs : cpuPc[c] = "block" /\ cpuProc[c] = p

\* How a client sees its process
Status(p) ==
    IF \E s \in Sems : p \in Range(waiting[s]) THEN "waiting"
    ELSE IF Handing(p) THEN "granted"
    ELSE IF state[p] = "UNUSED" THEN "ended"
    ELSE IF ~Halted(p) THEN "running"
    ELSE IF p # ddVictim \/ p \in suspendedReadyQueue THEN "granted" ELSE "ended"

\* The unit the thread takes with no process goes to nobody
UnitsLeft(s) == sem[s] + One(semPc[s] = "null")

Client == INSTANCE CountingSem WITH
    value <- [s \in Sems |-> UnitsLeft(s)], queue <- waiting, status <- [p \in Procs |-> Status(p)]

(* What the threads do to a semaphore and to the processes' states is what a client may
   expect of a counting semaphore: no process goes on without a unit, or out of turn. *)
ImplementsCountingSem == Client!Spec

=============================================================================
