----------------------------- MODULE Scheduler -----------------------------
(***************************************************************************)
(* The kernel's process scheduler (kernel/src/kernel.c and the handlers of *)
(* kernel/src/petitionHandlers.c that change a process's state): the       *)
(* server loop that admits clients, the long-term thread, the two          *)
(* medium-term threads, the CPU threads and the I/O device threads.        *)
(*                                                                         *)
(* A region under mutex_mediumTerm is one action: what it reads and writes *)
(* without another lock commutes with the other threads (see the README).  *)
(* Everything the code does outside that mutex is a step of its own.       *)
(*                                                                         *)
(* Procs are process control blocks: the t_process a client is given when  *)
(* it connects, which a later client may be given again after its free.    *)
(***************************************************************************)
EXTENDS Integers, Sequences, FiniteSets, SequencesExt, Threads

CONSTANTS
    Procs,          \* process control blocks
    CPUs,           \* CPU threads (kernelConfig->multiprocess of them)
    Devices,        \* I/O devices, one thread each
    Multiprogram,   \* kernelConfig->multiprogram
    MaxIOCalls,     \* bound: how many CALL_IO petitions the clients send
    NoProc          \* the NULL process

ASSUME SchedulerAssumption ==
    /\ IsFiniteSet(Procs)
    /\ IsFiniteSet(CPUs)
    /\ IsFiniteSet(Devices)
    /\ Multiprogram \in Nat \ {0}
    /\ MaxIOCalls \in Nat
    /\ NoProc \notin Procs

VARIABLES
    state,                  \* process->state; UNUSED before connecting and after the free
    newQueue,               \* processes that connected, in order
    readyQueue,             \* a set: SJF and HRRN order it by measured times
    blockedQueue,           \* in order: the medium term takes the last one
    suspendedBlockedQueue,  \* how many entries each block has: its order is never used
    suspendedReadyQueue,
    semMultiprogram,        \* sem_multiprogram
    semNewProcess,          \* sem_newProcess
    longTermSem,
    cuposLibres,
    longTerm,               \* thread_longTermFunc: "wait" | "admit"
    unsuspender,            \* thread_mediumTermUnsuspenderFunc: "slot" | "new" | "admit"
    mediumTerm,             \* thread_mediumTermFunc: "check" | "waiting"
    cpuPc, cpuProc,         \* thread_CPUFunc of each CPU
    ioPc, ioProc, ioQueue,  \* thread_IODeviceFunc of each device, waitingProcesses
    leftBehind,             \* history: how often each block was made ready from SUSP_BLOCKED
                            \* by a device that had found it BLOCKED
    ioCalls                 \* CALL_IO petitions so far, at most MaxIOCalls

queues == <<newQueue, readyQueue, blockedQueue, suspendedBlockedQueue, suspendedReadyQueue>>
counters == <<semMultiprogram, semNewProcess, longTermSem, cuposLibres>>
planners == <<longTerm, unsuspender, mediumTerm>>
cpuVars == <<cpuPc, cpuProc, ioCalls>>
ioVars == <<ioPc, ioProc, ioQueue, leftBehind>>
vars == <<state, queues, counters, planners, cpuVars, ioVars>>

States == {"UNUSED", "NEW", "READY", "EXEC", "BLOCKED", "SUSP_BLOCKED"}
CPUSteps == {"idle", "signal", "run", "enqueue", "post", "cupos"}
IOSteps == {"take", "sleep", "blocked", "ready", "suspended", "suspReady", "notify"}

Init ==
    /\ state = [p \in Procs |-> "UNUSED"]
    /\ newQueue = <<>>
    /\ readyQueue = {}
    /\ blockedQueue = <<>>
    /\ suspendedBlockedQueue = [p \in Procs |-> 0]
    /\ suspendedReadyQueue = <<>>
    /\ semMultiprogram = Multiprogram
    /\ semNewProcess = 0
    /\ longTermSem = 0
    /\ cuposLibres = Multiprogram
    /\ longTerm = "wait"
    /\ unsuspender = "slot"
    /\ mediumTerm = "check"
    /\ cpuPc = [c \in CPUs |-> "idle"]
    /\ cpuProc = [c \in CPUs |-> NoProc]
    /\ ioPc = [d \in Devices |-> "take"]
    /\ ioProc = [d \in Devices |-> NoProc]
    /\ ioQueue = [d \in Devices |-> <<>>]
    /\ leftBehind = [p \in Procs |-> 0]
    /\ ioCalls = 0

-----------------------------------------------------------------------------
(* Helpers *)

\* pthread_cond_signal(&cond_mediumTerm): the only waiter is the medium term
SignalMediumTerm == mediumTerm' = "check"

\* putToReady: the state and the queue change under the ready queue's own lock
PutToReady(p) ==
    /\ state' = [state EXCEPT ![p] = "READY"]
    /\ readyQueue' = readyQueue \cup {p}

\* The negation of the loop condition of the medium term
MustSuspend ==
    /\ cuposLibres < 1
    /\ newQueue # <<>>
    /\ readyQueue = {}
    /\ blockedQueue # <<>>

-----------------------------------------------------------------------------
(* The server loop of main *)

Connect(p) ==
    /\ state[p] = "UNUSED"
    /\ state' = [state EXCEPT ![p] = "NEW"]
    /\ newQueue' = Append(newQueue, p)
    /\ semNewProcess' = semNewProcess + 1
    /\ SignalMediumTerm
    /\ UNCHANGED <<readyQueue, blockedQueue, suspendedBlockedQueue, suspendedReadyQueue,
                   semMultiprogram, longTermSem, cuposLibres, longTerm, unsuspender,
                   cpuVars, ioVars>>

-----------------------------------------------------------------------------
(* The long-term thread *)

LongTermWait ==
    /\ longTerm = "wait"
    /\ longTermSem > 0
    /\ longTermSem' = longTermSem - 1
    /\ longTerm' = "admit"
    /\ UNCHANGED <<state, queues, semMultiprogram, semNewProcess, cuposLibres,
                   unsuspender, mediumTerm, cpuVars, ioVars>>

\* Mutant: cuposLibres-- forgotten
LongTermAdmitUncounted ==
    /\ longTerm = "admit"
    /\ newQueue # <<>>
    /\ PutToReady(Head(newQueue))
    /\ newQueue' = Tail(newQueue)
    /\ longTerm' = "wait"
    /\ SignalMediumTerm
    /\ UNCHANGED <<blockedQueue, suspendedBlockedQueue, suspendedReadyQueue,
                   counters, unsuspender, cpuVars, ioVars>>

\* pQueue_take blocks on an empty queue, here while the thread holds the mutex
LongTermAdmit ==
    /\ longTerm = "admit"
    /\ newQueue # <<>>
    /\ PutToReady(Head(newQueue))
    /\ newQueue' = Tail(newQueue)
    /\ cuposLibres' = cuposLibres - 1
    /\ longTerm' = "wait"
    /\ SignalMediumTerm
    /\ UNCHANGED <<blockedQueue, suspendedBlockedQueue, suspendedReadyQueue,
                   semMultiprogram, semNewProcess, longTermSem, unsuspender,
                   cpuVars, ioVars>>

-----------------------------------------------------------------------------
(* The medium-term thread that admits: a slot first, then a process *)

\* Mutant: sem_trywait whose result is ignored
UnsuspenderTakeSlotUnchecked ==
    /\ unsuspender = "slot"
    /\ semMultiprogram' = semMultiprogram - 1
    /\ unsuspender' = "new"
    /\ UNCHANGED <<state, queues, semNewProcess, longTermSem, cuposLibres,
                   longTerm, mediumTerm, cpuVars, ioVars>>

UnsuspenderTakeSlot ==
    /\ unsuspender = "slot"
    /\ semMultiprogram > 0
    /\ semMultiprogram' = semMultiprogram - 1
    /\ unsuspender' = "new"
    /\ UNCHANGED <<state, queues, semNewProcess, longTermSem, cuposLibres,
                   longTerm, mediumTerm, cpuVars, ioVars>>

UnsuspenderTakeNew ==
    /\ unsuspender = "new"
    /\ semNewProcess > 0
    /\ semNewProcess' = semNewProcess - 1
    /\ unsuspender' = "admit"
    /\ UNCHANGED <<state, queues, semMultiprogram, longTermSem, cuposLibres,
                   longTerm, mediumTerm, cpuVars, ioVars>>

\* Mutant: continue without sem_post(&longTermSem)
UnsuspenderForwardDropping ==
    /\ unsuspender = "admit"
    /\ suspendedReadyQueue = <<>>
    /\ unsuspender' = "slot"
    /\ UNCHANGED <<state, queues, counters, longTerm, mediumTerm, cpuVars, ioVars>>

\* Mutant: the long-term thread is posted whether or not a process is suspended
UnsuspenderForwardAlways ==
    /\ unsuspender = "admit"
    /\ longTermSem' = longTermSem + 1
    /\ unsuspender' = "slot"
    /\ UNCHANGED <<state, queues, semMultiprogram, semNewProcess, cuposLibres,
                   longTerm, mediumTerm, cpuVars, ioVars>>

\* Nothing to unsuspend: slot and token are handed to the long-term thread
UnsuspenderForward ==
    /\ unsuspender = "admit"
    /\ suspendedReadyQueue = <<>>
    /\ longTermSem' = longTermSem + 1
    /\ unsuspender' = "slot"
    /\ UNCHANGED <<state, queues, semMultiprogram, semNewProcess, cuposLibres,
                   longTerm, mediumTerm, cpuVars, ioVars>>

UnsuspenderAdmit ==
    /\ unsuspender = "admit"
    /\ suspendedReadyQueue # <<>>
    /\ PutToReady(Head(suspendedReadyQueue))
    /\ suspendedReadyQueue' = Tail(suspendedReadyQueue)
    /\ cuposLibres' = cuposLibres - 1
    /\ unsuspender' = "slot"
    /\ SignalMediumTerm
    /\ UNCHANGED <<newQueue, blockedQueue, suspendedBlockedQueue,
                   semMultiprogram, semNewProcess, longTermSem, longTerm,
                   cpuVars, ioVars>>

-----------------------------------------------------------------------------
(* The medium-term thread that suspends *)

MediumTermWait ==
    /\ mediumTerm = "check"
    /\ ~MustSuspend
    /\ mediumTerm' = "waiting"
    /\ UNCHANGED <<state, queues, counters, longTerm, unsuspender, cpuVars, ioVars>>

\* Mutant: sem_post(&sem_multiprogram) forgotten
MediumTermSuspendKeepingSlot ==
    /\ mediumTerm = "check"
    /\ MustSuspend
    /\ LET p == Last(blockedQueue) IN
         /\ state' = [state EXCEPT ![p] = "SUSP_BLOCKED"]
         /\ suspendedBlockedQueue' = [suspendedBlockedQueue EXCEPT ![p] = @ + 1]
    /\ blockedQueue' = Front(blockedQueue)
    /\ cuposLibres' = cuposLibres + 1
    /\ UNCHANGED <<newQueue, readyQueue, suspendedReadyQueue, semMultiprogram,
                   semNewProcess, longTermSem, planners, cpuVars, ioVars>>

\* The process that blocked last is suspended and its slot is given back
MediumTermSuspend ==
    /\ mediumTerm = "check"
    /\ MustSuspend
    /\ LET p == Last(blockedQueue) IN
         /\ state' = [state EXCEPT ![p] = "SUSP_BLOCKED"]
         /\ suspendedBlockedQueue' = [suspendedBlockedQueue EXCEPT ![p] = @ + 1]
    /\ blockedQueue' = Front(blockedQueue)
    /\ semMultiprogram' = semMultiprogram + 1
    /\ cuposLibres' = cuposLibres + 1
    /\ UNCHANGED <<newQueue, readyQueue, suspendedReadyQueue, semNewProcess,
                   longTermSem, planners, cpuVars, ioVars>>

-----------------------------------------------------------------------------
(* The CPU threads and the petitions that end a burst *)

\* Mutant: the process is read from the ready queue and left in it
CPUTakePeeking(c) ==
    /\ cpuPc[c] = "idle"
    /\ \E p \in readyQueue :
         /\ state' = [state EXCEPT ![p] = "EXEC"]
         /\ cpuProc' = [cpuProc EXCEPT ![c] = p]
    /\ cpuPc' = [cpuPc EXCEPT ![c] = "signal"]
    /\ UNCHANGED <<queues, counters, planners, ioVars, ioCalls>>

CPUTake(c) ==
    /\ cpuPc[c] = "idle"
    /\ \E p \in readyQueue :
         /\ readyQueue' = readyQueue \ {p}
         /\ state' = [state EXCEPT ![p] = "EXEC"]
         /\ cpuProc' = [cpuProc EXCEPT ![c] = p]
    /\ cpuPc' = [cpuPc EXCEPT ![c] = "signal"]
    /\ UNCHANGED <<newQueue, blockedQueue, suspendedBlockedQueue, suspendedReadyQueue,
                   counters, planners, ioVars, ioCalls>>

\* Mutant: cond_mediumTerm is not signalled when the ready queue shrinks
CPUSignalMissing(c) ==
    /\ cpuPc[c] = "signal"
    /\ cpuPc' = [cpuPc EXCEPT ![c] = "run"]
    /\ UNCHANGED <<state, queues, counters, planners, cpuProc, ioCalls, ioVars>>

CPUSignal(c) ==
    /\ cpuPc[c] = "signal"
    /\ cpuPc' = [cpuPc EXCEPT ![c] = "run"]
    /\ SignalMediumTerm
    /\ UNCHANGED <<state, queues, counters, longTerm, unsuspender, cpuProc, ioCalls, ioVars>>

\* callIO, the part under mutex_mediumTerm
CallIOBlock(c) ==
    /\ cpuPc[c] = "run"
    /\ ioCalls < MaxIOCalls
    /\ ioCalls' = ioCalls + 1
    /\ state' = [state EXCEPT ![cpuProc[c]] = "BLOCKED"]
    /\ blockedQueue' = Append(blockedQueue, cpuProc[c])
    /\ cpuPc' = [cpuPc EXCEPT ![c] = "enqueue"]
    /\ SignalMediumTerm
    /\ UNCHANGED <<newQueue, readyQueue, suspendedBlockedQueue, suspendedReadyQueue,
                   counters, longTerm, unsuspender, cpuProc, ioVars>>

\* callIO, after the mutex: the device the petition named gets the process
CallIOEnqueue(c, d) ==
    /\ cpuPc[c] = "enqueue"
    /\ ioQueue' = [ioQueue EXCEPT ![d] = Append(@, cpuProc[c])]
    /\ cpuPc' = [cpuPc EXCEPT ![c] = "idle"]
    /\ cpuProc' = [cpuProc EXCEPT ![c] = NoProc]
    /\ UNCHANGED <<state, queues, counters, planners, ioPc, ioProc, leftBehind, ioCalls>>

\* terminateProcess up to destroyProcess, on DISCONNECTED or on a lost connection
TerminateProcess(c) ==
    /\ cpuPc[c] = "run"
    /\ state' = [state EXCEPT ![cpuProc[c]] = "UNUSED"]
    /\ cpuPc' = [cpuPc EXCEPT ![c] = "post"]
    /\ cpuProc' = [cpuProc EXCEPT ![c] = NoProc]
    /\ UNCHANGED <<queues, counters, planners, ioVars, ioCalls>>

\* terminateProcess: sem_post(&sem_multiprogram)
TerminatePost(c) ==
    /\ cpuPc[c] = "post"
    /\ semMultiprogram' = semMultiprogram + 1
    /\ cpuPc' = [cpuPc EXCEPT ![c] = "cupos"]
    /\ UNCHANGED <<state, queues, semNewProcess, longTermSem, cuposLibres, planners,
                   cpuProc, ioCalls, ioVars>>

\* terminateProcess: cuposLibres++
TerminateCupos(c) ==
    /\ cpuPc[c] = "cupos"
    /\ cuposLibres' = cuposLibres + 1
    /\ cpuPc' = [cpuPc EXCEPT ![c] = "idle"]
    /\ UNCHANGED <<state, queues, semMultiprogram, semNewProcess, longTermSem, planners,
                   cpuProc, ioCalls, ioVars>>

-----------------------------------------------------------------------------
(* The device threads *)

IOTake(d) ==
    /\ ioPc[d] = "take"
    /\ ioQueue[d] # <<>>
    /\ ioProc' = [ioProc EXCEPT ![d] = Head(ioQueue[d])]
    /\ ioQueue' = [ioQueue EXCEPT ![d] = Tail(@)]
    /\ ioPc' = [ioPc EXCEPT ![d] = "sleep"]
    /\ UNCHANGED <<state, queues, counters, planners, cpuVars, leftBehind>>

\* The unlocked read of process->state that chooses the branch
IOReadState(d) ==
    /\ ioPc[d] = "sleep"
    /\ ioPc' = [ioPc EXCEPT ![d] = CASE state[ioProc[d]] = "BLOCKED" -> "blocked"
                                     [] state[ioProc[d]] = "SUSP_BLOCKED" -> "suspended"
                                     [] OTHER -> "take"]
    /\ UNCHANGED <<state, queues, counters, planners, cpuVars, ioProc, ioQueue, leftBehind>>

\* Mutant: the head of blockedQueue is removed, whoever it is
IORemoveBlockedHead(d) ==
    /\ ioPc[d] = "blocked"
    /\ blockedQueue' = IF blockedQueue = <<>> THEN <<>> ELSE Tail(blockedQueue)
    /\ ioPc' = [ioPc EXCEPT ![d] = "ready"]
    /\ UNCHANGED <<state, newQueue, readyQueue, suspendedBlockedQueue, suspendedReadyQueue,
                   counters, planners, cpuVars, ioProc, ioQueue, leftBehind>>

\* Mutant: the process is left in blockedQueue
IORemoveBlockedMissing(d) ==
    /\ ioPc[d] = "blocked"
    /\ ioPc' = [ioPc EXCEPT ![d] = "ready"]
    /\ UNCHANGED <<state, queues, counters, planners, cpuVars, ioProc, ioQueue, leftBehind>>

IORemoveBlocked(d) ==
    /\ ioPc[d] = "blocked"
    /\ blockedQueue' = RemoveFirst(blockedQueue, ioProc[d])
    /\ ioPc' = [ioPc EXCEPT ![d] = "ready"]
    /\ UNCHANGED <<state, newQueue, readyQueue, suspendedBlockedQueue, suspendedReadyQueue,
                   counters, planners, cpuVars, ioProc, ioQueue, leftBehind>>

\* Suspended since its state was read, it leaves its entry in suspendedBlockedQueue
IOPutToReady(d) ==
    /\ ioPc[d] = "ready"
    /\ PutToReady(ioProc[d])
    /\ leftBehind' = [leftBehind EXCEPT ![ioProc[d]] =
                         @ + One(state[ioProc[d]] = "SUSP_BLOCKED")]
    /\ ioPc' = [ioPc EXCEPT ![d] = "take"]
    /\ ioProc' = [ioProc EXCEPT ![d] = NoProc]
    /\ UNCHANGED <<newQueue, blockedQueue, suspendedBlockedQueue, suspendedReadyQueue,
                   counters, planners, cpuVars, ioQueue>>

\* pQueue_removeBy: an entry that is not there is not removed
IORemoveSuspended(d) ==
    /\ ioPc[d] = "suspended"
    /\ suspendedBlockedQueue' = [suspendedBlockedQueue EXCEPT ![ioProc[d]] =
                                   IF @ > 0 THEN @ - 1 ELSE @]
    /\ ioPc' = [ioPc EXCEPT ![d] = "suspReady"]
    /\ UNCHANGED <<state, newQueue, readyQueue, blockedQueue, suspendedReadyQueue,
                   counters, planners, cpuVars, ioProc, ioQueue, leftBehind>>

\* The process keeps the state SUSP_BLOCKED: SUSP_READY is never assigned
IOPutSuspendedReady(d) ==
    /\ ioPc[d] = "suspReady"
    /\ suspendedReadyQueue' = Append(suspendedReadyQueue, ioProc[d])
    /\ ioPc' = [ioPc EXCEPT ![d] = "notify"]
    /\ ioProc' = [ioProc EXCEPT ![d] = NoProc]
    /\ UNCHANGED <<state, newQueue, readyQueue, blockedQueue, suspendedBlockedQueue,
                   counters, planners, cpuVars, ioQueue, leftBehind>>

\* Mutant: sem_post(&sem_newProcess) forgotten
IONotifyMissing(d) ==
    /\ ioPc[d] = "notify"
    /\ ioPc' = [ioPc EXCEPT ![d] = "take"]
    /\ UNCHANGED <<state, queues, counters, planners, cpuVars, ioProc, ioQueue, leftBehind>>

IONotify(d) ==
    /\ ioPc[d] = "notify"
    /\ semNewProcess' = semNewProcess + 1
    /\ ioPc' = [ioPc EXCEPT ![d] = "take"]
    /\ UNCHANGED <<state, queues, semMultiprogram, longTermSem, cuposLibres, planners,
                   cpuVars, ioProc, ioQueue, leftBehind>>

-----------------------------------------------------------------------------
(* The specification *)

LongTermThread == LongTermWait \/ LongTermAdmit

UnsuspenderThread ==
    UnsuspenderTakeSlot \/ UnsuspenderTakeNew \/ UnsuspenderForward \/ UnsuspenderAdmit

MediumTermThread == MediumTermWait \/ MediumTermSuspend

CallIO(c) == CallIOBlock(c) \/ \E d \in Devices : CallIOEnqueue(c, d)

Terminate(c) == TerminateProcess(c) \/ TerminatePost(c) \/ TerminateCupos(c)

CPUThread(c) == CPUTake(c) \/ CPUSignal(c) \/ CallIO(c) \/ Terminate(c)

IODeviceThread(d) ==
    \/ IOTake(d) \/ IOReadState(d)
    \/ IORemoveBlocked(d) \/ IOPutToReady(d)
    \/ IORemoveSuspended(d) \/ IOPutSuspendedReady(d) \/ IONotify(d)

Next ==
    \/ \E p \in Procs : Connect(p)
    \/ LongTermThread
    \/ UnsuspenderThread
    \/ MediumTermThread
    \/ \E c \in CPUs : CPUThread(c)
    \/ \E d \in Devices : IODeviceThread(d)

Spec == Init /\ [][Next]_vars

\* Every thread the kernel starts keeps running, and a client that is executing
\* ends its burst. Nothing makes clients connect or ask for a device.
Fairness ==
    /\ WF_vars(LongTermThread)
    /\ WF_vars(UnsuspenderThread)
    /\ WF_vars(MediumTermThread)
    /\ \A c \in CPUs : WF_vars(CPUThread(c))
    /\ \A d \in Devices : WF_vars(IODeviceThread(d))

FairSpec == Spec /\ Fairness

-----------------------------------------------------------------------------
(* Properties *)

TypeOK ==
    /\ state \in [Procs -> States]
    /\ newQueue \in Seq(Procs)
    /\ readyQueue \in SUBSET Procs
    /\ blockedQueue \in Seq(Procs)
    /\ suspendedBlockedQueue \in [Procs -> Nat]
    /\ suspendedReadyQueue \in Seq(Procs)
    /\ semMultiprogram \in Nat
    /\ semNewProcess \in Nat
    /\ longTermSem \in Nat
    /\ cuposLibres \in Int
    /\ longTerm \in {"wait", "admit"}
    /\ unsuspender \in {"slot", "new", "admit"}
    /\ mediumTerm \in {"check", "waiting"}
    /\ cpuPc \in [CPUs -> CPUSteps]
    /\ cpuProc \in [CPUs -> Procs \cup {NoProc}]
    /\ ioPc \in [Devices -> IOSteps]
    /\ ioProc \in [Devices -> Procs \cup {NoProc}]
    /\ ioQueue \in [Devices -> Seq(Procs)]
    /\ leftBehind \in [Procs -> Nat]
    /\ ioCalls \in 0 .. MaxIOCalls

\* A thread holds a process from the step that takes it to the step that hands it on
ThreadsHoldProcess ==
    /\ \A c \in CPUs : cpuPc[c] \in {"signal", "run", "enqueue"} => cpuProc[c] \in Procs
    /\ \A d \in Devices :
          ioPc[d] \in {"sleep", "blocked", "ready", "suspended", "suspReady"}
              => ioProc[d] \in Procs

\* Slots taken from sem_multiprogram and not yet given to a process
SlotsInHand == One(unsuspender # "slot") + longTermSem + One(longTerm = "admit")

\* Tokens taken from sem_newProcess and not yet turned into an admission
TokensInHand == One(unsuspender = "admit") + longTermSem + One(longTerm = "admit")

(* Admission tokens are neither lost nor duplicated: the tokens of sem_newProcess,
   those in the hands of the two admitting threads and those a device thread is about
   to post are as many as the processes that wait in NEW and SUSPENDED-READY, although
   the unsuspender may spend on a suspended process the token of a new one. *)
AdmissionTokens ==
    semNewProcess + TokensInHand + NumAt(Devices, ioPc, "notify")
        = Len(newQueue) + Len(suspendedReadyQueue)

(* The long-term thread takes from the new queue while it holds mutex_mediumTerm: were
   the queue empty it would block inside the mutex and stop the whole kernel. Each token
   forwarded to it has a process of its own in the new queue. *)
LongTermNeverStuck == longTermSem + One(longTerm = "admit") <= Len(newQueue)

(* The medium-term thread does not sleep on its condition variable while there is
   something to suspend, unless the CPU thread that emptied the ready queue is about to
   signal it: the ready queue changes outside mutex_mediumTerm. *)
NoLostWakeup ==
    mediumTerm = "waiting" /\ MustSuspend => \E c \in CPUs : cpuPc[c] = "signal"

(* cuposLibres is the program's own count of free slots. It equals the semaphore plus
   the slots in the hands of the admitting threads, but for the terminations that have
   posted the semaphore and not yet counted it. *)
CuposTracksSlots ==
    cuposLibres + NumAt(CPUs, cpuPc, "cupos")
        = semMultiprogram + SlotsInHand

Occupying == {p \in Procs : state[p] \in {"READY", "EXEC", "BLOCKED"}}

\* The suspended processes that no device thread has yet taken out of the queue
Suspended ==
    {p \in Procs : /\ state[p] = "SUSP_BLOCKED"
                   /\ p \notin Range(suspendedReadyQueue)
                   /\ \A d \in Devices : ~(ioPc[d] = "suspReady" /\ ioProc[d] = p)}

\* The entries of suspendedBlockedQueue, those of a process told apart by a number
Entries == UNION {{p} \X (1 .. suspendedBlockedQueue[p]) : p \in Procs}

\* How many of them stand for no suspended process
StaleEntries == Cardinality(Entries) - Cardinality(Suspended)

(* Every slot of the multiprogramming degree is accounted for: free, in hand, occupied
   by a process or about to be posted by a termination. The only slots beyond the
   configured degree are those of the suspended-blocked entries left behind when a
   process was suspended between the read of its state and its removal. *)
DegreeAccounting ==
    semMultiprogram + SlotsInHand + Cardinality(Occupying)
        + NumAt(CPUs, cpuPc, "post")
            = Multiprogram + StaleEntries

\* Where a process is: the positions in the queues and the threads that hold it
Holders(p) ==
       {<<"new", i>> : i \in {j \in DOMAIN newQueue : newQueue[j] = p}}
  \cup {<<"ready", 0>> : x \in {x \in readyQueue : x = p}}
  \cup {<<"cpu", c>> : c \in {c \in CPUs : cpuProc[c] = p}}
  \cup (UNION {{<<d, i>> : i \in {j \in DOMAIN ioQueue[d] : ioQueue[d][j] = p}} : d \in Devices})
  \cup {<<"io", d>> : d \in {d \in Devices : ioProc[d] = p}}
  \cup {<<"susp", i>> : i \in {j \in DOMAIN suspendedReadyQueue : suspendedReadyQueue[j] = p}}

(* A connected process is held in exactly one place, whatever the threads do: it is never
   dropped by all of them, never in two queues or threads at a time, so no two CPUs run it,
   and none of them has a block that was freed. The queues that only list processes for the
   medium term are apart. blockedQueue is BlockedQueuesExact's; suspendedBlockedQueue has
   one entry of each process that waits suspended and, of any block, freed or not, those
   that devices left behind by making ready a process suspended since they had read its
   state (kernel.c:241-250): nothing else is ever found there by pQueue_removeBy, which
   looks into every entry up to the one it removes. *)
HeldOnce ==
    \A p \in Procs :
        /\ IF state[p] = "UNUSED" THEN Holders(p) = {}
                                  ELSE \E h \in Holders(p) : Holders(p) = {h}
        /\ suspendedBlockedQueue[p] = One(p \in Suspended) + leftBehind[p]

(* blockedQueue, what the medium term suspends from, has once each process whose state
   is BLOCKED, but for one a device thread has removed and not yet made ready; and the
   device that found a process suspended finds its entry in suspendedBlockedQueue. *)
BlockedQueuesExact ==
    /\ \A i, j \in DOMAIN blockedQueue : blockedQueue[i] = blockedQueue[j] => i = j
    /\ \A p \in Procs : p \in Range(blockedQueue) <=>
          /\ state[p] = "BLOCKED"
          /\ \A d \in Devices : ~(ioPc[d] = "ready" /\ ioProc[d] = p)
    /\ \A p \in Suspended : suspendedBlockedQueue[p] > 0

Successors == [s \in States |->
    CASE s = "UNUSED" -> {"NEW"}
      [] s = "NEW" -> {"READY"}
      [] s = "READY" -> {"EXEC"}
      [] s = "EXEC" -> {"BLOCKED", "UNUSED"}
      [] s = "BLOCKED" -> {"READY", "SUSP_BLOCKED"}
      [] s = "SUSP_BLOCKED" -> {"READY"}]

(* A process only moves along the state diagram of the scheduler: an unlocked write of
   one thread never overrides the state another has given the process meanwhile. *)
LifecycleRespected ==
    [][\A p \in Procs : state'[p] = state[p] \/ state'[p] \in Successors[state[p]]]_vars

(* A client that connects is admitted in the end: the long term scheduler's wait for a
   slot and its token is never for ever (kernel.c:67-118). *)
AdmittedEventually == \A p \in Procs : state[p] = "NEW" ~> state[p] = "READY"

(* A process blocked on a device is ready again, whether or not it is suspended in
   between: no wake-up is lost (kernel.c:120-160, 223-267). *)
ReadyAgainEventually ==
    \A p \in Procs : state[p] \in {"BLOCKED", "SUSP_BLOCKED"} ~> state[p] = "READY"

=============================================================================
