----------------------------- MODULE Carpinchos -----------------------------
(***************************************************************************)
(* The clients of the repository, as its programs use the mate library,    *)
(* and the kernel and the memory as they answer them. A client has one     *)
(* call at a time; a petition is answered at once, or when the process     *)
(* runs again. A petition on a semaphore, the semaphores' threads, the     *)
(* devices and the detector take the steps between which another thread    *)
(* can see what they have done and not yet told; the rest of a petition is *)
(* one step, and so are the queues of the scheduler, which Scheduler takes *)
(* apart. The order of the queues of new and of ready processes is left    *)
(* open, and so is which of the processes in a circle has the biggest pid. *)
(*                                                                         *)
(* The model ends where the code's behaviour is not defined: see fault.    *)
(***************************************************************************)
EXTENDS DeadlockSearch

CONSTANTS
    Tests,      \* by name: the clients' programs and the kernel's configuration
    Devices,    \* the devices of input and output
    Hosts,      \* the pthread semaphores of the tests
    NoProc,     \* no process
    Nobody      \* the NULL that the search finds when nobody is in a circle

ASSUME TestsAssumption ==
    \A t \in DOMAIN Tests :
        /\ DOMAIN Tests[t].program = Procs
        /\ Tests[t].cpus \in Nat \ {0} /\ Tests[t].slots \in Nat \ {0}
        /\ Tests[t].direct \in BOOLEAN
        /\ \A c \in Procs :
              LET program == Tests[t].program[c]
              IN  /\ Len(program) \in Nat /\ DOMAIN program = 1 .. Len(program)
                  /\ \A k \in DOMAIN program :
                        /\ program[k][1] \in {"semInit", "wait", "post", "destroy"} =>
                              program[k][2] \in Sems
                        /\ program[k][1] = "semInit" => program[k][3] \in Nat
                        /\ program[k][1] = "io" => program[k][2] \in Devices

\* Every mate_init of a program has its mate_close, before the next mate_init
ASSUME SessionsAssumption ==
    \A t \in DOMAIN Tests, c \in Procs, name \in {"term", "disc"} :
        LET program == Tests[t].program[c]
        IN  \A i \in DOMAIN program : program[i][1] = "init" =>
                \A k \in i + 1 .. Len(program) + 1 :
                    (k \in DOMAIN program => program[k][1] = "init") =>
                        \E j \in i + 1 .. k - 1 : program[j][1] = name

\* A client that comes back has used no semaphore that another thread could still tell the
\* detector of
ASSUME ReturnsAssumption ==
    \A t \in DOMAIN Tests, c \in Procs :
        LET program == Tests[t].program[c]
        IN  (\E i, j \in DOMAIN program : i # j /\ program[i][1] = "init" /\ program[j][1] = "init")
                => \A k \in DOMAIN program : program[k][1] \notin {"wait", "post"}

ASSUME NobodyAssumption == NoProc \notin Procs /\ Nobody \notin Procs /\ Nobody # NoProc

VARIABLES
    test,       \* the test that runs
    pc,         \* the call each client is at
    due,        \* whether nobody has taken that call yet
    inbox,      \* the answers on the way to the client
    host,       \* the values of the pthread semaphores
    proc,       \* the state of its process in the kernel, "none" without one
    step,       \* how far the CPU that runs it is in its petition
    idle,       \* CPUs that run nobody and have nothing left to tell
    asking,     \* waits that a CPU has still to tell the detector of (DDSemRequested)
    blocked,    \* blockedQueue
    slots,      \* sem_multiprogram
    units,      \* the semaphores in sem_dict and the count of each
    waiting,    \* the waitingProcesses of each semaphore
    semStep,    \* the thread of each semaphore
    semProc,    \* and the process it has taken
    device,     \* the waitingProcesses of each device, and first the one it serves
    ioStep,     \* the thread of each device
    locked,     \* the process being terminated: then the detector has dd->mutex
    tables,     \* the clients that have a page table in the memory
    overposted, \* history: slots posted that no process had, or that two have
    fault       \* "no", or why what follows is not defined

clientVars == <<test, pc, due, inbox, host>>
cpuVars == <<step, idle, asking>>
semVars == <<units, waiting>>
threadVars == <<semStep, semProc, ioStep>>
planVars == <<proc, blocked, slots, overposted, device>>
vars == <<clientVars, cpuVars, semVars, threadVars, ddVars, locked, planVars, tables, fault>>

Program(c) == Tests[test].program[c]
Ended(c) == pc[c] > Len(Program(c))
Call(c) == Program(c)[pc[c]]
Calls(c, name) == ~Ended(c) /\ due[c] /\ Call(c)[1] = name
Arg(c) == Call(c)[2]

\* Calls that go to no server
HostCalls == {"hostWait", "hostPost", "join"}

NoRow == [s \in Sems |-> 0]

Init ==
    /\ test \in DOMAIN Tests
    /\ pc = [c \in Procs |-> 1]
    /\ due = [c \in Procs |-> TRUE]
    /\ inbox = [c \in Procs |-> <<>>]
    /\ host = [h \in Hosts |-> 0]
    /\ proc = [c \in Procs |-> "none"]
    /\ step = [c \in Procs |-> "none"]
    /\ idle = Tests[test].cpus
    /\ asking = [c \in Procs |-> NoRow]
    /\ blocked = <<>>
    /\ slots = Tests[test].slots
    /\ units = <<>>
    /\ waiting = [s \in Sems |-> <<>>]
    /\ semStep = [s \in Sems |-> "test"]
    /\ semProc = [s \in Sems |-> NoProc]
    /\ device = [d \in Devices |-> <<>>]
    /\ ioStep = [d \in Devices |-> "sleep"]
    /\ locked = NoProc
    /\ tables = {}
    /\ overposted = 0
    /\ fault = "no"
    /\ ddProcs = {}
    /\ available = NoRow
    /\ allocation = [c \in Procs |-> NoRow]
    /\ request = [c \in Procs |-> NoRow]

-----------------------------------------------------------------------------
(* The client: a function of the library sends a petition and waits for its answer *)

\* Where a client goes on whose instance mate_sem_wait has closed: every call on it returns
\* -1, up to the next mate_init
AfterNull(c) ==
    Min({Len(Program(c)) + 1} \cup
        {k \in pc[c] + 1 .. Len(Program(c)) : Program(c)[k][1] \in HostCalls \cup {"init"}})

Return(c) ==
    /\ inbox[c] # <<>>
    /\ inbox' = [inbox EXCEPT ![c] = Tail(@)]
    /\ due' = [due EXCEPT ![c] = TRUE]
    /\ pc' = [pc EXCEPT ![c] = IF Call(c)[1] = "wait" /\ Head(inbox[c]) = "ERROR"
                               THEN AfterNull(c) ELSE @ + 1]
    /\ UNCHANGED <<test, host, cpuVars, semVars, threadVars, ddVars, locked, planVars, tables,
                   fault>>

HostStep(c) ==
    /\ \/ /\ Calls(c, "hostWait") /\ host[Arg(c)] > 0
          /\ host' = [host EXCEPT ![Arg(c)] = @ - 1]
       \/ /\ Calls(c, "hostPost")
          /\ host' = [host EXCEPT ![Arg(c)] = @ + Call(c)[3]]
       \/ /\ Calls(c, "join") /\ Ended(Arg(c))
          /\ UNCHANGED host
    /\ pc' = [pc EXCEPT ![c] = @ + 1]
    /\ UNCHANGED <<test, due, inbox, cpuVars, semVars, threadVars, ddVars, locked, planVars,
                   tables, fault>>

\* A server takes the client's petition, and answers it or not
Taken(c) == due' = [due EXCEPT ![c] = FALSE]
Answer(c, a) == inbox' = [inbox EXCEPT ![c] = Append(@, a)]
Take(c, a) == Taken(c) /\ Answer(c, a) /\ UNCHANGED <<test, pc, host>>
TakeSilently(c) == Taken(c) /\ UNCHANGED <<test, pc, host, inbox>>
Reply(c, a) == Answer(c, a) /\ UNCHANGED <<test, pc, due, host>>

\* The memory, for a client that is connected to it and not to the kernel
MemoryPetition(c) ==
    /\ Tests[test].direct
    /\ \/ Calls(c, "init") /\ tables' = tables \cup {c}
       \/ Calls(c, "term") /\ tables' = tables \ {c}
       \/ Calls(c, "mem") /\ UNCHANGED tables
       \/ Calls(c, "disc") /\ UNCHANGED tables
    /\ Take(c, "OK")
    /\ UNCHANGED <<cpuVars, semVars, threadVars, ddVars, locked, planVars, fault>>

-----------------------------------------------------------------------------
(* The kernel: who runs *)

In(state) == {c \in Procs : proc[c] = state}
Becomes(c, state) == proc' = [proc EXCEPT ![c] = state]

\* dd->mutex, which the detector keeps from the search that finds a process stuck to the
\* one that finds none
DetectorAsleep == locked = NoProc

\* The main thread relays the CAPI_ID and puts the process in newQueue. DDProcInit comes
\* after that, here before the first petition of the process; and a client comes back here
\* when its former process has gone.
Connect(c) ==
    /\ Calls(c, "init") /\ ~Tests[test].direct
    /\ DetectorAsleep /\ proc[c] = "none"
    /\ tables' = tables \cup {c}
    /\ Becomes(c, "NEW")
    /\ ddProcs' = ddProcs \cup {c}
    /\ TakeSilently(c)
    /\ UNCHANGED <<cpuVars, semVars, threadVars, available, allocation, request, locked,
                   blocked, slots, overposted, device, fault>>

Admit(c) ==
    /\ proc[c] \in {"NEW", "SUSP_READY"} /\ slots > 0
    /\ slots' = slots - 1
    /\ Becomes(c, "READY")
    /\ UNCHANGED <<clientVars, cpuVars, semVars, threadVars, ddVars, locked, blocked,
                   overposted, device, tables, fault>>

\* Mutant: a process that goes on is not told
DispatchSilently(c) ==
    /\ proc[c] = "READY" /\ idle > 0
    /\ idle' = idle - 1
    /\ Becomes(c, "EXEC")
    /\ UNCHANGED <<clientVars, step, asking, semVars, threadVars, ddVars, locked, blocked,
                   slots, overposted, device, tables, fault>>

\* A CPU takes a process and answers the call that put it here: mate_init, a wait, or a
\* call of input and output
Dispatch(c) ==
    /\ proc[c] = "READY" /\ idle > 0
    /\ idle' = idle - 1
    /\ Becomes(c, "EXEC")
    /\ Reply(c, "OK")
    /\ UNCHANGED <<step, asking, semVars, threadVars, ddVars, locked, blocked, slots,
                   overposted, device, tables, fault>>

\* The last process to block gives its slot to a new one
Suspend ==
    /\ slots = 0 /\ In("NEW") # {} /\ In("READY") = {} /\ blocked # <<>>
    /\ proc' = [proc EXCEPT ![Last(blocked)] = "SUSP_BLOCKED"]
    /\ blocked' = Front(blocked)
    /\ slots' = slots + 1
    /\ UNCHANGED <<clientVars, cpuVars, semVars, threadVars, ddVars, locked, overposted,
                   device, tables, fault>>

Block(c) ==
    /\ Becomes(c, "BLOCKED")
    /\ blocked' = Append(blocked, c)

\* What a semaphore's thread and a device do with a process that may go on, by the state
\* they have read: a process read as BLOCKED and suspended since then is made ready too,
\* without a slot
Found(c) == CASE proc[c] = "BLOCKED" -> "ready"
              [] proc[c] = "SUSP_BLOCKED" -> "suspReady"
              [] OTHER -> "lost"

WakeUp(c, found) ==
    /\ Becomes(c, IF found = "ready" THEN "READY" ELSE "SUSP_READY")
    /\ blocked' = IF found = "ready" THEN RemoveFirst(blocked, c) ELSE blocked
    /\ overposted' = IF found = "ready" /\ proc[c] = "SUSP_BLOCKED" THEN overposted + 1
                                                                    ELSE overposted

-----------------------------------------------------------------------------
(* The kernel: petitions. A semaphore that is not there is an error. *)

Serves(c, name) == proc[c] = "EXEC" /\ step[c] = "none" /\ Calls(c, name)
Goes(c, to) == step' = [step EXCEPT ![c] = to]
Known(s) == s \in DOMAIN units

\* The thread of s keeps sem_mutex from its test to the process it takes
SemLocked(s) == semStep[s] = "take"

PetitionFails(c, names) ==
    /\ \E name \in names : Serves(c, name)
    /\ ~Known(Arg(c))
    /\ Take(c, "ERROR")
    /\ UNCHANGED <<cpuVars, semVars, threadVars, ddVars, locked, planVars, tables, fault>>

SemInit(c) ==
    LET s == Arg(c)
    IN  /\ Serves(c, "semInit")
        /\ IF Known(s)
           THEN Take(c, "ERROR") /\ UNCHANGED <<units, available>>
           ELSE /\ DetectorAsleep
                /\ Take(c, "OK")
                /\ units' = units @@ (s :> Call(c)[3])
                /\ available' = [available EXCEPT ![s] = Call(c)[3]]
        /\ UNCHANGED <<cpuVars, waiting, threadVars, ddProcs, allocation, request, locked,
                       planVars, tables, fault>>

SemFails(c) == PetitionFails(c, {"wait", "post", "destroy"})

\* semWait with a unit left, to be told to the detector and answered
SemWaitPass(c) ==
    LET s == Arg(c)
    IN  /\ Serves(c, "wait") /\ Known(s) /\ ~SemLocked(s) /\ units[s] > 0
        /\ units' = [units EXCEPT ![s] = @ - 1]
        /\ Goes(c, "instant")
        /\ TakeSilently(c)
        /\ UNCHANGED <<idle, asking, waiting, threadVars, ddVars, locked, planVars, tables,
                       fault>>

SemWaitInstant(c) ==
    LET s == Arg(c)
    IN  /\ step[c] = "instant" /\ DetectorAsleep
        /\ available' = [available EXCEPT ![s] = @ - 1]
        /\ allocation' = [allocation EXCEPT ![c][s] = @ + 1]
        /\ Goes(c, "none")
        /\ Reply(c, "OK")
        /\ UNCHANGED <<idle, asking, semVars, threadVars, ddProcs, request, locked, planVars,
                       tables, fault>>

\* Mutant: a process that has to wait is answered too
SemWaitEnqueueAnswering(c) ==
    LET s == Arg(c)
    IN  /\ Serves(c, "wait") /\ Known(s) /\ ~SemLocked(s) /\ units[s] = 0
        /\ waiting' = [waiting EXCEPT ![s] = Append(@, c)]
        /\ Goes(c, "block")
        /\ Take(c, "OK")
        /\ UNCHANGED <<idle, asking, units, threadVars, ddVars, locked, planVars, tables, fault>>

\* semWait without one: the semaphore's thread can take the process before it is BLOCKED
SemWaitEnqueue(c) ==
    LET s == Arg(c)
    IN  /\ Serves(c, "wait") /\ Known(s) /\ ~SemLocked(s) /\ units[s] = 0
        /\ waiting' = [waiting EXCEPT ![s] = Append(@, c)]
        /\ Goes(c, "block")
        /\ TakeSilently(c)
        /\ UNCHANGED <<idle, asking, units, threadVars, ddVars, locked, planVars, tables, fault>>

\* From here on the process may run again before its CPU tells the detector
SemWaitBlock(c) ==
    /\ step[c] = "block"
    /\ Block(c)
    /\ Goes(c, "none")
    /\ asking' = [asking EXCEPT ![c][Arg(c)] = @ + 1]
    /\ UNCHANGED <<clientVars, idle, semVars, threadVars, ddVars, locked, slots, overposted,
                   device, tables, fault>>

SemWaitRequested(c, s) ==
    /\ asking[c][s] > 0 /\ c \in ddProcs /\ DetectorAsleep
    /\ request' = [request EXCEPT ![c][s] = @ + 1]
    /\ asking' = [asking EXCEPT ![c][s] = @ - 1]
    /\ idle' = idle + 1
    /\ UNCHANGED <<clientVars, step, semVars, threadVars, ddProcs, available, allocation,
                   locked, planVars, tables, fault>>

SemPost(c) ==
    LET s == Arg(c)
    IN  /\ Serves(c, "post") /\ Known(s) /\ ~SemLocked(s)
        /\ units' = [units EXCEPT ![s] = @ + 1]
        /\ Goes(c, "release")
        /\ TakeSilently(c)
        /\ UNCHANGED <<idle, asking, waiting, threadVars, ddVars, locked, planVars, tables,
                       fault>>

SemPostRelease(c) ==
    LET s == Arg(c)
    IN  /\ step[c] = "release" /\ DetectorAsleep
        /\ available' = [available EXCEPT ![s] = @ + 1]
        /\ allocation' = [allocation EXCEPT ![c][s] = IF @ = 0 THEN 0 ELSE @ - 1]
        /\ Goes(c, "none")
        /\ Reply(c, "OK")
        /\ UNCHANGED <<idle, asking, semVars, threadVars, ddProcs, request, locked, planVars,
                       tables, fault>>

WithoutColumn(rows, s) == [c \in Procs |-> [rows[c] EXCEPT ![s] = 0]]

\* The semaphore and what the detector knows of it are gone, and so are those who wait
SemDestroy(c) ==
    LET s == Arg(c)
        used == waiting[s] # <<>> \/ semStep[s] # "test" \/ \E q \in Procs : asking[q][s] # 0
    IN  /\ Serves(c, "destroy") /\ Known(s) /\ DetectorAsleep
        /\ Take(c, "OK")
        /\ units' = Restrict(units, DOMAIN units \ {s})
        /\ waiting' = [waiting EXCEPT ![s] = <<>>]
        /\ available' = [available EXCEPT ![s] = 0]
        /\ allocation' = WithoutColumn(allocation, s)
        /\ request' = WithoutColumn(request, s)
        /\ fault' = IF used THEN "destroyed" ELSE fault
        /\ UNCHANGED <<cpuVars, threadVars, ddProcs, locked, planVars, tables>>

CallIO(c) ==
    /\ Serves(c, "io")
    /\ Block(c)
    /\ device' = [device EXCEPT ![Arg(c)] = Append(@, c)]
    /\ idle' = idle + 1
    /\ TakeSilently(c)
    /\ UNCHANGED <<step, asking, semVars, threadVars, ddVars, locked, slots, overposted, tables,
                   fault>>

\* The memory answers and the kernel passes its answer on
RelayPetition(c) ==
    /\ Serves(c, "mem")
    /\ Take(c, "OK")
    /\ UNCHANGED <<cpuVars, semVars, threadVars, ddVars, locked, planVars, tables, fault>>

RelayTerminate(c) ==
    /\ Serves(c, "term")
    /\ tables' = tables \ {c}
    /\ Take(c, "OK")
    /\ UNCHANGED <<cpuVars, semVars, threadVars, ddVars, locked, planVars, fault>>

\* terminateProcess answers first
TerminateProcess(c) ==
    /\ Serves(c, "disc")
    /\ Goes(c, "leave")
    /\ Take(c, "OK")
    /\ UNCHANGED <<idle, asking, semVars, threadVars, ddVars, locked, planVars, tables, fault>>

\* Mutant: what it holds is not forgotten
DDForgetWaits(c) ==
    /\ ddProcs' = ddProcs \ {c}
    /\ request' = [request EXCEPT ![c] = NoRow]
    /\ UNCHANGED allocation

\* The detector forgets the process
DDForget(c) ==
    /\ ddProcs' = ddProcs \ {c}
    /\ allocation' = [allocation EXCEPT ![c] = NoRow]
    /\ request' = [request EXCEPT ![c] = NoRow]

\* What the process holds stays taken (DDProcTerm)
TerminateLeave(c) ==
    /\ step[c] = "leave" /\ DetectorAsleep
    /\ DDForget(c)
    /\ Becomes(c, "none")
    /\ Goes(c, "none")
    /\ slots' = slots + 1
    /\ idle' = idle + 1
    /\ UNCHANGED <<clientVars, asking, semVars, threadVars, available, locked, blocked,
                   overposted, device, tables, fault>>

-----------------------------------------------------------------------------
(* The threads of the semaphores and of the devices *)

Moves(s, to) == semStep' = [semStep EXCEPT ![s] = to]

SemTest(s) ==
    /\ semStep[s] = "test" /\ Known(s) /\ waiting[s] # <<>> /\ units[s] > 0
    /\ Moves(s, "take")
    /\ UNCHANGED <<clientVars, cpuVars, semVars, semProc, ioStep, ddVars, locked, planVars,
                   tables, fault>>

\* The detector removes from waitingProcesses without sem_mutex
SemTake(s) ==
    /\ semStep[s] = "take"
    /\ units' = [units EXCEPT ![s] = @ - 1]
    /\ IF waiting[s] = <<>>
       THEN fault' = "null" /\ UNCHANGED <<waiting, semStep, semProc>>
       ELSE /\ semProc' = [semProc EXCEPT ![s] = Head(waiting[s])]
            /\ waiting' = [waiting EXCEPT ![s] = Tail(@)]
            /\ Moves(s, "read")
            /\ UNCHANGED fault
    /\ UNCHANGED <<clientVars, cpuVars, ioStep, ddVars, locked, planVars, tables>>

\* A process that is not BLOCKED yet is put nowhere
SemRead(s) ==
    /\ semStep[s] = "read"
    /\ Moves(s, IF Found(semProc[s]) = "lost" THEN "report" ELSE Found(semProc[s]))
    /\ UNCHANGED <<clientVars, cpuVars, semVars, semProc, ioStep, ddVars, locked, planVars,
                   tables, fault>>

SemWakeUp(s) ==
    /\ semStep[s] \in {"ready", "suspReady"}
    /\ WakeUp(semProc[s], semStep[s])
    /\ Moves(s, "report")
    /\ UNCHANGED <<clientVars, cpuVars, semVars, semProc, ioStep, ddVars, locked, slots,
                   device, tables, fault>>

\* Mutant: the process that is handed a unit goes on requesting it
SemAllocatedKeeping(s) ==
    LET c == semProc[s]
    IN  /\ semStep[s] = "report" /\ c \in ddProcs /\ DetectorAsleep
        /\ available' = [available EXCEPT ![s] = @ - 1]
        /\ allocation' = [allocation EXCEPT ![c][s] = @ + 1]
        /\ Moves(s, "test")
        /\ semProc' = [semProc EXCEPT ![s] = NoProc]
        /\ UNCHANGED <<clientVars, cpuVars, semVars, ioStep, ddProcs, request, locked, planVars,
                       tables, fault>>

\* By now the process may have gone on: a CPU may have answered it
SemAllocated(s) ==
    LET c == semProc[s]
    IN  /\ semStep[s] = "report" /\ c \in ddProcs /\ DetectorAsleep
        /\ available' = [available EXCEPT ![s] = @ - 1]
        /\ allocation' = [allocation EXCEPT ![c][s] = @ + 1]
        /\ request' = [request EXCEPT ![c][s] = @ - 1]
        /\ Moves(s, "test")
        /\ semProc' = [semProc EXCEPT ![s] = NoProc]
        /\ UNCHANGED <<clientVars, cpuVars, semVars, ioStep, ddProcs, locked, planVars, tables,
                       fault>>

\* The loop that looks the process up in dd->procs goes past its end
ReportOnForgotten ==
    /\ DetectorAsleep
    /\ \E c \in Procs \ ddProcs, s \in Sems :
          asking[c][s] > 0 \/ (semStep[s] = "report" /\ semProc[s] = c)
    /\ fault' = "forgotten"
    /\ UNCHANGED <<clientVars, cpuVars, semVars, threadVars, ddVars, locked, planVars, tables>>

\* When the time of its call has passed
IORead(d) ==
    /\ ioStep[d] = "sleep" /\ device[d] # <<>>
    /\ ioStep' = [ioStep EXCEPT ![d] = Found(Head(device[d]))]
    /\ UNCHANGED <<clientVars, cpuVars, semVars, semStep, semProc, ddVars, locked, planVars,
                   tables, fault>>

IOWakeUp(d) ==
    /\ ioStep[d] # "sleep"
    /\ WakeUp(Head(device[d]), ioStep[d])
    /\ device' = [device EXCEPT ![d] = Tail(@)]
    /\ ioStep' = [ioStep EXCEPT ![d] = "sleep"]
    /\ UNCHANGED <<clientVars, cpuVars, semVars, semStep, semProc, ddVars, locked, slots,
                   tables, fault>>

-----------------------------------------------------------------------------
(* The deadlock detector *)

\* What a search ends with. With stuck processes and nobody in a circle it takes the
\* maximum of an empty list, terminates nobody and is made again, for ever.
Outcomes == IF Stuck = {} THEN {NoProc} ELSE IF Victims = {} THEN {Nobody} ELSE Victims

Search ==
    /\ DetectorAsleep
    /\ Stuck # {}
    /\ locked' \in Outcomes
    /\ UNCHANGED <<clientVars, cpuVars, semVars, threadVars, ddVars, planVars, tables, fault>>

Terminating == locked \in Procs

\* The semaphores that the loop over dd->sems has not done with
Pending == {s \in Sems : request[locked][s] # 0 \/ allocation[locked][s] # 0}
Current == Min(Pending)

\* The victim waits for the semaphore no more
KillWithdraw ==
    /\ Terminating /\ Pending # {} /\ request[locked][Current] # 0
    /\ waiting' = [waiting EXCEPT ![Current] = RemoveFirst(@, locked)]
    /\ blocked' = IF proc[locked] = "BLOCKED" THEN RemoveFirst(blocked, locked) ELSE blocked
    /\ request' = [request EXCEPT ![locked][Current] = 0]
    /\ UNCHANGED <<clientVars, cpuVars, units, threadVars, ddProcs, available, allocation,
                   locked, proc, slots, overposted, device, tables, fault>>

\* A unit that it held
KillPost ==
    /\ Terminating /\ Pending # {} /\ request[locked][Current] = 0
    /\ ~SemLocked(Current)
    /\ units' = [units EXCEPT ![Current] = @ + 1]
    /\ available' = [available EXCEPT ![Current] = @ + 1]
    /\ allocation' = [allocation EXCEPT ![locked][Current] = @ - 1]
    /\ UNCHANGED <<clientVars, cpuVars, waiting, threadVars, ddProcs, request, locked, planVars,
                   tables, fault>>

\* Mutant: the memory is not told
TellServersButMemory(c) == Reply(c, "ERROR") /\ UNCHANGED tables

\* The memory is sent CAPI_TERM and the client an error
TellServers(c) == Reply(c, "ERROR") /\ tables' = tables \ {c}

\* Another thread has the process, or will have
InUse(c) ==
    \/ proc[c] \notin {"BLOCKED", "SUSP_BLOCKED"}
    \/ \E s \in Sems : c \in Range(waiting[s]) \/ semProc[s] = c \/ asking[c][s] # 0
    \/ \E d \in Devices : c \in Range(device[d])

\* The process is freed, and a slot is posted even for one that had given its own back when
\* it was suspended
KillDestroy ==
    /\ Terminating /\ Pending = {}
    /\ TellServers(locked)
    /\ DDForget(locked) /\ UNCHANGED available
    /\ Becomes(locked, "none")
    /\ slots' = slots + 1
    /\ overposted' = IF proc[locked] = "SUSP_BLOCKED" THEN overposted + 1 ELSE overposted
    /\ IF InUse(locked) THEN fault' = "freed" /\ UNCHANGED locked
                        ELSE locked' \in Outcomes' /\ UNCHANGED fault
    /\ UNCHANGED <<cpuVars, semVars, threadVars, blocked, device>>

-----------------------------------------------------------------------------
ClientStep(c) == Return(c) \/ HostStep(c) \/ MemoryPetition(c)

KernelStep(c) ==
    \/ Connect(c) \/ Admit(c) \/ Dispatch(c)
    \/ SemInit(c) \/ SemFails(c) \/ SemWaitPass(c) \/ SemWaitInstant(c)
    \/ SemWaitEnqueue(c) \/ SemWaitBlock(c) \/ \E s \in Sems : SemWaitRequested(c, s)
    \/ SemPost(c) \/ SemPostRelease(c) \/ SemDestroy(c)
    \/ CallIO(c) \/ RelayPetition(c) \/ RelayTerminate(c)
    \/ TerminateProcess(c) \/ TerminateLeave(c)

SemThread(s) == SemTest(s) \/ SemTake(s) \/ SemRead(s) \/ SemWakeUp(s) \/ SemAllocated(s)

Detector == Search \/ KillWithdraw \/ KillPost \/ KillDestroy

\* Until the code's behaviour is not defined
Next ==
    /\ fault = "no"
    /\ \/ \E c \in Procs : ClientStep(c) \/ KernelStep(c)
       \/ \E s \in Sems : SemThread(s)
       \/ \E d \in Devices : IORead(d) \/ IOWakeUp(d)
       \/ ReportOnForgotten \/ Suspend \/ Detector

Spec == Init /\ [][Next]_vars

\* The programs are finite: it is enough that something happens while something can
FairSpec == Spec /\ WF_vars(Next)

-----------------------------------------------------------------------------
(* Properties *)

(* A call has one answer: the petition handlers, the CPU that dispatches a process and the
   detector never answer the same call twice (matelib.c takes the next packet of the socket
   for the answer of its next call). The exception is a process that the detector chose
   by an outdated wait and frees while another thread has it: one that a CPU has answered
   since is sent the error all the same (kernel.c:181-182, deadlockResolver.c:128-130). *)
OneAnswerPerCall ==
    \A c \in Procs : inbox[c] # <<>> =>
        \/ Len(inbox[c]) = 1 /\ ~Ended(c) /\ ~due[c]
        \/ fault = "freed" /\ locked = c

\* The error of a semaphore that is not there would close the client's instance and leave its
\* process in the kernel
WaitsKnown == \A c \in Procs : Calls(c, "wait") => Known(Arg(c))

(* Nobody waits for a semaphore that is not there, and when the main thread of a test
   destroys one nobody waits for it and it has at least the units it was created with,
   whoever the detector has terminated: semDestroy frees the semaphore without looking.
   Who still has it in the matrices is about to be told, or to leave. *)
SemaphoresOutliveUse ==
    /\ WaitsKnown
    /\ \A c \in Procs : Calls(c, "destroy") =>
          LET s == Arg(c)
          IN  /\ Known(s) /\ waiting[s] = <<>>
              /\ \E k \in DOMAIN Program(c) :
                    Program(c)[k][1] = "semInit" /\ Program(c)[k][2] = s
                        /\ units[s] >= Program(c)[k][3]
              /\ \A q \in Procs : allocation[q][s] # 0 \/ request[q][s] # 0 =>
                    semProc[s] = q \/ step[q] = "leave"

(* The search finds processes stuck and nobody to terminate, and is made for ever with
   dd->mutex taken, only while a post has still to be told and its semaphore has less than
   nothing available (petitionHandlers.c:106-108). *)
NobodyOnlyUntold ==
    Stuck # {} /\ Victims = {} =>
        \E c \in Procs : step[c] = "release" /\ available[Arg(c)] < 0

AllEnded == \A c \in Procs : Ended(c)

Quiet ==
    /\ \A c \in Procs : step[c] = "none" /\ asking[c] = NoRow
    /\ \A s \in Sems : semStep[s] = "test"
    /\ DetectorAsleep /\ fault = "no"

(* When every client of a test has ended, however it ended, and no thread has anything left
   to do, neither the kernel nor the memory has anything of it left. The slots of
   sem_multiprogram are back too, and one more for each victim that was suspended
   (deadlockResolver.c:133 posts it all the same) and each process that was suspended
   when its wait was over (kernel.c:241, :284). *)
NothingLeft ==
    AllEnded /\ Quiet =>
        /\ In("none") = Procs /\ blocked = <<>>
        /\ \A s \in Sems : waiting[s] = <<>>
        /\ ddProcs = {} /\ tables = {}
        /\ slots = Tests[test].slots + overposted
        /\ idle = Tests[test].cpus

PostsLater(c, s) == \E k \in pc[c] .. Len(Program(c)) : Program(c)[k] = <<"post", s, 0>>
Waits(c, s) == \E k \in DOMAIN Program(c) : Program(c)[k] = <<"wait", s, 0>>

\* c and others wait, each for a semaphore that only they would post
Deadlocked(c) ==
    \E D \in SUBSET Procs :
        /\ c \in D
        /\ \A q \in D : \E s \in Sems :
              q \in Range(waiting[s]) /\ \A r \in Procs : PostsLater(r, s) => r \in D

(* A client that a search would terminate is deadlocked. There are three exceptions. It may
   wait for a semaphore that a client posts that never waits for it: the matrices know the
   holders of a semaphore and not who posts it (the smirnoffc2 of BatallaPorNordelta). The
   semaphore's thread may have taken it already, which the detector is told last
   (kernel.c:306). And the detector may have been told of the end of its wait before the
   wait (petitionHandlers.c:47-54), which it takes for a wait of its own unit. *)
VictimsDeadlocked ==
    \A c \in Victims :
        \/ Deadlocked(c)
        \/ \E s \in Sems, r \in Procs :
              c \in Range(waiting[s]) /\ PostsLater(r, s) /\ ~Waits(r, s)
        \/ \E s \in Sems : semProc[s] = c \/ request[c][s] < 0

\* Taken from its semaphore before it was BLOCKED, it is in no queue (petitionHandlers.c:47-49)
Lost(c) ==
    /\ proc[c] \in {"BLOCKED", "SUSP_BLOCKED"}
    /\ \A s \in Sems : c \notin Range(waiting[s]) /\ semProc[s] # c
    /\ \A d \in Devices : c \notin Range(device[d])
    /\ c # locked

\* c waits for a semaphore, which q would post, or for q to end
WaitsOn(c, q) ==
    \/ \E s \in DOMAIN units : c \in Range(waiting[s]) /\ units[s] = 0 /\ PostsLater(q, s)
    \/ Calls(c, "join") /\ Arg(c) = q /\ ~Ended(q)

\* Nobody is left to post the semaphore that c waits for
WaitsInVain(c) ==
    \E s \in DOMAIN units :
        c \in Range(waiting[s]) /\ units[s] = 0 /\ \A q \in Procs \ {c} : ~PostsLater(q, s)

\* c waits for one that is lost or waits in vain, or for one that waits for such a one
HeldUp(c) ==
    \A S \in SUBSET Procs :
        c \in S /\ (\A q \in S, r \in Procs : WaitsOn(q, r) => r \in S) =>
            \E q \in S : Lost(q) \/ WaitsInVain(q)

\* Processes that wait have every slot, and nobody is new for the medium term to suspend one
SlotsHeldByBlocked ==
    /\ slots = 0 /\ In("SUSP_READY") # {}
    /\ In("NEW") = {} /\ In("READY") = {} /\ In("EXEC") = {}

(* Every client of every test ends, with its last call or with the error of the detector,
   unless the code's behaviour has become undefined or the detector searches for ever. There
   are two exceptions: who waits, at first or second hand, for a process that is in no queue
   any more or for a post that nobody will make (the first carpincho of PruebaBase, when the
   second has posted before the semaphore was there), and a kernel whose slots are all with
   blocked processes while the one that would post for them stays suspended. *)
ClientsEnd ==
    <>[](\/ fault # "no" \/ locked = Nobody \/ SlotsHeldByBlocked
         \/ \A c \in Procs : Ended(c) \/ HeldUp(c))

(* What kernel.c:89-90 says of the unsuspender, that it takes the processes in
   SUSPENDED-READY to READY. *)
SuspendedReadyAdmitted ==
    \A c \in Procs : proc[c] = "SUSP_READY" ~> proc[c] # "SUSP_READY"

=============================================================================
