-------------------------- MODULE CarpinchosProofs --------------------------
(***************************************************************************)
(* Proofs that a call of a client is answered once, and that the           *)
(* detector's search is exact on the matrices it meets, whatever the       *)
(* programs, the semaphores, the devices, the CPUs and the slots.          *)
(***************************************************************************)
EXTENDS Carpinchos, DeadlockSearchProofs

Answers == {"OK", "ERROR"}

\* The states of a process from the petition that put it there to its dispatch
Parked == {"NEW", "READY", "BLOCKED", "SUSP_BLOCKED", "SUSP_READY"}
States == Parked \cup {"none", "EXEC"}
Steps == {"none", "instant", "block", "release", "leave"}

ClientTypes ==
    /\ test \in DOMAIN Tests
    /\ pc \in [Procs -> Nat \ {0}]
    /\ due \in [Procs -> BOOLEAN]
    /\ inbox \in [Procs -> Seq(Answers)]

ProcTypes ==
    /\ proc \in [Procs -> States]
    /\ step \in [Procs -> Steps]
    /\ asking \in [Procs -> [Sems -> Nat]]

QueueTypes ==
    /\ blocked \in Seq(Procs)
    /\ waiting \in [Sems -> Seq(Procs)]
    /\ device \in [Devices -> Seq(Procs)]

ThreadTypes ==
    /\ semStep \in [Sems -> {"test", "take", "read", "ready", "suspReady", "report"}]
    /\ semProc \in [Sems -> Procs \cup {NoProc}]
    /\ ioStep \in [Devices -> {"sleep", "ready", "suspReady", "lost"}]
    /\ locked \in Procs \cup {NoProc, Nobody}

\* A thread has a process from its take to its report
Hands ==
    /\ \A s \in Sems : semProc[s] = NoProc <=> semStep[s] \in {"test", "take"}
    /\ \A d \in Devices : ioStep[d] # "sleep" => device[d] # <<>>

TypeInv == ClientTypes /\ ProcTypes /\ QueueTypes /\ ThreadTypes /\ Hands /\ Matrices

-----------------------------------------------------------------------------
(* The types of the variables, which every step keeps *)

(* A function stays one when an entry of it is set. *)
LEMMA EntryType ==
    ASSUME NEW D, NEW R, NEW f \in [D -> R], NEW x, NEW v, x \in D => v \in R
    PROVE  [f EXCEPT ![x] = v] \in [D -> R]
OBVIOUS

(* A matrix stays one when an entry of it is set. *)
LEMMA RowEntryType ==
    ASSUME NEW D, NEW S, NEW R, NEW f \in [D -> [S -> R]], NEW x, NEW y, NEW v,
           x \in D /\ y \in S => v \in R
    PROVE  [f EXCEPT ![x][y] = v] \in [D -> [S -> R]]
<1>1. CASE x \in D
  <2>1. [f[x] EXCEPT ![y] = v] \in [S -> R]
    BY <1>1, EntryType
  <2> QED
    BY <1>1, <2>1
<1>2. CASE x \notin D
  BY <1>2
<1> QED
  BY <1>1, <1>2

(* The program of a client is a sequence, and a call it makes is one of it. *)
LEMMA ProgramCalls ==
    ASSUME ClientTypes, NEW c \in Procs
    PROVE  /\ Len(Program(c)) \in Nat /\ DOMAIN Program(c) = 1 .. Len(Program(c))
           /\ ~Ended(c) => pc[c] \in DOMAIN Program(c)
           /\ Calls(c, "semInit") => Call(c)[3] \in Nat
           /\ Call(c)[1] = "wait" /\ ~Ended(c) => Arg(c) \in Sems
           /\ Calls(c, "io") => Arg(c) \in Devices
<1>1. Len(Program(c)) \in Nat /\ DOMAIN Program(c) = 1 .. Len(Program(c))
  BY TestsAssumption DEF ClientTypes, Program
<1>2. ~Ended(c) => pc[c] \in DOMAIN Program(c)
  BY <1>1 DEF Ended, ClientTypes
<1>3. Calls(c, "semInit") => Call(c)[3] \in Nat
  BY <1>2, TestsAssumption DEF ClientTypes, Calls, Call, Program
<1>4. Call(c)[1] = "wait" /\ ~Ended(c) => Arg(c) \in Sems
  BY <1>2, TestsAssumption DEF ClientTypes, Call, Program, Arg
<1>5. Calls(c, "io") => Arg(c) \in Devices
  BY <1>2, TestsAssumption DEF ClientTypes, Calls, Call, Program, Arg
<1> QED
  BY <1>1, <1>2, <1>3, <1>4, <1>5

(* A closed instance goes on at a call of the program or at its end. *)
LEMMA AfterNullType ==
    ASSUME ClientTypes, NEW c \in Procs
    PROVE  AfterNull(c) \in Nat \ {0}
<1> DEFINE places == {Len(Program(c)) + 1} \cup
                     {k \in pc[c] + 1 .. Len(Program(c)) :
                         Program(c)[k][1] \in HostCalls \cup {"init"}}
<1>1. pc[c] \in Nat \ {0} /\ Len(Program(c)) \in Nat
  BY ProgramCalls DEF ClientTypes
<1>2. places \subseteq Nat \ {0} /\ places # {}
  BY <1>1
<1>3. AfterNull(c) = Min(places)
  BY DEF AfterNull
<1> HIDE DEF places
<1>4. Min(places) \in places
  BY <1>2, MinMember
<1> QED
  BY <1>2, <1>3, <1>4

(* What a server does to the client: it takes its petition, or answers it, or both. *)
LEMMA ServedTypes ==
    ASSUME ClientTypes, NEW c \in Procs
    PROVE  /\ \A a \in Answers : Take(c, a) => ClientTypes'
           /\ \A a \in Answers : Reply(c, a) => ClientTypes'
           /\ TakeSilently(c) => ClientTypes'
<1>1. ASSUME NEW a \in Answers PROVE [inbox EXCEPT ![c] = Append(@, a)] \in [Procs -> Seq(Answers)]
  BY DEF ClientTypes
<1>2. [due EXCEPT ![c] = FALSE] \in [Procs -> BOOLEAN]
  BY DEF ClientTypes
<1> QED
  BY <1>1, <1>2 DEF ClientTypes, Take, TakeSilently, Reply, Taken, Answer

(* A step of the library or of the memory it talks to. *)
LEMMA ClientTypeStep == ASSUME TypeInv, NEW c \in Procs, ClientStep(c) PROVE TypeInv'
<1>1. UNCHANGED <<cpuVars, semVars, threadVars, ddVars, locked, planVars>>
  BY DEF ClientStep, Return, HostStep, MemoryPetition
<1>2. ProcTypes' /\ QueueTypes' /\ ThreadTypes' /\ Hands' /\ Matrices'
  BY <1>1 DEF TypeInv, ProcTypes, QueueTypes, ThreadTypes, Hands, Matrices, cpuVars, semVars,
              threadVars, ddVars, planVars
<1>3. CASE Return(c)
  <2>1. AfterNull(c) \in Nat \ {0} /\ pc[c] + 1 \in Nat \ {0}
    BY AfterNullType DEF TypeInv, ClientTypes
  <2>2. pc' \in [Procs -> Nat \ {0}]
    BY <1>3, <2>1 DEF Return, TypeInv, ClientTypes
  <2>3. Tail(inbox[c]) \in Seq(Answers)
    BY <1>3, HeadTailProperties DEF Return, TypeInv, ClientTypes
  <2>4. inbox' \in [Procs -> Seq(Answers)] /\ due' \in [Procs -> BOOLEAN] /\ test' = test
    BY <1>3, <2>3 DEF Return, TypeInv, ClientTypes
  <2> QED
    BY <1>2, <2>2, <2>4 DEF TypeInv, ClientTypes
<1>4. CASE HostStep(c)
  <2>1. pc' \in [Procs -> Nat \ {0}]
    BY <1>4 DEF HostStep, TypeInv, ClientTypes
  <2> QED
    BY <1>2, <1>4, <2>1 DEF HostStep, TypeInv, ClientTypes
<1>5. CASE MemoryPetition(c)
  BY <1>2, <1>5, ServedTypes DEF MemoryPetition, TypeInv, Answers
<1> QED
  BY <1>3, <1>4, <1>5 DEF ClientStep

(* What a step leaves alone keeps its types. *)
LEMMA Untouched ==
    ASSUME TypeInv
    PROVE  /\ UNCHANGED clientVars => ClientTypes'
           /\ UNCHANGED <<proc, cpuVars>> => ProcTypes'
           /\ UNCHANGED <<blocked, waiting, device>> => QueueTypes'
           /\ UNCHANGED <<threadVars, locked>> => ThreadTypes'
           /\ UNCHANGED <<semStep, semProc, ioStep, device>> => Hands'
           /\ UNCHANGED ddVars => Matrices'
BY DEF TypeInv, ClientTypes, ProcTypes, QueueTypes, ThreadTypes, Hands, Matrices, clientVars,
       cpuVars, threadVars, ddVars

(* A process that changes its state, and a CPU that goes on with its petition. *)
LEMMA StateTypes ==
    ASSUME ProcTypes, NEW c
    PROVE  /\ \A t \in States : [proc EXCEPT ![c] = t] \in [Procs -> States]
           /\ \A t \in Steps : [step EXCEPT ![c] = t] \in [Procs -> Steps]
BY EntryType DEF ProcTypes

(* A client that connects, is admitted or dispatched, or makes a petition that changes
   neither a semaphore nor what the detector knows. *)
LEMMA PlainTypeStep ==
    ASSUME TypeInv, NEW c \in Procs,
           \/ Connect(c) \/ Admit(c) \/ Dispatch(c) \/ SemFails(c) \/ SemWaitPass(c)
           \/ SemPost(c) \/ RelayPetition(c) \/ RelayTerminate(c) \/ TerminateProcess(c)
    PROVE  TypeInv'
<1> USE DEF cpuVars, semVars, threadVars, ddVars, planVars
<1>1. UNCHANGED <<asking, waiting, device, blocked, threadVars, locked, available, allocation,
                  request>>
  BY DEF Connect, Admit, Dispatch, SemFails, PetitionFails, SemWaitPass, SemPost,
         RelayPetition, RelayTerminate, TerminateProcess
<1>2. QueueTypes' /\ ThreadTypes' /\ Hands'
  BY <1>1, Untouched
<1>3. Matrices'
  BY <1>1 DEF Connect, Admit, Dispatch, SemFails, PetitionFails, SemWaitPass, SemPost,
              RelayPetition, RelayTerminate, TerminateProcess, TypeInv, Matrices
<1>4. ClientTypes'
  <2>1. CASE Admit(c)
    BY <2>1, Untouched DEF Admit, clientVars
  <2>2. CASE ~Admit(c)
    <3>1. TakeSilently(c) \/ \E a \in Answers : Take(c, a) \/ Reply(c, a)
      BY <2>2 DEF Connect, Dispatch, SemFails, PetitionFails, SemWaitPass, SemPost,
                  RelayPetition, RelayTerminate, TerminateProcess, Answers
    <3> QED
      BY <3>1, ServedTypes DEF TypeInv
  <2> QED
    BY <2>1, <2>2
<1>5. ProcTypes'
  <2>1. \/ proc' = proc
        \/ \E t \in States : proc' = [proc EXCEPT ![c] = t]
    BY DEF Connect, Admit, Dispatch, SemFails, PetitionFails, SemWaitPass, SemPost,
           RelayPetition, RelayTerminate, TerminateProcess, Becomes, States, Parked
  <2>2. \/ step' = step
        \/ \E t \in Steps : step' = [step EXCEPT ![c] = t]
    BY DEF Connect, Admit, Dispatch, SemFails, PetitionFails, SemWaitPass, SemPost,
           RelayPetition, RelayTerminate, TerminateProcess, Goes, Steps
  <2> QED
    BY <1>1, <2>1, <2>2, StateTypes DEF TypeInv, ProcTypes
<1> QED
  BY <1>2, <1>3, <1>4, <1>5 DEF TypeInv

(* A petition that only the detector has still to be told of, and the creation and the
   destruction of a semaphore. *)
LEMMA SemTypeStep ==
    ASSUME TypeInv, NEW c \in Procs,
           \/ SemInit(c) \/ SemWaitInstant(c) \/ SemPostRelease(c) \/ SemDestroy(c)
    PROVE  TypeInv'
<1> USE DEF cpuVars, semVars, threadVars, ddVars, planVars
<1> DEFINE s == Arg(c)
<1>1. UNCHANGED <<asking, device, blocked, threadVars, locked, proc, ddProcs>>
  BY DEF SemInit, SemWaitInstant, SemPostRelease, SemDestroy
<1>2. ThreadTypes' /\ Hands'
  BY <1>1, Untouched
<1>3. ClientTypes'
  <2>1. \E a \in Answers : Take(c, a) \/ Reply(c, a)
    BY DEF SemInit, SemWaitInstant, SemPostRelease, SemDestroy, Answers
  <2> QED
    BY <2>1, ServedTypes DEF TypeInv
<1>4. ProcTypes'
  <2>1. \/ step' = step
        \/ \E t \in Steps : step' = [step EXCEPT ![c] = t]
    BY DEF SemInit, SemWaitInstant, SemPostRelease, SemDestroy, Goes, Steps
  <2> QED
    BY <1>1, <2>1, StateTypes DEF TypeInv, ProcTypes
<1>5. QueueTypes'
  <2>1. waiting' = waiting \/ waiting' = [waiting EXCEPT ![s] = <<>>]
    BY DEF SemInit, SemWaitInstant, SemPostRelease, SemDestroy
  <2> HIDE DEF s
  <2>2. [waiting EXCEPT ![s] = <<>>] \in [Sems -> Seq(Procs)]
    <3>1. <<>> \in Seq(Procs)
      OBVIOUS
    <3> QED
      BY <3>1, EntryType DEF TypeInv, QueueTypes
  <2> QED
    BY <1>1, <2>1, <2>2 DEF TypeInv, QueueTypes
<1>6. Matrices'
  <2> DEFINE n == IF allocation[c][s] = 0 THEN 0 ELSE allocation[c][s] - 1
  <2>a. /\ ddProcs \subseteq Procs
        /\ available \in [Sems -> Int]
        /\ allocation \in [Procs -> [Sems -> Nat]]
        /\ request \in [Procs -> [Sems -> Int]]
        /\ s \in Sems => /\ available[s] - 1 \in Int /\ available[s] + 1 \in Int
                         /\ allocation[c][s] + 1 \in Nat /\ n \in Nat
    <3> HIDE DEF s
    <3>1. /\ ddProcs \subseteq Procs
          /\ available \in [Sems -> Int]
          /\ allocation \in [Procs -> [Sems -> Nat]]
          /\ request \in [Procs -> [Sems -> Int]]
      BY DEF TypeInv, Matrices
    <3>2. s \in Sems => available[s] \in Int /\ allocation[c][s] \in Nat
      BY <3>1
    <3>3. ASSUME s \in Sems
          PROVE  /\ available[s] - 1 \in Int /\ available[s] + 1 \in Int
                 /\ allocation[c][s] + 1 \in Nat /\ n \in Nat
      BY <3>2, <3>3
    <3> QED
      BY <3>1, <3>3
  <2>1. CASE SemInit(c)
    <3>1. Call(c)[3] \in Int
      BY <2>1, ProgramCalls DEF SemInit, Serves, TypeInv
    <3>2. /\ UNCHANGED <<ddProcs, allocation, request>>
          /\ available' = available \/ available' = [available EXCEPT ![s] = Call(c)[3]]
      BY <2>1 DEF SemInit
    <3> HIDE DEF s, n
    <3>3. [available EXCEPT ![s] = Call(c)[3]] \in [Sems -> Int]
      BY <2>a, <3>1, EntryType
    <3> QED
      BY <2>a, <3>2, <3>3 DEF Matrices
  <2>2. CASE SemWaitInstant(c)
    <3>1. /\ UNCHANGED <<ddProcs, request>>
          /\ available' = [available EXCEPT ![s] = available[s] - 1]
          /\ allocation' = [allocation EXCEPT ![c][s] = allocation[c][s] + 1]
      BY <2>2 DEF SemWaitInstant
    <3> HIDE DEF s, n
    <3>2. available' \in [Sems -> Int]
      BY <2>a, <3>1, EntryType
    <3>3. allocation' \in [Procs -> [Sems -> Nat]]
      BY <2>a, <3>1, RowEntryType
    <3> QED
      BY <2>a, <3>1, <3>2, <3>3 DEF Matrices
  <2>3. CASE SemPostRelease(c)
    <3>1. /\ UNCHANGED <<ddProcs, request>>
          /\ available' = [available EXCEPT ![s] = available[s] + 1]
          /\ allocation' = [allocation EXCEPT ![c][s] = n]
      BY <2>3 DEF SemPostRelease
    <3> HIDE DEF s, n
    <3>2. available' \in [Sems -> Int]
      BY <2>a, <3>1, EntryType
    <3>3. allocation' \in [Procs -> [Sems -> Nat]]
      BY <2>a, <3>1, RowEntryType
    <3> QED
      BY <2>a, <3>1, <3>2, <3>3 DEF Matrices
  <2>4. CASE SemDestroy(c)
    <3>1. /\ UNCHANGED ddProcs
          /\ available' = [available EXCEPT ![s] = 0]
          /\ allocation' = [q \in Procs |-> [allocation[q] EXCEPT ![s] = 0]]
          /\ request' = [q \in Procs |-> [request[q] EXCEPT ![s] = 0]]
      BY <2>4 DEF SemDestroy, WithoutColumn
    <3> HIDE DEF s, n
    <3>2. available' \in [Sems -> Int]
      BY <2>a, <3>1, EntryType
    <3>3. ASSUME NEW q \in Procs
          PROVE  /\ [allocation[q] EXCEPT ![s] = 0] \in [Sems -> Nat]
                 /\ [request[q] EXCEPT ![s] = 0] \in [Sems -> Int]
      BY <2>a, EntryType
    <3> QED
      BY <2>a, <3>1, <3>2, <3>3 DEF Matrices
  <2> QED
    BY <2>1, <2>2, <2>3, <2>4
<1> QED
  BY <1>2, <1>3, <1>4, <1>5, <1>6 DEF TypeInv

(* A process that blocks is put in blockedQueue, one that may go on is taken out. *)
LEMMA BlockTypes ==
    ASSUME TypeInv, NEW c \in Procs
    PROVE  /\ Block(c) => proc' \in [Procs -> States] /\ blocked' \in Seq(Procs)
           /\ \A f : WakeUp(c, f) => proc' \in [Procs -> States] /\ blocked' \in Seq(Procs)
<1>1. Append(blocked, c) \in Seq(Procs) /\ RemoveFirst(blocked, c) \in Seq(Procs)
  BY RemoveFirstSeq DEF TypeInv, QueueTypes
<1>2. \A t \in States : [proc EXCEPT ![c] = t] \in [Procs -> States]
  BY StateTypes DEF TypeInv
<1>3. {"BLOCKED", "READY", "SUSP_READY"} \subseteq States
  BY DEF States, Parked
<1>4. blocked \in Seq(Procs)
  BY DEF TypeInv, QueueTypes
<1> QED
  BY <1>1, <1>2, <1>3, <1>4 DEF Block, WakeUp, Becomes

(* A process that waits for a semaphore or for a device, and what its CPU tells. *)
LEMMA WaitTypeStep ==
    ASSUME TypeInv, NEW c \in Procs,
           \/ SemWaitEnqueue(c) \/ SemWaitBlock(c) \/ CallIO(c)
           \/ \E s \in Sems : SemWaitRequested(c, s)
    PROVE  TypeInv'
<1> USE DEF cpuVars, semVars, threadVars, ddVars, planVars
<1>a. \A t \in Steps : [step EXCEPT ![c] = t] \in [Procs -> Steps]
  BY StateTypes DEF TypeInv
<1>b. "block" \in Steps /\ "none" \in Steps
  BY DEF Steps
<1>1. CASE SemWaitEnqueue(c)
  <2> DEFINE s == Arg(c)
  <2>1. UNCHANGED <<proc, asking, blocked, device, threadVars, locked, ddVars>>
    BY <1>1 DEF SemWaitEnqueue
  <2>2. /\ waiting' = [waiting EXCEPT ![s] = Append(waiting[s], c)]
        /\ step' = [step EXCEPT ![c] = "block"]
        /\ TakeSilently(c)
    BY <1>1 DEF SemWaitEnqueue, Goes
  <2> HIDE DEF s
  <2>3. s \in Sems => Append(waiting[s], c) \in Seq(Procs)
    BY DEF TypeInv, QueueTypes
  <2>4. waiting' \in [Sems -> Seq(Procs)]
    BY <2>2, <2>3, EntryType DEF TypeInv, QueueTypes
  <2>5. ClientTypes'
    BY <2>2, ServedTypes DEF TypeInv
  <2>6. ProcTypes' /\ QueueTypes'
    BY <1>a, <1>b, <2>1, <2>2, <2>4 DEF TypeInv, ProcTypes, QueueTypes
  <2> QED
    BY <2>1, <2>5, <2>6, Untouched DEF TypeInv
<1>2. CASE SemWaitBlock(c)
  <2> DEFINE s == Arg(c)
  <2>1. UNCHANGED <<clientVars, waiting, device, threadVars, locked, ddVars>>
    BY <1>2 DEF SemWaitBlock
  <2>2. /\ asking' = [asking EXCEPT ![c][s] = asking[c][s] + 1]
        /\ step' = [step EXCEPT ![c] = "none"]
        /\ Block(c)
    BY <1>2 DEF SemWaitBlock, Goes
  <2> HIDE DEF s
  <2>3. asking' \in [Procs -> [Sems -> Nat]]
    <3>1. asking \in [Procs -> [Sems -> Nat]]
      BY DEF TypeInv, ProcTypes
    <3>2. s \in Sems => asking[c][s] \in Nat
      BY <3>1
    <3>3. c \in Procs /\ s \in Sems => asking[c][s] + 1 \in Nat
      BY <3>2
    <3>4. [asking EXCEPT ![c][s] = asking[c][s] + 1] \in [Procs -> [Sems -> Nat]]
      BY <3>1, <3>3, RowEntryType
    <3> QED
      BY <2>2, <3>4
  <2>4. ProcTypes' /\ QueueTypes'
    BY <1>a, <1>b, <2>1, <2>2, <2>3, BlockTypes DEF TypeInv, ProcTypes, QueueTypes
  <2> QED
    BY <2>1, <2>4, Untouched DEF TypeInv
<1>3. CASE CallIO(c)
  <2> DEFINE d == Arg(c)
  <2>2. UNCHANGED <<step, asking, waiting, threadVars, locked, ddVars>>
    BY <1>3 DEF CallIO
  <2>3. /\ device' = [device EXCEPT ![d] = Append(device[d], c)]
        /\ Block(c) /\ TakeSilently(c)
    BY <1>3 DEF CallIO
  <2> HIDE DEF d
  <2>4. d \in Devices => Append(device[d], c) \in Seq(Procs) /\ Append(device[d], c) # <<>>
    BY DEF TypeInv, QueueTypes
  <2>5. device' \in [Devices -> Seq(Procs)]
    BY <2>3, <2>4, EntryType DEF TypeInv, QueueTypes
  <2>6. ClientTypes'
    BY <2>3, ServedTypes DEF TypeInv
  <2>7. ProcTypes' /\ QueueTypes'
    BY <2>2, <2>3, <2>5, BlockTypes DEF TypeInv, ProcTypes, QueueTypes
  <2>8. Hands'
    <3>1. ASSUME NEW e \in Devices, ioStep'[e] # "sleep" PROVE device'[e] # <<>>
      <4>1. device[e] # <<>>
        BY <2>2, <3>1 DEF TypeInv, Hands
      <4> QED
        BY <2>3, <2>4, <4>1 DEF TypeInv, QueueTypes
    <3> QED
      BY <2>2, <3>1 DEF TypeInv, Hands
  <2> QED
    BY <2>2, <2>6, <2>7, <2>8, Untouched DEF TypeInv
<1>4. ASSUME NEW s \in Sems, SemWaitRequested(c, s) PROVE TypeInv'
  <2>1. /\ UNCHANGED <<clientVars, proc, step, blocked, waiting, device, threadVars, locked>>
        /\ UNCHANGED <<ddProcs, available, allocation>>
        /\ asking[c][s] > 0
        /\ request' = [request EXCEPT ![c][s] = request[c][s] + 1]
        /\ asking' = [asking EXCEPT ![c][s] = asking[c][s] - 1]
    BY <1>4 DEF SemWaitRequested
  <2>2. asking[c][s] - 1 \in Nat /\ request[c][s] + 1 \in Int
    <3>1. asking[c][s] \in Nat /\ request[c][s] \in Int
      BY DEF TypeInv, ProcTypes, Matrices
    <3> QED
      BY <2>1, <3>1
  <2>3. asking' \in [Procs -> [Sems -> Nat]]
    BY <2>1, <2>2, RowEntryType DEF TypeInv, ProcTypes
  <2>4. request' \in [Procs -> [Sems -> Int]]
    BY <2>1, <2>2, RowEntryType DEF TypeInv, Matrices
  <2>5. ProcTypes' /\ Matrices'
    BY <2>1, <2>3, <2>4 DEF TypeInv, ProcTypes, Matrices
  <2> QED
    BY <2>1, <2>5, Untouched DEF TypeInv
<1> QED
  BY <1>1, <1>2, <1>3, <1>4

(* The detector forgets a process, which is one no more. *)
LEMMA ForgetTypes ==
    ASSUME TypeInv, NEW c \in Procs, DDForget(c), UNCHANGED available
    PROVE  Matrices'
<1>1. NoRow \in [Sems -> Nat] /\ NoRow \in [Sems -> Int]
  BY DEF NoRow
<1> QED
  BY <1>1, EntryType DEF DDForget, TypeInv, Matrices

(* The end of a process. *)
LEMMA LeaveTypeStep ==
    ASSUME TypeInv, NEW c \in Procs, TerminateLeave(c) PROVE TypeInv'
<1> USE DEF semVars, threadVars
<1>1. UNCHANGED <<clientVars, asking, waiting, threadVars, locked, blocked, device>>
  BY DEF TerminateLeave
<1>2. Matrices'
  BY ForgetTypes DEF TerminateLeave
<1>3. ProcTypes'
  <2>1. proc' = [proc EXCEPT ![c] = "none"] /\ step' = [step EXCEPT ![c] = "none"]
    BY DEF TerminateLeave, Becomes, Goes
  <2>2. "none" \in States /\ "none" \in Steps
    BY DEF States, Steps
  <2> QED
    BY <1>1, <2>1, <2>2, StateTypes DEF TypeInv, ProcTypes
<1> QED
  BY <1>1, <1>2, <1>3, Untouched DEF TypeInv

(* A step of the kernel for a client. *)
LEMMA KernelTypeStep == ASSUME TypeInv, NEW c \in Procs, KernelStep(c) PROVE TypeInv'
BY PlainTypeStep, SemTypeStep, WaitTypeStep, LeaveTypeStep DEF KernelStep

(* A step of a semaphore's thread. *)
LEMMA SemThreadTypeStep == ASSUME TypeInv, NEW s \in Sems, SemThread(s) PROVE TypeInv'
<1> USE DEF cpuVars, planVars, ddVars
<1>a. SemTest(s) \/ SemTake(s) \/ SemRead(s) \/ SemWakeUp(s) \/ SemAllocated(s)
  BY DEF SemThread
<1>1. UNCHANGED <<clientVars, cpuVars, device, ioStep, locked>>
  BY <1>a DEF SemTest, SemTake, SemRead, SemWakeUp, SemAllocated
<1>2. ClientTypes'
  BY <1>1, Untouched
<1>b. /\ semStep \in [Sems -> {"test", "take", "read", "ready", "suspReady", "report"}]
      /\ semProc \in [Sems -> Procs \cup {NoProc}] /\ NoProc \notin Procs
      /\ \A r \in Sems : semProc[r] = NoProc <=> semStep[r] \in {"test", "take"}
      /\ \A d \in Devices : ioStep[d] # "sleep" => device[d] # <<>>
      /\ waiting[s] \in Seq(Procs)
  BY NobodyAssumption DEF TypeInv, ThreadTypes, Hands, QueueTypes
<1>3. CASE SemTest(s)
  <2>1. UNCHANGED <<proc, blocked, waiting, semProc, ddVars>>
    BY <1>3 DEF SemTest, semVars
  <2>2. semStep[s] = "test" /\ semStep' = [semStep EXCEPT ![s] = "take"]
    BY <1>3 DEF SemTest, Moves
  <2>3. ThreadTypes' /\ Hands'
    BY <1>1, <1>b, <2>1, <2>2 DEF TypeInv, ThreadTypes, Hands
  <2> QED
    BY <1>1, <1>2, <2>1, <2>3, Untouched DEF TypeInv
<1>4. CASE SemTake(s)
  <2>1. UNCHANGED <<proc, blocked, ddVars>> /\ semStep[s] = "take"
    BY <1>4 DEF SemTake
  <2>2. CASE waiting[s] = <<>>
    <3>1. UNCHANGED <<waiting, semStep, semProc>>
      BY <1>4, <2>2 DEF SemTake
    <3>2. UNCHANGED threadVars
      BY <1>1, <3>1 DEF threadVars
    <3> QED
      BY <1>1, <1>2, <2>1, <3>1, <3>2, Untouched DEF TypeInv
  <2>3. CASE waiting[s] # <<>>
    <3>1. /\ semProc' = [semProc EXCEPT ![s] = Head(waiting[s])]
          /\ waiting' = [waiting EXCEPT ![s] = Tail(waiting[s])]
          /\ semStep' = [semStep EXCEPT ![s] = "read"]
      BY <1>4, <2>3 DEF SemTake, Moves
    <3>2. Head(waiting[s]) \in Procs /\ Tail(waiting[s]) \in Seq(Procs)
      BY <1>b, <2>3, HeadTailRange
    <3>3. waiting' \in [Sems -> Seq(Procs)]
      BY <3>1, <3>2 DEF TypeInv, QueueTypes
    <3>4. QueueTypes'
      BY <1>1, <2>1, <3>3 DEF TypeInv, QueueTypes
    <3>5. ThreadTypes' /\ Hands'
      BY <1>1, <1>b, <3>1, <3>2 DEF TypeInv, ThreadTypes, Hands
    <3> QED
      BY <1>1, <1>2, <2>1, <3>4, <3>5, Untouched DEF TypeInv
  <2> QED
    BY <2>2, <2>3
<1>5. CASE SemRead(s)
  <2>1. UNCHANGED <<proc, blocked, waiting, semProc, ddVars>>
    BY <1>5 DEF SemRead, semVars
  <2>2. /\ semStep[s] = "read"
        /\ \E t \in {"ready", "suspReady", "report"} : semStep' = [semStep EXCEPT ![s] = t]
    BY <1>5 DEF SemRead, Moves, Found
  <2>3. ThreadTypes' /\ Hands'
    BY <1>1, <1>b, <2>1, <2>2 DEF TypeInv, ThreadTypes, Hands
  <2> QED
    BY <1>1, <1>2, <2>1, <2>3, Untouched DEF TypeInv
<1>6. CASE SemWakeUp(s)
  <2>1. UNCHANGED <<waiting, semProc, ddVars>> /\ semStep[s] \in {"ready", "suspReady"}
    BY <1>6 DEF SemWakeUp, semVars
  <2>2. semStep' = [semStep EXCEPT ![s] = "report"] /\ WakeUp(semProc[s], semStep[s])
    BY <1>6 DEF SemWakeUp, Moves
  <2>3. semProc[s] \in Procs
    BY <1>b, <2>1
  <2>4. proc' \in [Procs -> States] /\ blocked' \in Seq(Procs)
    BY <2>2, <2>3, BlockTypes
  <2>5. ProcTypes' /\ QueueTypes'
    BY <1>1, <2>1, <2>4 DEF TypeInv, ProcTypes, QueueTypes
  <2>6. ThreadTypes' /\ Hands'
    BY <1>1, <1>b, <2>1, <2>2 DEF TypeInv, ThreadTypes, Hands
  <2> QED
    BY <1>2, <2>1, <2>5, <2>6, Untouched DEF TypeInv
<1>7. CASE SemAllocated(s)
  <2> DEFINE c == semProc[s]
  <2>1. /\ UNCHANGED <<proc, blocked, waiting, ddProcs>> /\ semStep[s] = "report"
        /\ semStep' = [semStep EXCEPT ![s] = "test"]
        /\ semProc' = [semProc EXCEPT ![s] = NoProc]
        /\ available' = [available EXCEPT ![s] = available[s] - 1]
        /\ allocation' = [allocation EXCEPT ![c][s] = allocation[c][s] + 1]
        /\ request' = [request EXCEPT ![c][s] = request[c][s] - 1]
    BY <1>7 DEF SemAllocated, semVars, Moves
  <2>2. c \in Procs
    BY <1>b, <2>1
  <2> HIDE DEF c
  <2>3. /\ available[s] - 1 \in Int /\ allocation[c][s] + 1 \in Nat /\ request[c][s] - 1 \in Int
        /\ ddProcs \subseteq Procs
    <3>1. available[s] \in Int /\ allocation[c][s] \in Nat /\ request[c][s] \in Int
      BY <2>2 DEF TypeInv, Matrices
    <3> QED
      BY <3>1 DEF TypeInv, Matrices
  <2>4. Matrices'
    <3>1. available' \in [Sems -> Int]
      BY <2>1, <2>3, EntryType DEF TypeInv, Matrices
    <3>2. allocation' \in [Procs -> [Sems -> Nat]]
      BY <2>1, <2>3, RowEntryType DEF TypeInv, Matrices
    <3>3. request' \in [Procs -> [Sems -> Int]]
      BY <2>1, <2>3, RowEntryType DEF TypeInv, Matrices
    <3> QED
      BY <2>1, <2>3, <3>1, <3>2, <3>3 DEF Matrices
  <2>5. ThreadTypes' /\ Hands'
    BY <1>1, <1>b, <2>1 DEF TypeInv, ThreadTypes, Hands
  <2> QED
    BY <1>1, <1>2, <2>1, <2>4, <2>5, Untouched DEF TypeInv
<1> QED
  BY <1>a, <1>3, <1>4, <1>5, <1>6, <1>7

(* A device, the medium term, and a report about a process the detector has forgotten. *)
LEMMA OutsideTypeStep ==
    ASSUME TypeInv, ReportOnForgotten \/ Suspend \/ \E d \in Devices : IORead(d) \/ IOWakeUp(d)
    PROVE  TypeInv'
<1> USE DEF cpuVars, semVars, threadVars, ddVars, planVars
<1>1. CASE ReportOnForgotten
  BY <1>1, Untouched DEF ReportOnForgotten, TypeInv
<1>2. CASE Suspend
  <2>1. /\ UNCHANGED <<clientVars, step, asking, waiting, device, threadVars, locked, ddVars>>
        /\ proc' = [proc EXCEPT ![Last(blocked)] = "SUSP_BLOCKED"]
        /\ blocked' = Front(blocked) /\ blocked # <<>>
    BY <1>2 DEF Suspend
  <2>2. blocked' \in Seq(Procs)
    BY <2>1, LastFrontSeq DEF TypeInv, QueueTypes
  <2>3. proc' \in [Procs -> States]
    BY <2>1, StateTypes DEF TypeInv, States, Parked
  <2>4. ProcTypes' /\ QueueTypes'
    BY <2>1, <2>2, <2>3 DEF TypeInv, ProcTypes, QueueTypes
  <2> QED
    BY <2>1, <2>4, Untouched DEF TypeInv
<1>3. ASSUME NEW d \in Devices, IORead(d) PROVE TypeInv'
  <2>1. /\ UNCHANGED <<clientVars, cpuVars, proc, blocked, waiting, device, semStep, semProc,
                       locked, ddVars>>
        /\ ioStep' = [ioStep EXCEPT ![d] = Found(Head(device[d]))]
        /\ device[d] # <<>>
    BY <1>3 DEF IORead
  <2>2. Found(Head(device[d])) \in {"sleep", "ready", "suspReady", "lost"}
    BY DEF Found
  <2>3. ThreadTypes' /\ Hands'
    BY <2>1, <2>2 DEF TypeInv, ThreadTypes, Hands
  <2> QED
    BY <2>1, <2>3, Untouched DEF TypeInv
<1>4. ASSUME NEW d \in Devices, IOWakeUp(d) PROVE TypeInv'
  <2>1. /\ UNCHANGED <<clientVars, cpuVars, waiting, semStep, semProc, locked, ddVars>>
        /\ WakeUp(Head(device[d]), ioStep[d]) /\ ioStep[d] # "sleep"
        /\ device' = [device EXCEPT ![d] = Tail(device[d])]
        /\ ioStep' = [ioStep EXCEPT ![d] = "sleep"]
    BY <1>4 DEF IOWakeUp
  <2>2. device[d] \in Seq(Procs) /\ device[d] # <<>>
    BY <2>1 DEF TypeInv, QueueTypes, Hands
  <2>3. Head(device[d]) \in Procs /\ Tail(device[d]) \in Seq(Procs)
    BY <2>2, HeadTailRange
  <2>4. proc' \in [Procs -> States] /\ blocked' \in Seq(Procs)
    BY <2>1, <2>3, BlockTypes
  <2>5. ProcTypes' /\ QueueTypes'
    BY <2>1, <2>3, <2>4 DEF TypeInv, ProcTypes, QueueTypes
  <2>6. ThreadTypes' /\ Hands'
    BY <2>1 DEF TypeInv, ThreadTypes, Hands
  <2> QED
    BY <2>1, <2>5, <2>6, Untouched DEF TypeInv
<1> QED
  BY <1>1, <1>2, <1>3, <1>4

(* A search ends with a process of its matrices, or with none. *)
LEMMA OutcomeType == ASSUME Matrices PROVE Outcomes \subseteq ddProcs \cup {NoProc, Nobody}
BY DEF Outcomes, Victims, Stuck

(* The search, and what is done with its victim. *)
LEMMA DetectorTypeStep == ASSUME TypeInv, Detector PROVE TypeInv'
<1> USE DEF cpuVars, semVars, threadVars, ddVars, planVars
<1>a. /\ ddProcs \subseteq Procs
      /\ available \in [Sems -> Int]
      /\ allocation \in [Procs -> [Sems -> Nat]]
      /\ request \in [Procs -> [Sems -> Int]]
  BY DEF TypeInv, Matrices
<1>b. Pending # {} => Current \in Pending /\ Current \in Sems
  <2>1. Pending \subseteq Sems /\ Sems \subseteq Nat
    BY SearchAssumption DEF Pending
  <2>2. Pending # {} => Min(Pending) \in Pending
    BY <2>1, MinMember
  <2> QED
    BY <2>1, <2>2 DEF Current
<1>1. CASE Search
  <2>1. UNCHANGED <<clientVars, cpuVars, semVars, threadVars, ddVars, planVars>>
    BY <1>1 DEF Search
  <2>2. locked' \in Procs \cup {NoProc, Nobody}
    BY <1>1, OutcomeType DEF Search, TypeInv, Matrices
  <2>3. ThreadTypes'
    BY <2>1, <2>2 DEF TypeInv, ThreadTypes
  <2> QED
    BY <2>1, <2>3, Untouched DEF TypeInv
<1>2. CASE KillWithdraw
  <2>1. /\ UNCHANGED <<clientVars, cpuVars, proc, device, threadVars, locked>>
        /\ UNCHANGED <<ddProcs, available, allocation>>
        /\ waiting' = [waiting EXCEPT ![Current] = RemoveFirst(waiting[Current], locked)]
        /\ blocked' = blocked \/ blocked' = RemoveFirst(blocked, locked)
        /\ request' = [request EXCEPT ![locked][Current] = 0]
    BY <1>2 DEF KillWithdraw
  <2>2. Current \in Sems
    BY <1>2, <1>b DEF KillWithdraw
  <2>3. QueueTypes'
    <3>1. RemoveFirst(blocked, locked) \in Seq(Procs) /\ RemoveFirst(waiting[Current], locked) \in Seq(Procs)
      BY <2>2, RemoveFirstSeq DEF TypeInv, QueueTypes
    <3> QED
      BY <2>1, <3>1 DEF TypeInv, QueueTypes
  <2>4. request' \in [Procs -> [Sems -> Int]]
    <3>1. 0 \in Int
      OBVIOUS
    <3> QED
      BY <1>a, <2>1, <3>1, RowEntryType
  <2>5. Matrices'
    BY <1>a, <2>1, <2>4 DEF Matrices
  <2> QED
    BY <2>1, <2>3, <2>5, Untouched DEF TypeInv
<1>3. CASE KillPost
  <2>1. /\ UNCHANGED <<clientVars, cpuVars, proc, blocked, waiting, device, threadVars, locked>>
        /\ UNCHANGED <<ddProcs, request>>
        /\ available' = [available EXCEPT ![Current] = available[Current] + 1]
        /\ allocation' = [allocation EXCEPT ![locked][Current] = allocation[locked][Current] - 1]
    BY <1>3 DEF KillPost
  <2>2. Current \in Sems /\ locked \in Procs /\ allocation[locked][Current] # 0
    BY <1>3, <1>b DEF KillPost, Terminating, Pending
  <2>3. allocation[locked][Current] - 1 \in Nat /\ available[Current] + 1 \in Int
    <3>1. allocation[locked][Current] \in Nat /\ available[Current] \in Int
      BY <1>a, <2>2
    <3> QED
      BY <2>2, <3>1
  <2>4. available' \in [Sems -> Int]
    BY <1>a, <2>1, <2>3, EntryType
  <2>5. allocation' \in [Procs -> [Sems -> Nat]]
    BY <1>a, <2>1, <2>3, RowEntryType
  <2>6. Matrices'
    BY <1>a, <2>1, <2>4, <2>5 DEF Matrices
  <2> QED
    BY <2>1, <2>6, Untouched DEF TypeInv
<1>4. CASE KillDestroy
  <2>1. /\ UNCHANGED <<step, asking, waiting, blocked, device, threadVars>>
        /\ locked \in Procs /\ Reply(locked, "ERROR")
        /\ DDForget(locked) /\ UNCHANGED available
        /\ proc' = [proc EXCEPT ![locked] = "none"]
        /\ locked' = locked \/ locked' \in Outcomes'
    BY <1>4 DEF KillDestroy, Terminating, TellServers, Becomes
  <2>2. ClientTypes'
    BY <2>1, ServedTypes DEF TypeInv, Answers
  <2>3. ProcTypes'
    BY <2>1, StateTypes DEF TypeInv, ProcTypes, States
  <2>4. Matrices'
    BY <2>1, ForgetTypes
  <2>5. Outcomes' \subseteq Procs \cup {NoProc, Nobody}
    BY <2>4 DEF Outcomes, Victims, Stuck, Matrices
  <2>6. ThreadTypes'
    BY <2>1, <2>5 DEF TypeInv, ThreadTypes
  <2> QED
    BY <2>1, <2>2, <2>3, <2>4, <2>6, Untouched DEF TypeInv
<1> QED
  BY <1>1, <1>2, <1>3, <1>4 DEF Detector

(* The variables have their types in the first state. *)
LEMMA TypeInit == ASSUME Init PROVE TypeInv
<1>1. NoRow \in [Sems -> Nat] /\ NoRow \in [Sems -> Int]
  BY DEF NoRow
<1>2. ClientTypes
  BY DEF Init, ClientTypes
<1>3. ProcTypes
  BY <1>1 DEF Init, ProcTypes, States, Steps
<1>4. QueueTypes /\ ThreadTypes /\ Hands
  BY DEF Init, QueueTypes, ThreadTypes, Hands
<1>5. Matrices
  BY <1>1 DEF Init, Matrices
<1> QED
  BY <1>2, <1>3, <1>4, <1>5 DEF TypeInv

(* Every step keeps the types. *)
LEMMA TypeStep == ASSUME TypeInv, [Next]_vars PROVE TypeInv'
<1>1. CASE Next
  BY <1>1, ClientTypeStep, KernelTypeStep, SemThreadTypeStep, OutsideTypeStep, DetectorTypeStep
     DEF Next
<1>2. CASE UNCHANGED vars
  BY <1>2, Untouched DEF vars, TypeInv, planVars, semVars, cpuVars, threadVars
<1> QED
  BY <1>1, <1>2

-----------------------------------------------------------------------------
(* What holds of every client until the code's behaviour is not defined *)

Waiting(s, c) == c \in Range(waiting[s])

\* The thread of s is going to wake the process that it has taken
Has(s, c) == semProc[s] = c /\ semStep[s] \in {"read", "ready", "suspReady"}

InDevice(d, c) == c \in Range(device[d])
AtDevice(d, c) == device[d] # <<>> /\ Head(device[d]) = c

Unanswered(c) == ~Ended(c) /\ ~due[c] /\ inbox[c] = <<>>

\* The petition of c has been taken and is to be answered
Awaits(c) == proc[c] \in Parked \/ step[c] \in {"instant", "block", "release"}

IsBlocked(c) == proc[c] \in {"BLOCKED", "SUSP_BLOCKED"}

Answering(c) ==
    /\ inbox[c] # <<>> => Len(inbox[c]) = 1 /\ ~Ended(c) /\ ~due[c]
    /\ Awaits(c) => Unanswered(c)
    /\ step[c] # "none" => proc[c] = "EXEC"
    /\ step[c] = "block" => Call(c)[1] = "wait"

\* A semaphore has only who waits for it, once
AtSemaphores(c) ==
    \A s \in Sems :
        /\ Waiting(s, c) \/ Has(s, c) =>
              Call(c)[1] = "wait" /\ Arg(c) = s /\ (IsBlocked(c) \/ step[c] = "block")
        /\ ~(Waiting(s, c) /\ Has(s, c))
        /\ Has(s, c) /\ semStep[s] = "ready" => IsBlocked(c)
        /\ Has(s, c) /\ semStep[s] = "suspReady" => proc[c] = "SUSP_BLOCKED"

\* A device has only who calls it
AtDevices(c) ==
    \A d \in Devices :
        /\ InDevice(d, c) => Call(c)[1] = "io" /\ Arg(c) = d /\ IsBlocked(c)
        /\ AtDevice(d, c) => /\ ioStep[d] # "lost"
                             /\ ioStep[d] = "suspReady" => proc[c] = "SUSP_BLOCKED"

InBlocked(c) == c \in Range(blocked)

InvOf(c) ==
    /\ Answering(c) /\ AtSemaphores(c) /\ AtDevices(c)
    /\ InBlocked(c) => proc[c] = "BLOCKED"

\* No queue has a process twice
Ordered ==
    /\ IsInjective(blocked)
    /\ \A s \in Sems : IsInjective(waiting[s])
    /\ \A d \in Devices : IsInjective(device[d])

Core == Ordered /\ \A c \in Procs : InvOf(c)

\* The process that is being terminated leaves blockedQueue with the wait the detector knows
\* of; a wait it does not know of, or a device, has it still at the end
VictimInv ==
    \A c \in Procs : locked = c /\ InBlocked(c) =>
        \/ \E s \in Sems : request[c][s] # 0 \/ asking[c][s] # 0
        \/ \E d \in Devices : InDevice(d, c)

Inv == TypeInv /\ OneAnswerPerCall /\ (fault = "no" => Core /\ VictimInv)

\* The state of q that a step leaves as it is
Same(q) ==
    /\ test' = test
    /\ pc'[q] = pc[q] /\ due'[q] = due[q] /\ inbox'[q] = inbox[q]
    /\ proc'[q] = proc[q] /\ step'[q] = step[q]

\* A step puts q in no queue of a thread and gives it to none
KeptOut(q) ==
    /\ \A s \in Sems : /\ Waiting(s, q)' => Waiting(s, q)
                       /\ Has(s, q)' => Has(s, q) /\ semStep'[s] = semStep[s]
    /\ \A d \in Devices : /\ InDevice(d, q)' => InDevice(d, q)
                          /\ AtDevice(d, q)' =>
                                \/ ioStep'[d] = "sleep"
                                \/ AtDevice(d, q) /\ ioStep'[d] = ioStep[d]

Kept(q) == KeptOut(q) /\ (InBlocked(q)' => InBlocked(q))

NoQueue(c) ==
    /\ \A s \in Sems : ~Waiting(s, c) /\ ~Has(s, c)
    /\ \A d \in Devices : ~InDevice(d, c) /\ ~AtDevice(d, c)
    /\ ~InBlocked(c)

queues == <<waiting, semStep, semProc, device, ioStep, blocked>>

(* A step that leaves the queues and the threads alone. *)
LEMMA QueuesKept ==
    ASSUME UNCHANGED queues
    PROVE  (Ordered => Ordered') /\ \A q \in Procs : Kept(q)
BY DEF queues, Ordered, Kept, KeptOut, Waiting, Has, InDevice, AtDevice, InBlocked

(* The call of a client that a step leaves where it is. *)
LEMMA SameCall ==
    ASSUME NEW c, test' = test, pc'[c] = pc[c]
    PROVE  (Ended(c)' <=> Ended(c)) /\ Call(c)' = Call(c) /\ Arg(c)' = Arg(c)
BY DEF Ended, Call, Arg, Program

(* The invariant of a process that a step is not about. *)
LEMMA OtherKept == ASSUME NEW q \in Procs, InvOf(q), Same(q), Kept(q) PROVE InvOf(q)'
<1>1. (Ended(q)' <=> Ended(q)) /\ Call(q)' = Call(q) /\ Arg(q)' = Arg(q)
  BY SameCall DEF Same
<1>2. IsBlocked(q)' <=> IsBlocked(q)
  BY DEF IsBlocked, Same
<1>3. Answering(q)'
  BY <1>1 DEF InvOf, Answering, Same, Awaits, Unanswered
<1>4. AtSemaphores(q)'
  BY <1>1, <1>2 DEF InvOf, AtSemaphores, Same, Kept, KeptOut
<1>5. AtDevices(q)'
  BY <1>1, <1>2 DEF InvOf, AtDevices, Same, Kept, KeptOut
<1>6. InBlocked(q)' => proc'[q] = "BLOCKED"
  BY DEF InvOf, Same, Kept, KeptOut
<1> QED
  BY <1>3, <1>4, <1>5, <1>6 DEF InvOf

(* The one that a device serves is in its queue. *)
LEMMA AtDeviceIn == ASSUME QueueTypes, NEW d \in Devices, NEW c, AtDevice(d, c) PROVE InDevice(d, c)
BY HeadTailRange DEF AtDevice, InDevice, QueueTypes

(* A process that is not blocked, and is not about to be, is in no queue. *)
LEMMA FreeProcess ==
    ASSUME TypeInv, NEW c \in Procs, InvOf(c), ~IsBlocked(c), step[c] # "block"
    PROVE  NoQueue(c)
<1>1. \A s \in Sems : ~Waiting(s, c) /\ ~Has(s, c)
  BY DEF InvOf, AtSemaphores
<1>2. \A d \in Devices : ~InDevice(d, c)
  BY DEF InvOf, AtDevices
<1>3. \A d \in Devices : ~AtDevice(d, c)
  BY <1>2, AtDeviceIn DEF TypeInv
<1>4. ~InBlocked(c)
  BY DEF InvOf, IsBlocked
<1> QED
  BY <1>1, <1>2, <1>3, <1>4 DEF NoQueue

(* The invariant of a process that is in no queue is about its answers. *)
LEMMA FreeKept ==
    ASSUME NEW c \in Procs, NoQueue(c), Kept(c), Answering(c)' PROVE InvOf(c)'
<1>1. AtSemaphores(c)'
  BY DEF NoQueue, Kept, KeptOut, AtSemaphores
<1>2. AtDevices(c)'
  BY DEF NoQueue, Kept, KeptOut, AtDevices
<1>3. ~InBlocked(c)'
  BY DEF NoQueue, Kept, KeptOut
<1> QED
  BY <1>1, <1>2, <1>3 DEF InvOf

(* A step about one process that is in no queue, and that leaves the queues alone. *)
LEMMA PetitionCore ==
    ASSUME Core, NEW c \in Procs, NoQueue(c), Ordered', \A q \in Procs : Kept(q),
           \A q \in Procs \ {c} : Same(q), Answering(c)'
    PROVE  Core'
BY OtherKept, FreeKept DEF Core

-----------------------------------------------------------------------------
(* The client and its answers *)

(* A server that takes or answers a petition does nothing to another client. *)
LEMMA OthersServed ==
    ASSUME TypeInv, NEW c \in Procs,
           TakeSilently(c) \/ \E a \in Answers : Take(c, a) \/ Reply(c, a),
           proc' = proc \/ \E t : proc' = [proc EXCEPT ![c] = t],
           step' = step \/ \E t : step' = [step EXCEPT ![c] = t]
    PROVE  \A q \in Procs \ {c} : Same(q)
BY DEF TypeInv, ClientTypes, ProcTypes, TakeSilently, Take, Reply, Taken, Answer, Same

(* An answer is alone in the socket of a client that had none. *)
LEMMA OneAnswer ==
    ASSUME TypeInv, NEW c \in Procs, NEW a, Answer(c, a), inbox[c] = <<>>
    PROVE  Len(inbox'[c]) = 1
<1>1. inbox'[c] = Append(<<>>, a)
  BY DEF TypeInv, ClientTypes, Answer
<1> QED
  BY <1>1

(* A petition is taken and answered. *)
LEMMA TakenAndAnswered ==
    ASSUME TypeInv, NEW c \in Procs, Answering(c), ~Ended(c), due[c],
           NEW a, Take(c, a), proc'[c] \notin Parked, step'[c] \in {"none", "leave"},
           step'[c] # "none" => proc'[c] = "EXEC"
    PROVE  Answering(c)'
<1>1. inbox[c] = <<>>
  BY DEF Answering
<1>2. Len(inbox'[c]) = 1
  BY <1>1, OneAnswer DEF Take
<1>3. ~Ended(c)' /\ ~due'[c]
  BY SameCall DEF Take, Taken, TypeInv, ClientTypes
<1> QED
  BY <1>2, <1>3 DEF Answering, Awaits

(* A petition is taken, to be answered later. *)
LEMMA TakenInSilence ==
    ASSUME TypeInv, NEW c \in Procs, Answering(c), ~Ended(c), due[c], TakeSilently(c),
           step'[c] # "none" => proc'[c] = "EXEC",
           step'[c] = "block" => Call(c)[1] = "wait"
    PROVE  Answering(c)'
<1>1. inbox'[c] = <<>>
  BY DEF Answering, TakeSilently
<1>2. ~Ended(c)' /\ ~due'[c] /\ Call(c)' = Call(c)
  BY SameCall DEF TakeSilently, Taken, TypeInv, ClientTypes
<1> QED
  BY <1>1, <1>2 DEF Answering, Awaits, Unanswered

(* A petition that was taken is answered. *)
LEMMA AnsweredLater ==
    ASSUME TypeInv, NEW c \in Procs, Answering(c), Awaits(c), NEW a, Reply(c, a),
           proc'[c] \notin Parked, step'[c] = "none"
    PROVE  Answering(c)'
<1>1. inbox[c] = <<>> /\ ~Ended(c) /\ ~due[c]
  BY DEF Answering, Unanswered
<1>2. Len(inbox'[c]) = 1
  BY <1>1, OneAnswer DEF Reply
<1>3. ~Ended(c)' /\ ~due'[c]
  BY <1>1, SameCall DEF Reply
<1> QED
  BY <1>2, <1>3 DEF Answering, Awaits

(* A process goes on, or changes its state, with its call where it was. *)
LEMMA AnsweringKept ==
    ASSUME NEW c \in Procs, Answering(c), UNCHANGED clientVars,
           Awaits(c)' => Awaits(c),
           step'[c] # "none" => proc'[c] = "EXEC",
           step'[c] = "block" => step[c] = "block"
    PROVE  Answering(c)'
<1>1. (Ended(c)' <=> Ended(c)) /\ Call(c)' = Call(c)
  BY SameCall DEF clientVars
<1> QED
  BY <1>1 DEF clientVars, Answering, Unanswered

(* A step of the library or of the memory it talks to. *)
LEMMA ClientCore == ASSUME TypeInv, Core, NEW c \in Procs, ClientStep(c) PROVE Core'
<1>1. UNCHANGED queues /\ UNCHANGED <<proc, step>>
  BY DEF ClientStep, Return, HostStep, MemoryPetition, semVars, threadVars, planVars, cpuVars,
         queues
<1>2. Answering(c) /\ InvOf(c)
  BY DEF Core, InvOf
<1>3. ~Unanswered(c)
  BY DEF ClientStep, Return, HostStep, MemoryPetition, Calls, Unanswered
<1>4. ~Awaits(c) /\ ~Awaits(c)'
  BY <1>1, <1>2, <1>3 DEF Answering, Awaits
<1>5. NoQueue(c)
  BY <1>2, <1>4, FreeProcess DEF Awaits, IsBlocked, Parked
<1>6. \A q \in Procs \ {c} : Same(q)
  BY <1>1 DEF ClientStep, Return, HostStep, MemoryPetition, Take, Taken, Answer, Same, TypeInv,
              ClientTypes
<1>7. Answering(c)'
  <2>1. inbox'[c] # <<>> => Len(inbox'[c]) = 1 /\ ~Ended(c)' /\ ~due'[c]
    <3>1. CASE Return(c)
      <4>1. Len(inbox[c]) = 1 /\ inbox[c] \in Seq(Answers)
        BY <1>2, <3>1 DEF Return, Answering, TypeInv, ClientTypes
      <4>2. Tail(inbox[c]) \in Seq(Answers) /\ Len(Tail(inbox[c])) = 0
        BY <3>1, <4>1, HeadTailProperties DEF Return
      <4>3. Tail(inbox[c]) = <<>>
        BY <4>2, EmptySeq
      <4> QED
        BY <3>1, <4>3 DEF Return, TypeInv, ClientTypes
    <3>2. CASE HostStep(c)
      BY <1>2, <3>2 DEF HostStep, Calls, Answering
    <3>3. CASE MemoryPetition(c)
      <4>1. Answer(c, "OK") /\ inbox[c] = <<>> /\ ~Ended(c) /\ Taken(c) /\ pc' = pc /\ test' = test
        BY <1>2, <3>3 DEF MemoryPetition, Calls, Take, Answering
      <4>2. ~Ended(c)' /\ ~due'[c]
        BY <4>1, SameCall DEF Taken, TypeInv, ClientTypes
      <4> QED
        BY <4>1, <4>2, OneAnswer
    <3> QED
      BY <3>1, <3>2, <3>3 DEF ClientStep
  <2>2. step[c] # "block"
    BY <1>4 DEF Awaits
  <2> QED
    BY <1>1, <1>2, <1>4, <2>1, <2>2 DEF Answering
<1> QED
  BY <1>1, <1>5, <1>6, <1>7, QueuesKept, PetitionCore DEF Core

(* A petition that is answered at once, the queues of the semaphore that is destroyed
   apart. *)
LEMMA AnsweredCore ==
    ASSUME TypeInv, Core, NEW c \in Procs,
           \/ SemInit(c) \/ SemFails(c) \/ SemDestroy(c) \/ RelayPetition(c)
           \/ RelayTerminate(c) \/ TerminateProcess(c)
    PROVE  Core'
<1> USE DEF cpuVars, semVars, threadVars, planVars
<1>1. proc[c] = "EXEC" /\ step[c] = "none" /\ ~Ended(c) /\ due[c] /\ UNCHANGED proc
  BY DEF SemInit, SemFails, PetitionFails, SemDestroy, RelayPetition, RelayTerminate,
         TerminateProcess, Serves, Calls
<1>2. \E a \in Answers : Take(c, a)
  BY DEF SemInit, SemFails, PetitionFails, SemDestroy, RelayPetition, RelayTerminate,
         TerminateProcess, Answers
<1>3. step' = step \/ step' = [step EXCEPT ![c] = "leave"]
  BY DEF SemInit, SemFails, PetitionFails, SemDestroy, RelayPetition, RelayTerminate,
         TerminateProcess, Goes
<1>4. Answering(c) /\ NoQueue(c)
  BY <1>1, FreeProcess DEF Core, InvOf, IsBlocked
<1>5. \A q \in Procs \ {c} : Same(q)
  BY <1>1, <1>2, <1>3, OthersServed
<1>6. Answering(c)'
  BY <1>1, <1>2, <1>3, <1>4, TakenAndAnswered DEF Parked, TypeInv, ProcTypes
<1>7. Ordered' /\ \A q \in Procs : Kept(q)
  <2>1. CASE SemDestroy(c)
    <3> DEFINE s == Arg(c)
    <3>1. /\ UNCHANGED <<semStep, semProc, device, ioStep, blocked>>
          /\ waiting' = [waiting EXCEPT ![s] = <<>>]
      BY <2>1 DEF SemDestroy
    <3> HIDE DEF s
    <3>2. Range(<<>>) = {} /\ IsInjective(<<>>)
      BY DEF Range, IsInjective
    <3>3. \A r \in Sems : waiting'[r] = waiting[r] \/ waiting'[r] = <<>>
      BY <3>1 DEF TypeInv, QueueTypes
    <3>4. Ordered'
      BY <3>1, <3>2, <3>3 DEF Core, Ordered
    <3>5. ASSUME NEW q \in Procs PROVE Kept(q)
      BY <3>1, <3>2, <3>3 DEF Kept, KeptOut, Waiting, Has, InDevice, AtDevice, InBlocked
    <3> QED
      BY <3>4, <3>5
  <2>2. CASE ~SemDestroy(c)
    <3>1. UNCHANGED queues
      BY <2>2 DEF SemInit, SemFails, PetitionFails, RelayPetition, RelayTerminate,
                  TerminateProcess, queues
    <3> QED
      BY <3>1, QueuesKept DEF Core
  <2> QED
    BY <2>1, <2>2
<1> QED
  BY <1>4, <1>5, <1>6, <1>7, PetitionCore

(* A petition that is answered later, and a client that connects. *)
LEMMA SilentCore ==
    ASSUME TypeInv, Core, NEW c \in Procs, Connect(c) \/ SemWaitPass(c) \/ SemPost(c)
    PROVE  Core'
<1> USE DEF cpuVars, semVars, threadVars, planVars
<1>1. ~Ended(c) /\ due[c] /\ TakeSilently(c) /\ UNCHANGED queues
  BY DEF Connect, SemWaitPass, SemPost, Serves, Calls, queues
<1>2. Answering(c) /\ InvOf(c)
  BY DEF Core, InvOf
<1>3. /\ proc[c] \in {"none", "EXEC"} /\ step[c] = "none"
      /\ proc' = proc \/ proc' = [proc EXCEPT ![c] = "NEW"]
      /\ \/ step' = step
         \/ /\ proc' = proc /\ proc[c] = "EXEC"
            /\ \E t \in {"instant", "release"} : step' = [step EXCEPT ![c] = t]
  BY <1>2 DEF Connect, SemWaitPass, SemPost, Serves, Goes, Becomes, Answering
<1>4. NoQueue(c)
  BY <1>2, <1>3, FreeProcess DEF IsBlocked
<1>5. \A q \in Procs \ {c} : Same(q)
  BY <1>1, <1>3, OthersServed
<1>6. Answering(c)'
  BY <1>1, <1>2, <1>3, TakenInSilence DEF TypeInv, ProcTypes
<1> QED
  BY <1>1, <1>4, <1>5, <1>6, QueuesKept, PetitionCore DEF Core

(* A petition that was taken is answered, by the CPU that dispatches the process or by the
   one that has told the detector. *)
LEMMA LaterCore ==
    ASSUME TypeInv, Core, NEW c \in Procs, Dispatch(c) \/ SemWaitInstant(c) \/ SemPostRelease(c)
    PROVE  Core'
<1> USE DEF cpuVars, semVars, threadVars, planVars
<1>1. Answering(c) /\ InvOf(c)
  BY DEF Core, InvOf
<1>2. Reply(c, "OK") /\ UNCHANGED queues
  BY DEF Dispatch, SemWaitInstant, SemPostRelease, queues
<1>3. /\ Awaits(c) /\ ~IsBlocked(c) /\ step[c] # "block"
      /\ (proc' = proc /\ proc[c] = "EXEC") \/ proc' = [proc EXCEPT ![c] = "EXEC"]
      /\ (step' = step /\ step[c] = "none") \/ step' = [step EXCEPT ![c] = "none"]
  BY <1>1 DEF Dispatch, SemWaitInstant, SemPostRelease, Becomes, Goes, Answering, Awaits,
              IsBlocked, Parked
<1>4. NoQueue(c)
  BY <1>1, <1>3, FreeProcess
<1>5. \A q \in Procs \ {c} : Same(q)
  BY <1>2, <1>3, OthersServed DEF Answers
<1>6. Answering(c)'
  BY <1>1, <1>2, <1>3, AnsweredLater DEF TypeInv, ProcTypes, Parked
<1> QED
  BY <1>2, <1>4, <1>5, <1>6, QueuesKept, PetitionCore DEF Core

(* A process is admitted or leaves, and a CPU tells the detector of a wait. *)
LEMMA MovedCore ==
    ASSUME TypeInv, Core, NEW c \in Procs,
           Admit(c) \/ TerminateLeave(c) \/ \E s \in Sems : SemWaitRequested(c, s)
    PROVE  Core'
<1> USE DEF cpuVars, semVars, threadVars, planVars
<1>1. UNCHANGED clientVars /\ UNCHANGED queues
  BY DEF Admit, TerminateLeave, SemWaitRequested, queues
<1>2. Answering(c) /\ InvOf(c)
  BY DEF Core, InvOf
<1>3. CASE Admit(c)
  <2>1. proc[c] \in {"NEW", "SUSP_READY"} /\ proc' = [proc EXCEPT ![c] = "READY"] /\ step' = step
    BY <1>3 DEF Admit, Becomes
  <2>2. step[c] = "none" /\ Awaits(c)
    BY <1>2, <2>1 DEF Answering, Awaits, Parked
  <2>3. NoQueue(c)
    BY <1>2, <2>1, <2>2, FreeProcess DEF IsBlocked
  <2>4. Answering(c)'
    BY <1>1, <1>2, <2>1, <2>2, AnsweringKept
  <2>5. \A q \in Procs \ {c} : Same(q)
    BY <1>1, <2>1 DEF Same, TypeInv, ProcTypes, clientVars
  <2> QED
    BY <1>1, <2>3, <2>4, <2>5, QueuesKept, PetitionCore DEF Core
<1>4. CASE TerminateLeave(c)
  <2>1. step[c] = "leave" /\ proc' = [proc EXCEPT ![c] = "none"] /\ step' = [step EXCEPT ![c] = "none"]
    BY <1>4 DEF TerminateLeave, Becomes, Goes
  <2>2. proc[c] = "EXEC"
    BY <1>2, <2>1 DEF Answering
  <2>3. NoQueue(c)
    BY <1>2, <2>1, <2>2, FreeProcess DEF IsBlocked
  <2>4. Answering(c)'
    <3>1. proc'[c] = "none" /\ step'[c] = "none"
      BY <2>1 DEF TypeInv, ProcTypes
    <3> QED
      BY <1>1, <1>2, <3>1, AnsweringKept DEF Awaits, Parked
  <2>5. \A q \in Procs \ {c} : Same(q)
    BY <1>1, <2>1 DEF Same, TypeInv, ProcTypes, clientVars
  <2> QED
    BY <1>1, <2>3, <2>4, <2>5, QueuesKept, PetitionCore DEF Core
<1>5. ASSUME NEW s \in Sems, SemWaitRequested(c, s) PROVE Core'
  <2>1. \A q \in Procs : Same(q)
    BY <1>1, <1>5 DEF SemWaitRequested, Same, clientVars
  <2> QED
    BY <1>1, <2>1, QueuesKept, OtherKept DEF Core
<1> QED
  BY <1>3, <1>4, <1>5

-----------------------------------------------------------------------------
(* The queues *)

(* A step about one process. *)
LEMMA StepOfOne ==
    ASSUME Core, NEW c \in Procs, Ordered', \A q \in Procs \ {c} : Same(q) /\ Kept(q), InvOf(c)'
    PROVE  Core'
BY OtherKept DEF Core

(* The first of a queue stays the first when another comes. *)
LEMMA HeadAppend ==
    ASSUME NEW S, NEW s \in Seq(S), NEW e \in S
    PROVE  Head(Append(s, e)) = IF s = <<>> THEN e ELSE Head(s)
<1>1. Len(s) \in Nat /\ (s = <<>> <=> Len(s) = 0)
  BY EmptySeq, LenProperties
<1>2. Head(Append(s, e)) = Append(s, e)[1] /\ Head(s) = s[1]
  OBVIOUS
<1>3. Append(s, e)[1] = IF Len(s) = 0 THEN e ELSE s[1]
  BY <1>1, AppendProperties
<1> QED
  BY <1>1, <1>2, <1>3

(* A process that waits enters the queue of its semaphore. *)
LEMMA EnqueueCore ==
    ASSUME TypeInv, Core, NEW c \in Procs, SemWaitEnqueue(c) PROVE Core'
<1> DEFINE s == Arg(c)
<1>1. /\ proc[c] = "EXEC" /\ step[c] = "none" /\ ~Ended(c) /\ due[c]
      /\ TakeSilently(c) /\ Call(c)[1] = "wait"
      /\ waiting' = [waiting EXCEPT ![s] = Append(waiting[s], c)]
      /\ step' = [step EXCEPT ![c] = "block"]
      /\ UNCHANGED <<proc, semStep, semProc, device, ioStep, blocked>>
  BY DEF SemWaitEnqueue, Serves, Calls, Goes, threadVars, planVars
<1>2. Answering(c) /\ NoQueue(c)
  BY <1>1, FreeProcess DEF Core, InvOf, IsBlocked
<1>3. \A q \in Procs \ {c} : Same(q)
  BY <1>1, OthersServed
<1>4. proc'[c] = "EXEC" /\ step'[c] = "block" /\ Call(c)' = Call(c) /\ Arg(c)' = s
  BY <1>1, SameCall DEF TypeInv, ProcTypes, TakeSilently
<1> HIDE DEF s
<1>5. s \in Sems
  BY <1>1, ProgramCalls DEF s, TypeInv
<1>6. /\ Range(waiting'[s]) = Range(waiting[s]) \cup {c} /\ IsInjective(waiting'[s])
      /\ \A r \in Sems \ {s} : waiting'[r] = waiting[r]
  <2>1. waiting[s] \in Seq(Procs) /\ IsInjective(waiting[s]) /\ c \notin Range(waiting[s])
    BY <1>2, <1>5 DEF TypeInv, QueueTypes, Core, Ordered, NoQueue, Waiting
  <2>2. waiting'[s] = Append(waiting[s], c) /\ \A r \in Sems \ {s} : waiting'[r] = waiting[r]
    BY <1>1, <1>5 DEF TypeInv, QueueTypes
  <2> QED
    BY <2>1, <2>2, AppendRange
<1>7. Ordered'
  BY <1>1, <1>6 DEF Core, Ordered
<1>8. ASSUME NEW q \in Procs \ {c} PROVE Kept(q)
  BY <1>1, <1>6 DEF Kept, KeptOut, Waiting, Has, InDevice, AtDevice, InBlocked
<1>9. InvOf(c)'
  <2>1. Answering(c)'
    BY <1>1, <1>2, <1>4, TakenInSilence
  <2>2. AtSemaphores(c)'
    BY <1>1, <1>2, <1>4, <1>6 DEF AtSemaphores, Waiting, Has, NoQueue
  <2>3. AtDevices(c)' /\ ~InBlocked(c)'
    BY <1>1, <1>2 DEF AtDevices, InDevice, AtDevice, NoQueue, InBlocked
  <2> QED
    BY <2>1, <2>2, <2>3 DEF InvOf
<1> QED
  BY <1>3, <1>7, <1>8, <1>9, StepOfOne

(* A process that blocks enters blockedQueue, where it was not. *)
LEMMA Blocking ==
    ASSUME TypeInv, Core, NEW c \in Procs, Block(c), proc[c] = "EXEC"
    PROVE  /\ proc'[c] = "BLOCKED" /\ \A q \in Procs \ {c} : proc'[q] = proc[q]
           /\ IsInjective(blocked') /\ \A q : InBlocked(q)' => InBlocked(q) \/ q = c
<1>1. proc'[c] = "BLOCKED" /\ \A q \in Procs \ {c} : proc'[q] = proc[q]
  BY DEF Block, Becomes, TypeInv, ProcTypes
<1>2. blocked \in Seq(Procs) /\ IsInjective(blocked) /\ c \notin Range(blocked)
  BY DEF TypeInv, QueueTypes, Core, Ordered, InvOf, InBlocked
<1>3. Range(blocked') = Range(blocked) \cup {c} /\ IsInjective(blocked')
  BY <1>2, AppendRange DEF Block
<1> QED
  BY <1>1, <1>3 DEF InBlocked

(* A CPU makes the process that it has put in the semaphore's queue BLOCKED. *)
LEMMA BlockCore == ASSUME TypeInv, Core, NEW c \in Procs, SemWaitBlock(c) PROVE Core'
<1>1. /\ step[c] = "block" /\ Block(c) /\ step' = [step EXCEPT ![c] = "none"]
      /\ UNCHANGED clientVars
      /\ UNCHANGED <<waiting, semStep, semProc, device, ioStep>>
  BY DEF SemWaitBlock, Goes, semVars, threadVars
<1>2. InvOf(c) /\ Answering(c) /\ proc[c] = "EXEC" /\ step'[c] = "none"
  BY <1>1 DEF Core, InvOf, Answering, TypeInv, ProcTypes
<1>3. /\ proc'[c] = "BLOCKED" /\ \A q \in Procs \ {c} : proc'[q] = proc[q]
      /\ IsInjective(blocked') /\ \A q : InBlocked(q)' => InBlocked(q) \/ q = c
  BY <1>1, <1>2, Blocking
<1>4. Ordered'
  BY <1>1, <1>3 DEF Core, Ordered
<1>5. ASSUME NEW q \in Procs \ {c} PROVE Same(q) /\ Kept(q)
  BY <1>1, <1>3 DEF Same, Kept, KeptOut, Waiting, Has, InDevice, AtDevice, clientVars, TypeInv,
                    ProcTypes
<1>6. Answering(c)'
  BY <1>1, <1>2, <1>3, AnsweringKept DEF Awaits
<1>7. Call(c)' = Call(c) /\ Arg(c)' = Arg(c) /\ IsBlocked(c)' /\ ~IsBlocked(c)
  BY <1>1, <1>2, <1>3, SameCall DEF clientVars, IsBlocked
<1>8. AtSemaphores(c)'
  BY <1>1, <1>2, <1>7 DEF InvOf, AtSemaphores, Waiting, Has
<1>9. AtDevices(c)'
  <2>1. \A d \in Devices : ~InDevice(d, c) /\ ~AtDevice(d, c)
    BY <1>2, <1>7, AtDeviceIn DEF InvOf, AtDevices, TypeInv
  <2> QED
    BY <1>1, <2>1 DEF AtDevices, InDevice, AtDevice
<1> QED
  BY <1>3, <1>4, <1>5, <1>6, <1>8, <1>9, StepOfOne DEF InvOf

(* A process that calls a device enters its queue and is BLOCKED. *)
LEMMA CallIOCore == ASSUME TypeInv, Core, NEW c \in Procs, CallIO(c) PROVE Core'
<1> DEFINE d == Arg(c)
<1>1. /\ proc[c] = "EXEC" /\ step[c] = "none" /\ ~Ended(c) /\ due[c]
      /\ TakeSilently(c) /\ Call(c)[1] = "io" /\ d \in Devices
      /\ device' = [device EXCEPT ![d] = Append(device[d], c)]
      /\ Block(c)
      /\ UNCHANGED <<step, semStep, semProc, waiting, ioStep>>
  BY ProgramCalls DEF CallIO, Serves, Calls, semVars, threadVars, TypeInv
<1>2. Answering(c) /\ NoQueue(c)
  BY <1>1, FreeProcess DEF Core, InvOf, IsBlocked
<1>3. /\ proc'[c] = "BLOCKED" /\ \A q \in Procs \ {c} : proc'[q] = proc[q]
      /\ IsInjective(blocked') /\ \A q : InBlocked(q)' => InBlocked(q) \/ q = c
  BY <1>1, Blocking
<1>4. Call(c)' = Call(c) /\ Arg(c)' = d /\ IsBlocked(c)'
  BY <1>1, <1>3, SameCall DEF TakeSilently, IsBlocked
<1>5. \A q \in Procs \ {c} : Same(q)
  BY <1>1, OthersServed DEF Block, Becomes
<1> HIDE DEF d
<1>6. /\ Range(device'[d]) = Range(device[d]) \cup {c} /\ IsInjective(device'[d])
      /\ Head(device'[d]) = IF device[d] = <<>> THEN c ELSE Head(device[d])
      /\ \A e \in Devices \ {d} : device'[e] = device[e]
  <2>1. device[d] \in Seq(Procs) /\ IsInjective(device[d]) /\ c \notin Range(device[d])
    BY <1>1, <1>2 DEF TypeInv, QueueTypes, Core, Ordered, NoQueue, InDevice
  <2>2. device'[d] = Append(device[d], c) /\ \A e \in Devices \ {d} : device'[e] = device[e]
    BY <1>1 DEF TypeInv, QueueTypes
  <2> QED
    BY <2>1, <2>2, AppendRange, HeadAppend
<1>7. Ordered'
  BY <1>1, <1>3, <1>6 DEF Core, Ordered
<1>8. ASSUME NEW q \in Procs \ {c} PROVE Kept(q)
  BY <1>1, <1>3, <1>6 DEF Kept, KeptOut, Waiting, Has, InDevice, AtDevice
<1>9. InvOf(c)'
  <2>1. Answering(c)'
    BY <1>1, <1>2, TakenInSilence
  <2>2. AtSemaphores(c)'
    BY <1>1, <1>2 DEF AtSemaphores, Waiting, Has, NoQueue
  <2>3. AtDevices(c)'
    <3>1. ASSUME NEW e \in Devices, InDevice(e, c)' PROVE e = d
      BY <1>2, <1>6, <3>1 DEF InDevice, NoQueue
    <3>2. ASSUME NEW e \in Devices, AtDevice(e, c)' PROVE ioStep'[e] = "sleep"
      <4>1. ~AtDevice(e, c)
        BY <1>2 DEF NoQueue
      <4>2. e = d /\ device[d] = <<>>
        BY <1>6, <3>2, <4>1 DEF AtDevice
      <4> QED
        BY <1>1, <4>2 DEF TypeInv, Hands
    <3> QED
      BY <1>1, <1>4, <3>1, <3>2 DEF AtDevices
  <2> QED
    BY <1>3, <2>1, <2>2, <2>3 DEF InvOf
<1> QED
  BY <1>5, <1>7, <1>8, <1>9, StepOfOne

(* A step of the kernel for a client. *)
LEMMA KernelCore == ASSUME TypeInv, Core, NEW c \in Procs, KernelStep(c) PROVE Core'
BY AnsweredCore, SilentCore, LaterCore, MovedCore, EnqueueCore, BlockCore, CallIOCore
   DEF KernelStep

(* A blocked process that a thread wakes: it has left the thread's queue, and leaves
   blockedQueue when it is read as BLOCKED. *)
LEMMA WokenCore ==
    ASSUME TypeInv, Core, NEW c \in Procs, NEW f \in {"ready", "suspReady"}, WakeUp(c, f),
           IsBlocked(c), f = "suspReady" => proc[c] = "SUSP_BLOCKED",
           UNCHANGED <<clientVars, step>>,
           \A s \in Sems : ~Waiting(s, c)' /\ ~Has(s, c)' /\ IsInjective(waiting'[s]),
           \A d \in Devices : ~InDevice(d, c)' /\ ~AtDevice(d, c)' /\ IsInjective(device'[d]),
           \A q \in Procs \ {c} : KeptOut(q)
    PROVE  Core' /\ ~InBlocked(c)'
<1>1. /\ proc'[c] \in {"READY", "SUSP_READY"}
      /\ \A q \in Procs \ {c} : proc'[q] = proc[q]
  BY DEF WakeUp, Becomes, TypeInv, ProcTypes
<1>2. /\ IsInjective(blocked') /\ ~InBlocked(c)'
      /\ \A q \in Procs \ {c} : InBlocked(q)' => InBlocked(q)
  <2>1. blocked \in Seq(Procs) /\ IsInjective(blocked) /\ (InBlocked(c) => proc[c] = "BLOCKED")
    BY DEF TypeInv, QueueTypes, Core, Ordered, InvOf
  <2>2. CASE f = "ready"
    <3>1. blocked' = RemoveFirst(blocked, c)
      BY <2>2 DEF WakeUp
    <3>2. IsInjective(blocked') /\ Range(blocked') = Range(blocked) \ {c}
      BY <2>1, <3>1, RemoveFirstRange
    <3> QED
      BY <3>2 DEF InBlocked
  <2>3. CASE f = "suspReady"
    <3>1. blocked' = blocked
      BY <2>3 DEF WakeUp
    <3> QED
      BY <2>1, <2>3, <3>1 DEF InBlocked
  <2> QED
    BY <2>2, <2>3
<1>3. Ordered'
  BY <1>2 DEF Ordered
<1>4. ASSUME NEW q \in Procs \ {c} PROVE Same(q) /\ Kept(q)
  BY <1>1, <1>2 DEF Same, Kept, clientVars
<1>5. Answering(c)'
  <2>1. Answering(c) /\ Awaits(c)
    BY DEF Core, InvOf, Awaits, IsBlocked, Parked
  <2>2. step[c] = "none"
    BY <2>1 DEF Answering, IsBlocked
  <2> QED
    BY <2>1, <2>2, AnsweringKept
<1>6. InvOf(c)'
  BY <1>2, <1>5 DEF InvOf, AtSemaphores, AtDevices
<1> QED
  BY <1>2, <1>3, <1>4, <1>6, StepOfOne

(* The process that a semaphore's thread has, or is about to have. *)
LEMMA HasType ==
    ASSUME TypeInv, NEW s \in Sems, semStep[s] \in {"read", "ready", "suspReady", "report"}
    PROVE  semProc[s] \in Procs
BY DEF TypeInv, ThreadTypes, Hands

(* A step of a semaphore's thread. *)
LEMMA SemThreadCore == ASSUME TypeInv, Core, NEW s \in Sems, SemThread(s) PROVE Core'
<1> USE DEF planVars, cpuVars
<1>a. SemTest(s) \/ SemTake(s) \/ SemRead(s) \/ SemWakeUp(s) \/ SemAllocated(s)
  BY DEF SemThread
<1>b. UNCHANGED <<clientVars, step, device, ioStep>>
  BY <1>a DEF SemTest, SemTake, SemRead, SemWakeUp, SemAllocated
<1>c. /\ semStep \in [Sems -> {"test", "take", "read", "ready", "suspReady", "report"}]
      /\ semProc \in [Sems -> Procs \cup {NoProc}] /\ NoProc \notin Procs
  BY NobodyAssumption DEF TypeInv, ThreadTypes
<1>1. CASE SemTest(s) \/ SemAllocated(s)
  <2>1. /\ UNCHANGED <<proc, blocked, waiting>>
        /\ semStep'[s] \in {"take", "test"}
        /\ \A r \in Sems \ {s} : semStep'[r] = semStep[r] /\ semProc'[r] = semProc[r]
    BY <1>1, <1>c DEF SemTest, SemAllocated, semVars, Moves
  <2>2. \A q \in Procs : Same(q) /\ Kept(q)
    BY <1>b, <2>1 DEF Same, Kept, KeptOut, clientVars, Waiting, Has, InDevice, AtDevice, InBlocked
  <2>3. Ordered'
    BY <1>b, <2>1 DEF Core, Ordered
  <2> QED
    BY <2>2, <2>3, OtherKept DEF Core
<1>2. CASE SemTake(s)
  <2>1. UNCHANGED <<proc, blocked>>
    BY <1>2 DEF SemTake
  <2>2. CASE waiting[s] = <<>>
    <3>1. UNCHANGED queues
      BY <1>2, <1>b, <2>1, <2>2 DEF SemTake, queues
    <3>2. \A q \in Procs : Same(q)
      BY <1>b, <2>1 DEF Same, clientVars
    <3> QED
      BY <3>1, <3>2, QueuesKept, OtherKept DEF Core
  <2>3. CASE waiting[s] # <<>>
    <3>0. PICK c \in Procs : c = Head(waiting[s])
      <4>1. waiting[s] \in Seq(Procs)
        BY DEF TypeInv, QueueTypes
      <4> QED
        BY <2>3, <4>1, HeadTailRange
    <3>1. /\ semProc' = [semProc EXCEPT ![s] = c]
          /\ waiting' = [waiting EXCEPT ![s] = Tail(waiting[s])]
          /\ semStep' = [semStep EXCEPT ![s] = "read"]
      BY <1>2, <2>3, <3>0 DEF SemTake, Moves
    <3>2. /\ c \in Procs /\ c \in Range(waiting[s])
          /\ Range(waiting[s]) = Range(Tail(waiting[s])) \cup {c}
          /\ IsInjective(Tail(waiting[s])) /\ c \notin Range(Tail(waiting[s]))
      <4>1. waiting[s] \in Seq(Procs) /\ IsInjective(waiting[s])
        BY DEF TypeInv, QueueTypes, Core, Ordered
      <4> QED
        BY <2>3, <3>0, <4>1, HeadTailRange
    <3>3. /\ semProc'[s] = c /\ semStep'[s] = "read" /\ waiting'[s] = Tail(waiting[s])
          /\ \A r \in Sems \ {s} : semStep'[r] = semStep[r] /\ semProc'[r] = semProc[r]
                                   /\ waiting'[r] = waiting[r]
      BY <1>c, <3>1 DEF TypeInv, QueueTypes
    <3>4. Ordered'
      BY <1>b, <2>1, <3>2, <3>3 DEF Core, Ordered
    <3>5. ASSUME NEW q \in Procs \ {c} PROVE Same(q) /\ Kept(q)
      BY <1>b, <2>1, <3>2, <3>3 DEF Same, Kept, KeptOut, clientVars, Waiting, Has, InDevice,
                                    AtDevice, InBlocked
    <3>6. InvOf(c) /\ Waiting(s, c)
      BY <3>2 DEF Core, Waiting
    <3>7. Answering(c)'
      BY <1>b, <2>1, <3>2, <3>6, AnsweringKept DEF InvOf, Awaits, Answering
    <3>8. Call(c)' = Call(c) /\ Arg(c)' = Arg(c) /\ (IsBlocked(c)' <=> IsBlocked(c))
      BY <1>b, <2>1, SameCall DEF clientVars, IsBlocked
    <3>9. AtSemaphores(c)'
      BY <1>b, <2>1, <3>2, <3>3, <3>6, <3>8 DEF InvOf, AtSemaphores, Waiting, Has
    <3>10. AtDevices(c)' /\ (InBlocked(c)' => proc'[c] = "BLOCKED")
      BY <1>b, <2>1, <3>6, <3>8 DEF InvOf, AtDevices, InDevice, AtDevice, InBlocked
    <3> QED
      BY <3>2, <3>4, <3>5, <3>7, <3>9, <3>10, StepOfOne DEF InvOf
  <2> QED
    BY <2>2, <2>3
<1>3. CASE SemRead(s)
  <2>0. PICK c \in Procs : c = semProc[s]
    BY <1>3, HasType DEF SemRead
  <2>1. /\ UNCHANGED <<proc, blocked, waiting, semProc>> /\ semStep[s] = "read"
        /\ semStep' = [semStep EXCEPT ![s] =
                          IF Found(c) = "lost" THEN "report" ELSE Found(c)]
    BY <1>3, <2>0 DEF SemRead, semVars, Moves
  <2>3. /\ semProc[s] = c
        /\ semStep'[s] = IF proc[c] = "BLOCKED" THEN "ready"
                         ELSE IF proc[c] = "SUSP_BLOCKED" THEN "suspReady" ELSE "report"
        /\ \A r \in Sems \ {s} : semStep'[r] = semStep[r]
    BY <1>c, <2>0, <2>1 DEF Found
  <2>4. Ordered'
    BY <1>b, <2>1 DEF Core, Ordered
  <2>5. ASSUME NEW q \in Procs \ {c} PROVE Same(q) /\ Kept(q)
    BY <1>b, <2>1, <2>3 DEF Same, Kept, KeptOut, clientVars, Waiting, Has, InDevice, AtDevice,
                            InBlocked
  <2>6. InvOf(c) /\ Has(s, c)
    BY <2>1, <2>3 DEF Core, Has
  <2>7. Answering(c)'
    BY <1>b, <2>1, <2>6, AnsweringKept DEF InvOf, Awaits, Answering
  <2>8. Call(c)' = Call(c) /\ Arg(c)' = Arg(c) /\ (IsBlocked(c)' <=> IsBlocked(c))
    BY <1>b, <2>1, SameCall DEF clientVars, IsBlocked
  <2>9. AtSemaphores(c)'
    BY <2>1, <2>3, <1>b, <2>6, <2>8 DEF InvOf, AtSemaphores, Waiting, Has, IsBlocked
  <2>10. AtDevices(c)' /\ (InBlocked(c)' => proc'[c] = "BLOCKED")
    BY <1>b, <2>1, <2>6, <2>8 DEF InvOf, AtDevices, InDevice, AtDevice, InBlocked
  <2> QED
    BY <2>4, <2>5, <2>7, <2>9, <2>10, StepOfOne DEF InvOf
<1>4. CASE SemWakeUp(s)
  <2>0. PICK c \in Procs : c = semProc[s]
    BY <1>4, HasType DEF SemWakeUp
  <2>1. /\ UNCHANGED <<waiting, semProc>> /\ semStep[s] \in {"ready", "suspReady"}
        /\ WakeUp(c, semStep[s])
        /\ semStep' = [semStep EXCEPT ![s] = "report"]
    BY <1>4, <2>0 DEF SemWakeUp, semVars, Moves
  <2>3. /\ semProc[s] = c /\ semStep'[s] = "report"
        /\ \A r \in Sems \ {s} : semStep'[r] = semStep[r]
    BY <1>c, <2>0, <2>1
  <2>4. InvOf(c) /\ Has(s, c)
    BY <2>1, <2>3 DEF Core, Has
  <2>5. IsBlocked(c) /\ (semStep[s] = "suspReady" => proc[c] = "SUSP_BLOCKED")
    BY <2>1, <2>4 DEF InvOf, AtSemaphores, IsBlocked
  <2>6. ASSUME NEW r \in Sems
        PROVE  ~Waiting(r, c)' /\ ~Has(r, c)' /\ IsInjective(waiting'[r])
    <3>1. Waiting(r, c) \/ Has(r, c) => r = s
      BY <2>4 DEF InvOf, AtSemaphores
    <3>2. ~Waiting(s, c)
      BY <2>4 DEF InvOf, AtSemaphores
    <3> QED
      BY <2>1, <2>3, <3>1, <3>2 DEF Waiting, Has, Core, Ordered
  <2>7. ASSUME NEW d \in Devices
        PROVE  ~InDevice(d, c)' /\ ~AtDevice(d, c)' /\ IsInjective(device'[d])
    <3>1. ~InDevice(d, c)
      BY <2>4 DEF InvOf, AtSemaphores, AtDevices
    <3>2. ~AtDevice(d, c)
      BY <3>1, AtDeviceIn DEF TypeInv
    <3> QED
      BY <1>b, <3>1, <3>2 DEF InDevice, AtDevice, Core, Ordered
  <2>8. ASSUME NEW q \in Procs \ {c} PROVE KeptOut(q)
    BY <1>b, <2>1, <2>3 DEF KeptOut, Waiting, Has, InDevice, AtDevice
  <2> QED
    BY <1>b, <2>1, <2>5, <2>6, <2>7, <2>8, WokenCore
<1> QED
  BY <1>a, <1>1, <1>2, <1>3, <1>4

(* A step of a device: the one it serves is blocked in its call. *)
LEMMA DeviceCore ==
    ASSUME TypeInv, Core, NEW d \in Devices, IORead(d) \/ IOWakeUp(d)
    PROVE  Core' /\ (IOWakeUp(d) => \A q \in Procs : q = Head(device[d]) => ~InBlocked(q)')
<1> USE DEF planVars, cpuVars, semVars
<1>0. PICK c \in Procs : c = Head(device[d])
  <2>1. device[d] # <<>> /\ device[d] \in Seq(Procs)
    BY DEF IORead, IOWakeUp, TypeInv, Hands, QueueTypes
  <2> QED
    BY <2>1, HeadTailRange
<1>1. device[d] # <<>> /\ UNCHANGED <<clientVars, step, waiting, semStep, semProc>>
  BY DEF IORead, IOWakeUp, TypeInv, Hands
<1>2. /\ c \in Procs /\ c \in Range(device[d])
      /\ Range(device[d]) = Range(Tail(device[d])) \cup {c}
      /\ IsInjective(Tail(device[d])) /\ c \notin Range(Tail(device[d]))
  <2>1. device[d] \in Seq(Procs) /\ IsInjective(device[d])
    BY DEF TypeInv, QueueTypes, Core, Ordered
  <2> QED
    BY <1>0, <1>1, <2>1, HeadTailRange
<1>3. AtDevice(d, c) /\ InDevice(d, c) /\ InvOf(c)
  BY <1>0, <1>1, <1>2 DEF AtDevice, InDevice, Core
<1>4. IsBlocked(c)
  BY <1>3 DEF InvOf, AtDevices
<1>5. CASE IORead(d)
  <2>1. /\ UNCHANGED <<proc, blocked, device>>
        /\ ioStep' = [ioStep EXCEPT ![d] = Found(c)] /\ ioStep[d] = "sleep"
    BY <1>0, <1>5 DEF IORead
  <2>2. /\ ioStep'[d] \in {"ready", "suspReady"}
        /\ ioStep'[d] = "suspReady" => proc[c] = "SUSP_BLOCKED"
        /\ \A e \in Devices \ {d} : ioStep'[e] = ioStep[e]
    BY <1>4, <2>1 DEF Found, IsBlocked, TypeInv, ThreadTypes
  <2>3. ASSUME NEW q \in Procs \ {c} PROVE Same(q) /\ Kept(q)
    BY <1>1, <2>1, <2>2, <1>0 DEF Same, Kept, KeptOut, clientVars, Waiting, Has, InDevice,
                                  AtDevice, InBlocked
  <2>4. Ordered'
    BY <1>1, <2>1 DEF Core, Ordered
  <2>5. Answering(c)'
    BY <1>1, <1>2, <1>3, <2>1, AnsweringKept DEF InvOf, Awaits, Answering
  <2>6. Call(c)' = Call(c) /\ Arg(c)' = Arg(c) /\ (IsBlocked(c)' <=> IsBlocked(c))
    BY <1>1, <2>1, SameCall DEF clientVars, IsBlocked
  <2>7. AtDevices(c)'
    BY <1>3, <2>1, <2>2, <2>6 DEF InvOf, AtDevices, InDevice, AtDevice
  <2>8. AtSemaphores(c)' /\ (InBlocked(c)' => proc'[c] = "BLOCKED")
    BY <1>1, <1>3, <2>1, <2>6 DEF InvOf, AtSemaphores, Waiting, Has, InBlocked
  <2>9. ~IOWakeUp(d)
    BY <2>1 DEF IOWakeUp
  <2> QED
    BY <1>2, <2>3, <2>4, <2>5, <2>7, <2>8, <2>9, StepOfOne DEF InvOf
<1>6. CASE IOWakeUp(d)
  <2>1. /\ WakeUp(c, ioStep[d]) /\ ioStep[d] # "sleep"
        /\ device' = [device EXCEPT ![d] = Tail(device[d])]
        /\ ioStep' = [ioStep EXCEPT ![d] = "sleep"]
    BY <1>0, <1>6 DEF IOWakeUp
  <2>2. /\ ioStep[d] \in {"ready", "suspReady"}
        /\ ioStep[d] = "suspReady" => proc[c] = "SUSP_BLOCKED"
    BY <1>3, <2>1 DEF InvOf, AtDevices, TypeInv, ThreadTypes
  <2>3. /\ ioStep'[d] = "sleep" /\ device'[d] = Tail(device[d])
        /\ \A e \in Devices \ {d} : device'[e] = device[e] /\ ioStep'[e] = ioStep[e]
    BY <2>1 DEF TypeInv, ThreadTypes, QueueTypes
  <2>4. ASSUME NEW r \in Sems
        PROVE  ~Waiting(r, c)' /\ ~Has(r, c)' /\ IsInjective(waiting'[r])
    <3>1. ~Waiting(r, c) /\ ~Has(r, c)
      BY <1>3 DEF InvOf, AtSemaphores, AtDevices
    <3> QED
      BY <1>1, <3>1 DEF Waiting, Has, Core, Ordered
  <2>5. ASSUME NEW e \in Devices
        PROVE  ~InDevice(e, c)' /\ ~AtDevice(e, c)' /\ IsInjective(device'[e])
    <3>1. ~InDevice(e, c)' /\ IsInjective(device'[e])
      <4>1. InDevice(e, c) => e = d
        BY <1>3 DEF InvOf, AtDevices
      <4> QED
        BY <1>2, <2>3, <4>1 DEF InDevice, Core, Ordered
    <3>2. ~AtDevice(e, c)'
      <4>1. QueueTypes'
        <5>1. TypeInv'
          BY <1>6, OutsideTypeStep
        <5> QED
          BY <5>1 DEF TypeInv
      <4>2. device'[e] \in Seq(Procs)
        BY <4>1 DEF QueueTypes
      <4>3. device'[e] # <<>> => Head(device'[e]) \in Range(device'[e])
        BY <4>2, HeadTailRange
      <4> QED
        BY <3>1, <4>3 DEF AtDevice, InDevice
    <3> QED
      BY <3>1, <3>2
  <2>6. ASSUME NEW q \in Procs \ {c} PROVE KeptOut(q)
    BY <1>1, <1>2, <2>3 DEF KeptOut, Waiting, Has, InDevice, AtDevice
  <2>7. Core' /\ ~InBlocked(c)'
    BY <1>1, <1>2, <1>4, <2>1, <2>2, <2>4, <2>5, <2>6, WokenCore
  <2> QED
    BY <2>7, <1>0
<1> QED
  BY <1>5, <1>6

(* The last process to block is suspended. *)
LEMMA SuspendCore == ASSUME TypeInv, Core, Suspend PROVE Core'
<1>0. PICK c \in Procs : c = Last(blocked)
  BY LastFrontSeq DEF Suspend, TypeInv, QueueTypes
<1>1. /\ blocked # <<>> /\ blocked' = Front(blocked)
      /\ proc' = [proc EXCEPT ![c] = "SUSP_BLOCKED"]
      /\ UNCHANGED <<clientVars, step, waiting, semStep, semProc, device, ioStep>>
  BY <1>0 DEF Suspend, cpuVars, semVars, threadVars
<1>2. /\ c \in Procs /\ InBlocked(c)
      /\ IsInjective(blocked') /\ Range(blocked') = Range(blocked) \ {c}
  <2>1. blocked \in Seq(Procs) /\ IsInjective(blocked)
    BY DEF TypeInv, QueueTypes, Core, Ordered
  <2> QED
    BY <1>0, <1>1, <2>1, LastFrontRange DEF InBlocked
<1>3. /\ InvOf(c) /\ proc[c] = "BLOCKED" /\ proc'[c] = "SUSP_BLOCKED"
      /\ \A q \in Procs \ {c} : proc'[q] = proc[q]
  BY <1>1, <1>2 DEF Core, InvOf, TypeInv, ProcTypes
<1>4. Ordered'
  BY <1>1, <1>2 DEF Core, Ordered
<1>5. ASSUME NEW q \in Procs \ {c} PROVE Same(q) /\ Kept(q)
  BY <1>1, <1>2, <1>3 DEF Same, Kept, KeptOut, clientVars, Waiting, Has, InDevice, AtDevice,
                          InBlocked
<1>6. Answering(c)'
  <2>1. Answering(c) /\ Awaits(c) /\ step[c] = "none" /\ step'[c] = "none"
    BY <1>1, <1>3 DEF InvOf, Answering, Awaits, Parked
  <2> QED
    BY <1>1, <1>2, <2>1, AnsweringKept
<1>7. Call(c)' = Call(c) /\ Arg(c)' = Arg(c) /\ IsBlocked(c)'
  BY <1>1, <1>3, SameCall DEF clientVars, IsBlocked
<1>8. AtSemaphores(c)'
  BY <1>1, <1>3, <1>7 DEF InvOf, AtSemaphores, Waiting, Has
<1>9. AtDevices(c)' /\ ~InBlocked(c)'
  BY <1>1, <1>2, <1>3, <1>7 DEF InvOf, AtDevices, InDevice, AtDevice, InBlocked
<1> QED
  BY <1>2, <1>4, <1>5, <1>6, <1>8, <1>9, StepOfOne DEF InvOf

-----------------------------------------------------------------------------
(* The detector *)

\* Who is chosen requests a semaphore
Chosen == \A c \in Procs : c \in Outcomes => \E s \in Sems : request[c][s] # 0

(* A search chooses who requests. *)
LEMMA OutcomeRequests == Matrices => Chosen
BY VictimRequests, NobodyAssumption DEF Chosen, Outcomes

(* A step before the process is freed. *)
LEMMA TerminatingCore ==
    ASSUME TypeInv, Core, Search \/ KillWithdraw \/ KillPost PROVE Core'
<1> USE DEF cpuVars, planVars
<1>1. /\ UNCHANGED <<clientVars, proc, step, device, semStep, semProc, ioStep>>
      /\ blocked' = blocked \/ blocked' = RemoveFirst(blocked, locked)
      /\ waiting' = waiting
            \/ waiting' = [waiting EXCEPT ![Current] = RemoveFirst(waiting[Current], locked)]
  BY DEF Search, KillWithdraw, KillPost, threadVars, semVars
<1>2. IsInjective(blocked') /\ \A q : InBlocked(q)' => InBlocked(q)
  <2>1. blocked \in Seq(Procs) /\ IsInjective(blocked)
    BY DEF TypeInv, QueueTypes, Core, Ordered
  <2> QED
    BY <1>1, <2>1, RemoveFirstRange DEF InBlocked
<1>3. ASSUME NEW s \in Sems
      PROVE  IsInjective(waiting'[s]) /\ \A q : Waiting(s, q)' => Waiting(s, q)
  <2>1. waiting[s] \in Seq(Procs) /\ IsInjective(waiting[s])
    BY DEF TypeInv, QueueTypes, Core, Ordered
  <2>2. waiting'[s] = waiting[s] \/ waiting'[s] = RemoveFirst(waiting[s], locked)
    BY <1>1 DEF TypeInv, QueueTypes
  <2> QED
    BY <2>1, <2>2, RemoveFirstRange DEF Waiting
<1>4. Ordered'
  BY <1>1, <1>2, <1>3 DEF Core, Ordered
<1>5. ASSUME NEW q \in Procs PROVE Same(q) /\ Kept(q)
  BY <1>1, <1>2, <1>3 DEF Same, Kept, KeptOut, clientVars, Has, InDevice, AtDevice
<1> QED
  BY <1>4, <1>5, OtherKept DEF Core

(* The process that no thread has is freed, and its client told. *)
LEMMA DestroyCore ==
    ASSUME TypeInv, Core, VictimInv, KillDestroy, ~InUse(locked) PROVE Core'
<1>0. PICK c \in Procs : c = locked
  BY DEF KillDestroy, Terminating
<1>1. /\ Pending = {} /\ Reply(c, "ERROR")
      /\ proc' = [proc EXCEPT ![c] = "none"]
      /\ UNCHANGED step /\ UNCHANGED queues
  BY <1>0 DEF KillDestroy, TellServers, Becomes, queues, cpuVars, semVars, threadVars
<1>2. /\ IsBlocked(c)
      /\ \A s \in Sems : ~Waiting(s, c) /\ semProc[s] # c /\ asking[c][s] = 0
      /\ \A d \in Devices : ~InDevice(d, c)
  BY <1>0 DEF InUse, IsBlocked, Waiting, InDevice
<1>3. ~InBlocked(c)
  <2>1. \A s \in Sems : request[c][s] = 0
    BY <1>0, <1>1 DEF Pending
  <2> QED
    BY <1>0, <1>2, <2>1 DEF VictimInv
<1>4. NoQueue(c)
  BY <1>2, <1>3, AtDeviceIn DEF NoQueue, Has, TypeInv
<1>5. InvOf(c) /\ Answering(c) /\ Awaits(c) /\ step[c] = "none"
  BY <1>2 DEF Core, InvOf, Answering, Awaits, IsBlocked, Parked
<1>6. proc'[c] = "none" /\ step'[c] = "none"
  BY <1>1, <1>5 DEF TypeInv, ProcTypes
<1>7. Answering(c)'
  BY <1>1, <1>5, <1>6, AnsweredLater DEF Parked
<1>8. \A q \in Procs \ {c} : Same(q)
  BY <1>1, OthersServed DEF Answers
<1> QED
  BY <1>1, <1>4, <1>7, <1>8, QueuesKept, PetitionCore DEF Core

(* A process that another thread has is freed: nobody else is answered. *)
LEMMA DestroyedInUse ==
    ASSUME TypeInv, OneAnswerPerCall, fault = "no", KillDestroy, InUse(locked)
    PROVE  OneAnswerPerCall' /\ fault' # "no"
<1>0. PICK c \in Procs : c = locked
  BY DEF KillDestroy, Terminating
<1>1. /\ fault' = "freed" /\ locked' = c /\ Reply(c, "ERROR")
      /\ proc' = [proc EXCEPT ![c] = "none"] /\ UNCHANGED step
  BY <1>0 DEF KillDestroy, TellServers, Becomes, cpuVars
<1>2. \A q \in Procs \ {c} : Same(q)
  BY <1>1, OthersServed DEF Answers
<1>3. ASSUME NEW q \in Procs, inbox'[q] # <<>>
      PROVE  \/ Len(inbox'[q]) = 1 /\ ~Ended(q)' /\ ~due'[q]
             \/ fault' = "freed" /\ locked' = q
  <2>1. CASE q = c
    BY <1>1, <2>1
  <2>2. CASE q # c
    BY <1>2, <1>3, <2>2, SameCall DEF Same, OneAnswerPerCall
  <2> QED
    BY <2>1, <2>2
<1> QED
  BY <1>1, <1>3 DEF OneAnswerPerCall

(* Where the process that is being terminated still is. *)
LEMMA VictimStep ==
    ASSUME TypeInv, Core, VictimInv, Next, Core' PROVE VictimInv'
<1> USE DEF cpuVars, semVars, threadVars, planVars, ddVars
<1>a. ASSUME locked' = locked,
             \A c \in Procs : locked = c /\ InBlocked(c)' => InBlocked(c),
             \A c \in Procs, s \in Sems :
                locked = c /\ (request[c][s] # 0 \/ asking[c][s] # 0) =>
                    request'[c][s] # 0 \/ asking'[c][s] # 0,
             \A c \in Procs, d \in Devices :
                locked = c /\ InBlocked(c)' /\ InDevice(d, c) => InDevice(d, c)'
      PROVE  VictimInv'
  BY <1>a DEF VictimInv
<1>b. DetectorAsleep => \A c \in Procs : locked # c
  BY NobodyAssumption DEF DetectorAsleep
<1>1. ASSUME NEW c \in Procs, ClientStep(c) PROVE VictimInv'
  <2>1. UNCHANGED <<locked, blocked, request, asking, device>>
    BY <1>1 DEF ClientStep, Return, HostStep, MemoryPetition
  <2> QED
    BY <1>a, <2>1 DEF InBlocked, InDevice
<1>2. ASSUME NEW c \in Procs, KernelStep(c) PROVE VictimInv'
  <2>1. CASE \/ Connect(c) \/ Admit(c) \/ Dispatch(c) \/ SemInit(c) \/ SemFails(c)
             \/ SemWaitPass(c) \/ SemWaitInstant(c) \/ SemWaitEnqueue(c) \/ SemPost(c)
             \/ SemPostRelease(c) \/ RelayPetition(c) \/ RelayTerminate(c)
             \/ TerminateProcess(c)
    <3>1. UNCHANGED <<locked, blocked, request, asking, device>>
      BY <2>1 DEF Connect, Admit, Dispatch, SemInit, SemFails, PetitionFails, SemWaitPass,
                  SemWaitInstant, SemWaitEnqueue, SemPost, SemPostRelease, RelayPetition,
                  RelayTerminate, TerminateProcess
    <3> QED
      BY <1>a, <3>1 DEF InBlocked, InDevice
  <2>2. CASE \/ SemDestroy(c) \/ TerminateLeave(c) \/ \E s \in Sems : SemWaitRequested(c, s)
    <3>1. locked' = locked /\ DetectorAsleep
      BY <2>2 DEF SemDestroy, TerminateLeave, SemWaitRequested
    <3> QED
      BY <1>b, <3>1 DEF VictimInv
  <2>3. CASE SemWaitBlock(c)
    <3> DEFINE s == Arg(c)
    <3>1. /\ UNCHANGED <<locked, request, device>> /\ step[c] = "block" /\ Block(c)
          /\ asking' = [asking EXCEPT ![c][s] = asking[c][s] + 1]
      BY <2>3 DEF SemWaitBlock
    <3>2. s \in Sems /\ proc[c] = "EXEC"
      BY <3>1, ProgramCalls DEF Core, InvOf, Answering, Awaits, Unanswered, TypeInv
    <3> HIDE DEF s
    <3>3. \A q \in Procs \ {c} : InBlocked(q)' => InBlocked(q)
      BY <3>1, <3>2, Blocking
    <3>4. /\ asking[c][s] \in Nat /\ asking'[c][s] = asking[c][s] + 1
          /\ \A q \in Procs \ {c} : asking'[q] = asking[q]
      BY <3>1, <3>2 DEF TypeInv, ProcTypes
    <3>5. asking'[c][s] # 0
      BY <3>4
    <3> QED
      BY <3>1, <3>2, <3>3, <3>4, <3>5 DEF VictimInv, InDevice
  <2>4. CASE CallIO(c)
    <3>0. PICK d \in Devices : d = Arg(c)
      BY <2>4, ProgramCalls DEF CallIO, Serves, TypeInv
    <3>1. /\ UNCHANGED <<locked, request, asking>> /\ Block(c)
          /\ device' = [device EXCEPT ![d] = Append(device[d], c)] /\ proc[c] = "EXEC"
      BY <2>4, <3>0 DEF CallIO, Serves
    <3>2. \A q \in Procs \ {c} : InBlocked(q)' => InBlocked(q)
      BY <3>1, Blocking
    <3>3. InDevice(d, c)' /\ \A q \in Procs, e \in Devices : InDevice(e, q) => InDevice(e, q)'
      <4>1. /\ device[d] \in Seq(Procs) /\ device'[d] = Append(device[d], c)
            /\ \A e \in Devices \ {d} : device'[e] = device[e]
        BY <3>1 DEF TypeInv, QueueTypes
      <4>2. Range(device'[d]) = Range(device[d]) \cup {c}
        BY <4>1, AppendRange
      <4> QED
        BY <4>1, <4>2 DEF InDevice
    <3> QED
      BY <3>1, <3>2, <3>3 DEF VictimInv
  <2> QED
    BY <1>2, <2>1, <2>2, <2>3, <2>4 DEF KernelStep
<1>3. ASSUME NEW s \in Sems, SemThread(s) PROVE VictimInv'
  <2>1. CASE SemAllocated(s)
    BY <1>b, <2>1 DEF SemAllocated, VictimInv
  <2>2. CASE SemTest(s) \/ SemTake(s) \/ SemRead(s)
    <3>1. UNCHANGED <<locked, blocked, request, asking, device>>
      BY <2>2 DEF SemTest, SemTake, SemRead
    <3> QED
      BY <1>a, <3>1 DEF InBlocked, InDevice
  <2>3. CASE SemWakeUp(s)
    <3>1. /\ UNCHANGED <<locked, request, asking, device>>
          /\ blocked' = blocked \/ blocked' = RemoveFirst(blocked, semProc[s])
      BY <2>3 DEF SemWakeUp, WakeUp
    <3>2. \A q : InBlocked(q)' => InBlocked(q)
      BY <3>1, RemoveFirstRange DEF InBlocked, TypeInv, QueueTypes, Core, Ordered
    <3> QED
      BY <1>a, <3>1, <3>2 DEF InDevice
  <2> QED
    BY <1>3, <2>1, <2>2, <2>3 DEF SemThread
<1>4. ASSUME NEW d \in Devices, IORead(d) PROVE VictimInv'
  BY <1>a, <1>4 DEF IORead, InBlocked, InDevice
<1>5. ASSUME NEW d \in Devices, IOWakeUp(d) PROVE VictimInv'
  <2>1. PICK c \in Procs : c = Head(device[d])
    <3>1. device[d] # <<>> /\ device[d] \in Seq(Procs)
      BY <1>5 DEF IOWakeUp, TypeInv, Hands, QueueTypes
    <3> QED
      BY <3>1, HeadTailRange
  <2>2. /\ UNCHANGED <<locked, request, asking>>
        /\ device' = [device EXCEPT ![d] = Tail(device[d])]
        /\ blocked' = blocked \/ blocked' = RemoveFirst(blocked, c)
    BY <1>5, <2>1 DEF IOWakeUp, WakeUp
  <2>3. ~InBlocked(c)'
    BY <1>5, <2>1, DeviceCore
  <2>4. \A q : InBlocked(q)' => InBlocked(q)
    BY <2>2, RemoveFirstRange DEF InBlocked, TypeInv, QueueTypes, Core, Ordered
  <2>5. ASSUME NEW q \in Procs \ {c}, NEW e \in Devices, InDevice(e, q) PROVE InDevice(e, q)'
    <3>1. device[d] # <<>> /\ device[d] \in Seq(Procs)
      BY <1>5 DEF IOWakeUp, TypeInv, Hands, QueueTypes
    <3>2. Range(device[d]) = Range(Tail(device[d])) \cup {c}
      BY <2>1, <3>1, HeadTailRange
    <3> QED
      BY <2>2, <2>5, <3>2 DEF InDevice, TypeInv, QueueTypes
  <2> QED
    BY <1>a, <2>2, <2>3, <2>4, <2>5
<1>6. CASE ReportOnForgotten
  BY <1>a, <1>6 DEF ReportOnForgotten, InBlocked, InDevice
<1>7. CASE Suspend
  <2>1. /\ UNCHANGED <<locked, request, asking, device>>
        /\ blocked # <<>> /\ blocked' = Front(blocked)
    BY <1>7 DEF Suspend
  <2>2. \A q : InBlocked(q)' => InBlocked(q)
    BY <2>1, LastFrontRange DEF InBlocked, TypeInv, QueueTypes, Core, Ordered
  <2> QED
    BY <1>a, <2>1, <2>2 DEF InDevice
<1>8. CASE Detector
  <2>1. CASE Search
    <3>1. locked' \in Outcomes /\ UNCHANGED <<request, asking>>
      BY <2>1 DEF Search
    <3> QED
      BY <3>1, OutcomeRequests DEF Chosen, VictimInv, TypeInv
  <2>2. CASE KillWithdraw
    <3>1. PICK c \in Procs : c = locked
      BY <2>2 DEF KillWithdraw, Terminating
    <3>2. /\ locked' = locked
          /\ blocked' = IF proc[c] = "BLOCKED" THEN RemoveFirst(blocked, c) ELSE blocked
      BY <2>2, <3>1 DEF KillWithdraw
    <3>3. blocked \in Seq(Procs) /\ IsInjective(blocked) /\ (InBlocked(c) => proc[c] = "BLOCKED")
      BY DEF TypeInv, QueueTypes, Core, Ordered, InvOf
    <3>4. ~InBlocked(c)'
      BY <3>2, <3>3, RemoveFirstRange DEF InBlocked
    <3> QED
      BY <3>1, <3>2, <3>4 DEF VictimInv
  <2>3. CASE KillPost
    BY <1>a, <2>3 DEF KillPost, InBlocked, InDevice
  <2>4. CASE KillDestroy
    <3>1. TypeInv' /\ Chosen'
      <4>1. TypeInv'
        BY <1>8, DetectorTypeStep
      <4>2. (Matrices => Chosen)'
        BY OutcomeRequests, PTL
      <4> QED
        BY <4>1, <4>2 DEF TypeInv
    <3>2. CASE InUse(locked)
      <4>1. UNCHANGED <<locked, blocked, asking, device>> /\ Pending = {} /\ locked \in Procs
        BY <2>4, <3>2 DEF KillDestroy, Terminating
      <4>2. \A s \in Sems : request[locked][s] = 0
        BY <4>1 DEF Pending
      <4> QED
        BY <4>1, <4>2 DEF VictimInv, InBlocked, InDevice
    <3>3. CASE ~InUse(locked)
      <4>1. locked' \in Outcomes'
        BY <2>4, <3>3 DEF KillDestroy
      <4> QED
        BY <3>1, <4>1 DEF Chosen, VictimInv
    <3> QED
      BY <3>2, <3>3
  <2> QED
    BY <1>8, <2>1, <2>2, <2>3, <2>4 DEF Detector
<1> QED
  BY <1>1, <1>2, <1>3, <1>4, <1>5, <1>6, <1>7, <1>8 DEF Next

-----------------------------------------------------------------------------
(* The invariant *)

(* It holds in the first state. *)
LEMMA InvInit == ASSUME Init PROVE Inv
<1>1. TypeInv
  BY TypeInit
<1>2. IsInjective(<<>>) /\ Range(<<>>) = {}
  BY DEF IsInjective, Range
<1>3. Ordered
  BY <1>2 DEF Init, Ordered
<1>4. ASSUME NEW c \in Procs PROVE InvOf(c)
  <2>1. Answering(c)
    BY DEF Init, Answering, Awaits, Parked
  <2>2. ~IsBlocked(c) /\ step[c] # "block" /\ ~InBlocked(c)
    BY <1>2 DEF Init, IsBlocked, InBlocked
  <2>3. AtSemaphores(c) /\ AtDevices(c)
    BY <1>2 DEF Init, AtSemaphores, AtDevices, Waiting, Has, InDevice, AtDevice
  <2> QED
    BY <2>1, <2>2, <2>3 DEF InvOf
<1>5. VictimInv
  BY NobodyAssumption DEF Init, VictimInv
<1>6. OneAnswerPerCall
  BY DEF Init, OneAnswerPerCall
<1> QED
  BY <1>1, <1>3, <1>4, <1>5, <1>6 DEF Inv, Core

(* Every step keeps it. *)
LEMMA InvStep == ASSUME Inv, [Next]_vars PROVE Inv'
<1>0. TypeInv /\ TypeInv'
  BY TypeStep DEF Inv
<1>1. CASE Next
  <2>1. fault = "no" /\ Core /\ VictimInv /\ OneAnswerPerCall
    BY <1>1 DEF Inv, Next
  <2>2. CASE KillDestroy /\ InUse(locked)
    BY <1>0, <2>1, <2>2, DestroyedInUse DEF Inv
  <2>3. CASE ~(KillDestroy /\ InUse(locked))
    <3>1. Core'
      <4>1. ASSUME NEW c \in Procs, ClientStep(c) \/ KernelStep(c) PROVE Core'
        BY <1>0, <2>1, <4>1, ClientCore, KernelCore
      <4>2. ASSUME NEW s \in Sems, SemThread(s) PROVE Core'
        BY <1>0, <2>1, <4>2, SemThreadCore
      <4>3. ASSUME NEW d \in Devices, IORead(d) \/ IOWakeUp(d) PROVE Core'
        BY <1>0, <2>1, <4>3, DeviceCore
      <4>4. CASE ReportOnForgotten
        <5>1. UNCHANGED queues /\ \A q \in Procs : Same(q)
          BY <4>4 DEF ReportOnForgotten, queues, Same, clientVars, cpuVars, semVars, threadVars,
                      planVars
        <5> QED
          BY <2>1, <5>1, QueuesKept, OtherKept DEF Core
      <4>5. CASE Suspend
        BY <1>0, <2>1, <4>5, SuspendCore
      <4>6. CASE Detector
        BY <1>0, <2>1, <2>3, <4>6, TerminatingCore, DestroyCore DEF Detector
      <4> QED
        BY <1>1, <4>1, <4>2, <4>3, <4>4, <4>5, <4>6 DEF Next
    <3>2. VictimInv'
      BY <1>0, <1>1, <2>1, <3>1, VictimStep
    <3>3. OneAnswerPerCall'
      BY <3>1 DEF OneAnswerPerCall, Core, InvOf, Answering
    <3> QED
      BY <1>0, <3>1, <3>2, <3>3 DEF Inv
  <2> QED
    BY <2>2, <2>3
<1>2. CASE UNCHANGED vars
  <2>1. UNCHANGED <<clientVars, proc, step, asking, request, locked, fault>> /\ UNCHANGED queues
    BY <1>2 DEF vars, queues, planVars, cpuVars, semVars, threadVars, ddVars
  <2>2. \A q \in Procs : Same(q) /\ (Ended(q)' <=> Ended(q))
    BY <2>1, SameCall DEF Same, clientVars
  <2>3. Core => Core'
    BY <2>1, <2>2, QueuesKept, OtherKept DEF Core
  <2>4. VictimInv => VictimInv'
    BY <2>1 DEF VictimInv, InBlocked, InDevice, queues
  <2>5. OneAnswerPerCall'
    BY <2>1, <2>2 DEF Inv, OneAnswerPerCall, Same
  <2> QED
    BY <1>0, <2>1, <2>3, <2>4, <2>5 DEF Inv
<1> QED
  BY <1>1, <1>2

(* A call has one answer, until the detector has freed a process that another thread has:
   then its client may have two. *)
THEOREM CarpinchosOneAnswerPerCall == Spec => []OneAnswerPerCall
<1>1. Inv => OneAnswerPerCall
  BY DEF Inv
<1>2. Init => Inv
  BY InvInit
<1>3. Inv /\ [Next]_vars => Inv'
  BY InvStep
<1> QED
  BY <1>1, <1>2, <1>3, PTL DEF Spec

(* The matrices keep their form. *)
LEMMA AlwaysMatrices == Spec => []Matrices
<1>1. TypeInv => Matrices
  BY DEF TypeInv
<1>2. Init => TypeInv
  BY TypeInit
<1>3. TypeInv /\ [Next]_vars => TypeInv'
  BY TypeStep
<1> QED
  BY <1>1, <1>2, <1>3, PTL DEF Spec

(* The processes the detector finds stuck are exactly those that no order of finishing can
   free, in whatever state the clients, the semaphores and the terminations have left it. *)
THEOREM CarpinchosStuckExact == Spec => []StuckExact
BY AlwaysMatrices, SearchStuckExact, PTL

(* With semaphores that one process holds at a time the detector finds every process that
   waits for itself through others. *)
THEOREM CarpinchosMutexCyclesFound == Spec => []MutexCyclesFound
BY AlwaysMatrices, SearchMutexCyclesFound, PTL

(* The detector only terminates processes that wait for themselves through others. *)
THEOREM CarpinchosVictimsInCycle == Spec => []VictimsInCycle
BY AlwaysMatrices, SearchVictimsInCycle, PTL

=============================================================================
