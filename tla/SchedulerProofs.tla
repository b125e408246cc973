-------------------------- MODULE SchedulerProofs --------------------------
(***************************************************************************)
(* Proofs that the scheduler keeps its safety invariants whatever the      *)
(* number of control blocks, CPUs, devices and slots: first the types, the *)
(* tokens and the wake-ups; then that each process is in one place, with   *)
(* the state that place calls for, and that the slots are accounted for.   *)
(***************************************************************************)
EXTENDS Scheduler, CommonLemmas

-----------------------------------------------------------------------------
(* The types, strengthened with what the threads hold: the process a step appends to a
   queue is one. *)
TypeInv == TypeOK /\ ThreadsHoldProcess

USE DEF States, CPUSteps, IOSteps

(* The scheduler begins with typed queues and no process in the hands of a thread. *)
LEMMA TypeInit == Init => TypeInv
BY SchedulerAssumption DEF SchedulerAssumption, Init, TypeInv, TypeOK, ThreadsHoldProcess

(* Every action keeps the types. *)
LEMMA TypeStep == TypeInv /\ [Next]_vars => TypeInv'
<1> SUFFICES ASSUME TypeInv, [Next]_vars PROVE TypeInv'
  OBVIOUS
<1> USE SchedulerAssumption DEF SchedulerAssumption, TypeInv, TypeOK, ThreadsHoldProcess, queues, counters,
        planners, cpuVars, ioVars, PutToReady, SignalMediumTerm, MustSuspend
<1>1. ASSUME NEW p \in Procs, Connect(p) PROVE TypeInv'
  BY <1>1 DEF Connect
<1>2. CASE LongTermWait
  BY <1>2 DEF LongTermWait
<1>3. CASE LongTermAdmit
  BY <1>3 DEF LongTermAdmit
<1>4. CASE UnsuspenderTakeSlot
  BY <1>4 DEF UnsuspenderTakeSlot
<1>5. CASE UnsuspenderTakeNew
  BY <1>5 DEF UnsuspenderTakeNew
<1>6. CASE UnsuspenderForward
  BY <1>6 DEF UnsuspenderForward
<1>7. CASE UnsuspenderAdmit
  BY <1>7 DEF UnsuspenderAdmit
<1>8. CASE MediumTermWait
  BY <1>8 DEF MediumTermWait
<1>9. CASE MediumTermSuspend
  BY <1>9, LastFrontSeq DEF MediumTermSuspend
<1>10. ASSUME NEW c \in CPUs, CPUTake(c) PROVE TypeInv'
  BY <1>10 DEF CPUTake
<1>11. ASSUME NEW c \in CPUs, CPUSignal(c) PROVE TypeInv'
  BY <1>11 DEF CPUSignal
<1>12. ASSUME NEW c \in CPUs, CallIOBlock(c) PROVE TypeInv'
  BY <1>12 DEF CallIOBlock
<1>13. ASSUME NEW c \in CPUs, NEW d \in Devices, CallIOEnqueue(c, d) PROVE TypeInv'
  BY <1>13 DEF CallIOEnqueue
<1>14. ASSUME NEW c \in CPUs, TerminateProcess(c) PROVE TypeInv'
  BY <1>14 DEF TerminateProcess
<1>15. ASSUME NEW c \in CPUs, TerminatePost(c) PROVE TypeInv'
  BY <1>15 DEF TerminatePost
<1>16. ASSUME NEW c \in CPUs, TerminateCupos(c) PROVE TypeInv'
  BY <1>16 DEF TerminateCupos
<1>17. ASSUME NEW d \in Devices, IOTake(d) PROVE TypeInv'
  BY <1>17 DEF IOTake
<1>18. ASSUME NEW d \in Devices, IOReadState(d) PROVE TypeInv'
  BY <1>18 DEF IOReadState
<1>19. ASSUME NEW d \in Devices, IORemoveBlocked(d) PROVE TypeInv'
  BY <1>19, RemoveFirstSeq DEF IORemoveBlocked
<1>20. ASSUME NEW d \in Devices, IOPutToReady(d) PROVE TypeInv'
  <2>1. leftBehind' \in [Procs -> Nat]
    BY <1>20 DEF IOPutToReady, One
  <2>2. state' \in [Procs -> States] /\ readyQueue' \in SUBSET Procs
    BY <1>20 DEF IOPutToReady, States
  <2> QED
    BY <1>20, <2>1, <2>2 DEF IOPutToReady
<1>21. ASSUME NEW d \in Devices, IORemoveSuspended(d) PROVE TypeInv'
  BY <1>21 DEF IORemoveSuspended
<1>22. ASSUME NEW d \in Devices, IOPutSuspendedReady(d) PROVE TypeInv'
  BY <1>22 DEF IOPutSuspendedReady
<1>23. ASSUME NEW d \in Devices, IONotify(d) PROVE TypeInv'
  BY <1>23 DEF IONotify
<1>24. CASE UNCHANGED vars
  BY <1>24 DEF vars
<1> QED
  BY <1>1, <1>2, <1>3, <1>4, <1>5, <1>6, <1>7, <1>8, <1>9, <1>10, <1>11, <1>12, <1>13, <1>14, <1>15, <1>16, <1>17, <1>18, <1>19, <1>20, <1>21, <1>22, <1>23, <1>24
     DEF Next, LongTermThread, UnsuspenderThread, MediumTermThread, CPUThread, CallIO,
         Terminate, IODeviceThread

(* Every behaviour is well typed: the semaphores never go below zero, the queues hold
   processes, and every thread is at one of its steps. *)
THEOREM SchedulerTypes == Spec => []TypeOK
<1>1. TypeInv => TypeOK
  BY DEF TypeInv
<1> QED
  BY TypeInit, TypeStep, <1>1, PTL DEF Spec

-----------------------------------------------------------------------------
(* The wake-ups of the medium-term thread *)

(* Only a CPU thread makes the medium term's condition true without signalling in the same
   critical section, when it takes the last ready process; it is then at "signal". *)
LEMMA WakeupStep == TypeInv /\ NoLostWakeup /\ [Next]_vars => NoLostWakeup'
<1> SUFFICES ASSUME TypeInv, NoLostWakeup, [Next]_vars PROVE NoLostWakeup'
  OBVIOUS
<1> USE DEF TypeInv, TypeOK, NoLostWakeup, MustSuspend, queues, counters, planners,
        cpuVars, ioVars, PutToReady, SignalMediumTerm
<1>1. ASSUME NEW p \in Procs, Connect(p) PROVE NoLostWakeup'
  BY <1>1 DEF Connect
<1>2. CASE LongTermWait
  BY <1>2 DEF LongTermWait
<1>3. CASE LongTermAdmit
  BY <1>3 DEF LongTermAdmit
<1>4. CASE UnsuspenderTakeSlot
  BY <1>4 DEF UnsuspenderTakeSlot
<1>5. CASE UnsuspenderTakeNew
  BY <1>5 DEF UnsuspenderTakeNew
<1>6. CASE UnsuspenderForward
  BY <1>6 DEF UnsuspenderForward
<1>7. CASE UnsuspenderAdmit
  BY <1>7 DEF UnsuspenderAdmit
<1>8. CASE MediumTermWait
  BY <1>8 DEF MediumTermWait
<1>9. CASE MediumTermSuspend
  BY <1>9 DEF MediumTermSuspend
<1>10. ASSUME NEW c \in CPUs, CPUTake(c) PROVE NoLostWakeup'
  BY <1>10 DEF CPUTake
<1>11. ASSUME NEW c \in CPUs, CPUSignal(c) PROVE NoLostWakeup'
  BY <1>11 DEF CPUSignal
<1>12. ASSUME NEW c \in CPUs, CallIOBlock(c) PROVE NoLostWakeup'
  BY <1>12 DEF CallIOBlock
<1>13. ASSUME NEW c \in CPUs, NEW d \in Devices, CallIOEnqueue(c, d) PROVE NoLostWakeup'
  BY <1>13 DEF CallIOEnqueue
<1>14. ASSUME NEW c \in CPUs, TerminateProcess(c) PROVE NoLostWakeup'
  BY <1>14 DEF TerminateProcess
<1>15. ASSUME NEW c \in CPUs, TerminatePost(c) PROVE NoLostWakeup'
  BY <1>15 DEF TerminatePost
<1>16. ASSUME NEW c \in CPUs, TerminateCupos(c) PROVE NoLostWakeup'
  BY <1>16 DEF TerminateCupos
<1>17. ASSUME NEW d \in Devices, IOTake(d) PROVE NoLostWakeup'
  BY <1>17 DEF IOTake
<1>18. ASSUME NEW d \in Devices, IOReadState(d) PROVE NoLostWakeup'
  BY <1>18 DEF IOReadState
<1>19. ASSUME NEW d \in Devices, IORemoveBlocked(d) PROVE NoLostWakeup'
  <2>1. blockedQueue = <<>> => RemoveFirst(blockedQueue, ioProc[d]) = <<>>
    BY DEF RemoveFirst
  <2> QED
    BY <1>19, <2>1 DEF IORemoveBlocked
<1>20. ASSUME NEW d \in Devices, IOPutToReady(d) PROVE NoLostWakeup'
  BY <1>20 DEF IOPutToReady
<1>21. ASSUME NEW d \in Devices, IORemoveSuspended(d) PROVE NoLostWakeup'
  BY <1>21 DEF IORemoveSuspended
<1>22. ASSUME NEW d \in Devices, IOPutSuspendedReady(d) PROVE NoLostWakeup'
  BY <1>22 DEF IOPutSuspendedReady
<1>23. ASSUME NEW d \in Devices, IONotify(d) PROVE NoLostWakeup'
  BY <1>23 DEF IONotify
<1>24. CASE UNCHANGED vars
  BY <1>24 DEF vars
<1> QED
  BY <1>1, <1>2, <1>3, <1>4, <1>5, <1>6, <1>7, <1>8, <1>9, <1>10, <1>11, <1>12,
     <1>13, <1>14, <1>15, <1>16, <1>17, <1>18, <1>19, <1>20, <1>21, <1>22, <1>23, <1>24
     DEF Next, LongTermThread, UnsuspenderThread, MediumTermThread, CPUThread, CallIO,
         Terminate, IODeviceThread

(* The medium-term thread never misses a wake-up. *)
THEOREM SchedulerNoLostWakeup == Spec => []NoLostWakeup
<1>1. Init => NoLostWakeup
  BY DEF Init, NoLostWakeup
<1> QED
  BY TypeInit, TypeStep, WakeupStep, <1>1, PTL DEF Spec

-----------------------------------------------------------------------------
(* The tokens of the admitting threads *)

(* LongTermNeverStuck is not inductive alone: that a forwarded token has a process in the
   new queue follows from the count of all the tokens when no process is suspended. *)
TokenInv == AdmissionTokens /\ LongTermNeverStuck

(* No process waits and no token is there at the start. *)
LEMMA TokenInit == Init => TokenInv
<1> SUFFICES ASSUME Init PROVE TokenInv
  OBVIOUS
<1>1. NumAt(Devices, ioPc, "notify") = 0
  BY SchedulerAssumption, NumAtType DEF SchedulerAssumption, Init
<1> QED
  BY <1>1
     DEF Init, TokenInv, AdmissionTokens, LongTermNeverStuck, TokensInHand, One

(* Each step that takes or leaves a token takes or leaves a process that waits. *)
LEMMA TokenStep == TypeInv /\ TokenInv /\ [Next]_vars => TokenInv'
<1> SUFFICES ASSUME TypeInv, TokenInv, [Next]_vars PROVE TokenInv'
  OBVIOUS
<1> DEFINE notifying == NumAt(Devices, ioPc, "notify")
<1>a. notifying \in Nat
  BY SchedulerAssumption, NumAtType DEF SchedulerAssumption
<1>b. UNCHANGED ioPc => notifying' = notifying
  OBVIOUS
<1>c. ASSUME NEW d \in Devices, NEW s, ioPc' = [ioPc EXCEPT ![d] = s], s # "notify",
             ioPc[d] # "notify"
      PROVE  notifying' = notifying
  BY <1>c DEF NumAt, AtStep, TypeInv, TypeOK
<1> HIDE DEF notifying
<1>f. TokensInHand \in Int
  BY DEF TokensInHand, One, TypeInv, TypeOK
<1>d. AdmissionTokens <=> semNewProcess + TokensInHand + notifying
                            = Len(newQueue) + Len(suspendedReadyQueue)
  BY DEF AdmissionTokens, notifying
<1>e. AdmissionTokens' <=> semNewProcess' + TokensInHand' + notifying'
                            = Len(newQueue') + Len(suspendedReadyQueue')
  BY DEF AdmissionTokens, notifying
<1>g. /\ semNewProcess \in Int /\ Len(newQueue) \in Int /\ Len(suspendedReadyQueue) \in Int
      /\ semNewProcess + TokensInHand + notifying = Len(newQueue) + Len(suspendedReadyQueue)
  BY <1>d DEF TypeInv, TypeOK, TokenInv
<1> USE <1>a, <1>b, <1>d, <1>e DEF TypeInv, TypeOK, TokenInv, LongTermNeverStuck,
        queues, counters, planners, cpuVars, ioVars, PutToReady, SignalMediumTerm
<1>1. ASSUME NEW p \in Procs, Connect(p) PROVE TokenInv'
  <2>1. TokensInHand' = TokensInHand /\ Len(newQueue') = Len(newQueue) + 1
    BY <1>1 DEF Connect, TokensInHand, One
  <2>2. AdmissionTokens'
    <3>1. /\ semNewProcess' = semNewProcess + 1
          /\ notifying' = notifying /\ suspendedReadyQueue' = suspendedReadyQueue
      BY <1>1 DEF Connect
    <3> HIDE <1>d, <1>e DEF TypeInv, TokenInv
    <3>2. semNewProcess' + TokensInHand' + notifying'
              = Len(newQueue') + Len(suspendedReadyQueue')
      BY <3>1, <2>1, <1>f, <1>g
    <3> QED
      BY <3>2, <1>e
  <2>3. LongTermNeverStuck'
    BY <1>1 DEF Connect, TokensInHand, One
  <2> QED
    BY <2>2, <2>3
<1>2. CASE LongTermWait
  BY <1>2 DEF LongTermWait, TokensInHand, One
<1>3. CASE LongTermAdmit
  BY <1>3 DEF LongTermAdmit, TokensInHand, One
<1>4. CASE UnsuspenderTakeSlot
  BY <1>4 DEF UnsuspenderTakeSlot, TokensInHand, One
<1>5. CASE UnsuspenderTakeNew
  <2>1. TokensInHand' = TokensInHand + 1
    BY <1>5 DEF UnsuspenderTakeNew, TokensInHand, One
  <2>2. AdmissionTokens'
    <3>1. /\ semNewProcess' = semNewProcess - 1 /\ newQueue' = newQueue
          /\ notifying' = notifying /\ suspendedReadyQueue' = suspendedReadyQueue
      BY <1>5 DEF UnsuspenderTakeNew
    <3> HIDE <1>d, <1>e DEF TypeInv, TokenInv
    <3>2. semNewProcess' + TokensInHand' + notifying'
              = Len(newQueue') + Len(suspendedReadyQueue')
      BY <3>1, <2>1, <1>f, <1>g
    <3> QED
      BY <3>2, <1>e
  <2>3. LongTermNeverStuck'
    BY <1>5 DEF UnsuspenderTakeNew, TokensInHand, One
  <2> QED
    BY <2>2, <2>3
<1>6. CASE UnsuspenderForward
  BY <1>6 DEF UnsuspenderForward, TokensInHand, One
<1>7. CASE UnsuspenderAdmit
  <2>1. TokensInHand' = TokensInHand - 1 /\ Len(suspendedReadyQueue') = Len(suspendedReadyQueue) - 1
    BY <1>7 DEF UnsuspenderAdmit, TokensInHand, One
  <2>2. AdmissionTokens'
    BY <1>7, <2>1, <1>f DEF UnsuspenderAdmit
  <2>3. LongTermNeverStuck'
    BY <1>7 DEF UnsuspenderAdmit, TokensInHand, One
  <2> QED
    BY <2>2, <2>3
<1>8. CASE MediumTermWait
  BY <1>8 DEF MediumTermWait, TokensInHand, One
<1>9. CASE MediumTermSuspend
  BY <1>9 DEF MediumTermSuspend, TokensInHand, One
<1>10. ASSUME NEW c \in CPUs, CPUTake(c) PROVE TokenInv'
  BY <1>10 DEF CPUTake, TokensInHand, One
<1>11. ASSUME NEW c \in CPUs, CPUSignal(c) PROVE TokenInv'
  BY <1>11 DEF CPUSignal, TokensInHand, One
<1>12. ASSUME NEW c \in CPUs, CallIOBlock(c) PROVE TokenInv'
  BY <1>12 DEF CallIOBlock, TokensInHand, One
<1>13. ASSUME NEW c \in CPUs, NEW d \in Devices, CallIOEnqueue(c, d) PROVE TokenInv'
  BY <1>13 DEF CallIOEnqueue, TokensInHand, One
<1>14. ASSUME NEW c \in CPUs, TerminateProcess(c) PROVE TokenInv'
  BY <1>14 DEF TerminateProcess, TokensInHand, One
<1>15. ASSUME NEW c \in CPUs, TerminatePost(c) PROVE TokenInv'
  BY <1>15 DEF TerminatePost, TokensInHand, One
<1>16. ASSUME NEW c \in CPUs, TerminateCupos(c) PROVE TokenInv'
  BY <1>16 DEF TerminateCupos, TokensInHand, One
<1>17. ASSUME NEW d \in Devices, IOTake(d) PROVE TokenInv'
  <2>1. notifying' = notifying
    BY <1>17, <1>c DEF IOTake
  <2> QED
    BY <1>17, <2>1 DEF IOTake, TokensInHand, One
<1>18. ASSUME NEW d \in Devices, IOReadState(d) PROVE TokenInv'
  <2>1. notifying' = notifying
    BY <1>18, <1>c DEF IOReadState
  <2> QED
    BY <1>18, <2>1 DEF IOReadState, TokensInHand, One
<1>19. ASSUME NEW d \in Devices, IORemoveBlocked(d) PROVE TokenInv'
  <2>1. notifying' = notifying
    BY <1>19, <1>c DEF IORemoveBlocked
  <2> QED
    BY <1>19, <2>1 DEF IORemoveBlocked, TokensInHand, One
<1>20. ASSUME NEW d \in Devices, IOPutToReady(d) PROVE TokenInv'
  <2>1. notifying' = notifying
    BY <1>20, <1>c DEF IOPutToReady
  <2> QED
    BY <1>20, <2>1 DEF IOPutToReady, TokensInHand, One
<1>21. ASSUME NEW d \in Devices, IORemoveSuspended(d) PROVE TokenInv'
  <2>1. notifying' = notifying
    BY <1>21, <1>c DEF IORemoveSuspended
  <2> QED
    BY <1>21, <2>1 DEF IORemoveSuspended, TokensInHand, One
<1>22. ASSUME NEW d \in Devices, IOPutSuspendedReady(d) PROVE TokenInv'
  <2>1. /\ AtStep(Devices, ioPc', "notify") = AtStep(Devices, ioPc, "notify") \cup {d}
        /\ d \notin AtStep(Devices, ioPc, "notify")
    BY <1>22 DEF IOPutSuspendedReady, AtStep
  <2>2. notifying' = notifying + 1
    BY <2>1, SchedulerAssumption, NumAtChange DEF SchedulerAssumption, notifying
  <2>3. TokensInHand' = TokensInHand
    BY <1>22 DEF IOPutSuspendedReady, TokensInHand
  <2>4. AdmissionTokens'
    <3>1. /\ semNewProcess' = semNewProcess /\ newQueue' = newQueue
          /\ Len(suspendedReadyQueue') = Len(suspendedReadyQueue) + 1
      BY <1>22 DEF IOPutSuspendedReady
    <3> HIDE <1>d, <1>e DEF TypeInv, TokenInv
    <3>2. semNewProcess' + TokensInHand' + notifying'
              = Len(newQueue') + Len(suspendedReadyQueue')
      BY <3>1, <2>2, <2>3, <1>f, <1>g
    <3> QED
      BY <3>2, <1>e
  <2>5. LongTermNeverStuck'
    BY <1>22 DEF IOPutSuspendedReady
  <2> QED
    BY <2>4, <2>5
<1>23. ASSUME NEW d \in Devices, IONotify(d) PROVE TokenInv'
  <2>1. /\ AtStep(Devices, ioPc', "notify") = AtStep(Devices, ioPc, "notify") \ {d}
        /\ d \in AtStep(Devices, ioPc, "notify")
    BY <1>23 DEF IONotify, AtStep
  <2>2. notifying' = notifying - 1
    BY <2>1, SchedulerAssumption, NumAtChange DEF SchedulerAssumption, notifying
  <2>3. TokensInHand' = TokensInHand
    BY <1>23 DEF IONotify, TokensInHand
  <2>4. AdmissionTokens'
    <3>1. /\ semNewProcess' = semNewProcess + 1
          /\ UNCHANGED <<newQueue, suspendedReadyQueue>>
      BY <1>23 DEF IONotify
    <3> HIDE <1>d, <1>e DEF TypeInv, TokenInv
    <3>2. semNewProcess' + TokensInHand' + notifying'
              = Len(newQueue') + Len(suspendedReadyQueue')
      BY <3>1, <2>2, <2>3, <1>f, <1>g
    <3> QED
      BY <3>2, <1>e
  <2>5. LongTermNeverStuck'
    BY <1>23 DEF IONotify
  <2> QED
    BY <2>4, <2>5
<1>24. CASE UNCHANGED vars
  BY <1>24 DEF vars, TokensInHand, One
<1> QED
  BY <1>1, <1>2, <1>3, <1>4, <1>5, <1>6, <1>7, <1>8, <1>9, <1>10, <1>11, <1>12,
     <1>13, <1>14, <1>15, <1>16, <1>17, <1>18, <1>19, <1>20, <1>21, <1>22, <1>23, <1>24
     DEF Next, LongTermThread, UnsuspenderThread, MediumTermThread, CPUThread, CallIO,
         Terminate, IODeviceThread

(* Admission tokens are conserved. *)
THEOREM SchedulerAdmissionTokens == Spec => []AdmissionTokens
<1>1. TokenInv => AdmissionTokens
  BY DEF TokenInv
<1> QED
  BY TypeInit, TypeStep, TokenInit, TokenStep, <1>1, PTL DEF Spec

(* The long-term thread never blocks on the new queue inside mutex_mediumTerm. *)
THEOREM SchedulerLongTermNeverStuck == Spec => []LongTermNeverStuck
<1>1. TokenInv => LongTermNeverStuck
  BY DEF TokenInv
<1> QED
  BY TypeInit, TypeStep, TokenInit, TokenStep, <1>1, PTL DEF Spec

-----------------------------------------------------------------------------
(* The program's count of free slots *)

(* cuposLibres begins as the degree, like sem_multiprogram. *)
LEMMA CuposInit == Init => CuposTracksSlots
<1> SUFFICES ASSUME Init PROVE CuposTracksSlots
  OBVIOUS
<1>1. NumAt(CPUs, cpuPc, "cupos") = 0
  BY SchedulerAssumption, NumAtType DEF SchedulerAssumption, Init
<1> QED
  BY <1>1, SchedulerAssumption DEF SchedulerAssumption, Init, CuposTracksSlots, SlotsInHand, One

(* Each step that moves a slot or counts it does both, up to the threads in between. *)
LEMMA CuposStep == TypeInv /\ CuposTracksSlots /\ [Next]_vars => CuposTracksSlots'
<1> SUFFICES ASSUME TypeInv, CuposTracksSlots, [Next]_vars PROVE CuposTracksSlots'
  OBVIOUS
<1> DEFINE uncounted == NumAt(CPUs, cpuPc, "cupos")
<1>a. uncounted \in Nat
  BY SchedulerAssumption, NumAtType DEF SchedulerAssumption
<1>b. UNCHANGED cpuPc => uncounted' = uncounted
  OBVIOUS
<1>c. ASSUME NEW c \in CPUs, NEW s, cpuPc' = [cpuPc EXCEPT ![c] = s], s # "cupos",
             cpuPc[c] # "cupos"
      PROVE  uncounted' = uncounted
  BY <1>c DEF NumAt, AtStep, TypeInv, TypeOK
<1> HIDE DEF uncounted
<1>d. CuposTracksSlots <=> cuposLibres + uncounted = semMultiprogram + SlotsInHand
  BY DEF CuposTracksSlots, uncounted
<1>e. CuposTracksSlots' <=> cuposLibres' + uncounted' = semMultiprogram' + SlotsInHand'
  BY DEF CuposTracksSlots, uncounted
<1> USE <1>a, <1>b, <1>d, <1>e DEF TypeInv, TypeOK, SlotsInHand, One, queues, counters,
        planners, cpuVars, ioVars, PutToReady, SignalMediumTerm
<1>1. ASSUME NEW p \in Procs, Connect(p) PROVE CuposTracksSlots'
  BY <1>1 DEF Connect
<1>2. CASE LongTermWait
  BY <1>2 DEF LongTermWait
<1>3. CASE LongTermAdmit
  BY <1>3 DEF LongTermAdmit
<1>4. CASE UnsuspenderTakeSlot
  BY <1>4 DEF UnsuspenderTakeSlot
<1>5. CASE UnsuspenderTakeNew
  BY <1>5 DEF UnsuspenderTakeNew
<1>6. CASE UnsuspenderForward
  BY <1>6 DEF UnsuspenderForward
<1>7. CASE UnsuspenderAdmit
  BY <1>7 DEF UnsuspenderAdmit
<1>8. CASE MediumTermWait
  BY <1>8 DEF MediumTermWait
<1>9. CASE MediumTermSuspend
  BY <1>9 DEF MediumTermSuspend
<1>10. ASSUME NEW c \in CPUs, CPUTake(c) PROVE CuposTracksSlots'
  <2>1. uncounted' = uncounted
    BY <1>10, <1>c DEF CPUTake
  <2> QED
    BY <1>10, <2>1 DEF CPUTake
<1>11. ASSUME NEW c \in CPUs, CPUSignal(c) PROVE CuposTracksSlots'
  <2>1. uncounted' = uncounted
    BY <1>11, <1>c DEF CPUSignal
  <2> QED
    BY <1>11, <2>1 DEF CPUSignal
<1>12. ASSUME NEW c \in CPUs, CallIOBlock(c) PROVE CuposTracksSlots'
  <2>1. uncounted' = uncounted
    BY <1>12, <1>c DEF CallIOBlock
  <2> QED
    BY <1>12, <2>1 DEF CallIOBlock
<1>13. ASSUME NEW c \in CPUs, NEW d \in Devices, CallIOEnqueue(c, d) PROVE CuposTracksSlots'
  <2>1. uncounted' = uncounted
    BY <1>13, <1>c DEF CallIOEnqueue
  <2> QED
    BY <1>13, <2>1 DEF CallIOEnqueue
<1>14. ASSUME NEW c \in CPUs, TerminateProcess(c) PROVE CuposTracksSlots'
  <2>1. uncounted' = uncounted
    BY <1>14, <1>c DEF TerminateProcess
  <2> QED
    BY <1>14, <2>1 DEF TerminateProcess
<1>15. ASSUME NEW c \in CPUs, TerminatePost(c) PROVE CuposTracksSlots'
  <2>1. /\ AtStep(CPUs, cpuPc', "cupos") = AtStep(CPUs, cpuPc, "cupos") \cup {c}
        /\ c \notin AtStep(CPUs, cpuPc, "cupos")
    BY <1>15 DEF TerminatePost, AtStep
  <2>2. uncounted' = uncounted + 1
    BY <2>1, SchedulerAssumption, NumAtChange DEF SchedulerAssumption, uncounted
  <2> QED
    BY <1>15, <2>2 DEF TerminatePost
<1>16. ASSUME NEW c \in CPUs, TerminateCupos(c) PROVE CuposTracksSlots'
  <2>1. /\ AtStep(CPUs, cpuPc', "cupos") = AtStep(CPUs, cpuPc, "cupos") \ {c}
        /\ c \in AtStep(CPUs, cpuPc, "cupos")
    BY <1>16 DEF TerminateCupos, AtStep
  <2>2. uncounted' = uncounted - 1
    BY <2>1, SchedulerAssumption, NumAtChange DEF SchedulerAssumption, uncounted
  <2> QED
    BY <1>16, <2>2 DEF TerminateCupos
<1>17. ASSUME NEW d \in Devices, IOTake(d) PROVE CuposTracksSlots'
  BY <1>17 DEF IOTake
<1>18. ASSUME NEW d \in Devices, IOReadState(d) PROVE CuposTracksSlots'
  BY <1>18 DEF IOReadState
<1>19. ASSUME NEW d \in Devices, IORemoveBlocked(d) PROVE CuposTracksSlots'
  BY <1>19 DEF IORemoveBlocked
<1>20. ASSUME NEW d \in Devices, IOPutToReady(d) PROVE CuposTracksSlots'
  BY <1>20 DEF IOPutToReady
<1>21. ASSUME NEW d \in Devices, IORemoveSuspended(d) PROVE CuposTracksSlots'
  BY <1>21 DEF IORemoveSuspended
<1>22. ASSUME NEW d \in Devices, IOPutSuspendedReady(d) PROVE CuposTracksSlots'
  BY <1>22 DEF IOPutSuspendedReady
<1>23. ASSUME NEW d \in Devices, IONotify(d) PROVE CuposTracksSlots'
  BY <1>23 DEF IONotify
<1>24. CASE UNCHANGED vars
  BY <1>24 DEF vars
<1> QED
  BY <1>1, <1>2, <1>3, <1>4, <1>5, <1>6, <1>7, <1>8, <1>9, <1>10, <1>11, <1>12,
     <1>13, <1>14, <1>15, <1>16, <1>17, <1>18, <1>19, <1>20, <1>21, <1>22, <1>23, <1>24
     DEF Next, LongTermThread, UnsuspenderThread, MediumTermThread, CPUThread, CallIO,
         Terminate, IODeviceThread

(* cuposLibres never drifts from the slots of sem_multiprogram. *)
THEOREM SchedulerCuposTracksSlots == Spec => []CuposTracksSlots
BY TypeInit, TypeStep, CuposInit, CuposStep, PTL DEF Spec

HIDE DEF States, CPUSteps, IOSteps


-----------------------------------------------------------------------------
(* The inductive invariant: where each process is *)

\* The states of a process from callIO until its device has made it ready
Away == {"BLOCKED", "SUSP_BLOCKED"}

QueuesDistinct ==
    /\ IsInjective(newQueue)
    /\ IsInjective(blockedQueue)
    /\ IsInjective(suspendedReadyQueue)
    /\ \A d \in Devices : IsInjective(ioQueue[d])

\* Each place is for processes of one state, or away
StateOfPlace ==
    /\ \A p \in Procs : p \in Range(newQueue) <=> state[p] = "NEW"
    /\ \A p \in Procs : p \in readyQueue <=> state[p] = "READY"
    /\ \A c \in CPUs : cpuPc[c] \in {"signal", "run"} => state[cpuProc[c]] = "EXEC"
    /\ \A c \in CPUs : cpuPc[c] = "enqueue" => state[cpuProc[c]] \in Away
    /\ \A d \in Devices : \A p \in Range(ioQueue[d]) : state[p] \in Away
    /\ \A d \in Devices : ioProc[d] \in Procs => state[ioProc[d]] \in Away
    /\ \A d \in Devices :
          ioPc[d] \in {"suspended", "suspReady"} => state[ioProc[d]] = "SUSP_BLOCKED"
    /\ \A p \in Range(suspendedReadyQueue) : state[p] = "SUSP_BLOCKED"

\* A thread has no process but between the step that takes one and the one that hands it on
HeldByThread ==
    /\ \A c \in CPUs : cpuProc[c] \in Procs => cpuPc[c] \in {"signal", "run", "enqueue"}
    /\ \A d \in Devices : ioProc[d] \in Procs => ioPc[d] \notin {"take", "notify"}

\* No two of the places that states do not tell apart have the same process
OnePlace ==
    /\ \A c, e \in CPUs : cpuProc[c] \in Procs /\ cpuProc[c] = cpuProc[e] => c = e
    /\ \A d, e \in Devices : ioProc[d] \in Procs /\ ioProc[d] = ioProc[e] => d = e
    /\ \A d, e \in Devices : \A p \in Range(ioQueue[d]) : p \in Range(ioQueue[e]) => d = e
    /\ \A c \in CPUs, d \in Devices : cpuProc[c] \in Procs =>
          cpuProc[c] # ioProc[d] /\ cpuProc[c] \notin Range(ioQueue[d])
    /\ \A d, e \in Devices : ioProc[d] \notin Range(ioQueue[e])
    /\ \A p \in Range(suspendedReadyQueue) :
          /\ \A c \in CPUs : cpuProc[c] # p
          /\ \A d \in Devices : ioProc[d] # p /\ p \notin Range(ioQueue[d])

\* No process is dropped by all of them
SomePlace ==
    /\ \A p \in Procs : state[p] = "EXEC" => \E c \in CPUs : cpuProc[c] = p
    /\ \A p \in Procs : state[p] \in Away =>
          \/ \E c \in CPUs : cpuProc[c] = p
          \/ \E d \in Devices : p \in Range(ioQueue[d]) \/ ioProc[d] = p
          \/ p \in Range(suspendedReadyQueue)

PlaceInv ==
    /\ QueuesDistinct
    /\ StateOfPlace
    /\ HeldByThread
    /\ OnePlace
    /\ SomePlace
    /\ BlockedQueuesExact

(* Each step moves a process from one place to another and leaves the rest where they are. *)
LEMMA PlaceStep == TypeInv /\ PlaceInv /\ [Next]_vars => PlaceInv'
<1> SUFFICES ASSUME TypeInv, PlaceInv, [Next]_vars PROVE PlaceInv'
  OBVIOUS
<1> USE SchedulerAssumption DEF SchedulerAssumption, TypeInv, TypeOK, ThreadsHoldProcess, PlaceInv, Away,
        queues, counters, planners, cpuVars, ioVars, PutToReady, SignalMediumTerm
<1>a. /\ Range(newQueue) \subseteq Procs /\ Range(blockedQueue) \subseteq Procs
      /\ Range(suspendedReadyQueue) \subseteq Procs
      /\ \A d \in Devices : Range(ioQueue[d]) \subseteq Procs
  BY RangeOfSeq
<1>1. ASSUME NEW p \in Procs, Connect(p) PROVE PlaceInv'
  <2>1. Range(newQueue') = Range(newQueue) \cup {p} /\ IsInjective(newQueue')
    BY <1>1, AppendRange DEF Connect, QueuesDistinct, StateOfPlace, HeldByThread, OnePlace, BlockedQueuesExact
  <2>2. QueuesDistinct'
    BY <1>1, <2>1 DEF Connect, QueuesDistinct
  <2>3. StateOfPlace'
    BY <1>1, <2>1 DEF Connect, StateOfPlace, OnePlace, HeldByThread, BlockedQueuesExact
  <2>4. HeldByThread'
    BY <1>1, <2>1 DEF Connect, HeldByThread
  <2>5. OnePlace'
    BY <1>1, <2>1 DEF Connect, OnePlace, StateOfPlace, HeldByThread
  <2>6. SomePlace'
    BY <1>1, <2>1 DEF Connect, SomePlace, StateOfPlace
  <2>7. BlockedQueuesExact'
    BY <1>1, <2>1 DEF Connect, BlockedQueuesExact, StateOfPlace, OnePlace, HeldByThread, Suspended, IsInjective
  <2> QED
    BY <2>2, <2>3, <2>4, <2>5, <2>6, <2>7
<1>2. CASE LongTermWait
  <2>1. QueuesDistinct'
    BY <1>2 DEF LongTermWait, QueuesDistinct
  <2>2. StateOfPlace'
    BY <1>2 DEF LongTermWait, StateOfPlace, OnePlace, HeldByThread, BlockedQueuesExact
  <2>3. HeldByThread'
    BY <1>2 DEF LongTermWait, HeldByThread
  <2>4. OnePlace'
    BY <1>2 DEF LongTermWait, OnePlace, StateOfPlace, HeldByThread
  <2>5. SomePlace'
    BY <1>2 DEF LongTermWait, SomePlace, StateOfPlace
  <2>6. BlockedQueuesExact'
    BY <1>2 DEF LongTermWait, BlockedQueuesExact, StateOfPlace, OnePlace, HeldByThread, Suspended, IsInjective
  <2> QED
    BY <2>1, <2>2, <2>3, <2>4, <2>5, <2>6
<1>3. CASE LongTermAdmit
  <2>1. /\ Head(newQueue) \in Procs /\ Head(newQueue) \in Range(newQueue)
        /\ Range(newQueue) = Range(newQueue') \cup {Head(newQueue)}
        /\ IsInjective(newQueue') /\ Head(newQueue) \notin Range(newQueue')
    BY <1>3, HeadTailRange DEF LongTermAdmit, QueuesDistinct, StateOfPlace, HeldByThread, OnePlace, BlockedQueuesExact
  <2>2. QueuesDistinct'
    BY <1>3, <2>1 DEF LongTermAdmit, QueuesDistinct
  <2>3. StateOfPlace'
    BY <1>3, <2>1 DEF LongTermAdmit, StateOfPlace, OnePlace, HeldByThread, BlockedQueuesExact
  <2>4. HeldByThread'
    BY <1>3, <2>1 DEF LongTermAdmit, HeldByThread
  <2>5. OnePlace'
    BY <1>3, <2>1 DEF LongTermAdmit, OnePlace, StateOfPlace, HeldByThread
  <2>6. SomePlace'
    BY <1>3, <2>1 DEF LongTermAdmit, SomePlace, StateOfPlace
  <2>7. BlockedQueuesExact'
    BY <1>3, <2>1 DEF LongTermAdmit, BlockedQueuesExact, StateOfPlace, OnePlace, HeldByThread, Suspended, IsInjective
  <2> QED
    BY <2>2, <2>3, <2>4, <2>5, <2>6, <2>7
<1>4. CASE UnsuspenderTakeSlot
  <2>1. QueuesDistinct'
    BY <1>4 DEF UnsuspenderTakeSlot, QueuesDistinct
  <2>2. StateOfPlace'
    BY <1>4 DEF UnsuspenderTakeSlot, StateOfPlace, OnePlace, HeldByThread, BlockedQueuesExact
  <2>3. HeldByThread'
    BY <1>4 DEF UnsuspenderTakeSlot, HeldByThread
  <2>4. OnePlace'
    BY <1>4 DEF UnsuspenderTakeSlot, OnePlace, StateOfPlace, HeldByThread
  <2>5. SomePlace'
    BY <1>4 DEF UnsuspenderTakeSlot, SomePlace, StateOfPlace
  <2>6. BlockedQueuesExact'
    BY <1>4 DEF UnsuspenderTakeSlot, BlockedQueuesExact, StateOfPlace, OnePlace, HeldByThread, Suspended, IsInjective
  <2> QED
    BY <2>1, <2>2, <2>3, <2>4, <2>5, <2>6
<1>5. CASE UnsuspenderTakeNew
  <2>1. QueuesDistinct'
    BY <1>5 DEF UnsuspenderTakeNew, QueuesDistinct
  <2>2. StateOfPlace'
    BY <1>5 DEF UnsuspenderTakeNew, StateOfPlace, OnePlace, HeldByThread, BlockedQueuesExact
  <2>3. HeldByThread'
    BY <1>5 DEF UnsuspenderTakeNew, HeldByThread
  <2>4. OnePlace'
    BY <1>5 DEF UnsuspenderTakeNew, OnePlace, StateOfPlace, HeldByThread
  <2>5. SomePlace'
    BY <1>5 DEF UnsuspenderTakeNew, SomePlace, StateOfPlace
  <2>6. BlockedQueuesExact'
    BY <1>5 DEF UnsuspenderTakeNew, BlockedQueuesExact, StateOfPlace, OnePlace, HeldByThread, Suspended, IsInjective
  <2> QED
    BY <2>1, <2>2, <2>3, <2>4, <2>5, <2>6
<1>6. CASE UnsuspenderForward
  <2>1. QueuesDistinct'
    BY <1>6 DEF UnsuspenderForward, QueuesDistinct
  <2>2. StateOfPlace'
    BY <1>6 DEF UnsuspenderForward, StateOfPlace, OnePlace, HeldByThread, BlockedQueuesExact
  <2>3. HeldByThread'
    BY <1>6 DEF UnsuspenderForward, HeldByThread
  <2>4. OnePlace'
    BY <1>6 DEF UnsuspenderForward, OnePlace, StateOfPlace, HeldByThread
  <2>5. SomePlace'
    BY <1>6 DEF UnsuspenderForward, SomePlace, StateOfPlace
  <2>6. BlockedQueuesExact'
    BY <1>6 DEF UnsuspenderForward, BlockedQueuesExact, StateOfPlace, OnePlace, HeldByThread, Suspended, IsInjective
  <2> QED
    BY <2>1, <2>2, <2>3, <2>4, <2>5, <2>6
<1>7. CASE UnsuspenderAdmit
  <2>1. /\ Head(suspendedReadyQueue) \in Procs /\ Head(suspendedReadyQueue) \in Range(suspendedReadyQueue)
        /\ Range(suspendedReadyQueue) = Range(suspendedReadyQueue') \cup {Head(suspendedReadyQueue)}
        /\ IsInjective(suspendedReadyQueue')
        /\ Head(suspendedReadyQueue) \notin Range(suspendedReadyQueue')
    BY <1>7, HeadTailRange DEF UnsuspenderAdmit, QueuesDistinct, StateOfPlace, HeldByThread, OnePlace, BlockedQueuesExact
  <2>2. QueuesDistinct'
    BY <1>7, <2>1 DEF UnsuspenderAdmit, QueuesDistinct
  <2>3. StateOfPlace'
    BY <1>7, <2>1 DEF UnsuspenderAdmit, StateOfPlace, OnePlace, HeldByThread, BlockedQueuesExact
  <2>4. HeldByThread'
    BY <1>7, <2>1 DEF UnsuspenderAdmit, HeldByThread
  <2>5. OnePlace'
    BY <1>7, <2>1 DEF UnsuspenderAdmit, OnePlace, StateOfPlace, HeldByThread
  <2>6. SomePlace'
    BY <1>7, <2>1 DEF UnsuspenderAdmit, SomePlace, StateOfPlace
  <2>7. BlockedQueuesExact'
    BY <1>7, <2>1 DEF UnsuspenderAdmit, BlockedQueuesExact, StateOfPlace, OnePlace, HeldByThread, Suspended, IsInjective
  <2> QED
    BY <2>2, <2>3, <2>4, <2>5, <2>6, <2>7
<1>8. CASE MediumTermWait
  <2>1. QueuesDistinct'
    BY <1>8 DEF MediumTermWait, QueuesDistinct
  <2>2. StateOfPlace'
    BY <1>8 DEF MediumTermWait, StateOfPlace, OnePlace, HeldByThread, BlockedQueuesExact
  <2>3. HeldByThread'
    BY <1>8 DEF MediumTermWait, HeldByThread
  <2>4. OnePlace'
    BY <1>8 DEF MediumTermWait, OnePlace, StateOfPlace, HeldByThread
  <2>5. SomePlace'
    BY <1>8 DEF MediumTermWait, SomePlace, StateOfPlace
  <2>6. BlockedQueuesExact'
    BY <1>8 DEF MediumTermWait, BlockedQueuesExact, StateOfPlace, OnePlace, HeldByThread, Suspended, IsInjective
  <2> QED
    BY <2>1, <2>2, <2>3, <2>4, <2>5, <2>6
<1>9. CASE MediumTermSuspend
  <2>1. /\ Last(blockedQueue) \in Procs /\ Last(blockedQueue) \in Range(blockedQueue)
        /\ Range(blockedQueue') = Range(blockedQueue) \ {Last(blockedQueue)}
        /\ IsInjective(blockedQueue')
    BY <1>9, LastFrontRange, LastFrontSeq DEF MediumTermSuspend, MustSuspend, QueuesDistinct
  <2>2. QueuesDistinct'
    BY <1>9, <2>1 DEF MediumTermSuspend, QueuesDistinct
  <2>3. StateOfPlace'
    BY <1>9, <2>1 DEF MediumTermSuspend, StateOfPlace, OnePlace, HeldByThread, BlockedQueuesExact
  <2>4. HeldByThread'
    BY <1>9, <2>1 DEF MediumTermSuspend, HeldByThread
  <2>5. OnePlace'
    BY <1>9, <2>1 DEF MediumTermSuspend, OnePlace, StateOfPlace, HeldByThread
  <2>6. SomePlace'
    <3>1. state[Last(blockedQueue)] \in Away
      BY <2>1 DEF BlockedQueuesExact
    <3>2. \A p \in Procs : state'[p] = IF p = Last(blockedQueue) THEN "SUSP_BLOCKED" ELSE state[p]
      BY <1>9 DEF MediumTermSuspend
    <3>3. UNCHANGED <<cpuProc, ioQueue, ioProc, suspendedReadyQueue>>
      BY <1>9 DEF MediumTermSuspend
    <3> QED
      BY <3>1, <3>2, <3>3 DEF SomePlace
  <2>7. BlockedQueuesExact'
    BY <1>9, <2>1 DEF MediumTermSuspend, BlockedQueuesExact, StateOfPlace, OnePlace, HeldByThread, Suspended, IsInjective
  <2> QED
    BY <2>2, <2>3, <2>4, <2>5, <2>6, <2>7
<1>10. ASSUME NEW c \in CPUs, CPUTake(c) PROVE PlaceInv'
  <2>1. PICK p \in readyQueue : CPUTake(c)!2!(p)
    BY <1>10 DEF CPUTake
  <2>2. /\ p \in Procs /\ state[p] = "READY" /\ cpuProc[c] \notin Procs
        /\ \A e \in CPUs : cpuProc[e] # p
        /\ \A d \in Devices : ioProc[d] # p /\ p \notin Range(ioQueue[d])
        /\ p \notin Range(suspendedReadyQueue)
    <3>1. p \in Procs /\ state[p] = "READY"
      BY <2>1 DEF StateOfPlace
    <3>2. ASSUME NEW e \in CPUs, cpuProc[e] = p PROVE FALSE
      <4>1. cpuPc[e] \in {"signal", "run", "enqueue"}
        BY <3>1, <3>2 DEF HeldByThread
      <4>2. state[p] = "EXEC" \/ state[p] \in Away
        BY <3>2, <4>1 DEF StateOfPlace
      <4> QED
        BY <3>1, <4>2
    <3>3. \A d \in Devices : ioProc[d] # p /\ p \notin Range(ioQueue[d])
      BY <3>1 DEF StateOfPlace
    <3>4. p \notin Range(suspendedReadyQueue)
      BY <3>1 DEF StateOfPlace
    <3>5. cpuProc[c] \notin Procs
      BY <1>10 DEF CPUTake, HeldByThread
    <3> QED
      BY <3>1, <3>2, <3>3, <3>4, <3>5
  <2>3. /\ \A e \in CPUs : cpuProc'[e] = IF e = c THEN p ELSE cpuProc[e]
        /\ \A e \in CPUs : cpuPc'[e] = IF e = c THEN "signal" ELSE cpuPc[e]
        /\ \A q \in Procs : state'[q] = IF q = p THEN "EXEC" ELSE state[q]
        /\ UNCHANGED <<newQueue, blockedQueue, suspendedBlockedQueue, suspendedReadyQueue,
                       ioPc, ioProc, ioQueue>>
    BY <1>10, <2>1 DEF CPUTake
  <2>4. QueuesDistinct'
    BY <2>3 DEF QueuesDistinct
  <2>5. StateOfPlace'
    BY <1>10, <2>1 DEF CPUTake, StateOfPlace, OnePlace, HeldByThread, BlockedQueuesExact
  <2> HIDE SchedulerAssumption DEF TypeInv, TypeOK, ThreadsHoldProcess, SchedulerAssumption
  <2>6. HeldByThread'
    BY <2>3 DEF HeldByThread
  <2>7. OnePlace'
    BY <2>2, <2>3 DEF OnePlace
  <2>8. SomePlace'
    BY <2>2, <2>3 DEF SomePlace
  <2>9. BlockedQueuesExact'
    BY <2>2, <2>3 DEF BlockedQueuesExact, Suspended
  <2> QED
    BY <2>4, <2>5, <2>6, <2>7, <2>8, <2>9
<1>11. ASSUME NEW c \in CPUs, CPUSignal(c) PROVE PlaceInv'
  <2>1. QueuesDistinct'
    BY <1>11 DEF CPUSignal, QueuesDistinct
  <2>2. StateOfPlace'
    BY <1>11 DEF CPUSignal, StateOfPlace, OnePlace, HeldByThread, BlockedQueuesExact
  <2>3. HeldByThread'
    BY <1>11 DEF CPUSignal, HeldByThread
  <2>4. OnePlace'
    BY <1>11 DEF CPUSignal, OnePlace, StateOfPlace, HeldByThread
  <2>5. SomePlace'
    BY <1>11 DEF CPUSignal, SomePlace, StateOfPlace
  <2>6. BlockedQueuesExact'
    BY <1>11 DEF CPUSignal, BlockedQueuesExact, StateOfPlace, OnePlace, HeldByThread, Suspended, IsInjective
  <2> QED
    BY <2>1, <2>2, <2>3, <2>4, <2>5, <2>6
<1>12. ASSUME NEW c \in CPUs, CallIOBlock(c) PROVE PlaceInv'
  <2>1. /\ cpuProc[c] \in Procs
        /\ Range(blockedQueue') = Range(blockedQueue) \cup {cpuProc[c]}
        /\ IsInjective(blockedQueue')
    BY <1>12, AppendRange DEF CallIOBlock, QueuesDistinct, StateOfPlace, HeldByThread, OnePlace, BlockedQueuesExact
  <2>2. QueuesDistinct'
    BY <1>12, <2>1 DEF CallIOBlock, QueuesDistinct
  <2>3. StateOfPlace'
    BY <1>12, <2>1 DEF CallIOBlock, StateOfPlace, OnePlace, HeldByThread, BlockedQueuesExact
  <2>4. HeldByThread'
    BY <1>12, <2>1 DEF CallIOBlock, HeldByThread
  <2>5. OnePlace'
    BY <1>12, <2>1 DEF CallIOBlock, OnePlace, StateOfPlace, HeldByThread
  <2>6. SomePlace'
    BY <1>12, <2>1 DEF CallIOBlock, SomePlace, StateOfPlace
  <2>7. BlockedQueuesExact'
    BY <1>12, <2>1 DEF CallIOBlock, BlockedQueuesExact, StateOfPlace, OnePlace, HeldByThread, Suspended, IsInjective
  <2> QED
    BY <2>2, <2>3, <2>4, <2>5, <2>6, <2>7
<1>13. ASSUME NEW c \in CPUs, NEW d \in Devices, CallIOEnqueue(c, d) PROVE PlaceInv'
  <2> DEFINE p == cpuProc[c]
  <2>1. /\ cpuProc[c] = p /\ p \in Procs /\ NoProc \notin Procs /\ state[p] \in Away
        /\ \A e \in CPUs : e # c => cpuProc[e] # p
        /\ \A e \in Devices : ioProc[e] # p /\ p \notin Range(ioQueue[e])
        /\ p \notin Range(suspendedReadyQueue)
    BY <1>13 DEF CallIOEnqueue, OnePlace, StateOfPlace
  <2>2. /\ \A e \in Devices : e # d => ioQueue'[e] = ioQueue[e]
        /\ \A e \in CPUs : cpuProc'[e] = IF e = c THEN NoProc ELSE cpuProc[e]
        /\ \A e \in CPUs : cpuPc'[e] = IF e = c THEN "idle" ELSE cpuPc[e]
        /\ UNCHANGED <<state, newQueue, readyQueue, blockedQueue, suspendedBlockedQueue,
                       suspendedReadyQueue, ioPc, ioProc>>
    BY <1>13 DEF CallIOEnqueue
  <2> HIDE DEF p
  <2>3. /\ IsInjective(ioQueue'[d]) /\ Range(ioQueue'[d]) = Range(ioQueue[d]) \cup {p}
    <3>1. ioQueue[d] \in Seq(Procs) /\ IsInjective(ioQueue[d])
      BY DEF QueuesDistinct
    <3>2. ioQueue'[d] = Append(ioQueue[d], p)
      BY <1>13 DEF CallIOEnqueue, p
    <3> QED
      BY <2>1, <3>1, <3>2, AppendRange
  <2>4. \A e \in Devices : e # d => Range(ioQueue'[e]) = Range(ioQueue[e])
    BY <2>2
  <2> HIDE SchedulerAssumption DEF TypeInv, TypeOK, ThreadsHoldProcess, SchedulerAssumption
  <2>5. QueuesDistinct'
    BY <2>2, <2>3 DEF QueuesDistinct
  <2>6. StateOfPlace'
    BY <2>1, <2>2, <2>3, <2>4 DEF StateOfPlace
  <2>7. HeldByThread'
    BY <2>1, <2>2 DEF HeldByThread
  <2>8. OnePlace'
    BY <1>a, <2>1, <2>2, <2>3, <2>4 DEF OnePlace
  <2>9. SomePlace'
    BY <2>1, <2>2, <2>3, <2>4 DEF SomePlace
  <2>10. BlockedQueuesExact'
    BY <2>2 DEF BlockedQueuesExact, Suspended
  <2> QED
    BY <2>5, <2>6, <2>7, <2>8, <2>9, <2>10
<1>14. ASSUME NEW c \in CPUs, TerminateProcess(c) PROVE PlaceInv'
  <2>1. QueuesDistinct'
    BY <1>14 DEF TerminateProcess, QueuesDistinct
  <2>2. StateOfPlace'
    BY <1>14 DEF TerminateProcess, StateOfPlace, OnePlace, HeldByThread, BlockedQueuesExact
  <2>3. HeldByThread'
    BY <1>14 DEF TerminateProcess, HeldByThread
  <2>4. OnePlace'
    BY <1>14, <1>a DEF TerminateProcess, OnePlace, StateOfPlace, HeldByThread
  <2>5. SomePlace'
    BY <1>14 DEF TerminateProcess, SomePlace, StateOfPlace
  <2>6. BlockedQueuesExact'
    BY <1>14 DEF TerminateProcess, BlockedQueuesExact, StateOfPlace, OnePlace, HeldByThread, Suspended, IsInjective
  <2> QED
    BY <2>1, <2>2, <2>3, <2>4, <2>5, <2>6
<1>15. ASSUME NEW c \in CPUs, TerminatePost(c) PROVE PlaceInv'
  <2>1. QueuesDistinct'
    BY <1>15 DEF TerminatePost, QueuesDistinct
  <2>2. StateOfPlace'
    BY <1>15 DEF TerminatePost, StateOfPlace, OnePlace, HeldByThread, BlockedQueuesExact
  <2>3. HeldByThread'
    BY <1>15 DEF TerminatePost, HeldByThread
  <2>4. OnePlace'
    BY <1>15 DEF TerminatePost, OnePlace, StateOfPlace, HeldByThread
  <2>5. SomePlace'
    BY <1>15 DEF TerminatePost, SomePlace, StateOfPlace
  <2>6. BlockedQueuesExact'
    BY <1>15 DEF TerminatePost, BlockedQueuesExact, StateOfPlace, OnePlace, HeldByThread, Suspended, IsInjective
  <2> QED
    BY <2>1, <2>2, <2>3, <2>4, <2>5, <2>6
<1>16. ASSUME NEW c \in CPUs, TerminateCupos(c) PROVE PlaceInv'
  <2>1. QueuesDistinct'
    BY <1>16 DEF TerminateCupos, QueuesDistinct
  <2>2. StateOfPlace'
    BY <1>16 DEF TerminateCupos, StateOfPlace, OnePlace, HeldByThread, BlockedQueuesExact
  <2>3. HeldByThread'
    BY <1>16 DEF TerminateCupos, HeldByThread
  <2>4. OnePlace'
    BY <1>16 DEF TerminateCupos, OnePlace, StateOfPlace, HeldByThread
  <2>5. SomePlace'
    BY <1>16 DEF TerminateCupos, SomePlace, StateOfPlace
  <2>6. BlockedQueuesExact'
    BY <1>16 DEF TerminateCupos, BlockedQueuesExact, StateOfPlace, OnePlace, HeldByThread, Suspended, IsInjective
  <2> QED
    BY <2>1, <2>2, <2>3, <2>4, <2>5, <2>6
<1>17. ASSUME NEW d \in Devices, IOTake(d) PROVE PlaceInv'
  <2> DEFINE p == Head(ioQueue[d])
  <2>1. /\ ioQueue[d] \in Seq(Procs) /\ ioQueue[d] # <<>> /\ IsInjective(ioQueue[d])
    BY <1>17 DEF IOTake, QueuesDistinct
  <2>2. /\ ioQueue'[d] = Tail(ioQueue[d])
        /\ \A e \in Devices : e # d => ioQueue'[e] = ioQueue[e]
        /\ \A e \in Devices : ioProc'[e] = IF e = d THEN p ELSE ioProc[e]
        /\ \A e \in Devices : ioPc'[e] = IF e = d THEN "sleep" ELSE ioPc[e]
        /\ UNCHANGED <<state, newQueue, readyQueue, blockedQueue, suspendedBlockedQueue,
                       suspendedReadyQueue, cpuPc, cpuProc>>
    BY <1>17 DEF IOTake
  <2>3. /\ p \in Procs /\ p \in Range(ioQueue[d])
        /\ IsInjective(ioQueue'[d]) /\ Range(ioQueue'[d]) = Range(ioQueue[d]) \ {p}
    BY <2>1, <2>2, HeadTailRange
  <2> HIDE DEF p
  <2>4. \A e \in Devices : e # d => Range(ioQueue'[e]) = Range(ioQueue[e])
    BY <2>2
  <2>5. /\ state[p] \in Away /\ p \notin Range(suspendedReadyQueue)
        /\ \A e \in CPUs : cpuProc[e] # p
        /\ \A e \in Devices : ioProc[e] # p
        /\ \A e \in Devices : e # d => p \notin Range(ioQueue[e])
        /\ ioProc[d] \notin Procs
    BY <1>17, <2>3 DEF IOTake, OnePlace, StateOfPlace, HeldByThread
  <2> HIDE SchedulerAssumption DEF TypeInv, TypeOK, ThreadsHoldProcess, SchedulerAssumption
  <2>6. QueuesDistinct'
    BY <2>2, <2>3 DEF QueuesDistinct
  <2>7. StateOfPlace'
    BY <2>2, <2>3, <2>4, <2>5 DEF StateOfPlace
  <2>8. HeldByThread'
    BY <2>2 DEF HeldByThread
  <2>9. OnePlace'
    BY <2>2, <2>3, <2>4, <2>5 DEF OnePlace
  <2>10. SomePlace'
    BY <2>2, <2>3, <2>4, <2>5 DEF SomePlace
  <2>11. BlockedQueuesExact'
    BY <1>17, <2>2 DEF IOTake, BlockedQueuesExact, Suspended
  <2> QED
    BY <2>6, <2>7, <2>8, <2>9, <2>10, <2>11
<1>18. ASSUME NEW d \in Devices, IOReadState(d) PROVE PlaceInv'
  <2>1. QueuesDistinct'
    BY <1>18 DEF IOReadState, QueuesDistinct
  <2>2. StateOfPlace'
    BY <1>18 DEF IOReadState, StateOfPlace, OnePlace, HeldByThread, BlockedQueuesExact
  <2>3. HeldByThread'
    BY <1>18 DEF IOReadState, HeldByThread, StateOfPlace
  <2>4. OnePlace'
    BY <1>18 DEF IOReadState, OnePlace, StateOfPlace, HeldByThread
  <2>5. SomePlace'
    BY <1>18 DEF IOReadState, SomePlace, StateOfPlace
  <2>6. BlockedQueuesExact'
    BY <1>18 DEF IOReadState, BlockedQueuesExact, StateOfPlace, OnePlace, HeldByThread, Suspended, IsInjective
  <2> QED
    BY <2>1, <2>2, <2>3, <2>4, <2>5, <2>6
<1>19. ASSUME NEW d \in Devices, IORemoveBlocked(d) PROVE PlaceInv'
  <2>1. /\ Range(blockedQueue') = Range(blockedQueue) \ {ioProc[d]}
        /\ IsInjective(blockedQueue')
    BY <1>19, RemoveFirstRange DEF IORemoveBlocked, QueuesDistinct, StateOfPlace, HeldByThread, OnePlace, BlockedQueuesExact
  <2>2. QueuesDistinct'
    BY <1>19, <2>1 DEF IORemoveBlocked, QueuesDistinct
  <2>3. StateOfPlace'
    BY <1>19, <2>1 DEF IORemoveBlocked, StateOfPlace, OnePlace, HeldByThread, BlockedQueuesExact
  <2>4. HeldByThread'
    BY <1>19, <2>1 DEF IORemoveBlocked, HeldByThread
  <2>5. OnePlace'
    BY <1>19, <2>1 DEF IORemoveBlocked, OnePlace, StateOfPlace, HeldByThread
  <2>6. SomePlace'
    BY <1>19, <2>1 DEF IORemoveBlocked, SomePlace, StateOfPlace
  <2>7. BlockedQueuesExact'
    BY <1>19, <2>1 DEF IORemoveBlocked, BlockedQueuesExact, StateOfPlace, OnePlace, HeldByThread, Suspended, IsInjective
  <2> QED
    BY <2>2, <2>3, <2>4, <2>5, <2>6, <2>7
<1>20. ASSUME NEW d \in Devices, IOPutToReady(d) PROVE PlaceInv'
  <2>1. QueuesDistinct'
    BY <1>20 DEF IOPutToReady, QueuesDistinct
  <2>2. StateOfPlace'
    BY <1>20, <1>a DEF IOPutToReady, StateOfPlace, OnePlace, HeldByThread, BlockedQueuesExact
  <2>3. HeldByThread'
    BY <1>20 DEF IOPutToReady, HeldByThread
  <2>4. OnePlace'
    BY <1>20, <1>a DEF IOPutToReady, OnePlace, StateOfPlace, HeldByThread
  <2>5. SomePlace'
    BY <1>20 DEF IOPutToReady, SomePlace, StateOfPlace
  <2>6. BlockedQueuesExact'
    BY <1>20 DEF IOPutToReady, BlockedQueuesExact, StateOfPlace, OnePlace, HeldByThread, Suspended, IsInjective
  <2> QED
    BY <2>1, <2>2, <2>3, <2>4, <2>5, <2>6
<1>21. ASSUME NEW d \in Devices, IORemoveSuspended(d) PROVE PlaceInv'
  <2>1. QueuesDistinct'
    BY <1>21 DEF IORemoveSuspended, QueuesDistinct
  <2>2. StateOfPlace'
    BY <1>21 DEF IORemoveSuspended, StateOfPlace, OnePlace, HeldByThread, BlockedQueuesExact
  <2>3. HeldByThread'
    BY <1>21 DEF IORemoveSuspended, HeldByThread
  <2>4. OnePlace'
    BY <1>21 DEF IORemoveSuspended, OnePlace, StateOfPlace, HeldByThread
  <2>5. SomePlace'
    BY <1>21 DEF IORemoveSuspended, SomePlace, StateOfPlace
  <2>6. BlockedQueuesExact'
    BY <1>21 DEF IORemoveSuspended, BlockedQueuesExact, StateOfPlace, OnePlace, HeldByThread, Suspended, IsInjective
  <2> QED
    BY <2>1, <2>2, <2>3, <2>4, <2>5, <2>6
<1>22. ASSUME NEW d \in Devices, IOPutSuspendedReady(d) PROVE PlaceInv'
  <2>1. /\ ioProc[d] \in Procs
        /\ Range(suspendedReadyQueue') = Range(suspendedReadyQueue) \cup {ioProc[d]}
        /\ IsInjective(suspendedReadyQueue')
    BY <1>22, AppendRange DEF IOPutSuspendedReady, QueuesDistinct, StateOfPlace, HeldByThread, OnePlace, BlockedQueuesExact
  <2>2. QueuesDistinct'
    BY <1>22, <2>1 DEF IOPutSuspendedReady, QueuesDistinct
  <2>3. StateOfPlace'
    BY <1>22, <2>1 DEF IOPutSuspendedReady, StateOfPlace, OnePlace, HeldByThread, BlockedQueuesExact
  <2>4. HeldByThread'
    BY <1>22, <2>1 DEF IOPutSuspendedReady, HeldByThread
  <2>5. OnePlace'
    BY <1>22, <2>1, <1>a DEF IOPutSuspendedReady, OnePlace, StateOfPlace, HeldByThread
  <2>6. SomePlace'
    BY <1>22, <2>1 DEF IOPutSuspendedReady, SomePlace, StateOfPlace
  <2>7. BlockedQueuesExact'
    BY <1>22, <2>1 DEF IOPutSuspendedReady, BlockedQueuesExact, StateOfPlace, OnePlace, HeldByThread, Suspended, IsInjective
  <2> QED
    BY <2>2, <2>3, <2>4, <2>5, <2>6, <2>7
<1>23. ASSUME NEW d \in Devices, IONotify(d) PROVE PlaceInv'
  <2>1. QueuesDistinct'
    BY <1>23 DEF IONotify, QueuesDistinct
  <2>2. StateOfPlace'
    BY <1>23 DEF IONotify, StateOfPlace, OnePlace, HeldByThread, BlockedQueuesExact
  <2>3. HeldByThread'
    BY <1>23 DEF IONotify, HeldByThread
  <2>4. OnePlace'
    BY <1>23 DEF IONotify, OnePlace, StateOfPlace, HeldByThread
  <2>5. SomePlace'
    BY <1>23 DEF IONotify, SomePlace, StateOfPlace
  <2>6. BlockedQueuesExact'
    BY <1>23 DEF IONotify, BlockedQueuesExact, StateOfPlace, OnePlace, HeldByThread, Suspended, IsInjective
  <2> QED
    BY <2>1, <2>2, <2>3, <2>4, <2>5, <2>6
<1>24. CASE UNCHANGED vars
  BY <1>24 DEF vars, QueuesDistinct, StateOfPlace, HeldByThread, OnePlace, SomePlace, BlockedQueuesExact, Suspended
<1> QED
  BY <1>1, <1>2, <1>3, <1>4, <1>5, <1>6, <1>7, <1>8, <1>9, <1>10, <1>11, <1>12, <1>13, <1>14, <1>15, <1>16, <1>17, <1>18, <1>19, <1>20, <1>21, <1>22, <1>23, <1>24
     DEF Next, LongTermThread, UnsuspenderThread, MediumTermThread, CPUThread, CallIO,
         Terminate, IODeviceThread

(* At the start no process is anywhere. *)
LEMMA PlaceInit == Init => PlaceInv
<1> SUFFICES ASSUME Init PROVE PlaceInv
  OBVIOUS
<1>1. /\ Range(<<>>) = {} /\ IsInjective(<<>>)
  BY DEF Range, IsInjective
<1>2. QueuesDistinct
  BY <1>1 DEF Init, QueuesDistinct
<1>3. StateOfPlace
  BY <1>1, SchedulerAssumption DEF Init, StateOfPlace, SchedulerAssumption
<1>4. HeldByThread
  BY SchedulerAssumption DEF Init, HeldByThread, SchedulerAssumption
<1>5. OnePlace
  BY <1>1, SchedulerAssumption DEF Init, OnePlace, SchedulerAssumption
<1>6. SomePlace
  BY DEF Init, SomePlace, Away
<1>7. BlockedQueuesExact
  BY <1>1 DEF Init, BlockedQueuesExact, Suspended
<1> QED
  BY <1>2, <1>3, <1>4, <1>5, <1>6, <1>7 DEF PlaceInv

(* blockedQueue has exactly the processes that the medium term may suspend. *)
THEOREM SchedulerBlockedQueuesExact == Spec => []BlockedQueuesExact
<1>1. PlaceInv => BlockedQueuesExact
  BY DEF PlaceInv
<1> QED
  BY TypeInit, TypeStep, PlaceInit, PlaceStep, <1>1, PTL DEF Spec

(* What suspendedBlockedQueue has of each process. *)
LeftInv == \A p \in Procs : suspendedBlockedQueue[p] = One(p \in Suspended) + leftBehind[p]

(* At the start nobody is suspended and no entry was left behind. *)
LEMMA LeftInit == Init => LeftInv
BY DEF Init, LeftInv, Suspended, One

(* A step that changes an entry of suspendedBlockedQueue suspends the process or makes it
   ready, and one that makes a suspended process ready and leaves its entry counts it. *)
LEMMA LeftStep == TypeInv /\ PlaceInv /\ LeftInv /\ [Next]_vars => LeftInv'
<1> SUFFICES ASSUME TypeInv, PlaceInv, LeftInv, [Next]_vars PROVE LeftInv'
  OBVIOUS
<1>a. \A p \in Procs : suspendedBlockedQueue[p] \in Nat /\ leftBehind[p] \in Nat
  BY DEF TypeInv, TypeOK
<1>b. Suspended' = Suspended /\ UNCHANGED <<suspendedBlockedQueue, leftBehind>> => LeftInv'
  BY DEF LeftInv
<1>c. UNCHANGED <<state, suspendedReadyQueue, ioPc, ioProc>> => Suspended' = Suspended
  BY DEF Suspended
<1> USE DEF queues, counters, planners, cpuVars, ioVars, PutToReady, SignalMediumTerm
<1>1. ASSUME NEW p \in Procs, Connect(p) PROVE LeftInv'
  <2>1. Suspended' = Suspended
    BY <1>1 DEF Connect, Suspended, TypeInv, TypeOK
  <2> QED
    BY <1>1, <2>1, <1>b DEF Connect
<1>2. CASE LongTermWait
  BY <1>2, <1>b, <1>c DEF LongTermWait
<1>3. CASE LongTermAdmit
  <2> DEFINE p == Head(newQueue)
  <2>1. p \in Procs /\ state[p] = "NEW"
    BY <1>3, HeadTailRange DEF LongTermAdmit, TypeInv, TypeOK, PlaceInv, StateOfPlace
  <2> HIDE DEF p
  <2>2. \A q \in Procs : state'[q] = IF q = p THEN "READY" ELSE state[q]
    BY <1>3, <2>1 DEF LongTermAdmit, p, TypeInv, TypeOK
  <2>3. Suspended' = Suspended
    <3>1. UNCHANGED <<suspendedReadyQueue, ioPc, ioProc>>
      BY <1>3 DEF LongTermAdmit
    <3> QED
      BY <2>1, <2>2, <3>1 DEF Suspended
  <2> QED
    BY <1>3, <2>3, <1>b DEF LongTermAdmit
<1>4. CASE UnsuspenderTakeSlot
  BY <1>4, <1>b, <1>c DEF UnsuspenderTakeSlot
<1>5. CASE UnsuspenderTakeNew
  BY <1>5, <1>b, <1>c DEF UnsuspenderTakeNew
<1>6. CASE UnsuspenderForward
  BY <1>6, <1>b, <1>c DEF UnsuspenderForward
<1>7. CASE UnsuspenderAdmit
  <2> DEFINE p == Head(suspendedReadyQueue)
  <2>1. /\ p \in Procs /\ state[p] = "SUSP_BLOCKED"
        /\ p \in Range(suspendedReadyQueue)
        /\ Range(suspendedReadyQueue') = Range(suspendedReadyQueue) \ {p}
    <3>1. /\ suspendedReadyQueue # <<>> /\ suspendedReadyQueue \in Seq(Procs)
          /\ IsInjective(suspendedReadyQueue) /\ suspendedReadyQueue' = Tail(suspendedReadyQueue)
      BY <1>7 DEF UnsuspenderAdmit, TypeInv, TypeOK, PlaceInv, QueuesDistinct
    <3>2. p \in Procs /\ p \in Range(suspendedReadyQueue)
          /\ Range(suspendedReadyQueue') = Range(suspendedReadyQueue) \ {p}
      BY <3>1, HeadTailRange
    <3> QED
      BY <3>2 DEF PlaceInv, StateOfPlace
  <2> HIDE DEF p
  <2>2. \A q \in Procs : state'[q] = IF q = p THEN "READY" ELSE state[q]
    BY <1>7, <2>1 DEF UnsuspenderAdmit, p, TypeInv, TypeOK
  <2>3. Suspended' = Suspended
    <3>1. UNCHANGED <<ioPc, ioProc>>
      BY <1>7 DEF UnsuspenderAdmit
    <3> QED
      BY <2>1, <2>2, <3>1 DEF Suspended
  <2> QED
    BY <1>7, <2>3, <1>b DEF UnsuspenderAdmit
<1>8. CASE MediumTermWait
  BY <1>8, <1>b, <1>c DEF MediumTermWait
<1>9. CASE MediumTermSuspend
  <2> DEFINE p == Last(blockedQueue)
  <2>1. p \in Procs /\ state[p] = "BLOCKED"
    <3>1. blockedQueue # <<>> /\ blockedQueue \in Seq(Procs) /\ IsInjective(blockedQueue)
      BY <1>9 DEF MediumTermSuspend, MustSuspend, TypeInv, TypeOK, PlaceInv, QueuesDistinct
    <3> QED
      BY <3>1, LastFrontRange, LastFrontSeq DEF PlaceInv, BlockedQueuesExact
  <2>2. /\ state' = [state EXCEPT ![p] = "SUSP_BLOCKED"]
        /\ suspendedBlockedQueue' = [suspendedBlockedQueue EXCEPT ![p] = @ + 1]
        /\ UNCHANGED <<suspendedReadyQueue, ioPc, ioProc, leftBehind>>
    BY <1>9 DEF MediumTermSuspend
  <2> HIDE DEF p
  <2>3. /\ p \notin Range(suspendedReadyQueue)
        /\ \A d \in Devices : ~(ioPc[d] = "suspReady" /\ ioProc[d] = p)
    BY <2>1 DEF PlaceInv, StateOfPlace
  <2>4. Suspended' = Suspended \cup {p} /\ p \notin Suspended
    BY <2>1, <2>2, <2>3 DEF Suspended, TypeInv, TypeOK
  <2>5. \A q \in Procs : suspendedBlockedQueue'[q] =
                            IF q = p THEN suspendedBlockedQueue[p] + 1 ELSE suspendedBlockedQueue[q]
    BY <2>1, <2>2 DEF TypeInv, TypeOK
  <2> QED
    BY <2>1, <2>2, <2>4, <2>5, <1>a DEF LeftInv, One
<1>10. ASSUME NEW c \in CPUs, CPUTake(c) PROVE LeftInv'
  <2>1. PICK p \in readyQueue : state' = [state EXCEPT ![p] = "EXEC"]
    BY <1>10 DEF CPUTake
  <2>2. p \in Procs /\ state[p] = "READY"
    BY DEF TypeInv, TypeOK, PlaceInv, StateOfPlace
  <2>3. Suspended' = Suspended
    <3>1. UNCHANGED <<suspendedReadyQueue, ioPc, ioProc>>
      BY <1>10 DEF CPUTake
    <3> QED
      BY <2>1, <2>2, <3>1 DEF Suspended, TypeInv, TypeOK
  <2> QED
    BY <1>10, <2>3, <1>b DEF CPUTake
<1>11. ASSUME NEW c \in CPUs, CPUSignal(c) PROVE LeftInv'
  BY <1>11, <1>b, <1>c DEF CPUSignal
<1>12. ASSUME NEW c \in CPUs, CallIOBlock(c) PROVE LeftInv'
  <2>1. cpuProc[c] \in Procs /\ state[cpuProc[c]] = "EXEC"
    BY <1>12 DEF CallIOBlock, TypeInv, ThreadsHoldProcess, PlaceInv, StateOfPlace
  <2>2. state' = [state EXCEPT ![cpuProc[c]] = "BLOCKED"]
    BY <1>12 DEF CallIOBlock
  <2>3. Suspended' = Suspended
    <3>1. UNCHANGED <<suspendedReadyQueue, ioPc, ioProc>>
      BY <1>12 DEF CallIOBlock
    <3> QED
      BY <2>1, <2>2, <3>1 DEF Suspended, TypeInv, TypeOK
  <2> QED
    BY <1>12, <2>3, <1>b DEF CallIOBlock
<1>13. ASSUME NEW c \in CPUs, NEW d \in Devices, CallIOEnqueue(c, d) PROVE LeftInv'
  BY <1>13, <1>b, <1>c DEF CallIOEnqueue
<1>14. ASSUME NEW c \in CPUs, TerminateProcess(c) PROVE LeftInv'
  <2>1. cpuProc[c] \in Procs /\ state[cpuProc[c]] = "EXEC"
    BY <1>14 DEF TerminateProcess, TypeInv, ThreadsHoldProcess, PlaceInv, StateOfPlace
  <2>2. state' = [state EXCEPT ![cpuProc[c]] = "UNUSED"]
    BY <1>14 DEF TerminateProcess
  <2>3. Suspended' = Suspended
    <3>1. UNCHANGED <<suspendedReadyQueue, ioPc, ioProc>>
      BY <1>14 DEF TerminateProcess
    <3> QED
      BY <2>1, <2>2, <3>1 DEF Suspended, TypeInv, TypeOK
  <2> QED
    BY <1>14, <2>3, <1>b DEF TerminateProcess
<1>15. ASSUME NEW c \in CPUs, TerminatePost(c) PROVE LeftInv'
  BY <1>15, <1>b, <1>c DEF TerminatePost
<1>16. ASSUME NEW c \in CPUs, TerminateCupos(c) PROVE LeftInv'
  BY <1>16, <1>b, <1>c DEF TerminateCupos
<1>17. ASSUME NEW d \in Devices, IOTake(d) PROVE LeftInv'
  <2>1. Suspended' = Suspended
    <3>1. /\ UNCHANGED <<state, suspendedReadyQueue>>
          /\ ioPc[d] = "take" /\ ioPc'[d] = "sleep"
          /\ \A e \in Devices : e # d => ioPc'[e] = ioPc[e] /\ ioProc'[e] = ioProc[e]
      BY <1>17 DEF IOTake, TypeInv, TypeOK
    <3> QED
      BY <3>1 DEF Suspended
  <2> QED
    BY <1>17, <2>1, <1>b DEF IOTake
<1>18. ASSUME NEW d \in Devices, IOReadState(d) PROVE LeftInv'
  <2>1. Suspended' = Suspended
    <3>1. /\ UNCHANGED <<state, suspendedReadyQueue, ioProc>>
          /\ ioPc[d] # "suspReady" /\ ioPc'[d] # "suspReady"
          /\ \A e \in Devices : e # d => ioPc'[e] = ioPc[e]
      BY <1>18 DEF IOReadState, TypeInv, TypeOK
    <3> QED
      BY <3>1 DEF Suspended
  <2> QED
    BY <1>18, <2>1, <1>b DEF IOReadState
<1>19. ASSUME NEW d \in Devices, IORemoveBlocked(d) PROVE LeftInv'
  <2>1. Suspended' = Suspended
    <3>1. /\ UNCHANGED <<state, suspendedReadyQueue, ioProc>>
          /\ ioPc[d] = "blocked" /\ ioPc'[d] = "ready"
          /\ \A e \in Devices : e # d => ioPc'[e] = ioPc[e]
      BY <1>19 DEF IORemoveBlocked, TypeInv, TypeOK
    <3> QED
      BY <3>1 DEF Suspended
  <2> QED
    BY <1>19, <2>1, <1>b DEF IORemoveBlocked
<1>20. ASSUME NEW d \in Devices, IOPutToReady(d) PROVE LeftInv'
  <2> DEFINE p == ioProc[d]
  <2>1. /\ p \in Procs /\ NoProc \notin Procs /\ state[p] \in Away
        /\ \A e \in Devices : ioProc[e] = p => e = d
        /\ p \notin Range(suspendedReadyQueue)
    BY <1>20, SchedulerAssumption
       DEF IOPutToReady, TypeInv, ThreadsHoldProcess, PlaceInv, StateOfPlace, OnePlace,
           SchedulerAssumption
  <2>2. /\ ioPc[d] = "ready" /\ ioPc'[d] = "take" /\ ioProc[d] = p
        /\ \A e \in Devices : e # d => ioPc'[e] = ioPc[e] /\ ioProc'[e] = ioProc[e]
        /\ \A q \in Procs : state'[q] = IF q = p THEN "READY" ELSE state[q]
        /\ UNCHANGED <<suspendedBlockedQueue, suspendedReadyQueue>>
    BY <1>20 DEF IOPutToReady, TypeInv, TypeOK
  <2>3. leftBehind' = [leftBehind EXCEPT ![p] = @ + One(state[p] = "SUSP_BLOCKED")]
    BY <1>20 DEF IOPutToReady
  <2> HIDE DEF p
  <2>4. CASE state[p] = "BLOCKED"
    <3>1. Suspended' = Suspended
      BY <2>1, <2>2, <2>4 DEF Suspended
    <3>2. \A q \in Procs : leftBehind'[q] = leftBehind[q]
      BY <2>1, <2>3, <2>4, <1>a DEF One, TypeInv, TypeOK
    <3> QED
      BY <2>2, <3>1, <3>2 DEF LeftInv
  <2>5. CASE state[p] = "SUSP_BLOCKED"
    <3>1. Suspended' = Suspended \ {p} /\ p \in Suspended
      BY <2>1, <2>2, <2>5 DEF Suspended
    <3>2. \A q \in Procs : leftBehind'[q] = IF q = p THEN leftBehind[p] + 1 ELSE leftBehind[q]
      BY <2>1, <2>3, <2>5 DEF One, TypeInv, TypeOK
    <3> QED
      BY <2>2, <3>1, <3>2, <1>a DEF LeftInv, One
  <2> QED
    BY <2>1, <2>4, <2>5 DEF Away
<1>21. ASSUME NEW d \in Devices, IORemoveSuspended(d) PROVE LeftInv'
  <2> DEFINE p == ioProc[d]
  <2>1. /\ p \in Procs /\ state[p] = "SUSP_BLOCKED"
        /\ \A e \in Devices : ioProc[e] = p => e = d
        /\ p \notin Range(suspendedReadyQueue)
    BY <1>21 DEF IORemoveSuspended, TypeInv, ThreadsHoldProcess, PlaceInv, StateOfPlace, OnePlace
  <2>2. /\ ioPc[d] = "suspended" /\ ioPc'[d] = "suspReady" /\ ioProc[d] = p
        /\ \A e \in Devices : e # d => ioPc'[e] = ioPc[e]
        /\ UNCHANGED <<state, suspendedReadyQueue, ioProc, leftBehind>>
    BY <1>21 DEF IORemoveSuspended, TypeInv, TypeOK
  <2> HIDE DEF p
  <2>3. Suspended' = Suspended \ {p} /\ p \in Suspended
    BY <2>1, <2>2 DEF Suspended
  <2>4. suspendedBlockedQueue[p] \in Nat /\ suspendedBlockedQueue[p] > 0
    BY <2>1, <2>3 DEF TypeInv, TypeOK, PlaceInv, BlockedQueuesExact
  <2>5. \A q \in Procs : suspendedBlockedQueue'[q] =
                            IF q = p THEN suspendedBlockedQueue[p] - 1 ELSE suspendedBlockedQueue[q]
    BY <1>21, <2>1, <2>4 DEF IORemoveSuspended, TypeInv, TypeOK, p
  <2>6. \A q \in Procs : q # p => One(q \in Suspended') = One(q \in Suspended)
    BY <2>3 DEF One
  <2>7. One(p \in Suspended) = 1 /\ One(p \in Suspended') = 0
    BY <2>3 DEF One
  <2> QED
    BY <2>1, <2>2, <2>4, <2>5, <2>6, <2>7, <1>a DEF LeftInv
<1>22. ASSUME NEW d \in Devices, IOPutSuspendedReady(d) PROVE LeftInv'
  <2> DEFINE p == ioProc[d]
  <2>1. p \in Procs /\ \A e \in Devices : ioProc[e] = p => e = d
    BY <1>22 DEF IOPutSuspendedReady, TypeInv, ThreadsHoldProcess, PlaceInv, OnePlace
  <2>2. /\ ioPc[d] = "suspReady" /\ ioPc'[d] = "notify" /\ ioProc[d] = p
        /\ \A e \in Devices : e # d => ioPc'[e] = ioPc[e] /\ ioProc'[e] = ioProc[e]
        /\ UNCHANGED state
    BY <1>22 DEF IOPutSuspendedReady, TypeInv, TypeOK
  <2>3. Range(suspendedReadyQueue') = Range(suspendedReadyQueue) \cup {p}
    BY <1>22, <2>1, AppendRange DEF IOPutSuspendedReady, TypeInv, TypeOK
  <2> HIDE DEF p
  <2>4. Suspended' = Suspended
    BY <2>1, <2>2, <2>3 DEF Suspended
  <2> QED
    BY <1>22, <2>4, <1>b DEF IOPutSuspendedReady
<1>23. ASSUME NEW d \in Devices, IONotify(d) PROVE LeftInv'
  <2>1. Suspended' = Suspended
    <3>1. /\ UNCHANGED <<state, suspendedReadyQueue, ioProc>>
          /\ ioPc[d] = "notify" /\ ioPc'[d] = "take"
          /\ \A e \in Devices : e # d => ioPc'[e] = ioPc[e]
      BY <1>23 DEF IONotify, TypeInv, TypeOK
    <3> QED
      BY <3>1 DEF Suspended
  <2> QED
    BY <1>23, <2>1, <1>b DEF IONotify
<1>24. CASE UNCHANGED vars
  BY <1>24, <1>b, <1>c DEF vars
<1> QED
  BY <1>1, <1>2, <1>3, <1>4, <1>5, <1>6, <1>7, <1>8, <1>9, <1>10, <1>11, <1>12,
     <1>13, <1>14, <1>15, <1>16, <1>17, <1>18, <1>19, <1>20, <1>21, <1>22, <1>23, <1>24
     DEF Next, LongTermThread, UnsuspenderThread, MediumTermThread, CPUThread, CallIO,
         Terminate, IODeviceThread

(* In a queue of distinct processes a process has one position, if any. *)
LEMMA OnePosition ==
    ASSUME NEW q, IsInjective(q), NEW p, p \in Range(q)
    PROVE  \E i \in DOMAIN q : \A j \in DOMAIN q : q[j] = p <=> j = i
BY DEF IsInjective, Range

(* A queue in which a process has no position does not have it. *)
LEMMA NoPosition ==
    ASSUME NEW q, NEW p, p \notin Range(q)
    PROVE  \A j \in DOMAIN q : q[j] # p
BY DEF Range

(* Who is where the invariant says is in one place. *)
LEMMA PlaceHeldOnce == TypeInv /\ PlaceInv /\ LeftInv => HeldOnce
<1> SUFFICES ASSUME TypeInv, PlaceInv, LeftInv, NEW p \in Procs
             PROVE  IF state[p] = "UNUSED" THEN Holders(p) = {}
                                           ELSE \E h \in Holders(p) : Holders(p) = {h}
  BY DEF HeldOnce, LeftInv
<1> DEFINE inNew == {<<"new", i>> : i \in {j \in DOMAIN newQueue : newQueue[j] = p}}
           inReady == {<<"ready", 0>> : x \in {x \in readyQueue : x = p}}
           onCpu == {<<"cpu", c>> : c \in {c \in CPUs : cpuProc[c] = p}}
           inDevice == UNION {{<<d, i>> : i \in {j \in DOMAIN ioQueue[d] : ioQueue[d][j] = p}}
                                : d \in Devices}
           onDevice == {<<"io", d>> : d \in {d \in Devices : ioProc[d] = p}}
           inSusp == {<<"susp", i>> : i \in {j \in DOMAIN suspendedReadyQueue :
                                               suspendedReadyQueue[j] = p}}
<1>1. Holders(p) = inNew \cup inReady \cup onCpu \cup inDevice \cup onDevice \cup inSusp
  BY Zenon DEF Holders
<1>2. /\ p \notin Range(newQueue) => inNew = {}
      /\ p \in Range(newQueue) => \E h : inNew = {h}
  <2>1. CASE p \notin Range(newQueue)
    BY <2>1, NoPosition
  <2>2. CASE p \in Range(newQueue)
    <3>1. IsInjective(newQueue)
      BY DEF PlaceInv, QueuesDistinct
    <3>2. PICK i \in DOMAIN newQueue : \A j \in DOMAIN newQueue : newQueue[j] = p <=> j = i
      BY <2>2, <3>1, OnePosition
    <3>3. inNew = {<<"new", i>>}
      BY <3>2
    <3> QED
      BY <2>2, <3>3
  <2> QED
    BY <2>1, <2>2
<1>3. /\ p \notin readyQueue => inReady = {}
      /\ p \in readyQueue => inReady = {<<"ready", 0>>}
  OBVIOUS
<1>4. /\ (\A c \in CPUs : cpuProc[c] # p) => onCpu = {}
      /\ \A c \in CPUs : cpuProc[c] = p => onCpu = {<<"cpu", c>>}
  BY DEF PlaceInv, OnePlace
<1>5. /\ (\A d \in Devices : p \notin Range(ioQueue[d])) => inDevice = {}
      /\ \A d \in Devices : p \in Range(ioQueue[d]) => \E h : inDevice = {h}
  <2>1. ASSUME NEW d \in Devices, NEW h, h \in {<<d, i>> : i \in {j \in DOMAIN ioQueue[d] : ioQueue[d][j] = p}}
        PROVE  p \in Range(ioQueue[d]) /\ \E i \in DOMAIN ioQueue[d] : ioQueue[d][i] = p /\ h = <<d, i>>
    BY <2>1 DEF Range
  <2>2. (\A d \in Devices : p \notin Range(ioQueue[d])) => inDevice = {}
    BY <2>1
  <2>3. ASSUME NEW d \in Devices, p \in Range(ioQueue[d]) PROVE \E h : inDevice = {h}
    <3>1. IsInjective(ioQueue[d])
      BY DEF PlaceInv, QueuesDistinct
    <3>2. PICK i \in DOMAIN ioQueue[d] : \A j \in DOMAIN ioQueue[d] : ioQueue[d][j] = p <=> j = i
      BY <2>3, <3>1, OnePosition
    <3>3. \A e \in Devices : e # d => p \notin Range(ioQueue[e])
      BY <2>3 DEF PlaceInv, OnePlace
    <3>4. <<d, i>> \in inDevice
      BY <3>2
    <3>5. \A h \in inDevice : h = <<d, i>>
      BY <2>1, <3>2, <3>3
    <3> HIDE DEF inDevice
    <3>6. inDevice = {<<d, i>>}
      BY <3>4, <3>5
    <3> QED
      BY <3>6
  <2> HIDE DEF inDevice
  <2> QED
    BY <2>2, <2>3
<1>6. /\ (\A d \in Devices : ioProc[d] # p) => onDevice = {}
      /\ \A d \in Devices : ioProc[d] = p => onDevice = {<<"io", d>>}
  BY DEF PlaceInv, OnePlace
<1>7. /\ p \notin Range(suspendedReadyQueue) => inSusp = {}
      /\ p \in Range(suspendedReadyQueue) => \E h : inSusp = {h}
  <2>1. CASE p \notin Range(suspendedReadyQueue)
    BY <2>1, NoPosition
  <2>2. CASE p \in Range(suspendedReadyQueue)
    <3>1. IsInjective(suspendedReadyQueue)
      BY DEF PlaceInv, QueuesDistinct
    <3>2. PICK i \in DOMAIN suspendedReadyQueue : \A j \in DOMAIN suspendedReadyQueue : suspendedReadyQueue[j] = p <=> j = i
      BY <2>2, <3>1, OnePosition
    <3>3. inSusp = {<<"susp", i>>}
      BY <3>2
    <3> QED
      BY <2>2, <3>3
  <2> QED
    BY <2>1, <2>2
<1> HIDE DEF inNew, inReady, onCpu, inDevice, onDevice, inSusp
<1>8. /\ p \in Range(newQueue) <=> state[p] = "NEW"
      /\ p \in readyQueue <=> state[p] = "READY"
      /\ \A c \in CPUs : cpuProc[c] = p => state[p] \in Away \cup {"EXEC"}
      /\ \A d \in Devices : p \in Range(ioQueue[d]) => state[p] \in Away
      /\ \A d \in Devices : ioProc[d] = p => state[p] \in Away
      /\ p \in Range(suspendedReadyQueue) => state[p] \in Away
  BY DEF PlaceInv, StateOfPlace, HeldByThread, Away
<1>9. state[p] \in {"UNUSED", "NEW", "READY", "EXEC"} \cup Away
  BY DEF TypeInv, TypeOK, States, Away
<1>10. CASE state[p] = "UNUSED"
  BY <1>1, <1>2, <1>3, <1>4, <1>5, <1>6, <1>7, <1>8, <1>10 DEF Away
<1>11. CASE state[p] = "NEW"
  BY <1>1, <1>2, <1>3, <1>4, <1>5, <1>6, <1>7, <1>8, <1>11 DEF Away
<1>12. CASE state[p] = "READY"
  BY <1>1, <1>2, <1>3, <1>4, <1>5, <1>6, <1>7, <1>8, <1>12 DEF Away
<1>13. CASE state[p] = "EXEC"
  <2>1. PICK c \in CPUs : cpuProc[c] = p
    BY <1>13 DEF PlaceInv, SomePlace
  <2> QED
    BY <1>1, <1>2, <1>3, <1>4, <1>5, <1>6, <1>7, <1>8, <1>13, <2>1 DEF Away
<1>14. CASE state[p] \in Away
  <2>1. inNew = {} /\ inReady = {}
    BY <1>2, <1>3, <1>8, <1>14 DEF Away
  <2>2. CASE \E c \in CPUs : cpuProc[c] = p
    <3>1. PICK c \in CPUs : cpuProc[c] = p
      BY <2>2
    <3>2. /\ \A d \in Devices : ioProc[d] # p /\ p \notin Range(ioQueue[d])
          /\ p \notin Range(suspendedReadyQueue)
      BY <3>1 DEF PlaceInv, OnePlace
    <3>3. onCpu = {<<"cpu", c>>} /\ inDevice = {} /\ onDevice = {} /\ inSusp = {}
      BY <1>4, <1>5, <1>6, <1>7, <3>1, <3>2
    <3> QED
      BY <1>1, <1>14, <2>1, <3>3 DEF Away
  <2>3. CASE \E d \in Devices : ioProc[d] = p
    <3>1. PICK d \in Devices : ioProc[d] = p
      BY <2>3
    <3>2. /\ \A c \in CPUs : cpuProc[c] # p
          /\ \A e \in Devices : p \notin Range(ioQueue[e])
          /\ p \notin Range(suspendedReadyQueue)
      BY <3>1 DEF PlaceInv, OnePlace
    <3>3. onCpu = {} /\ inDevice = {} /\ onDevice = {<<"io", d>>} /\ inSusp = {}
      BY <1>4, <1>5, <1>6, <1>7, <3>1, <3>2
    <3> QED
      BY <1>1, <1>14, <2>1, <3>3 DEF Away
  <2>4. CASE \E d \in Devices : p \in Range(ioQueue[d])
    <3>1. PICK d \in Devices : p \in Range(ioQueue[d])
      BY <2>4
    <3>2. /\ \A c \in CPUs : cpuProc[c] # p
          /\ \A e \in Devices : ioProc[e] # p
          /\ p \notin Range(suspendedReadyQueue)
      BY <3>1 DEF PlaceInv, OnePlace
    <3>3. onCpu = {} /\ (\E h : inDevice = {h}) /\ onDevice = {} /\ inSusp = {}
      BY <1>4, <1>5, <1>6, <1>7, <3>1, <3>2
    <3> QED
      BY <1>1, <1>14, <2>1, <3>3 DEF Away
  <2>5. CASE p \in Range(suspendedReadyQueue)
    <3>1. /\ \A c \in CPUs : cpuProc[c] # p
          /\ \A d \in Devices : ioProc[d] # p /\ p \notin Range(ioQueue[d])
      BY <2>5 DEF PlaceInv, OnePlace
    <3>2. onCpu = {} /\ inDevice = {} /\ onDevice = {} /\ (\E h : inSusp = {h})
      BY <1>4, <1>5, <1>6, <1>7, <2>5, <3>1
    <3> QED
      BY <1>1, <1>14, <2>1, <3>2 DEF Away
  <2> QED
    BY <1>14, <2>2, <2>3, <2>4, <2>5 DEF PlaceInv, SomePlace
<1> QED
  BY <1>9, <1>10, <1>11, <1>12, <1>13, <1>14

(* Whatever the threads do, a connected process is in exactly one queue or thread, a freed
   block in none, and suspendedBlockedQueue has the suspended processes and the entries
   that a device left behind (kernel.c:241-250), which are there for good, freed or not. *)
THEOREM SchedulerHeldOnce == Spec => []HeldOnce
BY TypeInit, TypeStep, PlaceInit, PlaceStep, LeftInit, LeftStep, PlaceHeldOnce, PTL DEF Spec

-----------------------------------------------------------------------------
(* The state diagram *)

\* The moves of one step, as LifecycleRespected states them
Moves == \A p \in Procs : state'[p] = state[p] \/ state'[p] \in Successors[state[p]]

(* The process a thread moves has the state its place calls for, so the unlocked writes
   of the device threads take it along the diagram. *)
LEMMA LifecycleStep == TypeInv /\ PlaceInv /\ [Next]_vars => [Moves]_vars
<1> SUFFICES ASSUME TypeInv, PlaceInv, Next PROVE Moves
  BY DEF Moves
<1>a. \A p \in Procs : state[p] \in States
  BY DEF TypeInv, TypeOK
<1>b. /\ Successors["UNUSED"] = {"NEW"}
      /\ Successors["NEW"] = {"READY"}
      /\ Successors["READY"] = {"EXEC"}
      /\ Successors["EXEC"] = {"BLOCKED", "UNUSED"}
      /\ Successors["BLOCKED"] = {"READY", "SUSP_BLOCKED"}
      /\ Successors["SUSP_BLOCKED"] = {"READY"}
  BY DEF Successors, States
<1>c. ASSUME NEW p \in Procs, NEW s, s \in Successors[state[p]],
             state' = [state EXCEPT ![p] = s]
      PROVE  Moves
  BY <1>c DEF Moves, TypeInv, TypeOK
<1>d. UNCHANGED state => Moves
  BY DEF Moves
<1>1. ASSUME NEW p \in Procs, Connect(p) PROVE Moves
  <2>1. state[p] = "UNUSED" /\ state' = [state EXCEPT ![p] = "NEW"]
    BY <1>1 DEF Connect
  <2> QED
    BY <1>b, <1>c, <2>1
<1>2. CASE LongTermAdmit
  <2>1. Head(newQueue) \in Procs /\ state[Head(newQueue)] = "NEW"
    BY <1>2, HeadTailRange DEF LongTermAdmit, TypeInv, TypeOK, PlaceInv, StateOfPlace
  <2>2. state' = [state EXCEPT ![Head(newQueue)] = "READY"]
    BY <1>2 DEF LongTermAdmit, PutToReady
  <2> QED
    BY <1>b, <1>c, <2>1, <2>2
<1>3. CASE UnsuspenderAdmit
  <2>1. Head(suspendedReadyQueue) \in Procs /\ state[Head(suspendedReadyQueue)] = "SUSP_BLOCKED"
    BY <1>3, HeadTailRange DEF UnsuspenderAdmit, TypeInv, TypeOK, PlaceInv, StateOfPlace
  <2>2. state' = [state EXCEPT ![Head(suspendedReadyQueue)] = "READY"]
    BY <1>3 DEF UnsuspenderAdmit, PutToReady
  <2> QED
    BY <1>b, <1>c, <2>1, <2>2
<1>4. CASE MediumTermSuspend
  <2>1. blockedQueue # <<>> /\ blockedQueue \in Seq(Procs) /\ IsInjective(blockedQueue)
    BY <1>4 DEF MediumTermSuspend, MustSuspend, TypeInv, TypeOK, PlaceInv, QueuesDistinct
  <2>2. Last(blockedQueue) \in Procs /\ state[Last(blockedQueue)] = "BLOCKED"
    BY <2>1, LastFrontRange, LastFrontSeq DEF PlaceInv, BlockedQueuesExact
  <2>3. state' = [state EXCEPT ![Last(blockedQueue)] = "SUSP_BLOCKED"]
    BY <1>4 DEF MediumTermSuspend
  <2> QED
    BY <1>b, <1>c, <2>2, <2>3
<1>5. ASSUME NEW c \in CPUs, CPUTake(c) PROVE Moves
  <2>1. PICK p \in readyQueue : state' = [state EXCEPT ![p] = "EXEC"]
    BY <1>5 DEF CPUTake
  <2>2. p \in Procs /\ state[p] = "READY"
    BY DEF TypeInv, TypeOK, PlaceInv, StateOfPlace
  <2> QED
    BY <1>b, <1>c, <2>1, <2>2
<1>6. ASSUME NEW c \in CPUs, CallIOBlock(c) PROVE Moves
  <2>1. cpuProc[c] \in Procs /\ state[cpuProc[c]] = "EXEC"
    BY <1>6 DEF CallIOBlock, TypeInv, ThreadsHoldProcess, PlaceInv, StateOfPlace
  <2>2. state' = [state EXCEPT ![cpuProc[c]] = "BLOCKED"]
    BY <1>6 DEF CallIOBlock
  <2> QED
    BY <1>b, <1>c, <2>1, <2>2
<1>7. ASSUME NEW c \in CPUs, TerminateProcess(c) PROVE Moves
  <2>1. cpuProc[c] \in Procs /\ state[cpuProc[c]] = "EXEC"
    BY <1>7 DEF TerminateProcess, TypeInv, ThreadsHoldProcess, PlaceInv, StateOfPlace
  <2>2. state' = [state EXCEPT ![cpuProc[c]] = "UNUSED"]
    BY <1>7 DEF TerminateProcess
  <2> QED
    BY <1>b, <1>c, <2>1, <2>2
<1>8. ASSUME NEW d \in Devices, IOPutToReady(d) PROVE Moves
  <2>1. ioProc[d] \in Procs /\ state[ioProc[d]] \in {"BLOCKED", "SUSP_BLOCKED"}
    BY <1>8 DEF IOPutToReady, TypeInv, ThreadsHoldProcess, PlaceInv, StateOfPlace, Away
  <2>2. state' = [state EXCEPT ![ioProc[d]] = "READY"]
    BY <1>8 DEF IOPutToReady, PutToReady
  <2> QED
    BY <1>b, <1>c, <2>1, <2>2
<1>9. UNCHANGED state \/ (\E p \in Procs : Connect(p))
      \/ LongTermAdmit \/ UnsuspenderAdmit \/ MediumTermSuspend
      \/ (\E c \in CPUs : CPUTake(c) \/ CallIOBlock(c) \/ TerminateProcess(c))
      \/ \E d \in Devices : IOPutToReady(d)
  <2>1. LongTermThread => UNCHANGED state \/ LongTermAdmit
    BY DEF LongTermThread, LongTermWait
  <2>2. UnsuspenderThread => UNCHANGED state \/ UnsuspenderAdmit
    BY DEF UnsuspenderThread, UnsuspenderTakeSlot, UnsuspenderTakeNew, UnsuspenderForward
  <2>3. MediumTermThread => UNCHANGED state \/ MediumTermSuspend
    BY DEF MediumTermThread, MediumTermWait
  <2>4. \A c \in CPUs : CPUThread(c) =>
          UNCHANGED state \/ CPUTake(c) \/ CallIOBlock(c) \/ TerminateProcess(c)
    BY DEF CPUThread, CPUSignal, CallIO, CallIOEnqueue, Terminate, TerminatePost, TerminateCupos
  <2>5. \A d \in Devices : IODeviceThread(d) => UNCHANGED state \/ IOPutToReady(d)
    BY DEF IODeviceThread, IOTake, IOReadState, IORemoveBlocked, IORemoveSuspended,
           IOPutSuspendedReady, IONotify
  <2> QED
    BY <2>1, <2>2, <2>3, <2>4, <2>5 DEF Next
<1> QED
  BY <1>d, <1>1, <1>2, <1>3, <1>4, <1>5, <1>6, <1>7, <1>8, <1>9

(* No unlocked write of a state overrides the one another thread gave the process. *)
THEOREM SchedulerLifecycleRespected == Spec => LifecycleRespected
<1>1. LifecycleRespected <=> [][Moves]_vars
  BY DEF LifecycleRespected, Moves
<1> QED
  BY TypeInit, TypeStep, PlaceInit, PlaceStep, LifecycleStep, <1>1, PTL DEF Spec

-----------------------------------------------------------------------------
(* The slots of the multiprogramming degree *)

(* The sets that the account of the degree counts are finite. *)
LEMMA DegreeSetsFinite ==
    ASSUME TypeInv
    PROVE  IsFiniteSet(Occupying) /\ IsFiniteSet(Suspended) /\ IsFiniteSet(Entries)
<1>1. IsFiniteSet(Occupying) /\ IsFiniteSet(Suspended)
  BY SchedulerAssumption, FS_Subset DEF SchedulerAssumption, Occupying, Suspended
<1>2. IsFiniteSet(Entries)
  <2> DEFINE of(p) == {p} \X (1 .. suspendedBlockedQueue[p])
             all == {of(p) : p \in Procs}
  <2>1. ASSUME NEW p \in Procs PROVE IsFiniteSet(of(p))
    <3>1. IsFiniteSet({p})
      BY FS_Singleton
    <3>2. IsFiniteSet(1 .. suspendedBlockedQueue[p])
      BY FS_Interval DEF TypeInv, TypeOK
    <3> QED
      BY <3>1, <3>2, FS_Product
  <2> HIDE DEF of
  <2>2. IsFiniteSet(all)
    <3> DEFINE f == [p \in Procs |-> of(p)]
    <3>1. f \in Surjection(Procs, all)
      BY DEF Surjection
    <3> HIDE DEF f, all
    <3> QED
      BY <3>1, SchedulerAssumption, FS_Surjection DEF SchedulerAssumption
  <2>3. IsFiniteSet(UNION all)
    BY <2>1, <2>2, FS_UNION
  <2> QED
    BY <2>3 DEF Entries, of
<1> QED
  BY <1>1, <1>2

(* Each step keeps the account of the slots: it moves one, gives one back or takes one. *)
LEMMA DegreeStep == TypeInv /\ PlaceInv /\ DegreeAccounting /\ [Next]_vars => DegreeAccounting'
<1> SUFFICES ASSUME TypeInv, PlaceInv, DegreeAccounting, [Next]_vars PROVE DegreeAccounting'
  OBVIOUS
<1> DEFINE occ == Cardinality(Occupying)
           sus == Cardinality(Suspended)
           ent == Cardinality(Entries)
           post == NumAt(CPUs, cpuPc, "post")
           hand == SlotsInHand
<1>a. /\ occ \in Nat /\ sus \in Nat /\ ent \in Nat /\ post \in Nat /\ hand \in Int
      /\ semMultiprogram \in Int /\ Multiprogram \in Int
  <2>1. hand \in Int
    BY DEF SlotsInHand, One, TypeInv, TypeOK
  <2>2. semMultiprogram \in Int /\ Multiprogram \in Int
    BY SchedulerAssumption DEF SchedulerAssumption, TypeInv, TypeOK
  <2> QED
    BY <2>1, <2>2, SchedulerAssumption, DegreeSetsFinite, FS_CardinalityType, NumAtType
       DEF SchedulerAssumption
<1>b. semMultiprogram + hand + occ + post = Multiprogram + (ent - sus)
  BY DEF DegreeAccounting, StaleEntries
<1>c. DegreeAccounting' <=> semMultiprogram' + hand' + occ' + post' = Multiprogram + (ent' - sus')
  BY DEF DegreeAccounting, StaleEntries
<1>d. /\ UNCHANGED cpuPc => post' = post
      /\ \A c \in CPUs, s \in CPUSteps : cpuPc' = [cpuPc EXCEPT ![c] = s]
            /\ s # "post" /\ cpuPc[c] # "post" => post' = post
  BY DEF NumAt, AtStep, TypeInv, TypeOK
<1>e. /\ Occupying' = Occupying => occ' = occ
      /\ \A p : Occupying' = Occupying \cup {p} /\ p \notin Occupying => occ' = occ + 1
      /\ \A p : Occupying' = Occupying \ {p} /\ p \in Occupying => occ' = occ - 1
  BY DegreeSetsFinite, CardinalityChange
<1>f. /\ Suspended' = Suspended => sus' = sus
      /\ \A p : Suspended' = Suspended \cup {p} /\ p \notin Suspended => sus' = sus + 1
      /\ \A p : Suspended' = Suspended \ {p} /\ p \in Suspended => sus' = sus - 1
  BY DegreeSetsFinite, CardinalityChange
<1>g. UNCHANGED suspendedBlockedQueue => ent' = ent
  BY DEF Entries
<1>h. UNCHANGED <<longTermSem, longTerm, unsuspender>> => hand' = hand
  BY DEF SlotsInHand
<1>i. UNCHANGED state => occ' = occ
  BY DEF Occupying
<1>j. UNCHANGED <<state, suspendedReadyQueue, ioPc, ioProc>> => sus' = sus
  BY DEF Suspended
<1> HIDE DEF occ, sus, ent, post, hand
<1> USE <1>a, <1>b DEF queues, counters, planners, cpuVars, ioVars, PutToReady, SignalMediumTerm
<1>1. ASSUME NEW p \in Procs, Connect(p) PROVE DegreeAccounting'
  <2>1. occ' = occ
    <3>1. Occupying' = Occupying
      BY <1>1 DEF Connect, Occupying, TypeInv, TypeOK
    <3> QED
      BY <3>1, <1>e
  <2>2. sus' = sus
    <3>1. Suspended' = Suspended
      BY <1>1 DEF Connect, Suspended, TypeInv, TypeOK
    <3> QED
      BY <3>1, <1>f
  <2> QED
    BY <1>1, <2>1, <2>2, <1>c, <1>d, <1>g, <1>h DEF Connect
<1>2. CASE LongTermWait
  <2>1. hand' = hand
    BY <1>2 DEF LongTermWait, hand, SlotsInHand, One, TypeInv, TypeOK
  <2> QED
    BY <1>2, <2>1, <1>c, <1>d, <1>g, <1>i, <1>j DEF LongTermWait
<1>3. CASE LongTermAdmit
  <2> DEFINE p == Head(newQueue)
  <2>1. p \in Procs /\ state[p] = "NEW"
    BY <1>3, HeadTailRange DEF LongTermAdmit, TypeInv, TypeOK, PlaceInv, StateOfPlace
  <2> HIDE DEF p
  <2>2. \A q \in Procs : state'[q] = IF q = p THEN "READY" ELSE state[q]
    BY <1>3, <2>1 DEF LongTermAdmit, p, TypeInv, TypeOK
  <2>3. occ' = occ + 1
    <3>1. Occupying' = Occupying \cup {p} /\ p \notin Occupying
      BY <2>1, <2>2 DEF Occupying
    <3> QED
      BY <3>1, <1>e
  <2>4. sus' = sus
    <3>1. UNCHANGED <<suspendedReadyQueue, ioPc, ioProc>>
      BY <1>3 DEF LongTermAdmit
    <3>2. Suspended' = Suspended
      BY <2>1, <2>2, <3>1 DEF Suspended
    <3> QED
      BY <3>2, <1>f
  <2>5. hand' = hand - 1
    BY <1>3 DEF LongTermAdmit, hand, SlotsInHand, One, TypeInv, TypeOK
  <2> QED
    BY <1>3, <2>3, <2>4, <2>5, <1>c, <1>d, <1>g DEF LongTermAdmit
<1>4. CASE UnsuspenderTakeSlot
  <2>1. hand' = hand + 1 /\ semMultiprogram' = semMultiprogram - 1
    BY <1>4 DEF UnsuspenderTakeSlot, hand, SlotsInHand, One, TypeInv, TypeOK
  <2> QED
    BY <1>4, <2>1, <1>c, <1>d, <1>g, <1>i, <1>j DEF UnsuspenderTakeSlot
<1>5. CASE UnsuspenderTakeNew
  <2>1. hand' = hand
    BY <1>5 DEF UnsuspenderTakeNew, hand, SlotsInHand, One, TypeInv, TypeOK
  <2> QED
    BY <1>5, <2>1, <1>c, <1>d, <1>g, <1>i, <1>j DEF UnsuspenderTakeNew
<1>6. CASE UnsuspenderForward
  <2>1. hand' = hand
    BY <1>6 DEF UnsuspenderForward, hand, SlotsInHand, One, TypeInv, TypeOK
  <2> QED
    BY <1>6, <2>1, <1>c, <1>d, <1>g, <1>i, <1>j DEF UnsuspenderForward
<1>7. CASE UnsuspenderAdmit
  <2> DEFINE p == Head(suspendedReadyQueue)
  <2>1. /\ p \in Procs /\ state[p] = "SUSP_BLOCKED"
        /\ p \in Range(suspendedReadyQueue)
        /\ Range(suspendedReadyQueue') = Range(suspendedReadyQueue) \ {p}
    <3>1. /\ suspendedReadyQueue # <<>> /\ suspendedReadyQueue \in Seq(Procs)
          /\ IsInjective(suspendedReadyQueue) /\ suspendedReadyQueue' = Tail(suspendedReadyQueue)
      BY <1>7 DEF UnsuspenderAdmit, TypeInv, TypeOK, PlaceInv, QueuesDistinct
    <3>2. p \in Procs /\ p \in Range(suspendedReadyQueue)
          /\ Range(suspendedReadyQueue') = Range(suspendedReadyQueue) \ {p}
      BY <3>1, HeadTailRange
    <3> QED
      BY <3>2 DEF PlaceInv, StateOfPlace
  <2> HIDE DEF p
  <2>2. \A q \in Procs : state'[q] = IF q = p THEN "READY" ELSE state[q]
    BY <1>7, <2>1 DEF UnsuspenderAdmit, p, TypeInv, TypeOK
  <2>3. occ' = occ + 1
    <3>1. Occupying' = Occupying \cup {p} /\ p \notin Occupying
      BY <2>1, <2>2 DEF Occupying
    <3> QED
      BY <3>1, <1>e
  <2>4. sus' = sus
    <3>1. UNCHANGED <<ioPc, ioProc>>
      BY <1>7 DEF UnsuspenderAdmit
    <3>2. Suspended' = Suspended
      BY <2>1, <2>2, <3>1 DEF Suspended
    <3> QED
      BY <3>2, <1>f
  <2>5. hand' = hand - 1
    BY <1>7 DEF UnsuspenderAdmit, hand, SlotsInHand, One, TypeInv, TypeOK
  <2> QED
    BY <1>7, <2>3, <2>4, <2>5, <1>c, <1>d, <1>g DEF UnsuspenderAdmit
<1>8. CASE MediumTermWait
  BY <1>8, <1>c, <1>d, <1>g, <1>h, <1>i, <1>j DEF MediumTermWait
<1>9. CASE MediumTermSuspend
  <2> DEFINE p == Last(blockedQueue)
  <2>1. p \in Procs /\ state[p] = "BLOCKED"
    <3>1. blockedQueue # <<>> /\ blockedQueue \in Seq(Procs) /\ IsInjective(blockedQueue)
      BY <1>9 DEF MediumTermSuspend, MustSuspend, TypeInv, TypeOK, PlaceInv, QueuesDistinct
    <3> QED
      BY <3>1, LastFrontRange, LastFrontSeq DEF PlaceInv, BlockedQueuesExact
  <2>2. /\ state' = [state EXCEPT ![p] = "SUSP_BLOCKED"]
        /\ suspendedBlockedQueue' = [suspendedBlockedQueue EXCEPT ![p] = @ + 1]
    BY <1>9 DEF MediumTermSuspend
  <2> HIDE DEF p
  <2>3. occ' = occ - 1
    <3>1. Occupying' = Occupying \ {p} /\ p \in Occupying
      BY <2>1, <2>2 DEF Occupying, TypeInv, TypeOK
    <3> QED
      BY <3>1, <1>e
  <2>4. sus' = sus + 1
    <3>1. UNCHANGED <<suspendedReadyQueue, ioPc, ioProc>>
      BY <1>9 DEF MediumTermSuspend
    <3>2. /\ p \notin Range(suspendedReadyQueue)
          /\ \A d \in Devices : ~(ioPc[d] = "suspReady" /\ ioProc[d] = p)
      BY <2>1 DEF PlaceInv, StateOfPlace
    <3>3. Suspended' = Suspended \cup {p} /\ p \notin Suspended
      BY <2>1, <2>2, <3>1, <3>2 DEF Suspended, TypeInv, TypeOK
    <3> QED
      BY <3>3, <1>f
  <2>5. ent' = ent + 1
    <3> DEFINE n == suspendedBlockedQueue[p]
    <3>1. n \in Nat /\ \A q \in Procs : suspendedBlockedQueue'[q] =
                           IF q = p THEN n + 1 ELSE suspendedBlockedQueue[q]
      BY <2>1, <2>2 DEF TypeInv, TypeOK
    <3>2. 1 .. n + 1 = (1 .. n) \cup {n + 1} /\ n + 1 \notin 1 .. n
      BY <3>1
    <3> HIDE DEF n
    <3>3. Entries' = Entries \cup {<<p, n + 1>>} /\ <<p, n + 1>> \notin Entries
      BY <2>1, <3>1, <3>2 DEF Entries, n
    <3> QED
      BY <3>3, DegreeSetsFinite, CardinalityChange DEF ent
  <2>6. semMultiprogram' = semMultiprogram + 1
    BY <1>9 DEF MediumTermSuspend
  <2> QED
    BY <1>9, <2>3, <2>4, <2>5, <2>6, <1>c, <1>d, <1>h DEF MediumTermSuspend
<1>10. ASSUME NEW c \in CPUs, CPUTake(c) PROVE DegreeAccounting'
  <2>1. PICK p \in readyQueue : state' = [state EXCEPT ![p] = "EXEC"]
    BY <1>10 DEF CPUTake
  <2>2. p \in Procs /\ state[p] = "READY"
    BY DEF TypeInv, TypeOK, PlaceInv, StateOfPlace
  <2>3. occ' = occ
    <3>1. Occupying' = Occupying
      BY <2>1, <2>2 DEF Occupying, TypeInv, TypeOK
    <3> QED
      BY <3>1, <1>e
  <2>4. sus' = sus
    <3>1. UNCHANGED <<suspendedReadyQueue, ioPc, ioProc>>
      BY <1>10 DEF CPUTake
    <3>2. Suspended' = Suspended
      BY <2>1, <2>2, <3>1 DEF Suspended, TypeInv, TypeOK
    <3> QED
      BY <3>2, <1>f
  <2>5. post' = post
    BY <1>10, <1>d DEF CPUTake, CPUSteps
  <2> QED
    BY <1>10, <2>3, <2>4, <2>5, <1>c, <1>g, <1>h DEF CPUTake
<1>11. ASSUME NEW c \in CPUs, CPUSignal(c) PROVE DegreeAccounting'
  <2>1. post' = post
    BY <1>11, <1>d DEF CPUSignal, CPUSteps
  <2> QED
    BY <1>11, <2>1, <1>c, <1>g, <1>h, <1>i, <1>j DEF CPUSignal
<1>12. ASSUME NEW c \in CPUs, CallIOBlock(c) PROVE DegreeAccounting'
  <2>1. cpuProc[c] \in Procs /\ state[cpuProc[c]] = "EXEC"
    BY <1>12 DEF CallIOBlock, TypeInv, ThreadsHoldProcess, PlaceInv, StateOfPlace
  <2>2. state' = [state EXCEPT ![cpuProc[c]] = "BLOCKED"]
    BY <1>12 DEF CallIOBlock
  <2>3. occ' = occ
    <3>1. Occupying' = Occupying
      BY <2>1, <2>2 DEF Occupying, TypeInv, TypeOK
    <3> QED
      BY <3>1, <1>e
  <2>4. sus' = sus
    <3>1. UNCHANGED <<suspendedReadyQueue, ioPc, ioProc>>
      BY <1>12 DEF CallIOBlock
    <3>2. Suspended' = Suspended
      BY <2>1, <2>2, <3>1 DEF Suspended, TypeInv, TypeOK
    <3> QED
      BY <3>2, <1>f
  <2>5. post' = post
    BY <1>12, <1>d DEF CallIOBlock, CPUSteps
  <2> QED
    BY <1>12, <2>3, <2>4, <2>5, <1>c, <1>g, <1>h DEF CallIOBlock
<1>13. ASSUME NEW c \in CPUs, NEW d \in Devices, CallIOEnqueue(c, d) PROVE DegreeAccounting'
  <2>1. post' = post
    BY <1>13, <1>d DEF CallIOEnqueue, CPUSteps
  <2> QED
    BY <1>13, <2>1, <1>c, <1>g, <1>h, <1>i, <1>j DEF CallIOEnqueue
<1>14. ASSUME NEW c \in CPUs, TerminateProcess(c) PROVE DegreeAccounting'
  <2>1. cpuProc[c] \in Procs /\ state[cpuProc[c]] = "EXEC"
    BY <1>14 DEF TerminateProcess, TypeInv, ThreadsHoldProcess, PlaceInv, StateOfPlace
  <2>2. state' = [state EXCEPT ![cpuProc[c]] = "UNUSED"]
    BY <1>14 DEF TerminateProcess
  <2>3. occ' = occ - 1
    <3>1. Occupying' = Occupying \ {cpuProc[c]} /\ cpuProc[c] \in Occupying
      BY <2>1, <2>2 DEF Occupying, TypeInv, TypeOK
    <3> QED
      BY <3>1, <1>e
  <2>4. sus' = sus
    <3>1. UNCHANGED <<suspendedReadyQueue, ioPc, ioProc>>
      BY <1>14 DEF TerminateProcess
    <3>2. Suspended' = Suspended
      BY <2>1, <2>2, <3>1 DEF Suspended, TypeInv, TypeOK
    <3> QED
      BY <3>2, <1>f
  <2>5. post' = post + 1
    <3>1. /\ AtStep(CPUs, cpuPc', "post") = AtStep(CPUs, cpuPc, "post") \cup {c}
          /\ c \notin AtStep(CPUs, cpuPc, "post")
      BY <1>14 DEF TerminateProcess, AtStep, TypeInv, TypeOK
    <3> QED
      BY <3>1, SchedulerAssumption, NumAtChange DEF SchedulerAssumption, post
  <2> QED
    BY <1>14, <2>3, <2>4, <2>5, <1>c, <1>g, <1>h DEF TerminateProcess
<1>15. ASSUME NEW c \in CPUs, TerminatePost(c) PROVE DegreeAccounting'
  <2>1. post' = post - 1
    <3>1. /\ AtStep(CPUs, cpuPc', "post") = AtStep(CPUs, cpuPc, "post") \ {c}
          /\ c \in AtStep(CPUs, cpuPc, "post")
      BY <1>15 DEF TerminatePost, AtStep, TypeInv, TypeOK
    <3> QED
      BY <3>1, SchedulerAssumption, NumAtChange DEF SchedulerAssumption, post
  <2>2. semMultiprogram' = semMultiprogram + 1
    BY <1>15 DEF TerminatePost
  <2> QED
    BY <1>15, <2>1, <2>2, <1>c, <1>g, <1>h, <1>i, <1>j DEF TerminatePost
<1>16. ASSUME NEW c \in CPUs, TerminateCupos(c) PROVE DegreeAccounting'
  <2>1. post' = post
    BY <1>16, <1>d DEF TerminateCupos, CPUSteps
  <2> QED
    BY <1>16, <2>1, <1>c, <1>g, <1>h, <1>i, <1>j DEF TerminateCupos
<1>17. ASSUME NEW d \in Devices, IOTake(d) PROVE DegreeAccounting'
  <2>1. sus' = sus
    <3>1. /\ UNCHANGED <<state, suspendedReadyQueue>>
          /\ ioPc[d] = "take" /\ ioPc'[d] = "sleep"
          /\ \A e \in Devices : e # d => ioPc'[e] = ioPc[e] /\ ioProc'[e] = ioProc[e]
      BY <1>17 DEF IOTake, TypeInv, TypeOK
    <3>2. Suspended' = Suspended
      BY <3>1 DEF Suspended
    <3> QED
      BY <3>2, <1>f
  <2> QED
    BY <1>17, <2>1, <1>c, <1>d, <1>g, <1>h, <1>i DEF IOTake
<1>18. ASSUME NEW d \in Devices, IOReadState(d) PROVE DegreeAccounting'
  <2>1. sus' = sus
    <3>1. /\ UNCHANGED <<state, suspendedReadyQueue, ioProc>>
          /\ ioPc[d] # "suspReady" /\ ioPc'[d] # "suspReady"
          /\ \A e \in Devices : e # d => ioPc'[e] = ioPc[e]
      BY <1>18 DEF IOReadState, TypeInv, TypeOK
    <3>2. Suspended' = Suspended
      BY <3>1 DEF Suspended
    <3> QED
      BY <3>2, <1>f
  <2> QED
    BY <1>18, <2>1, <1>c, <1>d, <1>g, <1>h, <1>i DEF IOReadState
<1>19. ASSUME NEW d \in Devices, IORemoveBlocked(d) PROVE DegreeAccounting'
  <2>1. sus' = sus
    <3>1. /\ UNCHANGED <<state, suspendedReadyQueue, ioProc>>
          /\ ioPc[d] = "blocked" /\ ioPc'[d] = "ready"
          /\ \A e \in Devices : e # d => ioPc'[e] = ioPc[e]
      BY <1>19 DEF IORemoveBlocked, TypeInv, TypeOK
    <3>2. Suspended' = Suspended
      BY <3>1 DEF Suspended
    <3> QED
      BY <3>2, <1>f
  <2> QED
    BY <1>19, <2>1, <1>c, <1>d, <1>g, <1>h, <1>i DEF IORemoveBlocked
<1>20. ASSUME NEW d \in Devices, IOPutToReady(d) PROVE DegreeAccounting'
  <2> DEFINE p == ioProc[d]
  <2>1. /\ p \in Procs /\ NoProc \notin Procs /\ state[p] \in Away
        /\ \A e \in Devices : ioProc[e] = p => e = d
        /\ p \notin Range(suspendedReadyQueue)
    BY <1>20, SchedulerAssumption
       DEF IOPutToReady, TypeInv, ThreadsHoldProcess, PlaceInv, StateOfPlace, OnePlace,
           SchedulerAssumption
  <2>2. /\ ioPc[d] = "ready" /\ ioPc'[d] = "take" /\ ioProc[d] = p
        /\ \A e \in Devices : e # d => ioPc'[e] = ioPc[e] /\ ioProc'[e] = ioProc[e]
        /\ \A q \in Procs : state'[q] = IF q = p THEN "READY" ELSE state[q]
        /\ UNCHANGED <<suspendedBlockedQueue, suspendedReadyQueue, cpuPc, semMultiprogram,
                       longTermSem, longTerm, unsuspender>>
    BY <1>20 DEF IOPutToReady, TypeInv, TypeOK
  <2> HIDE DEF p
  <2>3. CASE state[p] = "BLOCKED"
    <3>1. Occupying' = Occupying
      BY <2>1, <2>2, <2>3 DEF Occupying
    <3>2. Suspended' = Suspended
      BY <2>1, <2>2, <2>3 DEF Suspended
    <3>3. occ' = occ /\ sus' = sus /\ post' = post /\ ent' = ent /\ hand' = hand
      BY <2>2, <3>1, <3>2, <1>d, <1>e, <1>f, <1>g, <1>h
    <3> QED
      BY <2>2, <3>3, <1>c
  <2>4. CASE state[p] = "SUSP_BLOCKED"
    <3>1. Occupying' = Occupying \cup {p} /\ p \notin Occupying
      BY <2>1, <2>2, <2>4 DEF Occupying
    <3>2. Suspended' = Suspended \ {p} /\ p \in Suspended
      BY <2>1, <2>2, <2>4 DEF Suspended
    <3>3. occ' = occ + 1 /\ sus' = sus - 1
      BY <3>1, <3>2, <1>e, <1>f
    <3>4. post' = post /\ ent' = ent /\ hand' = hand
      BY <2>2, <1>d, <1>g, <1>h
    <3> QED
      BY <2>2, <3>3, <3>4, <1>c
  <2> QED
    BY <2>1, <2>3, <2>4 DEF Away
<1>21. ASSUME NEW d \in Devices, IORemoveSuspended(d) PROVE DegreeAccounting'
  <2> DEFINE p == ioProc[d]
             n == suspendedBlockedQueue[p]
  <2>1. /\ p \in Procs /\ state[p] = "SUSP_BLOCKED"
        /\ \A e \in Devices : ioProc[e] = p => e = d
        /\ p \notin Range(suspendedReadyQueue)
    BY <1>21 DEF IORemoveSuspended, TypeInv, ThreadsHoldProcess, PlaceInv, StateOfPlace, OnePlace
  <2>2. /\ ioPc[d] = "suspended" /\ ioPc'[d] = "suspReady" /\ ioProc[d] = p
        /\ \A e \in Devices : e # d => ioPc'[e] = ioPc[e]
        /\ UNCHANGED <<state, suspendedReadyQueue, ioProc>>
    BY <1>21 DEF IORemoveSuspended, TypeInv, TypeOK
  <2> HIDE DEF p
  <2>3. Suspended' = Suspended \ {p} /\ p \in Suspended
    BY <2>1, <2>2 DEF Suspended
  <2>4. n \in Nat /\ n > 0
    BY <2>1, <2>3 DEF TypeInv, TypeOK, PlaceInv, BlockedQueuesExact
  <2>5. \A q \in Procs : suspendedBlockedQueue'[q] =
                            IF q = p THEN n - 1 ELSE suspendedBlockedQueue[q]
    BY <1>21, <2>1, <2>4 DEF IORemoveSuspended, TypeInv, TypeOK, p
  <2>6. 1 .. n - 1 = (1 .. n) \ {n} /\ n \in 1 .. n
    BY <2>4
  <2> HIDE DEF n
  <2>7. Entries' = Entries \ {<<p, n>>} /\ <<p, n>> \in Entries
    BY <2>1, <2>5, <2>6 DEF Entries, n
  <2>8. ent' = ent - 1 /\ sus' = sus - 1
    BY <2>3, <2>7, <1>f, DegreeSetsFinite, CardinalityChange DEF ent
  <2> QED
    BY <1>21, <2>8, <1>c, <1>d, <1>h, <1>i DEF IORemoveSuspended
<1>22. ASSUME NEW d \in Devices, IOPutSuspendedReady(d) PROVE DegreeAccounting'
  <2> DEFINE p == ioProc[d]
  <2>1. p \in Procs /\ \A e \in Devices : ioProc[e] = p => e = d
    BY <1>22 DEF IOPutSuspendedReady, TypeInv, ThreadsHoldProcess, PlaceInv, OnePlace
  <2>2. /\ ioPc[d] = "suspReady" /\ ioPc'[d] = "notify" /\ ioProc[d] = p
        /\ \A e \in Devices : e # d => ioPc'[e] = ioPc[e] /\ ioProc'[e] = ioProc[e]
        /\ UNCHANGED state
    BY <1>22 DEF IOPutSuspendedReady, TypeInv, TypeOK
  <2>3. Range(suspendedReadyQueue') = Range(suspendedReadyQueue) \cup {p}
    BY <1>22, <2>1, AppendRange DEF IOPutSuspendedReady, TypeInv, TypeOK
  <2> HIDE DEF p
  <2>4. Suspended' = Suspended
    BY <2>1, <2>2, <2>3 DEF Suspended
  <2> QED
    BY <1>22, <2>4, <1>c, <1>d, <1>f, <1>g, <1>h, <1>i DEF IOPutSuspendedReady
<1>23. ASSUME NEW d \in Devices, IONotify(d) PROVE DegreeAccounting'
  <2>1. sus' = sus
    <3>1. /\ UNCHANGED <<state, suspendedReadyQueue, ioProc>>
          /\ ioPc[d] = "notify" /\ ioPc'[d] = "take"
          /\ \A e \in Devices : e # d => ioPc'[e] = ioPc[e]
      BY <1>23 DEF IONotify, TypeInv, TypeOK
    <3>2. Suspended' = Suspended
      BY <3>1 DEF Suspended
    <3> QED
      BY <3>2, <1>f
  <2> QED
    BY <1>23, <2>1, <1>c, <1>d, <1>g, <1>h, <1>i DEF IONotify
<1>24. CASE UNCHANGED vars
  BY <1>24, <1>c, <1>d, <1>g, <1>h, <1>i, <1>j DEF vars
<1> QED
  BY <1>1, <1>2, <1>3, <1>4, <1>5, <1>6, <1>7, <1>8, <1>9, <1>10, <1>11, <1>12,
     <1>13, <1>14, <1>15, <1>16, <1>17, <1>18, <1>19, <1>20, <1>21, <1>22, <1>23, <1>24
     DEF Next, LongTermThread, UnsuspenderThread, MediumTermThread, CPUThread, CallIO,
         Terminate, IODeviceThread

(* At the start all the slots are free. *)
LEMMA DegreeInit == Init => DegreeAccounting
<1> SUFFICES ASSUME Init PROVE DegreeAccounting
  OBVIOUS
<1>1. Occupying = {} /\ Suspended = {} /\ Entries = {}
  BY DEF Init, Occupying, Suspended, Entries
<1>2. NumAt(CPUs, cpuPc, "post") = 0
  BY SchedulerAssumption, NumAtType DEF SchedulerAssumption, Init
<1>3. semMultiprogram = Multiprogram /\ SlotsInHand = 0 /\ Multiprogram \in Nat
  BY SchedulerAssumption DEF SchedulerAssumption, Init, SlotsInHand, One
<1> QED
  BY <1>1, <1>2, <1>3, FS_EmptySet DEF DegreeAccounting, StaleEntries

(* No slot of the multiprogramming degree is lost, and the only ones gained are those of
   the entries that a device left behind in the suspended-blocked queue. *)
THEOREM SchedulerDegreeAccounting == Spec => []DegreeAccounting
BY TypeInit, TypeStep, PlaceInit, PlaceStep, DegreeInit, DegreeStep, PTL DEF Spec

=============================================================================
