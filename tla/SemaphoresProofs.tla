-------------------------- MODULE SemaphoresProofs --------------------------
(***************************************************************************)
(* Proofs that the semaphores keep their safety invariants whatever the    *)
(* number of processes, semaphores and CPUs.                               *)
(***************************************************************************)
EXTENDS Semaphores, DeadlockSearchProofs

-----------------------------------------------------------------------------
(* The types, strengthened with what the threads hold *)

\* sem_mutex keeps the unit that the thread has seen until it takes it
UnitKept == \A s \in Sems : Locked(s) => sem[s] > 0

TypeInv == TypeOK /\ ThreadsHoldProcess /\ UnitKept

USE DEF States, CPUSteps, SemSteps

(* The semaphores begin typed and with no process in the hands of a thread. *)
LEMMA TypeInit == Init => TypeInv
BY SemaphoresAssumption
   DEF SemaphoresAssumption, Init, TypeInv, TypeOK, ThreadsHoldProcess, UnitKept, Locked, NoUnits

(* Every action keeps the types: the detector's victim is a process, and what a petition
   or a thread hands on is the process it took. *)
LEMMA TypeStep == TypeInv /\ [Next]_vars => TypeInv'
<1> SUFFICES ASSUME TypeInv, [Next]_vars PROVE TypeInv'
  OBVIOUS
<1> USE DEF TypeInv, TypeOK, ThreadsHoldProcess, UnitKept, Locked, ddVars, semVars,
        semThreadVars, procVars, cpuVars, detectorVars, bounds
<1>1. ASSUME NEW s \in Sems, SemSleep(s) PROVE TypeInv'
  BY <1>1 DEF SemSleep
<1>2. ASSUME NEW s \in Sems, SemTake(s) PROVE TypeInv'
  <2>1. Head(waiting[s]) \in Procs /\ Tail(waiting[s]) \in Seq(Procs) /\ sem[s] - 1 \in Nat
    BY <1>2, HeadTailProperties DEF SemTake
  <2> QED
    BY <1>2, <2>1 DEF SemTake
<1>3. ASSUME NEW s \in Sems, SemTest(s) PROVE TypeInv'
  BY <1>3 DEF SemTest, CanHandOver
<1>4. ASSUME NEW s \in Sems, SemTakeNull(s) PROVE TypeInv'
  BY <1>4 DEF SemTakeNull
<1>5. ASSUME NEW s \in Sems, SemIsBlocked(s) PROVE TypeInv'
  BY <1>5 DEF SemIsBlocked
<1>6. ASSUME NEW s \in Sems, SemIsSuspended(s) PROVE TypeInv'
  BY <1>6 DEF SemIsSuspended
<1>7. ASSUME NEW s \in Sems, SemRemoveBlocked(s) PROVE TypeInv'
  BY <1>7 DEF SemRemoveBlocked
<1>8. ASSUME NEW s \in Sems, SemPutToReady(s) PROVE TypeInv'
  BY <1>8 DEF SemPutToReady
<1>9. ASSUME NEW s \in Sems, SemPutSuspendedReady(s) PROVE TypeInv'
  BY <1>9 DEF SemPutSuspendedReady
<1>10. ASSUME NEW s \in Sems, SemAllocated(s) PROVE TypeInv'
  <2>1. semProc[s] \in Procs
    BY <1>10 DEF SemAllocated
  <2>2. allocation' \in [Procs -> [Sems -> Nat]] /\ request' \in [Procs -> [Sems -> Int]]
        /\ available' \in [Sems -> Int] /\ ddProcs' = ddProcs
    BY <1>10, <2>1 DEF SemAllocated, DDSemAllocated
  <2> QED
    BY <1>10, <2>2 DEF SemAllocated
<1>11. ASSUME NEW c \in CPUs, NEW s \in Sems, SemWaitPass(c, s) PROVE TypeInv'
  BY <1>11, SemaphoresAssumption DEF SemWaitPass, Petition, MateSemTake, SemaphoresAssumption
<1>12. ASSUME NEW c \in CPUs, NEW s \in Sems, SemWaitEnqueue(c, s) PROVE TypeInv'
  <2>1. cpuProc[c] \in Procs
    BY <1>12 DEF SemWaitEnqueue, Petition
  <2>2. Append(waiting[s], cpuProc[c]) \in Seq(Procs)
    BY <2>1
  <2> QED
    BY <1>12, <2>2, SemaphoresAssumption
       DEF SemWaitEnqueue, Petition, MateSemEnqueue, SemaphoresAssumption
<1>13. ASSUME NEW c \in CPUs, NEW s \in Sems, SemPost(c, s) PROVE TypeInv'
  BY <1>13, SemaphoresAssumption DEF SemPost, Petition, MateSemPost, SemaphoresAssumption
<1>14. ASSUME NEW c \in CPUs, SemWaitInstant(c) PROVE TypeInv'
  <2>1. cpuProc[c] \in Procs /\ cpuSem[c] \in Sems
    BY <1>14 DEF SemWaitInstant
  <2>2. allocation' \in [Procs -> [Sems -> Nat]] /\ available' \in [Sems -> Int]
        /\ UNCHANGED <<ddProcs, request>>
    BY <1>14, <2>1 DEF SemWaitInstant, DDSemAllocatedInstant
  <2> QED
    BY <1>14, <2>2 DEF SemWaitInstant
<1>15. ASSUME NEW c \in CPUs, SemPostRelease(c) PROVE TypeInv'
  <2>1. cpuProc[c] \in Procs /\ cpuSem[c] \in Sems
    BY <1>15 DEF SemPostRelease
  <2>2. allocation' \in [Procs -> [Sems -> Nat]] /\ available' \in [Sems -> Int]
        /\ UNCHANGED <<ddProcs, request>>
    BY <1>15, <2>1 DEF SemPostRelease, DDSemRelease
  <2> QED
    BY <1>15, <2>2 DEF SemPostRelease
<1>16. ASSUME NEW c \in CPUs, SemWaitBlock(c) PROVE TypeInv'
  BY <1>16 DEF SemWaitBlock
<1>17. ASSUME NEW c \in CPUs, SemWaitRequested(c) PROVE TypeInv'
  <2>1. cpuProc[c] \in Procs /\ cpuSem[c] \in Sems
    BY <1>17 DEF SemWaitRequested
  <2>2. request' \in [Procs -> [Sems -> Int]] /\ UNCHANGED <<ddProcs, available, allocation>>
    BY <1>17, <2>1 DEF SemWaitRequested, DDSemRequested
  <2> QED
    BY <1>17, <2>2 DEF SemWaitRequested
<1>18. ASSUME NEW c \in CPUs, TerminateDD(c) PROVE TypeInv'
  BY <1>18 DEF TerminateDD, DDProcTerm, DDUpdates, NoUnits
<1>19. ASSUME NEW c \in CPUs, TerminateDestroy(c) PROVE TypeInv'
  BY <1>19 DEF TerminateDestroy
<1>20. CASE DetectorWake
  BY <1>20, SemaphoresAssumption DEF DetectorWake, SemaphoresAssumption
<1>21. CASE FindNone
  BY <1>21 DEF FindNone
<1>22. CASE FindNobody
  BY <1>22 DEF FindNobody, vars
<1>23. CASE FindVictim
  BY <1>23 DEF FindVictim, Victims, Stuck
<1>24. CASE KillWithdraw
  <2>1. \A s \in Sems : RemoveFirst(waiting[s], ddVictim) \in Seq(Procs)
    BY RemoveFirstSeq
  <2> DEFINE s0 == Current
  <2>2. waiting' = [waiting EXCEPT ![s0] = RemoveFirst(waiting[s0], ddVictim)]
        /\ request' = [request EXCEPT ![ddVictim][s0] = 0]
    BY <1>24 DEF KillWithdraw
  <2> HIDE DEF s0
  <2>3. waiting' \in [Sems -> Seq(Procs)]
    BY <2>1, <2>2
  <2>4. request' \in [Procs -> [Sems -> Int]]
    <3>1. [request[ddVictim] EXCEPT ![s0] = 0] \in [Sems -> Int]
      <4>1. request[ddVictim] \in [Sems -> Int]
        BY <1>24 DEF KillWithdraw
      <4>2. CASE s0 \in Sems
        BY <4>1, <4>2
      <4>3. CASE s0 \notin Sems
        BY <4>1, <4>3
      <4> QED
        BY <4>2, <4>3
    <3> QED
      BY <2>2, <3>1
  <2>5. blockedQueue' \in SUBSET Procs
    BY <1>24 DEF KillWithdraw
  <2> QED
    BY <1>24, <2>3, <2>4, <2>5 DEF KillWithdraw
<1>25. CASE KillPost
  <2> DEFINE s0 == Current
  <2>1. /\ ddVictim \in Procs
        /\ allocation[ddVictim][s0] > 0
        /\ allocation' = [allocation EXCEPT ![ddVictim][s0] = allocation[ddVictim][s0] - 1]
        /\ available' = [available EXCEPT ![s0] = available[s0] + 1]
        /\ MateSemPost(s0)
        /\ UNCHANGED <<ddProcs, request, semProc, procVars, cpuVars, detectorVars, bounds>>
    BY <1>25 DEF KillPost
  <2> HIDE DEF s0
  <2>2. allocation' \in [Procs -> [Sems -> Nat]] /\ available' \in [Sems -> Int]
    <3>1. [allocation[ddVictim] EXCEPT ![s0] = allocation[ddVictim][s0] - 1] \in [Sems -> Nat]
      <4>1. allocation[ddVictim] \in [Sems -> Nat]
        BY <2>1
      <4>2. CASE s0 \in Sems
        BY <2>1, <4>1, <4>2
      <4>3. CASE s0 \notin Sems
        BY <4>1, <4>3
      <4> QED
        BY <4>2, <4>3
    <3>2. allocation' \in [Procs -> [Sems -> Nat]]
      BY <2>1, <3>1
    <3>3. CASE s0 \in Sems
      BY <2>1, <3>2, <3>3
    <3>4. CASE s0 \notin Sems
      BY <2>1, <3>2, <3>4
    <3> QED
      BY <3>3, <3>4
  <2>3. /\ sem' \in [Sems -> Nat] /\ UNCHANGED waiting
        /\ semPc' \in [Sems -> SemSteps]
        /\ \A s \in Sems : semPc'[s] \notin {"check", "waiting"} => semPc'[s] = semPc[s]
    <3>1. CASE s0 \in Sems
      BY <2>1, <3>1 DEF MateSemPost
    <3>2. CASE s0 \notin Sems
      BY <2>1, <3>2 DEF MateSemPost
    <3> QED
      BY <3>1, <3>2
  <2>4. \A s \in Sems : Locked(s)' => Locked(s) /\ sem'[s] = sem[s]
    <3> TAKE s \in Sems
    <3>1. CASE s = s0
      BY <2>1, <2>3, <3>1 DEF MateSemPost
    <3>2. CASE s # s0
      BY <2>1, <3>2 DEF MateSemPost
    <3> QED
      BY <3>1, <3>2
  <2>5. UnitKept'
    BY <2>4
  <2> QED
    BY <2>1, <2>2, <2>3, <2>5
<1>26. CASE KillNextSem
  BY <1>26 DEF KillNextSem
<1>27. CASE KillDestroy
  BY <1>27 DEF KillDestroy
<1>28. ASSUME NEW c \in CPUs, NEW p \in Procs, Dispatch(c, p) PROVE TypeInv'
  BY <1>28 DEF Dispatch
<1>29. ASSUME NEW p \in Procs, Suspend(p) PROVE TypeInv'
  BY <1>29 DEF Suspend
<1>30. ASSUME NEW p \in Procs, Unsuspend(p) PROVE TypeInv'
  BY <1>30 DEF Unsuspend
<1>31. CASE UNCHANGED vars
  BY <1>31 DEF vars
<1> QED
  BY <1>1, <1>2, <1>3, <1>4, <1>5, <1>6, <1>7, <1>8, <1>9, <1>10, <1>11, <1>12,
     <1>13, <1>14, <1>15, <1>16, <1>17, <1>18, <1>19, <1>20, <1>21, <1>22, <1>23,
     <1>24, <1>25, <1>26, <1>27, <1>28, <1>29, <1>30, <1>31
     DEF Next, SemThread, CPUThread, Detector, SchedulerStep

(* The state stays well typed. *)
THEOREM SemaphoresTypes == Spec => []TypeOK
<1>1. TypeInv => TypeOK
  BY DEF TypeInv
<1> QED
  BY TypeInit, TypeStep, <1>1, PTL DEF Spec

-----------------------------------------------------------------------------
(* The threads of the semaphores *)

(* pQueue_removeBy does not fill an empty queue. *)
LEMMA RemoveFirstEmpty == \A e : RemoveFirst(<<>>, e) = <<>>
BY DEF RemoveFirst

(* A thread sleeps with nothing to hand over: the queue grows only when there is no unit,
   and the first unit signals. *)
LEMMA WakeupStep == TypeInv /\ NoLostWakeup /\ [Next]_vars => NoLostWakeup'
<1> SUFFICES ASSUME TypeInv, NoLostWakeup, [Next]_vars PROVE NoLostWakeup'
  OBVIOUS
<1> USE DEF TypeInv, TypeOK, UnitKept, Locked, NoLostWakeup, CanHandOver, ddVars, semVars,
        semThreadVars, procVars, cpuVars, detectorVars, bounds
<1>1. ASSUME NEW s \in Sems, SemSleep(s) PROVE NoLostWakeup'
  BY <1>1 DEF SemSleep
<1>2. ASSUME NEW s \in Sems, SemTake(s) PROVE NoLostWakeup'
  BY <1>2 DEF SemTake
<1>3. ASSUME NEW s \in Sems, SemTest(s) PROVE NoLostWakeup'
  BY <1>3 DEF SemTest
<1>4. ASSUME NEW s \in Sems, SemTakeNull(s) PROVE NoLostWakeup'
  BY <1>4 DEF SemTakeNull
<1>5. ASSUME NEW s \in Sems, SemIsBlocked(s) PROVE NoLostWakeup'
  BY <1>5 DEF SemIsBlocked
<1>6. ASSUME NEW s \in Sems, SemIsSuspended(s) PROVE NoLostWakeup'
  BY <1>6 DEF SemIsSuspended
<1>7. ASSUME NEW s \in Sems, SemRemoveBlocked(s) PROVE NoLostWakeup'
  BY <1>7 DEF SemRemoveBlocked
<1>8. ASSUME NEW s \in Sems, SemPutToReady(s) PROVE NoLostWakeup'
  BY <1>8 DEF SemPutToReady
<1>9. ASSUME NEW s \in Sems, SemPutSuspendedReady(s) PROVE NoLostWakeup'
  BY <1>9 DEF SemPutSuspendedReady
<1>10. ASSUME NEW s \in Sems, SemAllocated(s) PROVE NoLostWakeup'
  BY <1>10 DEF SemAllocated, DDSemAllocated
<1>11. ASSUME NEW c \in CPUs, NEW s \in Sems, SemWaitPass(c, s) PROVE NoLostWakeup'
  BY <1>11 DEF SemWaitPass, Petition, MateSemTake
<1>12. ASSUME NEW c \in CPUs, NEW s \in Sems, SemWaitEnqueue(c, s) PROVE NoLostWakeup'
  BY <1>12 DEF SemWaitEnqueue, Petition, MateSemEnqueue
<1>13. ASSUME NEW c \in CPUs, NEW s \in Sems, SemPost(c, s) PROVE NoLostWakeup'
  BY <1>13 DEF SemPost, Petition, MateSemPost
<1>14. ASSUME NEW c \in CPUs, SemWaitInstant(c) PROVE NoLostWakeup'
  BY <1>14 DEF SemWaitInstant, DDSemAllocatedInstant
<1>15. ASSUME NEW c \in CPUs, SemPostRelease(c) PROVE NoLostWakeup'
  BY <1>15 DEF SemPostRelease, DDSemRelease
<1>16. ASSUME NEW c \in CPUs, SemWaitBlock(c) PROVE NoLostWakeup'
  BY <1>16 DEF SemWaitBlock
<1>17. ASSUME NEW c \in CPUs, SemWaitRequested(c) PROVE NoLostWakeup'
  BY <1>17 DEF SemWaitRequested, DDSemRequested
<1>18. ASSUME NEW c \in CPUs, TerminateDD(c) PROVE NoLostWakeup'
  BY <1>18 DEF TerminateDD
<1>19. ASSUME NEW c \in CPUs, TerminateDestroy(c) PROVE NoLostWakeup'
  BY <1>19 DEF TerminateDestroy
<1>20. CASE DetectorWake
  BY <1>20 DEF DetectorWake
<1>21. CASE FindNone
  BY <1>21 DEF FindNone
<1>22. CASE FindNobody
  BY <1>22 DEF FindNobody, vars
<1>23. CASE FindVictim
  BY <1>23 DEF FindVictim
<1>24. CASE KillWithdraw
  BY <1>24, RemoveFirstEmpty DEF KillWithdraw
<1>25. CASE KillPost
  BY <1>25 DEF KillPost, MateSemPost
<1>26. CASE KillNextSem
  BY <1>26 DEF KillNextSem
<1>27. CASE KillDestroy
  BY <1>27 DEF KillDestroy
<1>28. ASSUME NEW c \in CPUs, NEW p \in Procs, Dispatch(c, p) PROVE NoLostWakeup'
  BY <1>28 DEF Dispatch
<1>29. ASSUME NEW p \in Procs, Suspend(p) PROVE NoLostWakeup'
  BY <1>29 DEF Suspend
<1>30. ASSUME NEW p \in Procs, Unsuspend(p) PROVE NoLostWakeup'
  BY <1>30 DEF Unsuspend
<1>31. CASE UNCHANGED vars
  BY <1>31 DEF vars
<1> QED
  BY <1>1, <1>2, <1>3, <1>4, <1>5, <1>6, <1>7, <1>8, <1>9, <1>10, <1>11, <1>12,
     <1>13, <1>14, <1>15, <1>16, <1>17, <1>18, <1>19, <1>20, <1>21, <1>22, <1>23,
     <1>24, <1>25, <1>26, <1>27, <1>28, <1>29, <1>30, <1>31
     DEF Next, SemThread, CPUThread, Detector, SchedulerStep

(* No semaphore's thread sleeps while it has a process and a unit for it. *)
THEOREM SemaphoresNoLostWakeup == Spec => []NoLostWakeup
<1>1. Init => NoLostWakeup
  BY DEF Init, NoLostWakeup
<1> QED
  BY TypeInit, TypeStep, WakeupStep, <1>1, PTL DEF Spec

-----------------------------------------------------------------------------
(* The detector's count of units *)

(* The reports that are due, of the CPU threads and of the thread of the semaphore, make
   the difference between the two counts; no other fact is needed. *)
LEMMA UnitsStep == TypeInv /\ AvailableTracksSem /\ [Next]_vars => AvailableTracksSem'
<1> SUFFICES ASSUME TypeInv, AvailableTracksSem, [Next]_vars PROVE AvailableTracksSem'
  OBVIOUS
<1> DEFINE release(t) == Cardinality(At("release", t))
           instant(t) == Cardinality(At("instant", t))
           taken(t) == One(HasTaken(t))
<1>a. \A t : IsFiniteSet(At("release", t)) /\ IsFiniteSet(At("instant", t))
  BY SemaphoresAssumption, FS_Subset DEF SemaphoresAssumption, At
<1>b. \A t \in Sems : /\ release(t) \in Nat /\ instant(t) \in Nat /\ taken(t) \in {0, 1}
                      /\ available[t] \in Int /\ sem[t] \in Int
                      /\ available[t] + release(t) = sem[t] + instant(t) + taken(t)
  BY <1>a, FS_CardinalityType DEF AvailableTracksSem, One, TypeInv, TypeOK
<1>c. AvailableTracksSem' <=> \A t \in Sems : available'[t] + release(t)'
                                                  = sem'[t] + instant(t)' + taken(t)'
  BY DEF AvailableTracksSem
\* A CPU thread that makes no report and leaves none due
<1>d. ASSUME NEW c \in CPUs, cpuPc[c] \notin {"release", "instant"},
             cpuPc'[c] \notin {"release", "instant"},
             \A e \in CPUs : e # c => cpuPc'[e] = cpuPc[e] /\ cpuSem'[e] = cpuSem[e]
      PROVE  \A t : release(t)' = release(t) /\ instant(t)' = instant(t)
  <2>1. \A t : At("release", t)' = At("release", t) /\ At("instant", t)' = At("instant", t)
    BY <1>d DEF At
  <2> QED
    BY <2>1
<1>e. UNCHANGED <<cpuPc, cpuSem>> => \A t : release(t)' = release(t) /\ instant(t)' = instant(t)
  BY DEF At
<1>f. UNCHANGED semPc => \A t : taken(t)' = taken(t)
  BY DEF HasTaken
\* The step of the thread of s from one step that is alike to another
<1>g. ASSUME NEW s \in Sems, NEW x, semPc' = [semPc EXCEPT ![s] = x],
             semPc[s] \in {"check", "waiting", "take"} <=> x \in {"check", "waiting", "take"}
      PROVE  \A t \in Sems : taken(t)' = taken(t)
  BY <1>g DEF HasTaken, TypeInv, TypeOK
\* A change of one CPU thread's due report
<1>h. ASSUME NEW c \in CPUs, NEW s, NEW step \in {"release", "instant"},
             At(step, s)' = At(step, s) \cup {c}, c \notin At(step, s)
      PROVE  Cardinality(At(step, s))' = Cardinality(At(step, s)) + 1
  <2>1. IsFiniteSet(At(step, s))
    BY <1>a
  <2> QED
    BY <1>h, <2>1, CardinalityChange
<1>i. ASSUME NEW c \in CPUs, NEW s, NEW step \in {"release", "instant"},
             At(step, s)' = At(step, s) \ {c}, c \in At(step, s)
      PROVE  Cardinality(At(step, s))' = Cardinality(At(step, s)) - 1
  <2>1. IsFiniteSet(At(step, s))
    BY <1>a
  <2> QED
    BY <1>i, <2>1, CardinalityChange
<1> USE DEF ddVars, semVars, semThreadVars, procVars, cpuVars, detectorVars, bounds
<1>1. ASSUME NEW s \in Sems, SemSleep(s) PROVE AvailableTracksSem'
  <2>1. \A t \in Sems : taken(t)' = taken(t)
    BY <1>1, <1>g DEF SemSleep, TypeInv, TypeOK
  <2>2. UNCHANGED <<available, sem, cpuPc, cpuSem>>
    BY <1>1 DEF SemSleep
  <2> HIDE DEF release, instant, taken
  <2> QED
    BY <2>1, <2>2, <1>b, <1>c, <1>e
<1>2. ASSUME NEW s \in Sems, SemTake(s) PROVE AvailableTracksSem'
  <2>1. UNCHANGED <<available, cpuPc, cpuSem>>
    BY <1>2 DEF SemTake
  <2>2. \A t \in Sems : sem'[t] = IF t = s THEN sem[t] - 1 ELSE sem[t]
    BY <1>2 DEF SemTake, TypeInv, TypeOK
  <2>3. \A t \in Sems : taken(t)' = IF t = s THEN taken(t) + 1 ELSE taken(t)
    <3>1. /\ semPc[s] = "take" /\ semPc'[s] \notin {"check", "waiting", "take"}
          /\ \A t \in Sems : t # s => semPc'[t] = semPc[t]
      BY <1>2 DEF SemTake, TypeInv, TypeOK
    <3> QED
      BY <3>1 DEF HasTaken, One
  <2> HIDE DEF release, instant, taken
  <2> QED
    BY <2>1, <2>2, <2>3, <1>b, <1>c, <1>e
<1>3. ASSUME NEW s \in Sems, SemTest(s) PROVE AvailableTracksSem'
  <2>1. \A t \in Sems : taken(t)' = taken(t)
    BY <1>3, <1>g DEF SemTest, TypeInv, TypeOK
  <2>2. UNCHANGED <<available, sem, cpuPc, cpuSem>>
    BY <1>3 DEF SemTest
  <2> HIDE DEF release, instant, taken
  <2> QED
    BY <2>1, <2>2, <1>b, <1>c, <1>e
<1>4. ASSUME NEW s \in Sems, SemTakeNull(s) PROVE AvailableTracksSem'
  <2>1. UNCHANGED <<available, cpuPc, cpuSem>>
    BY <1>4 DEF SemTakeNull
  <2>2. \A t \in Sems : sem'[t] = IF t = s THEN sem[t] - 1 ELSE sem[t]
    BY <1>4 DEF SemTakeNull, TypeInv, TypeOK
  <2>3. \A t \in Sems : taken(t)' = IF t = s THEN taken(t) + 1 ELSE taken(t)
    <3>1. /\ semPc[s] = "take" /\ semPc'[s] \notin {"check", "waiting", "take"}
          /\ \A t \in Sems : t # s => semPc'[t] = semPc[t]
      BY <1>4 DEF SemTakeNull, TypeInv, TypeOK
    <3> QED
      BY <3>1 DEF HasTaken, One
  <2> HIDE DEF release, instant, taken
  <2> QED
    BY <2>1, <2>2, <2>3, <1>b, <1>c, <1>e
<1>5. ASSUME NEW s \in Sems, SemIsBlocked(s) PROVE AvailableTracksSem'
  <2>1. \A t \in Sems : taken(t)' = taken(t)
    BY <1>5, <1>g DEF SemIsBlocked, TypeInv, TypeOK
  <2>2. UNCHANGED <<available, sem, cpuPc, cpuSem>>
    BY <1>5 DEF SemIsBlocked
  <2> HIDE DEF release, instant, taken
  <2> QED
    BY <2>1, <2>2, <1>b, <1>c, <1>e
<1>6. ASSUME NEW s \in Sems, SemIsSuspended(s) PROVE AvailableTracksSem'
  <2>1. \A t \in Sems : taken(t)' = taken(t)
    BY <1>6, <1>g DEF SemIsSuspended, TypeInv, TypeOK
  <2>2. UNCHANGED <<available, sem, cpuPc, cpuSem>>
    BY <1>6 DEF SemIsSuspended
  <2> HIDE DEF release, instant, taken
  <2> QED
    BY <2>1, <2>2, <1>b, <1>c, <1>e
<1>7. ASSUME NEW s \in Sems, SemRemoveBlocked(s) PROVE AvailableTracksSem'
  <2>1. \A t \in Sems : taken(t)' = taken(t)
    BY <1>7, <1>g DEF SemRemoveBlocked, TypeInv, TypeOK
  <2>2. UNCHANGED <<available, sem, cpuPc, cpuSem>>
    BY <1>7 DEF SemRemoveBlocked
  <2> HIDE DEF release, instant, taken
  <2> QED
    BY <2>1, <2>2, <1>b, <1>c, <1>e
<1>8. ASSUME NEW s \in Sems, SemPutToReady(s) PROVE AvailableTracksSem'
  <2>1. \A t \in Sems : taken(t)' = taken(t)
    BY <1>8, <1>g DEF SemPutToReady, TypeInv, TypeOK
  <2>2. UNCHANGED <<available, sem, cpuPc, cpuSem>>
    BY <1>8 DEF SemPutToReady
  <2> HIDE DEF release, instant, taken
  <2> QED
    BY <2>1, <2>2, <1>b, <1>c, <1>e
<1>9. ASSUME NEW s \in Sems, SemPutSuspendedReady(s) PROVE AvailableTracksSem'
  <2>1. \A t \in Sems : taken(t)' = taken(t)
    BY <1>9, <1>g DEF SemPutSuspendedReady, TypeInv, TypeOK
  <2>2. UNCHANGED <<available, sem, cpuPc, cpuSem>>
    BY <1>9 DEF SemPutSuspendedReady
  <2> HIDE DEF release, instant, taken
  <2> QED
    BY <2>1, <2>2, <1>b, <1>c, <1>e
<1>10. ASSUME NEW s \in Sems, SemAllocated(s) PROVE AvailableTracksSem'
  <2>1. UNCHANGED <<sem, cpuPc, cpuSem>>
    BY <1>10 DEF SemAllocated
  <2>2. \A t \in Sems : available'[t] = IF t = s THEN available[t] - 1 ELSE available[t]
    BY <1>10 DEF SemAllocated, DDSemAllocated, TypeInv, TypeOK
  <2>3. \A t \in Sems : taken(t)' = IF t = s THEN taken(t) - 1 ELSE taken(t)
    BY <1>10 DEF SemAllocated, HasTaken, One, TypeInv, TypeOK
  <2> HIDE DEF release, instant, taken
  <2> QED
    BY <2>1, <2>2, <2>3, <1>b, <1>c, <1>e
<1>11. ASSUME NEW c \in CPUs, NEW s \in Sems, SemWaitPass(c, s) PROVE AvailableTracksSem'
  <2>1. /\ UNCHANGED <<available, semPc>>
        /\ \A t \in Sems : sem'[t] = IF t = s THEN sem[t] - 1 ELSE sem[t]
    BY <1>11 DEF SemWaitPass, Petition, MateSemTake, TypeInv, TypeOK
  <2>2. /\ cpuPc[c] = "run" /\ cpuPc'[c] = "instant" /\ cpuSem'[c] = s
        /\ \A e \in CPUs : e # c => cpuPc'[e] = cpuPc[e] /\ cpuSem'[e] = cpuSem[e]
    BY <1>11 DEF SemWaitPass, Petition, TypeInv, TypeOK
  <2>3. /\ At("instant", s)' = At("instant", s) \cup {c} /\ c \notin At("instant", s)
        /\ \A t : t # s => At("instant", t)' = At("instant", t)
        /\ \A t : At("release", t)' = At("release", t)
    BY <2>2 DEF At
  <2>4. /\ \A t : t = s => instant(t)' = instant(t) + 1
        /\ \A t : t # s => instant(t)' = instant(t)
        /\ \A t : release(t)' = release(t)
    BY <2>3, <1>h
  <2> HIDE DEF release, instant, taken
  <2>5. ASSUME NEW t \in Sems
        PROVE  available'[t] + release(t)' = sem'[t] + instant(t)' + taken(t)'
    <3>1. CASE t = s
      BY <2>1, <2>4, <1>f, <1>b, <3>1
    <3>2. CASE t # s
      BY <2>1, <2>4, <1>f, <1>b, <3>2
    <3> QED
      BY <3>1, <3>2
  <2> QED
    BY <2>5, <1>c
<1>12. ASSUME NEW c \in CPUs, NEW s \in Sems, SemWaitEnqueue(c, s) PROVE AvailableTracksSem'
  <2>1. \A t : release(t)' = release(t) /\ instant(t)' = instant(t)
    BY <1>12, <1>d DEF SemWaitEnqueue, Petition, MateSemEnqueue, TypeInv, TypeOK
  <2>2. UNCHANGED <<available, sem, semPc>>
    BY <1>12 DEF SemWaitEnqueue, Petition, MateSemEnqueue
  <2> HIDE DEF release, instant, taken
  <2> QED
    BY <2>1, <2>2, <1>b, <1>c, <1>f
<1>13. ASSUME NEW c \in CPUs, NEW s \in Sems, SemPost(c, s) PROVE AvailableTracksSem'
  <2>1. /\ UNCHANGED available
        /\ \A t \in Sems : sem'[t] = IF t = s THEN sem[t] + 1 ELSE sem[t]
    BY <1>13 DEF SemPost, Petition, MateSemPost, TypeInv, TypeOK
  <2>2. /\ cpuPc[c] = "run" /\ cpuPc'[c] = "release" /\ cpuSem'[c] = s
        /\ \A e \in CPUs : e # c => cpuPc'[e] = cpuPc[e] /\ cpuSem'[e] = cpuSem[e]
    BY <1>13 DEF SemPost, Petition, TypeInv, TypeOK
  <2>3. /\ At("release", s)' = At("release", s) \cup {c} /\ c \notin At("release", s)
        /\ \A t : t # s => At("release", t)' = At("release", t)
        /\ \A t : At("instant", t)' = At("instant", t)
    BY <2>2 DEF At
  <2>4. /\ \A t : t = s => release(t)' = release(t) + 1
        /\ \A t : t # s => release(t)' = release(t)
        /\ \A t : instant(t)' = instant(t)
    BY <2>3, <1>h
  <2>5. \A t \in Sems : taken(t)' = taken(t)
    BY <1>13 DEF SemPost, MateSemPost, HasTaken, TypeInv, TypeOK
  <2> HIDE DEF release, instant, taken
  <2>6. ASSUME NEW t \in Sems
        PROVE  available'[t] + release(t)' = sem'[t] + instant(t)' + taken(t)'
    <3>1. CASE t = s
      <4>1. /\ available'[t] = available[t] /\ sem'[t] = sem[t] + 1
            /\ release(t)' = release(t) + 1 /\ instant(t)' = instant(t) /\ taken(t)' = taken(t)
        BY <2>1, <2>4, <2>5, <3>1
      <4>2. /\ release(t) \in Int /\ instant(t) \in Int /\ taken(t) \in Int
            /\ available[t] \in Int /\ sem[t] \in Int
            /\ available[t] + release(t) = sem[t] + instant(t) + taken(t)
        BY <1>b
      <4> QED
        BY <4>1, <4>2
    <3>2. CASE t # s
      BY <2>1, <2>4, <2>5, <1>b, <3>2
    <3> QED
      BY <3>1, <3>2
  <2> QED
    BY <2>6, <1>c
<1>14. ASSUME NEW c \in CPUs, SemWaitInstant(c) PROVE AvailableTracksSem'
  <2>0. PICK s \in Sems : s = cpuSem[c]
    BY <1>14 DEF SemWaitInstant, TypeInv, ThreadsHoldProcess
  <2>1. /\ s \in Sems /\ UNCHANGED <<sem, semPc>>
        /\ \A t \in Sems : available'[t] = IF t = s THEN available[t] - 1 ELSE available[t]
    BY <1>14, <2>0 DEF SemWaitInstant, DDSemAllocatedInstant, TypeInv, TypeOK
  <2>2. /\ cpuPc[c] = "instant" /\ cpuSem[c] = s /\ cpuPc'[c] = "run" /\ UNCHANGED cpuSem
        /\ \A e \in CPUs : e # c => cpuPc'[e] = cpuPc[e]
    BY <1>14, <2>0 DEF SemWaitInstant, TypeInv, TypeOK
  <2>3. /\ At("instant", s)' = At("instant", s) \ {c} /\ c \in At("instant", s)
        /\ \A t : t # s => At("instant", t)' = At("instant", t)
        /\ \A t : At("release", t)' = At("release", t)
    BY <2>2 DEF At
  <2>4. /\ \A t : t = s => instant(t)' = instant(t) - 1
        /\ \A t : t # s => instant(t)' = instant(t)
        /\ \A t : release(t)' = release(t)
    BY <2>3, <1>i
  <2> HIDE DEF release, instant, taken
  <2>5. ASSUME NEW t \in Sems
        PROVE  available'[t] + release(t)' = sem'[t] + instant(t)' + taken(t)'
    <3>1. CASE t = s
      <4>1. /\ available'[t] = available[t] - 1 /\ sem'[t] = sem[t]
            /\ release(t)' = release(t) /\ instant(t)' = instant(t) - 1 /\ taken(t)' = taken(t)
        BY <2>1, <2>4, <1>f, <3>1
      <4>2. /\ release(t) \in Int /\ instant(t) \in Int /\ taken(t) \in Int
            /\ available[t] \in Int /\ sem[t] \in Int
            /\ available[t] + release(t) = sem[t] + instant(t) + taken(t)
        BY <1>b
      <4> QED
        BY <4>1, <4>2
    <3>2. CASE t # s
      BY <2>1, <2>4, <1>f, <1>b, <3>2
    <3> QED
      BY <3>1, <3>2
  <2> QED
    BY <2>5, <1>c
<1>15. ASSUME NEW c \in CPUs, SemPostRelease(c) PROVE AvailableTracksSem'
  <2>0. PICK s \in Sems : s = cpuSem[c]
    BY <1>15 DEF SemPostRelease, TypeInv, ThreadsHoldProcess
  <2>1. /\ s \in Sems /\ UNCHANGED <<sem, semPc>>
        /\ \A t \in Sems : available'[t] = IF t = s THEN available[t] + 1 ELSE available[t]
    BY <1>15, <2>0 DEF SemPostRelease, DDSemRelease, TypeInv, TypeOK
  <2>2. /\ cpuPc[c] = "release" /\ cpuSem[c] = s /\ cpuPc'[c] = "run" /\ UNCHANGED cpuSem
        /\ \A e \in CPUs : e # c => cpuPc'[e] = cpuPc[e]
    BY <1>15, <2>0 DEF SemPostRelease, TypeInv, TypeOK
  <2>3. /\ At("release", s)' = At("release", s) \ {c} /\ c \in At("release", s)
        /\ \A t : t # s => At("release", t)' = At("release", t)
        /\ \A t : At("instant", t)' = At("instant", t)
    BY <2>2 DEF At
  <2>4. /\ \A t : t = s => release(t)' = release(t) - 1
        /\ \A t : t # s => release(t)' = release(t)
        /\ \A t : instant(t)' = instant(t)
    BY <2>3, <1>i
  <2> HIDE DEF release, instant, taken
  <2>5. ASSUME NEW t \in Sems
        PROVE  available'[t] + release(t)' = sem'[t] + instant(t)' + taken(t)'
    <3>1. CASE t = s
      BY <2>1, <2>4, <1>f, <1>b, <3>1
    <3>2. CASE t # s
      BY <2>1, <2>4, <1>f, <1>b, <3>2
    <3> QED
      BY <3>1, <3>2
  <2> QED
    BY <2>5, <1>c
<1>16. ASSUME NEW c \in CPUs, SemWaitBlock(c) PROVE AvailableTracksSem'
  <2>1. \A t : release(t)' = release(t) /\ instant(t)' = instant(t)
    BY <1>16, <1>d DEF SemWaitBlock, TypeInv, TypeOK
  <2>2. UNCHANGED <<available, sem, semPc>>
    BY <1>16 DEF SemWaitBlock
  <2> HIDE DEF release, instant, taken
  <2> QED
    BY <2>1, <2>2, <1>b, <1>c, <1>f
<1>17. ASSUME NEW c \in CPUs, SemWaitRequested(c) PROVE AvailableTracksSem'
  <2>1. \A t : release(t)' = release(t) /\ instant(t)' = instant(t)
    BY <1>17, <1>d DEF SemWaitRequested, DDSemRequested, TypeInv, TypeOK
  <2>2. UNCHANGED <<available, sem, semPc>>
    BY <1>17 DEF SemWaitRequested, DDSemRequested
  <2> HIDE DEF release, instant, taken
  <2> QED
    BY <2>1, <2>2, <1>b, <1>c, <1>f
<1>18. ASSUME NEW c \in CPUs, TerminateDD(c) PROVE AvailableTracksSem'
  <2>1. \A t : release(t)' = release(t) /\ instant(t)' = instant(t)
    BY <1>18, <1>d DEF TerminateDD, DDProcTerm, TypeInv, TypeOK
  <2>2. UNCHANGED <<available, sem, semPc>>
    BY <1>18 DEF TerminateDD, DDProcTerm
  <2> HIDE DEF release, instant, taken
  <2> QED
    BY <2>1, <2>2, <1>b, <1>c, <1>f
<1>19. ASSUME NEW c \in CPUs, TerminateDestroy(c) PROVE AvailableTracksSem'
  <2>1. \A t : release(t)' = release(t) /\ instant(t)' = instant(t)
    BY <1>19, <1>d DEF TerminateDestroy, TypeInv, TypeOK
  <2>2. UNCHANGED <<available, sem, semPc>>
    BY <1>19 DEF TerminateDestroy
  <2> HIDE DEF release, instant, taken
  <2> QED
    BY <2>1, <2>2, <1>b, <1>c, <1>f
<1>20. CASE DetectorWake
  <2>1. UNCHANGED <<available, sem, semPc, cpuPc, cpuSem>>
    BY <1>20 DEF DetectorWake
  <2> HIDE DEF release, instant, taken
  <2> QED
    BY <2>1, <1>b, <1>c, <1>e, <1>f
<1>21. CASE FindNone
  <2>1. UNCHANGED <<available, sem, semPc, cpuPc, cpuSem>>
    BY <1>21 DEF FindNone
  <2> HIDE DEF release, instant, taken
  <2> QED
    BY <2>1, <1>b, <1>c, <1>e, <1>f
<1>22. CASE FindNobody
  <2>1. UNCHANGED <<available, sem, semPc, cpuPc, cpuSem>>
    BY <1>22 DEF FindNobody, vars
  <2> HIDE DEF release, instant, taken
  <2> QED
    BY <2>1, <1>b, <1>c, <1>e, <1>f
<1>23. CASE FindVictim
  <2>1. UNCHANGED <<available, sem, semPc, cpuPc, cpuSem>>
    BY <1>23 DEF FindVictim
  <2> HIDE DEF release, instant, taken
  <2> QED
    BY <2>1, <1>b, <1>c, <1>e, <1>f
<1>24. CASE KillWithdraw
  <2>1. UNCHANGED <<available, sem, semPc, cpuPc, cpuSem>>
    BY <1>24 DEF KillWithdraw
  <2> HIDE DEF release, instant, taken
  <2> QED
    BY <2>1, <1>b, <1>c, <1>e, <1>f
<1>25. CASE KillPost
  <2> DEFINE s == Current
  <2>1. /\ available' = [available EXCEPT ![s] = available[s] + 1]
        /\ MateSemPost(s) /\ UNCHANGED <<cpuPc, cpuSem>>
    BY <1>25 DEF KillPost
  <2> HIDE DEF s
  <2>2. \A t \in Sems : /\ available'[t] = IF t = s THEN available[t] + 1 ELSE available[t]
                        /\ sem'[t] = IF t = s THEN sem[t] + 1 ELSE sem[t]
    BY <2>1 DEF MateSemPost, TypeInv, TypeOK
  <2>3. \A t \in Sems : taken(t)' = taken(t)
    BY <2>1 DEF MateSemPost, HasTaken, TypeInv, TypeOK
  <2> HIDE DEF release, instant, taken
  <2> QED
    BY <2>1, <2>2, <2>3, <1>b, <1>c, <1>e
<1>26. CASE KillNextSem
  <2>1. UNCHANGED <<available, sem, semPc, cpuPc, cpuSem>>
    BY <1>26 DEF KillNextSem
  <2> HIDE DEF release, instant, taken
  <2> QED
    BY <2>1, <1>b, <1>c, <1>e, <1>f
<1>27. CASE KillDestroy
  <2>1. UNCHANGED <<available, sem, semPc, cpuPc, cpuSem>>
    BY <1>27 DEF KillDestroy
  <2> HIDE DEF release, instant, taken
  <2> QED
    BY <2>1, <1>b, <1>c, <1>e, <1>f
<1>28. ASSUME NEW c \in CPUs, NEW p \in Procs, Dispatch(c, p) PROVE AvailableTracksSem'
  <2>1. \A t : release(t)' = release(t) /\ instant(t)' = instant(t)
    BY <1>28, <1>d DEF Dispatch, TypeInv, TypeOK
  <2>2. UNCHANGED <<available, sem, semPc>>
    BY <1>28 DEF Dispatch
  <2> HIDE DEF release, instant, taken
  <2> QED
    BY <2>1, <2>2, <1>b, <1>c, <1>f
<1>29. ASSUME NEW p \in Procs, Suspend(p) PROVE AvailableTracksSem'
  <2>1. UNCHANGED <<available, sem, semPc, cpuPc, cpuSem>>
    BY <1>29 DEF Suspend
  <2> HIDE DEF release, instant, taken
  <2> QED
    BY <2>1, <1>b, <1>c, <1>e, <1>f
<1>30. ASSUME NEW p \in Procs, Unsuspend(p) PROVE AvailableTracksSem'
  <2>1. UNCHANGED <<available, sem, semPc, cpuPc, cpuSem>>
    BY <1>30 DEF Unsuspend
  <2> HIDE DEF release, instant, taken
  <2> QED
    BY <2>1, <1>b, <1>c, <1>e, <1>f
<1>31. CASE UNCHANGED vars
  <2>1. UNCHANGED <<available, sem, semPc, cpuPc, cpuSem>>
    BY <1>31 DEF vars
  <2> HIDE DEF release, instant, taken
  <2> QED
    BY <2>1, <1>b, <1>c, <1>e, <1>f
<1> QED
  BY <1>1, <1>2, <1>3, <1>4, <1>5, <1>6, <1>7, <1>8, <1>9, <1>10, <1>11, <1>12,
     <1>13, <1>14, <1>15, <1>16, <1>17, <1>18, <1>19, <1>20, <1>21, <1>22, <1>23,
     <1>24, <1>25, <1>26, <1>27, <1>28, <1>29, <1>30, <1>31
     DEF Next, SemThread, CPUThread, Detector, SchedulerStep

(* At the start the detector has the values of the semaphores. *)
LEMMA UnitsInit == Init => AvailableTracksSem
<1> SUFFICES ASSUME Init, NEW s \in Sems
             PROVE  available[s] + Cardinality(At("release", s))
                      = sem[s] + Cardinality(At("instant", s)) + One(HasTaken(s))
  BY DEF AvailableTracksSem
<1>1. At("release", s) = {} /\ At("instant", s) = {}
  BY DEF Init, At
<1>2. One(HasTaken(s)) = 0 /\ available[s] = sem[s] /\ sem[s] \in Nat
  BY SemaphoresAssumption DEF SemaphoresAssumption, Init, HasTaken, One
<1> QED
  BY <1>1, <1>2, FS_EmptySet

(* The detector's count of free units never drifts from the semaphore. *)
THEOREM SemaphoresAvailableTracksSem == Spec => []AvailableTracksSem
BY TypeInit, TypeStep, UnitsInit, UnitsStep, PTL DEF Spec

-----------------------------------------------------------------------------
(* The detector's count of requests *)

\* The CPU threads that have queued p on s and have not told the detector
Pending(p, s) == {c \in At("block", s) \cup At("requested", s) : cpuProc[c] = p}

\* The thread of s has taken p, and the detector still has its request
Taken(p, s) == One(HasTaken(s) /\ semProc[s] = p)

\* The victim of a search is out of the detector when the next one starts
VictimGone == ddPc # "kill" => ddVictim \notin ddProcs

\* The thread of a semaphore has let go of its last process when it takes the next
HandsEmpty == \A s \in Sems :
    semPc[s] \in {"check", "waiting", "take", "null"} => semProc[s] = NoProc

RequestInv == TypeInv /\ RequestsTrackWaits /\ VictimGone /\ HandsEmpty

(* A process that is in the detector and apart from the victim was so before: nobody
   joins, and a victim leaves with its row. *)
LEMMA VictimStep ==
    TypeInv /\ VictimGone /\ [Next]_vars =>
        /\ VictimGone'
        /\ \A p \in ddProcs' \ {ddVictim'} : p \in ddProcs /\ p # ddVictim /\ p \in Procs
<1> SUFFICES ASSUME TypeInv, VictimGone, [Next]_vars
             PROVE  /\ VictimGone'
                    /\ ddProcs' \ {ddVictim'} \subseteq ddProcs \ {ddVictim}
  BY DEF TypeInv, TypeOK
<1>0. NoProc \notin ddProcs /\ ddProcs \subseteq Procs
  BY SemaphoresAssumption DEF SemaphoresAssumption, TypeInv, TypeOK
<1>1. CASE UNCHANGED <<ddProcs, ddPc, ddVictim>>
  BY <1>1 DEF VictimGone
<1>2. ASSUME NEW c \in CPUs, TerminateDD(c)
      PROVE  /\ VictimGone'
             /\ ddProcs' \ {ddVictim'} \subseteq ddProcs \ {ddVictim}
  BY <1>2 DEF TerminateDD, DDProcTerm, detectorVars, VictimGone
<1>3. CASE DetectorWake
  BY <1>3 DEF DetectorWake, ddVars, VictimGone
<1>4. CASE FindNone
  BY <1>4 DEF FindNone, ddVars, VictimGone
<1>5. CASE FindVictim
  BY <1>5 DEF FindVictim, ddVars, VictimGone
<1>6. CASE KillDestroy
  BY <1>0, <1>6 DEF KillDestroy, VictimGone
<1>7. ASSUME [Next]_vars, ~DetectorWake, ~FindNone, ~FindVictim, ~KillDestroy,
             \A c \in CPUs : ~TerminateDD(c)
      PROVE  UNCHANGED <<ddProcs, ddPc, ddVictim>>
  <2> USE DEF ddVars, detectorVars
  <2>1. ASSUME NEW s \in Sems, SemThread(s) PROVE UNCHANGED <<ddProcs, ddPc, ddVictim>>
    BY <2>1 DEF SemThread, SemSleep, SemTest, SemTake, SemTakeNull, SemIsBlocked,
                SemIsSuspended, SemRemoveBlocked, SemPutToReady, SemPutSuspendedReady,
                SemAllocated, DDSemAllocated
  <2>2. ASSUME NEW c \in CPUs, CPUThread(c) PROVE UNCHANGED <<ddProcs, ddPc, ddVictim>>
    BY <1>7, <2>2 DEF CPUThread, SemWaitPass, SemWaitEnqueue, SemPost, Petition,
                SemWaitInstant, DDSemAllocatedInstant, SemPostRelease, DDSemRelease,
                SemWaitBlock, SemWaitRequested, DDSemRequested, TerminateDestroy
  <2>3. CASE FindNobody \/ KillWithdraw \/ KillPost \/ KillNextSem
    BY <2>3 DEF FindNobody, KillWithdraw, KillPost, KillNextSem, vars
  <2>4. CASE SchedulerStep
    BY <2>4 DEF SchedulerStep, Dispatch, Suspend, Unsuspend
  <2>5. CASE UNCHANGED vars
    BY <2>5 DEF vars
  <2> QED
    BY <1>7, <2>1, <2>2, <2>3, <2>4, <2>5 DEF Next, Detector
<1> QED
  BY <1>1, <1>2, <1>3, <1>4, <1>5, <1>6, <1>7

(* The thread of a semaphore keeps its process from SemTake to SemAllocated. *)
LEMMA HandsStep == TypeInv /\ HandsEmpty /\ [Next]_vars => HandsEmpty'
<1> SUFFICES ASSUME TypeInv, HandsEmpty, [Next]_vars PROVE HandsEmpty'
  OBVIOUS
<1> USE DEF HandsEmpty
<1>0. semPc \in [Sems -> SemSteps] /\ semProc \in [Sems -> Procs \cup {NoProc}]
  BY DEF TypeInv, TypeOK
<1>1. ASSUME NEW s \in Sems, SemThread(s) PROVE HandsEmpty'
  BY <1>0, <1>1 DEF SemThread, SemSleep, SemTest, SemTake, SemTakeNull, SemIsBlocked,
     SemIsSuspended, SemRemoveBlocked, SemPutToReady, SemPutSuspendedReady, SemAllocated
<1>2. ASSUME NEW c \in CPUs, CPUThread(c) PROVE HandsEmpty'
  BY <1>0, <1>2 DEF CPUThread, SemWaitPass, MateSemTake, SemWaitEnqueue, MateSemEnqueue,
     SemPost, MateSemPost, Petition, SemWaitInstant, SemPostRelease, SemWaitBlock,
     SemWaitRequested, TerminateDD, TerminateDestroy, semThreadVars
<1>3. CASE KillPost
  BY <1>0, <1>3 DEF KillPost, MateSemPost
<1>4. CASE Detector /\ ~KillPost
  BY <1>4 DEF Detector, DetectorWake, FindNone, FindNobody, FindVictim, KillWithdraw,
     KillNextSem, KillDestroy, semThreadVars, vars
<1>5. CASE SchedulerStep
  BY <1>5 DEF SchedulerStep, Dispatch, Suspend, Unsuspend, semThreadVars
<1>6. CASE UNCHANGED vars
  BY <1>6 DEF vars, semThreadVars
<1> QED
  BY <1>1, <1>2, <1>3, <1>4, <1>5, <1>6 DEF Next

(* A petition's report and the semaphore thread's change the request of one process, and
   the queue and the hands change with them. *)
LEMMA RequestsStep == RequestInv /\ [Next]_vars => RequestsTrackWaits'
<1> SUFFICES ASSUME RequestInv, [Next]_vars,
                    NEW p \in ddProcs' \ {ddVictim'}, NEW t \in Sems
             PROVE  request'[p][t] + Cardinality(Pending(p, t)') = Waits(p, t)' + Taken(p, t)'
  BY DEF RequestsTrackWaits, Pending, Taken
<1>0. /\ TypeInv /\ HandsEmpty
      /\ p \in ddProcs /\ p # ddVictim /\ p \in Procs
  BY VictimStep DEF RequestInv
<1>1. /\ IsFiniteSet(Pending(p, t)) /\ Cardinality(Pending(p, t)) \in Nat
      /\ request[p][t] \in Int /\ Waits(p, t) \in Nat /\ Taken(p, t) \in {0, 1}
      /\ request[p][t] + Cardinality(Pending(p, t)) = Waits(p, t) + Taken(p, t)
  <2>1. IsFiniteSet(Pending(p, t))
    BY SemaphoresAssumption, FS_Subset DEF SemaphoresAssumption, Pending, At
  <2>2. waiting[t] \in Seq(Procs) /\ Waits(p, t) = Cardinality(Positions(waiting[t], p))
    BY <1>0 DEF TypeInv, TypeOK, Waits, Positions
  <2>3. Waits(p, t) \in Nat
    BY <2>2, PositionsFinite
  <2>4. request[p][t] \in Int /\ Taken(p, t) \in {0, 1}
    BY <1>0 DEF TypeInv, TypeOK, Taken, One
  <2>5. request[p][t] + Cardinality(Pending(p, t)) = Waits(p, t) + Taken(p, t)
    BY <1>0 DEF RequestInv, RequestsTrackWaits, Pending, Taken
  <2> QED
    BY <2>1, <2>3, <2>4, <2>5, FS_CardinalityType
<1>2. semPc \in [Sems -> SemSteps] /\ semProc \in [Sems -> Procs \cup {NoProc}]
  BY <1>0 DEF TypeInv, TypeOK
<1>3. cpuPc \in [CPUs -> CPUSteps] /\ cpuProc \in [CPUs -> Procs \cup {NoProc}]
      /\ cpuSem \in [CPUs -> Sems \cup {0}]
  BY <1>0 DEF TypeInv, TypeOK
<1>w. waiting \in [Sems -> Seq(Procs)]
  BY <1>0 DEF TypeInv, TypeOK
<1>r. request \in [Procs -> [Sems -> Int]]
  BY <1>0 DEF TypeInv, TypeOK
<1>p. /\ Waits(p, t) = Cardinality(Positions(waiting[t], p))
      /\ Waits(p, t)' = Cardinality(Positions(waiting'[t], p))
  BY DEF Waits, Positions
\* What a term depends on
<1>a. UNCHANGED <<cpuPc, cpuProc, cpuSem>> => Pending(p, t)' = Pending(p, t)
  BY DEF Pending, At
<1>b. UNCHANGED waiting => Waits(p, t)' = Waits(p, t)
  BY DEF Waits
<1>c. UNCHANGED <<semPc, semProc>> => Taken(p, t)' = Taken(p, t)
  BY DEF Taken, HasTaken
\* The step of the thread of s from one step that is alike to another
<1>d. ASSUME NEW s \in Sems, NEW x, semPc' = [semPc EXCEPT ![s] = x], UNCHANGED semProc,
             \/ semPc[s] \in {"check", "waiting", "take"} <=> x \in {"check", "waiting", "take"}
             \/ semProc[s] = NoProc
      PROVE  Taken(p, t)' = Taken(p, t)
  <2>1. HasTaken(t)' /\ semProc'[t] = p <=> HasTaken(t) /\ semProc[t] = p
    BY <1>0, <1>2, <1>d, SemaphoresAssumption DEF SemaphoresAssumption, HasTaken
  <2> QED
    BY <2>1 DEF Taken
\* A CPU thread that has no process queued, before and after
<1>e. ASSUME NEW c \in CPUs, cpuPc[c] \notin {"block", "requested"},
             cpuPc'[c] \notin {"block", "requested"},
             \A e \in CPUs : e # c => /\ cpuPc'[e] = cpuPc[e] /\ cpuSem'[e] = cpuSem[e]
                                     /\ cpuProc'[e] = cpuProc[e]
      PROVE  Pending(p, t)' = Pending(p, t)
  BY <1>e DEF Pending, At
\* Nothing the two counts depend on
<1>f. /\ UNCHANGED request
      /\ Pending(p, t)' = Pending(p, t)
      /\ Waits(p, t)' = Waits(p, t)
      /\ Taken(p, t)' = Taken(p, t)
      => request'[p][t] + Cardinality(Pending(p, t)') = Waits(p, t)' + Taken(p, t)'
  BY <1>1
<1> HIDE DEF RequestInv
<1>4. ASSUME NEW s \in Sems, SemSleep(s)
      PROVE  request'[p][t] + Cardinality(Pending(p, t)') = Waits(p, t)' + Taken(p, t)'
  <2>1. UNCHANGED <<request, waiting, cpuPc, cpuProc, cpuSem>>
    BY <1>4 DEF SemSleep, ddVars, semVars, cpuVars
  <2>2. Taken(p, t)' = Taken(p, t)
    BY <1>4, <1>2, <1>d DEF SemSleep, semThreadVars
  <2> QED
    BY <1>a, <1>b, <1>f, <2>1, <2>2
<1>5. ASSUME NEW s \in Sems, SemTest(s)
      PROVE  request'[p][t] + Cardinality(Pending(p, t)') = Waits(p, t)' + Taken(p, t)'
  <2>1. UNCHANGED <<request, waiting, cpuPc, cpuProc, cpuSem>>
    BY <1>5 DEF SemTest, ddVars, semVars, cpuVars
  <2>2. Taken(p, t)' = Taken(p, t)
    BY <1>5, <1>2, <1>d DEF SemTest, semThreadVars
  <2> QED
    BY <1>a, <1>b, <1>f, <2>1, <2>2
<1>6. ASSUME NEW s \in Sems, SemIsBlocked(s)
      PROVE  request'[p][t] + Cardinality(Pending(p, t)') = Waits(p, t)' + Taken(p, t)'
  <2>1. UNCHANGED <<request, waiting, cpuPc, cpuProc, cpuSem>>
    BY <1>6 DEF SemIsBlocked, ddVars, semVars, cpuVars
  <2>2. Taken(p, t)' = Taken(p, t)
    BY <1>6, <1>2, <1>d DEF SemIsBlocked, semThreadVars
  <2> QED
    BY <1>a, <1>b, <1>f, <2>1, <2>2
<1>7. ASSUME NEW s \in Sems, SemIsSuspended(s)
      PROVE  request'[p][t] + Cardinality(Pending(p, t)') = Waits(p, t)' + Taken(p, t)'
  <2>1. UNCHANGED <<request, waiting, cpuPc, cpuProc, cpuSem>>
    BY <1>7 DEF SemIsSuspended, ddVars, semVars, cpuVars
  <2>2. Taken(p, t)' = Taken(p, t)
    BY <1>7, <1>2, <1>d DEF SemIsSuspended, semThreadVars
  <2> QED
    BY <1>a, <1>b, <1>f, <2>1, <2>2
<1>8. ASSUME NEW s \in Sems, SemRemoveBlocked(s)
      PROVE  request'[p][t] + Cardinality(Pending(p, t)') = Waits(p, t)' + Taken(p, t)'
  <2>1. UNCHANGED <<request, waiting, cpuPc, cpuProc, cpuSem>>
    BY <1>8 DEF SemRemoveBlocked, ddVars, semVars, cpuVars
  <2>2. Taken(p, t)' = Taken(p, t)
    BY <1>8, <1>2, <1>d DEF SemRemoveBlocked, semThreadVars
  <2> QED
    BY <1>a, <1>b, <1>f, <2>1, <2>2
<1>9. ASSUME NEW s \in Sems, SemPutToReady(s)
      PROVE  request'[p][t] + Cardinality(Pending(p, t)') = Waits(p, t)' + Taken(p, t)'
  <2>1. UNCHANGED <<request, waiting, cpuPc, cpuProc, cpuSem>>
    BY <1>9 DEF SemPutToReady, ddVars, semVars, cpuVars
  <2>2. Taken(p, t)' = Taken(p, t)
    BY <1>9, <1>2, <1>d DEF SemPutToReady, semThreadVars
  <2> QED
    BY <1>a, <1>b, <1>f, <2>1, <2>2
<1>10. ASSUME NEW s \in Sems, SemPutSuspendedReady(s)
      PROVE  request'[p][t] + Cardinality(Pending(p, t)') = Waits(p, t)' + Taken(p, t)'
  <2>1. UNCHANGED <<request, waiting, cpuPc, cpuProc, cpuSem>>
    BY <1>10 DEF SemPutSuspendedReady, ddVars, semVars, cpuVars
  <2>2. Taken(p, t)' = Taken(p, t)
    BY <1>10, <1>2, <1>d DEF SemPutSuspendedReady, semThreadVars
  <2> QED
    BY <1>a, <1>b, <1>f, <2>1, <2>2
<1>11. ASSUME NEW s \in Sems, SemTake(s)
      PROVE  request'[p][t] + Cardinality(Pending(p, t)') = Waits(p, t)' + Taken(p, t)'
  <2>1. UNCHANGED <<request, cpuPc, cpuProc, cpuSem>>
    BY <1>11 DEF SemTake, ddVars, cpuVars
  <2>2. /\ waiting[s] # <<>> /\ waiting[s] \in Seq(Procs)
        /\ waiting'[s] = Tail(waiting[s])
        /\ \A u \in Sems : u # s => waiting'[u] = waiting[u]
    BY <1>11, <1>w DEF SemTake
  <2>3. /\ ~HasTaken(s) /\ HasTaken(s)' /\ semProc'[s] = Head(waiting[s])
        /\ \A u \in Sems : u # s => HasTaken(u)' = HasTaken(u) /\ semProc'[u] = semProc[u]
    BY <1>11, <1>2 DEF SemTake, HasTaken
  <2>4. CASE t = s
    <3>1. Waits(p, t) = Waits(p, t)' + One(Head(waiting[s]) = p)
      BY <1>p, <2>2, <2>4, TailPositions
    <3>2. Taken(p, t) = 0 /\ Taken(p, t)' = One(Head(waiting[s]) = p)
      BY <2>3, <2>4 DEF Taken, One
    <3>3. Waits(p, t)' \in Nat
      <4>1. Tail(waiting[s]) \in Seq(Procs)
        BY <2>2, HeadTailProperties
      <4>2. Waits(p, t)' = Cardinality(Positions(Tail(waiting[s]), p))
        BY <2>2, <2>4 DEF Waits, Positions
      <4> QED
        BY <4>1, <4>2, PositionsFinite
    <3>4. One(Head(waiting[s]) = p) \in Nat
      BY DEF One
    <3>5. request'[p][t] = request[p][t] /\ Cardinality(Pending(p, t)') = Cardinality(Pending(p, t))
      BY <1>a, <2>1
    <3> QED
      BY <1>1, <3>1, <3>2, <3>3, <3>4, <3>5
  <2>5. CASE t # s
    <3>1. Waits(p, t)' = Waits(p, t) /\ Taken(p, t)' = Taken(p, t)
      BY <2>2, <2>3, <2>5 DEF Waits, Taken
    <3> QED
      BY <1>a, <1>f, <2>1, <3>1
  <2> QED
    BY <2>4, <2>5
<1>12. ASSUME NEW s \in Sems, SemTakeNull(s)
      PROVE  request'[p][t] + Cardinality(Pending(p, t)') = Waits(p, t)' + Taken(p, t)'
  <2>1. UNCHANGED <<request, waiting, cpuPc, cpuProc, cpuSem>>
    BY <1>12 DEF SemTakeNull, ddVars, cpuVars
  <2>2. semProc[s] = NoProc
    BY <1>0, <1>12 DEF SemTakeNull, HandsEmpty
  <2>3. Taken(p, t)' = Taken(p, t)
    BY <1>12, <1>d, <2>2 DEF SemTakeNull
  <2> QED
    BY <1>a, <1>b, <1>f, <2>1, <2>3
<1>13. ASSUME NEW s \in Sems, SemAllocated(s)
      PROVE  request'[p][t] + Cardinality(Pending(p, t)') = Waits(p, t)' + Taken(p, t)'
  <2>1. UNCHANGED <<waiting, cpuPc, cpuProc, cpuSem>>
    BY <1>13 DEF SemAllocated, semVars, cpuVars
  <2>2. PICK q \in Procs : q = semProc[s]
    BY <1>0, <1>13 DEF SemAllocated, DDSemAllocated, DDUpdates, TypeInv, TypeOK
  <2>3. request' = [request EXCEPT ![q][s] = @ - 1]
    BY <1>13, <2>2 DEF SemAllocated, DDSemAllocated
  <2>4. /\ HasTaken(s) /\ ~HasTaken(s)'
        /\ \A u \in Sems : u # s => HasTaken(u)' = HasTaken(u) /\ semProc'[u] = semProc[u]
    BY <1>13, <1>2 DEF SemAllocated, HasTaken
  <2>5. CASE t = s /\ p = q
    <3>1. request'[p][t] = request[p][t] - 1
      BY <1>r, <2>3, <2>5
    <3>2. Taken(p, t) = 1 /\ Taken(p, t)' = 0
      BY <2>2, <2>4, <2>5 DEF Taken, One
    <3> QED
      BY <1>1, <1>a, <1>b, <2>1, <3>1, <3>2
  <2>6. CASE ~(t = s /\ p = q)
    <3>1. request'[p][t] = request[p][t]
      BY <1>0, <1>r, <2>3, <2>6
    <3>2. Taken(p, t)' = Taken(p, t)
      BY <2>2, <2>4, <2>6 DEF Taken, One
    <3> QED
      BY <1>1, <1>a, <1>b, <2>1, <3>1, <3>2
  <2> QED
    BY <2>5, <2>6
<1>14. ASSUME NEW c \in CPUs, NEW s \in Sems, SemWaitPass(c, s)
      PROVE  request'[p][t] + Cardinality(Pending(p, t)') = Waits(p, t)' + Taken(p, t)'
  <2>1. UNCHANGED <<request, waiting, semProc>>
    BY <1>14 DEF SemWaitPass, Petition, MateSemTake, ddVars
  <2>2. Pending(p, t)' = Pending(p, t)
    BY <1>14, <1>3, <1>e DEF SemWaitPass, Petition
  <2>3. Taken(p, t)' = Taken(p, t)
    BY <1>14, <1>2, <1>c, <2>1 DEF SemWaitPass, Petition, MateSemTake, Taken, HasTaken
  <2> QED
    BY <1>b, <1>f, <2>1, <2>2, <2>3
<1>15. ASSUME NEW c \in CPUs, NEW s \in Sems, SemPost(c, s)
      PROVE  request'[p][t] + Cardinality(Pending(p, t)') = Waits(p, t)' + Taken(p, t)'
  <2>1. UNCHANGED <<request, waiting, semProc>>
    BY <1>15 DEF SemPost, Petition, MateSemPost, ddVars
  <2>2. Pending(p, t)' = Pending(p, t)
    BY <1>15, <1>3, <1>e DEF SemPost, Petition
  <2>3. Taken(p, t)' = Taken(p, t)
    BY <1>15, <1>2, <1>c, <2>1 DEF SemPost, Petition, MateSemPost, Taken, HasTaken
  <2> QED
    BY <1>b, <1>f, <2>1, <2>2, <2>3
<1>16. ASSUME NEW c \in CPUs, NEW s \in Sems, SemWaitEnqueue(c, s)
      PROVE  request'[p][t] + Cardinality(Pending(p, t)') = Waits(p, t)' + Taken(p, t)'
  <2>1. UNCHANGED <<request, semPc, semProc, cpuProc>>
    BY <1>16 DEF SemWaitEnqueue, Petition, MateSemEnqueue, ddVars
  <2>2. PICK q \in Procs : q = cpuProc[c]
    BY <1>0, <1>16 DEF SemWaitEnqueue, Petition, TypeInv, ThreadsHoldProcess
  <2>3. /\ waiting[s] \in Seq(Procs) /\ waiting'[s] = Append(waiting[s], q)
        /\ \A u \in Sems : u # s => waiting'[u] = waiting[u]
    BY <1>16, <1>w, <2>2 DEF SemWaitEnqueue, MateSemEnqueue
  <2>4. /\ cpuPc[c] = "run" /\ cpuPc'[c] = "block" /\ cpuSem'[c] = s
        /\ \A e \in CPUs : e # c => cpuPc'[e] = cpuPc[e] /\ cpuSem'[e] = cpuSem[e]
    BY <1>16, <1>3 DEF SemWaitEnqueue, Petition
  <2>a. Cardinality(Positions(waiting'[s], p))
            = Cardinality(Positions(waiting[s], p)) + One(q = p)
    <3>1. Cardinality(Positions(Append(waiting[s], q), p))
              = Cardinality(Positions(waiting[s], p)) + One(q = p)
      <4>1. waiting[s] \in Seq(Procs)
        BY <2>3
      <4> QED
        BY <4>1, AppendPositions
    <3>2. waiting'[s] = Append(waiting[s], q)
      BY <2>3
    <3> QED
      BY <3>1, <3>2
  <2>5. CASE t = s /\ p = q
    <3>1. Waits(p, t)' = Waits(p, t) + 1
      <4>1. Waits(p, t)' = Waits(p, t) + One(q = p)
        BY <1>p, <2>a, <2>5
      <4> QED
        BY <2>5, <4>1 DEF One
    <3>2. Pending(p, t)' = Pending(p, t) \cup {c} /\ c \notin Pending(p, t)
      BY <2>1, <2>2, <2>4, <2>5 DEF Pending, At
    <3>3. Cardinality(Pending(p, t)') = Cardinality(Pending(p, t)) + 1
      BY <1>1, <3>2, CardinalityChange
    <3>4. request'[p][t] = request[p][t] /\ Taken(p, t)' = Taken(p, t)
      BY <1>c, <2>1
    <3> QED
      BY <1>1, <3>1, <3>3, <3>4
  <2>6. CASE ~(t = s /\ p = q)
    <3>1. Pending(p, t)' = Pending(p, t)
      BY <2>1, <2>2, <2>4, <2>6 DEF Pending, At
    <3>2. Waits(p, t)' = Waits(p, t)
      <4>1. CASE t # s
        BY <2>3, <4>1 DEF Waits
      <4>2. CASE t = s
        <5>1. Waits(p, t)' = Waits(p, t) + One(q = p)
          BY <1>p, <2>a, <4>2
        <5> QED
          BY <1>1, <2>6, <4>2, <5>1 DEF One
      <4> QED
        BY <4>1, <4>2
    <3> QED
      BY <1>c, <1>f, <2>1, <3>1, <3>2
  <2> QED
    BY <2>5, <2>6
<1>17. ASSUME NEW c \in CPUs, SemWaitBlock(c)
      PROVE  request'[p][t] + Cardinality(Pending(p, t)') = Waits(p, t)' + Taken(p, t)'
  <2>1. UNCHANGED <<request, waiting, semPc, semProc, cpuProc, cpuSem>>
    BY <1>17 DEF SemWaitBlock, ddVars, semVars, semThreadVars
  <2>2. Pending(p, t)' = Pending(p, t)
    BY <1>17, <1>3, <2>1 DEF SemWaitBlock, Pending, At
  <2> QED
    BY <1>b, <1>c, <1>f, <2>1, <2>2
<1>18. ASSUME NEW c \in CPUs, SemWaitRequested(c)
      PROVE  request'[p][t] + Cardinality(Pending(p, t)') = Waits(p, t)' + Taken(p, t)'
  <2>1. UNCHANGED <<waiting, semPc, semProc, cpuSem>>
    BY <1>18 DEF SemWaitRequested, semVars, semThreadVars
  <2>2. PICK q \in Procs : q = cpuProc[c]
    BY <1>0, <1>18 DEF SemWaitRequested, TypeInv, ThreadsHoldProcess
  <2>3. PICK s \in Sems : s = cpuSem[c]
    BY <1>0, <1>18 DEF SemWaitRequested, TypeInv, ThreadsHoldProcess
  <2>4. request' = [request EXCEPT ![q][s] = @ + 1]
    BY <1>18, <2>2, <2>3 DEF SemWaitRequested, DDSemRequested
  <2>5. /\ cpuPc[c] = "requested" /\ cpuPc'[c] = "idle"
        /\ \A e \in CPUs : e # c => cpuPc'[e] = cpuPc[e] /\ cpuProc'[e] = cpuProc[e]
    BY <1>18, <1>3 DEF SemWaitRequested
  <2>6. CASE t = s /\ p = q
    <3>1. request'[p][t] = request[p][t] + 1
      BY <1>r, <2>4, <2>6
    <3>2. Pending(p, t)' = Pending(p, t) \ {c} /\ c \in Pending(p, t)
      BY <2>1, <2>2, <2>3, <2>5, <2>6 DEF Pending, At
    <3>3. Cardinality(Pending(p, t)') = Cardinality(Pending(p, t)) - 1
      BY <1>1, <3>2, CardinalityChange
    <3>4. Waits(p, t)' = Waits(p, t) /\ Taken(p, t)' = Taken(p, t)
      BY <1>b, <1>c, <2>1
    <3> QED
      BY <1>1, <3>1, <3>3, <3>4
  <2>7. CASE ~(t = s /\ p = q)
    <3>1. request'[p][t] = request[p][t]
      BY <1>0, <1>r, <2>4, <2>7
    <3>2. Pending(p, t)' = Pending(p, t)
      BY <2>1, <2>2, <2>3, <2>5, <2>7 DEF Pending, At
    <3> QED
      BY <1>1, <1>b, <1>c, <2>1, <3>1, <3>2
  <2> QED
    BY <2>6, <2>7
<1>19. ASSUME NEW c \in CPUs, SemWaitInstant(c)
      PROVE  request'[p][t] + Cardinality(Pending(p, t)') = Waits(p, t)' + Taken(p, t)'
  <2>1. UNCHANGED <<request, waiting, semPc, semProc>>
    BY <1>19 DEF SemWaitInstant, DDSemAllocatedInstant, ddVars, semVars, semThreadVars
  <2>2. Pending(p, t)' = Pending(p, t)
    BY <1>19, <1>3, <1>e DEF SemWaitInstant
  <2> QED
    BY <1>b, <1>c, <1>f, <2>1, <2>2
<1>20. ASSUME NEW c \in CPUs, SemPostRelease(c)
      PROVE  request'[p][t] + Cardinality(Pending(p, t)') = Waits(p, t)' + Taken(p, t)'
  <2>1. UNCHANGED <<request, waiting, semPc, semProc>>
    BY <1>20 DEF SemPostRelease, DDSemRelease, ddVars, semVars, semThreadVars
  <2>2. Pending(p, t)' = Pending(p, t)
    BY <1>20, <1>3, <1>e DEF SemPostRelease
  <2> QED
    BY <1>b, <1>c, <1>f, <2>1, <2>2
<1>21. ASSUME NEW c \in CPUs, TerminateDestroy(c)
      PROVE  request'[p][t] + Cardinality(Pending(p, t)') = Waits(p, t)' + Taken(p, t)'
  <2>1. UNCHANGED <<request, waiting, semPc, semProc>>
    BY <1>21 DEF TerminateDestroy, ddVars, semVars, semThreadVars
  <2>2. Pending(p, t)' = Pending(p, t)
    BY <1>21, <1>3, <1>e DEF TerminateDestroy
  <2> QED
    BY <1>b, <1>c, <1>f, <2>1, <2>2
<1>22. ASSUME NEW c \in CPUs, TerminateDD(c)
      PROVE  request'[p][t] + Cardinality(Pending(p, t)') = Waits(p, t)' + Taken(p, t)'
  <2>1. UNCHANGED <<waiting, semPc, semProc>>
    BY <1>22 DEF TerminateDD, semVars, semThreadVars
  <2>2. Pending(p, t)' = Pending(p, t)
    BY <1>22, <1>3, <1>e DEF TerminateDD
  <2>3. request'[p][t] = request[p][t]
    <3>1. p # cpuProc[c]
      BY <1>22 DEF TerminateDD, DDProcTerm
    <3> QED
      BY <1>0, <1>22, <1>r, <3>1 DEF TerminateDD, DDProcTerm
  <2> QED
    BY <1>1, <1>b, <1>c, <2>1, <2>2, <2>3
<1>23. CASE DetectorWake
  <2>1. UNCHANGED <<request, waiting, semPc, semProc, cpuPc, cpuProc, cpuSem>>
    BY <1>23 DEF DetectorWake, ddVars, semVars, semThreadVars, cpuVars, vars
  <2> QED
    BY <1>a, <1>b, <1>c, <1>f, <2>1
<1>24. CASE FindNone
  <2>1. UNCHANGED <<request, waiting, semPc, semProc, cpuPc, cpuProc, cpuSem>>
    BY <1>24 DEF FindNone, ddVars, semVars, semThreadVars, cpuVars, vars
  <2> QED
    BY <1>a, <1>b, <1>c, <1>f, <2>1
<1>25. CASE FindNobody
  <2>1. UNCHANGED <<request, waiting, semPc, semProc, cpuPc, cpuProc, cpuSem>>
    BY <1>25 DEF FindNobody, ddVars, semVars, semThreadVars, cpuVars, vars
  <2> QED
    BY <1>a, <1>b, <1>c, <1>f, <2>1
<1>26. CASE FindVictim
  <2>1. UNCHANGED <<request, waiting, semPc, semProc, cpuPc, cpuProc, cpuSem>>
    BY <1>26 DEF FindVictim, ddVars, semVars, semThreadVars, cpuVars, vars
  <2> QED
    BY <1>a, <1>b, <1>c, <1>f, <2>1
<1>27. CASE KillNextSem
  <2>1. UNCHANGED <<request, waiting, semPc, semProc, cpuPc, cpuProc, cpuSem>>
    BY <1>27 DEF KillNextSem, ddVars, semVars, semThreadVars, cpuVars, vars
  <2> QED
    BY <1>a, <1>b, <1>c, <1>f, <2>1
<1>28. CASE KillDestroy
  <2>1. UNCHANGED <<request, waiting, semPc, semProc, cpuPc, cpuProc, cpuSem>>
    BY <1>28 DEF KillDestroy, ddVars, semVars, semThreadVars, cpuVars, vars
  <2> QED
    BY <1>a, <1>b, <1>c, <1>f, <2>1
<1>29. CASE KillWithdraw
  <2> DEFINE s == Current
             v == ddVictim
  <2>1. /\ request' = [request EXCEPT ![v][s] = 0]
        /\ waiting' = [waiting EXCEPT ![s] = RemoveFirst(@, v)]
        /\ UNCHANGED <<semPc, semProc, cpuPc, cpuProc, cpuSem>>
    BY <1>29 DEF KillWithdraw, semThreadVars, cpuVars
  <2>2. p # v
    BY <1>0
  <2> HIDE DEF s, v
  <2>3. request'[p][t] = request[p][t]
    BY <1>0, <1>r, <2>1, <2>2
  <2>4. Waits(p, t)' = Waits(p, t)
    <3>1. CASE t = s
      <4>1. waiting'[t] = RemoveFirst(waiting[t], v) /\ waiting[t] \in Seq(Procs)
        BY <1>w, <2>1, <3>1
      <4> QED
        BY <1>p, <2>2, <4>1, RemoveFirstPositions
    <3>2. CASE t # s
      BY <1>w, <2>1, <3>2 DEF Waits
    <3> QED
      BY <3>1, <3>2
  <2> QED
    BY <1>1, <1>a, <1>c, <2>1, <2>3, <2>4
<1>30. CASE KillPost
  <2> DEFINE s == Current
  <2>1. MateSemPost(s) /\ UNCHANGED <<request, semProc, cpuPc, cpuProc, cpuSem>>
    BY <1>30 DEF KillPost, cpuVars
  <2> HIDE DEF s
  <2>2. UNCHANGED waiting /\ Taken(p, t)' = Taken(p, t)
    BY <1>2, <2>1 DEF MateSemPost, Taken, HasTaken
  <2> QED
    BY <1>a, <1>b, <1>f, <2>1, <2>2
<1>31. ASSUME NEW c \in CPUs, NEW q \in Procs, Dispatch(c, q)
      PROVE  request'[p][t] + Cardinality(Pending(p, t)') = Waits(p, t)' + Taken(p, t)'
  <2>1. UNCHANGED <<request, waiting, semPc, semProc>>
    BY <1>31 DEF Dispatch, ddVars, semVars, semThreadVars
  <2>2. Pending(p, t)' = Pending(p, t)
    BY <1>31, <1>3, <1>e DEF Dispatch
  <2> QED
    BY <1>b, <1>c, <1>f, <2>1, <2>2
<1>32. ASSUME NEW q \in Procs, Suspend(q)
      PROVE  request'[p][t] + Cardinality(Pending(p, t)') = Waits(p, t)' + Taken(p, t)'
  <2>1. UNCHANGED <<request, waiting, semPc, semProc, cpuPc, cpuProc, cpuSem>>
    BY <1>32 DEF Suspend, ddVars, semVars, semThreadVars, cpuVars
  <2> QED
    BY <1>a, <1>b, <1>c, <1>f, <2>1
<1>33. ASSUME NEW q \in Procs, Unsuspend(q)
      PROVE  request'[p][t] + Cardinality(Pending(p, t)') = Waits(p, t)' + Taken(p, t)'
  <2>1. UNCHANGED <<request, waiting, semPc, semProc, cpuPc, cpuProc, cpuSem>>
    BY <1>33 DEF Unsuspend, ddVars, semVars, semThreadVars, cpuVars
  <2> QED
    BY <1>a, <1>b, <1>c, <1>f, <2>1
<1>34. CASE UNCHANGED vars
  <2>1. UNCHANGED <<request, waiting, semPc, semProc, cpuPc, cpuProc, cpuSem>>
    BY <1>34 DEF vars, ddVars, semVars, semThreadVars, cpuVars
  <2> QED
    BY <1>a, <1>b, <1>c, <1>f, <2>1
<1> QED
  BY <1>4, <1>5, <1>6, <1>7, <1>8, <1>9, <1>10, <1>11, <1>12, <1>13, <1>14, <1>15,
     <1>16, <1>17, <1>18, <1>19, <1>20, <1>21, <1>22, <1>23, <1>24, <1>25, <1>26,
     <1>27, <1>28, <1>29, <1>30, <1>31, <1>32, <1>33, <1>34
     DEF Next, SemThread, CPUThread, Detector, SchedulerStep

(* The detector's requests are the processes that wait. *)
THEOREM SemaphoresRequestsTrackWaits == Spec => []RequestsTrackWaits
<1>1. Init => RequestInv
  <2> SUFFICES ASSUME Init PROVE RequestsTrackWaits /\ VictimGone /\ HandsEmpty
    BY TypeInit DEF RequestInv
  <2>1. VictimGone /\ HandsEmpty
    BY SemaphoresAssumption DEF SemaphoresAssumption, Init, VictimGone, HandsEmpty
  <2>2. ASSUME NEW p \in ddProcs \ {ddVictim}, NEW s \in Sems
        PROVE  request[p][s] + Cardinality(Pending(p, s)) = Waits(p, s) + Taken(p, s)
    <3>1. /\ request[p][s] = 0 /\ Pending(p, s) = {} /\ ~HasTaken(s)
          /\ {i \in DOMAIN waiting[s] : waiting[s][i] = p} = {}
      BY DEF Init, NoUnits, Pending, At, HasTaken
    <3> QED
      BY <3>1, FS_EmptySet DEF Waits, Taken, One
  <2> QED
    BY <2>1, <2>2 DEF RequestsTrackWaits, Pending, Taken
<1>2. RequestInv /\ [Next]_vars => RequestInv'
  BY TypeStep, VictimStep, HandsStep, RequestsStep DEF RequestInv
<1>3. RequestInv => RequestsTrackWaits
  BY DEF RequestInv
<1> QED
  BY <1>1, <1>2, <1>3, PTL DEF Spec

-----------------------------------------------------------------------------
(* Where a process is. A process runs on one CPU, waits in one queue, is in the hands of
   one semaphore's thread or is suspended and ready; one that waits or is handed over does
   not run. *)

\* The CPU thread has the process and still works for it
Runs(c, p) == cpuProc[c] = p /\ cpuPc[c] \notin {"idle", "requested"}

Waiting(p, s) == p \in Range(waiting[s])

\* The thread of s has the process and has not handed it over
Held(p, s) == /\ semProc[s] = p
              /\ semPc[s] \in {"isBlocked", "isSuspended", "remove", "ready", "suspReady"}

RunsOnce ==
    \A c \in CPUs, p \in Procs : Runs(c, p) =>
        /\ state[p] \in {"EXEC", "UNUSED"}
        /\ \A d \in CPUs : Runs(d, p) => d = c

WaitsOnce ==
    /\ \A s \in Sems : IsInjective(waiting[s])
    /\ \A s, t \in Sems, p \in Procs : Waiting(p, s) /\ Waiting(p, t) => s = t

HeldOnce ==
    /\ \A s, t \in Sems, p \in Procs : Held(p, s) /\ Held(p, t) => s = t
    /\ \A s, t \in Sems, p \in Procs : Held(p, s) => ~Waiting(p, t)

\* No CPU thread runs the process: the one that queued it, if any, is about to block it
Stopped(p) ==
    /\ state[p] # "READY" /\ p \notin suspendedReadyQueue
    /\ \A c \in CPUs : Runs(c, p) => cpuPc[c] = "block"
    /\ state[p] = "EXEC" => \E c \in CPUs : Runs(c, p)

StoppedInside ==
    \A p \in Procs, s \in Sems : Waiting(p, s) \/ Held(p, s) => Stopped(p)

\* What the thread of a semaphore has read of the state still holds, but for a suspension
StateSeen ==
    \A p \in Procs, s \in Sems : Held(p, s) =>
        /\ semPc[s] \in {"remove", "ready", "suspReady"} => \A c \in CPUs : ~Runs(c, p)
        /\ semPc[s] = "ready" => p \notin blockedQueue
        /\ semPc[s] = "suspReady" => state[p] \in {"SUSP_BLOCKED", "UNUSED"}

QueuesMatchState ==
    /\ \A p \in suspendedReadyQueue : state[p] \in {"SUSP_BLOCKED", "UNUSED"}
    /\ \A p \in blockedQueue : state[p] \in {"BLOCKED", "UNUSED"}

Places == RunsOnce /\ WaitsOnce /\ HeldOnce /\ StoppedInside /\ StateSeen /\ QueuesMatchState

\* The detector has a victim only while it kills it
VictimKept == ddPc # "kill" => ddVictim = NoProc

PlaceInv == TypeInv /\ HandsEmpty /\ VictimKept /\ Places

(* Nobody new is in the hands of a thread. *)
LEMMA HeldFewer ==
    ASSUME HeldOnce, UNCHANGED waiting,
           \A t \in Sems, p \in Procs : Held(p, t)' => Held(p, t)
    PROVE  HeldOnce'
BY DEF HeldOnce, Waiting

(* Every action leaves each process in one place, or takes it from one to another: a petition
   queues the process its CPU thread runs, the thread of the semaphore takes the first of the
   queue, and nobody runs it before it is made ready. *)
LEMMA PlacesStep == PlaceInv /\ [Next]_vars => Places'
<1> SUFFICES ASSUME PlaceInv, [Next]_vars PROVE Places'
  OBVIOUS
<1> USE DEF PlaceInv, TypeInv, TypeOK, ThreadsHoldProcess, HandsEmpty, Places, RunsOnce,
        WaitsOnce, HeldOnce, StoppedInside, StateSeen, QueuesMatchState, Stopped, Runs, Held,
        Waiting, Alive, ddVars, semVars, semThreadVars, procVars, cpuVars, detectorVars, bounds
<1>1. ASSUME NEW s \in Sems, SemSleep(s) PROVE Places'
  BY <1>1 DEF SemSleep
<1>2. ASSUME NEW s \in Sems, SemTest(s) PROVE Places'
  BY <1>2 DEF SemTest
<1>3. ASSUME NEW s \in Sems, SemTakeNull(s) PROVE Places'
  BY <1>3 DEF SemTakeNull
<1>4. ASSUME NEW s \in Sems, SemIsBlocked(s) PROVE Places'
  BY <1>4 DEF SemIsBlocked
<1>5. ASSUME NEW s \in Sems, SemIsSuspended(s) PROVE Places'
  <2>1. UNCHANGED waiting /\ \A t \in Sems, p \in Procs : Held(p, t)' => Held(p, t)
    BY <1>5 DEF SemIsSuspended
  <2>2. HeldOnce'
    BY <2>1, HeldFewer
  <2>3. StoppedInside'
    BY <1>5 DEF SemIsSuspended
  <2>4. RunsOnce' /\ WaitsOnce' /\ StateSeen' /\ QueuesMatchState'
    BY <1>5 DEF SemIsSuspended
  <2> QED
    BY <2>2, <2>3, <2>4 DEF Places
<1>6. ASSUME NEW s \in Sems, SemRemoveBlocked(s) PROVE Places'
  <2>1. UNCHANGED waiting /\ \A t \in Sems, p \in Procs : Held(p, t)' => Held(p, t)
    BY <1>6 DEF SemRemoveBlocked
  <2>2. HeldOnce'
    BY <2>1, HeldFewer
  <2>3. StoppedInside'
    BY <1>6 DEF SemRemoveBlocked
  <2>4. RunsOnce' /\ WaitsOnce' /\ StateSeen' /\ QueuesMatchState'
    BY <1>6 DEF SemRemoveBlocked
  <2> QED
    BY <2>2, <2>3, <2>4 DEF Places
<1>7. ASSUME NEW s \in Sems, SemPutToReady(s) PROVE Places'
  BY <1>7 DEF SemPutToReady
<1>8. ASSUME NEW s \in Sems, SemPutSuspendedReady(s) PROVE Places'
  <2>1. UNCHANGED waiting /\ \A t \in Sems, p \in Procs : Held(p, t)' => Held(p, t)
    BY <1>8 DEF SemPutSuspendedReady
  <2>2. HeldOnce'
    BY <2>1, HeldFewer
  <2>3. StoppedInside'
    BY <1>8 DEF SemPutSuspendedReady
  <2>4. RunsOnce' /\ WaitsOnce'
    BY <1>8 DEF SemPutSuspendedReady
  <2>5. StateSeen'
    BY <1>8 DEF SemPutSuspendedReady
  <2>6. QueuesMatchState'
    BY <1>8 DEF SemPutSuspendedReady
  <2> QED
    BY <2>2, <2>3, <2>4, <2>5, <2>6 DEF Places
<1>9. ASSUME NEW s \in Sems, SemAllocated(s) PROVE Places'
  BY <1>9 DEF SemAllocated
<1>10. ASSUME NEW c \in CPUs, SemWaitInstant(c) PROVE Places'
  BY <1>10 DEF SemWaitInstant
<1>11. ASSUME NEW c \in CPUs, SemPostRelease(c) PROVE Places'
  BY <1>11 DEF SemPostRelease
<1>12. ASSUME NEW c \in CPUs, SemWaitBlock(c) PROVE Places'
  BY <1>12 DEF SemWaitBlock
<1>13. ASSUME NEW c \in CPUs, SemWaitRequested(c) PROVE Places'
  BY <1>13 DEF SemWaitRequested
<1>14. ASSUME NEW c \in CPUs, TerminateDD(c) PROVE Places'
  BY <1>14 DEF TerminateDD
<1>15. ASSUME NEW c \in CPUs, TerminateDestroy(c) PROVE Places'
  BY <1>15 DEF TerminateDestroy
<1>16. ASSUME NEW c \in CPUs, NEW s \in Sems, SemWaitPass(c, s) PROVE Places'
  <2>1. /\ UNCHANGED <<state, blockedQueue, suspendedReadyQueue, waiting, semProc, cpuProc>>
        /\ cpuPc[c] = "run" /\ \A d \in CPUs : cpuPc'[d] = IF d = c THEN "instant" ELSE cpuPc[d]
        /\ UNCHANGED semPc
    BY <1>16 DEF SemWaitPass, Petition, MateSemTake
  <2>2. \A p \in Procs, t \in Sems : /\ Waiting(p, t)' <=> Waiting(p, t)
                                     /\ Held(p, t)' <=> Held(p, t)
    BY <2>1
  <2>3. \A d \in CPUs, p \in Procs : Runs(d, p)' <=> Runs(d, p)
    BY <2>1
  <2>4. \A p \in Procs : Stopped(p) => Stopped(p)'
    BY <2>1, <2>3
  <2> HIDE DEF Waiting, Held, Stopped, Runs
  <2>5. RunsOnce' /\ QueuesMatchState'
    BY <2>1, <2>3
  <2>6. WaitsOnce' /\ HeldOnce'
    BY <2>1, <2>2
  <2>7. StoppedInside'
    BY <2>2, <2>4
  <2>8. StateSeen'
    <3>1. \A p \in Procs, t \in Sems :
             Held(p, t) /\ semPc'[t] \in {"remove", "ready", "suspReady"} => semPc'[t] = semPc[t]
      BY <2>1
    <3> QED
      BY <2>1, <2>2, <2>3, <3>1
  <2> QED
    BY <2>5, <2>6, <2>7, <2>8
<1>17. ASSUME NEW c \in CPUs, NEW s \in Sems, SemPost(c, s) PROVE Places'
  <2>1. /\ UNCHANGED <<state, blockedQueue, suspendedReadyQueue, waiting, semProc, cpuProc>>
        /\ cpuPc[c] = "run" /\ \A d \in CPUs : cpuPc'[d] = IF d = c THEN "release" ELSE cpuPc[d]
        /\ \A t \in Sems : \/ semPc'[t] = semPc[t]
                           \/ semPc[t] = "waiting" /\ semPc'[t] = "check"
    BY <1>17 DEF SemPost, Petition, MateSemPost
  <2>2. \A p \in Procs, t \in Sems : /\ Waiting(p, t)' <=> Waiting(p, t)
                                     /\ Held(p, t)' <=> Held(p, t)
    BY <2>1
  <2>3. \A d \in CPUs, p \in Procs : Runs(d, p)' <=> Runs(d, p)
    BY <2>1
  <2>4. \A p \in Procs : Stopped(p) => Stopped(p)'
    BY <2>1, <2>3
  <2> HIDE DEF Waiting, Held, Stopped, Runs
  <2>5. RunsOnce' /\ QueuesMatchState'
    BY <2>1, <2>3
  <2>6. WaitsOnce' /\ HeldOnce'
    BY <2>1, <2>2
  <2>7. StoppedInside'
    BY <2>2, <2>4
  <2>8. StateSeen'
    <3>1. \A p \in Procs, t \in Sems :
             Held(p, t) /\ semPc'[t] \in {"remove", "ready", "suspReady"} => semPc'[t] = semPc[t]
      BY <2>1
    <3> QED
      BY <2>1, <2>2, <2>3, <3>1
  <2> QED
    BY <2>5, <2>6, <2>7, <2>8
<1>18. CASE DetectorWake
  BY <1>18 DEF DetectorWake
<1>19. CASE FindNone
  BY <1>19 DEF FindNone
<1>20. CASE FindNobody
  BY <1>20 DEF FindNobody, vars
<1>21. CASE FindVictim
  BY <1>21 DEF FindVictim
<1>22. CASE KillPost
  <2>1. /\ UNCHANGED <<state, blockedQueue, suspendedReadyQueue, waiting, semProc, cpuProc, cpuPc>>
        /\ \A t \in Sems : \/ semPc'[t] = semPc[t]
                           \/ semPc[t] = "waiting" /\ semPc'[t] = "check"
    BY <1>22 DEF KillPost, MateSemPost
  <2>2. \A p \in Procs, t \in Sems : /\ Waiting(p, t)' <=> Waiting(p, t)
                                     /\ Held(p, t)' <=> Held(p, t)
    BY <2>1
  <2>3. /\ \A d \in CPUs, p \in Procs : Runs(d, p)' <=> Runs(d, p)
        /\ \A p \in Procs : Stopped(p) => Stopped(p)'
    BY <2>1
  <2> HIDE DEF Waiting, Held, Stopped, Runs
  <2>5. RunsOnce' /\ QueuesMatchState'
    BY <2>1, <2>3
  <2>6. WaitsOnce' /\ HeldOnce'
    BY <2>1, <2>2
  <2>7. StoppedInside'
    BY <2>2, <2>3
  <2>8. StateSeen'
    <3>1. \A p \in Procs, t \in Sems :
             Held(p, t) /\ semPc'[t] \in {"remove", "ready", "suspReady"} => semPc'[t] = semPc[t]
      BY <2>1
    <3> QED
      BY <2>1, <2>2, <2>3, <3>1
  <2> QED
    BY <2>5, <2>6, <2>7, <2>8
<1>23. CASE KillNextSem
  BY <1>23 DEF KillNextSem
<1>24. CASE KillDestroy
  BY <1>24 DEF KillDestroy
<1>25. ASSUME NEW c \in CPUs, NEW p \in Procs, Dispatch(c, p) PROVE Places'
  <2>0. /\ \A d \in CPUs : /\ cpuPc'[d] = IF d = c THEN "run" ELSE cpuPc[d]
                           /\ cpuProc'[d] = IF d = c THEN p ELSE cpuProc[d]
        /\ \A q \in Procs : state'[q] = IF q = p THEN "EXEC" ELSE state[q]
        /\ cpuPc[c] = "idle" /\ state[p] = "READY"
    BY <1>25 DEF Dispatch
  <2>7. \A d \in CPUs, q \in Procs : Runs(d, q)' <=> Runs(d, q) \/ (d = c /\ q = p)
    BY <2>0
  <2>1. RunsOnce'
    <3>1. \A d \in CPUs : ~Runs(d, p)
      BY <2>0
    <3> HIDE DEF Runs
    <3> QED
      BY <2>0, <2>7, <3>1
  <2>2. WaitsOnce'
    BY <1>25 DEF Dispatch
  <2>3. HeldOnce'
    BY <1>25 DEF Dispatch
  <2>4. StoppedInside'
    BY <1>25 DEF Dispatch
  <2>5. StateSeen'
    BY <1>25 DEF Dispatch
  <2>6. QueuesMatchState'
    BY <1>25 DEF Dispatch
  <2> QED
    BY <2>1, <2>2, <2>3, <2>4, <2>5, <2>6 DEF Places
<1>26. ASSUME NEW p \in Procs, Suspend(p) PROVE Places'
  BY <1>26 DEF Suspend
<1>27. ASSUME NEW p \in Procs, Unsuspend(p) PROVE Places'
  BY <1>27 DEF Unsuspend
<1>28. CASE UNCHANGED vars
  BY <1>28 DEF vars
<1>29. ASSUME NEW s \in Sems, SemTake(s) PROVE Places'
  <2>0. waiting[s] \in Seq(Procs) /\ waiting[s] # <<>> /\ IsInjective(waiting[s])
    BY <1>29 DEF SemTake
  <2>1. PICK q \in Procs : q = Head(waiting[s])
    BY <2>0, HeadTailRange
  <2>2. PICK w \in Seq(Procs) :
           /\ w = Tail(waiting[s]) /\ IsInjective(w) /\ q \notin Range(w)
           /\ Range(waiting[s]) = Range(w) \cup {q}
    <3>1. PICK u \in Seq(Procs) : u = waiting[s] /\ u # <<>> /\ IsInjective(u)
      BY <2>0
    <3>2. /\ Tail(u) \in Seq(Procs) /\ IsInjective(Tail(u)) /\ q \notin Range(Tail(u))
          /\ Range(u) = Range(Tail(u)) \cup {q}
      BY <2>1, <3>1, HeadTailRange
    <3> QED
      BY <3>1, <3>2
  <2>3. /\ \A t \in Sems : waiting'[t] = IF t = s THEN w ELSE waiting[t]
        /\ \A t \in Sems : semPc'[t] = IF t = s THEN "isBlocked" ELSE semPc[t]
        /\ \A t \in Sems : semProc'[t] = IF t = s THEN q ELSE semProc[t]
        /\ UNCHANGED <<state, blockedQueue, suspendedReadyQueue, cpuPc, cpuProc>>
    BY <1>29, <2>1, <2>2 DEF SemTake
  <2>a. semPc[s] = "take"
    BY <1>29 DEF SemTake
  <2>b. \A p \in Procs, t \in Sems :
           /\ Waiting(p, t)' <=> Waiting(p, t) /\ ~(p = q /\ t = s)
           /\ Held(p, t)' <=> Held(p, t) \/ (p = q /\ t = s)
    <3>1. ASSUME NEW p \in Procs, NEW t \in Sems
          PROVE  Waiting(p, t)' <=> Waiting(p, t) /\ ~(p = q /\ t = s)
      <4>1. CASE t = s
        <5>1. Waiting(p, t)' <=> p \in Range(w)
          BY <2>3, <4>1
        <5>2. Waiting(p, t) <=> p \in Range(w) \cup {q}
          BY <2>2, <4>1
        <5> QED
          BY <2>2, <4>1, <5>1, <5>2
      <4>2. CASE t # s
        BY <2>3, <4>2
      <4> QED
        BY <4>1, <4>2
    <3>2. ASSUME NEW p \in Procs, NEW t \in Sems
          PROVE  Held(p, t)' <=> Held(p, t) \/ (p = q /\ t = s)
      <4>1. CASE t = s
        BY <2>3, <2>a, <4>1
      <4>2. CASE t # s
        BY <2>3, <4>2
      <4> QED
        BY <4>1, <4>2
    <3> QED
      BY <3>1, <3>2
  <2>c. /\ \A p \in Procs : Stopped(p)' <=> Stopped(p)
        /\ \A c \in CPUs, p \in Procs : Runs(c, p)' <=> Runs(c, p)
    BY <2>3
  <2>d. Waiting(q, s)
    BY <2>2
  <2>4. /\ \A p \in Procs, t \in Sems : Waiting(p, t)' <=> Waiting(p, t) /\ ~(p = q /\ t = s)
        /\ \A p \in Procs, t \in Sems : Held(p, t)' <=> Held(p, t) \/ (p = q /\ t = s)
        /\ \A p \in Procs : Stopped(p)' <=> Stopped(p)
        /\ \A c \in CPUs, p \in Procs : Runs(c, p)' <=> Runs(c, p)
        /\ Waiting(q, s)
    BY <2>b, <2>c, <2>d
  <2> HIDE DEF Waiting, Held, Stopped, Runs
  <2>5. RunsOnce' /\ QueuesMatchState'
    BY <2>3, <2>4
  <2>6. WaitsOnce'
    <3>1. \A t \in Sems : IsInjective(waiting'[t])
      BY <2>2, <2>3
    <3> QED
      BY <2>4, <3>1
  <2>7. HeldOnce'
    <3>1. \A t \in Sems : ~Held(q, t) /\ (Waiting(q, t) => t = s)
      BY <2>4
    <3>2. ASSUME NEW t1 \in Sems, NEW t2 \in Sems, NEW p \in Procs, Held(p, t1)'
          PROVE  (Held(p, t2)' => t1 = t2) /\ ~Waiting(p, t2)'
      <4>1. CASE p = q
        BY <2>4, <3>1, <3>2, <4>1
      <4>2. CASE p # q
        BY <2>4, <3>2, <4>2
      <4> QED
        BY <4>1, <4>2
    <3> QED
      BY <3>2
  <2>9. StoppedInside'
    BY <2>4
  <2>8. StateSeen'
    BY <2>3, <2>4
  <2> QED
    BY <2>5, <2>6, <2>7, <2>8, <2>9
<1>30. ASSUME NEW c \in CPUs, NEW s \in Sems, SemWaitEnqueue(c, s) PROVE Places'
  <2>1. PICK q \in Procs : q = cpuProc[c] /\ Runs(c, q) /\ cpuPc[c] = "run" /\ state[q] = "EXEC"
    BY <1>30 DEF SemWaitEnqueue, Petition
  <2>2. ~Stopped(q)
    BY <2>1
  <2>3. q \notin Range(waiting[s])
    BY <2>1, <2>2
  <2>4. PICK w \in Seq(Procs) :
           w = Append(waiting[s], q) /\ IsInjective(w) /\ Range(w) = Range(waiting[s]) \cup {q}
    <3>1. PICK u \in Seq(Procs) : u = waiting[s] /\ q \notin Range(u) /\ IsInjective(u)
      BY <2>3
    <3>2. /\ Append(u, q) \in Seq(Procs) /\ IsInjective(Append(u, q))
          /\ Range(Append(u, q)) = Range(u) \cup {q}
      BY <3>1, AppendRange
    <3> QED
      BY <3>1, <3>2
  <2>5. /\ \A t \in Sems : waiting'[t] = IF t = s THEN w ELSE waiting[t]
        /\ \A d \in CPUs : cpuPc'[d] = IF d = c THEN "block" ELSE cpuPc[d]
        /\ UNCHANGED <<state, blockedQueue, suspendedReadyQueue, cpuProc, semPc, semProc>>
    BY <1>30, <2>1, <2>4 DEF SemWaitEnqueue, Petition, MateSemEnqueue
  <2>a. \A p \in Procs, t \in Sems :
           /\ Waiting(p, t)' <=> Waiting(p, t) \/ (p = q /\ t = s)
           /\ Held(p, t)' <=> Held(p, t)
    <3>1. ASSUME NEW p \in Procs, NEW t \in Sems
          PROVE  Waiting(p, t)' <=> Waiting(p, t) \/ (p = q /\ t = s)
      <4>1. CASE t = s
        <5>1. Waiting(p, t)' <=> p \in Range(w)
          BY <2>5, <4>1
        <5>2. Waiting(p, t) \/ p = q <=> p \in Range(w)
          BY <2>4, <4>1
        <5> QED
          BY <4>1, <5>1, <5>2
      <4>2. CASE t # s
        BY <2>5, <4>2
      <4> QED
        BY <4>1, <4>2
    <3>2. ASSUME NEW p \in Procs, NEW t \in Sems
          PROVE  Held(p, t)' <=> Held(p, t)
      BY <2>5
    <3> QED
      BY <3>1, <3>2
  <2>b. \A d \in CPUs, p \in Procs : Runs(d, p)' <=> Runs(d, p)
    BY <2>1, <2>5
  <2>c. suspendedReadyQueue' = suspendedReadyQueue /\ q \notin suspendedReadyQueue
    BY <1>30, <2>1 DEF SemWaitEnqueue, Petition
  <2>d. \A d \in CPUs : Runs(d, q) => d = c
    BY <2>1
  <2>7. Stopped(q)'
    <3> HIDE DEF Runs
    <3>1. state'[q] = "EXEC" /\ cpuPc'[c] = "block" /\ Runs(c, q)'
      BY <2>1, <2>5, <2>b
    <3> QED
      BY <2>b, <2>c, <2>d, <3>1
  <2>e. \A p \in Procs : Stopped(p) => Stopped(p)'
    <3> HIDE DEF Runs
    <3> QED
      BY <2>5, <2>b, <2>c
  <2>6. /\ \A p \in Procs, t \in Sems : Waiting(p, t)' <=> Waiting(p, t) \/ (p = q /\ t = s)
        /\ \A p \in Procs, t \in Sems : Held(p, t)' <=> Held(p, t)
        /\ \A p \in Procs : Stopped(p) => Stopped(p)'
        /\ \A d \in CPUs, p \in Procs : Runs(d, p)' <=> Runs(d, p)
    BY <2>a, <2>b, <2>e
  <2> HIDE DEF Waiting, Held, Stopped, Runs
  <2>8. RunsOnce' /\ QueuesMatchState'
    BY <2>5, <2>6
  <2>9. WaitsOnce'
    <3>1. \A t \in Sems : IsInjective(waiting'[t])
      BY <2>4, <2>5
    <3>2. \A t \in Sems : ~Waiting(q, t)
      BY <2>2
    <3>3. ASSUME NEW t1 \in Sems, NEW t2 \in Sems, NEW p \in Procs,
                 Waiting(p, t1)', Waiting(p, t2)'
          PROVE  t1 = t2
      <4>1. CASE p = q
        BY <2>6, <3>2, <3>3, <4>1
      <4>2. CASE p # q
        <5>1. Waiting(p, t1) /\ Waiting(p, t2)
          BY <2>6, <3>3, <4>2
        <5>2. WaitsOnce
          OBVIOUS
        <5> QED
          BY <5>1, <5>2
      <4> QED
        BY <4>1, <4>2
    <3> QED
      BY <3>1, <3>3
  <2>10. HeldOnce' /\ StoppedInside'
    BY <2>2, <2>6, <2>7
  <2>11. StateSeen'
    BY <2>5, <2>6
  <2> QED
    BY <2>8, <2>9, <2>10, <2>11
<1>31. CASE KillWithdraw
  <2>1. PICK v \in Procs : v = ddVictim
    BY <1>31 DEF KillWithdraw
  <2>2. PICK s : s = Current /\ waiting' = [waiting EXCEPT ![s] = RemoveFirst(waiting[s], v)]
    BY <1>31, <2>1 DEF KillWithdraw
  <2>3. /\ blockedQueue' \subseteq blockedQueue
        /\ UNCHANGED <<state, suspendedReadyQueue, cpuPc, cpuProc, semPc, semProc>>
    BY <1>31 DEF KillWithdraw
  <2>4. \A t \in Sems : IsInjective(waiting'[t]) /\ Range(waiting'[t]) \subseteq Range(waiting[t])
    <3>1. ASSUME NEW t \in Sems
          PROVE  IsInjective(waiting'[t]) /\ Range(waiting'[t]) \subseteq Range(waiting[t])
      <4>1. CASE t = s
        <5>1. waiting'[t] = RemoveFirst(waiting[t], v)
          BY <2>2, <4>1
        <5>2. waiting[t] \in Seq(Procs) /\ IsInjective(waiting[t])
          OBVIOUS
        <5> QED
          BY <5>1, <5>2, RemoveFirstRange
      <4>2. CASE t # s
        BY <2>2, <4>2
      <4> QED
        BY <4>1, <4>2
    <3> QED
      BY <3>1
  <2>5. /\ \A p \in Procs, t \in Sems : Waiting(p, t)' => Waiting(p, t)
        /\ \A p \in Procs, t \in Sems : Held(p, t)' <=> Held(p, t)
        /\ \A p \in Procs : Stopped(p)' <=> Stopped(p)
        /\ \A c \in CPUs, p \in Procs : Runs(c, p)' <=> Runs(c, p)
    BY <2>3, <2>4
  <2> HIDE DEF Waiting, Held, Stopped, Runs
  <2>6. RunsOnce' /\ QueuesMatchState'
    BY <2>3, <2>5
  <2>7. WaitsOnce'
    BY <2>4, <2>5
  <2>8. HeldOnce' /\ StoppedInside' /\ StateSeen'
    BY <2>3, <2>5
  <2> QED
    BY <2>6, <2>7, <2>8

<1> QED
    BY <1>1, <1>2, <1>3, <1>4, <1>5, <1>6, <1>7, <1>8, <1>9, <1>10, <1>11, <1>12, <1>13, <1>14,
     <1>15, <1>16, <1>17, <1>18, <1>19, <1>20, <1>21, <1>22, <1>23, <1>24, <1>25, <1>26, <1>27,
     <1>28, <1>29, <1>30, <1>31
     DEF Next, SemThread, CPUThread, Detector, SchedulerStep

(* The detector forgets its victim when it has killed it. *)
LEMMA VictimKeptStep == TypeInv /\ VictimKept /\ [Next]_vars => VictimKept'
<1> SUFFICES ASSUME TypeInv, VictimKept, [Next]_vars PROVE VictimKept'
  OBVIOUS
<1> USE DEF VictimKept, detectorVars
<1>1. ASSUME NEW s \in Sems, SemThread(s) PROVE VictimKept'
  BY <1>1 DEF SemThread, SemSleep, SemTest, SemTake, SemTakeNull, SemIsBlocked,
     SemIsSuspended, SemRemoveBlocked, SemPutToReady, SemPutSuspendedReady, SemAllocated
<1>2. ASSUME NEW c \in CPUs, CPUThread(c) PROVE VictimKept'
  BY <1>2 DEF CPUThread, SemWaitPass, SemWaitEnqueue, SemPost, Petition, SemWaitInstant,
     SemPostRelease, SemWaitBlock, SemWaitRequested, TerminateDD, TerminateDestroy
<1>3. CASE Detector
  BY <1>3 DEF Detector, DetectorWake, FindNone, FindNobody, FindVictim, KillWithdraw,
     KillPost, KillNextSem, KillDestroy, vars
<1>4. CASE SchedulerStep
  BY <1>4 DEF SchedulerStep, Dispatch, Suspend, Unsuspend
<1>5. CASE UNCHANGED vars
  BY <1>5 DEF vars
<1> QED
  BY <1>1, <1>2, <1>3, <1>4, <1>5 DEF Next

(* Every process begins ready, and no thread has one. *)
LEMMA PlaceInit == Init => PlaceInv
<1> SUFFICES ASSUME Init PROVE HandsEmpty /\ VictimKept /\ Places
  BY TypeInit DEF PlaceInv
<1>1. \A s \in Sems : waiting[s] = <<>> /\ Range(waiting[s]) = {} /\ IsInjective(waiting[s])
  BY DEF Init, Range, IsInjective
<1>2. HandsEmpty /\ VictimKept
  BY DEF Init, HandsEmpty, VictimKept
<1>3. /\ \A c \in CPUs, p \in Procs : ~Runs(c, p)
      /\ \A s \in Sems, p \in Procs : ~Waiting(p, s) /\ ~Held(p, s)
  BY <1>1 DEF Init, Runs, Waiting, Held
<1>4. RunsOnce /\ WaitsOnce /\ HeldOnce /\ StoppedInside /\ StateSeen
  BY <1>1, <1>3 DEF RunsOnce, WaitsOnce, HeldOnce, StoppedInside, StateSeen
<1>5. QueuesMatchState
  BY DEF Init, QueuesMatchState
<1> QED
  BY <1>2, <1>4, <1>5 DEF Places

(* The places are kept with the types, the empty hands and the victim. *)
LEMMA PlaceStep == PlaceInv /\ [Next]_vars => PlaceInv'
BY TypeStep, HandsStep, VictimKeptStep, PlacesStep DEF PlaceInv

-----------------------------------------------------------------------------
(* The semaphores are counting semaphores *)

Queued(p) == \E s \in Sems : Waiting(p, s)

InHands(p) == \E s \in Sems : Held(p, s)

(* The status of a process is a matter of its place. *)
LEMMA StatusOfPlace ==
    ASSUME PlaceInv, NEW p \in Procs
    PROVE  Status(p) = IF Queued(p) THEN "waiting"
                       ELSE IF InHands(p) THEN "granted"
                       ELSE IF state[p] = "UNUSED" THEN "ended"
                       ELSE IF ~Halted(p) THEN "running"
                       ELSE IF p # ddVictim \/ p \in suspendedReadyQueue THEN "granted"
                       ELSE "ended"
<1>1. Handing(p) <=> InHands(p)
  <2>1. \A s \in Sems : semPc[s] \in SemSteps
    BY DEF PlaceInv, TypeInv, TypeOK
  <2>2. \A s \in Sems : semPc[s] = "null" => semProc[s] # p
    BY SemaphoresAssumption DEF PlaceInv, HandsEmpty, SemaphoresAssumption
  <2> QED
    BY <2>1, <2>2 DEF Handing, InHands, Held, HasTaken
<1> QED
  BY <1>1 DEF Status, Queued, Waiting

(* And so after a step. *)
LEMMA StatusOfPlaceNext ==
    ASSUME PlaceInv', NEW p \in Procs
    PROVE  Status(p)' = IF Queued(p)' THEN "waiting"
                        ELSE IF InHands(p)' THEN "granted"
                        ELSE IF state'[p] = "UNUSED" THEN "ended"
                        ELSE IF ~Halted(p)' THEN "running"
                        ELSE IF p # ddVictim' \/ p \in suspendedReadyQueue' THEN "granted"
                        ELSE "ended"
<1>1. Handing(p)' <=> InHands(p)'
  <2>1. \A s \in Sems : semPc'[s] \in SemSteps
    BY DEF PlaceInv, TypeInv, TypeOK
  <2>2. \A s \in Sems : semPc'[s] = "null" => semProc'[s] # p
    BY SemaphoresAssumption DEF PlaceInv, HandsEmpty, SemaphoresAssumption
  <2> QED
    BY <2>1, <2>2 DEF Handing, InHands, Held, HasTaken
<1> QED
  BY <1>1 DEF Status, Queued, Waiting

(* No process moves from its place. *)
LEMMA StatusesKept ==
    ASSUME PlaceInv, PlaceInv', UNCHANGED waiting,
           \A p \in Procs : /\ InHands(p)' <=> InHands(p)
                            /\ Halted(p)' <=> Halted(p)
                            /\ state'[p] = "UNUSED" <=> state[p] = "UNUSED",
           UNCHANGED <<ddVictim, suspendedReadyQueue>>
    PROVE  [p \in Procs |-> Status(p)]' = [p \in Procs |-> Status(p)]
<1>1. \A p \in Procs : Queued(p)' <=> Queued(p)
  BY DEF Queued, Waiting
<1>2. \A p \in Procs : Status(p)' = Status(p)
  BY <1>1, StatusOfPlace, StatusOfPlaceNext
<1> QED
  BY <1>2

(* The units of one semaphore change. *)
LEMMA UnitsOfOne ==
    ASSUME NEW s \in Sems, NEW n,
           \A t \in Sems : UnitsLeft(t)' = IF t = s THEN n ELSE UnitsLeft(t)
    PROVE  [t \in Sems |-> UnitsLeft(t)]' = [[t \in Sems |-> UnitsLeft(t)] EXCEPT ![s] = n]
OBVIOUS

(* A client sees nothing of a step that moves no unit and no process from its place. *)
LEMMA ClientSeesNothing ==
    ASSUME PlaceInv, PlaceInv', UNCHANGED waiting,
           \A s \in Sems : UnitsLeft(s)' = UnitsLeft(s),
           \A p \in Procs : /\ InHands(p)' <=> InHands(p)
                            /\ Halted(p)' <=> Halted(p)
                            /\ state'[p] = "UNUSED" <=> state[p] = "UNUSED",
           UNCHANGED <<ddVictim, suspendedReadyQueue>>
    PROVE  UNCHANGED Client!vars
<1>1. [p \in Procs |-> Status(p)]' = [p \in Procs |-> Status(p)]
  BY StatusesKept
<1>2. [s \in Sems |-> UnitsLeft(s)]' = [s \in Sems |-> UnitsLeft(s)]
  OBVIOUS
<1> QED
  BY <1>1, <1>2 DEF Client!vars

(* A client sees one process go on with its unit, or end. *)
LEMMA ClientSeesOne ==
    ASSUME UNCHANGED waiting,
           \A s \in Sems : UnitsLeft(s)' = UnitsLeft(s),
           NEW q \in Procs,
           \A p \in Procs \ {q} : Status(p)' = Status(p),
           \/ Status(q)' = Status(q)
           \/ Status(q) = "granted" /\ Status(q)' = "running"
           \/ Status(q) \in {"running", "granted"} /\ Status(q)' = "ended"
    PROVE  [Client!Next]_Client!vars
<1>1. [s \in Sems |-> UnitsLeft(s)]' = [s \in Sems |-> UnitsLeft(s)]
  OBVIOUS
<1>2. CASE Status(q)' = Status(q)
  <2>1. [p \in Procs |-> Status(p)]' = [p \in Procs |-> Status(p)]
    BY <1>2
  <2> QED
    BY <1>1, <2>1 DEF Client!vars
<1>3. CASE Status(q) = "granted" /\ Status(q)' = "running"
  <2>1. [p \in Procs |-> Status(p)]' = [[p \in Procs |-> Status(p)] EXCEPT ![q] = "running"]
    <3>1. \A p \in Procs : Status(p)' = IF p = q THEN "running" ELSE Status(p)
      BY <1>3
    <3> QED
      BY <3>1
  <2>2. Client!Resume(q)
    BY <1>1, <1>3, <2>1 DEF Client!Resume
  <2> QED
    BY <2>2 DEF Client!Next
<1>4. CASE Status(q) \in {"running", "granted"} /\ Status(q)' = "ended"
  <2>1. [p \in Procs |-> Status(p)]' = [[p \in Procs |-> Status(p)] EXCEPT ![q] = "ended"]
    <3>1. \A p \in Procs : Status(p)' = IF p = q THEN "ended" ELSE Status(p)
      BY <1>4
    <3> QED
      BY <3>1
  <2>2. Client!End(q)
    BY <1>1, <1>4, <2>1 DEF Client!End
  <2> QED
    BY <2>2 DEF Client!Next
<1> QED
  BY <1>2, <1>3, <1>4

(* A client sees nothing of what the threads do between a change of a semaphore and its
   report, of the scheduler's dispatches and suspensions, nor of a search. *)
LEMMA UnseenSteps ==
    ASSUME PlaceInv, PlaceInv'
    PROVE  /\ \A s \in Sems : SemSleep(s) \/ SemTest(s) \/ SemTakeNull(s) \/ SemIsBlocked(s)
                              \/ SemRemoveBlocked(s) \/ SemAllocated(s)
                                => UNCHANGED Client!vars
           /\ \A c \in CPUs : SemWaitInstant(c) \/ SemPostRelease(c) \/ SemWaitBlock(c)
                              \/ SemWaitRequested(c) \/ TerminateDD(c)
                                => UNCHANGED Client!vars
           /\ DetectorWake \/ FindNone \/ FindNobody \/ KillNextSem => UNCHANGED Client!vars
           /\ \A c \in CPUs, q \in Procs : Dispatch(c, q) => UNCHANGED Client!vars
           /\ \A q \in Procs : Suspend(q) => UNCHANGED Client!vars
<1> USE DEF ddVars, semVars, semThreadVars, procVars, cpuVars, detectorVars, bounds, Alive
<1>a. /\ sem \in [Sems -> Nat] /\ semPc \in [Sems -> SemSteps]
      /\ semProc \in [Sems -> Procs \cup {NoProc}] /\ state \in [Procs -> States]
      /\ cpuPc \in [CPUs -> CPUSteps] /\ cpuProc \in [CPUs -> Procs \cup {NoProc}]
      /\ \A c \in CPUs : cpuPc[c] # "idle" => cpuProc[c] \in Procs
  BY DEF PlaceInv, TypeInv, TypeOK, ThreadsHoldProcess
<1>b. HandsEmpty /\ RunsOnce /\ QueuesMatchState
  BY DEF PlaceInv, Places
<1>1. ASSUME NEW s \in Sems, SemSleep(s) PROVE UNCHANGED Client!vars
  <2>1. UNCHANGED waiting /\ \A t \in Sems : UnitsLeft(t)' = UnitsLeft(t)
    BY <1>a, <1>1 DEF SemSleep, UnitsLeft, One
  <2>2. \A p \in Procs : InHands(p)' <=> InHands(p)
    BY <1>a, <1>1 DEF SemSleep, InHands, Held
  <2>3. \A p \in Procs : Halted(p)' <=> Halted(p)
    BY <1>a, <1>b, <1>1 DEF SemSleep, Halted, RunsOnce, Runs, QueuesMatchState
  <2>4. /\ \A p \in Procs : state'[p] = "UNUSED" <=> state[p] = "UNUSED"
        /\ UNCHANGED <<ddVictim, suspendedReadyQueue>>
    BY <1>a, <1>1 DEF SemSleep
  <2> QED
    BY <2>1, <2>2, <2>3, <2>4, ClientSeesNothing
<1>2. ASSUME NEW s \in Sems, SemTest(s) PROVE UNCHANGED Client!vars
  <2>1. UNCHANGED waiting /\ \A t \in Sems : UnitsLeft(t)' = UnitsLeft(t)
    BY <1>a, <1>2 DEF SemTest, UnitsLeft, One
  <2>2. \A p \in Procs : InHands(p)' <=> InHands(p)
    BY <1>a, <1>2 DEF SemTest, InHands, Held
  <2>3. \A p \in Procs : Halted(p)' <=> Halted(p)
    BY <1>a, <1>b, <1>2 DEF SemTest, Halted, RunsOnce, Runs, QueuesMatchState
  <2>4. /\ \A p \in Procs : state'[p] = "UNUSED" <=> state[p] = "UNUSED"
        /\ UNCHANGED <<ddVictim, suspendedReadyQueue>>
    BY <1>a, <1>2 DEF SemTest
  <2> QED
    BY <2>1, <2>2, <2>3, <2>4, ClientSeesNothing
<1>3. ASSUME NEW s \in Sems, SemTakeNull(s) PROVE UNCHANGED Client!vars
  <2>1. UNCHANGED waiting /\ \A t \in Sems : UnitsLeft(t)' = UnitsLeft(t)
    BY <1>a, <1>3 DEF SemTakeNull, UnitsLeft, One
  <2>2. \A p \in Procs : InHands(p)' <=> InHands(p)
    BY <1>a, <1>3 DEF SemTakeNull, InHands, Held
  <2>3. \A p \in Procs : Halted(p)' <=> Halted(p)
    BY <1>a, <1>b, <1>3 DEF SemTakeNull, Halted, RunsOnce, Runs, QueuesMatchState
  <2>4. /\ \A p \in Procs : state'[p] = "UNUSED" <=> state[p] = "UNUSED"
        /\ UNCHANGED <<ddVictim, suspendedReadyQueue>>
    BY <1>a, <1>3 DEF SemTakeNull
  <2> QED
    BY <2>1, <2>2, <2>3, <2>4, ClientSeesNothing
<1>4. ASSUME NEW s \in Sems, SemIsBlocked(s) PROVE UNCHANGED Client!vars
  <2>1. UNCHANGED waiting /\ \A t \in Sems : UnitsLeft(t)' = UnitsLeft(t)
    BY <1>a, <1>4 DEF SemIsBlocked, UnitsLeft, One
  <2>2. \A p \in Procs : InHands(p)' <=> InHands(p)
    BY <1>a, <1>4 DEF SemIsBlocked, InHands, Held
  <2>3. \A p \in Procs : Halted(p)' <=> Halted(p)
    BY <1>a, <1>b, <1>4 DEF SemIsBlocked, Halted, RunsOnce, Runs, QueuesMatchState
  <2>4. /\ \A p \in Procs : state'[p] = "UNUSED" <=> state[p] = "UNUSED"
        /\ UNCHANGED <<ddVictim, suspendedReadyQueue>>
    BY <1>a, <1>4 DEF SemIsBlocked
  <2> QED
    BY <2>1, <2>2, <2>3, <2>4, ClientSeesNothing
<1>5. ASSUME NEW s \in Sems, SemRemoveBlocked(s) PROVE UNCHANGED Client!vars
  <2>1. UNCHANGED waiting /\ \A t \in Sems : UnitsLeft(t)' = UnitsLeft(t)
    BY <1>a, <1>5 DEF SemRemoveBlocked, UnitsLeft, One
  <2>2. \A p \in Procs : InHands(p)' <=> InHands(p)
    BY <1>a, <1>5 DEF SemRemoveBlocked, InHands, Held
  <2>3. \A p \in Procs : Halted(p)' <=> Halted(p)
    BY <1>a, <1>b, <1>5 DEF SemRemoveBlocked, Halted, RunsOnce, Runs, QueuesMatchState
  <2>4. /\ \A p \in Procs : state'[p] = "UNUSED" <=> state[p] = "UNUSED"
        /\ UNCHANGED <<ddVictim, suspendedReadyQueue>>
    BY <1>a, <1>5 DEF SemRemoveBlocked
  <2> QED
    BY <2>1, <2>2, <2>3, <2>4, ClientSeesNothing
<1>6. ASSUME NEW s \in Sems, SemAllocated(s) PROVE UNCHANGED Client!vars
  <2>1. UNCHANGED waiting /\ \A t \in Sems : UnitsLeft(t)' = UnitsLeft(t)
    BY <1>a, <1>6 DEF SemAllocated, UnitsLeft, One
  <2>2. \A p \in Procs : InHands(p)' <=> InHands(p)
    BY <1>a, <1>6 DEF SemAllocated, InHands, Held
  <2>3. \A p \in Procs : Halted(p)' <=> Halted(p)
    BY <1>a, <1>b, <1>6 DEF SemAllocated, Halted, RunsOnce, Runs, QueuesMatchState
  <2>4. /\ \A p \in Procs : state'[p] = "UNUSED" <=> state[p] = "UNUSED"
        /\ UNCHANGED <<ddVictim, suspendedReadyQueue>>
    BY <1>a, <1>6 DEF SemAllocated
  <2> QED
    BY <2>1, <2>2, <2>3, <2>4, ClientSeesNothing
<1>7. ASSUME NEW c \in CPUs, SemWaitInstant(c) PROVE UNCHANGED Client!vars
  <2>1. UNCHANGED waiting /\ \A t \in Sems : UnitsLeft(t)' = UnitsLeft(t)
    BY <1>a, <1>7 DEF SemWaitInstant, UnitsLeft, One
  <2>2. \A p \in Procs : InHands(p)' <=> InHands(p)
    BY <1>a, <1>7 DEF SemWaitInstant, InHands, Held
  <2>3. \A p \in Procs : Halted(p)' <=> Halted(p)
    BY <1>a, <1>b, <1>7 DEF SemWaitInstant, Halted, RunsOnce, Runs, QueuesMatchState
  <2>4. /\ \A p \in Procs : state'[p] = "UNUSED" <=> state[p] = "UNUSED"
        /\ UNCHANGED <<ddVictim, suspendedReadyQueue>>
    BY <1>a, <1>7 DEF SemWaitInstant
  <2> QED
    BY <2>1, <2>2, <2>3, <2>4, ClientSeesNothing
<1>8. ASSUME NEW c \in CPUs, SemPostRelease(c) PROVE UNCHANGED Client!vars
  <2>1. UNCHANGED waiting /\ \A t \in Sems : UnitsLeft(t)' = UnitsLeft(t)
    BY <1>a, <1>8 DEF SemPostRelease, UnitsLeft, One
  <2>2. \A p \in Procs : InHands(p)' <=> InHands(p)
    BY <1>a, <1>8 DEF SemPostRelease, InHands, Held
  <2>3. \A p \in Procs : Halted(p)' <=> Halted(p)
    BY <1>a, <1>b, <1>8 DEF SemPostRelease, Halted, RunsOnce, Runs, QueuesMatchState
  <2>4. /\ \A p \in Procs : state'[p] = "UNUSED" <=> state[p] = "UNUSED"
        /\ UNCHANGED <<ddVictim, suspendedReadyQueue>>
    BY <1>a, <1>8 DEF SemPostRelease
  <2> QED
    BY <2>1, <2>2, <2>3, <2>4, ClientSeesNothing
<1>9. ASSUME NEW c \in CPUs, SemWaitBlock(c) PROVE UNCHANGED Client!vars
  <2>1. UNCHANGED waiting /\ \A t \in Sems : UnitsLeft(t)' = UnitsLeft(t)
    BY <1>a, <1>9 DEF SemWaitBlock, UnitsLeft, One
  <2>2. \A p \in Procs : InHands(p)' <=> InHands(p)
    BY <1>a, <1>9 DEF SemWaitBlock, InHands, Held
  <2>3. \A p \in Procs : Halted(p)' <=> Halted(p)
    BY <1>a, <1>b, <1>9 DEF SemWaitBlock, Halted, RunsOnce, Runs, QueuesMatchState
  <2>4. /\ \A p \in Procs : state'[p] = "UNUSED" <=> state[p] = "UNUSED"
        /\ UNCHANGED <<ddVictim, suspendedReadyQueue>>
    BY <1>a, <1>9 DEF SemWaitBlock
  <2> QED
    BY <2>1, <2>2, <2>3, <2>4, ClientSeesNothing
<1>10. ASSUME NEW c \in CPUs, SemWaitRequested(c) PROVE UNCHANGED Client!vars
  <2>1. UNCHANGED waiting /\ \A t \in Sems : UnitsLeft(t)' = UnitsLeft(t)
    BY <1>a, <1>10 DEF SemWaitRequested, UnitsLeft, One
  <2>2. \A p \in Procs : InHands(p)' <=> InHands(p)
    BY <1>a, <1>10 DEF SemWaitRequested, InHands, Held
  <2>3. \A p \in Procs : Halted(p)' <=> Halted(p)
    BY <1>a, <1>b, <1>10 DEF SemWaitRequested, Halted, RunsOnce, Runs, QueuesMatchState
  <2>4. /\ \A p \in Procs : state'[p] = "UNUSED" <=> state[p] = "UNUSED"
        /\ UNCHANGED <<ddVictim, suspendedReadyQueue>>
    BY <1>a, <1>10 DEF SemWaitRequested
  <2> QED
    BY <2>1, <2>2, <2>3, <2>4, ClientSeesNothing
<1>11. ASSUME NEW c \in CPUs, TerminateDD(c) PROVE UNCHANGED Client!vars
  <2>1. UNCHANGED waiting /\ \A t \in Sems : UnitsLeft(t)' = UnitsLeft(t)
    BY <1>a, <1>11 DEF TerminateDD, UnitsLeft, One
  <2>2. \A p \in Procs : InHands(p)' <=> InHands(p)
    BY <1>a, <1>11 DEF TerminateDD, InHands, Held
  <2>3. \A p \in Procs : Halted(p)' <=> Halted(p)
    BY <1>a, <1>b, <1>11 DEF TerminateDD, Halted, RunsOnce, Runs, QueuesMatchState
  <2>4. /\ \A p \in Procs : state'[p] = "UNUSED" <=> state[p] = "UNUSED"
        /\ UNCHANGED <<ddVictim, suspendedReadyQueue>>
    BY <1>a, <1>11 DEF TerminateDD
  <2> QED
    BY <2>1, <2>2, <2>3, <2>4, ClientSeesNothing
<1>12. ASSUME DetectorWake PROVE UNCHANGED Client!vars
  <2>1. UNCHANGED waiting /\ \A t \in Sems : UnitsLeft(t)' = UnitsLeft(t)
    BY <1>a, <1>12 DEF DetectorWake, UnitsLeft, One
  <2>2. \A p \in Procs : InHands(p)' <=> InHands(p)
    BY <1>a, <1>12 DEF DetectorWake, InHands, Held
  <2>3. \A p \in Procs : Halted(p)' <=> Halted(p)
    BY <1>a, <1>b, <1>12 DEF DetectorWake, Halted, RunsOnce, Runs, QueuesMatchState
  <2>4. /\ \A p \in Procs : state'[p] = "UNUSED" <=> state[p] = "UNUSED"
        /\ UNCHANGED <<ddVictim, suspendedReadyQueue>>
    BY <1>a, <1>12 DEF DetectorWake
  <2> QED
    BY <2>1, <2>2, <2>3, <2>4, ClientSeesNothing
<1>13. ASSUME FindNone PROVE UNCHANGED Client!vars
  <2>1. UNCHANGED waiting /\ \A t \in Sems : UnitsLeft(t)' = UnitsLeft(t)
    BY <1>a, <1>13 DEF FindNone, UnitsLeft, One
  <2>2. \A p \in Procs : InHands(p)' <=> InHands(p)
    BY <1>a, <1>13 DEF FindNone, InHands, Held
  <2>3. \A p \in Procs : Halted(p)' <=> Halted(p)
    BY <1>a, <1>b, <1>13 DEF FindNone, Halted, RunsOnce, Runs, QueuesMatchState
  <2>4. /\ \A p \in Procs : state'[p] = "UNUSED" <=> state[p] = "UNUSED"
        /\ UNCHANGED <<ddVictim, suspendedReadyQueue>>
    BY <1>a, <1>13 DEF FindNone
  <2> QED
    BY <2>1, <2>2, <2>3, <2>4, ClientSeesNothing
<1>14. ASSUME FindNobody PROVE UNCHANGED Client!vars
  <2>1. UNCHANGED waiting /\ \A t \in Sems : UnitsLeft(t)' = UnitsLeft(t)
    BY <1>a, <1>14 DEF FindNobody, UnitsLeft, One, vars
  <2>2. \A p \in Procs : InHands(p)' <=> InHands(p)
    BY <1>a, <1>14 DEF FindNobody, InHands, Held, vars
  <2>3. \A p \in Procs : Halted(p)' <=> Halted(p)
    BY <1>a, <1>b, <1>14 DEF FindNobody, Halted, RunsOnce, Runs, QueuesMatchState, vars
  <2>4. /\ \A p \in Procs : state'[p] = "UNUSED" <=> state[p] = "UNUSED"
        /\ UNCHANGED <<ddVictim, suspendedReadyQueue>>
    BY <1>a, <1>14 DEF FindNobody, vars
  <2> QED
    BY <2>1, <2>2, <2>3, <2>4, ClientSeesNothing
<1>15. ASSUME KillNextSem PROVE UNCHANGED Client!vars
  <2>1. UNCHANGED waiting /\ \A t \in Sems : UnitsLeft(t)' = UnitsLeft(t)
    BY <1>a, <1>15 DEF KillNextSem, UnitsLeft, One
  <2>2. \A p \in Procs : InHands(p)' <=> InHands(p)
    BY <1>a, <1>15 DEF KillNextSem, InHands, Held
  <2>3. \A p \in Procs : Halted(p)' <=> Halted(p)
    BY <1>a, <1>b, <1>15 DEF KillNextSem, Halted, RunsOnce, Runs, QueuesMatchState
  <2>4. /\ \A p \in Procs : state'[p] = "UNUSED" <=> state[p] = "UNUSED"
        /\ UNCHANGED <<ddVictim, suspendedReadyQueue>>
    BY <1>a, <1>15 DEF KillNextSem
  <2> QED
    BY <2>1, <2>2, <2>3, <2>4, ClientSeesNothing
<1>16. ASSUME NEW c \in CPUs, NEW q \in Procs, Dispatch(c, q) PROVE UNCHANGED Client!vars
  <2>1. UNCHANGED waiting /\ \A t \in Sems : UnitsLeft(t)' = UnitsLeft(t)
    BY <1>a, <1>16 DEF Dispatch, UnitsLeft, One
  <2>2. \A p \in Procs : InHands(p)' <=> InHands(p)
    BY <1>a, <1>16 DEF Dispatch, InHands, Held
  <2>3. \A p \in Procs : Halted(p)' <=> Halted(p)
    BY <1>a, <1>b, <1>16 DEF Dispatch, Halted, RunsOnce, Runs, QueuesMatchState
  <2>4. /\ \A p \in Procs : state'[p] = "UNUSED" <=> state[p] = "UNUSED"
        /\ UNCHANGED <<ddVictim, suspendedReadyQueue>>
    BY <1>a, <1>16 DEF Dispatch
  <2> QED
    BY <2>1, <2>2, <2>3, <2>4, ClientSeesNothing
<1>17. ASSUME NEW q \in Procs, Suspend(q) PROVE UNCHANGED Client!vars
  <2>1. UNCHANGED waiting /\ \A t \in Sems : UnitsLeft(t)' = UnitsLeft(t)
    BY <1>a, <1>17 DEF Suspend, UnitsLeft, One
  <2>2. \A p \in Procs : InHands(p)' <=> InHands(p)
    BY <1>a, <1>17 DEF Suspend, InHands, Held
  <2>3. \A p \in Procs : Halted(p)' <=> Halted(p)
    BY <1>a, <1>b, <1>17 DEF Suspend, Halted, RunsOnce, Runs, QueuesMatchState
  <2>4. /\ \A p \in Procs : state'[p] = "UNUSED" <=> state[p] = "UNUSED"
        /\ UNCHANGED <<ddVictim, suspendedReadyQueue>>
    BY <1>a, <1>17 DEF Suspend
  <2> QED
    BY <2>1, <2>2, <2>3, <2>4, ClientSeesNothing
<1> QED
    BY <1>1, <1>2, <1>3, <1>4, <1>5, <1>6, <1>7, <1>8, <1>9, <1>10, <1>11, <1>12, <1>13, <1>14,
     <1>15, <1>16, <1>17

(* The kill loop takes one of the semaphores it has left. *)
LEMMA CurrentInTodo == TypeInv /\ ddTodo # {} => Current \in ddTodo /\ Current \in Sems
<1> SUFFICES ASSUME TypeInv, ddTodo # {} PROVE Current \in ddTodo /\ Current \in Sems
  OBVIOUS
<1>1. ddTodo \subseteq Nat /\ ddTodo \subseteq Sems
  BY SearchAssumption DEF SearchAssumption, TypeInv, TypeOK
<1>2. \E s \in ddTodo : \A t \in ddTodo : s <= t
  BY <1>1, MinMember
<1>3. Current \in ddTodo
  BY <1>2 DEF Current
<1> QED
  BY <1>1, <1>3

(* What a petition on a semaphore shows to a client. *)
LEMMA PetitionRefines ==
    ASSUME PlaceInv, PlaceInv', Running, NEW c \in CPUs, NEW s \in Sems
    PROVE  /\ SemWaitPass(c, s) => Client!Next
           /\ SemWaitEnqueue(c, s) => Client!Next
           /\ SemPost(c, s) => Client!Next
<1> USE DEF ddVars, semVars, semThreadVars, procVars, cpuVars, detectorVars, bounds, Alive
<1>a. /\ sem \in [Sems -> Nat] /\ semPc \in [Sems -> SemSteps]
      /\ semProc \in [Sems -> Procs \cup {NoProc}] /\ state \in [Procs -> States]
      /\ cpuPc \in [CPUs -> CPUSteps] /\ cpuProc \in [CPUs -> Procs \cup {NoProc}]
      /\ \A d \in CPUs : cpuPc[d] # "idle" => cpuProc[d] \in Procs
      /\ waiting \in [Sems -> Seq(Procs)]
  BY DEF PlaceInv, TypeInv, TypeOK, ThreadsHoldProcess
<1>b. RunsOnce /\ StoppedInside
  BY DEF PlaceInv, Places
<1>c. \A t \in Sems : UnitsLeft(t) = sem[t]
  BY <1>a DEF Running, UnitsLeft, One
<1>d. ASSUME NEW q \in Procs, q = cpuProc[c], cpuPc[c] = "run", Alive(q)
      PROVE  Status(q) = "running"
  <2>1. Runs(c, q) /\ state[q] = "EXEC" /\ \A d \in CPUs : Runs(d, q) => d = c
    BY <1>b, <1>d DEF RunsOnce, Runs
  <2>2. ~Stopped(q)
    BY <1>d, <2>1 DEF Stopped
  <2>3. ~Queued(q) /\ ~InHands(q)
    BY <1>b, <2>2 DEF StoppedInside, Queued, InHands
  <2>4. ~Halted(q)
    BY <1>d, <2>1 DEF Halted, Runs
  <2> QED
    BY <2>1, <2>3, <2>4, StatusOfPlace
<1>1. ASSUME SemWaitPass(c, s) PROVE Client!Next
  <2>1. PICK q \in Procs : q = cpuProc[c] /\ cpuPc[c] = "run" /\ Alive(q)
    BY <1>a, <1>1 DEF SemWaitPass, Petition
  <2>2. Status(q) = "running"
    BY <1>d, <2>1
  <2>3. /\ UnitsLeft(s) > 0
        /\ \A t \in Sems : UnitsLeft(t)' = IF t = s THEN UnitsLeft(s) - 1 ELSE UnitsLeft(t)
    BY <1>a, <1>c, <1>1 DEF SemWaitPass, MateSemTake, UnitsLeft, One, Running
  <2>4. [t \in Sems |-> UnitsLeft(t)]'
           = [[t \in Sems |-> UnitsLeft(t)] EXCEPT ![s] = UnitsLeft(s) - 1]
    BY <2>3, UnitsOfOne
  <2>5. [p \in Procs |-> Status(p)]' = [p \in Procs |-> Status(p)]
    <3>1. \A p \in Procs : /\ InHands(p)' <=> InHands(p)
                           /\ Halted(p)' <=> Halted(p)
                           /\ state'[p] = "UNUSED" <=> state[p] = "UNUSED"
      BY <1>a, <1>1, <2>1 DEF SemWaitPass, Petition, MateSemTake, InHands, Held, Halted
    <3>2. UNCHANGED <<ddVictim, suspendedReadyQueue, waiting>>
      BY <1>1 DEF SemWaitPass, Petition, MateSemTake
    <3> QED
      BY <3>1, <3>2, StatusesKept
  <2>6. Client!Pass(q, s)
    <3>1. UNCHANGED waiting
      BY <1>1 DEF SemWaitPass, Petition, MateSemTake
    <3> QED
      BY <2>2, <2>3, <2>4, <2>5, <3>1 DEF Client!Pass
  <2> QED
    BY <2>6 DEF Client!Next
<1>2. ASSUME SemWaitEnqueue(c, s) PROVE Client!Next
  <2>1. PICK q \in Procs : q = cpuProc[c] /\ cpuPc[c] = "run" /\ Alive(q)
    BY <1>a, <1>2 DEF SemWaitEnqueue, Petition
  <2>2. Status(q) = "running"
    BY <1>d, <2>1
  <2>3. UnitsLeft(s) = 0 /\ \A t \in Sems : UnitsLeft(t)' = UnitsLeft(t)
    BY <1>a, <1>c, <1>2 DEF SemWaitEnqueue, MateSemEnqueue, UnitsLeft, One, Running
  <2>4. waiting' = [waiting EXCEPT ![s] = Append(waiting[s], q)]
    BY <1>2, <2>1 DEF SemWaitEnqueue, MateSemEnqueue
  <2>5. \A p \in Procs : Queued(p)' <=> Queued(p) \/ p = q
    <3>1. Range(Append(waiting[s], q)) = Range(waiting[s]) \cup {q}
      BY <1>a, AppendRange
    <3>2. \A t \in Sems : waiting'[t] = IF t = s THEN Append(waiting[s], q) ELSE waiting[t]
      BY <1>a, <2>4
    <3>3. ASSUME NEW p \in Procs, NEW t \in Sems
          PROVE  Waiting(p, t)' <=> Waiting(p, t) \/ (p = q /\ t = s)
      BY <3>1, <3>2 DEF Waiting
    <3> QED
      BY <3>3 DEF Queued
  <2>6. /\ \A p \in Procs : /\ InHands(p)' <=> InHands(p)
                            /\ p # q => (Halted(p)' <=> Halted(p))
                            /\ state'[p] = "UNUSED" <=> state[p] = "UNUSED"
        /\ UNCHANGED <<ddVictim, suspendedReadyQueue>>
    BY <1>a, <1>2, <2>1 DEF SemWaitEnqueue, Petition, MateSemEnqueue, InHands, Held, Halted
  <2>7. Status(q)' = "waiting" /\ \A p \in Procs : p # q => Status(p)' = Status(p)
    BY <2>5, <2>6, StatusOfPlace, StatusOfPlaceNext
  <2>8. [p \in Procs |-> Status(p)]' = [[p \in Procs |-> Status(p)] EXCEPT ![q] = "waiting"]
    <3>1. \A p \in Procs : Status(p)' = IF p = q THEN "waiting" ELSE Status(p)
      BY <2>7
    <3> QED
      BY <3>1
  <2>9. [t \in Sems |-> UnitsLeft(t)]' = [t \in Sems |-> UnitsLeft(t)]
    BY <2>3
  <2>10. Client!Wait(q, s)
    BY <2>2, <2>3, <2>4, <2>8, <2>9 DEF Client!Wait
  <2> QED
    BY <2>10 DEF Client!Next
<1>3. ASSUME SemPost(c, s) PROVE Client!Next
  <2>1. /\ UNCHANGED <<waiting, semProc, state, cpuProc, ddVictim, suspendedReadyQueue>>
        /\ cpuPc[c] = "run" /\ \A d \in CPUs : cpuPc'[d] = IF d = c THEN "release" ELSE cpuPc[d]
        /\ \A t \in Sems : \/ semPc'[t] = semPc[t]
                           \/ semPc[t] = "waiting" /\ semPc'[t] = "check"
        /\ \A t \in Sems : sem'[t] = IF t = s THEN sem[s] + 1 ELSE sem[t]
    BY <1>a, <1>3 DEF SemPost, Petition, MateSemPost
  <2>2. \A t \in Sems : UnitsLeft(t)' = IF t = s THEN UnitsLeft(s) + 1 ELSE UnitsLeft(t)
    BY <1>a, <2>1 DEF UnitsLeft, One
  <2>3. \A p \in Procs : /\ InHands(p)' <=> InHands(p)
                         /\ Halted(p)' <=> Halted(p)
                         /\ state'[p] = "UNUSED" <=> state[p] = "UNUSED"
    BY <2>1 DEF InHands, Held, Halted
  <2>4. Client!Post(s)
    BY <2>1, <2>2, <2>3, StatusesKept, UnitsOfOne DEF Client!Post
  <2> QED
    BY <2>4 DEF Client!Next
<1> QED
  BY <1>1, <1>2, <1>3

(* What the thread of a semaphore shows to a client: it takes a unit for the first in the
   queue, and later lets the process go on. *)
LEMMA HandOverRefines ==
    ASSUME PlaceInv, PlaceInv', Running, NEW s \in Sems
    PROVE  /\ SemTake(s) => Client!Next
           /\ SemIsSuspended(s) => [Client!Next]_Client!vars
           /\ SemPutToReady(s) => [Client!Next]_Client!vars
           /\ SemPutSuspendedReady(s) => [Client!Next]_Client!vars
<1> USE DEF ddVars, semVars, semThreadVars, procVars, cpuVars, detectorVars, bounds, Alive
<1>a. /\ sem \in [Sems -> Nat] /\ semPc \in [Sems -> SemSteps]
      /\ semProc \in [Sems -> Procs \cup {NoProc}] /\ state \in [Procs -> States]
      /\ waiting \in [Sems -> Seq(Procs)]
      /\ \A t \in Sems : semPc[t] = "take" => sem[t] > 0
      /\ \A t \in Sems : semPc[t] \notin {"check", "waiting", "take", "null"}
                            => semProc[t] \in Procs
  BY DEF PlaceInv, TypeInv, TypeOK, ThreadsHoldProcess, UnitKept, Locked
<1>b. RunsOnce /\ WaitsOnce /\ HeldOnce /\ StoppedInside /\ StateSeen /\ QueuesMatchState
  BY DEF PlaceInv, Places
<1>c. \A t \in Sems : UnitsLeft(t) = sem[t]
  BY <1>a DEF Running, UnitsLeft, One
<1>1. ASSUME SemTake(s) PROVE Client!Next
  <2>1. PICK u \in Seq(Procs) : u = waiting[s] /\ u # <<>> /\ IsInjective(u)
    BY <1>a, <1>b, <1>1 DEF SemTake, WaitsOnce
  <2>2. PICK q \in Procs, w \in Seq(Procs) :
           /\ q = Head(u) /\ w = Tail(u)
           /\ Range(u) = Range(w) \cup {q} /\ q \notin Range(w)
    BY <2>1, HeadTailRange
  <2>3. /\ waiting' = [waiting EXCEPT ![s] = w] /\ semPc[s] = "take"
        /\ \A t \in Sems : semPc'[t] = IF t = s THEN "isBlocked" ELSE semPc[t]
        /\ \A t \in Sems : semProc'[t] = IF t = s THEN q ELSE semProc[t]
        /\ \A t \in Sems : sem'[t] = IF t = s THEN sem[s] - 1 ELSE sem[t]
        /\ UNCHANGED <<state, suspendedReadyQueue, cpuPc, cpuProc, ddVictim>>
    BY <1>a, <1>1, <2>1, <2>2 DEF SemTake
  <2>4. UnitsLeft(s) > 0
        /\ \A t \in Sems : UnitsLeft(t)' = IF t = s THEN UnitsLeft(s) - 1 ELSE UnitsLeft(t)
    BY <1>a, <1>c, <2>3 DEF UnitsLeft, One, Running
  <2>5. \A t \in Sems, p \in Procs : Waiting(p, t)' <=> Waiting(p, t) /\ ~(t = s /\ p = q)
    <3>1. ASSUME NEW t \in Sems, NEW p \in Procs
          PROVE  Waiting(p, t)' <=> Waiting(p, t) /\ ~(t = s /\ p = q)
      <4>1. waiting'[t] = IF t = s THEN w ELSE waiting[t]
        BY <1>a, <2>3
      <4> QED
        BY <2>1, <2>2, <4>1 DEF Waiting
    <3> QED
      BY <3>1
  <2>6. \A t \in Sems : Waiting(q, t) <=> t = s
    BY <1>b, <2>1, <2>2 DEF WaitsOnce, Waiting
  <2>7. Status(q)' = "granted"
    <3>1. ~Queued(q)'
      BY <2>5, <2>6 DEF Queued
    <3>2. InHands(q)'
      BY <2>3 DEF InHands, Held
    <3> QED
      BY <3>1, <3>2, StatusOfPlaceNext
  <2>8. ASSUME NEW p \in Procs, p # q PROVE Status(p)' = Status(p)
    <3>1. Queued(p)' <=> Queued(p)
      BY <2>5, <2>8 DEF Queued
    <3>2. InHands(p)' <=> InHands(p)
      BY <2>3, <2>8 DEF InHands, Held
    <3>3. Halted(p)' <=> Halted(p)
      BY <2>3 DEF Halted
    <3> QED
      BY <2>3, <3>1, <3>2, <3>3, StatusOfPlace, StatusOfPlaceNext
  <2>9. [p \in Procs |-> Status(p)]' = [[p \in Procs |-> Status(p)] EXCEPT ![q] = "granted"]
    <3>1. \A p \in Procs : Status(p)' = IF p = q THEN "granted" ELSE Status(p)
      BY <2>7, <2>8
    <3> QED
      BY <3>1
  <2>10. [t \in Sems |-> UnitsLeft(t)]'
            = [[t \in Sems |-> UnitsLeft(t)] EXCEPT ![s] = UnitsLeft(s) - 1]
    BY <2>4, UnitsOfOne
  <2>11. Client!Grant(s)
    BY <2>1, <2>2, <2>3, <2>4, <2>9, <2>10 DEF Client!Grant
  <2> QED
    BY <2>11 DEF Client!Next
<1>2. ASSUME NEW q \in Procs, q = semProc[s], semPc[s] \in {"isSuspended", "ready", "suspReady"},
             UNCHANGED <<sem, waiting, semProc, cpuPc, cpuProc, ddVictim>>,
             \A t \in Sems : t # s => semPc'[t] = semPc[t],
             semPc'[s] \in {"suspReady", "allocated"},
             \A p \in Procs : p # q => state'[p] = state[p]
                                       /\ (p \in suspendedReadyQueue' <=> p \in suspendedReadyQueue)
      PROVE  /\ UNCHANGED waiting
             /\ \A t \in Sems : UnitsLeft(t)' = UnitsLeft(t)
             /\ \A p \in Procs \ {q} : Status(p)' = Status(p)
             /\ Status(q) = "granted" /\ ~Queued(q)'
             /\ semPc'[s] = "allocated" => ~InHands(q)'
  <2>1. Held(q, s) /\ ~Queued(q) /\ \A t \in Sems : Held(q, t) => t = s
    BY <1>b, <1>2 DEF Held, HeldOnce, Queued
  <2>2. \A p \in Procs : Queued(p)' <=> Queued(p)
    BY <1>2 DEF Queued, Waiting
  <2>3. ASSUME NEW p \in Procs, p # q PROVE Status(p)' = Status(p)
    <3>1. InHands(p)' <=> InHands(p)
      BY <1>2, <2>3 DEF InHands, Held
    <3>2. Halted(p)' <=> Halted(p)
      BY <1>2, <2>3 DEF Halted
    <3> QED
      BY <1>2, <2>2, <2>3, <3>1, <3>2, StatusOfPlace, StatusOfPlaceNext
  <2>4. \A t \in Sems : UnitsLeft(t)' = UnitsLeft(t)
    BY <1>2 DEF UnitsLeft, One
  <2>5. Status(q) = "granted"
    BY <2>1, StatusOfPlace DEF InHands
  <2>6. semPc'[s] = "allocated" => ~InHands(q)'
    BY <1>2, <2>1 DEF InHands, Held
  <2> QED
    BY <1>2, <2>1, <2>2, <2>3, <2>4, <2>5, <2>6
<1>3. ASSUME SemIsSuspended(s) PROVE [Client!Next]_Client!vars
  <2>1. PICK q \in Procs : q = semProc[s] /\ semPc[s] = "isSuspended" /\ state[q] # "UNUSED"
    BY <1>a, <1>3 DEF SemIsSuspended
  <2>2. /\ UNCHANGED <<sem, waiting, semProc, cpuPc, cpuProc, ddVictim, state,
                       suspendedReadyQueue>>
        /\ \A t \in Sems : t # s => semPc'[t] = semPc[t]
        /\ semPc'[s] \in {"suspReady", "allocated"}
    BY <1>a, <1>3 DEF SemIsSuspended
  <2>3. /\ \A t \in Sems : UnitsLeft(t)' = UnitsLeft(t)
        /\ \A p \in Procs \ {q} : Status(p)' = Status(p)
        /\ Status(q) = "granted" /\ ~Queued(q)'
    BY <1>2, <2>1, <2>2
  <2>4. Status(q)' \in {"granted", "running", "ended"}
    BY <2>3, StatusOfPlaceNext
  <2> QED
    BY <2>2, <2>3, <2>4, ClientSeesOne
<1>4. ASSUME SemPutToReady(s) PROVE [Client!Next]_Client!vars
  <2>1. PICK q \in Procs : q = semProc[s] /\ semPc[s] = "ready"
    BY <1>a, <1>4 DEF SemPutToReady
  <2>2. /\ UNCHANGED <<sem, waiting, semProc, cpuPc, cpuProc, ddVictim, suspendedReadyQueue>>
        /\ \A t \in Sems : t # s => semPc'[t] = semPc[t]
        /\ semPc'[s] = "allocated"
        /\ \A p \in Procs : p # q => state'[p] = state[p]
    BY <1>a, <1>4, <2>1 DEF SemPutToReady
  <2>3. /\ \A t \in Sems : UnitsLeft(t)' = UnitsLeft(t)
        /\ \A p \in Procs \ {q} : Status(p)' = Status(p)
        /\ Status(q) = "granted" /\ ~Queued(q)'
    BY <1>2, <2>1, <2>2
  <2>4. Status(q)' \in {"granted", "running", "ended"}
    BY <2>3, StatusOfPlaceNext
  <2> QED
    BY <2>2, <2>3, <2>4, ClientSeesOne
<1>5. ASSUME SemPutSuspendedReady(s) PROVE [Client!Next]_Client!vars
  <2>1. PICK q \in Procs : q = semProc[s] /\ semPc[s] = "suspReady"
    BY <1>a, <1>5 DEF SemPutSuspendedReady
  <2>2. /\ UNCHANGED <<sem, waiting, semProc, cpuPc, cpuProc, ddVictim, state>>
        /\ \A t \in Sems : t # s => semPc'[t] = semPc[t]
        /\ semPc'[s] = "allocated"
        /\ \A p \in Procs : p # q => (p \in suspendedReadyQueue' <=> p \in suspendedReadyQueue)
    BY <1>a, <1>5, <2>1 DEF SemPutSuspendedReady
  <2>3. /\ \A t \in Sems : UnitsLeft(t)' = UnitsLeft(t)
        /\ \A p \in Procs \ {q} : Status(p)' = Status(p)
        /\ Status(q) = "granted" /\ ~Queued(q)'
    BY <1>2, <2>1, <2>2
  <2>4. Status(q)' \in {"granted", "running", "ended"}
    BY <2>3, StatusOfPlaceNext
  <2> QED
    BY <2>2, <2>3, <2>4, ClientSeesOne
<1> QED
  BY <1>1, <1>3, <1>4, <1>5

(* A client takes a process out of its queue as the kernel does. *)
LEMMA ClientRemovesFirst == \A u, v : Client!RemoveFirst(u, v) = RemoveFirst(u, v)
BY Zenon DEF Client!RemoveFirst, RemoveFirst, Client!RemoveAt, RemoveAt,
   Client!SelectInSeq, SelectInSeq, Client!Min, Min

(* What the detector shows to a client: the victim ends, out of the queue it waits in, and
   its units are posted. *)
LEMMA DetectorRefines ==
    ASSUME PlaceInv, PlaceInv', Running
    PROVE  FindVictim \/ KillWithdraw \/ KillPost \/ KillDestroy => [Client!Next]_Client!vars
<1> USE DEF ddVars, semVars, semThreadVars, procVars, cpuVars, detectorVars, bounds, Alive
<1>a. /\ sem \in [Sems -> Nat] /\ semPc \in [Sems -> SemSteps]
      /\ state \in [Procs -> States] /\ waiting \in [Sems -> Seq(Procs)]
      /\ ddProcs \subseteq Procs /\ (ddPc = "kill" => ddVictim \in Procs)
  BY DEF PlaceInv, TypeInv, TypeOK, ThreadsHoldProcess
<1>b. WaitsOnce /\ HeldOnce /\ StoppedInside /\ QueuesMatchState /\ RunsOnce
  BY DEF PlaceInv, Places
<1>1. CASE FindVictim
  <2>1. PICK v \in Procs : v = ddVictim'
    BY <1>a, <1>1 DEF FindVictim, Victims, Stuck
  <2>2. ddVictim = NoProc /\ NoProc \notin Procs
    BY <1>1, SemaphoresAssumption
       DEF FindVictim, PlaceInv, VictimKept, SemaphoresAssumption
  <2>3. UNCHANGED <<sem, waiting, semPc, semProc, state, suspendedReadyQueue, cpuPc, cpuProc>>
    BY <1>1 DEF FindVictim
  <2>4. /\ \A t \in Sems : UnitsLeft(t)' = UnitsLeft(t)
        /\ \A p \in Procs : /\ Queued(p)' <=> Queued(p)
                            /\ InHands(p)' <=> InHands(p)
                            /\ Halted(p)' <=> Halted(p)
    BY <2>3 DEF UnitsLeft, Queued, Waiting, InHands, Held, Halted
  <2>5. \A p \in Procs \ {v} : Status(p)' = Status(p)
    BY <2>1, <2>2, <2>3, <2>4, StatusOfPlace, StatusOfPlaceNext
  <2>6. Status(v)' = Status(v) \/ (Status(v) = "granted" /\ Status(v)' = "ended")
    BY <2>1, <2>2, <2>3, <2>4, StatusOfPlace, StatusOfPlaceNext
  <2> QED
    BY <2>3, <2>4, <2>5, <2>6, ClientSeesOne
<1>2. CASE KillWithdraw
  <2>1. PICK v \in Procs, s \in Sems : v = ddVictim /\ s = Current
    BY <1>a, <1>2, CurrentInTodo DEF KillWithdraw, PlaceInv
  <2>2. /\ waiting' = [waiting EXCEPT ![s] = RemoveFirst(waiting[s], v)]
        /\ UNCHANGED <<sem, semPc, semProc, state, suspendedReadyQueue, cpuPc, cpuProc, ddVictim>>
    BY <1>2, <2>1 DEF KillWithdraw
  <2>3. /\ \A t \in Sems : UnitsLeft(t)' = UnitsLeft(t)
        /\ \A p \in Procs : /\ InHands(p)' <=> InHands(p)
                            /\ Halted(p)' <=> Halted(p)
    BY <2>2 DEF UnitsLeft, InHands, Held, Halted
  <2>4. \A t \in Sems, p \in Procs : Waiting(p, t)' <=> Waiting(p, t) /\ ~(t = s /\ p = v)
    <3>1. Range(RemoveFirst(waiting[s], v)) = Range(waiting[s]) \ {v}
      BY <1>a, <1>b, RemoveFirstRange DEF WaitsOnce
    <3>2. \A t \in Sems : waiting'[t] = IF t = s THEN RemoveFirst(waiting[s], v) ELSE waiting[t]
      BY <1>a, <2>2
    <3> QED
      BY <3>1, <3>2 DEF Waiting
  <2>5. [t \in Sems |-> UnitsLeft(t)]' = [t \in Sems |-> UnitsLeft(t)]
    BY <2>3
  <2>6. \A p \in Procs : p # v => Status(p)' = Status(p)
    <3>1. \A p \in Procs : p # v => (Queued(p)' <=> Queued(p))
      BY <2>4 DEF Queued
    <3> QED
      BY <2>2, <2>3, <3>1, StatusOfPlace, StatusOfPlaceNext
  <2>7. CASE Waiting(v, s)
    <3>1. \A t \in Sems : Waiting(v, t) => t = s
      BY <1>b, <2>7 DEF WaitsOnce
    <3>2. ~Queued(v)' /\ Queued(v)
      BY <2>4, <2>7, <3>1 DEF Queued
    <3>3. ~InHands(v) /\ Stopped(v)
      BY <1>b, <2>7 DEF HeldOnce, StoppedInside, InHands
    <3>4. v \notin suspendedReadyQueue /\ (Halted(v) \/ state[v] = "UNUSED")
      <4>1. CASE state[v] = "EXEC"
        BY <3>3, <4>1 DEF Stopped, Halted, Runs
      <4>2. CASE state[v] # "EXEC"
        BY <1>a, <3>3, <4>2 DEF Stopped, Halted
      <4> QED
        BY <3>3, <4>1, <4>2 DEF Stopped
    <3>5. Status(v) = "waiting" /\ Status(v)' = "ended"
      BY <2>1, <2>2, <2>3, <3>2, <3>3, <3>4, StatusOfPlace, StatusOfPlaceNext
    <3>6. [p \in Procs |-> Status(p)]' = [[p \in Procs |-> Status(p)] EXCEPT ![v] = "ended"]
      <4>1. \A p \in Procs : Status(p)' = IF p = v THEN "ended" ELSE Status(p)
        BY <2>6, <3>5
      <4> QED
        BY <4>1
    <3>7. Client!Cancel(v, s)
      <4>1. Client!RemoveFirst(waiting[s], v) = RemoveFirst(waiting[s], v)
        BY ClientRemovesFirst
      <4> QED
        BY <2>2, <2>5, <3>5, <3>6, <4>1 DEF Client!Cancel
    <3> QED
      BY <3>7 DEF Client!Next
  <2>8. CASE ~Waiting(v, s)
    <3>1. waiting' = waiting
      <4>1. RemoveFirst(waiting[s], v) = waiting[s]
        BY <1>a, <2>8, LenProperties DEF RemoveFirst, Waiting, Range
      <4> QED
        BY <1>a, <2>2, <4>1
    <3>2. Status(v)' = Status(v)
      BY <2>2, <2>3, <3>1, StatusOfPlace, StatusOfPlaceNext DEF Queued, Waiting
    <3> QED
      BY <2>3, <2>6, <3>1, <3>2, ClientSeesOne
  <2> QED
    BY <2>7, <2>8
<1>3. CASE KillPost
  <2>1. PICK s \in Sems : s = Current
    BY <1>3, CurrentInTodo DEF KillPost, PlaceInv
  <2>2. /\ UNCHANGED <<waiting, semProc, state, cpuPc, cpuProc, ddVictim, suspendedReadyQueue>>
        /\ \A t \in Sems : \/ semPc'[t] = semPc[t]
                           \/ semPc[t] = "waiting" /\ semPc'[t] = "check"
        /\ \A t \in Sems : sem'[t] = IF t = s THEN sem[s] + 1 ELSE sem[t]
    BY <1>a, <1>3, <2>1 DEF KillPost, MateSemPost
  <2>3. \A t \in Sems : UnitsLeft(t)' = IF t = s THEN UnitsLeft(s) + 1 ELSE UnitsLeft(t)
    BY <1>a, <2>2 DEF UnitsLeft, One
  <2>4. \A p \in Procs : /\ InHands(p)' <=> InHands(p)
                         /\ Halted(p)' <=> Halted(p)
                         /\ state'[p] = "UNUSED" <=> state[p] = "UNUSED"
    BY <2>2 DEF InHands, Held, Halted
  <2>5. Client!Post(s)
    BY <2>2, <2>3, <2>4, StatusesKept, UnitsOfOne DEF Client!Post
  <2> QED
    BY <2>5 DEF Client!Next
<1>4. CASE KillDestroy
  <2>1. PICK v \in Procs : v = ddVictim
    BY <1>a, <1>4 DEF KillDestroy
  <2>2. /\ UNCHANGED <<sem, waiting, semPc, semProc, suspendedReadyQueue, cpuPc, cpuProc>>
        /\ state'[v] = "UNUSED" /\ ddVictim' = NoProc
        /\ \A p \in Procs : p # v => state'[p] = state[p]
    BY <1>a, <1>4, <2>1 DEF KillDestroy
  <2>3. /\ \A t \in Sems : UnitsLeft(t)' = UnitsLeft(t)
        /\ \A p \in Procs : /\ Queued(p)' <=> Queued(p)
                            /\ InHands(p)' <=> InHands(p)
                            /\ p # v => (Halted(p)' <=> Halted(p))
    BY <2>2 DEF UnitsLeft, Queued, Waiting, InHands, Held, Halted
  <2>4. \A p \in Procs \ {v} : Status(p)' = Status(p)
    <3>1. NoProc \notin Procs
      BY SemaphoresAssumption DEF SemaphoresAssumption
    <3> QED
      BY <2>1, <2>2, <2>3, <3>1, StatusOfPlace, StatusOfPlaceNext
  <2>5. \/ Status(v)' = Status(v)
        \/ Status(v) \in {"running", "granted"} /\ Status(v)' = "ended"
    BY <2>2, <2>3, StatusOfPlace, StatusOfPlaceNext
  <2> QED
    BY <2>2, <2>3, <2>4, <2>5, ClientSeesOne
<1> QED
  BY <1>1, <1>2, <1>3, <1>4

(* A process that ends is seen to end, and one that comes back from the suspension to go on. *)
LEMMA EndAndResumeRefine ==
    ASSUME PlaceInv, PlaceInv', Running
    PROVE  /\ \A c \in CPUs : TerminateDestroy(c) => [Client!Next]_Client!vars
           /\ \A q \in Procs : Unsuspend(q) => [Client!Next]_Client!vars
<1> USE DEF ddVars, semVars, semThreadVars, procVars, cpuVars, detectorVars, bounds, Alive
<1>a. /\ state \in [Procs -> States]
      /\ cpuPc \in [CPUs -> CPUSteps] /\ cpuProc \in [CPUs -> Procs \cup {NoProc}]
      /\ \A c \in CPUs : cpuPc[c] # "idle" => cpuProc[c] \in Procs
  BY DEF PlaceInv, TypeInv, TypeOK, ThreadsHoldProcess
<1>b. StoppedInside /\ QueuesMatchState /\ RunsOnce
  BY DEF PlaceInv, Places
<1>1. ASSUME NEW c \in CPUs, TerminateDestroy(c) PROVE [Client!Next]_Client!vars
  <2>1. PICK q \in Procs : q = cpuProc[c] /\ cpuPc[c] = "destroy"
    BY <1>a, <1>1 DEF TerminateDestroy
  <2>2. /\ UNCHANGED <<sem, waiting, semPc, semProc, suspendedReadyQueue, ddVictim>>
        /\ state'[q] = "UNUSED" /\ \A p \in Procs : p # q => state'[p] = state[p]
        /\ \A d \in CPUs : d # c => cpuPc'[d] = cpuPc[d] /\ cpuProc'[d] = cpuProc[d]
        /\ cpuPc'[c] = "idle"
    BY <1>a, <1>1, <2>1 DEF TerminateDestroy
  <2>3. /\ \A t \in Sems : UnitsLeft(t)' = UnitsLeft(t)
        /\ \A p \in Procs : /\ Queued(p)' <=> Queued(p)
                            /\ InHands(p)' <=> InHands(p)
    BY <2>2 DEF UnitsLeft, Queued, Waiting, InHands, Held
  <2>4. ASSUME NEW p \in Procs, p # q PROVE Halted(p)' <=> Halted(p)
    BY <2>1, <2>2, <2>4 DEF Halted
  <2>5. \A p \in Procs \ {q} : Status(p)' = Status(p)
    BY <2>2, <2>3, <2>4, StatusOfPlace, StatusOfPlaceNext
  <2>6. \/ Status(q)' = Status(q)
        \/ Status(q) \in {"running", "granted"} /\ Status(q)' = "ended"
    BY <2>2, <2>3, StatusOfPlace, StatusOfPlaceNext
  <2> QED
    BY <2>2, <2>3, <2>5, <2>6, ClientSeesOne
<1>2. ASSUME NEW q \in Procs, Unsuspend(q) PROVE [Client!Next]_Client!vars
  <2>1. /\ UNCHANGED <<sem, waiting, semPc, semProc, cpuPc, cpuProc, ddVictim>>
        /\ q \in suspendedReadyQueue /\ suspendedReadyQueue' = suspendedReadyQueue \ {q}
        /\ state'[q] = "READY" /\ \A p \in Procs : p # q => state'[p] = state[p]
        /\ state[q] = "SUSP_BLOCKED"
    BY <1>a, <1>b, <1>2 DEF Unsuspend, QueuesMatchState
  <2>2. /\ \A t \in Sems : UnitsLeft(t)' = UnitsLeft(t)
        /\ \A p \in Procs : /\ Queued(p)' <=> Queued(p)
                            /\ InHands(p)' <=> InHands(p)
                            /\ p # q => (Halted(p)' <=> Halted(p))
    BY <2>1 DEF UnitsLeft, Queued, Waiting, InHands, Held, Halted
  <2>3. \A p \in Procs \ {q} : Status(p)' = Status(p)
    BY <2>1, <2>2, StatusOfPlace, StatusOfPlaceNext
  <2>4. ~Queued(q) /\ ~InHands(q)
    BY <1>b, <2>1 DEF StoppedInside, Stopped, Queued, InHands
  <2>5. Halted(q) /\ ~Halted(q)'
    BY <1>b, <2>1 DEF Halted, RunsOnce, Runs
  <2>6. Status(q) = "granted" /\ Status(q)' = "running"
    BY <2>1, <2>2, <2>4, <2>5, StatusOfPlace, StatusOfPlaceNext
  <2> QED
    BY <2>1, <2>2, <2>3, <2>6, ClientSeesOne
<1> QED
  BY <1>1, <1>2

(* Every step of the threads is one a client may see, or none. *)
LEMMA StepRefines ==
    ASSUME PlaceInv, PlaceInv', [Next]_vars
    PROVE  [Client!Next]_Client!vars
<1>1. CASE UNCHANGED vars
  <2>1. \A t \in Sems : UnitsLeft(t)' = UnitsLeft(t)
    BY <1>1 DEF vars, semVars, semThreadVars, UnitsLeft
  <2>2. \A p \in Procs : /\ InHands(p)' <=> InHands(p)
                         /\ Halted(p)' <=> Halted(p)
    BY <1>1 DEF vars, semThreadVars, procVars, cpuVars, InHands, Held, Halted
  <2>3. UNCHANGED <<waiting, state, ddVictim, suspendedReadyQueue>>
    BY <1>1 DEF vars, semVars, procVars, detectorVars
  <2> QED
    BY <2>1, <2>2, <2>3, ClientSeesNothing
<1>2. CASE Next
  <2>1. Running
    BY <1>2 DEF Next
  <2>2. ASSUME NEW s \in Sems, SemThread(s) PROVE [Client!Next]_Client!vars
    BY <2>1, <2>2, UnseenSteps, HandOverRefines DEF SemThread
  <2>3. ASSUME NEW c \in CPUs, CPUThread(c) PROVE [Client!Next]_Client!vars
    BY <2>1, <2>3, UnseenSteps, PetitionRefines, EndAndResumeRefine DEF CPUThread
  <2>4. CASE Detector
    BY <2>1, <2>4, UnseenSteps, DetectorRefines DEF Detector
  <2>5. CASE SchedulerStep
    BY <2>1, <2>5, UnseenSteps, EndAndResumeRefine DEF SchedulerStep
  <2> QED
    BY <1>2, <2>2, <2>3, <2>4, <2>5 DEF Next
<1> QED
  BY <1>1, <1>2

(* The processes begin running, and each semaphore with its value. *)
LEMMA InitRefines == PlaceInv /\ Init => Client!Init
<1> SUFFICES ASSUME PlaceInv, Init PROVE Client!Init
  OBVIOUS
<1>1. \A s \in Sems : UnitsLeft(s) = InitialValue[s] /\ waiting[s] = <<>>
  BY SemaphoresAssumption DEF SemaphoresAssumption, Init, UnitsLeft, One
<1>2. [s \in Sems |-> UnitsLeft(s)] = InitialValue
  BY <1>1, SemaphoresAssumption DEF SemaphoresAssumption
<1>3. \A p \in Procs : Status(p) = "running"
  <2>1. ASSUME NEW p \in Procs PROVE ~Queued(p) /\ ~InHands(p)
    BY DEF Init, PlaceInv, Places, StoppedInside, Stopped, Queued, InHands
  <2>2. ASSUME NEW p \in Procs PROVE ~Halted(p) /\ state[p] = "READY"
    BY DEF Init, Halted
  <2> QED
    BY <2>1, <2>2, StatusOfPlace
<1>4. [p \in Procs |-> Status(p)] = [p \in Procs |-> "running"]
  BY <1>3
<1> QED
  BY <1>2, <1>4 DEF Init, Client!Init

(* A process is in one place: on one CPU, in one queue of a semaphore or in the hands of one
   thread, and it does not run while it waits (semWait of kernel/src/petitionHandlers.c
   queues it before it is BLOCKED, and thread_semFunc may take it before that). *)
THEOREM SemaphoresPlaces == Spec => []Places
<1>1. PlaceInv => Places
  BY DEF PlaceInv
<1> QED
  BY <1>1, PlaceInit, PlaceStep, PTL DEF Spec

(* To its clients the kernel's semaphore is a counting semaphore: a process that waits goes on
   only with a unit of its own, in order of arrival, and units come only from posts. *)
THEOREM SemaphoresImplementCountingSem == Spec => ImplementsCountingSem
<1>1. Init => Client!Init
  BY PlaceInit, InitRefines
<1>2. PlaceInv /\ PlaceInv' /\ [Next]_vars => [Client!Next]_Client!vars
  BY StepRefines
<1>3. Spec => []PlaceInv
  BY PlaceInit, PlaceStep, PTL DEF Spec
<1> QED
  BY <1>1, <1>2, <1>3, PTL DEF Spec, ImplementsCountingSem, Client!Spec

-----------------------------------------------------------------------------
(* The detector on the matrices the threads leave *)

(* The detector terminates only processes that wait for themselves through others, whatever
   part of a wait or of a post its matrices have been told of when it searches. *)
THEOREM SemaphoresVictimsInCycle == Spec => []VictimsInCycle
<1>1. TypeOK => Matrices
  BY DEF TypeOK, Matrices
<1> QED
  BY <1>1, SemaphoresTypes, SearchVictimsInCycle, PTL

=============================================================================
