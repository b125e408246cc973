------------------------ MODULE DeadlockSearchProofs ------------------------
(***************************************************************************)
(* Proofs about the search of findDeadlocks, for any number of processes   *)
(* and semaphores and any matrices.                                        *)
(***************************************************************************)
EXTENDS DeadlockSearch, CommonLemmas

\* A unit may be counted as taken before it is counted as released or as requested, so that
\* what is available and what a process requests may be below zero for a moment
Matrices ==
    /\ ddProcs \subseteq Procs
    /\ available \in [Sems -> Int]
    /\ allocation \in [Procs -> [Sems -> Nat]]
    /\ request \in [Procs -> [Sems -> Int]]

-----------------------------------------------------------------------------
(* Loops over the processes *)

(* A pass goes through every process. *)
LEMMA SpanBound == Span \in Nat \ {0} /\ \A p \in Procs : p \in 0 .. Span - 1
<1>1. Procs \cup {0} \subseteq Nat /\ IsFiniteSet(Procs \cup {0})
  BY FS_AddElement, SearchAssumption
<1>2. Max(Procs \cup {0}) \in Procs \cup {0} /\ \A p \in Procs \cup {0} : p <= Max(Procs \cup {0})
  BY <1>1, MaxMember
<1>3. PICK last : last = Max(Procs \cup {0})
  OBVIOUS
<1>4. last \in Nat /\ \A p \in Procs : p \in Nat /\ p <= last
  BY <1>1, <1>2, <1>3
<1>5. Span = last + 1
  BY <1>3 DEF Span
<1> QED
  BY <1>4, <1>5

(* The processes the detector knows are finitely many. *)
LEMMA ProcsFinite ==
    ASSUME ddProcs \subseteq Procs
    PROVE  IsFiniteSet(ddProcs) /\ Cardinality(ddProcs) \in Nat
BY FS_Subset, FS_CardinalityType, SearchAssumption

\* sum[n] has the units of s of the first n processes that are in D
AddsUp(sum, D, s) ==
    /\ sum[0] = 0
    /\ \A k \in Nat : sum[k + 1] = sum[k] + (IF k \in D THEN allocation[k][s] ELSE 0)

(* The loop that adds the units of the processes of D, one process each time. *)
LEMMA HeldBySum ==
    ASSUME NEW D, D \subseteq Procs, NEW s \in Sems, Matrices
    PROVE  \E sum \in [Nat -> Nat] : AddsUp(sum, D, s) /\ HeldBy(D, s) = sum[Span]
<1> DEFINE Units(k) == IF k \in D THEN allocation[k][s] ELSE 0
           step == [k \in Nat |-> [n \in Nat |-> n + Units(k)]]
           IsSum(f) == f = [n \in Nat |-> IF n = 0 THEN 0
                                          ELSE f[n - 1] + (IF n - 1 \in D THEN allocation[n - 1][s] ELSE 0)]
<1>1. \A k \in Nat : Units(k) \in Nat
  BY DEF Matrices
<1>2. \A k \in Nat, n \in Nat : step[k][n] = n + Units(k) /\ step[k][n] \in Nat
  BY <1>1
<1>3. PICK f \in [Nat -> Nat] : Iterates(f, 0, step)
  <2>1. \A k \in Nat, n \in Nat : step[k][n] \in Nat
    BY <1>2
  <2> HIDE DEF step
  <2> QED
    BY <2>1, NatRecursion
<1>4. f[0] = 0 /\ \A k \in Nat : f[k + 1] = f[k] + Units(k)
  <2>1. f[0] = 0 /\ \A k \in Nat : f[k + 1] = step[k][f[k]]
    <3> HIDE DEF step
    <3> QED
      BY <1>3 DEF Iterates
  <2> QED
    BY <1>2, <2>1
<1>5. IsSum(f)
  <2>1. ASSUME NEW n \in Nat, n # 0 PROVE f[n] = f[n - 1] + Units(n - 1)
    <3>1. n - 1 \in Nat /\ (n - 1) + 1 = n
      BY <2>1
    <3> QED
      BY <3>1, <1>4
  <2> QED
    BY <1>4, <2>1
<1>6. HeldBy(D, s) = (CHOOSE g : IsSum(g))[Span]
  BY DEF HeldBy
<1>7. PICK sum : sum = (CHOOSE g : IsSum(g))
  OBVIOUS
<1>8. IsSum(sum)
  BY <1>5, <1>7
<1>9. sum[0] = 0 /\ \A k \in Nat : sum[k + 1] = sum[k] + Units(k)
  BY <1>8
<1>10. \A k \in Nat : sum[k] \in Nat
  <2> DEFINE Good == {k \in Nat : sum[k] \in Nat}
  <2>1. 0 \in Good /\ \A k \in Nat : k \in Good => k + 1 \in Good
    BY <1>1, <1>9
  <2>2. Nat \subseteq Good
    <3> HIDE DEF Good
    <3> QED
      BY <2>1, NatInductionSet
  <2> QED
    BY <2>2
<1>11. sum \in [Nat -> Nat]
  BY <1>8, <1>10
<1>12. AddsUp(sum, D, s)
  BY <1>9 DEF AddsUp
<1> QED
  BY <1>6, <1>7, <1>11, <1>12

(* More processes hold as much or more. *)
LEMMA HeldByMore ==
    ASSUME NEW D, NEW E, D \subseteq E, E \subseteq Procs, NEW s \in Sems, Matrices
    PROVE  HeldBy(D, s) \in Nat /\ HeldBy(E, s) \in Nat /\ HeldBy(D, s) <= HeldBy(E, s)
<1>0. D \subseteq Procs
  OBVIOUS
<1>1. PICK few \in [Nat -> Nat] : AddsUp(few, D, s) /\ HeldBy(D, s) = few[Span]
  BY <1>0, HeldBySum
<1>2. PICK many \in [Nat -> Nat] : AddsUp(many, E, s) /\ HeldBy(E, s) = many[Span]
  BY HeldBySum
<1> DEFINE Good == {k \in Nat : few[k] <= many[k]}
<1>3. 0 \in Good
  BY <1>1, <1>2 DEF AddsUp
<1>4. ASSUME NEW k \in Nat, k \in Good PROVE k + 1 \in Good
  <2>1. few[k] <= many[k] /\ few[k] \in Nat /\ many[k] \in Nat
    BY <1>1, <1>2, <1>4 DEF AddsUp
  <2>2. k \in E => allocation[k][s] \in Nat
    BY DEF Matrices
  <2>3. few[k + 1] <= many[k + 1]
    <3>1. CASE k \in E
      <4>1. PICK u \in Nat : u = allocation[k][s]
        BY <2>2, <3>1
      <4> QED
        BY <1>1, <1>2, <2>1, <3>1, <4>1 DEF AddsUp
    <3>2. CASE k \notin E
      BY <1>1, <1>2, <2>1, <3>2 DEF AddsUp
    <3> QED
      BY <3>1, <3>2
  <2> QED
    BY <2>3
<1>5. Nat \subseteq Good
  <2> HIDE DEF Good
  <2> QED
    BY <1>3, <1>4, NatInductionSet
<1>6. Span \in Nat
  BY SpanBound
<1> QED
  BY <1>1, <1>2, <1>5, <1>6 DEF AddsUp

(* Nobody holds nothing. *)
LEMMA HeldByNobody == ASSUME NEW s \in Sems, Matrices PROVE HeldBy({}, s) = 0
<1>0. {} \subseteq Procs
  OBVIOUS
<1>1. PICK sum \in [Nat -> Nat] : AddsUp(sum, {}, s) /\ HeldBy({}, s) = sum[Span]
  BY <1>0, HeldBySum
<1> DEFINE Good == {k \in Nat : sum[k] = 0}
<1>2. 0 \in Good /\ \A k \in Nat : k \in Good => k + 1 \in Good
  BY <1>1 DEF AddsUp
<1>3. Nat \subseteq Good
  <2> HIDE DEF Good
  <2> QED
    BY <1>2, NatInductionSet
<1> QED
  BY <1>1, <1>3, SpanBound

(* Processes that hold none of the units of s add nothing. *)
LEMMA HeldByOthers ==
    ASSUME NEW D, NEW E, D \subseteq E, E \subseteq Procs, NEW s \in Sems, Matrices,
           \A p \in E \ D : allocation[p][s] = 0
    PROVE  HeldBy(D, s) = HeldBy(E, s)
<1>0. D \subseteq Procs
  OBVIOUS
<1>1. PICK few \in [Nat -> Nat] : AddsUp(few, D, s) /\ HeldBy(D, s) = few[Span]
  BY <1>0, HeldBySum
<1>2. PICK many \in [Nat -> Nat] : AddsUp(many, E, s) /\ HeldBy(E, s) = many[Span]
  BY HeldBySum
<1> DEFINE Good == {k \in Nat : few[k] = many[k]}
<1>3. 0 \in Good
  BY <1>1, <1>2 DEF AddsUp
<1>4. ASSUME NEW k \in Nat, k \in Good PROVE k + 1 \in Good
  <2>1. few[k + 1] = many[k + 1]
    BY <1>1, <1>2, <1>4 DEF AddsUp
  <2> QED
    BY <2>1
<1>5. Nat \subseteq Good
  <2> HIDE DEF Good
  <2> QED
    BY <1>3, <1>4, NatInductionSet
<1>6. Span \in Nat
  BY SpanBound
<1> QED
  BY <1>1, <1>2, <1>5, <1>6 DEF AddsUp

(* One more process adds what it holds. *)
LEMMA HeldByOneMore ==
    ASSUME NEW D, D \subseteq Procs, NEW p \in Procs \ D, NEW s \in Sems, Matrices
    PROVE  HeldBy(D \cup {p}, s) = HeldBy(D, s) + allocation[p][s]
<1>1. PICK few \in [Nat -> Nat] : AddsUp(few, D, s) /\ HeldBy(D, s) = few[Span]
  BY HeldBySum
<1> DEFINE more == D \cup {p}
<1>2. PICK many \in [Nat -> Nat] : AddsUp(many, more, s) /\ HeldBy(more, s) = many[Span]
  <2>1. more \subseteq Procs
    OBVIOUS
  <2> HIDE DEF more
  <2> QED
    BY <2>1, HeldBySum
<1>3. allocation[p][s] \in Nat /\ p \in Nat
  BY SearchAssumption DEF Matrices
<1> DEFINE Good == {k \in Nat : many[k] = few[k] + (IF k <= p THEN 0 ELSE allocation[p][s])}
<1>4. 0 \in Good
  BY <1>1, <1>2, <1>3 DEF AddsUp
<1>5. ASSUME NEW k \in Nat, k \in Good PROVE k + 1 \in Good
  <2>1. CASE k = p
    BY <1>1, <1>2, <1>3, <1>5, <2>1 DEF AddsUp
  <2>2. CASE k # p
    <3>1. many[k + 1] = many[k] + (IF k \in D THEN allocation[k][s] ELSE 0)
      BY <1>2, <2>2 DEF AddsUp
    <3>2. (IF k \in D THEN allocation[k][s] ELSE 0) \in Nat
      BY DEF Matrices
    <3>3. k + 1 <= p <=> k <= p
      BY <1>3, <2>2
    <3>4. few[k + 1] = few[k] + (IF k \in D THEN allocation[k][s] ELSE 0)
      BY <1>1 DEF AddsUp
    <3>5. many[k] = few[k] + (IF k <= p THEN 0 ELSE allocation[p][s])
      BY <1>5
    <3> HIDE DEF Good
    <3>6. PICK u \in Nat : u = IF k \in D THEN allocation[k][s] ELSE 0
      BY <3>2
    <3>7. many[k + 1] = few[k + 1] + (IF k + 1 <= p THEN 0 ELSE allocation[p][s])
      BY <1>3, <3>1, <3>3, <3>4, <3>5, <3>6
    <3> QED
      BY <3>7 DEF Good
  <2> QED
    BY <2>1, <2>2
<1>6. Nat \subseteq Good
  <2> HIDE DEF Good
  <2> QED
    BY <1>4, <1>5, NatInductionSet
<1>7. Span \in Nat /\ ~(Span <= p)
  BY SpanBound, <1>3
<1> QED
  BY <1>1, <1>2, <1>6, <1>7 DEF AddsUp

-----------------------------------------------------------------------------
(* Who can finish *)

\* The state of the scan before each visit
IsScan(scan) ==
    /\ scan \in [Nat -> Scans]
    /\ scan[0] = [work |-> available, finish |-> {p \in ddProcs : ~Holds(p)}]
    /\ \A k \in Nat : scan[k + 1] = Visit(k % Span)[scan[k]]

(* What a process gives back is added to what there is. *)
LEMMA VisitScans == Matrices => \A scan \in Scans, p \in Nat : Visit(p)[scan] \in Scans
<1> SUFFICES ASSUME Matrices, NEW scan \in Scans, NEW p \in Nat PROVE Visit(p)[scan] \in Scans
  OBVIOUS
<1>1. CASE p \in ddProcs \ scan.finish /\ CanFinish(scan.work, p)
  <2>1. GiveBack(scan.work, p) \in [Sems -> Int]
    <3>1. \A s \in Sems : scan.work[s] \in Int /\ allocation[p][s] \in Int
      BY <1>1 DEF Scans, Matrices
    <3> QED
      BY <3>1 DEF GiveBack
  <2>2. scan.finish \cup {p} \subseteq ddProcs
    BY <1>1 DEF Scans
  <2>3. Visit(p)[scan] = [work |-> GiveBack(scan.work, p), finish |-> scan.finish \cup {p}]
    BY <1>1 DEF Visit
  <2> QED
    BY <2>1, <2>2, <2>3 DEF Scans
<1>2. CASE ~(p \in ddProcs \ scan.finish /\ CanFinish(scan.work, p))
  BY <1>2 DEF Visit
<1> QED
  BY <1>1, <1>2

(* The scan makes a visit after another, and Finishing is what it ends with. *)
LEMMA ScanSteps ==
    ASSUME Matrices
    PROVE  \E scan : IsScan(scan) /\ Finishing = scan[Cardinality(ddProcs) * Span].finish
<1> DEFINE first == [work |-> available, finish |-> {p \in ddProcs : ~Holds(p)}]
           step == [k \in Nat |-> [scan \in Scans |-> Visit(k % Span)[scan]]]
           Recursive(g) == g = [k \in Nat |-> IF k = 0 THEN first
                                              ELSE Visit((k - 1) % Span)[g[k - 1]]]
<1>1. first \in Scans
  BY DEF Scans, Matrices
<1>2. \A k \in Nat : k % Span \in Nat
  BY SpanBound, DivMod
<1>3. \A k \in Nat, x \in Scans : step[k][x] = Visit(k % Span)[x] /\ step[k][x] \in Scans
  BY <1>2, VisitScans
<1>4. PICK f \in [Nat -> Scans] : Iterates(f, first, step)
  <2>1. \A k \in Nat, x \in Scans : step[k][x] \in Scans
    BY <1>3
  <2> HIDE DEF step, first
  <2> QED
    BY <1>1, <2>1, NatRecursion
<1>5. f[0] = first /\ \A k \in Nat : f[k + 1] = Visit(k % Span)[f[k]]
  <2>1. f[0] = first /\ \A k \in Nat : f[k + 1] = step[k][f[k]]
    <3> HIDE DEF step, first
    <3> QED
      BY <1>4 DEF Iterates
  <2> HIDE DEF first, step
  <2> QED
    BY <1>3, <2>1
<1> HIDE DEF first, step
<1>6. Recursive(f)
  <2>1. ASSUME NEW k \in Nat, k # 0 PROVE f[k] = Visit((k - 1) % Span)[f[k - 1]]
    <3>1. k - 1 \in Nat /\ (k - 1) + 1 = k
      BY <2>1
    <3> QED
      BY <3>1, <1>5
  <2>2. f = [k \in Nat |-> f[k]]
    OBVIOUS
  <2> QED
    BY <1>5, <2>1, <2>2
<1>7. Finishing = (CHOOSE g : Recursive(g))[Cardinality(ddProcs) * Span].finish
  BY DEF Finishing, first
<1>8. PICK scan : scan = (CHOOSE g : Recursive(g))
  OBVIOUS
<1>9. Recursive(scan)
  BY <1>6, <1>8
<1>10. scan[0] = first /\ \A k \in Nat : scan[k + 1] = Visit(k % Span)[scan[k]]
  BY <1>9
<1>11. \A k \in Nat : scan[k] \in Scans
  <2> DEFINE Good == {k \in Nat : scan[k] \in Scans}
  <2>1. 0 \in Good
    BY <1>1, <1>10
  <2>2. ASSUME NEW k \in Nat, k \in Good PROVE k + 1 \in Good
    <3>1. scan[k] \in Scans /\ k % Span \in Nat /\ scan[k + 1] = Visit(k % Span)[scan[k]]
      BY <1>2, <1>10, <2>2
    <3>2. Visit(k % Span)[scan[k]] \in Scans
      BY <3>1, VisitScans
    <3> QED
      BY <3>1, <3>2
  <2>3. Nat \subseteq Good
    <3> HIDE DEF Good
    <3> QED
      BY <2>1, <2>2, NatInductionSet
  <2> QED
    BY <2>3
<1>12. scan \in [Nat -> Scans]
  BY <1>9, <1>11
<1>13. IsScan(scan)
  BY <1>10, <1>12 DEF IsScan, first
<1> QED
  BY <1>7, <1>8, <1>13

(* What a visit does, and when. *)
LEMMA ScanVisit ==
    ASSUME Matrices, NEW scan, IsScan(scan), NEW k \in Nat
    PROVE  LET p == k % Span
               visited == p \in ddProcs \ scan[k].finish /\ CanFinish(scan[k].work, p)
           IN  /\ scan[k].finish \subseteq ddProcs /\ scan[k].work \in [Sems -> Int]
               /\ visited => /\ scan[k + 1].finish = scan[k].finish \cup {p}
                             /\ scan[k + 1].work = GiveBack(scan[k].work, p)
               /\ ~visited => scan[k + 1] = scan[k]
<1>1. scan[k] \in Scans
  BY DEF IsScan
<1>2. scan[k + 1] = Visit(k % Span)[scan[k]]
  BY DEF IsScan
<1> QED
  BY <1>1, <1>2 DEF Visit, Scans

(* Nobody who has finished is taken back. *)
LEMMA ScanKeeps ==
    ASSUME Matrices, NEW scan, IsScan(scan), NEW i \in Nat
    PROVE  \A d \in Nat : scan[i].finish \subseteq scan[i + d].finish
<1> DEFINE Good == {d \in Nat : scan[i].finish \subseteq scan[i + d].finish}
<1>1. 0 \in Good
  OBVIOUS
<1>2. ASSUME NEW d \in Nat, d \in Good PROVE d + 1 \in Good
  <2>1. i + d \in Nat /\ (i + d) + 1 = i + (d + 1)
    OBVIOUS
  <2>2. scan[i + d].finish \subseteq scan[(i + d) + 1].finish
    BY <2>1, ScanVisit
  <2> QED
    BY <1>2, <2>1, <2>2
<1>3. Nat \subseteq Good
  <2> HIDE DEF Good
  <2> QED
    BY <1>1, <1>2, NatInductionSet
<1> QED
  BY <1>3

(* work has what there is and what those that finish hold. *)
LEMMA ScanWork ==
    ASSUME Matrices, NEW scan, IsScan(scan)
    PROVE  \A k \in Nat, s \in Sems : scan[k].work[s] = available[s] + HeldBy(scan[k].finish, s)
<1> DEFINE Good == {k \in Nat : \A s \in Sems :
                       scan[k].work[s] = available[s] + HeldBy(scan[k].finish, s)}
<1>1. 0 \in Good
  <2> DEFINE none == {p \in ddProcs : ~Holds(p)}
  <2>1. scan[0].work = available /\ scan[0].finish = none
    BY DEF IsScan
  <2>2. ASSUME NEW s \in Sems PROVE HeldBy(none, s) = HeldBy({}, s) /\ HeldBy({}, s) = 0
    <3>1. {} \subseteq none /\ none \subseteq Procs /\ \A p \in none \ {} : allocation[p][s] = 0
      BY DEF Holds, Matrices
    <3>2. HeldBy({}, s) = HeldBy(none, s)
      <4> HIDE DEF none
      <4> QED
        BY <3>1, HeldByOthers
    <3>3. HeldBy({}, s) = 0
      BY HeldByNobody
    <3> QED
      BY <3>2, <3>3
  <2> HIDE DEF none
  <2> QED
    BY <2>1, <2>2 DEF Matrices
<1>2. ASSUME NEW k \in Nat, k \in Good PROVE k + 1 \in Good
  <2> DEFINE p == k % Span
             visited == p \in ddProcs \ scan[k].finish /\ CanFinish(scan[k].work, p)
  <2>1. CASE visited
    <3>1. scan[k].finish \subseteq ddProcs /\ p \in Procs \ scan[k].finish
      BY <2>1, ScanVisit DEF Matrices
    <3>2. scan[k + 1].finish = scan[k].finish \cup {p}
      BY <2>1, ScanVisit
    <3>3. scan[k + 1].work = GiveBack(scan[k].work, p)
      BY <2>1, ScanVisit
    <3> HIDE DEF p
    <3>4. ASSUME NEW s \in Sems
          PROVE  scan[k + 1].work[s] = available[s] + HeldBy(scan[k + 1].finish, s)
      <4>1. scan[k + 1].work[s] = scan[k].work[s] + allocation[p][s]
        BY <3>3 DEF GiveBack
      <4>2. scan[k].finish \subseteq Procs
        BY <3>1 DEF Matrices
      <4>3. HeldBy(scan[k + 1].finish, s) = HeldBy(scan[k].finish, s) + allocation[p][s]
        <5>1. PICK D : D = scan[k].finish
          OBVIOUS
        <5>2. HeldBy(D \cup {p}, s) = HeldBy(D, s) + allocation[p][s]
          <6>1. D \subseteq Procs /\ p \in Procs \ D
            BY <3>1, <4>2, <5>1
          <6> QED
            BY <6>1, HeldByOneMore
        <5> QED
          BY <3>2, <5>1, <5>2
      <4>4. HeldBy(scan[k].finish, s) \in Nat
        BY <4>2, HeldByMore
      <4>5. available[s] \in Int /\ allocation[p][s] \in Nat
        BY <3>1 DEF Matrices
      <4>6. scan[k].work[s] = available[s] + HeldBy(scan[k].finish, s)
        BY <1>2
      <4> QED
        BY <4>1, <4>3, <4>4, <4>5, <4>6
    <3> QED
      BY <3>4
  <2>2. CASE ~visited
    <3>1. scan[k + 1] = scan[k]
      BY <2>2, ScanVisit
    <3> QED
      BY <1>2, <3>1
  <2> QED
    BY <2>1, <2>2
<1>3. Nat \subseteq Good
  <2> HIDE DEF Good
  <2> QED
    BY <1>1, <1>2, NatInductionSet
<1> QED
  BY <1>3

(* A process of a set whose members all ask for more than there is never finishes. *)
LEMMA ScanAvoids ==
    ASSUME Matrices, NEW scan, IsScan(scan),
           NEW D, D \subseteq {p \in ddProcs : Holds(p)}, NeverFinish(D)
    PROVE  \A k \in Nat : scan[k].finish \cap D = {}
<1> DEFINE Good == {k \in Nat : scan[k].finish \cap D = {}}
<1>1. 0 \in Good
  <2>1. scan[0].finish = {p \in ddProcs : ~Holds(p)}
    BY DEF IsScan
  <2> QED
    BY <2>1
<1>2. ASSUME NEW k \in Nat, k \in Good PROVE k + 1 \in Good
  <2> DEFINE p == k % Span
  <2>1. CASE p \in D /\ p \in ddProcs \ scan[k].finish /\ CanFinish(scan[k].work, p)
    <3>1. scan[k].finish \subseteq ddProcs
      BY ScanVisit
    <3> HIDE DEF p
    <3>2. PICK s \in Sems : request[p][s] > available[s] + HeldBy(ddProcs \ D, s)
      BY <2>1 DEF NeverFinish
    <3>3. PICK done : done = scan[k].finish
      OBVIOUS
    <3>4. PICK others : others = ddProcs \ D
      OBVIOUS
    <3>5. done \subseteq others /\ others \subseteq Procs
      BY <1>2, <3>1, <3>3, <3>4 DEF Matrices
    <3>6. HeldBy(done, s) \in Nat /\ HeldBy(others, s) \in Nat /\ HeldBy(done, s) <= HeldBy(others, s)
      BY <3>5, HeldByMore
    <3>7. scan[k].work[s] = available[s] + HeldBy(done, s)
      BY <3>3, ScanWork
    <3>8. request[p][s] <= scan[k].work[s]
      BY <2>1 DEF CanFinish
    <3>9. available[s] \in Int /\ request[p][s] \in Int
      BY <2>1 DEF Matrices
    <3> QED
      BY <3>2, <3>4, <3>6, <3>7, <3>8, <3>9
  <2>2. CASE p \notin D /\ p \in ddProcs \ scan[k].finish /\ CanFinish(scan[k].work, p)
    <3>1. scan[k + 1].finish = scan[k].finish \cup {p}
      BY <2>2, ScanVisit
    <3> QED
      BY <1>2, <2>2, <3>1
  <2>3. CASE ~(p \in ddProcs \ scan[k].finish /\ CanFinish(scan[k].work, p))
    <3>1. scan[k + 1] = scan[k]
      BY <2>3, ScanVisit
    <3> QED
      BY <1>2, <3>1
  <2> QED
    BY <2>1, <2>2, <2>3
<1>3. Nat \subseteq Good
  <2> HIDE DEF Good
  <2> QED
    BY <1>1, <1>2, NatInductionSet
<1> QED
  BY <1>3

\* No process that is left can finish
Over(scan) == \A p \in ddProcs \ scan.finish : ~CanFinish(scan.work, p)

(* When nobody is left who can finish, the rest of the scan changes nothing. *)
LEMMA ScanStaysOver ==
    ASSUME Matrices, NEW scan, IsScan(scan), NEW i \in Nat, Over(scan[i])
    PROVE  \A d \in Nat : scan[i + d] = scan[i]
<1> DEFINE Good == {d \in Nat : scan[i + d] = scan[i]}
<1>1. 0 \in Good
  OBVIOUS
<1>2. ASSUME NEW d \in Nat, d \in Good PROVE d + 1 \in Good
  <2>1. i + d \in Nat /\ (i + d) + 1 = i + (d + 1)
    OBVIOUS
  <2>2. scan[i + d] = scan[i]
    BY <1>2
  <2>3. Over(scan[i + d])
    BY <2>2
  <2>4. scan[(i + d) + 1] = scan[i + d]
    BY <2>1, <2>3, ScanVisit DEF Over
  <2> QED
    BY <2>1, <2>2, <2>4
<1>3. Nat \subseteq Good
  <2> HIDE DEF Good
  <2> QED
    BY <1>1, <1>2, NatInductionSet
<1> QED
  BY <1>3

(* The visits of a pass before the process p and after it. *)
LEMMA PassNumbers ==
    ASSUME NEW start \in Nat, NEW span \in Nat, NEW p \in Nat, p < span
    PROVE  /\ start + p \in Nat /\ start + p + 1 \in Nat
           /\ start + p + (span - p) = start + span /\ span - p \in Nat
           /\ (start + p) + 1 + (span - p - 1) = start + span /\ span - p - 1 \in Nat
OBVIOUS

(* A pass after which nobody more has finished leaves nobody who can: every process that
   has not finished was visited, with what was there at the end. *)
LEMMA PassIdle ==
    ASSUME Matrices, NEW scan, IsScan(scan), NEW i \in Nat,
           scan[i * Span + Span].finish = scan[i * Span].finish
    PROVE  Over(scan[i * Span + Span])
<1> DEFINE start == i * Span
<1>0. start \in Nat /\ Span \in Nat /\ start + Span \in Nat
  BY SpanBound
<1> SUFFICES ASSUME NEW p \in ddProcs \ scan[start + Span].finish,
                    CanFinish(scan[start + Span].work, p)
             PROVE  FALSE
  BY DEF Over
<1>1. p \in Nat /\ p < Span
  BY SpanBound DEF Matrices
<1>2. (start + p) % Span = p
  <2>1. PICK n : n = Span
    OBVIOUS
  <2>2. n \in Nat \ {0} /\ p \in 0 .. n - 1
    BY <1>1, <2>1, SpanBound
  <2>3. (i * n + p) % n = p
    BY <2>2, DivUnique
  <2> QED
    BY <2>1, <2>3
<1> HIDE DEF start
<1>3. start + p \in Nat /\ start + p + (Span - p) = start + Span /\ Span - p \in Nat
  BY <1>0, <1>1, PassNumbers
<1>4. (start + p) + 1 + (Span - p - 1) = start + Span /\ Span - p - 1 \in Nat /\ start + p + 1 \in Nat
  BY <1>0, <1>1, PassNumbers
<1>5. scan[start].finish \subseteq scan[start + p].finish
  BY <1>0, <1>1, ScanKeeps
<1>6. scan[start + p].finish \subseteq scan[start + Span].finish
  <2>1. scan[start + p].finish \subseteq scan[(start + p) + (Span - p)].finish
    BY <1>3, ScanKeeps
  <2> QED
    BY <1>3, <2>1
<1>7. scan[(start + p) + 1].finish \subseteq scan[start + Span].finish
  <2>1. scan[(start + p) + 1].finish \subseteq scan[((start + p) + 1) + (Span - p - 1)].finish
    BY <1>4, ScanKeeps
  <2> QED
    BY <1>4, <2>1
<1>8. scan[start + p].finish = scan[start + Span].finish
  BY <1>5, <1>6 DEF start
<1>9. CanFinish(scan[start + p].work, p)
  <2>1. ASSUME NEW s \in Sems PROVE scan[start + p].work[s] = scan[start + Span].work[s]
    <3>1. scan[start + p].work[s] = available[s] + HeldBy(scan[start + p].finish, s)
      BY <1>3, ScanWork
    <3>2. scan[start + Span].work[s] = available[s] + HeldBy(scan[start + Span].finish, s)
      BY <1>0, ScanWork
    <3> QED
      BY <1>8, <3>1, <3>2
  <2> QED
    BY <2>1 DEF CanFinish
<1>10. p \in scan[(start + p) + 1].finish
  <2>1. scan[(start + p) + 1].finish = scan[start + p].finish \cup {p}
    BY <1>2, <1>3, <1>8, <1>9, ScanVisit
  <2> QED
    BY <2>1
<1> QED
  BY <1>7, <1>10

(* After as many passes as there are processes nobody is left who can finish: each pass
   before the last change finishes one or more. *)
LEMMA ScanEndsOver ==
    ASSUME Matrices, NEW scan, IsScan(scan)
    PROVE  Over(scan[Cardinality(ddProcs) * Span])
<1> DEFINE Done(j) == scan[j * Span].finish
           Good == {j \in Nat : Over(scan[j * Span]) \/ Cardinality(Done(j)) >= j}
<1>0. ddProcs \subseteq Procs /\ IsFiniteSet(ddProcs) /\ Cardinality(ddProcs) \in Nat
  BY ProcsFinite DEF Matrices
<1>s. Span \in Nat
  BY SpanBound
<1>1. ASSUME NEW j \in Nat
      PROVE  /\ j * Span \in Nat
             /\ Done(j) \subseteq ddProcs /\ IsFiniteSet(Done(j)) /\ Cardinality(Done(j)) \in Nat
  <2>1. j * Span \in Nat
    BY <1>s
  <2>2. Done(j) \subseteq ddProcs
    BY <2>1, ScanVisit
  <2> QED
    BY <1>0, <2>1, <2>2, FS_Subset, FS_CardinalityType
<1>2. 0 \in Good
  BY <1>1
<1>3. ASSUME NEW j \in Nat, j \in Good PROVE j + 1 \in Good
  <2>1. (j + 1) * Span = j * Span + Span /\ j * Span \in Nat
    BY <1>s
  <2>2. CASE Over(scan[j * Span])
    <3>1. scan[j * Span + Span] = scan[j * Span]
      BY <1>s, <2>1, <2>2, ScanStaysOver
    <3> QED
      BY <2>1, <2>2, <3>1
  <2>3. CASE Cardinality(Done(j)) >= j /\ Done(j + 1) = Done(j)
    <3>1. Over(scan[j * Span + Span])
      BY <2>1, <2>3, PassIdle
    <3> QED
      BY <2>1, <3>1
  <2>4. CASE Cardinality(Done(j)) >= j /\ Done(j + 1) # Done(j)
    <3>1. Done(j) \subseteq Done(j + 1)
      BY <1>s, <2>1, ScanKeeps
    <3>2. PICK few, many : few = Done(j) /\ many = Done(j + 1)
      OBVIOUS
    <3>3. /\ few \subseteq many /\ few # many /\ IsFiniteSet(many)
          /\ Cardinality(few) \in Nat /\ Cardinality(many) \in Nat /\ Cardinality(few) >= j
      BY <1>1, <2>4, <3>1, <3>2
    <3>4. Cardinality(few) < Cardinality(many)
      BY <3>3, FS_Subset
    <3>5. Cardinality(many) >= j + 1
      BY <3>3, <3>4
    <3> QED
      BY <3>2, <3>5
  <2> QED
    BY <1>3, <2>2, <2>3, <2>4
<1>4. Nat \subseteq Good
  <2> HIDE DEF Good
  <2> QED
    BY <1>2, <1>3, NatInductionSet
<1> DEFINE n == Cardinality(ddProcs)
<1>5. CASE Cardinality(Done(n)) >= n
  <2>1. PICK all : all = Done(n)
    OBVIOUS
  <2>2. all \subseteq ddProcs /\ Cardinality(all) \in Nat /\ Cardinality(all) >= n
    BY <1>0, <1>1, <1>5, <2>1
  <2>3. all = ddProcs
    BY <1>0, <2>2, FS_Subset
  <2> QED
    BY <2>1, <2>3 DEF Over
<1> QED
  BY <1>0, <1>4, <1>5

(* Who is left out of Finishing is in none of the two: it asks for more than there will be. *)
LEMMA FinishingOver ==
    ASSUME Matrices
    PROVE  /\ Finishing \subseteq ddProcs /\ {p \in ddProcs : ~Holds(p)} \subseteq Finishing
           /\ \A p \in Stuck : \E s \in Sems : request[p][s] > available[s] + HeldBy(Finishing, s)
           /\ \A D : D \subseteq {p \in ddProcs : Holds(p)} /\ NeverFinish(D) => D \subseteq Stuck
<1>1. PICK scan : IsScan(scan) /\ Finishing = scan[Cardinality(ddProcs) * Span].finish
  BY ScanSteps
<1> DEFINE end == Cardinality(ddProcs) * Span
<1>2. end \in Nat
  BY ProcsFinite, SpanBound DEF Matrices
<1>3. Over(scan[end])
  BY <1>1, ScanEndsOver
<1> HIDE DEF end
<1>4. Finishing = scan[end].finish
  BY <1>1 DEF end
<1>5. Finishing \subseteq ddProcs
  BY <1>1, <1>2, <1>4, ScanVisit
<1>6. {p \in ddProcs : ~Holds(p)} \subseteq Finishing
  <2>1. scan[0].finish = {p \in ddProcs : ~Holds(p)}
    BY <1>1 DEF IsScan
  <2>2. scan[0].finish \subseteq scan[0 + end].finish
    BY <1>1, <1>2, ScanKeeps
  <2>3. 0 + end = end
    BY <1>2
  <2> QED
    BY <1>4, <2>1, <2>2, <2>3
<1>7. ASSUME NEW p \in Stuck
      PROVE  \E s \in Sems : request[p][s] > available[s] + HeldBy(Finishing, s)
  <2>1. ~CanFinish(scan[end].work, p) /\ p \in Procs
    BY <1>3, <1>4 DEF Over, Stuck, Matrices
  <2>2. PICK s \in Sems : ~(request[p][s] <= scan[end].work[s])
    BY <2>1 DEF CanFinish
  <2>3. scan[end].work[s] = available[s] + HeldBy(Finishing, s)
    BY <1>1, <1>2, <1>4, ScanWork
  <2>4. HeldBy(Finishing, s) \in Nat
    BY <1>5, HeldByMore DEF Matrices
  <2>5. available[s] \in Int /\ request[p][s] \in Int
    BY <2>1 DEF Matrices
  <2> QED
    BY <2>2, <2>3, <2>4, <2>5
<1>8. ASSUME NEW D, D \subseteq {p \in ddProcs : Holds(p)}, NeverFinish(D)
      PROVE  D \subseteq Stuck
  <2>1. scan[end].finish \cap D = {}
    BY <1>1, <1>2, <1>8, ScanAvoids
  <2> QED
    BY <1>4, <1>8, <2>1 DEF Stuck
<1> QED
  BY <1>5, <1>6, <1>7, <1>8

(* findDeadlocks leaves out exactly the processes that no order of finishing can free, on
   any matrices (deadlockResolver.c:33-61). *)
THEOREM SearchStuckExact == Matrices => StuckExact
<1> SUFFICES ASSUME Matrices PROVE StuckExact
  OBVIOUS
<1> DEFINE holders == {p \in ddProcs : Holds(p)}
<1>1. Stuck \subseteq holders
  BY FinishingOver DEF Stuck
<1>2. NeverFinish(Stuck)
  <2>1. ddProcs \ Stuck = Finishing
    BY FinishingOver DEF Stuck
  <2> QED
    BY <2>1, FinishingOver DEF NeverFinish
<1>3. \A D \in SUBSET holders : NeverFinish(D) => D \subseteq Stuck
  BY FinishingOver
<1> HIDE DEF holders
<1>4. Stuck \subseteq UNION {D \in SUBSET holders : NeverFinish(D)}
  BY <1>1, <1>2
<1>5. UNION {D \in SUBSET holders : NeverFinish(D)} \subseteq Stuck
  BY <1>3
<1>6. Stuck = UNION {D \in SUBSET holders : NeverFinish(D)}
  BY <1>4, <1>5
<1> QED
  BY <1>6 DEF StuckExact, holders

-----------------------------------------------------------------------------
(* isInCircularWait *)

(* There is a first among the edges left. *)
LEMMA FirstMember ==
    ASSUME Matrices, NEW edges, edges \subseteq Sems \X ddProcs, edges # {}
    PROVE  First(edges) \in edges
<1> DEFINE sems == {e[1] : e \in edges}
           s0 == Min(sems)
           procs == {e[2] : e \in {f \in edges : f[1] = s0}}
           p0 == Min(procs)
<1>0. ASSUME NEW e \in edges PROVE e[1] \in Nat /\ e[2] \in Nat /\ e = <<e[1], e[2]>>
  <2>1. PICK s \in Sems, p \in ddProcs : e = <<s, p>>
    OBVIOUS
  <2>2. s \in Nat /\ p \in Nat
    BY SearchAssumption DEF Matrices
  <2> QED
    BY <2>1, <2>2
<1>1. sems \subseteq Nat /\ sems # {}
  BY <1>0
<1>2. s0 \in sems /\ \A s \in sems : s0 <= s
  <2> HIDE DEF sems
  <2> QED
    BY <1>1, MinMember
<1> HIDE DEF s0
<1>3. procs \subseteq Nat /\ procs # {}
  BY <1>0, <1>2
<1>4. p0 \in procs /\ \A p \in procs : p0 <= p
  <2> HIDE DEF procs
  <2> QED
    BY <1>3, MinMember
<1> HIDE DEF p0
<1>5. PICK e \in edges : e[1] = s0 /\ e[2] = p0
  BY <1>4
<1>6. ASSUME NEW f \in edges PROVE e[1] < f[1] \/ (e[1] = f[1] /\ e[2] <= f[2])
  <2>1. s0 <= f[1] /\ (f[1] = s0 => p0 <= f[2])
    BY <1>2, <1>4
  <2> QED
    BY <1>0, <1>5, <2>1
<1>7. \E x \in edges : \A f \in edges : x[1] < f[1] \/ (x[1] = f[1] /\ x[2] <= f[2])
  BY <1>6
<1> QED
  BY <1>7 DEF First

\* The state of the search before each iteration
IsWalk(base, walk) ==
    /\ walk \in [Nat -> Walks]
    /\ walk[0] = [calls |-> <<Edges(base)>>, seen |-> {}, found |-> FALSE]
    /\ \A k \in Nat : walk[k + 1] = WalkStep(base)[walk[k]]

\* What the innermost call takes next
NextEdge(walk) == First(Last(walk.calls))

\* It is a holder that was not seen, and not the base: the call goes on
GoesOn(base, walk) ==
    /\ Last(walk.calls) # {}
    /\ NextEdge(walk)[2] # base /\ NextEdge(walk)[2] \notin walk.seen

\* The calls with that edge taken out of the innermost
CallsLeft(walk) == [walk.calls EXCEPT ![Len(walk.calls)] = @ \ {NextEdge(walk)}]

(* The innermost call is the last of the calls, and has its next edge. *)
LEMMA InnermostCall ==
    ASSUME Matrices, NEW walk \in Walks, walk.calls # <<>>
    PROVE  /\ Len(walk.calls) \in Nat \ {0} /\ Last(walk.calls) = walk.calls[Len(walk.calls)]
           /\ Last(walk.calls) \subseteq Sems \X ddProcs
           /\ Last(walk.calls) # {} => NextEdge(walk) \in Last(walk.calls)
<1>1. walk.calls \in Seq(SUBSET (Sems \X ddProcs))
  BY DEF Walks
<1>2. Len(walk.calls) \in Nat \ {0} /\ Last(walk.calls) = walk.calls[Len(walk.calls)]
  BY <1>1, EmptySeq, LenProperties DEF Last
<1>3. Last(walk.calls) \subseteq Sems \X ddProcs
  <2>1. Len(walk.calls) \in 1 .. Len(walk.calls)
    BY <1>2
  <2> QED
    BY <1>1, <1>2, <2>1, ElementOfSeq
<1>4. ASSUME Last(walk.calls) # {} PROVE NextEdge(walk) \in Last(walk.calls)
  <2>1. PICK edges : edges = Last(walk.calls)
    OBVIOUS
  <2>2. First(edges) \in edges
    BY <1>3, <1>4, <2>1, FirstMember
  <2> QED
    BY <2>1, <2>2 DEF NextEdge
<1> QED
  BY <1>2, <1>3, <1>4

(* The innermost call returns at its end, with true at the base and with false at a holder
   that was seen. *)
LEMMA WalkReturns ==
    ASSUME NEW base, NEW walk \in Walks, walk.calls # <<>>, ~GoesOn(base, walk)
    PROVE  LET next == WalkStep(base)[walk]
           IN  /\ next.calls = Front(walk.calls) /\ next.seen = walk.seen
               /\ next.found \in BOOLEAN
               /\ Last(walk.calls) = {} => (next.found <=> walk.found)
               /\ Last(walk.calls) # {} => (next.found <=> NextEdge(walk)[2] = base)
               /\ next = [calls |-> next.calls, seen |-> next.seen, found |-> next.found]
<1> DEFINE next == WalkStep(base)[walk]
           todo == Last(walk.calls)
           e == NextEdge(walk)
<1>0. walk.found \in BOOLEAN /\ walk = [calls |-> walk.calls, seen |-> walk.seen, found |-> walk.found]
  BY DEF Walks
<1>1. CASE todo = {}
  <2>1. next = [walk EXCEPT !.calls = Front(walk.calls)]
    BY <1>1 DEF WalkStep
  <2>2. next = [calls |-> Front(walk.calls), seen |-> walk.seen, found |-> walk.found]
    BY <1>0, <2>1
  <2> QED
    BY <1>0, <1>1, <2>2
<1>2. CASE todo # {} /\ e[2] = base
  <2>1. next = [walk EXCEPT !.calls = Front(walk.calls), !.found = TRUE]
    BY <1>2 DEF WalkStep, NextEdge
  <2>2. next = [calls |-> Front(walk.calls), seen |-> walk.seen, found |-> TRUE]
    BY <1>0, <2>1
  <2> HIDE DEF next
  <2>3. next.calls = Front(walk.calls) /\ next.seen = walk.seen /\ next.found = TRUE
    BY <2>2
  <2> QED
    BY <1>2, <2>2, <2>3 DEF next
<1>3. CASE todo # {} /\ e[2] # base /\ e[2] \in walk.seen
  <2>1. next = [walk EXCEPT !.calls = Front(walk.calls), !.found = FALSE]
    BY <1>3 DEF WalkStep, NextEdge
  <2>2. next = [calls |-> Front(walk.calls), seen |-> walk.seen, found |-> FALSE]
    BY <1>0, <2>1
  <2> HIDE DEF next
  <2>3. next.calls = Front(walk.calls) /\ next.seen = walk.seen /\ next.found = FALSE
    BY <2>2
  <2> QED
    BY <1>3, <2>2, <2>3 DEF next
<1> QED
  BY <1>1, <1>2, <1>3 DEF GoesOn

(* The innermost call marks a holder as seen and calls itself for it, unless it has found
   the base. *)
LEMMA WalkGoesOn ==
    ASSUME NEW base, NEW walk \in Walks, walk.calls # <<>>, GoesOn(base, walk)
    PROVE  LET next == WalkStep(base)[walk]
           IN  /\ next = [calls |-> next.calls, seen |-> next.seen, found |-> next.found]
               /\ next.seen = walk.seen \cup {NextEdge(walk)[2]} /\ next.found = walk.found
               /\ walk.found => next.calls = CallsLeft(walk)
               /\ ~walk.found => next.calls = Append(CallsLeft(walk), Edges(NextEdge(walk)[2]))
<1>1. WalkStep(base)[walk] =
        [calls |-> IF walk.found THEN CallsLeft(walk)
                   ELSE Append(CallsLeft(walk), Edges(NextEdge(walk)[2])),
         seen |-> walk.seen \cup {NextEdge(walk)[2]},
         found |-> walk.found]
  BY DEF WalkStep, GoesOn, NextEdge, CallsLeft
<1> QED
  BY <1>1

(* A return leaves the calls outside. *)
LEMMA ReturnedCalls ==
    ASSUME Matrices, NEW base, NEW walk \in Walks, walk.calls # <<>>, ~GoesOn(base, walk)
    PROVE  LET next == WalkStep(base)[walk]
           IN  /\ next \in Walks /\ Len(next.calls) = Len(walk.calls) - 1
               /\ \A i \in 1 .. Len(walk.calls) - 1 : next.calls[i] = walk.calls[i]
<1> DEFINE E == SUBSET (Sems \X ddProcs)
           next == WalkStep(base)[walk]
           n == Len(walk.calls)
<1>0. walk.calls \in Seq(E) /\ walk.seen \subseteq ddProcs
  BY DEF Walks
<1>1. n \in Nat \ {0}
  BY InnermostCall
<1>2. /\ next.calls = Front(walk.calls) /\ next.seen = walk.seen /\ next.found \in BOOLEAN
      /\ next = [calls |-> next.calls, seen |-> next.seen, found |-> next.found]
  BY WalkReturns
<1>3. /\ Front(walk.calls) \in Seq(E) /\ Len(Front(walk.calls)) = n - 1
      /\ \A i \in 1 .. n - 1 : Front(walk.calls)[i] = walk.calls[i]
  <2>1. Front(walk.calls) \in Seq(E)
    BY <1>0, LastFrontSeq
  <2>2. Front(walk.calls) = SubSeq(walk.calls, 1, n - 1)
    BY DEF Front
  <2>3. \A i \in 1 .. n - 1 : walk.calls[i] \in E
    BY <1>0, <1>1, ElementOfSeq
  <2> HIDE DEF E, n
  <2> QED
    BY <1>0, <1>1, <2>1, <2>2, <2>3, SubSeqProperties
<1> HIDE DEF next
<1>4. next \in Walks
  BY <1>0, <1>2, <1>3 DEF Walks
<1>5. Len(next.calls) = n - 1 /\ \A i \in 1 .. n - 1 : next.calls[i] = walk.calls[i]
  BY <1>2, <1>3
<1> QED
  BY <1>4, <1>5 DEF next

(* A call that goes on has one edge less to go through, and the calls outside the same. *)
LEMMA ContinuedCalls ==
    ASSUME Matrices, NEW base, NEW walk \in Walks, walk.calls # <<>>, GoesOn(base, walk)
    PROVE  LET next == WalkStep(base)[walk]
               n == Len(walk.calls)
               e == NextEdge(walk)
           IN  /\ next \in Walks /\ e[2] \in ddProcs
               /\ \A i \in 1 .. n - 1 : next.calls[i] = walk.calls[i]
               /\ next.calls[n] = walk.calls[n] \ {e}
               /\ walk.found => Len(next.calls) = n
               /\ ~walk.found => Len(next.calls) = n + 1 /\ next.calls[n + 1] = Edges(e[2])
<1> DEFINE E == SUBSET (Sems \X ddProcs)
           next == WalkStep(base)[walk]
           n == Len(walk.calls)
           e == NextEdge(walk)
           left == CallsLeft(walk)
<1>0. walk.calls \in Seq(E) /\ walk.seen \subseteq ddProcs /\ walk.found \in BOOLEAN
  BY DEF Walks
<1>1. n \in Nat \ {0} /\ e \in Sems \X ddProcs
  BY InnermostCall DEF GoesOn
<1>2. /\ next = [calls |-> next.calls, seen |-> next.seen, found |-> next.found]
      /\ next.seen = walk.seen \cup {e[2]} /\ next.found = walk.found
      /\ walk.found => next.calls = left
      /\ ~walk.found => next.calls = Append(left, Edges(e[2]))
  BY WalkGoesOn
<1>3. /\ left \in Seq(E) /\ Len(left) = n /\ left[n] = walk.calls[n] \ {e}
      /\ \A i \in 1 .. n - 1 : left[i] = walk.calls[i]
  <2>1. n \in 1 .. n /\ walk.calls[n] \in E /\ walk.calls[n] \ {e} \in E
    BY <1>0, <1>1, ElementOfSeq
  <2>2. left = [walk.calls EXCEPT ![n] = walk.calls[n] \ {e}]
    BY DEF CallsLeft
  <2>3. PICK edges \in E : edges = walk.calls[n] \ {e}
    BY <2>1
  <2>4. PICK calls \in Seq(E) : calls = walk.calls
    BY <1>0
  <2> HIDE DEF left, e, E
  <2> QED
    BY <1>1, <2>1, <2>2, <2>3, <2>4, ExceptSeq
<1>4. e[2] \in ddProcs /\ Edges(e[2]) \in E
  BY <1>1 DEF Edges
<1> HIDE DEF left, e, E, next
<1>5. /\ Append(left, Edges(e[2])) \in Seq(E) /\ Len(Append(left, Edges(e[2]))) = n + 1
      /\ Append(left, Edges(e[2]))[n + 1] = Edges(e[2])
      /\ \A i \in 1 .. n : Append(left, Edges(e[2]))[i] = left[i]
  <2>1. PICK edges \in E : edges = Edges(e[2])
    BY <1>4
  <2> HIDE DEF n
  <2> QED
    BY <1>3, <2>1, AppendProperties
<1>6. n \in 1 .. n /\ \A i \in 1 .. n - 1 : i \in 1 .. n
  BY <1>1
<1>7. next \in Walks
  <2>1. next.calls \in Seq(E) /\ next.seen \subseteq ddProcs /\ next.found \in BOOLEAN
    BY <1>0, <1>2, <1>3, <1>4, <1>5
  <2> QED
    BY <1>2, <2>1 DEF Walks, E
<1>8. \A i \in 1 .. n - 1 : next.calls[i] = walk.calls[i]
  BY <1>0, <1>2, <1>3, <1>5, <1>6
<1>9. next.calls[n] = walk.calls[n] \ {e}
  BY <1>0, <1>2, <1>3, <1>5, <1>6
<1> HIDE DEF n
<1>10. walk.found => Len(next.calls) = n
  BY <1>2, <1>3
<1>11. ~walk.found => Len(next.calls) = n + 1 /\ next.calls[n + 1] = Edges(e[2])
  BY <1>2, <1>5
<1> QED
  BY <1>4, <1>7, <1>8, <1>9, <1>10, <1>11 DEF next, n, e

(* An iteration leaves a state of the search. *)
LEMMA WalkWalks ==
    ASSUME Matrices, NEW base, NEW walk \in Walks
    PROVE  WalkStep(base)[walk] \in Walks
<1>1. CASE walk.calls = <<>>
  BY <1>1 DEF WalkStep
<1>2. CASE walk.calls # <<>> /\ GoesOn(base, walk)
  BY <1>2, ContinuedCalls
<1>3. CASE walk.calls # <<>> /\ ~GoesOn(base, walk)
  BY <1>3, ReturnedCalls
<1> QED
  BY <1>1, <1>2, <1>3

(* The search makes an iteration after another, and InCircularWait is what it ends with. *)
LEMMA WalkSteps ==
    ASSUME Matrices, NEW base \in ddProcs
    PROVE  \E walk : /\ IsWalk(base, walk)
                     /\ InCircularWait(base) = walk[2 * Cardinality(ddProcs) + 1].found
<1> DEFINE first == [calls |-> <<Edges(base)>>, seen |-> {}, found |-> FALSE]
           step == [k \in Nat |-> [w \in Walks |-> WalkStep(base)[w]]]
           Recursive(g) == g = [k \in Nat |-> IF k = 0 THEN first ELSE WalkStep(base)[g[k - 1]]]
<1>1. first \in Walks
  <2>1. Edges(base) \in SUBSET (Sems \X ddProcs)
    BY DEF Edges
  <2>2. PICK E : E = SUBSET (Sems \X ddProcs)
    OBVIOUS
  <2>3. PICK edges : edges = Edges(base)
    OBVIOUS
  <2>4. <<edges>> \in Seq(E)
    BY <2>1, <2>2, <2>3
  <2>5. {} \in SUBSET ddProcs /\ FALSE \in BOOLEAN
    OBVIOUS
  <2> QED
    BY <2>2, <2>3, <2>4, <2>5 DEF Walks
<1>2. \A k \in Nat, x \in Walks : step[k][x] = WalkStep(base)[x] /\ step[k][x] \in Walks
  BY WalkWalks
<1>3. PICK f \in [Nat -> Walks] : Iterates(f, first, step)
  <2>1. \A k \in Nat, x \in Walks : step[k][x] \in Walks
    BY <1>2
  <2> HIDE DEF step, first
  <2> QED
    BY <1>1, <2>1, NatRecursion
<1>4. f[0] = first /\ \A k \in Nat : f[k + 1] = WalkStep(base)[f[k]]
  <2>1. f[0] = first /\ \A k \in Nat : f[k + 1] = step[k][f[k]]
    <3> HIDE DEF step, first
    <3> QED
      BY <1>3 DEF Iterates
  <2> HIDE DEF first, step
  <2> QED
    BY <1>2, <2>1
<1> HIDE DEF first, step
<1>5. Recursive(f)
  <2>1. ASSUME NEW k \in Nat, k # 0 PROVE f[k] = WalkStep(base)[f[k - 1]]
    <3>1. k - 1 \in Nat /\ (k - 1) + 1 = k
      BY <2>1
    <3> QED
      BY <3>1, <1>4
  <2>2. f = [k \in Nat |-> f[k]]
    OBVIOUS
  <2> QED
    BY <1>4, <2>1, <2>2
<1>6. InCircularWait(base) = (CHOOSE g : Recursive(g))[2 * Cardinality(ddProcs) + 1].found
  BY DEF InCircularWait, first
<1>7. PICK walk : walk = (CHOOSE g : Recursive(g))
  OBVIOUS
<1>8. Recursive(walk)
  BY <1>5, <1>7
<1>9. walk[0] = first /\ \A k \in Nat : walk[k + 1] = WalkStep(base)[walk[k]]
  BY <1>8
<1>10. \A k \in Nat : walk[k] \in Walks
  <2> DEFINE Good == {k \in Nat : walk[k] \in Walks}
  <2>1. 0 \in Good
    BY <1>1, <1>9
  <2>2. ASSUME NEW k \in Nat, k \in Good PROVE k + 1 \in Good
    <3>1. walk[k] \in Walks /\ walk[k + 1] = WalkStep(base)[walk[k]]
      BY <1>9, <2>2
    <3>2. WalkStep(base)[walk[k]] \in Walks
      BY <3>1, WalkWalks
    <3> QED
      BY <3>1, <3>2
  <2>3. Nat \subseteq Good
    <3> HIDE DEF Good
    <3> QED
      BY <2>1, <2>2, NatInductionSet
  <2> QED
    BY <2>3
<1>11. walk \in [Nat -> Walks]
  BY <1>8, <1>10
<1>12. IsWalk(base, walk)
  BY <1>9, <1>11 DEF IsWalk, first
<1> QED
  BY <1>6, <1>7, <1>12

\* Whatever is left to go through leads into S, and the base is found only if it is there
LeadsInto(walk, S, base) ==
    /\ \A i \in 1 .. Len(walk.calls) : \A e \in walk.calls[i] : e[2] \in S
    /\ walk.found => base \in S

(* What the search goes through can be reached from the base. *)
LEMMA LeadsIntoStep ==
    ASSUME Matrices, NEW base, NEW walk \in Walks,
           NEW S, \A r \in S, t \in ddProcs : WaitsFor(r, t) => t \in S,
           LeadsInto(walk, S, base)
    PROVE  LeadsInto(WalkStep(base)[walk], S, base)
<1> DEFINE next == WalkStep(base)[walk]
           n == Len(walk.calls)
<1>1. CASE walk.calls = <<>>
  BY <1>1 DEF WalkStep
<1>2. CASE walk.calls # <<>> /\ ~GoesOn(base, walk)
  <2>1. n \in Nat \ {0} /\ Last(walk.calls) = walk.calls[n]
        /\ (Last(walk.calls) # {} => NextEdge(walk) \in walk.calls[n])
    BY <1>2, InnermostCall
  <2>2. Len(next.calls) = n - 1 /\ \A i \in 1 .. n - 1 : next.calls[i] = walk.calls[i]
    BY <1>2, ReturnedCalls
  <2>3. next.found => base \in S
    <3>1. CASE Last(walk.calls) = {}
      <4>1. next.found <=> walk.found
        BY <1>2, <3>1, WalkReturns
      <4> QED
        BY <4>1 DEF LeadsInto
    <3>2. CASE Last(walk.calls) # {}
      <4>1. next.found <=> NextEdge(walk)[2] = base
        BY <1>2, <3>2, WalkReturns
      <4>2. NextEdge(walk)[2] \in S
        BY <2>1, <3>2 DEF LeadsInto
      <4> QED
        BY <4>1, <4>2
    <3> QED
      BY <3>1, <3>2
  <2> HIDE DEF next
  <2>4. \A i \in 1 .. Len(next.calls) : \A e \in next.calls[i] : e[2] \in S
    BY <2>1, <2>2 DEF LeadsInto
  <2> QED
    BY <2>3, <2>4 DEF LeadsInto, next
<1>3. CASE walk.calls # <<>> /\ GoesOn(base, walk)
  <2> DEFINE e == NextEdge(walk)
  <2>1. n \in Nat \ {0} /\ e \in walk.calls[n]
    BY <1>3, InnermostCall DEF GoesOn
  <2>2. e[2] \in S
    BY <2>1 DEF LeadsInto
  <2>3. /\ \A i \in 1 .. n - 1 : next.calls[i] = walk.calls[i]
        /\ next.calls[n] = walk.calls[n] \ {e}
        /\ walk.found => Len(next.calls) = n
        /\ ~walk.found => Len(next.calls) = n + 1 /\ next.calls[n + 1] = Edges(e[2])
    BY <1>3, ContinuedCalls
  <2>4. \A f \in Edges(e[2]) : f[2] \in S
    <3>1. ASSUME NEW f \in Edges(e[2]) PROVE f[2] \in S
      <4>1. f \in Sems \X ddProcs /\ request[e[2]][f[1]] # 0 /\ allocation[f[2]][f[1]] # 0
        BY DEF Edges
      <4>2. f[1] \in Sems /\ f[2] \in ddProcs
        BY <4>1
      <4>3. WaitsFor(e[2], f[2])
        BY <4>1, <4>2 DEF WaitsFor
      <4> QED
        BY <2>2, <4>2, <4>3
    <3> QED
      BY <3>1
  <2>5. next.found = walk.found
    BY <1>3, WalkGoesOn
  <2> HIDE DEF next, e
  <2>6. \A i \in 1 .. Len(next.calls) : \A f \in next.calls[i] : f[2] \in S
    <3>1. ASSUME NEW i \in 1 .. Len(next.calls), NEW f \in next.calls[i] PROVE f[2] \in S
      <4>1. CASE i \in 1 .. n
        <5>1. next.calls[i] \subseteq walk.calls[i]
          BY <2>1, <2>3, <4>1
        <5> QED
          BY <4>1, <5>1 DEF LeadsInto
      <4>2. CASE i \notin 1 .. n
        <5>1. i = n + 1 /\ ~walk.found
          BY <2>1, <2>3, <4>2
        <5> QED
          BY <2>3, <2>4, <5>1
      <4> QED
        BY <4>1, <4>2
    <3> QED
      BY <3>1
  <2> QED
    BY <2>5, <2>6 DEF LeadsInto, next
<1> QED
  BY <1>1, <1>2, <1>3

(* Whoever the search takes for a process of a circle waits for itself through others, on
   any matrices (deadlockResolver.c:3-22). *)
THEOREM SearchVictimsInCycle == Matrices => VictimsInCycle
<1> SUFFICES ASSUME Matrices, NEW p \in Victims,
                    NEW S \in SUBSET ddProcs,
                    \A r \in S \cup {p}, t \in ddProcs : WaitsFor(r, t) => t \in S
             PROVE  p \in S
  BY DEF VictimsInCycle, Reaches
<1>1. p \in ddProcs /\ InCircularWait(p)
  BY DEF Victims, Stuck
<1>2. PICK walk : IsWalk(p, walk) /\ InCircularWait(p) = walk[2 * Cardinality(ddProcs) + 1].found
  BY <1>1, WalkSteps
<1> DEFINE Good == {k \in Nat : LeadsInto(walk[k], S, p)}
<1>3. 0 \in Good
  <2>1. walk[0].calls = <<Edges(p)>> /\ walk[0].found = FALSE
    BY <1>2 DEF IsWalk
  <2>2. \A e \in Edges(p) : e[2] \in S
    <3>1. ASSUME NEW e \in Edges(p) PROVE e[2] \in S
      <4>1. e \in Sems \X ddProcs /\ request[p][e[1]] # 0 /\ allocation[e[2]][e[1]] # 0
        BY DEF Edges
      <4>2. e[1] \in Sems /\ e[2] \in ddProcs
        BY <4>1
      <4>3. WaitsFor(p, e[2])
        BY <4>1, <4>2 DEF WaitsFor
      <4> QED
        BY <4>2, <4>3
    <3> QED
      BY <3>1
  <2>3. LeadsInto(walk[0], S, p)
    BY <2>1, <2>2 DEF LeadsInto
  <2> QED
    BY <2>3
<1>4. ASSUME NEW k \in Nat, k \in Good PROVE k + 1 \in Good
  <2>1. walk[k] \in Walks /\ walk[k + 1] = WalkStep(p)[walk[k]]
    BY <1>2 DEF IsWalk
  <2>2. LeadsInto(walk[k], S, p)
    BY <1>4
  <2>3. LeadsInto(WalkStep(p)[walk[k]], S, p)
    BY <2>1, <2>2, LeadsIntoStep
  <2> QED
    BY <2>1, <2>3
<1>5. Nat \subseteq Good
  <2> HIDE DEF Good
  <2> QED
    BY <1>3, <1>4, NatInductionSet
<1>6. 2 * Cardinality(ddProcs) + 1 \in Nat
  BY ProcsFinite DEF Matrices
<1> QED
  BY <1>1, <1>2, <1>5, <1>6 DEF LeadsInto

(* Whoever the search takes for a process of a circle requests something. *)
LEMMA VictimRequests ==
    ASSUME Matrices, NEW p \in Victims
    PROVE  \E s \in Sems : request[p][s] # 0
<1> SUFFICES ASSUME \A s \in Sems : request[p][s] = 0 PROVE FALSE
  OBVIOUS
<1>1. p \in ddProcs /\ Reaches(p, p)
  BY SearchVictimsInCycle DEF VictimsInCycle, Victims, Stuck
<1>2. \A t \in ddProcs : ~WaitsFor(p, t)
  BY DEF WaitsFor
<1>3. p \in {}
  BY <1>1, <1>2 DEF Reaches
<1> QED
  BY <1>3

(* Every call returns once and is for a holder of its own, so the search is over after
   2 n + 1 iterations. *)
LEMMA WalkEnds ==
    ASSUME Matrices, NEW base, NEW walk, IsWalk(base, walk)
    PROVE  walk[2 * Cardinality(ddProcs) + 1].calls = <<>>
<1> DEFINE n == Cardinality(ddProcs)
           Togo(w) == 2 * (n - Cardinality(w.seen)) + Len(w.calls)
           Good == {k \in Nat : walk[k].calls = <<>> \/ Togo(walk[k]) + k <= 2 * n + 1}
<1>0. IsFiniteSet(ddProcs) /\ n \in Nat
  BY ProcsFinite DEF Matrices
<1>1. ASSUME NEW w \in Walks
      PROVE  /\ IsFiniteSet(w.seen) /\ Cardinality(w.seen) \in Nat /\ Cardinality(w.seen) <= n
             /\ Len(w.calls) \in Nat /\ (Len(w.calls) = 0 => w.calls = <<>>)
  <2>1. w.seen \subseteq ddProcs /\ w.calls \in Seq(SUBSET (Sems \X ddProcs))
    BY DEF Walks
  <2> QED
    BY <1>0, <2>1, FS_Subset, FS_CardinalityType, LenProperties, EmptySeq
<1>2. 0 \in Good
  <2>1. walk[0].calls = <<Edges(base)>> /\ walk[0].seen = {}
    BY DEF IsWalk
  <2>2. Cardinality(walk[0].seen) = 0
    BY <2>1, FS_EmptySet
  <2>3. PICK edges : edges = Edges(base)
    OBVIOUS
  <2>4. Len(<<edges>>) = 1
    OBVIOUS
  <2>5. Len(walk[0].calls) = 1
    BY <2>1, <2>3, <2>4
  <2>6. Togo(walk[0]) + 0 <= 2 * n + 1
    <3>1. PICK m \in Nat : m = n
      BY <1>0
    <3>2. 2 * (m - 0) + 1 + 0 <= 2 * m + 1
      BY <3>1
    <3> QED
      BY <2>2, <2>5, <3>1, <3>2
  <2> QED
    BY <2>6
<1>3. ASSUME NEW k \in Nat, k \in Good PROVE k + 1 \in Good
  <2>1. walk[k] \in Walks /\ walk[k + 1] \in Walks /\ walk[k + 1] = WalkStep(base)[walk[k]]
    BY DEF IsWalk
  <2>2. PICK w \in Walks : w = walk[k]
    BY <2>1
  <2>3. PICK next \in Walks : next = WalkStep(base)[w] /\ next = walk[k + 1]
    BY <2>1, <2>2
  <2>4. CASE w.calls = <<>>
    <3>1. WalkStep(base)[w] = w
      BY <2>4 DEF WalkStep
    <3>2. walk[k + 1].calls = <<>>
      BY <2>3, <2>4, <3>1
    <3> QED
      BY <3>2
  <2>5. CASE w.calls # <<>> /\ ~GoesOn(base, w)
    <3>1. Len(next.calls) = Len(w.calls) - 1
      <4>1. Len(WalkStep(base)[w].calls) = Len(w.calls) - 1
        BY <2>5, ReturnedCalls
      <4> QED
        BY <2>3, <4>1
    <3>2. next.seen = w.seen
      <4>1. WalkStep(base)[w].seen = w.seen
        BY <2>5, WalkReturns
      <4> QED
        BY <2>3, <4>1
    <3>3. Togo(next) + (k + 1) <= 2 * n + 1
      <4>1. Togo(w) + k <= 2 * n + 1
        BY <1>3, <2>2, <2>5
      <4>2. Len(w.calls) \in Nat /\ Cardinality(w.seen) \in Nat
        BY <1>1
      <4>3. PICK m \in Nat, c \in Nat, l \in Nat :
                m = n /\ c = Cardinality(w.seen) /\ l = Len(w.calls)
        BY <1>0, <4>2
      <4>4. 2 * (m - c) + l + k <= 2 * m + 1
        BY <4>1, <4>3
      <4>5. 2 * (m - c) + (l - 1) + (k + 1) <= 2 * m + 1
        BY <4>4
      <4> QED
        BY <3>1, <3>2, <4>3, <4>5
    <3> QED
      BY <2>3, <3>3
  <2>6. CASE w.calls # <<>> /\ GoesOn(base, w)
    <3>1. Len(next.calls) <= Len(w.calls) + 1
      <4>1. /\ w.found => Len(WalkStep(base)[w].calls) = Len(w.calls)
            /\ ~w.found => Len(WalkStep(base)[w].calls) = Len(w.calls) + 1
        BY <2>6, ContinuedCalls
      <4> QED
        BY <1>1, <2>3, <4>1
    <3>2. next.seen = w.seen \cup {NextEdge(w)[2]} /\ NextEdge(w)[2] \notin w.seen
      <4>1. WalkStep(base)[w].seen = w.seen \cup {NextEdge(w)[2]}
        BY <2>6, WalkGoesOn
      <4> QED
        BY <2>3, <2>6, <4>1 DEF GoesOn
    <3>3. Cardinality(next.seen) = Cardinality(w.seen) + 1
      BY <1>1, <3>2, FS_AddElement
    <3>4. Togo(w) + k <= 2 * n + 1
      BY <1>3, <2>2, <2>6
    <3>5. Togo(next) + (k + 1) <= 2 * n + 1
      <4>1. /\ Len(next.calls) \in Nat /\ Len(w.calls) \in Nat
            /\ Cardinality(next.seen) \in Nat /\ Cardinality(w.seen) \in Nat
        BY <1>1
      <4>2. PICK m \in Nat, c \in Nat, l \in Nat, newL \in Nat :
                m = n /\ c = Cardinality(w.seen) /\ l = Len(w.calls) /\ newL = Len(next.calls)
        BY <1>0, <4>1
      <4>3. newL <= l + 1 /\ 2 * (m - c) + l + k <= 2 * m + 1
        BY <3>1, <3>4, <4>2
      <4>4. 2 * (m - (c + 1)) + newL + (k + 1) <= 2 * m + 1
        BY <4>3
      <4> QED
        BY <3>3, <4>2, <4>4
    <3> QED
      BY <2>3, <3>5
  <2> QED
    BY <2>4, <2>5, <2>6
<1>4. Nat \subseteq Good
  <2> HIDE DEF Good
  <2> QED
    BY <1>2, <1>3, NatInductionSet
<1>5. PICK w \in Walks : w = walk[2 * n + 1]
  BY <1>0 DEF IsWalk
<1>6. w.calls = <<>> \/ Togo(w) + (2 * n + 1) <= 2 * n + 1
  BY <1>0, <1>4, <1>5
<1>7. w.calls = <<>>
  BY <1>0, <1>1, <1>6
<1> QED
  BY <1>5, <1>7

(* With one holder for each semaphore and one request for each process there is one way on. *)
LEMMA OneEdge ==
    ASSUME Matrices, OneHolderEach, NEW p \in ddProcs,
           NEW e \in Edges(p), NEW f \in Edges(p)
    PROVE  e = f
<1>1. /\ e \in Sems \X ddProcs /\ request[p][e[1]] # 0 /\ allocation[e[2]][e[1]] # 0
      /\ f \in Sems \X ddProcs /\ request[p][f[1]] # 0 /\ allocation[f[2]][f[1]] # 0
  BY DEF Edges
<1>2. /\ e[1] \in Sems /\ e[2] \in ddProcs /\ e = <<e[1], e[2]>>
      /\ f[1] \in Sems /\ f[2] \in ddProcs /\ f = <<f[1], f[2]>>
  BY <1>1
<1>3. e[1] = f[1]
  BY <1>1, <1>2 DEF OneHolderEach
<1>4. e[2] = f[2]
  BY <1>1, <1>2, <1>3 DEF OneHolderEach
<1> QED
  BY <1>2, <1>3, <1>4

\* What the processes of S wait for is among those seen
LeadsToSeen(walk, S) == \A y \in S, t \in ddProcs : WaitsFor(y, t) => t \in walk.seen

\* The search is at x, the last it saw, and the calls outside have nothing left
Along(base, walk, x) ==
    /\ x \in walk.seen \cup {base} /\ base \notin walk.seen
    /\ walk.calls # <<>> /\ ~walk.found
    /\ Last(walk.calls) = Edges(x)
    /\ \A i \in 1 .. Len(walk.calls) - 1 : walk.calls[i] = {}
    /\ LeadsToSeen(walk, (walk.seen \cup {base}) \ {x})

\* The search has found the base and no call has anything left
Back(walk) == walk.found /\ \A i \in 1 .. Len(walk.calls) : walk.calls[i] = {}

(* A base that waits for itself through others is not outside a closed set of seen ones. *)
LEMMA SeenNotClosed ==
    ASSUME NEW base \in ddProcs, Reaches(base, base),
           NEW walk \in Walks, base \notin walk.seen, LeadsToSeen(walk, walk.seen \cup {base})
    PROVE  FALSE
<1>1. walk.seen \in SUBSET ddProcs
  BY DEF Walks
<1> QED
  BY <1>1 DEF LeadsToSeen, Reaches

(* What x waits for is what the innermost call goes through. *)
LEMMA WaitsEdge ==
    ASSUME NEW p \in ddProcs, NEW t \in ddProcs, WaitsFor(p, t)
    PROVE  \E e \in Edges(p) : e[2] = t
<1>1. PICK s \in Sems : request[p][s] # 0 /\ allocation[t][s] # 0
  BY DEF WaitsFor
<1>2. <<s, t>> \in Edges(p)
  BY <1>1 DEF Edges
<1> QED
  BY <1>2

(* The search goes along the only way there is until it comes to the base. *)
LEMMA AlongStep ==
    ASSUME Matrices, OneHolderEach, NEW base \in ddProcs, Reaches(base, base),
           NEW walk \in Walks, NEW x, Along(base, walk, x)
    PROVE  \/ \E y : Along(base, WalkStep(base)[walk], y)
           \/ Back(WalkStep(base)[walk])
<1> DEFINE next == WalkStep(base)[walk]
           n == Len(walk.calls)
           e == NextEdge(walk)
<1>0. /\ walk.calls # <<>> /\ x \in ddProcs /\ walk.found = FALSE
      /\ \A i \in 1 .. n - 1 : walk.calls[i] = {}
  BY DEF Along, Walks
<1>1. /\ n \in Nat \ {0} /\ Last(walk.calls) = walk.calls[n]
      /\ (Last(walk.calls) # {} => e \in Edges(x))
  BY <1>0, InnermostCall DEF Along
<1>2. CASE Last(walk.calls) = {}
  <2>1. ASSUME NEW t \in ddProcs PROVE ~WaitsFor(x, t)
    <3>1. Edges(x) = {}
      BY <1>2 DEF Along
    <3> QED
      BY <1>0, <3>1, WaitsEdge
  <2>2. LeadsToSeen(walk, walk.seen \cup {base})
    BY <2>1 DEF Along, LeadsToSeen
  <2> QED
    BY <2>2, SeenNotClosed DEF Along
<1>3. CASE Last(walk.calls) # {} /\ e[2] = base
  <2>1. ~GoesOn(base, walk)
    BY <1>3 DEF GoesOn
  <2>2. Len(next.calls) = n - 1 /\ \A i \in 1 .. n - 1 : next.calls[i] = walk.calls[i]
    BY <1>0, <2>1, ReturnedCalls
  <2>3. next.found
    BY <1>0, <1>3, <2>1, WalkReturns
  <2> HIDE DEF next
  <2>4. Back(next)
    BY <1>0, <1>1, <2>2, <2>3 DEF Back
  <2> QED
    BY <2>4 DEF next
<1>4. CASE Last(walk.calls) # {} /\ e[2] # base /\ e[2] \in walk.seen
  <2>1. \A t \in ddProcs : WaitsFor(x, t) => t \in walk.seen
    BY <1>0, <1>1, <1>4, WaitsEdge, OneEdge
  <2>2. LeadsToSeen(walk, walk.seen \cup {base})
    BY <2>1 DEF Along, LeadsToSeen
  <2> QED
    BY <2>2, SeenNotClosed DEF Along
<1>5. CASE GoesOn(base, walk)
  <2>1. /\ next \in Walks /\ e[2] \in ddProcs
        /\ \A i \in 1 .. n - 1 : next.calls[i] = walk.calls[i]
        /\ next.calls[n] = walk.calls[n] \ {e}
        /\ Len(next.calls) = n + 1 /\ next.calls[n + 1] = Edges(e[2])
    BY <1>0, <1>5, ContinuedCalls
  <2>2. next.seen = walk.seen \cup {e[2]} /\ next.found = walk.found
    BY <1>0, <1>5, WalkGoesOn
  <2>3. e \in Edges(x) /\ e[2] # base /\ walk.calls[n] = Edges(x)
    BY <1>1, <1>5 DEF GoesOn, Along
  <2>4. next.calls[n] = {}
    BY <1>0, <2>1, <2>3, OneEdge
  <2>5. \A t \in ddProcs : WaitsFor(x, t) => t = e[2]
    BY <1>0, <2>3, WaitsEdge, OneEdge
  <2> HIDE DEF next, e
  <2>6. next.calls # <<>> /\ Last(next.calls) = Edges(e[2])
    <3>1. Len(<<>>) = 0
      OBVIOUS
    <3>2. next.calls # <<>>
      BY <1>1, <2>1, <3>1
    <3> QED
      BY <2>1, <3>2 DEF Last
  <2>7. \A i \in 1 .. Len(next.calls) - 1 : next.calls[i] = {}
    BY <1>0, <1>1, <2>1, <2>4
  <2>8. LeadsToSeen(next, (next.seen \cup {base}) \ {e[2]})
    BY <2>2, <2>5 DEF Along, LeadsToSeen
  <2>9. base \notin next.seen /\ e[2] \in next.seen /\ ~next.found
    BY <1>0, <2>2, <2>3 DEF Along
  <2>10. Along(base, next, e[2])
    BY <2>6, <2>7, <2>8, <2>9 DEF Along
  <2> QED
    BY <2>10 DEF next
<1> QED
  BY <1>2, <1>3, <1>4, <1>5 DEF GoesOn

(* Once the base is found every call returns true. *)
LEMMA BackStep ==
    ASSUME Matrices, NEW base, NEW walk \in Walks, Back(walk)
    PROVE  Back(WalkStep(base)[walk])
<1> DEFINE next == WalkStep(base)[walk]
           n == Len(walk.calls)
<1>1. CASE walk.calls = <<>>
  BY <1>1 DEF WalkStep
<1>2. CASE walk.calls # <<>>
  <2>1. n \in Nat \ {0} /\ Last(walk.calls) = {}
    BY <1>2, InnermostCall DEF Back
  <2>2. ~GoesOn(base, walk)
    BY <2>1 DEF GoesOn
  <2>3. Len(next.calls) = n - 1 /\ \A i \in 1 .. n - 1 : next.calls[i] = walk.calls[i]
    BY <1>2, <2>2, ReturnedCalls
  <2>4. next.found
    BY <1>2, <2>1, <2>2, WalkReturns DEF Back
  <2> HIDE DEF next
  <2>5. Back(next)
    BY <2>1, <2>3, <2>4 DEF Back
  <2> QED
    BY <2>5 DEF next
<1> QED
  BY <1>1, <1>2

(* With semaphores that one process holds at a time, isInCircularWait finds whoever waits
   for itself through others, on any matrices. *)
THEOREM SearchMutexCyclesFound == Matrices => MutexCyclesFound
<1> SUFFICES ASSUME Matrices, OneHolderEach, NEW p \in Stuck, Reaches(p, p)
             PROVE  InCircularWait(p)
  BY DEF MutexCyclesFound, Victims
<1>1. p \in ddProcs
  BY DEF Stuck
<1>2. PICK walk : IsWalk(p, walk) /\ InCircularWait(p) = walk[2 * Cardinality(ddProcs) + 1].found
  BY <1>1, WalkSteps
<1> DEFINE Good == {k \in Nat : (\E x : Along(p, walk[k], x)) \/ Back(walk[k])}
<1>3. 0 \in Good
  <2>1. walk[0].calls = <<Edges(p)>> /\ walk[0].seen = {} /\ walk[0].found = FALSE
    BY <1>2 DEF IsWalk
  <2>2. PICK edges : edges = Edges(p)
    OBVIOUS
  <2>3. <<edges>> # <<>> /\ Len(<<edges>>) = 1 /\ Last(<<edges>>) = edges
    BY DEF Last
  <2>4. Along(p, walk[0], p)
    BY <2>1, <2>2, <2>3 DEF Along, LeadsToSeen
  <2> QED
    BY <2>4
<1>4. ASSUME NEW k \in Nat, k \in Good PROVE k + 1 \in Good
  <2>1. walk[k] \in Walks /\ walk[k + 1] = WalkStep(p)[walk[k]]
    BY <1>2 DEF IsWalk
  <2>2. CASE \E x : Along(p, walk[k], x)
    BY <1>1, <2>1, <2>2, AlongStep
  <2>3. CASE Back(walk[k])
    BY <2>1, <2>3, BackStep
  <2> QED
    BY <1>4, <2>2, <2>3
<1>5. Nat \subseteq Good
  <2> HIDE DEF Good
  <2> QED
    BY <1>3, <1>4, NatInductionSet
<1> DEFINE end == 2 * Cardinality(ddProcs) + 1
<1>6. end \in Nat
  BY ProcsFinite DEF Matrices
<1>7. walk[end].calls = <<>>
  BY <1>2, WalkEnds
<1>8. Back(walk[end])
  BY <1>5, <1>6, <1>7 DEF Along
<1> QED
  BY <1>2, <1>8 DEF Back

(* What is reached from a process that p waits for is reached from p. *)
LEMMA ReachesOn ==
    ASSUME NEW p \in ddProcs, NEW q \in ddProcs, WaitsFor(p, q), NEW r \in ddProcs, Reaches(q, r)
    PROVE  Reaches(p, r)
<1> SUFFICES ASSUME NEW S \in SUBSET ddProcs,
                    \A x \in S \cup {p}, t \in ddProcs : WaitsFor(x, t) => t \in S
             PROVE  r \in S
  BY DEF Reaches
<1>1. q \in S
  OBVIOUS
<1>2. \A x \in S \cup {q}, t \in ddProcs : WaitsFor(x, t) => t \in S
  BY <1>1
<1> QED
  BY <1>2 DEF Reaches

(* Processes each of which waits for another of them have a circle among them: the one
   that reaches the fewest is in it. *)
LEMMA CircleAmong ==
    ASSUME Matrices, NEW S, S \subseteq ddProcs, S # {},
           \A p \in S : \E q \in S : WaitsFor(p, q)
    PROVE  \E p \in S : Reaches(p, p)
<1> DEFINE R(p) == {q \in ddProcs : Reaches(p, q)}
           sizes == {Cardinality(R(p)) : p \in S}
<1>1. ASSUME NEW p \in S PROVE IsFiniteSet(R(p)) /\ Cardinality(R(p)) \in Nat
  BY ProcsFinite, FS_Subset, FS_CardinalityType DEF Matrices
<1>2. sizes \subseteq Nat /\ sizes # {}
  BY <1>1
<1>3. PICK p \in S : \A q \in S : Cardinality(R(p)) <= Cardinality(R(q))
  <2>1. Min(sizes) \in sizes /\ \A n \in sizes : Min(sizes) <= n
    <3> HIDE DEF sizes
    <3> QED
      BY <1>2, MinMember
  <2>2. PICK least : least = Min(sizes)
    OBVIOUS
  <2>3. PICK p \in S : Cardinality(R(p)) = least
    BY <2>1, <2>2
  <2>4. ASSUME NEW q \in S PROVE least <= Cardinality(R(q))
    BY <2>1, <2>2
  <2> HIDE DEF R
  <2> QED
    BY <2>3, <2>4
<1>4. PICK q \in S : WaitsFor(p, q)
  OBVIOUS
<1>5. R(q) \subseteq R(p)
  BY <1>4, ReachesOn
<1>6. Reaches(p, q)
  BY <1>4 DEF Reaches
<1>7. q \in R(p)
  BY <1>6
<1>8. q \in R(q)
  <2>1. PICK few, many : few = R(q) /\ many = R(p)
    OBVIOUS
  <2>2. /\ few \subseteq many /\ IsFiniteSet(many)
        /\ Cardinality(few) \in Nat /\ Cardinality(many) \in Nat
        /\ Cardinality(many) <= Cardinality(few)
    BY <1>1, <1>3, <1>5, <2>1
  <2>3. Cardinality(few) = Cardinality(many)
    BY <2>2, FS_Subset
  <2>4. few = many
    BY <2>2, <2>3, FS_Subset
  <2> QED
    BY <1>7, <2>1, <2>4
<1> QED
  BY <1>8

\* The units there are and those that are held are enough for each request alone
UnitsForEach ==
    \A s \in Sems : /\ available[s] >= 0
                    /\ \A p \in ddProcs : request[p][s] <= available[s] + HeldBy(ddProcs, s)

(* Where each semaphore is held by one process at a time and nobody asks for more units
   than there are, a deadlock has a process to terminate: list_get_maximum is not called on
   an empty list (deadlockResolver.c:82-91). *)
THEOREM SearchStuckHasVictim == Matrices /\ OneHolderEach /\ UnitsForEach => StuckHasVictim
<1> SUFFICES ASSUME Matrices, OneHolderEach, UnitsForEach, Stuck # {} PROVE Victims # {}
  BY DEF StuckHasVictim
<1>1. ASSUME NEW p \in Stuck PROVE \E q \in Stuck : WaitsFor(p, q)
  <2>1. PICK s \in Sems : request[p][s] > available[s] + HeldBy(Finishing, s)
    BY FinishingOver
  <2>2. Finishing \subseteq ddProcs /\ ddProcs \subseteq Procs /\ p \in ddProcs
    BY FinishingOver DEF Stuck, Matrices
  <2>3. HeldBy(Finishing, s) \in Nat /\ HeldBy(ddProcs, s) \in Nat
    BY <2>2, HeldByMore
  <2>4. /\ available[s] \in Int /\ available[s] >= 0 /\ request[p][s] \in Int
        /\ request[p][s] <= available[s] + HeldBy(ddProcs, s)
    BY <2>2 DEF UnitsForEach, Matrices
  <2>5. HeldBy(Finishing, s) # HeldBy(ddProcs, s)
    BY <2>1, <2>3, <2>4
  <2>6. PICK q \in ddProcs \ Finishing : allocation[q][s] # 0
    BY <2>2, <2>5, HeldByOthers
  <2>7. request[p][s] # 0
    BY <2>1, <2>3, <2>4
  <2>8. WaitsFor(p, q)
    BY <2>6, <2>7 DEF WaitsFor
  <2> QED
    BY <2>6, <2>8 DEF Stuck
<1>2. Stuck \subseteq ddProcs
  BY DEF Stuck
<1>3. PICK p \in Stuck : Reaches(p, p)
  BY <1>1, <1>2, CircleAmong
<1> QED
  BY <1>3, SearchMutexCyclesFound DEF MutexCyclesFound

=============================================================================
