---------------------------- MODULE CommonLemmas ----------------------------
(***************************************************************************)
(* Lemmas for several components: numbers, induction, and what the         *)
(* operations of shared/src/pQueue.c return, for every queue.              *)
(***************************************************************************)
EXTENDS SequencesExt, SequenceTheorems, FiniteSetTheorems, NaturalsInduction, TLAPS, Threads

-----------------------------------------------------------------------------
(* Numbers *)

(* A set of naturals that is not empty has a least element. *)
LEMMA MinMember ==
    ASSUME NEW S, S \subseteq Nat, S # {}
    PROVE  Min(S) \in S /\ \A x \in S : Min(S) <= x
<1>1. \E x \in S : \A y \in S : x <= y
  <2>1. IsWellFoundedOn(OpToRel(<, Nat), Nat)
    BY NatLessThanWellFounded
  <2>2. PICK x \in S : \A y \in S : <<y, x>> \notin OpToRel(<, Nat)
    BY <2>1, WFMin
  <2>3. \A y \in S : ~(y < x)
    BY <2>2 DEF OpToRel
  <2> QED
    BY <2>3
<1> QED
  BY <1>1 DEF Min

(* A set of naturals that has 0 and the successor of each of its elements has them all. *)
LEMMA NatInductionSet ==
    ASSUME NEW S, 0 \in S, \A n \in Nat : n \in S => n + 1 \in S
    PROVE  Nat \subseteq S
<1> SUFFICES ASSUME Nat \ S # {} PROVE FALSE
  OBVIOUS
<1> DEFINE least == Min(Nat \ S)
<1>1. least \in Nat \ S /\ \A x \in Nat \ S : least <= x
  BY MinMember
<1> HIDE DEF least
<1>2. least # 0 /\ least - 1 \in Nat
  BY <1>1
<1>3. least - 1 \in S
  BY <1>1, <1>2
<1> QED
  BY <1>1, <1>2, <1>3

(* A finite set of naturals that is not empty has a greatest element. *)
LEMMA MaxMember ==
    ASSUME NEW S, S \subseteq Nat, S # {}, IsFiniteSet(S)
    PROVE  Max(S) \in S /\ \A x \in S : x <= Max(S)
<1> DEFINE Bounded(T) == \E x \in T : \A y \in T : y <= x
           Sizes == {n \in Nat : \A T \in SUBSET Nat :
                        IsFiniteSet(T) /\ Cardinality(T) = n /\ T # {} => Bounded(T)}
<1>1. 0 \in Sizes
  BY FS_EmptySet
<1>2. ASSUME NEW n \in Nat, n \in Sizes PROVE n + 1 \in Sizes
  <2> SUFFICES ASSUME NEW T \in SUBSET Nat, IsFiniteSet(T), Cardinality(T) = n + 1, T # {}
               PROVE  Bounded(T)
    OBVIOUS
  <2>1. PICK x \in T : TRUE
    OBVIOUS
  <2>2. IsFiniteSet(T \ {x}) /\ Cardinality(T \ {x}) = n
    <3>1. IsFiniteSet(T \ {x}) /\ Cardinality(T \ {x}) = Cardinality(T) - 1
      BY FS_RemoveElement
    <3> QED
      BY <3>1
  <2>3. CASE T \ {x} = {}
    BY <2>1, <2>3
  <2>4. CASE T \ {x} # {}
    <3>1. PICK z \in T \ {x} : \A y \in T \ {x} : y <= z
      BY <1>2, <2>2, <2>4
    <3>2. CASE x <= z
      BY <3>1, <3>2
    <3>3. CASE z < x
      <4>1. \A y \in T : y <= x
        BY <3>1, <3>3
      <4> QED
        BY <4>1
    <3> QED
      BY <3>2, <3>3
  <2> QED
    BY <2>3, <2>4
<1>3. Nat \subseteq Sizes
  <2> HIDE DEF Sizes
  <2> QED
    BY <1>1, <1>2, NatInductionSet
<1>4. Bounded(S)
  <2>1. Cardinality(S) \in Nat
    BY FS_CardinalityType
  <2> QED
    BY <1>3, <2>1
<1>5. PICK z \in S : \A y \in S : y <= z
  BY <1>4
<1>6. \A y \in S : z >= y
  BY <1>5
<1>7. Max(S) \in S /\ \A y \in S : Max(S) >= y
  BY <1>6 DEF Max
<1> QED
  BY <1>7

\* f starts with x0 and goes on by a step for each number
Iterates(f, x0, step) == f[0] = x0 /\ \A k \in Nat : f[k + 1] = step[k][f[k]]

(* A value and a step for each number define a sequence of values. *)
LEMMA NatRecursion ==
    ASSUME NEW X, NEW x0 \in X, NEW step, \A k \in Nat, x \in X : step[k][x] \in X
    PROVE  \E f \in [Nat -> X] : Iterates(f, x0, step)
<1> DEFINE Upto(h, n) == /\ h \in [0 .. n -> X] /\ h[0] = x0
                         /\ \A k \in 0 .. n - 1 : h[k + 1] = step[k][h[k]]
           Exists == {n \in Nat : \E h : Upto(h, n)}
<1>1. 0 \in Exists
  <2>1. Upto([i \in 0 .. 0 |-> x0], 0)
    OBVIOUS
  <2> QED
    BY <2>1
<1>2. ASSUME NEW n \in Nat, n \in Exists PROVE n + 1 \in Exists
  <2>1. PICK h : Upto(h, n)
    BY <1>2
  <2> DEFINE g == [i \in 0 .. n + 1 |-> IF i = n + 1 THEN step[n][h[n]] ELSE h[i]]
  <2>2. n \in 0 .. n /\ h[n] \in X
    BY <2>1
  <2>3. step[n][h[n]] \in X
    BY <2>2
  <2>4. ASSUME NEW i \in 0 .. n + 1 PROVE g[i] \in X
    <3>1. CASE i = n + 1
      BY <3>1, <2>3
    <3>2. CASE i # n + 1
      <4>1. i \in 0 .. n
        BY <3>2
      <4> QED
        BY <3>2, <4>1, <2>1
    <3> QED
      BY <3>1, <3>2
  <2>5. g[0] = x0
    BY <2>1
  <2>6. ASSUME NEW k \in 0 .. (n + 1) - 1 PROVE g[k + 1] = step[k][g[k]]
    <3>1. g[k] = h[k]
      OBVIOUS
    <3>2. CASE k = n
      BY <3>1, <3>2
    <3>3. CASE k # n
      <4>1. k \in 0 .. n - 1 /\ k + 1 \in 0 .. n + 1 /\ k + 1 # n + 1
        BY <3>3
      <4> QED
        BY <3>1, <4>1, <2>1
    <3> QED
      BY <3>2, <3>3
  <2>7. g \in [0 .. n + 1 -> X]
    BY <2>4
  <2>8. Upto(g, n + 1)
    BY <2>5, <2>6, <2>7
  <2> HIDE DEF g
  <2>9. \E a : Upto(a, n + 1)
    BY <2>8
  <2>10. n + 1 \in Nat
    OBVIOUS
  <2> QED
    BY <2>9, <2>10
<1>3. Nat \subseteq Exists
  <2> HIDE DEF Exists
  <2> QED
    BY <1>1, <1>2, NatInductionSet
<1>4. ASSUME NEW m \in Nat, NEW n \in Nat, m <= n, NEW g, NEW h, Upto(g, m), Upto(h, n)
      PROVE  \A k \in 0 .. m : g[k] = h[k]
  <2> DEFINE Same == {k \in Nat : k <= m => g[k] = h[k]}
  <2>1. 0 \in Same
    BY <1>4
  <2>2. ASSUME NEW k \in Nat, k \in Same PROVE k + 1 \in Same
    <3> SUFFICES ASSUME k + 1 <= m PROVE g[k + 1] = h[k + 1]
      OBVIOUS
    <3>1. k \in 0 .. m - 1 /\ k \in 0 .. n - 1
      BY <1>4
    <3>2. g[k] = h[k]
      BY <2>2
    <3>3. g[k + 1] = step[k][g[k]] /\ h[k + 1] = step[k][h[k]]
      BY <1>4, <3>1
    <3> QED
      BY <3>2, <3>3
  <2>3. Nat \subseteq Same
    <3> HIDE DEF Same
    <3> QED
      BY <2>1, <2>2, NatInductionSet
  <2> QED
    BY <2>3
<1> DEFINE part == [n \in Nat |-> CHOOSE h : Upto(h, n)]
           f == [n \in Nat |-> part[n][n]]
<1>5. ASSUME NEW n \in Nat PROVE Upto(part[n], n)
  BY <1>3
<1> HIDE DEF part
<1>6. f \in [Nat -> X]
  <2>1. ASSUME NEW n \in Nat PROVE part[n][n] \in X
    BY <1>5
  <2> QED
    BY <2>1
<1>7. f[0] = x0
  BY <1>5
<1>8. ASSUME NEW k \in Nat PROVE f[k + 1] = step[k][f[k]]
  <2>1. Upto(part[k], k) /\ Upto(part[k + 1], k + 1)
    BY <1>5
  <2>2. k + 1 \in Nat /\ k <= k + 1 /\ k \in 0 .. k
    OBVIOUS
  <2>3. part[k][k] = part[k + 1][k]
    <3> HIDE DEF Upto
    <3> QED
      BY <2>1, <2>2, <1>4
  <2>4. part[k + 1][k + 1] = step[k][part[k + 1][k]]
    BY <2>1
  <2> QED
    BY <2>3, <2>4
<1> QED
  <2> HIDE DEF f
  <2>1. Iterates(f, x0, step)
    BY <1>7, <1>8 DEF Iterates
  <2> QED
    BY <1>6, <2>1

(* The page of an address and the offset in it. *)
LEMMA DivMod ==
    ASSUME NEW P \in Nat \ {0}, NEW n \in Nat
    PROVE  n \div P \in Nat /\ n % P \in 0 .. P - 1 /\ n = (n \div P) * P + (n % P)
OBVIOUS

(* An address is a page and an offset in one way. *)
LEMMA DivUnique ==
    ASSUME NEW P \in Nat \ {0}, NEW q \in Nat, NEW r \in 0 .. P - 1
    PROVE  (q * P + r) \div P = q /\ (q * P + r) % P = r
OBVIOUS

(* A higher address is in the same page or a later one. *)
LEMMA DivMonotone ==
    ASSUME NEW P \in Nat \ {0}, NEW a \in Nat, NEW b \in Nat, a <= b
    PROVE  a \div P <= b \div P
BY DivMod

-----------------------------------------------------------------------------
(* A queue with an entry more or less *)

(* A queue without its k-th entry. *)
LEMMA WithoutEntry ==
    ASSUME NEW S, NEW s \in Seq(S), NEW k \in 1 .. Len(s)
    PROVE  /\ RemoveAt(s, k) \in Seq(S)
           /\ Len(RemoveAt(s, k)) = Len(s) - 1
           /\ \A i \in 1 .. Len(s) - 1 : RemoveAt(s, k)[i] = IF i < k THEN s[i] ELSE s[i + 1]
<1> DEFINE t == RemoveAt(s, k)
           u == SubSeq(s, 1, k - 1)
           v == SubSeq(s, k + 1, Len(s))
<1>1. Len(s) \in Nat /\ k \in Int
  BY LenProperties
<1>2. \A i \in 1 .. Len(s) : s[i] \in S
  BY ElementOfSeq
<1>3. /\ u \in Seq(S) /\ Len(u) = k - 1
      /\ \A i \in 1 .. k - 1 : u[i] = s[i]
  BY <1>1, <1>2, SubSeqProperties
<1>4. /\ v \in Seq(S) /\ Len(v) = Len(s) - k
      /\ \A i \in 1 .. Len(s) - k : v[i] = s[k + i]
  BY <1>1, <1>2, SubSeqProperties
<1> HIDE DEF t, u, v
<1>5. t = u \o v
  BY DEF RemoveAt, t, u, v
<1>6. t \in Seq(S) /\ Len(t) = Len(s) - 1
  <2>1. u \o v \in Seq(S) /\ Len(u \o v) = Len(u) + Len(v)
    BY <1>3, <1>4, ConcatProperties
  <2>2. (k - 1) + (Len(s) - k) = Len(s) - 1
    BY <1>1
  <2> QED
    BY <2>1, <2>2, <1>3, <1>4, <1>5
<1>7. \A i \in 1 .. Len(s) - 1 : t[i] = IF i <= k - 1 THEN u[i] ELSE v[i - (k - 1)]
  BY <1>1, <1>3, <1>4, <1>5, ConcatProperties
<1>8. ASSUME NEW i \in 1 .. Len(s) - 1 PROVE t[i] = IF i < k THEN s[i] ELSE s[i + 1]
  <2>1. CASE i < k
    BY <1>1, <1>3, <1>7, <2>1
  <2>2. CASE ~(i < k)
    <3>1. i - (k - 1) \in 1 .. Len(s) - k /\ k + (i - (k - 1)) = i + 1
      BY <1>1, <2>2
    <3> QED
      BY <1>1, <1>4, <1>7, <2>2, <3>1
  <2> QED
    BY <2>1, <2>2
<1> QED
  BY <1>6, <1>8 DEF t

(* pQueue_removeBy takes out one entry of the element, the first, when there is one. *)
LEMMA RemoveFirstEntry ==
    ASSUME NEW s, Len(s) \in Nat, NEW e, \E i \in 1 .. Len(s) : s[i] = e
    PROVE  \E k \in 1 .. Len(s) : s[k] = e /\ RemoveFirst(s, e) = RemoveAt(s, k)
<1> DEFINE I == {i \in 1 .. Len(s) : s[i] = e}
           k == Min(I)
<1>1. I # {} /\ I \subseteq 1 .. Len(s)
  OBVIOUS
<1>2. k \in I
  <2>1. I \subseteq Nat
    BY <1>1
  <2> HIDE DEF I
  <2> QED
    BY <1>1, <2>1, MinMember
<1>3. RemoveFirst(s, e) = RemoveAt(s, k)
  BY <1>1 DEF RemoveFirst, SelectInSeq
<1> HIDE DEF k
<1> QED
  BY <1>2, <1>3

(* pQueue_removeBy leaves a queue of the same elements, or one fewer. *)
LEMMA RemoveFirstSeq ==
    ASSUME NEW S, NEW s \in Seq(S), NEW e
    PROVE  RemoveFirst(s, e) \in Seq(S)
<1>1. CASE \E i \in 1 .. Len(s) : s[i] = e
  <2>1. PICK k \in 1 .. Len(s) : s[k] = e /\ RemoveFirst(s, e) = RemoveAt(s, k)
    BY <1>1, RemoveFirstEntry, LenProperties
  <2> QED
    BY <2>1, WithoutEntry
<1>2. CASE ~ \E i \in 1 .. Len(s) : s[i] = e
  BY <1>2 DEF RemoveFirst
<1> QED
  BY <1>1, <1>2

(* pQueue_takeLast on a queue that is not empty: one of its elements, and the rest. *)
LEMMA LastFrontSeq ==
    ASSUME NEW S, NEW s \in Seq(S), s # <<>>
    PROVE  Last(s) \in S /\ Front(s) \in Seq(S)
<1>1. Len(s) \in Nat \ {0}
  BY EmptySeq, LenProperties
<1>2. s[Len(s)] \in S
  BY <1>1, ElementOfSeq
<1>3. SubSeq(s, 1, Len(s) - 1) \in Seq(S)
  BY <1>1, SubSeqProperties, ElementOfSeq
<1> QED
  BY <1>2, <1>3 DEF Last, Front

-----------------------------------------------------------------------------
(* Queues of distinct elements *)

(* What pQueue_put leaves in the queue. *)
LEMMA AppendRange ==
    ASSUME NEW S, NEW s \in Seq(S), NEW e \in S
    PROVE  /\ Range(Append(s, e)) = Range(s) \cup {e}
           /\ IsInjective(s) /\ e \notin Range(s) => IsInjective(Append(s, e))
<1>1. Len(s) \in Nat /\ DOMAIN s = 1 .. Len(s)
  BY LenProperties
<1>2. DOMAIN Append(s, e) = 1 .. Len(s) + 1
  BY AppendProperties, <1>1
<1>3. \A i \in 1 .. Len(s) : Append(s, e)[i] = s[i]
  BY AppendProperties
<1>4. Append(s, e)[Len(s) + 1] = e
  BY AppendProperties
<1> HIDE <1>1
<1>5. 1 .. Len(s) + 1 = 1 .. Len(s) \cup {Len(s) + 1}
  BY <1>1
<1>6. Range(Append(s, e)) = Range(s) \cup {e}
  BY <1>1, <1>2, <1>3, <1>4, <1>5 DEF Range
<1>7. IsInjective(s) /\ e \notin Range(s) => IsInjective(Append(s, e))
  BY <1>1, <1>2, <1>3, <1>4, <1>5 DEF Range, IsInjective
<1> QED
  BY <1>6, <1>7

(* What pQueue_take leaves in a queue of distinct processes, and what it takes. *)
LEMMA HeadTailRange ==
    ASSUME NEW S, NEW s \in Seq(S), s # <<>>
    PROVE  /\ Head(s) \in S /\ Head(s) \in Range(s) /\ Tail(s) \in Seq(S)
           /\ Range(s) = Range(Tail(s)) \cup {Head(s)}
           /\ IsInjective(s) => IsInjective(Tail(s)) /\ Head(s) \notin Range(Tail(s))
<1>1. Len(s) \in Nat \ {0} /\ DOMAIN s = 1 .. Len(s)
  BY EmptySeq, LenProperties
<1>2. /\ Tail(s) \in Seq(S) /\ DOMAIN Tail(s) = 1 .. Len(s) - 1
      /\ \A i \in 1 .. Len(s) - 1 : Tail(s)[i] = s[i + 1]
  BY HeadTailProperties, LenProperties, <1>1
<1>3. Head(s) = s[1] /\ Head(s) \in S
  BY HeadTailProperties, <1>1, ElementOfSeq
<1>4. \A i \in 1 .. Len(s) : i = 1 \/ (i - 1 \in 1 .. Len(s) - 1 /\ Tail(s)[i - 1] = s[i])
  BY <1>1, <1>2
<1>5. \A i \in 1 .. Len(s) - 1 : i + 1 \in 1 .. Len(s) /\ i + 1 # 1
  BY <1>1
<1>6. 1 \in 1 .. Len(s)
  BY <1>1
<1>7. Head(s) \in Range(s)
  BY <1>1, <1>3, <1>6 DEF Range
<1>8. Range(s) = Range(Tail(s)) \cup {Head(s)}
  <2>1. ASSUME NEW x \in Range(s) PROVE x \in Range(Tail(s)) \cup {Head(s)}
    <3>1. PICK i \in 1 .. Len(s) : x = s[i]
      BY <1>1 DEF Range
    <3> QED
      BY <3>1, <1>2, <1>3, <1>4 DEF Range
  <2>2. ASSUME NEW x \in Range(Tail(s)) PROVE x \in Range(s)
    <3>1. PICK i \in 1 .. Len(s) - 1 : x = Tail(s)[i]
      BY <1>2 DEF Range
    <3> QED
      BY <3>1, <1>1, <1>2, <1>5 DEF Range
  <2> QED
    BY <2>1, <2>2, <1>7
<1>9. ASSUME IsInjective(s) PROVE IsInjective(Tail(s)) /\ Head(s) \notin Range(Tail(s))
  <2>1. \A i, j \in 1 .. Len(s) : s[i] = s[j] => i = j
    BY <1>9, <1>1 DEF IsInjective
  <2>2. \A i, j \in 1 .. Len(s) - 1 : Tail(s)[i] = Tail(s)[j] => i = j
    <3> SUFFICES ASSUME NEW i \in 1 .. Len(s) - 1, NEW j \in 1 .. Len(s) - 1,
                        Tail(s)[i] = Tail(s)[j]
                 PROVE  i = j
      OBVIOUS
    <3>1. i + 1 = j + 1
      BY <2>1, <1>2, <1>5
    <3> QED
      BY <3>1, <1>1
  <2>3. Head(s) \notin Range(Tail(s))
    <3> SUFFICES ASSUME NEW i \in 1 .. Len(s) - 1, Tail(s)[i] = s[1] PROVE FALSE
      BY <1>2, <1>3 DEF Range
    <3> QED
      BY <2>1, <1>2, <1>5, <1>6
  <2> QED
    BY <2>2, <2>3, <1>2 DEF IsInjective
<1> QED
  BY <1>2, <1>3, <1>7, <1>8, <1>9

(* Without its k-th entry, a queue of distinct elements has the others. *)
LEMMA WithoutEntryRange ==
    ASSUME NEW S, NEW s \in Seq(S), NEW k \in 1 .. Len(s), IsInjective(s)
    PROVE  IsInjective(RemoveAt(s, k)) /\ Range(RemoveAt(s, k)) = Range(s) \ {s[k]}
<1> DEFINE t == RemoveAt(s, k)
<1>1. /\ Len(s) \in Nat /\ DOMAIN s = 1 .. Len(s)
      /\ DOMAIN t = 1 .. Len(s) - 1
      /\ \A i \in 1 .. Len(s) - 1 : t[i] = IF i < k THEN s[i] ELSE s[i + 1]
  BY WithoutEntry, LenProperties
<1>2. \A i, j \in 1 .. Len(s) : s[i] = s[j] => i = j
  BY <1>1 DEF IsInjective
<1> HIDE DEF t
<1> DEFINE at(i) == IF i < k THEN i ELSE i + 1
<1>3. \A i \in 1 .. Len(s) - 1 : at(i) \in 1 .. Len(s) /\ at(i) # k /\ t[i] = s[at(i)]
  BY <1>1
<1>4. \A i, j \in 1 .. Len(s) - 1 : at(i) = at(j) => i = j
  BY <1>1
<1>5. \A n \in 1 .. Len(s) : n # k => \E i \in 1 .. Len(s) - 1 : at(i) = n
  <2> SUFFICES ASSUME NEW n \in 1 .. Len(s), n # k
               PROVE  \E i \in 1 .. Len(s) - 1 : at(i) = n
    OBVIOUS
  <2>1. CASE n < k
    <3>1. n \in 1 .. Len(s) - 1 /\ at(n) = n
      BY <1>1, <2>1
    <3> QED
      BY <3>1
  <2>2. CASE n > k
    <3>1. n - 1 \in 1 .. Len(s) - 1 /\ at(n - 1) = n
      BY <1>1, <2>2
    <3> QED
      BY <3>1
  <2> QED
    <3>1. n < k \/ n > k
      BY <1>1
    <3> QED
      BY <2>1, <2>2, <3>1
<1> HIDE DEF at
<1>6. IsInjective(t)
  BY <1>1, <1>2, <1>3, <1>4 DEF IsInjective
<1>7. Range(t) = Range(s) \ {s[k]}
  <2>1. ASSUME NEW x \in Range(t) PROVE x \in Range(s) \ {s[k]}
    <3>1. PICK i \in 1 .. Len(s) - 1 : x = t[i]
      BY <1>1 DEF Range
    <3> QED
      BY <3>1, <1>1, <1>2, <1>3 DEF Range
  <2>2. ASSUME NEW x \in Range(s) \ {s[k]} PROVE x \in Range(t)
    <3>1. PICK n \in 1 .. Len(s) : x = s[n]
      BY <1>1 DEF Range
    <3>2. PICK i \in 1 .. Len(s) - 1 : at(i) = n
      BY <3>1, <1>5
    <3>3. x = t[i]
      BY <3>1, <3>2, <1>3
    <3> QED
      BY <3>3, <1>1 DEF Range
  <2> QED
    BY <2>1, <2>2
<1> QED
  BY <1>6, <1>7 DEF t

(* pQueue_takeLast on a queue of distinct elements. *)
LEMMA LastFrontRange ==
    ASSUME NEW S, NEW s \in Seq(S), s # <<>>, IsInjective(s)
    PROVE  /\ Last(s) \in Range(s)
           /\ IsInjective(Front(s)) /\ Range(Front(s)) = Range(s) \ {Last(s)}
<1>1. Len(s) \in Nat \ {0} /\ DOMAIN s = 1 .. Len(s)
  BY EmptySeq, LenProperties
<1>2. Len(s) \in 1 .. Len(s)
  BY <1>1
<1>3. Front(s) = RemoveAt(s, Len(s))
  <2>1. SubSeq(s, Len(s) + 1, Len(s)) = <<>>
    BY <1>1, SubSeqEmpty
  <2>2. SubSeq(s, 1, Len(s) - 1) \in Seq(S)
    BY <1>1, SubSeqProperties, ElementOfSeq
  <2>3. Front(s) = SubSeq(s, 1, Len(s) - 1)
    BY DEF Front
  <2> QED
    BY <2>1, <2>2, <2>3, ConcatEmptySeq DEF RemoveAt
<1>4. IsInjective(Front(s)) /\ Range(Front(s)) = Range(s) \ {s[Len(s)]}
  BY <1>2, <1>3, WithoutEntryRange
<1> QED
  BY <1>1, <1>2, <1>4 DEF Last, Range

(* pQueue_removeBy on a queue of distinct elements: the element is no more in it. *)
LEMMA RemoveFirstRange ==
    ASSUME NEW S, NEW s \in Seq(S), NEW e, IsInjective(s)
    PROVE  IsInjective(RemoveFirst(s, e)) /\ Range(RemoveFirst(s, e)) = Range(s) \ {e}
<1>1. Len(s) \in Nat /\ DOMAIN s = 1 .. Len(s)
  BY LenProperties
<1>2. CASE \E i \in 1 .. Len(s) : s[i] = e
  <2>1. PICK k \in 1 .. Len(s) : s[k] = e /\ RemoveFirst(s, e) = RemoveAt(s, k)
    BY <1>1, <1>2, RemoveFirstEntry
  <2> QED
    BY <2>1, WithoutEntryRange
<1>3. CASE ~ \E i \in 1 .. Len(s) : s[i] = e
  BY <1>1, <1>3 DEF RemoveFirst, Range
<1> QED
  BY <1>2, <1>3

-----------------------------------------------------------------------------
(* Counting threads by their program counter *)

(* How many threads are at a step is a natural number, zero when no thread is there. *)
LEMMA NumAtType ==
    ASSUME NEW D, IsFiniteSet(D), NEW f, NEW v
    PROVE  /\ NumAt(D, f, v) \in Nat
           /\ (\A d \in D : f[d] # v) => NumAt(D, f, v) = 0
<1>1. IsFiniteSet(AtStep(D, f, v))
  BY FS_Subset DEF AtStep
<1>2. (\A d \in D : f[d] # v) => AtStep(D, f, v) = {}
  BY DEF AtStep
<1> QED
  BY <1>1, <1>2, FS_CardinalityType, FS_EmptySet DEF NumAt

(* A thread that arrives at a step is counted once there, and one that leaves no more. *)
LEMMA NumAtChange ==
    ASSUME NEW D, IsFiniteSet(D), NEW f, NEW g, NEW v, NEW x
    PROVE  /\ AtStep(D, g, v) = AtStep(D, f, v) \cup {x} /\ x \notin AtStep(D, f, v)
                => NumAt(D, g, v) = NumAt(D, f, v) + 1
           /\ AtStep(D, g, v) = AtStep(D, f, v) \ {x} /\ x \in AtStep(D, f, v)
                => NumAt(D, g, v) = NumAt(D, f, v) - 1
<1> DEFINE A == AtStep(D, f, v)
           B == AtStep(D, g, v)
<1>1. IsFiniteSet(A)
  BY FS_Subset DEF AtStep
<1> HIDE DEF A, B
<1>2. B = A \cup {x} /\ x \notin A => Cardinality(B) = Cardinality(A) + 1
  BY <1>1, FS_AddElement
<1>3. B = A \ {x} /\ x \in A => Cardinality(B) = Cardinality(A) - 1
  BY <1>1, FS_RemoveElement
<1> QED
  BY <1>2, <1>3 DEF A, B, NumAt

(* A finite set that gets an element, or loses one, is one larger or smaller. *)
LEMMA CardinalityChange ==
    ASSUME NEW A, IsFiniteSet(A), NEW B, NEW x
    PROVE  /\ Cardinality(A) \in Nat
           /\ B = A \cup {x} /\ x \notin A => Cardinality(B) = Cardinality(A) + 1
           /\ B = A \ {x} /\ x \in A => Cardinality(B) = Cardinality(A) - 1
BY FS_CardinalityType, FS_AddElement, FS_RemoveElement

-----------------------------------------------------------------------------
(* Counting the entries of an element *)

Positions(s, e) == {i \in DOMAIN s : s[i] = e}

(* The positions of an element are finitely many. *)
LEMMA PositionsFinite ==
    ASSUME NEW S, NEW s \in Seq(S), NEW e
    PROVE  IsFiniteSet(Positions(s, e)) /\ Cardinality(Positions(s, e)) \in Nat
<1>1. Positions(s, e) \subseteq 1 .. Len(s) /\ Len(s) \in Nat
  BY LenProperties DEF Positions
<1>2. IsFiniteSet(1 .. Len(s))
  BY <1>1, FS_Interval
<1>3. IsFiniteSet(Positions(s, e))
  BY <1>1, <1>2, FS_Subset
<1> QED
  BY <1>3, FS_CardinalityType

(* pQueue_put adds one position. *)
LEMMA AppendPositions ==
    ASSUME NEW S, NEW s \in Seq(S), NEW x \in S, NEW e
    PROVE  Cardinality(Positions(Append(s, x), e))
               = Cardinality(Positions(s, e)) + One(x = e)
<1>1. /\ Len(s) \in Nat /\ DOMAIN s = 1 .. Len(s)
      /\ DOMAIN Append(s, x) = 1 .. Len(s) + 1
      /\ \A i \in 1 .. Len(s) : Append(s, x)[i] = s[i]
      /\ Append(s, x)[Len(s) + 1] = x
  BY AppendProperties, LenProperties
<1>2. CASE x = e
  <2>1. /\ Positions(Append(s, x), e) = Positions(s, e) \cup {Len(s) + 1}
        /\ Len(s) + 1 \notin Positions(s, e)
    BY <1>1, <1>2 DEF Positions
  <2> QED
    BY <2>1, <1>2, PositionsFinite, CardinalityChange DEF One
<1>3. CASE x # e
  <2>1. Positions(Append(s, x), e) = Positions(s, e)
    BY <1>1, <1>3 DEF Positions
  <2> QED
    BY <2>1, <1>3, PositionsFinite DEF One
<1> QED
  BY <1>2, <1>3

(* A queue without its k-th entry has one position of that element fewer. *)
LEMMA WithoutEntryPositions ==
    ASSUME NEW S, NEW s \in Seq(S), NEW k \in 1 .. Len(s), NEW e
    PROVE  Cardinality(Positions(s, e))
               = Cardinality(Positions(RemoveAt(s, k), e)) + One(s[k] = e)
<1> DEFINE t == RemoveAt(s, k)
           A == Positions(s, e)
           B == Positions(t, e)
           f == [i \in B |-> IF i < k THEN i ELSE i + 1]
<1>1. /\ Len(s) \in Nat /\ k \in Nat /\ DOMAIN s = 1 .. Len(s)
      /\ DOMAIN t = 1 .. Len(s) - 1
      /\ t \in Seq(S)
      /\ \A i \in 1 .. Len(s) - 1 : t[i] = IF i < k THEN s[i] ELSE s[i + 1]
  BY WithoutEntry, LenProperties
<1> HIDE DEF t
<1>2. IsFiniteSet(A) /\ IsFiniteSet(B)
  BY <1>1, PositionsFinite
<1>3. f \in [B -> A \ {k}]
  <2> SUFFICES ASSUME NEW i \in B PROVE f[i] \in A \ {k}
    OBVIOUS
  <2>1. i \in 1 .. Len(s) - 1 /\ t[i] = e
    BY <1>1 DEF Positions
  <2> QED
    BY <1>1, <2>1 DEF Positions
<1>4. ASSUME NEW i \in B, NEW j \in B, f[i] = f[j] PROVE i = j
  <2>1. i \in Int /\ j \in Int
    BY <1>1 DEF Positions
  <2> QED
    BY <1>1, <1>4, <2>1
<1>5. ASSUME NEW n \in A \ {k} PROVE \E i \in B : f[i] = n
  <2>1. n \in 1 .. Len(s) /\ n # k /\ s[n] = e
    BY <1>1 DEF Positions
  <2>2. CASE n < k
    <3>1. n \in 1 .. Len(s) - 1 /\ t[n] = s[n]
      BY <1>1, <2>1, <2>2
    <3> QED
      BY <3>1, <2>1, <2>2, <1>1 DEF Positions
  <2>3. CASE n > k
    <3>1. /\ n - 1 \in 1 .. Len(s) - 1 /\ ~(n - 1 < k) /\ n - 1 + 1 = n
      BY <1>1, <2>1, <2>3
    <3>2. t[n - 1] = s[n]
      BY <1>1, <3>1
    <3>3. n - 1 \in B
      BY <3>1, <3>2, <2>1, <1>1 DEF Positions
    <3> QED
      BY <3>1, <3>3
  <2> QED
    BY <1>1, <2>1, <2>2, <2>3
<1>6. f \in Bijection(B, A \ {k})
  BY <1>3, <1>4, <1>5 DEF Bijection, Injection, Surjection, IsInjective
<1>7. Cardinality(A \ {k}) = Cardinality(B)
  BY <1>2, <1>6, FS_Bijection DEF ExistsBijection
<1>8. k \in A <=> s[k] = e
  BY <1>1 DEF Positions
<1> HIDE DEF A, B, f
<1>9. CASE s[k] = e
  BY <1>2, <1>7, <1>8, <1>9, CardinalityChange, FS_CardinalityType DEF A, B, t, One
<1>10. CASE s[k] # e
  <2>1. A \ {k} = A
    BY <1>8, <1>10
  <2>2. One(s[k] = e) = 0
    BY <1>10 DEF One
  <2>3. Cardinality(A) = Cardinality(B) /\ Cardinality(B) \in Nat
    BY <1>2, <1>7, <2>1, FS_CardinalityType
  <2> QED
    BY <2>2, <2>3 DEF A, B, t
<1> QED
  BY <1>9, <1>10

(* pQueue_take takes out the first entry. *)
LEMMA TailPositions ==
    ASSUME NEW S, NEW s \in Seq(S), s # <<>>, NEW e
    PROVE  Cardinality(Positions(s, e))
               = Cardinality(Positions(Tail(s), e)) + One(Head(s) = e)
<1>1. Len(s) \in Nat /\ 1 \in 1 .. Len(s) /\ Head(s) = s[1]
  BY EmptySeq, LenProperties, HeadTailProperties
<1>2. RemoveAt(s, 1) = Tail(s)
  <2>1. /\ Tail(s) \in Seq(S) /\ Len(Tail(s)) = Len(s) - 1
        /\ \A i \in 1 .. Len(s) - 1 : Tail(s)[i] = s[i + 1]
    BY HeadTailProperties, LenProperties, <1>1
  <2>2. /\ RemoveAt(s, 1) \in Seq(S) /\ Len(RemoveAt(s, 1)) = Len(s) - 1
        /\ \A i \in 1 .. Len(s) - 1 : RemoveAt(s, 1)[i] = s[i + 1]
    BY <1>1, WithoutEntry
  <2>3. \A i \in 1 .. Len(Tail(s)) : Tail(s)[i] = RemoveAt(s, 1)[i]
    BY <2>1, <2>2
  <2> QED
    BY <2>1, <2>2, <2>3, SeqEqual
<1>3. Cardinality(Positions(s, e))
          = Cardinality(Positions(RemoveAt(s, 1), e)) + One(s[1] = e)
  BY <1>1, WithoutEntryPositions
<1> QED
  BY <1>1, <1>2, <1>3

(* pQueue_removeBy leaves the entries of the others. *)
LEMMA RemoveFirstPositions ==
    ASSUME NEW S, NEW s \in Seq(S), NEW x, NEW e, e # x
    PROVE  Cardinality(Positions(RemoveFirst(s, x), e)) = Cardinality(Positions(s, e))
<1>1. CASE \E i \in 1 .. Len(s) : s[i] = x
  <2>1. PICK k \in 1 .. Len(s) : s[k] = x /\ RemoveFirst(s, x) = RemoveAt(s, k)
    BY <1>1, RemoveFirstEntry, LenProperties
  <2>2. RemoveAt(s, k) \in Seq(S)
    BY WithoutEntry
  <2>3. Cardinality(Positions(RemoveAt(s, k), e)) \in Nat
    BY <2>2, PositionsFinite
  <2>4. One(s[k] = e) = 0
    BY <2>1 DEF One
  <2> QED
    BY <2>1, <2>3, <2>4, WithoutEntryPositions
<1>2. CASE ~ \E i \in 1 .. Len(s) : s[i] = x
  BY <1>2 DEF RemoveFirst
<1> QED
  BY <1>1, <1>2

=============================================================================
