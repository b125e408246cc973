----------------------------- MODULE HeapProofs -----------------------------
(***************************************************************************)
(* Proofs that the handlers of memalloc and memfree keep the list of       *)
(* allocations of a process whole and give it the blocks of a first-fit    *)
(* allocator, whatever the sizes it asks for.                              *)
(***************************************************************************)
EXTENDS Heap, CommonLemmas

-----------------------------------------------------------------------------
(* The list *)

Metadata == [prevAlloc : Nat, nextAlloc : Nat, isFree : BOOLEAN]

\* The metadata point to metadata of the list, that begins at 0
WellFormed(h) ==
    /\ h \in [DOMAIN h -> Metadata]
    /\ DOMAIN h \subseteq Nat /\ 0 \in DOMAIN h
    /\ \A a \in DOMAIN h : h[a].prevAlloc \in DOMAIN h /\ h[a].nextAlloc \in DOMAIN h

\* Each allocation is behind the one before it, with none between the two
Ordered(h) ==
    /\ \A a \in DOMAIN h :
         h[a].nextAlloc # 0 => /\ h[a].nextAlloc >= a + Header
                               /\ h[h[a].nextAlloc].prevAlloc = a
                               /\ \A b \in DOMAIN h : b <= a \/ h[a].nextAlloc <= b
    /\ \A a \in DOMAIN h :
         IF a = 0 THEN h[a].prevAlloc = 0 ELSE h[h[a].prevAlloc].nextAlloc = a

\* The last allocation is free
Ended(h) ==
    /\ \E a \in DOMAIN h : h[a].nextAlloc = 0
    /\ \A a \in DOMAIN h : h[a].nextAlloc = 0 => h[a].isFree /\ \A b \in DOMAIN h : b <= a

\* No two neighbours are free
NoneToAbsorb(h) ==
    \A a \in DOMAIN h : h[a].isFree => h[a].nextAlloc = 0 \/ ~h[h[a].nextAlloc].isFree

List(h) == WellFormed(h) /\ Ordered(h) /\ Ended(h) /\ NoneToAbsorb(h)

\* The pages end with the last allocation's
EndsAt(h, n) == \A a \in DOMAIN h : h[a].nextAlloc = 0 => n = PageBehind(a) + 1

\* Before the first memalloc, or for ever after it was refused, there is no list
HeapInv ==
    /\ pages \in 0 .. MaxPages
    /\ \/ head = << >> /\ pages \in {0, 1}
       \/ List(head) /\ EndsAt(head, pages)

(* Metadata are smaller than a page. *)
LEMMA HeaderType == Header \in Nat /\ Header > 0 /\ Header < PageSize /\ PageSize \in Nat \ {0}
BY HeapAssumption DEF HeapAssumption

(* An allocation given whole. *)
LEMMA WholeList ==
    ASSUME NEW h, List(h), NEW n, EndsAt(h, n), NEW a \in DOMAIN h, h[a].nextAlloc # 0
    PROVE  /\ List([h EXCEPT ![a].isFree = FALSE])
           /\ EndsAt([h EXCEPT ![a].isFree = FALSE], n)
<1> DEFINE g == [h EXCEPT ![a].isFree = FALSE]
<1>1. /\ DOMAIN g = DOMAIN h /\ g \in [DOMAIN h -> Metadata]
      /\ \A b \in DOMAIN h : /\ g[b].prevAlloc = h[b].prevAlloc
                             /\ g[b].nextAlloc = h[b].nextAlloc
                             /\ g[b].isFree = (b # a /\ h[b].isFree)
  BY DEF List, WellFormed, Metadata
<1> HIDE DEF g
<1>2. WellFormed(g)
  BY <1>1 DEF List, WellFormed
<1>3. Ordered(g)
  <2>1. \A b \in DOMAIN h : h[b].prevAlloc \in DOMAIN h /\ h[b].nextAlloc \in DOMAIN h
    BY DEF List, WellFormed
  <2>2. ASSUME NEW b \in DOMAIN h, h[b].nextAlloc # 0
        PROVE  /\ h[b].nextAlloc >= b + Header
               /\ h[h[b].nextAlloc].prevAlloc = b
               /\ \A c \in DOMAIN h : c <= b \/ h[b].nextAlloc <= c
    BY <2>2 DEF List, Ordered
  <2>3. \A b \in DOMAIN h :
           IF b = 0 THEN h[b].prevAlloc = 0 ELSE h[h[b].prevAlloc].nextAlloc = b
    BY DEF List, Ordered
  <2>4. ASSUME NEW b \in DOMAIN g, g[b].nextAlloc # 0
        PROVE  /\ g[b].nextAlloc >= b + Header
               /\ g[g[b].nextAlloc].prevAlloc = b
               /\ \A c \in DOMAIN g : c <= b \/ g[b].nextAlloc <= c
    BY <1>1, <2>1, <2>2, <2>4
  <2>5. ASSUME NEW b \in DOMAIN g
        PROVE  IF b = 0 THEN g[b].prevAlloc = 0 ELSE g[g[b].prevAlloc].nextAlloc = b
    <3>1. g[b].prevAlloc = h[b].prevAlloc /\ h[b].prevAlloc \in DOMAIN h
      BY <1>1, <2>1
    <3>2. g[h[b].prevAlloc].nextAlloc = h[h[b].prevAlloc].nextAlloc
      BY <1>1, <3>1
    <3> QED
      BY <1>1, <2>3, <3>1, <3>2
  <2> QED
    BY <2>4, <2>5 DEF Ordered
<1>4. Ended(g)
  BY <1>1 DEF List, WellFormed, Ended
<1>5. NoneToAbsorb(g)
  BY <1>1 DEF List, WellFormed, NoneToAbsorb
<1>6. EndsAt(g, n)
  BY <1>1 DEF EndsAt
<1> QED
  BY <1>2, <1>3, <1>4, <1>5, <1>6 DEF List, g

(* An allocation given, with the rest of its room behind it. *)
LEMMA SplitList ==
    ASSUME NEW h, List(h), NEW n, EndsAt(h, n), NEW a \in DOMAIN h,
           NEW old, old = h[a].nextAlloc,
           NEW mid \in Nat, old # 0, mid >= a + Header, mid + Header < old, h[a].isFree
    PROVE  /\ List(With([h EXCEPT ![a] = Alloc(@.prevAlloc, mid, FALSE), ![old].prevAlloc = mid],
                        mid, Alloc(a, old, TRUE)))
           /\ EndsAt(With([h EXCEPT ![a] = Alloc(@.prevAlloc, mid, FALSE), ![old].prevAlloc = mid],
                          mid, Alloc(a, old, TRUE)), n)
<1> DEFINE g == With([h EXCEPT ![a] = Alloc(@.prevAlloc, mid, FALSE), ![old].prevAlloc = mid],
                     mid, Alloc(a, old, TRUE))
<1>0. /\ DOMAIN h \subseteq Nat /\ 0 \in DOMAIN h
      /\ \A b \in DOMAIN h : /\ h[b] \in Metadata
                             /\ h[b].prevAlloc \in DOMAIN h /\ h[b].nextAlloc \in DOMAIN h
  BY DEF List, WellFormed
<1>1. /\ old \in DOMAIN h /\ a \in Nat /\ old \in Nat /\ a < mid /\ mid < old /\ mid # 0
      /\ old >= mid + Header
      /\ \A b \in DOMAIN h : b \in Nat /\ (b <= a \/ old <= b)
      /\ h[old].prevAlloc = a
  <2>1. old \in DOMAIN h /\ a \in Nat /\ old \in Nat
    BY <1>0
  <2>2. (\A b \in DOMAIN h : b <= a \/ old <= b) /\ h[old].prevAlloc = a
    BY DEF List, Ordered
  <2>3. a < mid /\ mid < old /\ mid # 0 /\ old >= mid + Header
    BY <2>1, HeaderType
  <2>4. \A b \in DOMAIN h : b \in Nat
    BY <1>0
  <2> QED
    BY <2>1, <2>2, <2>3, <2>4
<1>2. mid \notin DOMAIN h
  BY <1>1
<1>3. DOMAIN g = DOMAIN h \cup {mid} /\ g = [b \in DOMAIN g |-> g[b]]
  BY DEF With
<1>4. g[mid] = Alloc(a, old, TRUE)
  BY DEF With
<1>5. \A b \in DOMAIN h : /\ g[b] \in Metadata
                          /\ g[b].prevAlloc = IF b = old THEN mid ELSE h[b].prevAlloc
                          /\ g[b].nextAlloc = IF b = a THEN mid ELSE h[b].nextAlloc
                          /\ g[b].isFree = (b # a /\ h[b].isFree)
  BY <1>0, <1>1, <1>2 DEF With, Metadata, Alloc
<1> HIDE DEF g
<1>6. /\ g[mid].prevAlloc = a /\ g[mid].nextAlloc = old /\ g[mid].isFree = TRUE
      /\ g[mid] \in Metadata
  BY <1>1, <1>4 DEF Alloc, Metadata
<1>7. WellFormed(g)
  <2>1. g \in [DOMAIN g -> Metadata]
    BY <1>3, <1>5, <1>6
  <2>2. ASSUME NEW b \in DOMAIN g PROVE g[b].prevAlloc \in DOMAIN g /\ g[b].nextAlloc \in DOMAIN g
    BY <1>0, <1>1, <1>3, <1>5, <1>6
  <2> QED
    BY <1>0, <1>3, <2>1, <2>2 DEF WellFormed
<1>8. Ordered(g)
  <2>1. Ordered(h)
    BY DEF List
  <2>2. ASSUME NEW b \in DOMAIN g, g[b].nextAlloc # 0
        PROVE  /\ g[b].nextAlloc >= b + Header
               /\ g[g[b].nextAlloc].prevAlloc = b
               /\ \A c \in DOMAIN g : c <= b \/ g[b].nextAlloc <= c
    <3>1. CASE b = mid
      <4>1. g[b].nextAlloc = old /\ g[old].prevAlloc = mid
        BY <1>1, <1>5, <1>6, <3>1
      <4>2. \A c \in DOMAIN g : c <= mid \/ old <= c
        BY <1>1, <1>3
      <4> QED
        BY <1>1, <3>1, <4>1, <4>2
    <3>2. CASE b = a
      <4>1. g[b].nextAlloc = mid /\ g[mid].prevAlloc = a
        BY <1>5, <1>6, <3>2
      <4>2. \A c \in DOMAIN g : c <= a \/ mid <= c
        BY <1>1, <1>3
      <4> QED
        BY <3>2, <4>1, <4>2
    <3>3. CASE b \in DOMAIN h /\ b # a
      <4>1. /\ h[b].nextAlloc # 0 /\ h[b].nextAlloc \in DOMAIN h
            /\ g[b].nextAlloc = h[b].nextAlloc
            /\ h[b].nextAlloc >= b + Header /\ h[h[b].nextAlloc].prevAlloc = b
            /\ \A c \in DOMAIN h : c <= b \/ h[b].nextAlloc <= c
        BY <1>0, <1>5, <2>1, <2>2, <3>3 DEF Ordered
      <4>2. h[b].nextAlloc # old
        BY <1>1, <3>3, <4>1
      <4>3. mid <= b \/ h[b].nextAlloc <= mid
        <5>1. h[b].nextAlloc \in Nat /\ b \in Nat /\ (b <= a \/ old <= b)
          BY <1>1, <3>3, <4>1
        <5>2. a <= b \/ h[b].nextAlloc <= a
          BY <4>1
        <5> QED
          BY <1>1, <3>3, <5>1, <5>2
      <4> QED
        BY <1>3, <1>5, <4>1, <4>2, <4>3
    <3> QED
      BY <1>3, <3>1, <3>2, <3>3
  <2>3. ASSUME NEW b \in DOMAIN g
        PROVE  IF b = 0 THEN g[b].prevAlloc = 0 ELSE g[g[b].prevAlloc].nextAlloc = b
    <3>1. CASE b = mid
      BY <1>1, <1>5, <1>6, <3>1
    <3>2. CASE b = old
      BY <1>1, <1>5, <1>6, <3>2
    <3>3. CASE b \in DOMAIN h /\ b # old
      <4>1. /\ g[b].prevAlloc = h[b].prevAlloc /\ h[b].prevAlloc \in DOMAIN h
            /\ IF b = 0 THEN h[b].prevAlloc = 0 ELSE h[h[b].prevAlloc].nextAlloc = b
        BY <1>0, <1>5, <2>1, <3>3 DEF Ordered
      <4>2. b # 0 => h[b].prevAlloc # a
        BY <3>3, <4>1
      <4> QED
        BY <1>5, <4>1, <4>2
    <3> QED
      BY <1>3, <3>1, <3>2, <3>3
  <2> QED
    BY <2>2, <2>3 DEF Ordered
<1>9. Ended(g)
  <2>1. PICK e \in DOMAIN h : h[e].nextAlloc = 0
    BY DEF List, Ended
  <2>2. e # a /\ g[e].nextAlloc = 0 /\ e \in DOMAIN g
    BY <1>3, <1>5, <2>1
  <2>3. ASSUME NEW b \in DOMAIN g, g[b].nextAlloc = 0
        PROVE  g[b].isFree /\ \A c \in DOMAIN g : c <= b
    <3>1. b \in DOMAIN h /\ b # a /\ h[b].nextAlloc = 0
      BY <1>1, <1>3, <1>5, <1>6, <2>3
    <3>2. h[b].isFree /\ \A c \in DOMAIN h : c <= b
      BY <3>1 DEF List, Ended
    <3>3. b \in Nat /\ old <= b /\ g[b].isFree
      BY <1>1, <1>5, <3>1, <3>2
    <3> QED
      BY <1>1, <1>3, <3>2, <3>3
  <2> QED
    BY <2>2, <2>3 DEF Ended
<1>10. NoneToAbsorb(g)
  <2>1. NoneToAbsorb(h)
    BY DEF List
  <2>2. ~h[old].isFree
    BY <1>1, <2>1 DEF NoneToAbsorb
  <2>3. ASSUME NEW b \in DOMAIN g, g[b].isFree
        PROVE  g[b].nextAlloc = 0 \/ ~g[g[b].nextAlloc].isFree
    <3>1. CASE b = mid
      BY <1>1, <1>5, <1>6, <2>2, <3>1
    <3>2. CASE b \in DOMAIN h
      BY <1>0, <1>5, <2>1, <2>3, <3>2 DEF NoneToAbsorb
    <3> QED
      BY <1>3, <3>1, <3>2
  <2> QED
    BY <2>3 DEF NoneToAbsorb
<1>11. EndsAt(g, n)
  BY <1>1, <1>3, <1>5, <1>6 DEF EndsAt
<1> QED
  BY <1>7, <1>8, <1>9, <1>10, <1>11 DEF List, g

(* A new last allocation behind the old one, which is given. *)
LEMMA AppendList ==
    ASSUME NEW h, List(h), NEW a \in DOMAIN h, NEW last \in Nat,
           h[a].nextAlloc = 0, last >= a + Header
    PROVE  /\ List(With([h EXCEPT ![a] = Alloc(@.prevAlloc, last, FALSE)], last, Alloc(a, 0, TRUE)))
           /\ EndsAt(With([h EXCEPT ![a] = Alloc(@.prevAlloc, last, FALSE)], last, Alloc(a, 0, TRUE)),
                     PageBehind(last) + 1)
<1> DEFINE g == With([h EXCEPT ![a] = Alloc(@.prevAlloc, last, FALSE)], last, Alloc(a, 0, TRUE))
<1>0. /\ DOMAIN h \subseteq Nat /\ 0 \in DOMAIN h
      /\ \A b \in DOMAIN h : /\ h[b] \in Metadata
                             /\ h[b].prevAlloc \in DOMAIN h /\ h[b].nextAlloc \in DOMAIN h
  BY DEF List, WellFormed
<1>1. /\ a \in Nat /\ a < last /\ last # 0
      /\ \A b \in DOMAIN h : b \in Nat /\ b <= a
  <2>1. a \in Nat /\ \A b \in DOMAIN h : b \in Nat
    BY <1>0
  <2>2. \A b \in DOMAIN h : b <= a
    BY DEF List, Ended
  <2>3. a < last /\ last # 0
    BY <2>1, HeaderType
  <2> QED
    BY <2>1, <2>2, <2>3
<1>2. last \notin DOMAIN h
  BY <1>1
<1>3. DOMAIN g = DOMAIN h \cup {last} /\ g = [b \in DOMAIN g |-> g[b]]
  BY DEF With
<1>4. g[last] = Alloc(a, 0, TRUE)
  BY DEF With
<1>5. \A b \in DOMAIN h : /\ g[b] \in Metadata
                          /\ g[b].prevAlloc = h[b].prevAlloc
                          /\ g[b].nextAlloc = IF b = a THEN last ELSE h[b].nextAlloc
                          /\ g[b].isFree = (b # a /\ h[b].isFree)
  BY <1>0, <1>1, <1>2 DEF With, Metadata, Alloc
<1> HIDE DEF g
<1>6. /\ g[last].prevAlloc = a /\ g[last].nextAlloc = 0 /\ g[last].isFree = TRUE
      /\ g[last] \in Metadata
  BY <1>1, <1>4 DEF Alloc, Metadata
<1>7. WellFormed(g)
  <2>1. g \in [DOMAIN g -> Metadata]
    BY <1>3, <1>5, <1>6
  <2>2. ASSUME NEW b \in DOMAIN g PROVE g[b].prevAlloc \in DOMAIN g /\ g[b].nextAlloc \in DOMAIN g
    BY <1>0, <1>1, <1>3, <1>5, <1>6
  <2> QED
    BY <1>0, <1>3, <2>1, <2>2 DEF WellFormed
<1>8. Ordered(g)
  <2>1. Ordered(h)
    BY DEF List
  <2>2. ASSUME NEW b \in DOMAIN g, g[b].nextAlloc # 0
        PROVE  /\ g[b].nextAlloc >= b + Header
               /\ g[g[b].nextAlloc].prevAlloc = b
               /\ \A c \in DOMAIN g : c <= b \/ g[b].nextAlloc <= c
    <3>1. CASE b = a
      <4>1. g[b].nextAlloc = last /\ g[last].prevAlloc = a
        BY <1>5, <1>6, <3>1
      <4>2. \A c \in DOMAIN g : c <= a \/ last <= c
        BY <1>1, <1>3
      <4> QED
        BY <3>1, <4>1, <4>2
    <3>2. CASE b \in DOMAIN h /\ b # a
      <4>1. /\ h[b].nextAlloc # 0 /\ h[b].nextAlloc \in DOMAIN h
            /\ g[b].nextAlloc = h[b].nextAlloc
            /\ h[b].nextAlloc >= b + Header /\ h[h[b].nextAlloc].prevAlloc = b
            /\ \A c \in DOMAIN h : c <= b \/ h[b].nextAlloc <= c
        BY <1>0, <1>5, <2>1, <2>2, <3>2 DEF Ordered
      <4>2. h[b].nextAlloc <= last
        BY <1>1, <4>1
      <4> QED
        BY <1>3, <1>5, <4>1, <4>2
    <3> QED
      BY <1>3, <1>6, <2>2, <3>1, <3>2
  <2>3. ASSUME NEW b \in DOMAIN g
        PROVE  IF b = 0 THEN g[b].prevAlloc = 0 ELSE g[g[b].prevAlloc].nextAlloc = b
    <3>1. CASE b = last
      BY <1>1, <1>5, <1>6, <3>1
    <3>2. CASE b \in DOMAIN h
      <4>1. /\ g[b].prevAlloc = h[b].prevAlloc /\ h[b].prevAlloc \in DOMAIN h
            /\ IF b = 0 THEN h[b].prevAlloc = 0 ELSE h[h[b].prevAlloc].nextAlloc = b
        BY <1>0, <1>5, <2>1, <3>2 DEF Ordered
      <4>2. b # 0 => h[b].prevAlloc # a
        BY <4>1
      <4> QED
        BY <1>5, <4>1, <4>2
    <3> QED
      BY <1>3, <3>1, <3>2
  <2> QED
    BY <2>2, <2>3 DEF Ordered
<1>e. ASSUME NEW b \in DOMAIN g, g[b].nextAlloc = 0 PROVE b = last
  <2>1. CASE b \in DOMAIN h /\ b # a
    <3>1. h[b].nextAlloc = 0
      BY <1>5, <1>e, <2>1
    <3>2. \A c \in DOMAIN h : c <= b
      BY <2>1, <3>1 DEF List, Ended
    <3> QED
      BY <1>1, <2>1, <3>2
  <2>2. CASE b = a
    BY <1>1, <1>5, <1>e, <2>2
  <2> QED
    BY <1>3, <2>1, <2>2
<1>9. Ended(g)
  <2>1. last \in DOMAIN g /\ \A c \in DOMAIN g : c <= last
    BY <1>1, <1>3
  <2> QED
    BY <1>6, <1>e, <2>1 DEF Ended
<1>10. NoneToAbsorb(g)
  <2>1. NoneToAbsorb(h)
    BY DEF List
  <2>2. ASSUME NEW b \in DOMAIN g, g[b].isFree, g[b].nextAlloc # 0
        PROVE  ~g[g[b].nextAlloc].isFree
    <3>1. b \in DOMAIN h /\ b # a /\ h[b].isFree /\ h[b].nextAlloc # 0
      BY <1>3, <1>5, <1>6, <2>2
    <3>2. ~h[h[b].nextAlloc].isFree
      BY <2>1, <3>1 DEF NoneToAbsorb
    <3> QED
      BY <1>0, <1>5, <3>1, <3>2
  <2> QED
    BY <2>2 DEF NoneToAbsorb
<1>11. EndsAt(g, PageBehind(last) + 1)
  BY <1>e DEF EndsAt
<1> QED
  BY <1>7, <1>8, <1>9, <1>10, <1>11 DEF List, g

-----------------------------------------------------------------------------
(* What a free absorbs *)

\* The list that memfree leaves
Freed(a) ==
    LET kept == [Restrict(head, DOMAIN head \ Absorbed(a))
                   EXCEPT ![Final(a)].nextAlloc = NextOf(a), ![Final(a)].isFree = TRUE]
    IN  IF NextOf(a) = 0 THEN kept ELSE [kept EXCEPT ![NextOf(a)].prevAlloc = Final(a)]

(* The free block that a freed allocation ends in reaches from its left neighbour, if that
   is free, to its right neighbour, or the one after it, which is not. *)
LEMMA FreedEnds ==
    ASSUME List(head), NEW a \in DOMAIN head, ~head[a].isFree
    PROVE  /\ Final(a) \in DOMAIN head /\ Final(a) <= a
           /\ NextOf(a) \in DOMAIN head
           /\ NextOf(a) # 0 => NextOf(a) >= a + Header /\ ~head[NextOf(a)].isFree
           /\ Final(a) # 0 => ~head[head[Final(a)].prevAlloc].isFree
<1> DEFINE left == head[a].prevAlloc
           right == head[a].nextAlloc
<1>0. /\ DOMAIN head \subseteq Nat
      /\ \A b \in DOMAIN head : head[b].prevAlloc \in DOMAIN head /\ head[b].nextAlloc \in DOMAIN head
  BY DEF List, WellFormed
<1>1. /\ a \in Nat /\ left \in DOMAIN head /\ left \in Nat
      /\ right \in DOMAIN head /\ right \in Nat
  BY <1>0
<1>2. right # 0 /\ right >= a + Header
  BY DEF List, Ended, Ordered
<1>3. /\ NextOf(a) \in DOMAIN head
      /\ NextOf(a) # 0 => NextOf(a) >= a + Header /\ ~head[NextOf(a)].isFree
  <2>1. CASE head[right].isFree
    <3>1. NextOf(a) = head[right].nextAlloc
      BY <1>2, <2>1 DEF NextOf
    <3>2. head[right].nextAlloc \in DOMAIN head /\ head[right].nextAlloc \in Nat
      BY <1>0, <1>1
    <3>3. head[right].nextAlloc # 0 => /\ head[right].nextAlloc >= right + Header
                                       /\ ~head[head[right].nextAlloc].isFree
      BY <1>1, <2>1 DEF List, Ordered, NoneToAbsorb
    <3>4. head[right].nextAlloc # 0 => head[right].nextAlloc >= a + Header
      BY <1>1, <1>2, <3>2, <3>3, HeaderType
    <3> QED
      BY <3>1, <3>2, <3>3, <3>4
  <2>2. CASE ~head[right].isFree
    <3>1. NextOf(a) = right
      BY <2>2 DEF NextOf
    <3> QED
      BY <1>1, <1>2, <2>2, <3>1
  <2> QED
    BY <2>1, <2>2
<1>4. /\ Final(a) \in DOMAIN head /\ Final(a) <= a
      /\ Final(a) # 0 => ~head[head[Final(a)].prevAlloc].isFree
  <2>1. CASE head[left].isFree
    <3>1. Final(a) = left
      BY <2>1 DEF Final
    <3>2. a # 0
      BY <2>1 DEF List, Ordered
    <3>3. head[left].nextAlloc = a
      BY <3>2 DEF List, Ordered
    <3>4. left <= a
      <4>1. head[left].nextAlloc >= left + Header
        BY <1>1, <3>2, <3>3 DEF List, Ordered
      <4> QED
        BY <1>1, <3>3, <4>1, HeaderType
    <3>5. ASSUME left # 0 PROVE ~head[head[left].prevAlloc].isFree
      <4>1. head[left].prevAlloc \in DOMAIN head
        BY <1>0, <1>1
      <4>2. head[head[left].prevAlloc].nextAlloc = left
        BY <1>1, <3>5 DEF List, Ordered
      <4> QED
        BY <2>1, <3>5, <4>1, <4>2 DEF List, NoneToAbsorb
    <3> QED
      BY <1>1, <3>1, <3>4, <3>5
  <2>2. CASE ~head[left].isFree
    <3>1. Final(a) = a
      BY <2>2 DEF Final
    <3> QED
      BY <1>1, <2>2, <3>1
  <2> QED
    BY <2>1, <2>2
<1> QED
  BY <1>3, <1>4

(* A freed allocation takes the place of those it absorbs. *)
LEMMA FreedList ==
    ASSUME List(head), NEW a \in DOMAIN head, ~head[a].isFree
    PROVE  /\ List(Freed(a))
           /\ pages \in Nat /\ EndsAt(head, pages) =>
                 /\ EndsAt(Freed(a), FreePages(Final(a), NextOf(a)))
                 /\ FreePages(Final(a), NextOf(a)) \in 1 .. pages
           /\ DOMAIN Freed(a) \subseteq DOMAIN head
           /\ \A b \in DOMAIN head :
                 ~head[b].isFree /\ b # a => /\ b \in DOMAIN Freed(a) /\ ~Freed(a)[b].isFree
                                            /\ Freed(a)[b].nextAlloc = head[b].nextAlloc
           /\ \A b \in DOMAIN Freed(a) : ~Freed(a)[b].isFree => ~head[b].isFree /\ b # a
<1>1. PICK final : final = Final(a)
  OBVIOUS
<1>2. PICK next : next = NextOf(a)
  OBVIOUS
<1>3. PICK h : h = head
  OBVIOUS
<1>4. PICK g : g = Freed(a)
  OBVIOUS
<1>5. PICK D : D = {b \in DOMAIN h : b <= final \/ (next # 0 /\ next <= b)}
  OBVIOUS
<1>6. /\ h \in [DOMAIN h -> Metadata] /\ DOMAIN h \subseteq Nat /\ 0 \in DOMAIN h
      /\ \A b \in DOMAIN h : h[b].prevAlloc \in DOMAIN h /\ h[b].nextAlloc \in DOMAIN h
  BY <1>3 DEF List, WellFormed
<1>7. \A b \in DOMAIN h : /\ b \in Nat /\ h[b] \in Metadata /\ h[b].isFree \in BOOLEAN
                          /\ h[b].prevAlloc \in Nat /\ h[b].nextAlloc \in Nat
  BY <1>6 DEF Metadata
<1>8. /\ final \in DOMAIN h /\ next \in DOMAIN h /\ final \in Nat /\ next \in Nat
      /\ next # 0 => next >= final + Header /\ final < next /\ ~h[next].isFree
      /\ final # 0 => ~h[h[final].prevAlloc].isFree
  <2>1. /\ final \in DOMAIN h /\ final <= a /\ a \in DOMAIN h /\ next \in DOMAIN h
        /\ next # 0 => next >= a + Header /\ ~h[next].isFree
        /\ final # 0 => ~h[h[final].prevAlloc].isFree
    BY <1>1, <1>2, <1>3, FreedEnds
  <2>2. final \in Nat /\ next \in Nat /\ a \in Nat
    BY <1>7, <2>1
  <2>3. next # 0 => next >= final + Header /\ final < next
    BY <2>1, <2>2, HeaderType
  <2> QED
    BY <2>1, <2>2, <2>3
<1>9. ASSUME NEW b \in DOMAIN h
      PROVE  /\ h[b].nextAlloc # 0 => /\ h[b].nextAlloc >= b + Header /\ b < h[b].nextAlloc
                                      /\ h[h[b].nextAlloc].prevAlloc = b
                                      /\ \A c \in DOMAIN h : c <= b \/ h[b].nextAlloc <= c
             /\ IF b = 0 THEN h[b].prevAlloc = 0 ELSE h[h[b].prevAlloc].nextAlloc = b
             /\ h[b].nextAlloc = 0 => h[b].isFree /\ \A c \in DOMAIN h : c <= b
             /\ h[b].isFree => h[b].nextAlloc = 0 \/ ~h[h[b].nextAlloc].isFree
  <2>1. /\ h[b].nextAlloc # 0 => /\ h[b].nextAlloc >= b + Header
                                 /\ h[h[b].nextAlloc].prevAlloc = b
                                 /\ \A c \in DOMAIN h : c <= b \/ h[b].nextAlloc <= c
        /\ IF b = 0 THEN h[b].prevAlloc = 0 ELSE h[h[b].prevAlloc].nextAlloc = b
    BY <1>3 DEF List, Ordered
  <2>2. h[b].nextAlloc = 0 => h[b].isFree /\ \A c \in DOMAIN h : c <= b
    BY <1>3 DEF List, Ended
  <2>3. h[b].isFree => h[b].nextAlloc = 0 \/ ~h[h[b].nextAlloc].isFree
    BY <1>3 DEF List, NoneToAbsorb
  <2>4. h[b].nextAlloc # 0 => b < h[b].nextAlloc
    BY <1>7, <2>1, HeaderType
  <2> QED
    BY <2>1, <2>2, <2>3, <2>4
<1>10. /\ DOMAIN g = D /\ g = [b \in D |-> g[b]]
       /\ \A b \in D : /\ g[b] \in Metadata
                       /\ g[b].prevAlloc = IF next # 0 /\ b = next THEN final ELSE h[b].prevAlloc
                       /\ g[b].nextAlloc = IF b = final THEN next ELSE h[b].nextAlloc
                       /\ g[b].isFree = (b = final \/ h[b].isFree)
  <2> DEFINE kept == [Restrict(h, D) EXCEPT ![final].nextAlloc = next, ![final].isFree = TRUE]
  <2>1. DOMAIN head \ Absorbed(a) = D
    <3>1. Absorbed(a) = {b \in DOMAIN h : final < b /\ (b < next \/ next = 0)}
      BY <1>1, <1>2, <1>3 DEF Absorbed
    <3> QED
      BY <1>3, <1>5, <1>7, <1>8, <3>1
  <2>2. g = IF next = 0 THEN kept ELSE [kept EXCEPT ![next].prevAlloc = final]
    BY <1>1, <1>2, <1>3, <1>4, <2>1 DEF Freed
  <2>3. final \in D /\ D \subseteq DOMAIN h /\ (next # 0 => next \in D)
    BY <1>5, <1>8
  <2>4. /\ DOMAIN kept = D /\ kept = [b \in D |-> kept[b]]
        /\ \A b \in D : /\ kept[b] \in Metadata
                        /\ kept[b].prevAlloc = h[b].prevAlloc
                        /\ kept[b].nextAlloc = IF b = final THEN next ELSE h[b].nextAlloc
                        /\ kept[b].isFree = (b = final \/ h[b].isFree)
    BY <1>7, <1>8, <2>3 DEF Restrict, Metadata
  <2> HIDE DEF kept
  <2>5. CASE next = 0
    BY <2>2, <2>4, <2>5
  <2>6. CASE next # 0
    BY <1>8, <2>2, <2>3, <2>4, <2>6 DEF Metadata
  <2> QED
    BY <2>5, <2>6
\* The neighbours of what is left are left, but for the two ends of the freed block
<1>11. /\ final \in D /\ 0 \in D /\ D \subseteq DOMAIN h /\ next \in D
       /\ \A b \in D : b <= final \/ (next # 0 /\ next <= b)
  <2>1. final <= final /\ 0 <= final /\ next <= next
    BY <1>8
  <2>2. final \in D /\ 0 \in D /\ D \subseteq DOMAIN h
    BY <1>5, <1>6, <1>8, <2>1
  <2>3. next \in D
    <3>1. CASE next = 0
      BY <2>2, <3>1
    <3>2. CASE next # 0
      BY <1>5, <1>8, <2>1, <3>2
    <3> QED
      BY <3>1, <3>2
  <2>4. \A b \in D : b <= final \/ (next # 0 /\ next <= b)
    BY <1>5
  <2> QED
    BY <2>2, <2>3, <2>4
<1>12. ASSUME NEW b \in D, b # final
       PROVE  h[b].nextAlloc \in D /\ (h[b].nextAlloc # 0 => h[b].nextAlloc # next)
  <2>1. b \in DOMAIN h /\ b \in Nat /\ h[b].nextAlloc \in DOMAIN h /\ h[b].nextAlloc \in Nat
    BY <1>6, <1>7, <1>11
  <2>2. CASE h[b].nextAlloc = 0
    BY <1>11, <2>2
  <2>3. CASE h[b].nextAlloc # 0
    <3>1. /\ b < h[b].nextAlloc
          /\ final <= b \/ h[b].nextAlloc <= final
      BY <1>8, <1>9, <2>1, <2>3
    <3>2. CASE b <= final
      <4>1. h[b].nextAlloc <= final
        BY <1>8, <1>12, <2>1, <3>1, <3>2
      <4> QED
        BY <1>5, <1>8, <2>1, <2>3, <4>1
    <3>3. CASE next # 0 /\ next <= b
      BY <1>5, <1>8, <2>1, <3>1, <3>3
    <3> QED
      BY <1>11, <3>2, <3>3
  <2> QED
    BY <2>2, <2>3
<1>13. ASSUME NEW b \in D, ~(next # 0 /\ b = next)
       PROVE  h[b].prevAlloc \in D /\ (b # 0 => h[b].prevAlloc # final)
  <2>1. b \in DOMAIN h /\ b \in Nat /\ h[b].prevAlloc \in DOMAIN h /\ h[b].prevAlloc \in Nat
    BY <1>6, <1>7, <1>11
  <2>2. CASE b = 0
    BY <1>9, <1>11, <2>1, <2>2
  <2>3. CASE b # 0
    <3>1. h[h[b].prevAlloc].nextAlloc = b
      BY <1>9, <2>1, <2>3
    <3>2. /\ h[b].prevAlloc < b
          /\ \A c \in DOMAIN h : c <= h[b].prevAlloc \/ b <= c
      BY <1>9, <2>1, <2>3, <3>1
    <3>3. CASE b <= final
      BY <1>5, <1>8, <2>1, <3>2, <3>3
    <3>4. CASE next # 0 /\ next <= b
      <4>1. next <= h[b].prevAlloc
        BY <1>8, <1>13, <2>1, <3>2, <3>4
      <4> QED
        BY <1>5, <1>8, <2>1, <3>4, <4>1
    <3> QED
      BY <1>11, <3>3, <3>4
  <2> QED
    BY <2>2, <2>3
<1>14. WellFormed(g)
  <2>1. g \in [D -> Metadata]
    BY <1>10
  <2>2. ASSUME NEW b \in D PROVE g[b].prevAlloc \in D /\ g[b].nextAlloc \in D
    BY <1>10, <1>11, <1>12, <1>13
  <2>3. D \subseteq Nat
    BY <1>6, <1>11
  <2> QED
    BY <1>10, <1>11, <2>1, <2>2, <2>3 DEF WellFormed
<1>15. Ordered(g)
  <2>1. ASSUME NEW b \in D, g[b].nextAlloc # 0
        PROVE  /\ g[b].nextAlloc >= b + Header
               /\ g[g[b].nextAlloc].prevAlloc = b
               /\ \A c \in D : c <= b \/ g[b].nextAlloc <= c
    <3>1. CASE b = final
      <4>1. g[b].nextAlloc = next /\ next # 0
        BY <1>10, <2>1, <3>1
      <4> QED
        BY <1>8, <1>10, <1>11, <3>1, <4>1
    <3>2. CASE b # final
      <4>1. g[b].nextAlloc = h[b].nextAlloc /\ h[b].nextAlloc \in D /\ h[b].nextAlloc # next
        BY <1>10, <1>12, <2>1, <3>2
      <4>2. /\ h[b].nextAlloc >= b + Header
            /\ h[h[b].nextAlloc].prevAlloc = b
            /\ \A c \in D : c <= b \/ h[b].nextAlloc <= c
        BY <1>9, <1>11, <2>1, <4>1
      <4>3. g[h[b].nextAlloc].prevAlloc = h[h[b].nextAlloc].prevAlloc
        BY <1>10, <4>1
      <4> QED
        BY <4>1, <4>2, <4>3
    <3> QED
      BY <3>1, <3>2
  <2>2. ASSUME NEW b \in D
        PROVE  IF b = 0 THEN g[b].prevAlloc = 0 ELSE g[g[b].prevAlloc].nextAlloc = b
    <3>1. CASE next # 0 /\ b = next
      BY <1>10, <1>11, <3>1
    <3>2. CASE ~(next # 0 /\ b = next)
      <4>1. g[b].prevAlloc = h[b].prevAlloc /\ h[b].prevAlloc \in D
        BY <1>10, <1>13, <3>2
      <4>2. IF b = 0 THEN h[b].prevAlloc = 0
                     ELSE h[h[b].prevAlloc].nextAlloc = b /\ h[b].prevAlloc # final
        BY <1>9, <1>11, <1>13, <3>2
      <4>3. h[b].prevAlloc # final => g[h[b].prevAlloc].nextAlloc = h[h[b].prevAlloc].nextAlloc
        BY <1>10, <4>1
      <4> QED
        BY <4>1, <4>2, <4>3
    <3> QED
      BY <3>1, <3>2
  <2> QED
    BY <1>10, <2>1, <2>2 DEF Ordered
<1>16. Ended(g)
  <2>1. \E e \in D : g[e].nextAlloc = 0
    <3>1. CASE next = 0
      BY <1>10, <1>11, <3>1
    <3>2. CASE next # 0
      <4>1. PICK e \in DOMAIN h : h[e].nextAlloc = 0
        BY <1>3 DEF List, Ended
      <4>2. e \in Nat /\ next <= e
        BY <1>7, <1>8, <1>9, <4>1
      <4>3. e \in D /\ e # final
        BY <1>5, <1>8, <3>2, <4>2
      <4> QED
        BY <1>10, <4>1, <4>3
    <3> QED
      BY <3>1, <3>2
  <2>2. ASSUME NEW b \in D, g[b].nextAlloc = 0
        PROVE  g[b].isFree /\ \A c \in D : c <= b
    <3>1. CASE b = final
      <4>1. next = 0
        BY <1>10, <2>2, <3>1
      <4> QED
        BY <1>10, <1>11, <3>1, <4>1
    <3>2. CASE b # final
      <4>1. h[b].nextAlloc = 0 /\ b \in DOMAIN h
        BY <1>10, <1>11, <2>2, <3>2
      <4>2. h[b].isFree /\ \A c \in DOMAIN h : c <= b
        BY <1>9, <4>1
      <4> QED
        BY <1>10, <1>11, <4>2
    <3> QED
      BY <3>1, <3>2
  <2> QED
    BY <1>10, <2>1, <2>2 DEF Ended
<1>17. NoneToAbsorb(g)
  <2>1. ASSUME NEW b \in D, g[b].isFree, g[b].nextAlloc # 0
        PROVE  ~g[g[b].nextAlloc].isFree
    <3>1. CASE b = final
      <4>1. g[b].nextAlloc = next /\ next # 0 /\ next # final
        BY <1>8, <1>10, <2>1, <3>1
      <4> QED
        BY <1>8, <1>10, <1>11, <4>1
    <3>2. CASE b # final
      <4>1. /\ h[b].isFree /\ h[b].nextAlloc # 0 /\ g[b].nextAlloc = h[b].nextAlloc
            /\ h[b].nextAlloc \in D /\ b \in DOMAIN h
        BY <1>10, <1>11, <1>12, <2>1, <3>2
      <4>2. ~h[h[b].nextAlloc].isFree /\ h[h[b].nextAlloc].prevAlloc = b
        BY <1>9, <4>1
      <4>3. h[b].nextAlloc # final
        BY <1>8, <4>1, <4>2
      <4> QED
        BY <1>10, <4>1, <4>2, <4>3
    <3> QED
      BY <3>1, <3>2
  <2> QED
    BY <1>10, <2>1 DEF NoneToAbsorb
<1>18. ASSUME pages \in Nat, EndsAt(head, pages)
       PROVE  /\ EndsAt(g, FreePages(final, next))
              /\ FreePages(final, next) \in 1 .. pages
  <2>1. PICK e \in DOMAIN h : h[e].nextAlloc = 0
    BY <1>3 DEF List, Ended
  <2>2. pages = PageBehind(e) + 1 /\ e \in Nat /\ final <= e
    BY <1>3, <1>7, <1>8, <1>9, <1>18, <2>1 DEF EndsAt
  <2>3. /\ PageBehind(final) \in Nat /\ PageBehind(e) \in Nat
        /\ PageBehind(final) <= PageBehind(e)
    <3>1. final + Header \in Nat /\ e + Header \in Nat /\ final + Header <= e + Header
      BY <1>8, <2>2, HeaderType
    <3> QED
      BY <3>1, HeaderType, DivMod, DivMonotone DEF PageBehind
  <2>4. CASE next = 0
    <3>1. FreePages(final, next) = PageBehind(final) + 1
      <4>1. {pages, PageBehind(final) + 1} \subseteq Nat
        BY <2>2, <2>3
      <4>2. /\ Min({pages, PageBehind(final) + 1}) \in {pages, PageBehind(final) + 1}
            /\ Min({pages, PageBehind(final) + 1}) <= PageBehind(final) + 1
        BY <4>1, MinMember
      <4> QED
        BY <2>2, <2>3, <2>4, <4>2 DEF FreePages
    <3>2. ASSUME NEW b \in D, g[b].nextAlloc = 0 PROVE b = final
      <4>1. b \in DOMAIN h /\ b \in Nat /\ b <= final
        BY <1>7, <1>11, <2>4
      <4>2. CASE b # final
        <5>1. h[b].nextAlloc = 0
          BY <1>10, <3>2, <4>2
        <5>2. final <= b
          BY <1>8, <1>9, <4>1, <5>1
        <5> QED
          BY <1>8, <4>1, <5>2
      <4> QED
        BY <4>2
    <3>3. EndsAt(g, PageBehind(final) + 1)
      BY <1>10, <3>2 DEF EndsAt
    <3> QED
      BY <2>2, <2>3, <3>1, <3>3
  <2>5. CASE next # 0
    <3>1. FreePages(final, next) = pages
      BY <2>5 DEF FreePages
    <3>2. ASSUME NEW b \in D, g[b].nextAlloc = 0 PROVE b \in DOMAIN h /\ h[b].nextAlloc = 0
      BY <1>10, <1>11, <2>5, <3>2
    <3>3. EndsAt(g, pages)
      BY <1>3, <1>10, <1>18, <3>2 DEF EndsAt
    <3> QED
      BY <2>2, <2>3, <3>1, <3>3
  <2> QED
    BY <2>4, <2>5
\* Only free allocations are absorbed, and the freed one
<1>19. ASSUME NEW b \in DOMAIN h, ~h[b].isFree, b # a
       PROVE  b \in D /\ b # final
  <2> DEFINE left == h[a].prevAlloc
             right == h[a].nextAlloc
  <2>1. /\ a \in DOMAIN h /\ ~h[a].isFree /\ a \in Nat /\ b \in Nat
        /\ left \in DOMAIN h /\ left \in Nat /\ right \in DOMAIN h /\ right \in Nat
    BY <1>3, <1>6, <1>7
  <2>2. final = IF h[left].isFree THEN left ELSE a
    BY <1>1, <1>3 DEF Final
  <2>3. next = IF right # 0 /\ h[right].isFree THEN h[right].nextAlloc ELSE right
    BY <1>2, <1>3 DEF NextOf
  <2>4. b # final
    BY <1>19, <2>2
  <2>5. CASE b < a
    <3>1. a # 0
      BY <2>1, <2>5
    <3>2. h[left].nextAlloc = a
      BY <1>9, <2>1, <3>1
    <3>3. b <= left \/ a <= b
      BY <1>9, <2>1, <3>1, <3>2
    <3>4. b <= final
      BY <2>1, <2>2, <2>5, <3>3
    <3> QED
      BY <1>5, <2>4, <3>4
  <2>6. CASE b > a
    <3>1. right # 0 /\ right <= b
      BY <1>9, <2>1, <2>6
    <3>2. CASE h[right].isFree
      <4>1. next = h[right].nextAlloc /\ b # right
        BY <1>19, <2>3, <3>1, <3>2
      <4>2. CASE next = 0
        <5>1. b <= right
          BY <1>9, <2>1, <4>1, <4>2
        <5> QED
          BY <2>1, <3>1, <4>1, <5>1
      <4>3. CASE next # 0
        <5>1. b <= right \/ next <= b
          BY <1>9, <2>1, <4>1, <4>3
        <5>2. next <= b
          BY <2>1, <3>1, <4>1, <5>1
        <5> QED
          BY <1>5, <2>4, <4>3, <5>2
      <4> QED
        BY <4>2, <4>3
    <3>3. CASE ~h[right].isFree
      <4>1. next = right
        BY <2>3, <3>3
      <4> QED
        BY <1>5, <2>4, <3>1, <4>1
    <3> QED
      BY <3>2, <3>3
  <2> QED
    BY <1>19, <2>1, <2>5, <2>6
<1>20. \A b \in DOMAIN h : ~h[b].isFree /\ b # a => /\ b \in D /\ ~g[b].isFree
                                                    /\ g[b].nextAlloc = h[b].nextAlloc
  BY <1>10, <1>19
<1>21. ASSUME NEW b \in D, ~g[b].isFree PROVE ~h[b].isFree /\ b # a
  <2>1. ~h[b].isFree /\ b # final /\ b \in DOMAIN h
    BY <1>10, <1>11, <1>21
  <2>2. CASE b = a
    <3>3. a \in D /\ a \in Nat /\ final < a
      <4>1. final <= a
        BY <1>1, FreedEnds
      <4> QED
        BY <1>7, <1>8, <2>1, <2>2, <4>1
    <3>4. next # 0 /\ next <= a
      BY <1>8, <1>11, <3>3
    <3>5. next >= a + Header
      BY <1>2, <3>4, FreedEnds
    <3> QED
      BY <1>8, <3>3, <3>4, <3>5, HeaderType
  <2> QED
    BY <2>1, <2>2
<1> QED
  BY <1>1, <1>2, <1>3, <1>4, <1>10, <1>11, <1>14, <1>15, <1>16, <1>17, <1>18, <1>20, <1>21 DEF List

-----------------------------------------------------------------------------
(* What memalloc finds *)

(* The first allocation of an empty page table is a list. *)
LEMMA FirstList == List(First) /\ EndsAt(First, 1)
<1> PICK f : f = First
  OBVIOUS
<1>1. f = [a \in {0} |-> Alloc(0, 0, TRUE)] /\ DOMAIN f = {0} /\ Alloc(0, 0, TRUE) \in Metadata
  BY DEF First, Alloc, Metadata
<1>2. \A a \in DOMAIN f : /\ a = 0 /\ f[a].prevAlloc = 0 /\ f[a].nextAlloc = 0 /\ f[a].isFree
                          /\ f[f[a].prevAlloc].nextAlloc = 0
  BY <1>1 DEF Alloc
<1>3. f \in [DOMAIN f -> Metadata] /\ DOMAIN f = {0}
  BY <1>1
<1>4. DOMAIN f \subseteq Nat /\ 0 \in DOMAIN f
  BY <1>3
<1>5. WellFormed(f)
  BY <1>2, <1>3, <1>4 DEF WellFormed
<1>6. Ordered(f)
  BY <1>2 DEF Ordered
<1>7. Ended(f) /\ NoneToAbsorb(f)
  <2>1. \A a, b \in DOMAIN f : b <= a
    BY <1>2
  <2> QED
    BY <1>2, <1>4, <2>1 DEF Ended, NoneToAbsorb
<1>8. PageBehind(0) = 0
  <2>1. (0 * PageSize + Header) \div PageSize = 0
    BY HeaderType, DivUnique
  <2> QED
    BY <2>1, HeaderType DEF PageBehind
<1>9. EndsAt(f, 1)
  BY <1>1, <1>8 DEF EndsAt
<1> QED
  BY <1>5, <1>6, <1>7, <1>9 DEF List

(* Some allocation always suits: the last one takes any size. *)
LEMMA FoundSuits ==
    ASSUME NEW h, List(h), NEW size
    PROVE  Found(h, size) \in DOMAIN h /\ Suits(h, Found(h, size), size)
<1> DEFINE suit == {a \in DOMAIN h : Suits(h, a, size)}
<1>1. suit \subseteq Nat
  BY DEF List, WellFormed
<1>2. suit # {}
  BY DEF List, Ended, Suits
<1>3. Min(suit) \in suit
  BY <1>1, <1>2, MinMember
<1> QED
  BY <1>3 DEF Found

(* The pages memalloc gets for a new last allocation are those its first byte needs. *)
LEMMA GrownPages ==
    ASSUME NEW a \in Nat, NEW size \in Nat
    PROVE  /\ NewPages(a, size) \in Nat
           /\ PageBehind(a) + 1 + NewPages(a, size) = PageBehind(a + Header + size) + 1
<1> DEFINE P == PageSize
           q == (a + Header) \div P
           r == (a + Header) % P
           N == Necessary(size)
<1>1. P \in Nat \ {0} /\ a + Header \in Nat /\ N \in Nat /\ N = size + Header + 1
  BY HeaderType DEF Necessary
<1>2. q \in Nat /\ r \in 0 .. P - 1 /\ a + Header = q * P + r /\ FreeSpace(a) = P - r
  BY <1>1, DivMod DEF FreeSpace
<1>3. a + Header + size + Header = q * P + (r + N - 1)
  BY <1>1, <1>2, HeaderType
<1> HIDE DEF P, q, r, N
<1>4. CASE N <= P - r
  <2>1. NewPages(a, size) = 0
    BY <1>1, <1>2, <1>4 DEF NewPages, N
  <2>2. r + N - 1 \in 0 .. P - 1
    BY <1>1, <1>2, <1>4, HeaderType
  <2>3. (q * P + (r + N - 1)) \div P = q
    BY <1>1, <1>2, <2>2, DivUnique
  <2> QED
    BY <1>2, <1>3, <2>1, <2>3 DEF PageBehind, P, q
<1>5. CASE N > P - r
  <2> DEFINE m == N - (P - r)
             k == m \div P
             s == m % P
  <2>1. m \in Nat /\ m > 0 /\ NewPages(a, size) = DivRoundUp(m, P)
    BY <1>1, <1>2, <1>5 DEF NewPages, N, P
  <2> HIDE DEF m
  <2>2. k \in Nat /\ s \in 0 .. P - 1 /\ m = k * P + s
    BY <1>1, <2>1, DivMod
  <2>3. r + N - 1 = m + P - 1
    BY <1>1, <1>2 DEF m
  <2> HIDE DEF k, s
  <2>4. CASE s = 0
    <3>1. NewPages(a, size) = k
      BY <2>1, <2>4 DEF DivRoundUp, k, s
    <3>2. q * P + (r + N - 1) = (q + k) * P + (P - 1)
      BY <1>1, <1>2, <2>2, <2>3, <2>4
    <3>3. q + k \in Nat /\ P - 1 \in 0 .. P - 1
      BY <1>1, <1>2, <2>2
    <3>4. ((q + k) * P + (P - 1)) \div P = q + k
      BY <1>1, <3>3, DivUnique
    <3> QED
      BY <1>2, <1>3, <2>2, <3>1, <3>2, <3>4 DEF PageBehind, P, q
  <2>5. CASE s # 0
    <3>1. NewPages(a, size) = k + 1
      BY <2>1, <2>5 DEF DivRoundUp, k, s
    <3>2. q * P + (r + N - 1) = (q + k + 1) * P + (s - 1)
      BY <1>1, <1>2, <2>2, <2>3, <2>5
    <3>3. q + k + 1 \in Nat /\ s - 1 \in 0 .. P - 1
      BY <1>1, <1>2, <2>2, <2>5
    <3>4. ((q + k + 1) * P + (s - 1)) \div P = q + k + 1
      BY <1>1, <3>3, DivUnique
    <3> QED
      BY <1>2, <1>3, <2>2, <3>1, <3>2, <3>4 DEF PageBehind, P, q
  <2> QED
    BY <2>4, <2>5
<1> QED
  BY <1>1, <1>2, <1>4, <1>5

-----------------------------------------------------------------------------
(* The handlers *)

(* Wherever an allocation is, its metadata are within the pages. *)
LEMMA InPages ==
    ASSUME NEW h, List(h), NEW n \in Nat, EndsAt(h, n), NEW a \in DOMAIN h
    PROVE  a \in 0 .. n * PageSize - Header /\ a + Header \in 1 .. n * PageSize
<1>1. PICK e \in DOMAIN h : h[e].nextAlloc = 0
  BY DEF List, Ended
<1>2. n = PageBehind(e) + 1 /\ a <= e /\ a \in Nat /\ e \in Nat
  BY <1>1 DEF List, Ended, EndsAt, WellFormed
<1> DEFINE q == (e + Header) \div PageSize
           r == (e + Header) % PageSize
<1>3. q \in Nat /\ r \in 0 .. PageSize - 1 /\ e + Header = q * PageSize + r /\ n = q + 1
  <2>1. e + Header \in Nat
    BY <1>2, HeaderType
  <2>2. q \in Nat /\ r \in 0 .. PageSize - 1 /\ e + Header = q * PageSize + r
    BY <2>1, HeaderType, DivMod
  <2> QED
    BY <1>2, <2>2 DEF PageBehind
<1> HIDE DEF q, r
<1>4. n * PageSize = q * PageSize + PageSize /\ n * PageSize \in Nat /\ q * PageSize \in Nat
  BY <1>3, HeaderType
<1>5. e + Header < n * PageSize
  BY <1>2, <1>3, <1>4, HeaderType
<1> QED
  BY <1>2, <1>4, <1>5, HeaderType

(* Until the first memalloc the heap is the allocation memalloc begins with. *)
LEMMA HeadsList ==
    ASSUME HeapInv, Usable
    PROVE  /\ List(Heads) /\ EndsAt(Heads, IF pages = 0 THEN 1 ELSE pages)
           /\ pages # 0 => Heads = head
           /\ pages = 0 => Heads = First
<1>1. CASE pages = 0
  BY <1>1, FirstList DEF Heads
<1>2. CASE pages # 0
  BY <1>2 DEF Heads, HeapInv, Usable
<1> QED
  BY <1>1, <1>2

(* An address that was answered is that of an allocation of the list. *)
AnswerInHeap == answer[2] = 0 \/ \E a \in DOMAIN head : answer[2] = a + Header

AnswerShape == \E type \in {"OK", "ERROR", "POINTER"} : answer = <<type, answer[2]>>

\* What every step keeps
StepInv == HeapInv /\ AnswerShape /\ AnswerInHeap

\* What a memalloc that answers 0 has done
NothingHeldOrChanged == IF pages = 0 THEN Held' = << >> ELSE UNCHANGED <<pages, head>>

(* Nobody holds a block where every allocation is free. *)
LEMMA AllFree ==
    ASSUME NEW h, h = head', \A a \in DOMAIN h : h[a].isFree
    PROVE  Held' = << >>
<1>1. {a \in DOMAIN h : ~h[a].isFree} = {}
  OBVIOUS
<1>2. {a + Header : a \in {b \in DOMAIN h : ~h[b].isFree}} = {}
  BY <1>1
<1>3. Held' = [p \in {a + Header : a \in {b \in DOMAIN h : ~h[b].isFree}} |-> h[p - Header].nextAlloc - p]
  BY DEF Held
<1> QED
  BY <1>2, <1>3

(* A list needs a page. *)
LEMMA NoListWithoutPages ==
    ASSUME HeapInv, pages = 0
    PROVE  DOMAIN head = {}
<1>1. ASSUME List(head), EndsAt(head, pages) PROVE FALSE
  <2>1. pages \in 0 .. MaxPages /\ pages \in Nat
    BY DEF HeapInv
  <2>2. PICK a \in DOMAIN head : head[a].nextAlloc = 0
    BY <1>1 DEF List, Ended
  <2>3. a + Header \in 1 .. pages * PageSize
    BY <1>1, <2>1, <2>2, InPages
  <2>4. pages * PageSize = 0
    BY HeaderType
  <2> QED
    BY <2>3, <2>4
<1> QED
  BY <1>1 DEF HeapInv

(* A heap whose first page is refused has no list. *)
LEMMA FirstPageRefusedStep ==
    ASSUME HeapInv, FirstPageRefused
    PROVE  StepInv' /\ NothingHeldOrChanged
<1>1. pages = 0 /\ pages' = 1 /\ head' = head /\ answer' = <<"POINTER", 0>>
  BY DEF FirstPageRefused, Answer
<1>2. DOMAIN head = {}
  BY <1>1, NoListWithoutPages
<1>3. HeapInv'
  BY <1>1, <1>2, HeapAssumption DEF HeapInv, HeapAssumption
<1>4. AnswerShape' /\ AnswerInHeap'
  BY <1>1 DEF AnswerShape, AnswerInHeap
<1>5. Held' = << >>
  BY <1>1, <1>2, AllFree
<1> QED
  BY <1>1, <1>3, <1>4, <1>5 DEF StepInv, NothingHeldOrChanged

(* A whole list that ends with the heap, and an answer that points into it, are enough. *)
LEMMA GivenStep ==
    ASSUME NEW h, h = head', NEW n, n = pages', n \in 0 .. MaxPages, List(h), EndsAt(h, n),
           NEW a \in DOMAIN h, answer' = <<"POINTER", a + Header>>
    PROVE  StepInv' /\ answer' # <<"POINTER", 0>>
<1>1. HeapInv'
  BY DEF HeapInv
<1>2. a + Header # 0
  BY HeaderType DEF List, WellFormed
<1>3. answer'[2] = a + Header
  OBVIOUS
<1>4. AnswerShape' /\ AnswerInHeap'
  BY <1>3 DEF AnswerShape, AnswerInHeap
<1> QED
  BY <1>1, <1>2, <1>3, <1>4 DEF StepInv

(* Each case of memallocHandler keeps the list whole. *)
LEMMA MemallocStep ==
    ASSUME HeapInv, NEW size \in Sizes, Memalloc(size)
    PROVE  StepInv' /\ (answer' = <<"POINTER", 0>> => NothingHeldOrChanged)
<1>1. CASE FirstPageRefused
  BY <1>1, FirstPageRefusedStep
<1>2. CASE ~FirstPageRefused
  <2>1. PICK h : h = Heads
    OBVIOUS
  <2>2. PICK a : a = Found(h, size)
    OBVIOUS
  <2>3. PICK n : n = IF pages = 0 THEN 1 ELSE pages
    OBVIOUS
  <2>4. Usable /\ (TakeWhole(h, a, size) \/ Split(h, a, size) \/ Extend(h, a, size) \/ Refused(h, a, size))
    BY <1>2, <2>1, <2>2 DEF Memalloc
  <2>5. List(h) /\ EndsAt(h, n) /\ (pages # 0 => h = head) /\ (pages = 0 => h = First)
    BY <2>1, <2>3, <2>4, HeadsList
  <2>6. a \in DOMAIN h /\ Suits(h, a, size)
    BY <2>2, <2>5, FoundSuits
  <2>7. /\ pages \in Nat /\ n \in 1 .. MaxPages /\ MaxPages \in Nat
        /\ size \in Nat /\ a \in Nat /\ h[a].nextAlloc \in Nat
    <3>1. pages \in 0 .. MaxPages /\ MaxPages \in Nat \ {0} /\ size \in Nat
      BY HeapAssumption DEF HeapInv, HeapAssumption
    <3>2. a \in Nat /\ h[a].nextAlloc \in DOMAIN h /\ DOMAIN h \subseteq Nat
      BY <2>5, <2>6 DEF List, WellFormed
    <3> QED
      BY <2>3, <3>1, <3>2
  \* An empty page table has only its first allocation, which is the last
  <2>8. h[a].nextAlloc # 0 => pages = n
    <3>1. First[0].nextAlloc = 0 /\ DOMAIN First = {0}
      BY DEF First, Alloc
    <3> QED
      BY <2>3, <2>5, <2>6, <3>1
  <2>9. CASE TakeWhole(h, a, size)
    <3>1. /\ h[a].nextAlloc # 0 /\ pages' = pages /\ answer' = <<"POINTER", a + Header>>
          /\ head' = [h EXCEPT ![a].isFree = FALSE]
      BY <2>9 DEF TakeWhole, Answer
    <3>2. PICK g : g = [h EXCEPT ![a].isFree = FALSE]
      OBVIOUS
    <3>3. List(g) /\ EndsAt(g, n) /\ a \in DOMAIN g
      BY <2>5, <2>6, <3>1, <3>2, WholeList
    <3>4. g = head' /\ n = pages' /\ n \in 0 .. MaxPages
      BY <2>7, <2>8, <3>1, <3>2
    <3> QED
      BY <3>1, <3>3, <3>4, GivenStep
  <2>10. CASE Split(h, a, size)
    <3>1. PICK mid, old : mid = a + Header + size /\ old = h[a].nextAlloc
      OBVIOUS
    <3>2. PICK g : g = With([h EXCEPT ![a] = Alloc(@.prevAlloc, mid, FALSE), ![old].prevAlloc = mid],
                            mid, Alloc(a, old, TRUE))
      OBVIOUS
    <3>3. /\ old # 0 /\ old - a - Header > size + Header
          /\ pages' = pages /\ answer' = <<"POINTER", a + Header>> /\ head' = g
      BY <2>10, <3>1, <3>2 DEF Split, Answer
    <3>4. /\ mid \in Nat /\ mid >= a + Header /\ mid + Header < old
      BY <2>7, <3>1, <3>3, HeaderType
    <3>5. h[a].isFree
      BY <2>6, <3>1, <3>3 DEF Suits
    <3>6. List(g) /\ EndsAt(g, n)
      BY <2>5, <2>6, <3>1, <3>2, <3>3, <3>4, <3>5, SplitList
    <3>7. a \in DOMAIN g
      BY <2>6, <3>2 DEF With
    <3>8. n = pages' /\ n \in 0 .. MaxPages
      BY <2>7, <2>8, <3>1, <3>3
    <3> QED
      BY <3>3, <3>6, <3>7, <3>8, GivenStep
  <2>11. CASE Extend(h, a, size)
    <3>1. PICK last : last = a + Header + size
      OBVIOUS
    <3>2. PICK g : g = With([h EXCEPT ![a] = Alloc(@.prevAlloc, last, FALSE)], last, Alloc(a, 0, TRUE))
      OBVIOUS
    <3>3. /\ h[a].nextAlloc = 0 /\ n + NewPages(a, size) <= MaxPages
          /\ pages' = n + NewPages(a, size) /\ answer' = <<"POINTER", a + Header>> /\ head' = g
      BY <2>3, <2>11, <3>1, <3>2 DEF Extend, Answer
    <3>4. last \in Nat /\ last >= a + Header
      BY <2>7, <3>1, HeaderType
    <3>5. List(g) /\ EndsAt(g, PageBehind(last) + 1)
      BY <2>5, <2>6, <3>2, <3>3, <3>4, AppendList
    <3>6. n = PageBehind(a) + 1
      BY <2>5, <2>6, <3>3 DEF EndsAt
    <3>7. NewPages(a, size) \in Nat /\ pages' = PageBehind(last) + 1
      BY <2>7, <3>1, <3>3, <3>6, GrownPages
    <3>8. pages' \in 0 .. MaxPages
      BY <2>7, <3>3, <3>7
    <3>9. a \in DOMAIN g
      BY <2>6, <3>2 DEF With
    <3>10. EndsAt(g, pages')
      BY <3>5, <3>7
    <3> QED
      BY <3>3, <3>5, <3>8, <3>9, <3>10, GivenStep
  <2>12. CASE Refused(h, a, size)
    <3>1. /\ h[a].nextAlloc = 0 /\ pages' = PageBehind(a) + 1
          /\ answer' = <<"POINTER", 0>> /\ head' = h
      BY <2>12 DEF Refused, Answer
    <3>2. pages' = n
      BY <2>5, <2>6, <3>1 DEF EndsAt
    <3>3. HeapInv'
      BY <2>5, <2>7, <3>1, <3>2 DEF HeapInv
    <3>4. AnswerShape' /\ AnswerInHeap'
      BY <3>1 DEF AnswerShape, AnswerInHeap
    <3>5. NothingHeldOrChanged
      <4>1. CASE pages = 0
        <5>1. \A b \in DOMAIN First : First[b].isFree
          BY DEF First, Alloc
        <5>2. Held' = << >>
          BY <2>5, <3>1, <4>1, <5>1, AllFree
        <5> QED
          BY <4>1, <5>2 DEF NothingHeldOrChanged
      <4>2. CASE pages # 0
        BY <2>3, <2>5, <3>1, <3>2, <4>2 DEF NothingHeldOrChanged
      <4> QED
        BY <4>1, <4>2
    <3> QED
      BY <3>3, <3>4, <3>5 DEF StepInv
  <2> QED
    BY <2>4, <2>9, <2>10, <2>11, <2>12
<1> QED
  BY <1>1, <1>2

(* memfreeHandler keeps the list whole, whatever it absorbs and deletes. *)
LEMMA MemfreeStep ==
    ASSUME HeapInv, NEW p \in DOMAIN Held, Memfree(p)
    PROVE  StepInv' /\ answer' # <<"POINTER", 0>>
<1>1. PICK a \in DOMAIN head : ~head[a].isFree /\ p = a + Header
  BY DEF Held
<1>2. List(head) /\ EndsAt(head, pages) /\ pages \in Nat /\ pages <= MaxPages /\ MaxPages \in Nat
  BY <1>1, HeapAssumption DEF HeapInv, HeapAssumption
<1>3. p - Header = a
  <2>1. a \in Nat
    BY <1>2 DEF List, WellFormed
  <2> QED
    BY <1>1, <2>1, HeaderType
<1>4. /\ head' = Freed(a) /\ pages' = FreePages(Final(a), NextOf(a)) /\ answer' = <<"OK", 0>>
  BY <1>3 DEF Memfree, Freed, Answer
<1>5. /\ List(Freed(a)) /\ EndsAt(Freed(a), FreePages(Final(a), NextOf(a)))
      /\ FreePages(Final(a), NextOf(a)) \in 1 .. pages
  BY <1>1, <1>2, FreedList
<1>6. HeapInv'
  <2>1. List(head') /\ EndsAt(head', pages') /\ pages' \in 0 .. MaxPages
    BY <1>2, <1>4, <1>5
  <2> QED
    BY <2>1 DEF HeapInv
<1>7. AnswerShape' /\ AnswerInHeap'
  BY <1>4 DEF AnswerShape, AnswerInHeap
<1> QED
  BY <1>4, <1>6, <1>7 DEF StepInv

(* A process begins without a list. *)
LEMMA HeapInit == Init => StepInv
<1> SUFFICES ASSUME Init PROVE StepInv
  OBVIOUS
<1>1. HeapInv
  BY HeapAssumption DEF Init, HeapInv, HeapAssumption
<1>2. AnswerShape /\ AnswerInHeap
  BY DEF Init, AnswerShape, AnswerInHeap
<1> QED
  BY <1>1, <1>2 DEF StepInv

(* Each petition keeps the list whole and answers with an address in it. *)
LEMMA HeapStep ==
    StepInv /\ [Next]_vars =>
      StepInv' /\ (answer' = <<"POINTER", 0>> => NothingHeldOrChanged \/ UNCHANGED vars)
<1> SUFFICES ASSUME StepInv, [Next]_vars
             PROVE  StepInv' /\ (answer' = <<"POINTER", 0>> => NothingHeldOrChanged \/ UNCHANGED vars)
  OBVIOUS
<1>0. HeapInv
  BY DEF StepInv
<1>1. CASE \E size \in Sizes : Memalloc(size)
  BY <1>0, <1>1, MemallocStep
<1>2. CASE \E p \in DOMAIN Held : Memfree(p)
  BY <1>0, <1>2, MemfreeStep
<1>3. ASSUME UNCHANGED <<pages, head>>, NEW type \in {"OK", "ERROR"}, answer' = <<type, 0>>
      PROVE  StepInv' /\ answer' # <<"POINTER", 0>>
  <2>1. HeapInv'
    BY <1>0, <1>3 DEF HeapInv
  <2>2. AnswerShape' /\ AnswerInHeap'
    BY <1>3 DEF AnswerShape, AnswerInHeap
  <2> QED
    BY <1>3, <2>1, <2>2 DEF StepInv
<1>4. CASE \/ \E p \in DOMAIN Held : Memread(p, Held[p]) \/ Memwrite(p, Held[p])
           \/ MemfreeInvalid(Beyond) \/ Memread(Beyond, 1) \/ Memwrite(Beyond, 1)
  <2>1. UNCHANGED <<pages, head>> /\ \E type \in {"OK", "ERROR"} : answer' = <<type, 0>>
    BY <1>4 DEF Memread, Memwrite, Access, MemfreeInvalid, Answer
  <2> QED
    BY <1>3, <2>1
<1>5. CASE UNCHANGED vars
  <2>1. HeapInv' /\ AnswerShape' /\ AnswerInHeap'
    BY <1>5 DEF StepInv, HeapInv, AnswerShape, AnswerInHeap, vars
  <2> QED
    BY <1>5, <2>1 DEF StepInv
<1> QED
  BY <1>1, <1>2, <1>4, <1>5 DEF Next

-----------------------------------------------------------------------------
(* Theorems *)

(* The list is whole in every state. *)
LEMMA HeapInvariant == Spec => []StepInv
<1>1. StepInv /\ [Next]_vars => StepInv'
  BY HeapStep
<1> QED
  BY HeapInit, <1>1, PTL DEF Spec

(* The list is whole after every petition: forward and backward links agree, addresses go
   up, the last allocation is free. *)
THEOREM HeapLinked == Spec => []Linked
<1>1. StepInv => Linked
  <2> SUFFICES ASSUME List(head) PROVE Linked
    BY DEF StepInv, HeapInv, Linked
  <2> QED
    BY DEF List, WellFormed, Ordered, Ended, Linked
<1> QED
  BY <1>1, HeapInvariant, PTL

(* No free allocation is beside another: memfree absorbs both neighbours, and memalloc
   never leaves a free rest beside a free allocation. *)
THEOREM HeapCoalesced == Spec => []Coalesced
<1>1. StepInv => Coalesced
  <2> SUFFICES ASSUME List(head) PROVE Coalesced
    BY DEF StepInv, HeapInv, Coalesced
  <2> QED
    BY DEF List, NoneToAbsorb, Coalesced
<1> QED
  BY <1>1, HeapInvariant, PTL

(* The pages a process has are those its list needs: what memalloc gets for a new last
   allocation, counted from the old one, is what the new one ends in, and a free gives back
   the pages behind. *)
THEOREM HeapPagesEnd == Spec => []PagesEndWithHeap
<1>1. StepInv => PagesEndWithHeap
  <2>1. ASSUME DOMAIN head = {} PROVE PagesEndWithHeap
    BY <2>1 DEF PagesEndWithHeap
  <2>2. ASSUME EndsAt(head, pages) PROVE PagesEndWithHeap
    BY <2>2 DEF EndsAt, PagesEndWithHeap
  <2> QED
    BY <2>1, <2>2 DEF StepInv, HeapInv
<1> QED
  BY <1>1, HeapInvariant, PTL

(* Every metadata, and every address that was answered, is within the pages. *)
THEOREM HeapTypes == Spec => []TypeOK
<1>1. StepInv => TypeOK
  <2> SUFFICES ASSUME StepInv PROVE TypeOK
    OBVIOUS
  <2>1. pages \in 0 .. MaxPages /\ pages \in Nat
    BY HeapAssumption DEF StepInv, HeapInv, HeapAssumption
  <2>2. ASSUME NEW a \in DOMAIN head
        PROVE  /\ a \in 0 .. pages * PageSize - Header /\ a + Header \in 0 .. pages * PageSize
               /\ head[a].prevAlloc \in DOMAIN head /\ head[a].nextAlloc \in DOMAIN head
    <3>1. List(head) /\ EndsAt(head, pages)
      BY DEF StepInv, HeapInv
    <3>2. a \in 0 .. pages * PageSize - Header /\ a + Header \in 1 .. pages * PageSize
      BY <2>1, <3>1, InPages
    <3>3. head[a].prevAlloc \in DOMAIN head /\ head[a].nextAlloc \in DOMAIN head
      BY <3>1 DEF List, WellFormed
    <3> QED
      BY <3>2, <3>3
  <2>3. answer \in {"OK", "ERROR", "POINTER"} \X (0 .. pages * PageSize)
    <3>1. pages * PageSize \in Nat
      BY <2>1, HeaderType
    <3>2. PICK v : v = answer[2]
      OBVIOUS
    <3>3. v = 0 \/ \E a \in DOMAIN head : v = a + Header
      BY <3>2 DEF StepInv, AnswerInHeap
    <3>4. v \in 0 .. pages * PageSize
      BY <2>2, <3>1, <3>3
    <3>5. \E type \in {"OK", "ERROR", "POINTER"} : answer = <<type, v>>
      BY <3>2 DEF StepInv, AnswerShape
    <3> QED
      BY <3>4, <3>5
  <2> QED
    BY <2>1, <2>2, <2>3 DEF TypeOK
<1> QED
  BY <1>1, HeapInvariant, PTL

(* A memalloc that answers 0 has undone the pages it got, and given nothing. *)
THEOREM HeapRefused == Spec => RefusedChangesNothing
<1>1. StepInv /\ [Next]_vars =>
        [answer' = <<"POINTER", 0>> =>
           IF pages = 0 THEN Held' = << >> ELSE UNCHANGED <<pages, head>>]_vars
  BY HeapStep DEF NothingHeldOrChanged
<1> QED
  BY <1>1, HeapInvariant, PTL DEF Spec, RefusedChangesNothing

-----------------------------------------------------------------------------
(* The blocks the process sees *)

\* The blocks of a list
BlocksOf(h) ==
    [p \in {a + Header : a \in {b \in DOMAIN h : ~h[b].isFree}} |-> h[p - Header].nextAlloc - p]

(* The blocks are the used allocations, from behind their metadata to the next ones. *)
LEMMA BlocksAre ==
    ASSUME NEW h, List(h), NEW m, m = BlocksOf(h)
    PROVE  /\ \A a \in DOMAIN h : a + Header \in DOMAIN m <=> ~h[a].isFree
           /\ \A a \in DOMAIN h : ~h[a].isFree => m[a + Header] = h[a].nextAlloc - (a + Header)
           /\ \A p \in DOMAIN m : \E a \in DOMAIN h : p = a + Header /\ ~h[a].isFree
           /\ m = [p \in DOMAIN m |-> m[p]]
<1>1. \A a \in DOMAIN h : a \in Nat /\ (a + Header) - Header = a
  BY HeaderType DEF List, WellFormed
<1>2. \A p \in DOMAIN m : \E a \in DOMAIN h : p = a + Header /\ ~h[a].isFree
  BY DEF BlocksOf
<1>3. \A a \in DOMAIN h : ~h[a].isFree => a + Header \in DOMAIN m
  BY DEF BlocksOf
<1>4. ASSUME NEW a \in DOMAIN h, a + Header \in DOMAIN m PROVE ~h[a].isFree
  <2>1. PICK b \in DOMAIN h : a + Header = b + Header /\ ~h[b].isFree
    BY <1>2, <1>4
  <2>2. a = b
    BY <1>1, <2>1
  <2> QED
    BY <2>1, <2>2
<1>5. ASSUME NEW a \in DOMAIN h, ~h[a].isFree PROVE m[a + Header] = h[a].nextAlloc - (a + Header)
  BY <1>1, <1>3, <1>5 DEF BlocksOf
<1>6. m = [p \in DOMAIN m |-> m[p]]
  BY DEF BlocksOf
<1> QED
  BY <1>2, <1>3, <1>4, <1>5, <1>6

(* Two functions with the same blocks are the same blocks. *)
LEMMA SameBlocks ==
    ASSUME NEW h, List(h), NEW m, m = [p \in DOMAIN m |-> m[p]],
           \A a \in DOMAIN h : ~h[a].isFree =>
              a + Header \in DOMAIN m /\ m[a + Header] = h[a].nextAlloc - (a + Header),
           \A p \in DOMAIN m : \E a \in DOMAIN h : p = a + Header /\ ~h[a].isFree
    PROVE  m = BlocksOf(h)
<1>1. PICK k : k = BlocksOf(h)
  OBVIOUS
<1>2. /\ \A a \in DOMAIN h : ~h[a].isFree =>
            a + Header \in DOMAIN k /\ k[a + Header] = h[a].nextAlloc - (a + Header)
      /\ \A p \in DOMAIN k : \E a \in DOMAIN h : p = a + Header /\ ~h[a].isFree
      /\ k = [p \in DOMAIN k |-> k[p]]
  BY <1>1, BlocksAre
<1>3. DOMAIN m = DOMAIN k
  BY <1>2
<1>4. \A p \in DOMAIN m : m[p] = k[p]
  BY <1>2
<1> QED
  BY <1>1, <1>2, <1>3, <1>4

(* Free bytes begin where a free allocation does. *)
LEMMA GapsAre ==
    ASSUME NEW h, List(h), NEW m, m = BlocksOf(h)
    PROVE  {e \in {0} \cup {p + m[p] : p \in DOMAIN m} : e + Header \notin DOMAIN m}
              = {e \in DOMAIN h : h[e].isFree}
<1>1. /\ \A a \in DOMAIN h : a \in Nat /\ h[a].nextAlloc \in DOMAIN h /\ h[a].prevAlloc \in DOMAIN h
      /\ 0 \in DOMAIN h
  BY DEF List, WellFormed
<1>2. /\ \A a \in DOMAIN h : a + Header \in DOMAIN m <=> ~h[a].isFree
      /\ \A a \in DOMAIN h : ~h[a].isFree => m[a + Header] = h[a].nextAlloc - (a + Header)
      /\ \A p \in DOMAIN m : \E a \in DOMAIN h : p = a + Header /\ ~h[a].isFree
  BY BlocksAre
<1>3. \A a \in DOMAIN h : ~h[a].isFree => (a + Header) + m[a + Header] = h[a].nextAlloc
  <2>1. ASSUME NEW a \in DOMAIN h, ~h[a].isFree
        PROVE  (a + Header) + m[a + Header] = h[a].nextAlloc
    <3>1. a \in Nat /\ h[a].nextAlloc \in Nat /\ m[a + Header] = h[a].nextAlloc - (a + Header)
      BY <1>1, <1>2, <2>1
    <3> QED
      BY <3>1, HeaderType
  <2> QED
    BY <2>1
<1>4. ASSUME NEW e \in {0} \cup {p + m[p] : p \in DOMAIN m} PROVE e \in DOMAIN h
  <2>1. ASSUME NEW p \in DOMAIN m PROVE p + m[p] \in DOMAIN h
    BY <1>1, <1>2, <1>3
  <2> QED
    BY <1>1, <1>4, <2>1
<1>5. ASSUME NEW e \in DOMAIN h, h[e].isFree PROVE e \in {0} \cup {p + m[p] : p \in DOMAIN m}
  <2>1. CASE e = 0
    BY <2>1
  <2>2. CASE e # 0
    <3>1. h[h[e].prevAlloc].nextAlloc = e /\ h[e].prevAlloc \in DOMAIN h
      BY <1>1, <2>2 DEF List, Ordered
    <3>2. ~h[h[e].prevAlloc].isFree
      BY <1>5, <2>2, <3>1 DEF List, NoneToAbsorb
    <3>3. (h[e].prevAlloc + Header) + m[h[e].prevAlloc + Header] = e
      BY <1>3, <3>1, <3>2
    <3>4. h[e].prevAlloc + Header \in DOMAIN m
      BY <1>2, <3>1, <3>2
    <3> QED
      BY <3>3, <3>4
  <2> QED
    BY <2>1, <2>2
<1> QED
  BY <1>2, <1>4, <1>5

(* The blocks above a free allocation begin with the one next to it. *)
LEMMA AboveIs ==
    ASSUME NEW h, List(h), NEW m, m = BlocksOf(h), NEW e \in DOMAIN h, h[e].isFree,
           NEW A, A = {p \in DOMAIN m : p > e}
    PROVE  /\ A # {} <=> h[e].nextAlloc # 0
           /\ h[e].nextAlloc # 0 => Min(A) = h[e].nextAlloc + Header
<1>1. /\ \A a \in DOMAIN h : a \in Nat /\ h[a].nextAlloc \in DOMAIN h
      /\ e \in Nat /\ h[e].nextAlloc \in Nat
  BY DEF List, WellFormed
<1>2. /\ \A a \in DOMAIN h : a + Header \in DOMAIN m <=> ~h[a].isFree
      /\ \A p \in DOMAIN m : \E a \in DOMAIN h : p = a + Header /\ ~h[a].isFree
  BY BlocksAre
<1>3. ASSUME NEW p \in A
      PROVE  \E a \in DOMAIN h : p = a + Header /\ e < a /\ ~h[a].isFree
  <2>1. PICK a \in DOMAIN h : p = a + Header /\ ~h[a].isFree
    BY <1>2
  <2>2. a # e /\ a \in Nat /\ a + Header > e
    BY <1>1, <2>1
  <2>3. h[a].nextAlloc # 0
    BY <2>1 DEF List, Ended
  <2>4. h[a].nextAlloc >= a + Header /\ (e <= a \/ h[a].nextAlloc <= e) /\ h[a].nextAlloc \in Nat
    BY <1>1, <2>3 DEF List, Ordered
  <2>5. e < a
    BY <1>1, <2>2, <2>4, HeaderType
  <2> QED
    BY <2>1, <2>5
<1>4. CASE h[e].nextAlloc = 0
  <2>1. \A b \in DOMAIN h : b <= e
    BY <1>4 DEF List, Ended
  <2>2. A = {}
    BY <1>1, <1>3, <2>1
  <2> QED
    BY <1>4, <2>2
<1>5. CASE h[e].nextAlloc # 0
  <2> DEFINE n == h[e].nextAlloc
  <2>1. /\ n \in DOMAIN h /\ n \in Nat /\ n >= e + Header /\ ~h[n].isFree
        /\ \A c \in DOMAIN h : c <= e \/ n <= c
    BY <1>1, <1>5 DEF List, Ordered, NoneToAbsorb
  <2>2. n + Header \in A
    BY <1>1, <1>2, <2>1, HeaderType
  <2>3. \A p \in A : n + Header <= p
    <3>1. ASSUME NEW p \in A PROVE n + Header <= p
      <4>1. PICK a \in DOMAIN h : p = a + Header /\ e < a
        BY <1>3
      <4>2. n <= a
        BY <1>1, <2>1, <4>1
      <4> QED
        BY <1>1, <2>1, <4>1, <4>2, HeaderType
    <3> QED
      BY <3>1
  <2>4. A \subseteq Nat
    BY <1>1, <1>3, HeaderType
  <2>5. Min(A) \in A /\ Min(A) <= n + Header
    BY <2>2, <2>4, MinMember
  <2>6. Min(A) = n + Header
    BY <2>1, <2>3, <2>4, <2>5, HeaderType
  <2> QED
    BY <1>5, <2>2, <2>6
<1> QED
  BY <1>4, <1>5

(* A gap that is given is one block more. *)
LEMMA GiveBlocks ==
    ASSUME NEW h, List(h), NEW g, List(g), NEW m, m = BlocksOf(h),
           NEW a \in DOMAIN h, a \in DOMAIN g, NEW room,
           ~g[a].isFree, g[a].nextAlloc - (a + Header) = room, h[a].isFree,
           \A b \in DOMAIN h : b # a => /\ b \in DOMAIN g /\ g[b].isFree = h[b].isFree
                                       /\ g[b].nextAlloc = h[b].nextAlloc,
           \A b \in DOMAIN g : b \notin DOMAIN h => g[b].isFree
    PROVE  BlocksOf(g) = [p \in DOMAIN m \cup {a + Header} |->
                            IF p = a + Header THEN room ELSE m[p]]
<1>1. PICK f : f = [p \in DOMAIN m \cup {a + Header} |->
                      IF p = a + Header THEN room ELSE m[p]]
  OBVIOUS
<1>2. /\ DOMAIN f = DOMAIN m \cup {a + Header} /\ f[a + Header] = room
      /\ \A p \in DOMAIN m : p # a + Header => f[p] = m[p]
      /\ f = [p \in DOMAIN f |-> f[p]]
  BY <1>1
<1>3. /\ \A b \in DOMAIN h : b + Header \in DOMAIN m <=> ~h[b].isFree
      /\ \A b \in DOMAIN h : ~h[b].isFree => m[b + Header] = h[b].nextAlloc - (b + Header)
      /\ \A p \in DOMAIN m : \E b \in DOMAIN h : p = b + Header /\ ~h[b].isFree
  BY BlocksAre
<1>4. \A b \in DOMAIN g : b # a => b + Header # a + Header
  <2>1. a \in Nat /\ \A b \in DOMAIN g : b \in Nat
    BY DEF List, WellFormed
  <2> QED
    BY <2>1, HeaderType
<1>5. ASSUME NEW b \in DOMAIN g, ~g[b].isFree
      PROVE  b + Header \in DOMAIN f /\ f[b + Header] = g[b].nextAlloc - (b + Header)
  <2>1. CASE b = a
    BY <1>2, <2>1
  <2>2. CASE b # a
    <3>1. b \in DOMAIN h /\ ~h[b].isFree /\ g[b].nextAlloc = h[b].nextAlloc
      BY <1>5, <2>2
    <3> QED
      BY <1>2, <1>3, <1>4, <2>2, <3>1
  <2> QED
    BY <2>1, <2>2
<1>6. ASSUME NEW p \in DOMAIN f PROVE \E b \in DOMAIN g : p = b + Header /\ ~g[b].isFree
  <2>1. CASE p = a + Header
    BY <2>1
  <2>2. CASE p \in DOMAIN m
    <3>1. PICK b \in DOMAIN h : p = b + Header /\ ~h[b].isFree
      BY <1>3, <2>2
    <3>2. b # a
      BY <3>1
    <3> QED
      BY <3>1, <3>2
  <2> QED
    BY <1>2, <2>1, <2>2
<1>7. f = BlocksOf(g)
  BY <1>2, <1>5, <1>6, SameBlocks
<1> QED
  BY <1>1, <1>7

(* A freed block is a block less, whatever its allocation absorbs. *)
LEMMA FreeBlocks ==
    ASSUME List(head), NEW a \in DOMAIN head, ~head[a].isFree, NEW m, m = BlocksOf(head)
    PROVE  BlocksOf(Freed(a)) = [p \in DOMAIN m \ {a + Header} |-> m[p]]
<1>1. PICK f : f = [p \in DOMAIN m \ {a + Header} |-> m[p]]
  OBVIOUS
<1>2. PICK g : g = Freed(a)
  OBVIOUS
<1>3. /\ List(g) /\ DOMAIN g \subseteq DOMAIN head
      /\ \A b \in DOMAIN head :
            ~head[b].isFree /\ b # a => /\ b \in DOMAIN g /\ ~g[b].isFree
                                       /\ g[b].nextAlloc = head[b].nextAlloc
      /\ \A b \in DOMAIN g : ~g[b].isFree => ~head[b].isFree /\ b # a
  BY <1>2, FreedList
<1>4. /\ DOMAIN f = DOMAIN m \ {a + Header} /\ f = [p \in DOMAIN f |-> f[p]]
      /\ \A p \in DOMAIN f : f[p] = m[p]
  BY <1>1
<1>5. /\ \A b \in DOMAIN head : b + Header \in DOMAIN m <=> ~head[b].isFree
      /\ \A b \in DOMAIN head : ~head[b].isFree => m[b + Header] = head[b].nextAlloc - (b + Header)
      /\ \A p \in DOMAIN m : \E b \in DOMAIN head : p = b + Header /\ ~head[b].isFree
  BY BlocksAre
<1>6. \A b \in DOMAIN head : b # a => b + Header # a + Header
  <2>1. a \in Nat /\ \A b \in DOMAIN head : b \in Nat
    BY DEF List, WellFormed
  <2> QED
    BY <2>1, HeaderType
<1>7. ASSUME NEW b \in DOMAIN g, ~g[b].isFree
      PROVE  b + Header \in DOMAIN f /\ f[b + Header] = g[b].nextAlloc - (b + Header)
  <2>1. b \in DOMAIN head /\ ~head[b].isFree /\ b # a /\ g[b].nextAlloc = head[b].nextAlloc
    BY <1>3, <1>7
  <2>2. b + Header \in DOMAIN f
    BY <1>4, <1>5, <1>6, <2>1
  <2> QED
    BY <1>4, <1>5, <2>1, <2>2
<1>8. ASSUME NEW p \in DOMAIN f PROVE \E b \in DOMAIN g : p = b + Header /\ ~g[b].isFree
  <2>1. PICK b \in DOMAIN head : p = b + Header /\ ~head[b].isFree
    BY <1>4, <1>5
  <2>2. b # a
    BY <1>4, <2>1
  <2> QED
    BY <1>3, <2>1, <2>2
<1>9. f = BlocksOf(g)
  BY <1>3, <1>4, <1>7, <1>8, SameBlocks
<1> QED
  BY <1>1, <1>2, <1>9

-----------------------------------------------------------------------------
(* The allocator *)

(* The gaps of the blocks are the free allocations but the last, with the room behind
   their metadata. *)
LEMMA GapsOf ==
    ASSUME NEW h, List(h), Held = BlocksOf(h), NEW size
    PROVE  /\ Blocks!GapStarts = {e \in DOMAIN h : h[e].isFree}
           /\ Blocks!Gaps(size) = {e \in DOMAIN h : /\ h[e].isFree /\ h[e].nextAlloc # 0
                                                   /\ h[e].nextAlloc - e - Header >= size}
           /\ \A e \in DOMAIN h : h[e].isFree /\ h[e].nextAlloc # 0 =>
                 Blocks!GapRoom(e) = h[e].nextAlloc - e - Header
<1>1. PICK m : m = Held
  OBVIOUS
<1>2. Blocks!GapStarts = {e \in DOMAIN h : h[e].isFree}
  <2>1. Blocks!GapStarts = {e \in {0} \cup {p + m[p] : p \in DOMAIN m} : e + Header \notin DOMAIN m}
    BY <1>1 DEF Blocks!GapStarts
  <2> QED
    BY <1>1, <2>1, GapsAre
<1>3. ASSUME NEW e \in DOMAIN h, h[e].isFree
      PROVE  /\ Blocks!Above(e) # {} <=> h[e].nextAlloc # 0
             /\ h[e].nextAlloc # 0 => Blocks!GapRoom(e) = h[e].nextAlloc - e - Header
  <2>1. PICK A : A = {p \in DOMAIN m : p > e}
    OBVIOUS
  <2>2. Blocks!Above(e) = A
    BY <1>1, <2>1 DEF Blocks!Above
  <2>3. /\ A # {} <=> h[e].nextAlloc # 0
        /\ h[e].nextAlloc # 0 => Min(A) = h[e].nextAlloc + Header
    BY <1>1, <1>3, <2>1, AboveIs
  <2>4. Blocks!GapRoom(e) = Min(A) - Header - (e + Header)
    BY <2>2 DEF Blocks!GapRoom, Blocks!Min, Min
  <2>5. e \in Nat /\ h[e].nextAlloc \in Nat
    BY DEF List, WellFormed
  <2>6. h[e].nextAlloc # 0 => Blocks!GapRoom(e) = h[e].nextAlloc - e - Header
    BY <2>3, <2>4, <2>5, HeaderType
  <2> QED
    BY <2>2, <2>3, <2>6
<1>4. Blocks!Gaps(size) = {e \in DOMAIN h : /\ h[e].isFree /\ h[e].nextAlloc # 0
                                            /\ h[e].nextAlloc - e - Header >= size}
  <2>1. Blocks!Gaps(size) = {e \in Blocks!GapStarts : Blocks!Above(e) # {} /\ Blocks!GapRoom(e) >= size}
    BY DEF Blocks!Gaps
  <2> QED
    BY <1>2, <1>3, <2>1
<1> QED
  BY <1>2, <1>3, <1>4

(* Before the first memalloc nothing is held, as in the list memalloc begins with. *)
LEMMA HeadsBlocks == Usable /\ HeapInv => Held = BlocksOf(Heads)
<1> SUFFICES ASSUME Usable, HeapInv PROVE Held = BlocksOf(Heads)
  OBVIOUS
<1>1. CASE pages # 0
  BY <1>1 DEF Held, BlocksOf, Heads
<1>2. CASE pages = 0
  <2>1. DOMAIN head = {}
    BY <1>2, NoListWithoutPages
  <2>2. {a + Header : a \in {b \in DOMAIN head : ~head[b].isFree}} = {}
    BY <2>1
  <2>3. {b \in DOMAIN First : ~First[b].isFree} = {}
    BY DEF First, Alloc
  <2>4. {a + Header : a \in {b \in DOMAIN First : ~First[b].isFree}} = {}
    BY <2>3
  <2>5. Held = << >>
    BY <2>2 DEF Held
  <2>6. BlocksOf(First) = << >>
    BY <2>4 DEF BlocksOf
  <2> QED
    BY <1>2, <2>5, <2>6 DEF Heads
<1> QED
  BY <1>1, <1>2

(* What memalloc finds is the first gap that is large enough, or else the end of the list. *)
LEMMA FoundIsFirstGap ==
    ASSUME NEW h, List(h), Held = BlocksOf(h), NEW size, NEW a, a = Found(h, size)
    PROVE  /\ a \in DOMAIN h /\ h[a].isFree
           /\ h[a].nextAlloc # 0 =>
                 /\ Blocks!Gaps(size) # {} /\ Blocks!Min(Blocks!Gaps(size)) = a
                 /\ Blocks!GapRoom(a) = h[a].nextAlloc - a - Header
                 /\ h[a].nextAlloc - a - Header >= size
           /\ h[a].nextAlloc = 0 =>
                 /\ Blocks!Gaps(size) = {} /\ Blocks!Max(Blocks!GapStarts) = a
<1>1. PICK G : G = {e \in DOMAIN h : /\ h[e].isFree /\ h[e].nextAlloc # 0
                                    /\ h[e].nextAlloc - e - Header >= size}
  OBVIOUS
<1>2. PICK E : E = {e \in DOMAIN h : h[e].isFree}
  OBVIOUS
<1>3. /\ Blocks!GapStarts = E /\ Blocks!Gaps(size) = G
      /\ \A e \in DOMAIN h : h[e].isFree /\ h[e].nextAlloc # 0 =>
            Blocks!GapRoom(e) = h[e].nextAlloc - e - Header
  BY <1>1, <1>2, GapsOf
<1>4. DOMAIN h \subseteq Nat
  BY DEF List, WellFormed
<1>5. a \in DOMAIN h /\ Suits(h, a, size)
  BY FoundSuits
<1>6. \A e \in DOMAIN h : Suits(h, e, size) => a <= e
  <2> DEFINE S == {e \in DOMAIN h : Suits(h, e, size)}
  <2>1. S # {} /\ S \subseteq Nat
    BY <1>4, <1>5
  <2>2. \A e \in S : Min(S) <= e
    BY <2>1, MinMember
  <2> QED
    BY <2>2 DEF Found
<1>7. CASE h[a].nextAlloc # 0
  <2>1. a \in G
    BY <1>1, <1>5, <1>7 DEF Suits
  <2>2. \A e \in G : a <= e
    BY <1>1, <1>6 DEF Suits
  <2>3. Min(G) \in G /\ Min(G) <= a
    BY <1>1, <1>4, <2>1, MinMember
  <2>4. Min(G) = a
    BY <1>1, <1>4, <2>1, <2>2, <2>3
  <2>5. Blocks!Min(Blocks!Gaps(size)) = a
    BY <1>3, <2>4 DEF Blocks!Min, Min
  <2> QED
    BY <1>1, <1>3, <1>5, <1>7, <2>1, <2>5
<1>8. CASE h[a].nextAlloc = 0
  <2>1. h[a].isFree /\ \A b \in DOMAIN h : b <= a
    BY <1>5, <1>8 DEF List, Ended
  <2>2. G = {}
    <3>1. ASSUME NEW e \in G PROVE FALSE
      <4>1. a <= e /\ e <= a /\ e \in Nat /\ a \in Nat /\ h[e].nextAlloc # 0
        BY <1>1, <1>4, <1>5, <1>6, <2>1 DEF Suits
      <4> QED
        BY <1>8, <4>1
    <3> QED
      BY <3>1
  <2>3. a \in E /\ E \subseteq Nat /\ \A e \in E : a >= e
    BY <1>2, <1>4, <1>5, <2>1
  <2>4. \A x \in E : (\A e \in E : x >= e) => x = a
    BY <2>3
  <2>5. (CHOOSE x \in E : \A e \in E : x >= e) = a
    BY <2>3, <2>4
  <2>6. Blocks!Max(Blocks!GapStarts) = a
    BY <1>3, <2>5 DEF Blocks!Max
  <2> QED
    BY <1>3, <1>5, <1>8, <2>1, <2>2, <2>6
<1> QED
  BY <1>5, <1>7, <1>8

(* Each memalloc is the allocator's. *)
LEMMA MemallocRefines ==
    ASSUME HeapInv, HeapInv', NEW size \in Sizes, Memalloc(size)
    PROVE  Blocks!AllocInGap(size) \/ Blocks!AllocAtEnd(size) \/ Blocks!Refuse(size)
<1>0. size \in Nat
  BY HeapAssumption DEF HeapAssumption
<1>1. CASE FirstPageRefused
  <2>1. pages = 0 /\ head' = head /\ answer' = <<"POINTER", 0>>
    BY <1>1 DEF FirstPageRefused, Answer
  <2>2. Usable
    BY <2>1 DEF Usable
  <2>3. List(Heads) /\ Heads = First
    BY <2>1, <2>2, HeadsList
  <2>4. Held = BlocksOf(Heads)
    BY <2>2, HeadsBlocks
  <2>5. Found(Heads, size) = 0 /\ Heads[0].nextAlloc = 0
    <3>1. DOMAIN First = {0} /\ First[0].nextAlloc = 0
      BY DEF First, Alloc
    <3> QED
      BY <2>3, <3>1, FoundSuits
  <2>6. Blocks!Gaps(size) = {}
    BY <2>3, <2>4, <2>5, FoundIsFirstGap
  <2>7. Held' = Held
    BY <2>1 DEF Held
  <2> QED
    BY <2>1, <2>6, <2>7 DEF Blocks!Refuse
<1>2. CASE ~FirstPageRefused
  <2>1. PICK h : h = Heads
    OBVIOUS
  <2>2. PICK a : a = Found(h, size)
    OBVIOUS
  <2>3. Usable /\ (TakeWhole(h, a, size) \/ Split(h, a, size) \/ Extend(h, a, size) \/ Refused(h, a, size))
    BY <1>2, <2>1, <2>2 DEF Memalloc
  <2>4. List(h) /\ Held = BlocksOf(h)
    BY <2>1, <2>3, HeadsList, HeadsBlocks
  <2>5. PICK m : m = Held
    OBVIOUS
  <2>6. /\ a \in DOMAIN h /\ h[a].isFree
        /\ h[a].nextAlloc # 0 =>
              /\ Blocks!Gaps(size) # {} /\ Blocks!Min(Blocks!Gaps(size)) = a
              /\ Blocks!GapRoom(a) = h[a].nextAlloc - a - Header
              /\ h[a].nextAlloc - a - Header >= size
        /\ h[a].nextAlloc = 0 =>
              /\ Blocks!Gaps(size) = {} /\ Blocks!Max(Blocks!GapStarts) = a
    BY <2>2, <2>4, FoundIsFirstGap
  <2>7. /\ a \in Nat /\ h[a].nextAlloc \in Nat
        /\ \A b \in DOMAIN h : /\ b \in Nat /\ h[b] \in Metadata
                               /\ h[b].nextAlloc \in DOMAIN h
        /\ h = [b \in DOMAIN h |-> h[b]]
    BY <2>4, <2>6 DEF List, WellFormed
  \* What a handler that gives the allocation at a does to the blocks
  <2>8. ASSUME NEW g, g = head', a \in DOMAIN g, NEW room,
               ~g[a].isFree, g[a].nextAlloc - (a + Header) = room,
               \A b \in DOMAIN h : b # a => /\ b \in DOMAIN g /\ g[b].isFree = h[b].isFree
                                           /\ g[b].nextAlloc = h[b].nextAlloc,
               \A b \in DOMAIN g : b \notin DOMAIN h => g[b].isFree,
               answer' = <<"POINTER", a + Header>>
        PROVE  Blocks!Give(a, room)
    <3>1. List(g)
      BY <2>8 DEF HeapInv
    <3>2. BlocksOf(g) = [p \in DOMAIN m \cup {a + Header} |->
                            IF p = a + Header THEN room ELSE m[p]]
      BY <2>4, <2>5, <2>6, <2>8, <3>1, GiveBlocks
    <3>3. Held' = BlocksOf(g)
      BY <2>8 DEF Held, BlocksOf
    <3> QED
      BY <2>5, <2>8, <3>2, <3>3 DEF Blocks!Give
  <2>9. CASE TakeWhole(h, a, size)
    <3>1. /\ h[a].nextAlloc # 0 /\ answer' = <<"POINTER", a + Header>>
          /\ h[a].nextAlloc - a - Header <= size + Header
          /\ head' = [h EXCEPT ![a].isFree = FALSE]
      BY <2>9 DEF TakeWhole, Answer
    <3>2. PICK g : g = [h EXCEPT ![a].isFree = FALSE]
      OBVIOUS
    <3>3. PICK room : room = h[a].nextAlloc - a - Header
      OBVIOUS
    <3>4. /\ a \in DOMAIN g /\ ~g[a].isFree /\ g[a].nextAlloc = h[a].nextAlloc
          /\ \A b \in DOMAIN h : b # a => /\ b \in DOMAIN g /\ g[b].isFree = h[b].isFree
                                          /\ g[b].nextAlloc = h[b].nextAlloc
          /\ \A b \in DOMAIN g : b \in DOMAIN h
      BY <2>6, <2>7, <3>2 DEF Metadata
    <3>5. g[a].nextAlloc - (a + Header) = room
      BY <2>7, <3>3, <3>4, HeaderType
    <3>6. Blocks!Give(a, room)
      BY <2>8, <3>1, <3>2, <3>4, <3>5
    <3>7. room \in size .. size + Header
      BY <1>0, <2>6, <2>7, <3>1, <3>3, HeaderType
    <3> QED
      BY <2>6, <3>1, <3>3, <3>6, <3>7 DEF Blocks!AllocInGap
  <2>10. CASE Split(h, a, size)
    <3>1. PICK mid, old : mid = a + Header + size /\ old = h[a].nextAlloc
      OBVIOUS
    <3>2. PICK g : g = With([h EXCEPT ![a] = Alloc(@.prevAlloc, mid, FALSE), ![old].prevAlloc = mid],
                            mid, Alloc(a, old, TRUE))
      OBVIOUS
    <3>3. /\ old # 0 /\ old - a - Header > size + Header
          /\ answer' = <<"POINTER", a + Header>> /\ head' = g
      BY <2>10, <3>1, <3>2 DEF Split, Answer
    <3>4. /\ mid \in Nat /\ mid > a /\ mid < old /\ old \in Nat /\ old \in DOMAIN h
      BY <1>0, <2>6, <2>7, <3>1, <3>3, HeaderType
    <3>5. mid \notin DOMAIN h
      <4>1. \A b \in DOMAIN h : b <= a \/ old <= b
        BY <2>4, <2>6, <3>1, <3>3 DEF List, Ordered
      <4> QED
        BY <2>7, <3>4, <4>1
    <3>6. /\ a \in DOMAIN g /\ ~g[a].isFree /\ g[a].nextAlloc = mid
          /\ \A b \in DOMAIN h : b # a => /\ b \in DOMAIN g /\ g[b].isFree = h[b].isFree
                                          /\ g[b].nextAlloc = h[b].nextAlloc
          /\ \A b \in DOMAIN g : b \notin DOMAIN h => g[b].isFree
      BY <2>6, <2>7, <3>2, <3>4, <3>5 DEF Metadata, With, Alloc
    <3>7. g[a].nextAlloc - (a + Header) = size
      BY <1>0, <2>7, <3>1, <3>6, HeaderType
    <3>8. Blocks!Give(a, size)
      BY <2>8, <3>3, <3>6, <3>7
    <3>9. size \in size .. size + Header /\ Blocks!GapRoom(a) - size > Header
      BY <1>0, <2>6, <2>7, <3>1, <3>3, HeaderType
    <3> QED
      BY <2>6, <3>1, <3>3, <3>8, <3>9 DEF Blocks!AllocInGap
  <2>11. CASE Extend(h, a, size)
    <3>1. PICK last : last = a + Header + size
      OBVIOUS
    <3>2. PICK g : g = With([h EXCEPT ![a] = Alloc(@.prevAlloc, last, FALSE)], last, Alloc(a, 0, TRUE))
      OBVIOUS
    <3>3. h[a].nextAlloc = 0 /\ answer' = <<"POINTER", a + Header>> /\ head' = g
      BY <2>11, <3>1, <3>2 DEF Extend, Answer
    <3>4. last \in Nat /\ last > a
      BY <1>0, <2>7, <3>1, HeaderType
    <3>5. last \notin DOMAIN h
      <4>1. \A b \in DOMAIN h : b <= a
        BY <2>4, <2>6, <3>3 DEF List, Ended
      <4> QED
        BY <2>7, <3>4, <4>1
    <3>6. /\ a \in DOMAIN g /\ ~g[a].isFree /\ g[a].nextAlloc = last
          /\ \A b \in DOMAIN h : b # a => /\ b \in DOMAIN g /\ g[b].isFree = h[b].isFree
                                          /\ g[b].nextAlloc = h[b].nextAlloc
          /\ \A b \in DOMAIN g : b \notin DOMAIN h => g[b].isFree
      BY <2>6, <2>7, <3>2, <3>4, <3>5 DEF Metadata, With, Alloc
    <3>7. g[a].nextAlloc - (a + Header) = size
      BY <1>0, <2>7, <3>1, <3>6, HeaderType
    <3>8. Blocks!Give(a, size)
      BY <2>8, <3>3, <3>6, <3>7
    <3> QED
      BY <2>6, <3>3, <3>8 DEF Blocks!AllocAtEnd
  <2>12. CASE Refused(h, a, size)
    <3>1. h[a].nextAlloc = 0 /\ answer' = <<"POINTER", 0>> /\ head' = h
      BY <2>12 DEF Refused, Answer
    <3>2. Held' = Held
      BY <2>4, <3>1 DEF Held, BlocksOf
    <3> QED
      BY <2>6, <3>1, <3>2 DEF Blocks!Refuse
  <2> QED
    BY <2>3, <2>9, <2>10, <2>11, <2>12
<1> QED
  BY <1>1, <1>2

(* A free of the heap is a free of the allocator. *)
LEMMA MemfreeRefines ==
    ASSUME HeapInv, NEW p \in DOMAIN Held, Memfree(p)
    PROVE  Blocks!Free(p)
<1>1. PICK a \in DOMAIN head : ~head[a].isFree /\ p = a + Header
  BY DEF Held
<1>2. List(head)
  BY <1>1 DEF HeapInv
<1>3. p - Header = a
  <2>1. a \in Nat
    BY <1>2 DEF List, WellFormed
  <2> QED
    BY <1>1, <2>1, HeaderType
<1>4. head' = Freed(a) /\ answer' = <<"OK", 0>>
  BY <1>3 DEF Memfree, Freed, Answer
<1>5. PICK m : m = Held
  OBVIOUS
<1>6. PICK g : g = Freed(a)
  OBVIOUS
<1>7. m = BlocksOf(head)
  BY <1>5 DEF Held, BlocksOf
<1>8. BlocksOf(g) = [q \in DOMAIN m \ {p} |-> m[q]]
  BY <1>1, <1>2, <1>6, <1>7, FreeBlocks
<1>9. Held' = BlocksOf(g)
  BY <1>4, <1>6 DEF Held, BlocksOf
<1>10. Blocks!Restrict(m, DOMAIN m \ {p}) = [q \in DOMAIN m \ {p} |-> m[q]]
  BY DEF Blocks!Restrict
<1> QED
  BY <1>4, <1>5, <1>8, <1>9, <1>10 DEF Blocks!Free

(* A process begins without blocks. *)
LEMMA InitRefines == Init => Blocks!Init
<1> SUFFICES ASSUME Init PROVE Blocks!Init
  OBVIOUS
<1>1. DOMAIN head = {} /\ answer = <<"OK", 0>>
  BY DEF Init
<1>2. {a + Header : a \in {b \in DOMAIN head : ~head[b].isFree}} = {}
  BY <1>1
<1>3. Held = << >>
  BY <1>2 DEF Held
<1>4. [p \in {} |-> 0] = << >>
  OBVIOUS
<1> QED
  BY <1>1, <1>3, <1>4 DEF Blocks!Init

(* Each petition is an operation of the allocator, or changes nothing it sees. *)
LEMMA NextRefines == HeapInv /\ HeapInv' /\ [Next]_vars => [Blocks!Next]_(Blocks!vars)
<1> SUFFICES ASSUME HeapInv, HeapInv', [Next]_vars PROVE Blocks!Next \/ UNCHANGED Blocks!vars
  OBVIOUS
<1>1. CASE \E size \in Sizes : Memalloc(size)
  BY <1>1, MemallocRefines DEF Blocks!Next
<1>2. CASE \E p \in DOMAIN Held : Memfree(p)
  BY <1>2, MemfreeRefines DEF Blocks!Next
<1>3. CASE \E p \in DOMAIN Held : Memread(p, Held[p]) \/ Memwrite(p, Held[p])
  <2>1. PICK p \in DOMAIN Held : UNCHANGED head /\ (answer' = <<"OK", 0>> \/ answer' = <<"ERROR", 0>>)
    BY <1>3 DEF Memread, Memwrite, Access, Answer
  <2>2. Held' = Held
    BY <2>1 DEF Held
  <2>3. Held # << >>
    <3>1. DOMAIN Held # {} /\ DOMAIN << >> = {}
      BY <2>1
    <3> QED
      BY <3>1
  <2> QED
    BY <2>1, <2>2, <2>3 DEF Blocks!Next, Blocks!Access, Blocks!Error
<1>4. CASE \/ MemfreeInvalid(Beyond)
           \/ pages > 0 /\ (Memread(Beyond, 1) \/ Memwrite(Beyond, 1))
  <2>1. UNCHANGED head /\ answer' = <<"ERROR", 0>>
    <3>1. pages \in Nat /\ pages * PageSize \in Nat
      BY HeapAssumption, HeaderType DEF HeapInv, HeapAssumption
    <3>2. Beyond + 1 > MaxAddr
      BY <3>1 DEF Beyond, MaxAddr
    <3> QED
      BY <1>4, <3>2 DEF Memread, Memwrite, MemfreeInvalid, Access, Answer
  <2>2. Held' = Held
    BY <2>1 DEF Held
  <2> QED
    BY <2>1, <2>2 DEF Blocks!Next, Blocks!Error
<1>5. CASE UNCHANGED vars
  <2>1. Held' = Held /\ answer' = answer
    BY <1>5 DEF vars, Held
  <2> QED
    BY <2>1 DEF Blocks!vars
<1> QED
  BY <1>1, <1>2, <1>3, <1>4, <1>5 DEF Next

(* The list in the pages is the allocator the processes see: the first gap that fits is
   given, memory is refused only when none does, and what one frees is what it was given. *)
THEOREM HeapImplementsAllocator == Spec => ImplementsAllocator
<1>1. HeapInv /\ HeapInv' /\ [Next]_vars => [Blocks!Next]_(Blocks!vars)
  BY NextRefines
<1>2. StepInv => HeapInv
  BY DEF StepInv
<1> QED
  BY <1>1, <1>2, InitRefines, HeapInvariant, PTL DEF Spec, ImplementsAllocator, Blocks!Spec

=============================================================================
