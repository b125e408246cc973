---------------------------- MODULE SwampProofs ----------------------------
(***************************************************************************)
(* Proofs that the two assignments of the swap server keep the pages of    *)
(* the processes apart, and that the server is the store of pages that the *)
(* memory expects, for any number of processes, files and pages.           *)
(***************************************************************************)
EXTENDS Swamp, CommonLemmas

-----------------------------------------------------------------------------
(* The invariant *)

\* The first page of the process was accepted
Begun(p) == table[p] # <<>> /\ table[p][1]

TablesMatch ==
    \A p \in Pids : /\ client[p] \in {"new", "gone"} => table[p] = <<>>
                    /\ client[p] = "ending" => table[p] # <<>>

\* A process whose first page the swap does not have has no entry, in use or not
Absent ==
    \A p \in Pids : client[p] = "new" \/ (Live(p) /\ ~Begun(p)) =>
        \A f \in Files, i \in Indexes : entries[f][i].pid # p

IsFirstPage(f, i, p) ==
    entries[f][i].used /\ entries[f][i].pid = p /\ entries[f][i].page = 0

\* A process keeps its first page while it has any
FirstPage ==
    \A p \in Pids : Live(p) /\ Begun(p) =>
        \E f \in Files, i \in Indexes : IsFirstPage(f, i, p)

\* The entries of a process, in use or not, are in one file and of different pages
OnePlace ==
    \A f, g \in Files, i, j \in Indexes :
        LET a == entries[f][i]
            b == entries[g][j]
        IN  a.pid = b.pid /\ a.pid \in Pids /\ Live(a.pid) =>
                f = g /\ (a.page = b.page => i = j)

\* With fixed assignment they are in the chunk that begins with its first page
InChunk ==
    asignacion = "ASIG_FIJA" =>
        \A f \in Files, i \in Indexes :
            entries[f][i].pid \in Pids /\ Live(entries[f][i].pid) =>
                \E b \in ChunkStarts : b <= i /\ i < b + MaxFrames
                                       /\ IsFirstPage(f, b, entries[f][i].pid)

\* A page in use is a process's
Owned == \A f \in Files, i \in Indexes : entries[f][i].used => entries[f][i].pid \in Pids

SwampInv == TypeOK /\ TablesMatch /\ Owned /\ Absent /\ FirstPage /\ OnePlace /\ InChunk

-----------------------------------------------------------------------------
(* Indexes and chunks *)

(* The sets of indexes and what is in them. *)
LEMMA Sizes ==
    /\ MaxFrames \in Nat /\ MaxFrames > 0 /\ MaxPages \in Nat /\ MaxPages > 0 /\ MaxTable \in Nat
    /\ Files \subseteq Nat /\ 0 \notin Files /\ 1 \in Files
    /\ Indexes \subseteq Nat /\ 0 \in Indexes /\ Indexes \subseteq Slots
    /\ ChunkStarts \subseteq Indexes
BY SwampAssumption DEF SwampAssumption, Files, Indexes, Slots, ChunkStarts

(* The first of some indexes. *)
LEMMA FirstMember ==
    ASSUME NEW S, S \subseteq Nat
    PROVE  /\ First(S) = -1 <=> S = {}
           /\ S # {} => First(S) \in S /\ \A x \in S : First(S) <= x
<1>1. CASE S = {}
  BY <1>1 DEF First
<1>2. CASE S # {}
  <2>1. Min(S) \in S /\ \A x \in S : Min(S) <= x
    BY <1>2, MinMember
  <2>2. First(S) = Min(S)
    BY <1>2 DEF First
  <2>3. First(S) # -1
    BY <2>1, <2>2
  <2> QED
    BY <1>2, <2>1, <2>2, <2>3
<1> QED
  BY <1>1, <1>2

(* Two chunks do not begin in the same one. *)
LEMMA ChunkStartUnique ==
    ASSUME NEW M \in Nat \ {0}, NEW a \in Nat, NEW b \in Nat, a % M = 0, b % M = 0,
           a <= b, b < a + M
    PROVE  a = b
<1>1. a = (a \div M) * M /\ a \div M \in Nat
  BY DivMod
<1>2. b = (b \div M) * M /\ b \div M \in Nat
  BY DivMod
<1> DEFINE q == a \div M
           r == b \div M
<1> HIDE DEF q, r
<1>3. q * M <= r * M /\ r * M < q * M + M /\ q \in Nat /\ r \in Nat
  BY <1>1, <1>2 DEF q, r
<1>4. q <= r
  BY <1>3
<1>5. ~(q + 1 <= r)
  <2>1. ASSUME q + 1 <= r PROVE (q + 1) * M <= r * M
    BY <1>3, <2>1
  <2>2. (q + 1) * M = q * M + M
    BY <1>3
  <2> QED
    BY <1>3, <2>1, <2>2
<1>6. q = r
  BY <1>3, <1>4, <1>5
<1> QED
  BY <1>1, <1>2, <1>6 DEF q, r

(* swapFile_getIndex finds an entry of the page, in use or not, if there is one. *)
LEMMA IndexFound ==
    ASSUME NEW f, NEW p, NEW n
    PROVE  /\ GetIndex(f, p, n) = -1 <=>
                \A i \in Indexes : ~(entries[f][i].pid = p /\ entries[f][i].page = n)
           /\ GetIndex(f, p, n) # -1 =>
                /\ GetIndex(f, p, n) \in Indexes
                /\ entries[f][GetIndex(f, p, n)].pid = p /\ entries[f][GetIndex(f, p, n)].page = n
<1> DEFINE S == {i \in Indexes : entries[f][i].pid = p /\ entries[f][i].page = n}
<1>1. S \subseteq Nat
  BY Sizes
<1>2. /\ First(S) = -1 <=> S = {}
      /\ S # {} => First(S) \in S
  BY <1>1, FirstMember
<1> QED
  BY <1>2 DEF GetIndex

(* With global assignment a new process gets the file with the most room. *)
LEMMA RoomiestFile ==
    ASSUME NEW p, PidExists(p) = 0
    PROVE  /\ GlobalFile(p) \in Files
           /\ \A g \in Files : Cardinality(FreeIndexes(g)) <= Cardinality(FreeIndexes(GlobalFile(p)))
<1> DEFINE room(f) == Cardinality(FreeIndexes(f))
           taken == {k \in 0 .. MaxPages : \E f \in Files : k = MaxPages - room(f)}
           roomiest == {f \in Files : \A g \in Files : room(f) >= room(g)}
<1>1. ASSUME NEW f PROVE room(f) \in 0 .. MaxPages
  <2>1. IsFiniteSet(Indexes) /\ Cardinality(Indexes) = MaxPages
    <3>1. 0 \in Int /\ MaxPages - 1 \in Int
      BY Sizes
    <3>2. IsFiniteSet(0 .. MaxPages - 1) /\ Cardinality(0 .. MaxPages - 1) = MaxPages
      BY <3>1, FS_Interval, Sizes
    <3> QED
      BY <3>2 DEF Indexes
  <2>2. FreeIndexes(f) \subseteq Indexes
    BY DEF FreeIndexes
  <2>3. /\ IsFiniteSet(FreeIndexes(f)) /\ Cardinality(FreeIndexes(f)) <= MaxPages
        /\ Cardinality(FreeIndexes(f)) \in Nat
    BY <2>1, <2>2, FS_Subset, FS_CardinalityType
  <2> QED
    BY <2>3, Sizes
<1> HIDE DEF room
<1>2. MaxPages - room(1) \in taken
  BY <1>1, Sizes
<1>3. Min(taken) \in taken /\ \A k \in taken : Min(taken) <= k
  BY <1>2, MinMember
<1>4. PICK f \in Files : Min(taken) = MaxPages - room(f)
  BY <1>3
<1>5. ASSUME NEW g \in Files PROVE room(f) >= room(g)
  <2>1. MaxPages - room(g) \in taken
    BY <1>1, Sizes
  <2>2. MaxPages - room(f) <= MaxPages - room(g)
    BY <1>3, <1>4, <2>1
  <2> QED
    BY <1>1, <2>2, Sizes
<1>6. roomiest # {} /\ roomiest \subseteq Nat
  BY <1>4, <1>5, Sizes
<1>7. Min(roomiest) \in roomiest
  BY <1>6, MinMember
<1>8. GlobalFile(p) = Min(roomiest)
  BY DEF GlobalFile, room
<1>9. \A g \in Files : room(g) <= room(GlobalFile(p))
  BY <1>1, <1>7, <1>8
<1> QED
  BY <1>7, <1>8, <1>9 DEF room

(* pidExists finds the file of a process that has its first page, and none for one that
   has not. *)
LEMMA ProcessFile ==
    ASSUME SwampInv, NEW p \in Pids, Live(p)
    PROVE  /\ Begun(p) => /\ PidExists(p) \in Files
                          /\ \A f \in Files, i \in Indexes :
                               entries[f][i].pid = p => f = PidExists(p)
                          /\ \E i \in Indexes : IsFirstPage(PidExists(p), i, p)
           /\ ~Begun(p) => /\ PidExists(p) = 0
                           /\ \A f \in Files, i \in Indexes : entries[f][i].pid # p
<1> DEFINE holding == {f \in Files : PidIndexes(f, p) # {}}
<1>1. CASE Begun(p)
  <2>1. PICK f \in Files, i \in Indexes : IsFirstPage(f, i, p)
    BY <1>1 DEF SwampInv, FirstPage
  <2>2. ASSUME NEW g \in Files, NEW j \in Indexes, entries[g][j].pid = p PROVE g = f
    BY <2>1, <2>2 DEF SwampInv, OnePlace, IsFirstPage
  <2>3. f \in holding
    BY <2>1 DEF PidIndexes, UsedIndexes, IsFirstPage
  <2>4. \A g \in holding : g = f
    BY <2>2 DEF PidIndexes, UsedIndexes
  <2>5. PidExists(p) = f
    <3>1. holding # {} /\ holding \subseteq Nat
      BY <2>3, Sizes
    <3>2. Min(holding) \in holding
      BY <3>1, MinMember
    <3> QED
      BY <2>4, <3>1, <3>2 DEF PidExists
  <2> QED
    BY <1>1, <2>1, <2>2, <2>5
<1>2. CASE ~Begun(p)
  <2>1. \A f \in Files, i \in Indexes : entries[f][i].pid # p
    BY <1>2 DEF SwampInv, Absent
  <2>2. holding = {}
    BY <2>1 DEF PidIndexes, UsedIndexes
  <2> QED
    BY <1>2, <2>1, <2>2 DEF PidExists
<1> QED
  BY <1>1, <1>2

(* With fixed assignment getChunk finds the chunk of a process. *)
LEMMA ProcessChunk ==
    ASSUME SwampInv, NEW p \in Pids, Live(p), Begun(p), asignacion = "ASIG_FIJA",
           NEW f, f = PidExists(p), NEW b, b = GetChunk(f, p)
    PROVE  /\ b \in ChunkStarts /\ IsFirstPage(f, b, p)
           /\ \A i \in Indexes : entries[f][i].pid = p => b <= i /\ i < b + MaxFrames
           /\ \A i \in Indexes : IsFirstPage(f, i, p) => i = b
<1>1. PICK c \in Indexes : IsFirstPage(f, c, p)
  BY ProcessFile
<1>2. f \in Files
  BY ProcessFile
<1>3. \A i \in Indexes : IsFirstPage(f, i, p) => i = c
  BY <1>1, <1>2 DEF SwampInv, OnePlace, IsFirstPage
<1>4. ASSUME NEW i \in Indexes, entries[f][i].pid = p
      PROVE  c \in ChunkStarts /\ c <= i /\ i < c + MaxFrames
  <2>1. PICK d \in ChunkStarts : d <= i /\ i < d + MaxFrames /\ IsFirstPage(f, d, p)
    BY <1>2, <1>4 DEF SwampInv, InChunk
  <2> QED
    BY <1>3, <2>1, Sizes
<1>5. c \in ChunkStarts
  BY <1>1, <1>4 DEF IsFirstPage
<1>6. {j \in ChunkStarts : entries[f][j].pid = p} = {c}
  <2>1. ASSUME NEW j \in ChunkStarts, entries[f][j].pid = p PROVE j = c
    <3>1. c <= j /\ j < c + MaxFrames
      BY <1>4, <2>1, Sizes
    <3>2. j % MaxFrames = 0 /\ c % MaxFrames = 0 /\ j \in Nat /\ c \in Nat /\ MaxFrames \in Nat \ {0}
      BY <1>5, Sizes DEF ChunkStarts
    <3> QED
      BY <3>1, <3>2, ChunkStartUnique
  <2>2. entries[f][c].pid = p
    BY <1>1 DEF IsFirstPage
  <2> QED
    BY <1>5, <2>1, <2>2
<1>7. b = c
  <2>1. First({c}) = c /\ c # -1
    <3>1. {c} \subseteq Nat /\ {c} # {}
      BY Sizes
    <3>2. First({c}) \in {c}
      BY <3>1, FirstMember
    <3> QED
      BY <3>1, <3>2
  <2> QED
    BY <1>1, <1>6, <2>1 DEF GetChunk, IsFirstPage
<1> QED
  BY <1>1, <1>3, <1>4, <1>5, <1>7

(* It has a page in use there, and as many as a chunk has at most. *)
LEMMA PidCount ==
    ASSUME SwampInv, NEW p \in Pids, Live(p), Begun(p), asignacion = "ASIG_FIJA",
           NEW f, f = PidExists(p)
    PROVE  Cardinality(PidIndexes(f, p)) \in 1 .. MaxFrames
<1>1. PICK b : b = GetChunk(f, p)
  OBVIOUS
<1>2. /\ b \in ChunkStarts /\ IsFirstPage(f, b, p)
      /\ \A i \in Indexes : entries[f][i].pid = p => b <= i /\ i < b + MaxFrames
  BY <1>1, ProcessChunk
<1>3. b \in Nat /\ MaxFrames \in Nat /\ b \in Indexes
  BY <1>2, Sizes
<1>4. PidIndexes(f, p) \subseteq b .. b + MaxFrames - 1
  <2>1. ASSUME NEW i \in PidIndexes(f, p) PROVE i \in b .. b + MaxFrames - 1
    <3>1. i \in Indexes /\ entries[f][i].pid = p
      BY DEF PidIndexes, UsedIndexes
    <3>2. i \in Nat /\ b <= i /\ i < b + MaxFrames
      BY <1>2, <3>1, Sizes
    <3> QED
      BY <1>3, <3>2
  <2> QED
    BY <2>1
<1>5. b \in PidIndexes(f, p)
  BY <1>2, <1>3 DEF PidIndexes, UsedIndexes, IsFirstPage
<1>6. IsFiniteSet(b .. b + MaxFrames - 1) /\ Cardinality(b .. b + MaxFrames - 1) = MaxFrames
  BY <1>3, FS_Interval
<1>7. /\ IsFiniteSet(PidIndexes(f, p)) /\ Cardinality(PidIndexes(f, p)) <= MaxFrames
      /\ Cardinality(PidIndexes(f, p)) \in Nat
  BY <1>4, <1>6, FS_Subset, FS_CardinalityType
<1>8. Cardinality(PidIndexes(f, p)) # 0
  BY <1>5, <1>7, FS_EmptySet
<1> QED
  BY <1>3, <1>7, <1>8

-----------------------------------------------------------------------------
(* The index a page is given *)

\* The memory saves the next page of a process, or one it has
Savable(p, n) ==
    /\ p \in Pids /\ client[p] = "running" /\ (table[p] # <<>> => table[p][1])
    /\ n \in Pages /\ (table[p] = <<>> => n = 0)

(* An accepted page is put in the file of its process, where the page was if it was there;
   with global assignment else in a free index, with fixed assignment in the process's
   chunk, or in the first index of a free one. *)
LEMMA AssignedPlace ==
    ASSUME SwampInv, NEW p, NEW n, Savable(p, n),
           NEW f, f = Assigned(p, n)[1], NEW i, i = Assigned(p, n)[2], f # 0
    PROVE  /\ f \in Files /\ i \in Slots
           /\ \A g \in Files, j \in Indexes : entries[g][j].pid = p => g = f
           /\ \A j \in Indexes : entries[f][j].pid = p /\ entries[f][j].page = n => i = j
           /\ asignacion = "ASIG_GLOBAL" =>
                 /\ i \in Indexes
                 /\ \/ ~entries[f][i].used
                    \/ entries[f][i].pid = p /\ entries[f][i].page = n
           /\ asignacion = "ASIG_FIJA" =>
                 \E b \in ChunkStarts :
                    /\ b <= i /\ i < b + MaxFrames
                    /\ Begun(p) => IsFirstPage(f, b, p) /\ (i = b => n = 0)
                    /\ ~Begun(p) => i = b /\ ~entries[f][b].used
<1>1. p \in Pids /\ Live(p) /\ (~Begun(p) => n = 0) /\ n \in Nat
  BY Sizes DEF Savable, Live, Begun, Pages
<1>2. /\ Begun(p) => /\ PidExists(p) \in Files
                     /\ \A g \in Files, j \in Indexes : entries[g][j].pid = p => g = PidExists(p)
      /\ ~Begun(p) => /\ PidExists(p) = 0
                      /\ \A g \in Files, j \in Indexes : entries[g][j].pid # p
  BY <1>1, ProcessFile
<1>3. Begun(p) => PidExists(p) # 0
  BY <1>2, Sizes
<1>4. PICK k : k = GetIndex(f, p, n)
  OBVIOUS
<1>5. /\ k = -1 => \A j \in Indexes : ~(entries[f][j].pid = p /\ entries[f][j].page = n)
      /\ k # -1 => k \in Indexes /\ entries[f][k].pid = p /\ entries[f][k].page = n
  BY <1>4, IndexFound
<1>6. asignacion = "ASIG_FIJA" \/ asignacion = "ASIG_GLOBAL"
  BY DEF SwampInv, TypeOK, Algorithms
<1>7. CASE asignacion = "ASIG_GLOBAL"
  <2>1. /\ f = GlobalFile(p) /\ i = GlobalIndex(f, p, n) /\ i # -1
    BY <1>7 DEF Assigned
  <2>2. f \in Files /\ (Begun(p) => f = PidExists(p))
    <3>1. CASE Begun(p)
      BY <1>2, <1>3, <2>1, <3>1 DEF GlobalFile
    <3>2. CASE ~Begun(p)
      <4>1. f \in Files
        BY <1>2, <2>1, <3>2, RoomiestFile
      <4> QED
        BY <3>2, <4>1
    <3> QED
      BY <3>1, <3>2
  <2>3. CASE k # -1
    <3>1. i = k
      BY <1>4, <2>1, <2>3 DEF GlobalIndex
    <3>2. \A j \in Indexes : entries[f][j].pid = p /\ entries[f][j].page = n => i = j
      BY <1>1, <1>5, <2>2, <2>3, <3>1 DEF SwampInv, OnePlace
    <3> QED
      BY <1>2, <1>5, <1>7, <2>2, <2>3, <3>1, <3>2, Sizes
  <2>4. CASE k = -1
    <3>1. i = First(FreeIndexes(f))
      BY <1>4, <2>1, <2>4 DEF GlobalIndex
    <3>2. i \in FreeIndexes(f)
      <4>1. FreeIndexes(f) \subseteq Nat
        BY Sizes DEF FreeIndexes
      <4> QED
        BY <2>1, <3>1, <4>1, FirstMember
    <3>3. i \in Indexes /\ ~entries[f][i].used
      BY <3>2 DEF FreeIndexes, UsedIndexes
    <3> QED
      BY <1>2, <1>5, <1>7, <2>2, <2>4, <3>3, Sizes
  <2> QED
    BY <2>3, <2>4
<1>8. CASE asignacion = "ASIG_FIJA"
  <2>1. /\ f = FijaFile(p) /\ i = FijaIndex(f, p, n) /\ i # -1
    BY <1>8 DEF Assigned
  <2>2. CASE Begun(p)
    <3>1. f = PidExists(p) /\ f \in Files
      BY <1>2, <1>3, <2>1, <2>2 DEF FijaFile
    <3>2. PICK b : b = GetChunk(f, p)
      OBVIOUS
    <3>3. /\ b \in ChunkStarts /\ IsFirstPage(f, b, p)
          /\ \A j \in Indexes : entries[f][j].pid = p => b <= j /\ j < b + MaxFrames
      BY <1>1, <1>8, <2>2, <3>1, <3>2, ProcessChunk
    <3>4. b \in Nat /\ b \in Indexes
      BY <3>3, Sizes
    <3>5. CASE k # -1
      <4>1. i = k
        BY <1>4, <2>1, <3>5 DEF FijaIndex
      <4>2. b <= i /\ i < b + MaxFrames /\ i \in Indexes
        BY <1>5, <3>3, <3>5, <4>1
      <4>3. i = b => n = 0
        BY <1>5, <3>3, <3>5, <4>1 DEF IsFirstPage
      <4>4. \A j \in Indexes : entries[f][j].pid = p /\ entries[f][j].page = n => i = j
        BY <1>1, <1>5, <3>1, <3>5, <4>1 DEF SwampInv, OnePlace
      <4> QED
        BY <1>2, <1>8, <2>2, <3>1, <3>3, <4>2, <4>3, <4>4, Sizes
    <3>6. CASE k = -1
      <4>1. PICK offset : offset = Cardinality(PidIndexes(f, p))
        OBVIOUS
      <4>2. offset \in 1 .. MaxFrames
        BY <1>1, <1>8, <2>2, <3>1, <4>1, PidCount
      <4>3. i = b + offset /\ offset # MaxFrames
        BY <1>4, <2>1, <3>2, <3>4, <3>6, <4>1 DEF FijaIndex
      <4>4. b < i /\ i < b + MaxFrames /\ i \in Slots
        BY <3>4, <4>2, <4>3, Sizes DEF Indexes, Slots
      <4>5. b <= i /\ i # b
        BY <3>4, <4>2, <4>3, Sizes
      <4>6. \E c \in ChunkStarts :
               /\ c <= i /\ i < c + MaxFrames
               /\ Begun(p) => IsFirstPage(f, c, p) /\ (i = c => n = 0)
               /\ ~Begun(p) => i = c /\ ~entries[f][c].used
        BY <2>2, <3>3, <4>4, <4>5
      <4> QED
        BY <1>2, <1>5, <1>8, <2>2, <3>1, <3>6, <4>4, <4>6
    <3> QED
      BY <3>5, <3>6
  <2>3. CASE ~Begun(p)
    <3>1. PICK b : b = FreeChunk(f)
      OBVIOUS
    <3>2. f \in Files /\ b # -1
      <4> DEFINE free == {g \in Files : FreeChunk(g) # -1}
      <4>1. f = IF free = {} THEN 0 ELSE Min(free)
        BY <1>2, <2>1, <2>3 DEF FijaFile
      <4>2. free # {} /\ free \subseteq Nat
        BY <4>1, Sizes
      <4>3. f \in free
        BY <4>1, <4>2, MinMember
      <4> QED
        BY <3>1, <4>3
    <3>3. b \in ChunkStarts /\ ~entries[f][b].used
      <4>1. {j \in ChunkStarts : ~entries[f][j].used} \subseteq Nat
        BY Sizes
      <4> QED
        BY <3>1, <3>2, <4>1, FirstMember DEF FreeChunk
    <3>4. k = -1
      BY <1>2, <1>5, <2>3, <3>2
    <3>5. GetChunk(f, p) = -1
      <4>1. {j \in ChunkStarts : entries[f][j].pid = p} = {}
        BY <1>2, <2>3, <3>2, Sizes
      <4>2. First({}) = -1
        BY DEF First
      <4> QED
        BY <4>1, <4>2 DEF GetChunk
    <3>6. Cardinality(PidIndexes(f, p)) = 0
      <4>1. PidIndexes(f, p) = {}
        BY <1>2, <2>3, <3>2 DEF PidIndexes, UsedIndexes
      <4> QED
        BY <4>1, FS_EmptySet
    <3>7. b \in Nat /\ b \in Indexes
      BY <3>3, Sizes
    <3>8. i = b
      <4>1. i = b + 0
        BY <1>4, <2>1, <3>1, <3>2, <3>4, <3>5, <3>6, Sizes DEF FijaIndex
      <4> QED
        BY <3>7, <4>1
    <3> QED
      BY <1>2, <1>8, <2>3, <3>2, <3>3, <3>7, <3>8, Sizes
  <2> QED
    BY <2>2, <2>3
<1> QED
  BY <1>6, <1>7, <1>8

-----------------------------------------------------------------------------
(* The steps *)

(* Two chunks with an index in common are one. *)
LEMMA SameChunk ==
    ASSUME NEW b \in ChunkStarts, NEW d \in ChunkStarts, NEW i \in Slots,
           b <= i, i < b + MaxFrames, d <= i, i < d + MaxFrames
    PROVE  b = d
<1>1. /\ b \in Nat /\ d \in Nat /\ i \in Nat /\ MaxFrames \in Nat \ {0}
      /\ b % MaxFrames = 0 /\ d % MaxFrames = 0
  BY Sizes DEF ChunkStarts, Slots
<1>2. CASE b <= d
  <2>1. d < b + MaxFrames
    BY <1>1
  <2> QED
    BY <1>1, <1>2, <2>1, ChunkStartUnique
<1>3. CASE d <= b
  <2>1. b < d + MaxFrames
    BY <1>1
  <2> QED
    BY <1>1, <1>3, <2>1, ChunkStartUnique
<1> QED
  BY <1>1, <1>2, <1>3

(* A page that is stored takes no first page from another process. *)
LEMMA StoreStep ==
    ASSUME SwampInv, NEW p, NEW n, Savable(p, n), NEW c \in Contents, Store(p, n, c),
           UNCHANGED <<asignacion, client, connections>>,
           table' \in [Pids -> Seq(BOOLEAN)], \A q \in Pids : Len(table'[q]) <= MaxTable,
           \A q \in Pids : q # p => table'[q] = table[q],
           Begun(p)'
    PROVE  SwampInv'
<1>1. PICK f, i : f = Assigned(p, n)[1] /\ i = Assigned(p, n)[2]
  OBVIOUS
<1>2. /\ f # 0
      /\ content' = [content EXCEPT ![f][i] = c]
      /\ entries' = [entries EXCEPT ![f][i] = [used |-> TRUE, pid |-> p, page |-> n]]
  BY <1>1 DEF Store
<1>3. /\ f \in Files /\ i \in Slots
      /\ \A g \in Files, j \in Indexes : entries[g][j].pid = p => g = f
      /\ \A j \in Indexes : entries[f][j].pid = p /\ entries[f][j].page = n => i = j
      /\ asignacion = "ASIG_GLOBAL" =>
            /\ i \in Indexes
            /\ \/ ~entries[f][i].used
               \/ entries[f][i].pid = p /\ entries[f][i].page = n
      /\ asignacion = "ASIG_FIJA" =>
            \E b \in ChunkStarts :
               /\ b <= i /\ i < b + MaxFrames
               /\ Begun(p) => IsFirstPage(f, b, p) /\ (i = b => n = 0)
               /\ ~Begun(p) => i = b /\ ~entries[f][b].used
  BY <1>1, <1>2, AssignedPlace
<1>4. /\ p \in Pids /\ client[p] = "running" /\ n \in Pages /\ (~Begun(p) => n = 0) /\ Live(p)
      /\ entries \in [Files -> [Slots -> [used : BOOLEAN, pid : Pids \cup {NoPid}, page : Pages]]]
      /\ (asignacion = "ASIG_FIJA" \/ asignacion = "ASIG_GLOBAL")
  BY DEF Savable, SwampInv, TypeOK, Algorithms, Begun, Live
<1>5. \A g \in Files, j \in Slots :
         entries'[g][j] = IF g = f /\ j = i THEN [used |-> TRUE, pid |-> p, page |-> n]
                                           ELSE entries[g][j]
  BY <1>2, <1>3, <1>4
<1>6. \A g \in Files, j \in Indexes :
         /\ entries'[g][j].used = ((g = f /\ j = i) \/ entries[g][j].used)
         /\ entries'[g][j].pid = IF g = f /\ j = i THEN p ELSE entries[g][j].pid
         /\ entries'[g][j].page = IF g = f /\ j = i THEN n ELSE entries[g][j].page
  <2> SUFFICES ASSUME NEW g \in Files, NEW j \in Indexes
               PROVE  /\ entries'[g][j].used = ((g = f /\ j = i) \/ entries[g][j].used)
                      /\ entries'[g][j].pid = IF g = f /\ j = i THEN p ELSE entries[g][j].pid
                      /\ entries'[g][j].page = IF g = f /\ j = i THEN n ELSE entries[g][j].page
    OBVIOUS
  <2>1. j \in Slots
    BY Sizes
  <2>2. entries'[g][j] = IF g = f /\ j = i THEN [used |-> TRUE, pid |-> p, page |-> n]
                                           ELSE entries[g][j]
    BY <1>5, <2>1
  <2>3. entries[g][j].used \in BOOLEAN
    BY <1>4, <2>1
  <2>4. CASE g = f /\ j = i
    <3>1. entries'[g][j] = [used |-> TRUE, pid |-> p, page |-> n]
      BY <2>2, <2>4
    <3>2. entries'[g][j].used = TRUE /\ entries'[g][j].pid = p /\ entries'[g][j].page = n
      BY <3>1
    <3> QED
      BY <2>4, <3>2
  <2>5. CASE ~(g = f /\ j = i)
    BY <2>2, <2>3, <2>5
  <2> QED
    BY <2>4, <2>5
<1>7. TypeOK'
  <2>1. entries' \in [Files -> [Slots -> [used : BOOLEAN, pid : Pids \cup {NoPid}, page : Pages]]]
    BY <1>2, <1>4
  <2>2. content' \in [Files -> [Slots -> Contents]]
    <3>1. content \in [Files -> [Slots -> Contents]]
      BY DEF SwampInv, TypeOK
    <3> QED
      BY <1>2, <3>1
  <2>3. /\ asignacion' \in Algorithms /\ connections' \in 1 .. MaxConnections
        /\ client' \in [Pids -> {"new", "running", "ending", "gone"}]
    BY DEF SwampInv, TypeOK
  <2> QED
    BY <2>1, <2>2, <2>3 DEF TypeOK
<1>8. \A q \in Pids : /\ client'[q] = client[q] /\ (Live(q)' <=> Live(q))
                      /\ q # p => (Begun(q)' <=> Begun(q))
  BY DEF Live, Begun
<1>9. TablesMatch'
  <2>1. \A q \in Pids : /\ client[q] \in {"new", "gone"} => table[q] = <<>>
                        /\ client[q] = "ending" => table[q] # <<>>
    BY DEF SwampInv, TablesMatch
  <2>2. \A q \in Pids : client'[q] = client[q] /\ (q # p => table'[q] = table[q])
    BY <1>8
  <2> QED
    BY <1>4, <2>1, <2>2 DEF TablesMatch
<1>10. Absent'
  <2>1. ASSUME NEW q \in Pids, client'[q] = "new" \/ (Live(q)' /\ ~Begun(q)'),
               NEW g \in Files, NEW j \in Indexes
        PROVE  entries'[g][j].pid # q
    <3>1. q # p /\ (client[q] = "new" \/ (Live(q) /\ ~Begun(q)))
      BY <1>4, <1>8, <2>1
    <3>2. entries[g][j].pid # q
      BY <3>1 DEF SwampInv, Absent
    <3> QED
      BY <1>6, <3>1, <3>2
  <2> QED
    BY <2>1 DEF Absent
\* The first pages stay where they are
<1>11. ASSUME NEW q \in Pids, Live(q), NEW g \in Files, NEW j \in Indexes, IsFirstPage(g, j, q)
       PROVE  IsFirstPage(g, j, q)'
  <2>0. entries[g][j].used /\ entries[g][j].pid = q /\ entries[g][j].page = 0
    BY <1>11 DEF IsFirstPage
  <2>1. CASE ~(g = f /\ j = i)
    BY <1>6, <2>0, <2>1 DEF IsFirstPage
  <2>2. CASE g = f /\ j = i
    <3>1. p = q /\ n = 0
      <4>1. CASE asignacion = "ASIG_GLOBAL"
        BY <1>3, <2>0, <2>2, <4>1
      <4>2. CASE asignacion = "ASIG_FIJA"
        <5>1. PICK b \in ChunkStarts :
                 /\ b <= i /\ i < b + MaxFrames
                 /\ Begun(p) => IsFirstPage(f, b, p) /\ (i = b => n = 0)
                 /\ ~Begun(p) => i = b /\ ~entries[f][b].used
          BY <1>3, <4>2
        <5>2. PICK d \in ChunkStarts : d <= i /\ i < d + MaxFrames /\ IsFirstPage(f, d, q)
          BY <1>11, <2>0, <2>2, <4>2 DEF SwampInv, InChunk
        <5>3. b = d
          BY <1>3, <5>1, <5>2, SameChunk
        <5>4. Begun(p)
          BY <5>1, <5>2, <5>3 DEF IsFirstPage
        <5>5. p = q
          BY <5>1, <5>2, <5>3, <5>4 DEF IsFirstPage
        <5>6. i = b
          <6>1. /\ entries[f][i].pid = q /\ entries[f][i].page = 0 /\ i \in Indexes
                /\ entries[f][b].pid = q /\ entries[f][b].page = 0 /\ b \in Indexes
            BY <2>0, <2>2, <5>2, <5>3, Sizes DEF IsFirstPage
          <6>2. OnePlace
            BY DEF SwampInv
          <6> QED
            BY <1>3, <1>11, <6>1, <6>2 DEF OnePlace
        <5> QED
          BY <5>1, <5>4, <5>5, <5>6
      <4> QED
        BY <1>4, <4>1, <4>2
    <3> QED
      BY <1>6, <2>2, <3>1 DEF IsFirstPage
  <2> QED
    BY <2>1, <2>2
<1>12. FirstPage'
  <2>1. ASSUME NEW q \in Pids, Live(q)', Begun(q)'
        PROVE  \E g \in Files, j \in Indexes : IsFirstPage(g, j, q)'
    <3>1. CASE Begun(q)
      <4>1. PICK g \in Files, j \in Indexes : IsFirstPage(g, j, q)
        BY <1>8, <2>1, <3>1 DEF SwampInv, FirstPage
      <4> QED
        BY <1>8, <1>11, <2>1, <4>1
    <3>2. CASE ~Begun(q)
      <4>1. q = p /\ n = 0
        BY <1>4, <1>8, <2>1, <3>2
      <4>2. i \in Indexes
        BY <1>3, <1>4, <3>2, <4>1, Sizes
      <4>3. IsFirstPage(f, i, q)'
        BY <1>3, <1>6, <4>1, <4>2 DEF IsFirstPage
      <4> QED
        BY <1>3, <4>2, <4>3
    <3> QED
      BY <3>1, <3>2
  <2> QED
    BY <2>1 DEF FirstPage
<1>13. OnePlace'
  <2>1. ASSUME NEW g \in Files, NEW h \in Files, NEW j \in Indexes, NEW k \in Indexes,
               NEW q \in Pids, Live(q), entries'[g][j].pid = q, entries'[h][k].pid = q
        PROVE  g = h /\ (entries'[g][j].page = entries'[h][k].page => j = k)
    <3>3. CASE g = f /\ j = i
      BY <1>3, <1>6, <2>1, <3>3
    <3>4. CASE h = f /\ k = i
      BY <1>3, <1>6, <2>1, <3>4
    <3>5. CASE ~(g = f /\ j = i) /\ ~(h = f /\ k = i)
      <4>1. /\ entries[g][j].pid = q /\ entries[h][k].pid = q
            /\ entries'[g][j].page = entries[g][j].page /\ entries'[h][k].page = entries[h][k].page
        BY <1>6, <2>1, <3>5
      <4> QED
        BY <2>1, <4>1 DEF SwampInv, OnePlace
    <3> QED
      BY <3>3, <3>4, <3>5
  <2> QED
    BY <1>8, <2>1 DEF OnePlace, Live
<1>14. InChunk'
  <2>1. ASSUME asignacion = "ASIG_FIJA", NEW g \in Files, NEW j \in Indexes,
               NEW q \in Pids, q = entries'[g][j].pid, Live(q)
        PROVE  \E d \in ChunkStarts : d <= j /\ j < d + MaxFrames /\ IsFirstPage(g, d, q)'
    <3>1. CASE g = f /\ j = i
      <4>1. PICK b \in ChunkStarts :
               /\ b <= i /\ i < b + MaxFrames
               /\ Begun(p) => IsFirstPage(f, b, p) /\ (i = b => n = 0)
               /\ ~Begun(p) => i = b /\ ~entries[f][b].used
        BY <1>3, <2>1
      <4>2. q = p /\ b \in Indexes
        BY <1>6, <2>1, <3>1, Sizes
      <4>3. IsFirstPage(f, b, p)'
        <5>1. CASE Begun(p)
          BY <1>3, <1>4, <1>11, <4>1, <4>2, <5>1
        <5>2. CASE ~Begun(p)
          BY <1>3, <1>4, <1>6, <4>1, <4>2, <5>2 DEF IsFirstPage
        <5> QED
          BY <5>1, <5>2
      <4> QED
        BY <3>1, <4>1, <4>2, <4>3
    <3>2. CASE ~(g = f /\ j = i)
      <4>1. entries[g][j].pid = q
        BY <1>6, <2>1, <3>2
      <4>2. PICK d \in ChunkStarts : d <= j /\ j < d + MaxFrames /\ IsFirstPage(g, d, q)
        BY <2>1, <4>1 DEF SwampInv, InChunk
      <4>3. IsFirstPage(g, d, q)'
        BY <1>11, <2>1, <4>2, Sizes
      <4> QED
        BY <4>2, <4>3
    <3> QED
      BY <3>1, <3>2
  <2>2. ChunkStarts' = ChunkStarts
    BY DEF ChunkStarts
  <2> QED
    BY <1>8, <2>1 DEF InChunk
<1>15. Owned'
  <2>1. Owned
    BY DEF SwampInv
  <2>2. ASSUME NEW g \in Files, NEW j \in Indexes, entries'[g][j].used
        PROVE  entries'[g][j].pid \in Pids
    BY <1>4, <1>6, <2>1, <2>2 DEF Owned
  <2> QED
    BY <2>2 DEF Owned
<1> QED
  BY <1>7, <1>9, <1>10, <1>12, <1>13, <1>14, <1>15 DEF SwampInv

(* A page that is destroyed is another than the first, or its process ends. *)
LEMMA DestroyStep ==
    ASSUME SwampInv, NEW p \in Pids, Live(p), NEW n, DestroyPage(p, n),
           UNCHANGED <<asignacion, connections>>,
           table' \in [Pids -> Seq(BOOLEAN)], \A q \in Pids : Len(table'[q]) <= MaxTable,
           client' \in [Pids -> {"new", "running", "ending", "gone"}],
           \A q \in Pids : q # p => client'[q] = client[q] /\ table'[q] = table[q],
           \/ client'[p] = "gone" /\ table'[p] = <<>>
           \/ client'[p] = client[p] /\ n # 0 /\ table'[p] # <<>> /\ (Begun(p)' <=> Begun(p))
    PROVE  SwampInv'
<1>1. PICK f, k : f = PidExists(p) /\ k = IndexOf(p, n)
  OBVIOUS
<1>2. entries \in [Files -> [Slots -> [used : BOOLEAN, pid : Pids \cup {NoPid}, page : Pages]]]
  BY DEF SwampInv, TypeOK
<1>3. \A g \in Files, j \in Slots :
         /\ entries'[g][j].pid = entries[g][j].pid
         /\ entries'[g][j].page = entries[g][j].page
         /\ entries'[g][j].used \in BOOLEAN /\ (entries'[g][j].used => entries[g][j].used)
         /\ entries[g][j].pid # p \/ entries[g][j].page # n => entries'[g][j].used = entries[g][j].used
  <2>1. CASE k = -1
    BY <1>1, <1>2, <2>1 DEF DestroyPage, fileVars
  <2>2. CASE k # -1
    <3>1. entries' = [entries EXCEPT ![f][k].used = FALSE]
      BY <1>1, <2>2 DEF DestroyPage
    <3>2. f # 0 /\ k = GetIndex(f, p, n)
      BY <1>1, <2>2 DEF IndexOf
    <3>3. k \in Indexes /\ entries[f][k].pid = p /\ entries[f][k].page = n
      BY <2>2, <3>2, IndexFound
    <3> SUFFICES ASSUME NEW g \in Files, NEW j \in Slots
                 PROVE  /\ entries'[g][j].pid = entries[g][j].pid
                        /\ entries'[g][j].page = entries[g][j].page
                        /\ entries'[g][j].used \in BOOLEAN
                        /\ (entries'[g][j].used => entries[g][j].used)
                        /\ entries[g][j].pid # p \/ entries[g][j].page # n =>
                              entries'[g][j].used = entries[g][j].used
      OBVIOUS
    <3>4. entries[g][j] \in [used : BOOLEAN, pid : Pids \cup {NoPid}, page : Pages]
      BY <1>2
    <3>5. CASE g = f /\ j = k
      <4>1. entries'[g][j] = [entries[g][j] EXCEPT !.used = FALSE]
        BY <1>2, <3>1, <3>5
      <4> QED
        BY <3>3, <3>4, <3>5, <4>1
    <3>6. CASE ~(g = f /\ j = k)
      <4>1. entries'[g][j] = entries[g][j]
        BY <1>2, <3>1, <3>6
      <4> QED
        BY <3>4, <4>1
    <3> QED
      BY <3>5, <3>6
  <2> QED
    BY <2>1, <2>2
<1>4. \A g \in Files, j \in Indexes :
         /\ entries'[g][j].pid = entries[g][j].pid
         /\ entries'[g][j].page = entries[g][j].page
         /\ entries[g][j].pid # p \/ entries[g][j].page # n => entries'[g][j].used = entries[g][j].used
  BY <1>3, Sizes
<1>13. k # -1 => f \in Files /\ k \in Slots
  <2>1. k # -1 => f # 0 /\ k = GetIndex(f, p, n)
    BY <1>1 DEF IndexOf
  <2>2. f # 0 => f \in Files
    BY <1>1, ProcessFile
  <2> QED
    BY <2>1, <2>2, IndexFound, Sizes
<1>5. TypeOK'
  <2>1. entries' \in [Files -> [Slots -> [used : BOOLEAN, pid : Pids \cup {NoPid}, page : Pages]]]
    <3>1. entries' = entries \/ entries' = [entries EXCEPT ![f][k].used = FALSE]
      BY <1>1 DEF DestroyPage, fileVars
    <3>2. CASE k = -1
      BY <1>1, <1>2, <3>2 DEF DestroyPage, fileVars
    <3>3. CASE k # -1
      <4>1. PICK r : r = [entries[f][k] EXCEPT !.used = FALSE]
        OBVIOUS
      <4>2. r \in [used : BOOLEAN, pid : Pids \cup {NoPid}, page : Pages]
        <5>1. entries[f][k] \in [used : BOOLEAN, pid : Pids \cup {NoPid}, page : Pages]
          BY <1>2, <1>13, <3>3
        <5> QED
          BY <4>1, <5>1
      <4>3. entries' = entries \/ entries' = [entries EXCEPT ![f][k] = r]
        BY <3>1, <4>1
      <4>4. CASE entries' = entries
        BY <1>2, <4>4
      <4>5. CASE entries' = [entries EXCEPT ![f][k] = r]
        BY <1>2, <4>2, <4>5
      <4> QED
        BY <4>3, <4>4, <4>5
    <3> QED
      BY <3>2, <3>3
  <2>2. content' \in [Files -> [Slots -> Contents]]
    <3>1. content \in [Files -> [Slots -> Contents]]
      BY DEF SwampInv, TypeOK
    <3>2. Zero \in Contents
      BY SwampAssumption DEF SwampAssumption
    <3>3. content' = content \/ content' = [content EXCEPT ![f][k] = Zero]
      BY <1>1 DEF DestroyPage, fileVars
    <3>4. CASE k = -1
      BY <1>1, <3>1, <3>4 DEF DestroyPage, fileVars
    <3>5. CASE k # -1
      <4>1. CASE content' = content
        BY <3>1, <4>1
      <4>2. CASE content' = [content EXCEPT ![f][k] = Zero]
        BY <3>1, <3>2, <4>2
      <4> QED
        BY <3>3, <4>1, <4>2
    <3> QED
      BY <3>4, <3>5
  <2>3. asignacion' \in Algorithms /\ connections' \in 1 .. MaxConnections
    BY DEF SwampInv, TypeOK
  <2> QED
    BY <2>1, <2>2, <2>3 DEF TypeOK
<1>6. \A q \in Pids : /\ q # p => /\ client'[q] = client[q] /\ table'[q] = table[q]
                                 /\ (Live(q)' <=> Live(q)) /\ (Begun(q)' <=> Begun(q))
                      /\ Live(q)' => Live(q) /\ (Begun(q)' <=> Begun(q)) /\ (q = p => n # 0)
                      /\ client'[q] = "new" => client[q] = "new"
  BY DEF Live, Begun
<1>7. TablesMatch'
  <2>1. \A q \in Pids : /\ client[q] \in {"new", "gone"} => table[q] = <<>>
                        /\ client[q] = "ending" => table[q] # <<>>
    BY DEF SwampInv, TablesMatch
  <2>2. ASSUME NEW q \in Pids
        PROVE  /\ client'[q] \in {"new", "gone"} => table'[q] = <<>>
               /\ client'[q] = "ending" => table'[q] # <<>>
    BY <2>1, <1>6 DEF Live
  <2> QED
    BY <2>2 DEF TablesMatch
<1>8. Absent'
  <2>1. ASSUME NEW q \in Pids, client'[q] = "new" \/ (Live(q)' /\ ~Begun(q)'),
               NEW g \in Files, NEW j \in Indexes
        PROVE  entries'[g][j].pid # q
    <3>1. client[q] = "new" \/ (Live(q) /\ ~Begun(q))
      BY <1>6, <2>1
    <3>2. entries[g][j].pid # q
      BY <3>1 DEF SwampInv, Absent
    <3> QED
      BY <1>4, <3>2
  <2> QED
    BY <2>1 DEF Absent
<1>9. ASSUME NEW q \in Pids, Live(q)', NEW g \in Files, NEW j \in Indexes, IsFirstPage(g, j, q)
      PROVE  IsFirstPage(g, j, q)'
  BY <1>4, <1>6, <1>9 DEF IsFirstPage
<1>10. FirstPage'
  <2>1. ASSUME NEW q \in Pids, Live(q)', Begun(q)'
        PROVE  \E g \in Files, j \in Indexes : IsFirstPage(g, j, q)'
    <3>1. PICK g \in Files, j \in Indexes : IsFirstPage(g, j, q)
      BY <1>6, <2>1 DEF SwampInv, FirstPage
    <3> QED
      BY <1>9, <2>1, <3>1
  <2> QED
    BY <2>1 DEF FirstPage
<1>11. OnePlace'
  <2>1. ASSUME NEW g \in Files, NEW h \in Files, NEW j \in Indexes, NEW m \in Indexes,
               NEW q \in Pids, Live(q)', entries'[g][j].pid = q, entries'[h][m].pid = q
        PROVE  g = h /\ (entries'[g][j].page = entries'[h][m].page => j = m)
    <3>1. /\ entries[g][j].pid = q /\ entries[h][m].pid = q /\ Live(q)
          /\ entries'[g][j].page = entries[g][j].page /\ entries'[h][m].page = entries[h][m].page
      BY <1>4, <1>6, <2>1
    <3> QED
      BY <3>1 DEF SwampInv, OnePlace
  <2> QED
    BY <2>1 DEF OnePlace, Live
<1>12. InChunk'
  <2>1. ASSUME asignacion = "ASIG_FIJA", NEW g \in Files, NEW j \in Indexes,
               NEW q \in Pids, q = entries'[g][j].pid, Live(q)'
        PROVE  \E d \in ChunkStarts : d <= j /\ j < d + MaxFrames /\ IsFirstPage(g, d, q)'
    <3>1. entries[g][j].pid = q /\ Live(q)
      BY <1>4, <1>6, <2>1
    <3>2. PICK d \in ChunkStarts : d <= j /\ j < d + MaxFrames /\ IsFirstPage(g, d, q)
      BY <2>1, <3>1 DEF SwampInv, InChunk
    <3>3. IsFirstPage(g, d, q)'
      BY <1>9, <2>1, <3>2, Sizes
    <3> QED
      BY <3>2, <3>3
  <2>2. ChunkStarts' = ChunkStarts
    BY DEF ChunkStarts
  <2> QED
    BY <2>1 DEF InChunk, Live
<1>14. Owned'
  <2>1. Owned
    BY DEF SwampInv
  <2> QED
    BY <1>3, <2>1, Sizes DEF Owned
<1> QED
  BY <1>5, <1>7, <1>8, <1>10, <1>11, <1>12, <1>14 DEF SwampInv

(* A step that leaves the entries alone. *)
LEMMA KeepEntries ==
    ASSUME SwampInv, TypeOK', TablesMatch', UNCHANGED entries,
           \A q \in Pids :
              /\ Live(q)' /\ Live(q) => asignacion' = asignacion /\ (Begun(q)' <=> Begun(q))
              /\ Live(q)' /\ ~Live(q) => client[q] = "new" /\ ~Begun(q)'
              /\ client'[q] = "new" => client[q] = "new"
    PROVE  SwampInv'
<1>1. ChunkStarts' = ChunkStarts
  BY DEF ChunkStarts
<1>2. ASSUME NEW q \in Pids, Live(q)', NEW g \in Files, NEW j \in Indexes, entries[g][j].pid = q
      PROVE  Live(q) /\ asignacion' = asignacion
  BY <1>2 DEF SwampInv, Absent
<1>3. Absent'
  <2>1. ASSUME NEW q \in Pids, client'[q] = "new" \/ (Live(q)' /\ ~Begun(q)'),
               NEW g \in Files, NEW j \in Indexes
        PROVE  entries[g][j].pid # q
    <3>1. client[q] = "new" \/ (Live(q) /\ ~Begun(q))
      BY <2>1
    <3> QED
      BY <3>1 DEF SwampInv, Absent
  <2> QED
    BY <2>1 DEF Absent
<1>4. FirstPage'
  <2>1. ASSUME NEW q \in Pids, Live(q)', Begun(q)'
        PROVE  \E g \in Files, j \in Indexes : IsFirstPage(g, j, q)
    BY <2>1 DEF SwampInv, FirstPage
  <2> QED
    BY <2>1 DEF FirstPage, IsFirstPage
<1>5. OnePlace'
  <2>1. ASSUME NEW g \in Files, NEW h \in Files, NEW j \in Indexes, NEW m \in Indexes,
               NEW q \in Pids, Live(q)', entries[g][j].pid = q, entries[h][m].pid = q
        PROVE  g = h /\ (entries[g][j].page = entries[h][m].page => j = m)
    <3>1. Live(q)
      BY <1>2, <2>1
    <3> QED
      BY <2>1, <3>1 DEF SwampInv, OnePlace
  <2> QED
    BY <2>1 DEF OnePlace, Live
<1>6. InChunk'
  <2>1. ASSUME asignacion' = "ASIG_FIJA", NEW g \in Files, NEW j \in Indexes,
               NEW q \in Pids, q = entries[g][j].pid, Live(q)'
        PROVE  \E d \in ChunkStarts : d <= j /\ j < d + MaxFrames /\ IsFirstPage(g, d, q)
    <3>1. Live(q) /\ asignacion = "ASIG_FIJA"
      BY <1>2, <2>1
    <3> QED
      BY <2>1, <3>1 DEF SwampInv, InChunk
  <2> QED
    BY <1>1, <2>1 DEF InChunk, Live, IsFirstPage
<1> QED
  BY <1>3, <1>4, <1>5, <1>6 DEF SwampInv, Owned

(* The files begin without entries. *)
LEMMA SwampInit == Init => SwampInv
<1> SUFFICES ASSUME Init PROVE SwampInv
  OBVIOUS
<1>1. TypeOK
  <2>1. Unused \in [used : BOOLEAN, pid : Pids \cup {NoPid}, page : Pages]
    BY Sizes, SwampAssumption DEF Unused, Pages, SwampAssumption
  <2>2. entries \in [Files -> [Slots -> [used : BOOLEAN, pid : Pids \cup {NoPid}, page : Pages]]]
    BY <2>1 DEF Init
  <2>3. content \in [Files -> [Slots -> Contents]]
    BY SwampAssumption DEF Init, SwampAssumption
  <2>4. table \in [Pids -> Seq(BOOLEAN)] /\ \A p \in Pids : Len(table[p]) <= MaxTable
    BY Sizes DEF Init
  <2>5. connections \in 1 .. MaxConnections
    BY SwampAssumption DEF Init, SwampAssumption
  <2> QED
    BY <2>2, <2>3, <2>4, <2>5 DEF Init, TypeOK
<1>2. \A f \in Files, i \in Indexes : entries[f][i].pid \notin Pids
  BY Sizes, SwampAssumption DEF Init, Unused, SwampAssumption
<1>4. Owned
  BY Sizes DEF Init, Unused, Owned
<1>3. TablesMatch /\ \A p \in Pids : ~Live(p)
  BY DEF Init, TablesMatch, Live
<1> QED
  BY <1>1, <1>2, <1>3, <1>4 DEF SwampInv, Absent, FirstPage, OnePlace, InChunk

(* A page table with one entry more, or one less. *)
LEMMA LongerTable ==
    ASSUME SwampInv, NEW p \in Pids, Len(table[p]) < MaxTable, NEW x \in BOOLEAN,
           table' = [table EXCEPT ![p] = Append(@, x)]
    PROVE  /\ table' \in [Pids -> Seq(BOOLEAN)]
           /\ \A q \in Pids : Len(table'[q]) <= MaxTable
           /\ \A q \in Pids : q # p => table'[q] = table[q]
           /\ table'[p] # <<>> /\ table'[p][1] = IF table[p] = <<>> THEN x ELSE table[p][1]
           /\ table'[p] # table[p]
<1>1. /\ table \in [Pids -> Seq(BOOLEAN)] /\ \A q \in Pids : Len(table[q]) <= MaxTable
      /\ MaxTable \in Nat
  BY Sizes DEF SwampInv, TypeOK
<1>2. PICK t : t = table[p]
  OBVIOUS
<1>3. t \in Seq(BOOLEAN) /\ Len(t) \in Nat /\ Len(t) < MaxTable
  BY <1>1, <1>2
<1>4. PICK u : u = Append(t, x)
  OBVIOUS
<1>5. /\ u \in Seq(BOOLEAN) /\ Len(u) = Len(t) + 1 /\ u[Len(t) + 1] = x
      /\ \A k \in 1 .. Len(t) : u[k] = t[k]
  BY <1>3, <1>4
<1>6. u # <<>> /\ u # t
  <2>1. Len(<<>>) = 0
    OBVIOUS
  <2> QED
    BY <1>3, <1>5, <2>1
<1>7. u[1] = IF t = <<>> THEN x ELSE t[1]
  <2>1. CASE t = <<>>
    <3>1. Len(t) = 0
      BY <2>1
    <3> QED
      BY <1>5, <2>1, <3>1
  <2>2. CASE t # <<>>
    <3>1. Len(t) # 0
      BY <1>3, <2>2
    <3> QED
      BY <1>3, <1>5, <2>2, <3>1
  <2> QED
    BY <2>1, <2>2
<1>8. \A q \in Pids : table'[q] = IF q = p THEN u ELSE table[q]
  BY <1>1, <1>2, <1>4
<1>9. table' \in [Pids -> Seq(BOOLEAN)]
  BY <1>1, <1>2, <1>4, <1>5
<1>10. \A q \in Pids : Len(table'[q]) <= MaxTable
  BY <1>1, <1>3, <1>5, <1>8
<1> QED
  BY <1>2, <1>6, <1>7, <1>8, <1>9, <1>10

(* What a page table is without its last page. *)
LEMMA ShorterTable ==
    ASSUME SwampInv, NEW p \in Pids, table[p] # <<>>,
           table' = [table EXCEPT ![p] = SubSeq(@, 1, Len(@) - 1)]
    PROVE  /\ table' \in [Pids -> Seq(BOOLEAN)]
           /\ \A q \in Pids : Len(table'[q]) <= MaxTable
           /\ \A q \in Pids : q # p => table'[q] = table[q]
           /\ LastPage(p) \in Nat /\ Len(table'[p]) = LastPage(p)
           /\ LastPage(p) = 0 => table'[p] = <<>>
           /\ LastPage(p) > 0 => table'[p] # <<>> /\ table'[p][1] = table[p][1]
           /\ \A k \in 1 .. LastPage(p) : table'[p][k] = table[p][k]
<1>1. /\ table \in [Pids -> Seq(BOOLEAN)] /\ \A q \in Pids : Len(table[q]) <= MaxTable
      /\ MaxTable \in Nat
  BY Sizes DEF SwampInv, TypeOK
<1>2. PICK t : t = table[p]
  OBVIOUS
<1>3. t \in Seq(BOOLEAN) /\ Len(t) \in Nat /\ Len(t) <= MaxTable
  BY <1>1, <1>2
<1>4. Len(t) # 0
  BY <1>2, <1>3
<1>5. PICK u : u = SubSeq(t, 1, Len(t) - 1)
  OBVIOUS
<1>6. /\ u \in Seq(BOOLEAN) /\ Len(u) = Len(t) - 1
      /\ \A k \in 1 .. Len(t) - 1 : u[k] = t[k]
  <2> DEFINE m == Len(t) - 1
  <2>1. m \in Nat /\ \A k \in 1 .. m : t[k] \in BOOLEAN
    BY <1>3, <1>4, ElementOfSeq
  <2> HIDE DEF m
  <2>2. /\ SubSeq(t, 1, m) \in Seq(BOOLEAN)
        /\ Len(SubSeq(t, 1, m)) = IF 1 <= m THEN m - 1 + 1 ELSE 0
        /\ \A k \in 1 .. m - 1 + 1 : SubSeq(t, 1, m)[k] = t[1 + k - 1]
    BY <2>1, SubSeqProperties
  <2>3. Len(SubSeq(t, 1, m)) = m
    BY <2>1, <2>2
  <2>4. \A k \in 1 .. m : SubSeq(t, 1, m)[k] = t[k]
    <3> TAKE k \in 1 .. m
    <3>1. k \in 1 .. m - 1 + 1 /\ 1 + k - 1 = k
      BY <2>1
    <3> QED
      BY <2>2, <3>1
  <2>5. u = SubSeq(t, 1, m)
    BY <1>5 DEF m
  <2>6. u \in Seq(BOOLEAN) /\ Len(u) = m /\ \A k \in 1 .. m : u[k] = t[k]
    BY <2>2, <2>3, <2>4, <2>5
  <2> QED
    BY <2>6 DEF m
<1>7. \A q \in Pids : table'[q] = IF q = p THEN u ELSE table[q]
  BY <1>1, <1>2, <1>5
<1>8. table' \in [Pids -> Seq(BOOLEAN)]
  BY <1>1, <1>2, <1>5, <1>6
<1>9. \A q \in Pids : Len(table'[q]) <= MaxTable
  BY <1>1, <1>3, <1>6, <1>7
<1>10. LastPage(p) = Len(t) - 1
  BY <1>2 DEF LastPage
<1>11. LastPage(p) = 0 => u = <<>>
  BY <1>3, <1>6, <1>10
<1>12. LastPage(p) > 0 => u # <<>> /\ u[1] = t[1]
  BY <1>3, <1>6, <1>10
<1> QED
  BY <1>2, <1>3, <1>4, <1>6, <1>7, <1>8, <1>9, <1>10, <1>11, <1>12

(* Each petition and each step of the memory keeps the pages of a process together. *)
LEMMA SwampStep == SwampInv /\ [Next]_vars => SwampInv'
<1> SUFFICES ASSUME SwampInv, [Next]_vars PROVE SwampInv'
  OBVIOUS
<1>0. /\ client \in [Pids -> {"new", "running", "ending", "gone"}]
      /\ table \in [Pids -> Seq(BOOLEAN)] /\ \A q \in Pids : Len(table[q]) <= MaxTable
      /\ asignacion \in Algorithms /\ connections \in 1 .. MaxConnections
      /\ entries \in [Files -> [Slots -> [used : BOOLEAN, pid : Pids \cup {NoPid}, page : Pages]]]
      /\ content \in [Files -> [Slots -> Contents]]
  BY DEF SwampInv, TypeOK
<1>1. \A q \in Pids : /\ client[q] \in {"new", "gone"} => table[q] = <<>>
                      /\ client[q] = "ending" => table[q] # <<>>
  BY DEF SwampInv, TablesMatch
<1>2. ASSUME NEW p \in Pids, Start(p) PROVE SwampInv'
  <2>1. /\ client[p] = "new" /\ client' = [client EXCEPT ![p] = "running"]
        /\ UNCHANGED <<entries, content, asignacion, table, connections>>
    BY <1>2 DEF Start, fileVars
  <2>2. TypeOK'
    BY <1>0, <2>1 DEF TypeOK
  <2>3. \A q \in Pids : client'[q] = IF q = p THEN "running" ELSE client[q]
    BY <1>0, <2>1
  <2>4. TablesMatch'
    BY <1>1, <2>1, <2>3 DEF TablesMatch
  <2> QED
    BY <1>1, <2>1, <2>2, <2>3, <2>4, KeepEntries DEF Live, Begun
<1>3. ASSUME NEW p \in Pids, CreatePage(p) PROVE SwampInv'
  <2>1. /\ Usable(p) /\ NextPage(p) < MaxTable /\ UNCHANGED <<asignacion, client, connections>>
        /\ \/ Store(p, NextPage(p), Zero) /\ table' = [table EXCEPT ![p] = Append(@, TRUE)]
           \/ Refuse(p, NextPage(p)) /\ table' = [table EXCEPT ![p] = Append(@, FALSE)]
    BY <1>3 DEF CreatePage
  <2>2. /\ Len(table[p]) < MaxTable /\ NextPage(p) = Len(table[p]) /\ client[p] = "running"
        /\ Len(table[p]) \in Nat
    BY <1>0, <2>1 DEF NextPage, Usable
  <2>3. CASE Store(p, NextPage(p), Zero) /\ table' = [table EXCEPT ![p] = Append(@, TRUE)]
    <3>1. Savable(p, NextPage(p))
      <4>1. NextPage(p) \in Pages
        BY <2>1, <2>2, Sizes DEF Pages
      <4>2. table[p] = <<>> => Len(table[p]) = 0
        OBVIOUS
      <4> QED
        BY <2>1, <2>2, <4>1, <4>2 DEF Savable, Usable
    <3>2. /\ table' \in [Pids -> Seq(BOOLEAN)]
          /\ \A q \in Pids : Len(table'[q]) <= MaxTable
          /\ \A q \in Pids : q # p => table'[q] = table[q]
          /\ table'[p] # <<>> /\ table'[p][1] = IF table[p] = <<>> THEN TRUE ELSE table[p][1]
      BY <2>2, <2>3, LongerTable
    <3>3. Begun(p)'
      BY <2>1, <3>2 DEF Begun, Usable
    <3>4. Zero \in Contents
      BY SwampAssumption DEF SwampAssumption
    <3> QED
      BY <2>1, <2>3, <3>1, <3>2, <3>3, <3>4, StoreStep
  <2>4. CASE Refuse(p, NextPage(p)) /\ table' = [table EXCEPT ![p] = Append(@, FALSE)]
    <3>1. UNCHANGED <<entries, content, asignacion, client, connections>>
      BY <2>1, <2>4 DEF Refuse, fileVars
    <3>2. /\ table' \in [Pids -> Seq(BOOLEAN)]
          /\ \A q \in Pids : Len(table'[q]) <= MaxTable
          /\ \A q \in Pids : q # p => table'[q] = table[q]
          /\ table'[p] # <<>> /\ table'[p][1] = IF table[p] = <<>> THEN FALSE ELSE table[p][1]
      BY <2>2, <2>4, LongerTable
    <3>3. TypeOK'
      BY <1>0, <3>1, <3>2 DEF TypeOK
    <3>4. TablesMatch'
      BY <1>1, <2>2, <3>1, <3>2 DEF TablesMatch
    <3>5. \A q \in Pids : (Begun(q)' <=> Begun(q)) /\ (Live(q)' <=> Live(q))
      BY <3>1, <3>2 DEF Begun, Live
    <3> QED
      BY <3>1, <3>3, <3>4, <3>5, KeepEntries
  <2> QED
    BY <2>1, <2>3, <2>4
<1>4. ASSUME UNCHANGED <<fileVars, asignacion, memoryVars>> PROVE SwampInv'
  <2>1. UNCHANGED <<entries, content, asignacion, client, table, connections>>
    BY <1>4 DEF fileVars, memoryVars
  <2>2. TypeOK' /\ TablesMatch'
    BY <1>0, <1>1, <2>1 DEF TypeOK, TablesMatch
  <2>3. \A q \in Pids : (Begun(q)' <=> Begun(q)) /\ (Live(q)' <=> Live(q))
    BY <2>1 DEF Begun, Live
  <2> QED
    BY <2>1, <2>2, <2>3, KeepEntries
<1>5. ASSUME NEW p \in Pids, NEW n \in Pages, NEW c \in Contents, WriteBack(p, n, c) PROVE SwampInv'
  <2>1. /\ Usable(p) /\ n < NextPage(p) /\ UNCHANGED <<asignacion, memoryVars>>
        /\ Store(p, n, c) \/ Refuse(p, n)
    BY <1>5 DEF WriteBack
  <2>2. CASE Store(p, n, c)
    <3>1. UNCHANGED <<asignacion, client, table, connections>>
      BY <2>1 DEF memoryVars
    <3>2. table[p] # <<>> /\ table[p][1] /\ client[p] = "running"
      <4>1. Len(table[p]) # 0
        BY <1>0, <2>1, Sizes DEF NextPage, Pages
      <4>2. Len(<<>>) = 0
        OBVIOUS
      <4> QED
        BY <2>1, <4>1, <4>2 DEF Usable
    <3>3. Savable(p, n)
      BY <3>2 DEF Savable
    <3>4. Begun(p)'
      BY <3>1, <3>2 DEF Begun
    <3> QED
      BY <1>0, <2>2, <3>1, <3>3, <3>4, StoreStep
  <2>3. CASE Refuse(p, n)
    BY <1>4, <2>1, <2>3 DEF Refuse
  <2> QED
    BY <2>1, <2>2, <2>3
<1>6. ASSUME NEW p \in Pids, EraseLast(p) PROVE SwampInv'
  <2>1. /\ client[p] = "running" /\ LastPage(p) > 0 /\ DestroyPage(p, LastPage(p))
        /\ table' = [table EXCEPT ![p] = SubSeq(@, 1, Len(@) - 1)]
        /\ UNCHANGED <<asignacion, client, connections>>
    BY <1>6 DEF EraseLast
  <2>2. table[p] # <<>>
    <3>1. Len(<<>>) = 0
      OBVIOUS
    <3> QED
      BY <2>1, <3>1 DEF LastPage
  <2>3. /\ table' \in [Pids -> Seq(BOOLEAN)]
        /\ \A q \in Pids : Len(table'[q]) <= MaxTable
        /\ \A q \in Pids : q # p => table'[q] = table[q]
        /\ LastPage(p) # 0 /\ table'[p] # <<>> /\ table'[p][1] = table[p][1]
    BY <2>1, <2>2, ShorterTable
  <2>4. Begun(p)' <=> Begun(p)
    BY <2>2, <2>3 DEF Begun
  <2> QED
    BY <1>0, <2>1, <2>3, <2>4, DestroyStep DEF Live
<1>7. ASSUME NEW p \in Pids, EndProcess(p) PROVE SwampInv'
  <2>1. /\ client[p] = "running"
        /\ client' = [client EXCEPT ![p] = IF table[p] = <<>> THEN "gone" ELSE "ending"]
        /\ UNCHANGED <<entries, content, asignacion, table, connections>>
    BY <1>7 DEF EndProcess, fileVars
  <2>2. TypeOK'
    BY <1>0, <2>1 DEF TypeOK
  <2>3. \A q \in Pids : client'[q] = IF q = p THEN IF table[p] = <<>> THEN "gone" ELSE "ending"
                                              ELSE client[q]
    BY <1>0, <2>1
  <2>4. TablesMatch'
    BY <1>1, <2>1, <2>3 DEF TablesMatch
  <2>5. \A q \in Pids : /\ Live(q)' => Live(q) /\ (Begun(q)' <=> Begun(q))
                        /\ client'[q] = "new" => client[q] = "new"
    BY <2>1, <2>3 DEF Live, Begun
  <2> QED
    BY <2>1, <2>2, <2>4, <2>5, KeepEntries
<1>8. ASSUME NEW p \in Pids, EraseEnding(p) PROVE SwampInv'
  <2>1. /\ client[p] = "ending" /\ DestroyPage(p, LastPage(p))
        /\ table' = [table EXCEPT ![p] = SubSeq(@, 1, Len(@) - 1)]
        /\ client' = [client EXCEPT ![p] = IF LastPage(p) = 0 THEN "gone" ELSE "ending"]
        /\ UNCHANGED <<asignacion, connections>>
    BY <1>8 DEF EraseEnding
  <2>2. table[p] # <<>>
    BY <1>1, <2>1
  <2>3. /\ table' \in [Pids -> Seq(BOOLEAN)]
        /\ \A q \in Pids : Len(table'[q]) <= MaxTable
        /\ \A q \in Pids : q # p => table'[q] = table[q]
        /\ LastPage(p) \in Nat
        /\ LastPage(p) = 0 => table'[p] = <<>>
        /\ LastPage(p) > 0 => table'[p] # <<>> /\ table'[p][1] = table[p][1]
    BY <2>1, <2>2, ShorterTable
  <2>4. /\ client' \in [Pids -> {"new", "running", "ending", "gone"}]
        /\ client'[p] = IF LastPage(p) = 0 THEN "gone" ELSE "ending"
        /\ \A q \in Pids : q # p => client'[q] = client[q]
    BY <1>0, <2>1
  <2>5. LastPage(p) > 0 => (Begun(p)' <=> Begun(p))
    BY <2>2, <2>3 DEF Begun
  <2>6. \/ client'[p] = "gone" /\ table'[p] = <<>>
        \/ client'[p] = client[p] /\ LastPage(p) # 0 /\ table'[p] # <<>> /\ (Begun(p)' <=> Begun(p))
    BY <2>1, <2>3, <2>4, <2>5
  <2> QED
    BY <2>1, <2>3, <2>4, <2>6, DestroyStep DEF Live
<1>9. ASSUME Reconnect PROVE SwampInv'
  <2>1. /\ connections < MaxConnections /\ connections' = connections + 1
        /\ asignacion' \in Algorithms /\ table' = [p \in Pids |-> <<>>]
        /\ client' = [p \in Pids |-> IF client[p] = "new" THEN "new" ELSE "gone"]
        /\ UNCHANGED <<entries, content>>
    BY <1>9 DEF Reconnect, fileVars
  <2>2. TypeOK'
    <3>1. connections' \in 1 .. MaxConnections
      BY <1>0, <2>1, SwampAssumption DEF SwampAssumption
    <3>2. table' \in [Pids -> Seq(BOOLEAN)] /\ \A q \in Pids : Len(table'[q]) <= MaxTable
      BY <2>1, Sizes
    <3>3. client' \in [Pids -> {"new", "running", "ending", "gone"}]
      BY <2>1
    <3> QED
      BY <1>0, <2>1, <3>1, <3>2, <3>3 DEF TypeOK
  <2>3. \A q \in Pids : /\ client'[q] = IF client[q] = "new" THEN "new" ELSE "gone"
                        /\ table'[q] = <<>>
    BY <2>1
  <2>4. TablesMatch'
    BY <2>3 DEF TablesMatch
  <2>5. \A q \in Pids : ~Live(q)' /\ (client'[q] = "new" => client[q] = "new")
    BY <2>3 DEF Live
  <2> QED
    BY <2>1, <2>2, <2>4, <2>5, KeepEntries
<1>10. CASE UNCHANGED vars
  BY <1>4, <1>10 DEF vars
<1> QED
  BY <1>2, <1>3, <1>4, <1>5, <1>6, <1>7, <1>8, <1>9, <1>10 DEF Next, LoadPage, ReadPage

(* The pages of a process are together in every state. *)
LEMMA SwampInvariant == Spec => []SwampInv
BY SwampInit, SwampStep, PTL DEF Spec

-----------------------------------------------------------------------------
(* Theorems *)

(* Every slot of the files keeps a record of a page, in use or not, and the page tables
   stay within their bound. *)
THEOREM SwampTypes == Spec => []TypeOK
<1>1. SwampInv => TypeOK
  BY DEF SwampInv
<1> QED
  BY <1>1, SwampInvariant, PTL

(* A page in swap is in one place, whatever the stale entries that swapFile_getIndex finds
   and the processes that came before. *)
THEOREM SwampOneEntryPerPage == Spec => []OneEntryPerPage
<1>1. SwampInv => OneEntryPerPage
  <2> SUFFICES ASSUME SwampInv PROVE OneEntryPerPage
    OBVIOUS
  <2> QED
    BY DEF SwampInv, Owned, OneEntryPerPage, OnePlace
<1> QED
  BY <1>1, SwampInvariant, PTL

(* The index in a chunk and the number of the chunk. *)
LEMMA ChunkNumber ==
    ASSUME NEW b \in ChunkStarts, NEW i \in Indexes, b <= i, i < b + MaxFrames
    PROVE  i \div MaxFrames = b \div MaxFrames
<1>1. MaxFrames \in Nat \ {0} /\ b \in Nat /\ i \in Nat /\ b % MaxFrames = 0
  BY Sizes DEF ChunkStarts
<1>2. PICK q \in Nat : q = b \div MaxFrames /\ b = q * MaxFrames
  <2>1. b \div MaxFrames \in Nat /\ b = (b \div MaxFrames) * MaxFrames + (b % MaxFrames)
    BY <1>1, DivMod
  <2>2. (b \div MaxFrames) * MaxFrames \in Nat
    BY <1>1, <2>1
  <2> QED
    BY <1>1, <2>1, <2>2
<1>3. PICK x \in Nat : x = q * MaxFrames
  BY <1>1, <1>2
<1>4. i - b \in 0 .. MaxFrames - 1 /\ i = x + (i - b)
  BY <1>1, <1>2, <1>3
<1>5. (q * MaxFrames + (i - b)) \div MaxFrames = q
  BY <1>1, <1>4, DivUnique
<1> QED
  BY <1>2, <1>3, <1>4, <1>5

(* Two chunks that begin at one number are one. *)
LEMMA ChunkNumberUnique ==
    ASSUME NEW b \in ChunkStarts, NEW d \in ChunkStarts, b \div MaxFrames = d \div MaxFrames
    PROVE  b = d
<1>1. MaxFrames \in Nat \ {0} /\ b \in Nat /\ d \in Nat /\ b % MaxFrames = 0 /\ d % MaxFrames = 0
  BY Sizes DEF ChunkStarts
<1>2. b = (b \div MaxFrames) * MaxFrames + 0 /\ d = (d \div MaxFrames) * MaxFrames + 0
  BY <1>1, DivMod
<1> QED
  BY <1>2

(* With fixed assignment the pages of a process are in one chunk, and the chunk is the
   process's alone, although only its first page is looked at when it is taken. *)
THEOREM SwampChunksNotShared == Spec => []ChunksNotShared
<1>1. SwampInv => ChunksNotShared
  <2> SUFFICES ASSUME SwampInv, asignacion = "ASIG_FIJA", NEW f \in Files, NEW g \in Files,
                      NEW i \in Indexes, NEW j \in Indexes,
                      NEW p, p = entries[f][i].pid, NEW q, q = entries[g][j].pid,
                      entries[f][i].used, entries[g][j].used, Live(p), Live(q)
               PROVE  p = q <=> f = g /\ i \div MaxFrames = j \div MaxFrames
    BY DEF ChunksNotShared
  <2>1. p \in Pids /\ q \in Pids
    BY DEF SwampInv, Owned
  <2>2. PICK b \in ChunkStarts : b <= i /\ i < b + MaxFrames /\ IsFirstPage(f, b, p)
    BY <2>1 DEF SwampInv, InChunk
  <2>3. PICK d \in ChunkStarts : d <= j /\ j < d + MaxFrames /\ IsFirstPage(g, d, q)
    BY <2>1 DEF SwampInv, InChunk
  <2>4. i \div MaxFrames = b \div MaxFrames /\ j \div MaxFrames = d \div MaxFrames
    BY <2>2, <2>3, ChunkNumber
  <2>5. ASSUME p = q PROVE f = g /\ b = d
    <3>1. /\ entries[f][b].pid = p /\ entries[g][d].pid = p
          /\ entries[f][b].page = 0 /\ entries[g][d].page = 0
          /\ b \in Indexes /\ d \in Indexes
      BY <2>2, <2>3, <2>5, Sizes DEF IsFirstPage
    <3>2. OnePlace
      BY DEF SwampInv
    <3> QED
      BY <2>1, <3>1, <3>2 DEF OnePlace
  <2>6. ASSUME f = g, i \div MaxFrames = j \div MaxFrames PROVE p = q
    <3>1. b = d
      BY <2>4, <2>6, ChunkNumberUnique
    <3> QED
      BY <2>2, <2>3, <2>6, <3>1 DEF IsFirstPage
  <2> QED
    BY <2>4, <2>5, <2>6
<1> QED
  BY <1>1, SwampInvariant, PTL

(* A page that is refused finds no room: no free index in the file of its process or in
   any file, or a chunk that is full, or no chunk that is free. *)
LEMMA NoRoom ==
    ASSUME SwampInv, NEW p, NEW n, Savable(p, n), Assigned(p, n)[1] = 0,
           NEW g \in Files, PidExists(p) # 0 => g = PidExists(p)
    PROVE  /\ asignacion = "ASIG_GLOBAL" => FreeIndexes(g) = {}
           /\ asignacion = "ASIG_FIJA" =>
                \/ Cardinality(PidIndexes(g, p)) = MaxFrames
                \/ PidExists(p) = 0 /\ \A i \in ChunkStarts : entries[g][i].used
<1>1. p \in Pids /\ Live(p)
  BY DEF Savable, Live
<1>2. /\ Begun(p) => /\ PidExists(p) \in Files
                     /\ \A f \in Files, j \in Indexes : entries[f][j].pid = p => f = PidExists(p)
      /\ ~Begun(p) => /\ PidExists(p) = 0
                      /\ \A f \in Files, j \in Indexes : entries[f][j].pid # p
  BY <1>1, ProcessFile
<1>3. 0 \notin Files /\ MaxFrames \in Nat /\ MaxFrames > 0
  BY Sizes
<1>4. CASE asignacion = "ASIG_GLOBAL"
  <2>1. PICK f : f = GlobalFile(p)
    OBVIOUS
  <2>2. f \in Files /\ (PidExists(p) # 0 => g = f)
    <3>1. CASE PidExists(p) = 0
      BY <2>1, <3>1, RoomiestFile
    <3>2. CASE PidExists(p) # 0
      BY <1>2, <2>1, <3>2 DEF GlobalFile
    <3> QED
      BY <3>1, <3>2
  <2>3. GlobalIndex(f, p, n) = -1
    BY <1>3, <1>4, <2>1, <2>2 DEF Assigned
  <2>4. First(FreeIndexes(f)) = -1
    BY <2>3 DEF GlobalIndex
  <2>5. FreeIndexes(f) = {}
    <3>1. FreeIndexes(f) \subseteq Nat
      BY Sizes DEF FreeIndexes
    <3> QED
      BY <2>4, <3>1, FirstMember
  <2>6. CASE PidExists(p) = 0
    <3>1. Cardinality(FreeIndexes(g)) <= Cardinality(FreeIndexes(f))
      BY <2>1, <2>6, RoomiestFile
    <3>2. Cardinality(FreeIndexes(f)) = 0
      BY <2>5, FS_EmptySet
    <3>3. IsFiniteSet(FreeIndexes(g)) /\ Cardinality(FreeIndexes(g)) \in Nat
      <4>1. IsFiniteSet(Indexes)
        BY FS_Interval, Sizes DEF Indexes
      <4>2. FreeIndexes(g) \subseteq Indexes
        BY DEF FreeIndexes
      <4> QED
        BY <4>1, <4>2, FS_Subset, FS_CardinalityType
    <3>4. Cardinality(FreeIndexes(g)) = 0
      BY <3>1, <3>2, <3>3
    <3> QED
      BY <1>4, <3>3, <3>4, FS_EmptySet
  <2> QED
    BY <1>4, <2>2, <2>5, <2>6
<1>5. CASE asignacion = "ASIG_FIJA"
  <2>1. PICK f : f = FijaFile(p)
    OBVIOUS
  <2>2. f # 0 => FijaIndex(f, p, n) = -1
    BY <1>5, <2>1 DEF Assigned
  <2>3. f # 0 => GetIndex(f, p, n) = -1
    BY <2>2 DEF FijaIndex
  <2>4. CASE Begun(p)
    <3>1. PidExists(p) # 0 /\ f = PidExists(p) /\ g = f
      BY <1>2, <1>3, <2>1, <2>4 DEF FijaFile
    <3>2. PICK b : b = GetChunk(f, p)
      OBVIOUS
    <3>3. b \in ChunkStarts
      BY <1>1, <1>5, <2>4, <3>1, <3>2, ProcessChunk
    <3>4. b \in Nat
      BY <3>3, Sizes
    <3>5. PICK offset : offset = Cardinality(PidIndexes(f, p))
      OBVIOUS
    <3>6. offset \in Nat
      BY <1>1, <1>3, <1>5, <2>4, <3>1, <3>5, PidCount
    <3>7. offset = MaxFrames \/ b + offset = -1
      BY <2>2, <2>3, <3>1, <3>2, <3>4, <3>5 DEF FijaIndex
    <3>8. offset = MaxFrames
      BY <3>4, <3>6, <3>7
    <3> QED
      BY <1>5, <3>1, <3>5, <3>8
  <2>5. CASE ~Begun(p)
    <3> DEFINE free == {h \in Files : FreeChunk(h) # -1}
    <3>1. f = IF free = {} THEN 0 ELSE Min(free)
      BY <1>2, <2>1, <2>5 DEF FijaFile
    <3>2. CASE free = {}
      <4>1. FreeChunk(g) = -1
        BY <3>2
      <4>2. {j \in ChunkStarts : ~entries[g][j].used} \subseteq Nat
        BY Sizes
      <4>3. {j \in ChunkStarts : ~entries[g][j].used} = {}
        BY <4>1, <4>2, FirstMember DEF FreeChunk
      <4> QED
        BY <1>2, <1>5, <2>5, <4>3
    <3>3. CASE free # {}
      <4>1. f \in free
        <5>1. free \subseteq Nat
          BY Sizes
        <5> QED
          BY <3>1, <3>3, <5>1, MinMember
      <4>2. f \in Files /\ f # 0 /\ FreeChunk(f) # -1
        BY <1>3, <4>1
      <4>3. PICK b : b = FreeChunk(f)
        OBVIOUS
      <4>4. b \in Nat
        <5>1. {j \in ChunkStarts : ~entries[f][j].used} \subseteq Nat
          BY Sizes
        <5> QED
          BY <4>2, <4>3, <5>1, FirstMember DEF FreeChunk
      <4>5. GetChunk(f, p) = -1
        <5>1. {j \in ChunkStarts : entries[f][j].pid = p} = {}
          BY <1>2, <2>5, <4>2, Sizes
        <5>2. First({}) = -1
          BY DEF First
        <5> QED
          BY <5>1, <5>2 DEF GetChunk
      <4>6. Cardinality(PidIndexes(f, p)) = 0
        <5>1. PidIndexes(f, p) = {}
          BY <1>2, <2>5, <4>2 DEF PidIndexes, UsedIndexes
        <5> QED
          BY <5>1, FS_EmptySet
      <4>7. FijaIndex(f, p, n) = b + 0
        BY <1>3, <2>3, <4>2, <4>3, <4>4, <4>5, <4>6 DEF FijaIndex
      <4> QED
        BY <2>2, <4>2, <4>4, <4>7
    <3> QED
      BY <3>2, <3>3
  <2> QED
    BY <2>4, <2>5
<1>6. asignacion = "ASIG_FIJA" \/ asignacion = "ASIG_GLOBAL"
  BY DEF SwampInv, TypeOK, Algorithms
<1> QED
  BY <1>4, <1>5, <1>6

(* A new page is refused only when the file of its process, or every file for a new
   process, has no room for it under the assignment in use. *)
THEOREM SwampRefusedOnlyWhenFull == Spec => RefusedOnlyWhenFull
<1> DEFINE Full(p) ==
             LET files == IF PidExists(p) = 0 THEN Files ELSE {PidExists(p)}
             IN  \A f \in files :
                   IF asignacion = "ASIG_GLOBAL" THEN FreeIndexes(f) = {}
                   ELSE \/ Cardinality(PidIndexes(f, p)) = MaxFrames
                        \/ PidExists(p) = 0 /\ \A i \in ChunkStarts : entries[f][i].used
           Refused ==
             \A p \in Pids :
               table'[p] # table[p] /\ reply' = <<"SAVE_PAGE", p, NextPage(p), "SWAP_ERROR">> =>
                  Full(p)
<1>1. ASSUME SwampInv, [Next]_vars PROVE [Refused]_vars
  <2> SUFFICES ASSUME Next, NEW p \in Pids, table'[p] # table[p],
                      reply' = <<"SAVE_PAGE", p, NextPage(p), "SWAP_ERROR">>
               PROVE  Full(p)
    BY <1>1
  <2> HIDE DEF Full
  <2>1. table \in [Pids -> Seq(BOOLEAN)]
    BY <1>1 DEF SwampInv, TypeOK
  <2>2. ASSUME NEW q \in Pids, CreatePage(q) PROVE Full(p)
    <3>1. p = q
      BY <2>1, <2>2 DEF CreatePage
    <3>2. Refuse(p, NextPage(p))
      BY <2>2, <3>1 DEF CreatePage, Store
    <3>3. Savable(p, NextPage(p)) /\ Assigned(p, NextPage(p))[1] = 0
      <4>1. client[p] = "running" /\ (table[p] # <<>> => table[p][1]) /\ NextPage(p) < MaxTable
        BY <2>2, <3>1 DEF CreatePage, Usable
      <4>2. NextPage(p) \in Nat /\ (table[p] = <<>> => NextPage(p) = 0)
        BY <2>1 DEF NextPage
      <4>3. NextPage(p) \in Pages
        BY <4>1, <4>2, Sizes DEF Pages
      <4> QED
        BY <3>2, <4>1, <4>2, <4>3 DEF Savable, Refuse
    <3>4. /\ p \in Pids /\ Live(p)
          /\ asignacion = "ASIG_FIJA" \/ asignacion = "ASIG_GLOBAL"
      BY <1>1, <3>3 DEF Savable, Live, SwampInv, TypeOK, Algorithms
    <3>5. PidExists(p) # 0 => PidExists(p) \in Files
      BY <1>1, <3>4, ProcessFile
    <3>6. ASSUME NEW f \in IF PidExists(p) = 0 THEN Files ELSE {PidExists(p)}
          PROVE  IF asignacion = "ASIG_GLOBAL" THEN FreeIndexes(f) = {}
                 ELSE \/ Cardinality(PidIndexes(f, p)) = MaxFrames
                      \/ PidExists(p) = 0 /\ \A i \in ChunkStarts : entries[f][i].used
      <4>1. f \in Files /\ (PidExists(p) # 0 => f = PidExists(p))
        BY <3>5
      <4>2. /\ asignacion = "ASIG_GLOBAL" => FreeIndexes(f) = {}
            /\ asignacion = "ASIG_FIJA" =>
                 \/ Cardinality(PidIndexes(f, p)) = MaxFrames
                 \/ PidExists(p) = 0 /\ \A i \in ChunkStarts : entries[f][i].used
        BY <1>1, <3>3, <4>1, NoRoom
      <4> QED
        BY <3>4, <4>2
    <3> QED
      BY <3>6 DEF Full
  <2>3. ASSUME NEW q \in Pids, NEW n, DestroyPage(q, n) PROVE FALSE
    <3>1. reply'[1] = "DESTROY_PAGE"
      BY <2>3 DEF DestroyPage
    <3> QED
      BY <3>1
  <2>4. ~Reconnect
    <3>1. ASSUME Reconnect PROVE FALSE
      <4>1. Len(reply') = 0 /\ Len(reply') = 4
        BY <3>1 DEF Reconnect
      <4> QED
        BY <4>1
    <3> QED
      BY <3>1
  <2> QED
    BY <2>2, <2>3, <2>4
    DEF Next, Start, LoadPage, WriteBack, EraseLast, EndProcess, EraseEnding, memoryVars
<1> QED
  BY <1>1, SwampInvariant, PTL DEF Spec, RefusedOnlyWhenFull

-----------------------------------------------------------------------------
(* The store of pages that the server implements, when files are whole chunks *)

\* TAMANIO_SWAP, TAMANIO_PAGINA and MARCOS_MAXIMOS of batallaPorNordelta, memoriaAsignacion,
\* kernelSuspension and swamp (swamp/cfg) make files of whole chunks
Whole == MaxPages % MaxFrames = 0

Holds(f, i, p, n) ==
    entries[f][i].used /\ entries[f][i].pid = p /\ entries[f][i].page = n

\* A page the memory's table has accepted is in the swap
AcceptedKept ==
    \A p \in Pids : Live(p) =>
        \A n \in 0 .. Len(table[p]) - 1 :
            table[p][n + 1] => \E f \in Files, i \in Indexes : Holds(f, i, p, n)

\* and the entries of other pages of the process are not in use
OnlyAccepted ==
    \A p \in Pids, f \in Files, i \in Indexes :
        Live(p) /\ entries[f][i].pid = p =>
            /\ entries[f][i].used => entries[f][i].page < Len(table[p])
            /\ entries[f][i].page < Len(table[p]) =>
                   entries[f][i].used /\ table[p][entries[f][i].page + 1]

\* With fixed assignment the pages of a process are in order in its chunk
InOrder ==
    asignacion = "ASIG_FIJA" =>
        \A p \in Pids : Live(p) =>
            /\ \A f \in Files, b \in ChunkStarts, i \in Indexes :
                 b <= i /\ i < b + MaxFrames /\ entries[f][i].pid = p =>
                    entries[f][i].page = i - b
            /\ Begun(p) => \A n \in 0 .. Len(table[p]) - 1 : table[p][n + 1] <=> n < MaxFrames

StoreInv == SwampInv /\ AcceptedKept /\ OnlyAccepted /\ InOrder /\ NoPageBeyondFile

(* A chunk of a file of whole chunks is all in the file. *)
LEMMA WholeChunk ==
    ASSUME Whole, NEW b \in ChunkStarts
    PROVE  b + MaxFrames <= MaxPages
<1>1. /\ MaxFrames \in Nat \ {0} /\ MaxPages \in Nat /\ b \in Nat /\ b < MaxPages
      /\ b % MaxFrames = 0 /\ MaxPages % MaxFrames = 0
  BY Sizes DEF ChunkStarts, Whole, Indexes
<1>2. PICK q \in Nat : b = q * MaxFrames
  <2>1. b \div MaxFrames \in Nat /\ b = (b \div MaxFrames) * MaxFrames + (b % MaxFrames)
    BY <1>1, DivMod
  <2>2. (b \div MaxFrames) * MaxFrames \in Nat
    BY <1>1, <2>1
  <2>3. b = (b \div MaxFrames) * MaxFrames
    BY <1>1, <2>1, <2>2
  <2> QED
    BY <2>1, <2>3
<1>3. PICK r \in Nat : MaxPages = r * MaxFrames
  <2>1. MaxPages \div MaxFrames \in Nat /\ MaxPages = (MaxPages \div MaxFrames) * MaxFrames + (MaxPages % MaxFrames)
    BY <1>1, DivMod
  <2>2. (MaxPages \div MaxFrames) * MaxFrames \in Nat
    BY <1>1, <2>1
  <2>3. MaxPages = (MaxPages \div MaxFrames) * MaxFrames
    BY <1>1, <2>1, <2>2
  <2> QED
    BY <2>1, <2>3
<1>4. q < r
  <2>1. ASSUME r <= q PROVE r * MaxFrames <= q * MaxFrames
    BY <1>1, <2>1
  <2> QED
    BY <1>1, <1>2, <1>3, <2>1
<1>5. (q + 1) * MaxFrames <= r * MaxFrames
  <2>1. q + 1 \in Nat /\ q + 1 <= r
    BY <1>4
  <2> QED
    BY <1>1, <2>1
<1>6. (q + 1) * MaxFrames = q * MaxFrames + MaxFrames
  BY <1>1
<1> QED
  BY <1>2, <1>3, <1>5, <1>6

(* A process that has a page in use began, and all its entries are in one file. *)
LEMMA OneFile ==
    ASSUME StoreInv, NEW p \in Pids, Live(p), NEW f \in Files, NEW i \in Indexes,
           entries[f][i].pid = p
    PROVE  Begun(p) /\ f = PidExists(p)
<1>1. SwampInv
  BY DEF StoreInv
<1>2. Begun(p)
  BY <1>1 DEF SwampInv, Absent
<1> QED
  BY <1>1, <1>2, ProcessFile

(* With fixed assignment a process has in use as many pages as it had accepted. *)
LEMMA AcceptedCount ==
    ASSUME StoreInv, NEW p \in Pids, Live(p), Begun(p), asignacion = "ASIG_FIJA",
           NEW f, f = PidExists(p)
    PROVE  Cardinality(PidIndexes(f, p)) =
              IF Len(table[p]) < MaxFrames THEN Len(table[p]) ELSE MaxFrames
<1>1. SwampInv
  BY DEF StoreInv
<1>2. PICK b : b = GetChunk(f, p)
  OBVIOUS
<1>3. /\ b \in ChunkStarts /\ IsFirstPage(f, b, p)
      /\ \A i \in Indexes : entries[f][i].pid = p => b <= i /\ i < b + MaxFrames
  BY <1>1, <1>2, ProcessChunk
<1>4. f \in Files /\ b \in Nat /\ MaxFrames \in Nat /\ b \in Indexes /\ Indexes \subseteq Nat
  BY <1>1, <1>3, ProcessFile, Sizes
<1>5. Len(table[p]) \in Nat
  BY <1>1 DEF SwampInv, TypeOK
<1>6. PICK m : m = IF Len(table[p]) < MaxFrames THEN Len(table[p]) ELSE MaxFrames
  OBVIOUS
<1>7. m \in Nat /\ m <= MaxFrames /\ m <= Len(table[p])
  BY <1>4, <1>5, <1>6
<1>8. \A i \in Indexes : entries[f][i].pid = p => entries[f][i].page = i - b
  BY <1>3, <1>4 DEF StoreInv, InOrder
<1>9. \A n \in 0 .. Len(table[p]) - 1 : table[p][n + 1] <=> n < MaxFrames
  BY DEF StoreInv, InOrder
<1>10. ASSUME NEW i \in PidIndexes(f, p) PROVE i \in b .. b + m - 1
  <2>1. i \in Indexes /\ entries[f][i].used /\ entries[f][i].pid = p
    BY DEF PidIndexes, UsedIndexes
  <2>2. entries[f][i].page < Len(table[p])
    BY <1>4, <2>1 DEF StoreInv, OnlyAccepted
  <2>3. i - b < Len(table[p]) /\ b <= i /\ i < b + MaxFrames /\ i \in Nat
    BY <1>3, <1>4, <1>8, <2>1, <2>2
  <2> QED
    BY <1>4, <1>5, <1>6, <2>3
<1>11. ASSUME NEW j \in b .. b + m - 1 PROVE j \in PidIndexes(f, p)
  <2>1. j - b \in 0 .. Len(table[p]) - 1 /\ j - b < MaxFrames /\ j \in Nat
    BY <1>4, <1>5, <1>7
  <2>2. table[p][(j - b) + 1]
    BY <1>9, <2>1
  <2>3. PICK g \in Files, i \in Indexes : Holds(g, i, p, j - b)
    BY <2>1, <2>2 DEF StoreInv, AcceptedKept
  <2>4. g = f
    BY <2>3, OneFile DEF Holds
  <2>5. i - b = j - b
    BY <1>8, <2>3, <2>4 DEF Holds
  <2>6. i = j
    BY <1>4, <2>1, <2>5
  <2> QED
    BY <2>3, <2>4, <2>6 DEF Holds, PidIndexes, UsedIndexes
<1>12. PidIndexes(f, p) = b .. b + m - 1
  BY <1>10, <1>11
<1>13. Cardinality(b .. b + m - 1) = m
  <2>1. PICK top \in Int : top = b + m - 1
    BY <1>4, <1>7
  <2>2. b \in Int
    BY <1>4
  <2>3. Cardinality(b .. top) = IF b > top THEN 0 ELSE top - b + 1
    BY <2>1, <2>2, FS_Interval
  <2> QED
    BY <1>4, <1>7, <2>1, <2>3
<1> QED
  BY <1>6, <1>12, <1>13

(* A page is refused only if it is not in the file of its process. *)
LEMMA RefusedAbsent ==
    ASSUME SwampInv, NEW p, NEW n, Savable(p, n), Assigned(p, n)[1] = 0,
           NEW f \in Files, NEW i \in Indexes
    PROVE  ~(entries[f][i].pid = p /\ entries[f][i].page = n)
<1> SUFFICES ASSUME entries[f][i].pid = p, entries[f][i].page = n PROVE FALSE
  OBVIOUS
<1>1. p \in Pids /\ Live(p)
  BY DEF Savable, Live
<1>2. Begun(p) /\ f = PidExists(p)
  BY <1>1, ProcessFile
<1>3. f # 0
  BY Sizes
<1>4. PICK k : k = GetIndex(f, p, n)
  OBVIOUS
<1>5. k # -1
  BY <1>4, IndexFound
<1>6. GlobalIndex(f, p, n) = k /\ FijaIndex(f, p, n) = k
  BY <1>4, <1>5 DEF GlobalIndex, FijaIndex
<1>7. GlobalFile(p) = f /\ FijaFile(p) = f
  BY <1>2, <1>3 DEF GlobalFile, FijaFile
<1>8. Assigned(p, n) = <<f, k>>
  BY <1>3, <1>5, <1>6, <1>7 DEF Assigned
<1> QED
  BY <1>3, <1>8

\* The memory saves a page it does not have yet, or one that was accepted
Saved(p, n) ==
    /\ Savable(p, n)
    /\ n = Len(table[p]) \/ (n < Len(table[p]) /\ table[p][n + 1])

(* In files of whole chunks an accepted page is put in the file, over no page in use of a
   process that is alive but itself; with fixed assignment, in its order in the chunk. *)
LEMMA StoredPlace ==
    ASSUME Whole, StoreInv, NEW p, NEW n, Saved(p, n),
           NEW f, f = Assigned(p, n)[1], NEW i, i = Assigned(p, n)[2], f # 0
    PROVE  /\ f \in Files /\ i \in Indexes
           /\ \A g \in Files, j \in Indexes :
                entries[g][j].pid = p /\ entries[g][j].page = n => g = f /\ j = i
           /\ entries[f][i].used /\ Live(entries[f][i].pid) => Holds(f, i, p, n)
           /\ asignacion = "ASIG_FIJA" =>
                \A b \in ChunkStarts : b <= i /\ i < b + MaxFrames => n = i - b
<1>1. SwampInv /\ Savable(p, n)
  BY DEF StoreInv, Saved
<1>2. /\ f \in Files /\ i \in Slots
      /\ \A g \in Files, j \in Indexes : entries[g][j].pid = p => g = f
      /\ \A j \in Indexes : entries[f][j].pid = p /\ entries[f][j].page = n => i = j
      /\ asignacion = "ASIG_GLOBAL" =>
            /\ i \in Indexes
            /\ \/ ~entries[f][i].used
               \/ entries[f][i].pid = p /\ entries[f][i].page = n
      /\ asignacion = "ASIG_FIJA" =>
            \E b \in ChunkStarts :
               /\ b <= i /\ i < b + MaxFrames
               /\ Begun(p) => IsFirstPage(f, b, p) /\ (i = b => n = 0)
               /\ ~Begun(p) => i = b /\ ~entries[f][b].used
  BY <1>1, AssignedPlace
<1>3. /\ p \in Pids /\ Live(p) /\ n \in Nat /\ (~Begun(p) => n = 0)
      /\ n = Len(table[p]) \/ (n < Len(table[p]) /\ table[p][n + 1])
  BY Sizes DEF Saved, Savable, Live, Begun, Pages
<1>4. asignacion = "ASIG_FIJA" \/ asignacion = "ASIG_GLOBAL"
  BY <1>1 DEF SwampInv, TypeOK, Algorithms
<1>5. CASE asignacion = "ASIG_GLOBAL"
  BY <1>2, <1>5 DEF Holds
<1>6. CASE asignacion = "ASIG_FIJA"
  <2>1. PICK b \in ChunkStarts :
          /\ b <= i /\ i < b + MaxFrames
          /\ Begun(p) => IsFirstPage(f, b, p) /\ (i = b => n = 0)
          /\ ~Begun(p) => i = b /\ ~entries[f][b].used
    BY <1>2, <1>6
  <2>2. /\ b \in Nat /\ b \in Indexes /\ MaxFrames \in Nat /\ b + MaxFrames <= MaxPages
        /\ MaxPages \in Nat /\ i \in Nat
    BY <1>2, WholeChunk, Sizes DEF Slots
  <2>3. i \in Indexes
    BY <2>1, <2>2 DEF Indexes
  <2>4. n = i - b
    <3>1. CASE ~Begun(p)
      BY <1>3, <2>1, <2>2, <3>1
    <3>2. CASE Begun(p) /\ \E j \in Indexes : entries[f][j].pid = p /\ entries[f][j].page = n
      <4>1. entries[f][i].pid = p /\ entries[f][i].page = n
        BY <1>2, <3>2
      <4> QED
        BY <1>2, <1>3, <1>6, <2>1, <2>3, <4>1 DEF StoreInv, InOrder
    <3>3. CASE Begun(p) /\ ~\E j \in Indexes : entries[f][j].pid = p /\ entries[f][j].page = n
      <4>1. n = Len(table[p])
        <5>1. ASSUME n < Len(table[p]), table[p][n + 1] PROVE FALSE
          <6>0. Len(table[p]) \in Nat
            BY <1>1, <1>3 DEF SwampInv, TypeOK
          <6>1. n \in 0 .. Len(table[p]) - 1
            BY <1>3, <5>1, <6>0
          <6>2. PICK g \in Files, j \in Indexes : Holds(g, j, p, n)
            BY <1>3, <5>1, <6>1 DEF StoreInv, AcceptedKept
          <6> QED
            BY <1>2, <3>3, <6>2 DEF Holds
        <5> QED
          BY <1>3, <5>1
      <4>2. f = PidExists(p)
        <5>1. entries[f][b].pid = p
          BY <2>1, <3>3 DEF IsFirstPage
        <5> QED
          BY <1>2, <1>3, <2>2, <5>1, OneFile
      <4>3. b = GetChunk(f, p)
        <5>1. PICK d : d = GetChunk(f, p)
          OBVIOUS
        <5>2. \A j \in Indexes : IsFirstPage(f, j, p) => j = d
          BY <1>1, <1>3, <1>6, <3>3, <4>2, <5>1, ProcessChunk
        <5> QED
          BY <2>1, <2>2, <3>3, <5>1, <5>2
      <4>4. GetIndex(f, p, n) = -1
        BY <3>3, IndexFound
      <4>5. PICK offset : offset = Cardinality(PidIndexes(f, p))
        OBVIOUS
      <4>6. offset = IF n < MaxFrames THEN n ELSE MaxFrames
        BY <1>3, <1>6, <3>3, <4>1, <4>2, <4>5, AcceptedCount
      <4>7. PidExists(p) # 0
        BY <1>2, <4>2, Sizes
      <4>8. i = FijaIndex(f, p, n) /\ i # -1
        BY <1>6, <4>2, <4>7 DEF Assigned, FijaFile
      <4>9. i = b + offset /\ offset # MaxFrames
        BY <2>2, <4>3, <4>4, <4>5, <4>8 DEF FijaIndex
      <4> QED
        BY <1>3, <2>2, <4>6, <4>9
    <3> QED
      BY <3>1, <3>2, <3>3
  <2>5. \A d \in ChunkStarts : d <= i /\ i < d + MaxFrames => d = b
    BY <1>2, <2>1, SameChunk
  <2>6. ASSUME entries[f][i].used, Live(entries[f][i].pid) PROVE Holds(f, i, p, n)
    <3>1. PICK q : q = entries[f][i].pid
      OBVIOUS
    <3>2. q \in Pids /\ Live(q)
      BY <1>1, <1>2, <2>3, <2>6, <3>1 DEF SwampInv, Owned
    <3>3. PICK d \in ChunkStarts : d <= i /\ i < d + MaxFrames /\ IsFirstPage(f, d, q)
      BY <1>1, <1>2, <1>6, <2>3, <3>1, <3>2 DEF SwampInv, InChunk
    <3>4. IsFirstPage(f, b, q)
      BY <2>5, <3>3
    <3>5. q = p
      BY <2>1, <3>4 DEF IsFirstPage
    <3>6. entries[f][i].page = i - b
      BY <1>2, <1>6, <2>1, <2>3, <3>1, <3>2 DEF StoreInv, InOrder
    <3> QED
      BY <2>4, <2>6, <3>1, <3>5, <3>6 DEF Holds
  <2> QED
    BY <1>2, <2>3, <2>4, <2>5, <2>6
<1> QED
  BY <1>4, <1>5, <1>6

-----------------------------------------------------------------------------
(* What is stored of the processes that are alive *)

(* A page is stored where an entry in use of a live process is, before a step and after it. *)
LEMMA StoredIs ==
    /\ \A e : e \in Stored <=>
         \E q : \E f \in Files, i \in Indexes :
            /\ entries[f][i].used /\ entries[f][i].pid = q /\ Live(q)
            /\ e = <<q, entries[f][i].page, content[f][i]>>
    /\ \A e : e \in Stored' <=>
         \E q : \E f \in Files, i \in Indexes :
            /\ entries'[f][i].used /\ entries'[f][i].pid = q /\ Live(q)'
            /\ e = <<q, entries'[f][i].page, content'[f][i]>>
<1>1. LivePlaces = {at \in Files \X Indexes :
                      entries[at[1]][at[2]].used /\ Live(entries[at[1]][at[2]].pid)}
  BY DEF LivePlaces
<1>2. \A e : e \in Stored <=>
         \E q : \E f \in Files, i \in Indexes :
            /\ entries[f][i].used /\ entries[f][i].pid = q /\ Live(q)
            /\ e = <<q, entries[f][i].page, content[f][i]>>
  <2> TAKE e
  <2>1. ASSUME e \in Stored
        PROVE  \E q : \E f \in Files, i \in Indexes :
                  /\ entries[f][i].used /\ entries[f][i].pid = q /\ Live(q)
                  /\ e = <<q, entries[f][i].page, content[f][i]>>
    <3>1. PICK at \in LivePlaces :
            e = <<entries[at[1]][at[2]].pid, entries[at[1]][at[2]].page, content[at[1]][at[2]]>>
      BY <2>1 DEF Stored
    <3>2. at[1] \in Files /\ at[2] \in Indexes
          /\ entries[at[1]][at[2]].used /\ Live(entries[at[1]][at[2]].pid)
      BY <1>1
    <3> QED
      BY <3>1, <3>2
  <2>2. ASSUME NEW q, NEW f \in Files, NEW i \in Indexes,
               entries[f][i].used /\ entries[f][i].pid = q /\ Live(q),
               e = <<q, entries[f][i].page, content[f][i]>>
        PROVE  e \in Stored
    <3>1. <<f, i>> \in LivePlaces
      BY <1>1, <2>2
    <3> QED
      BY <2>2, <3>1 DEF Stored
  <2> QED
    BY <2>1, <2>2
<1>3. \A e : e \in Stored' <=>
         \E q : \E f \in Files, i \in Indexes :
            /\ entries'[f][i].used /\ entries'[f][i].pid = q /\ Live(q)'
            /\ e = <<q, entries'[f][i].page, content'[f][i]>>
  <2> TAKE e
  <2>0. LivePlaces' = {at \in Files \X Indexes :
           entries'[at[1]][at[2]].used /\ client'[entries'[at[1]][at[2]].pid] \in {"running", "ending"}}
    BY DEF LivePlaces, Live
  <2>1. ASSUME e \in Stored'
        PROVE  \E q : \E f \in Files, i \in Indexes :
                  /\ entries'[f][i].used /\ entries'[f][i].pid = q /\ Live(q)'
                  /\ e = <<q, entries'[f][i].page, content'[f][i]>>
    <3>1. PICK at \in LivePlaces' :
            e = <<entries'[at[1]][at[2]].pid, entries'[at[1]][at[2]].page, content'[at[1]][at[2]]>>
      BY <2>1 DEF Stored
    <3>2. at[1] \in Files /\ at[2] \in Indexes /\ entries'[at[1]][at[2]].used
          /\ client'[entries'[at[1]][at[2]].pid] \in {"running", "ending"}
      BY <2>0
    <3>3. PICK q : q = entries'[at[1]][at[2]].pid
      OBVIOUS
    <3>4. Live(q)'
      BY <3>2, <3>3 DEF Live
    <3> QED
      BY <3>1, <3>2, <3>3, <3>4
  <2>2. ASSUME NEW q, NEW f \in Files, NEW i \in Indexes,
               entries'[f][i].used /\ entries'[f][i].pid = q /\ Live(q)',
               e = <<q, entries'[f][i].page, content'[f][i]>>
        PROVE  e \in Stored'
    <3>1. <<f, i>> \in LivePlaces'
      BY <2>0, <2>2 DEF Live
    <3> QED
      BY <2>2, <3>1 DEF Stored
  <2> QED
    BY <2>1, <2>2
<1> QED
  BY <1>2, <1>3

(* What is stored of one page. *)
LEMMA StoredOf ==
    ASSUME StoreInv, NEW p \in Pids, Live(p), NEW n
    PROVE  /\ \A f \in Files, i \in Indexes :
                Holds(f, i, p, n) => Swap!Of(p, n) = {<<p, n, content[f][i]>>}
           /\ (\A f \in Files, i \in Indexes : ~Holds(f, i, p, n)) => Swap!Of(p, n) = {}
<1>1. \A e : e \in Swap!Of(p, n) <=> e \in Stored /\ e[1] = p /\ e[2] = n
  BY DEF Swap!Of
<1>2. ASSUME NEW e, e \in Swap!Of(p, n)
      PROVE  \E g \in Files, j \in Indexes : Holds(g, j, p, n) /\ e = <<p, n, content[g][j]>>
  <2>1. PICK q : \E g \in Files, j \in Indexes :
            /\ entries[g][j].used /\ entries[g][j].pid = q /\ Live(q)
            /\ e = <<q, entries[g][j].page, content[g][j]>>
    BY <1>1, <1>2, StoredIs
  <2>2. PICK g \in Files, j \in Indexes :
            /\ entries[g][j].used /\ entries[g][j].pid = q /\ Live(q)
            /\ e = <<q, entries[g][j].page, content[g][j]>>
    BY <2>1
  <2>3. q = p /\ entries[g][j].page = n
    BY <1>1, <1>2, <2>2
  <2> QED
    BY <2>2, <2>3 DEF Holds
<1>3. ASSUME NEW f \in Files, NEW i \in Indexes, Holds(f, i, p, n)
      PROVE  Swap!Of(p, n) = {<<p, n, content[f][i]>>}
  <2>1. <<p, n, content[f][i]>> \in Stored
    BY <1>3, StoredIs DEF Holds
  <2>2. <<p, n, content[f][i]>> \in Swap!Of(p, n)
    BY <1>1, <2>1
  <2>3. ASSUME NEW e, e \in Swap!Of(p, n) PROVE e = <<p, n, content[f][i]>>
    <3>1. PICK g \in Files, j \in Indexes : Holds(g, j, p, n) /\ e = <<p, n, content[g][j]>>
      BY <1>2, <2>3
    <3>2. g = f /\ j = i
      BY <1>3, <3>1 DEF StoreInv, SwampInv, OnePlace, Holds
    <3> QED
      BY <3>1, <3>2
  <2> QED
    BY <2>2, <2>3
<1> QED
  BY <1>2, <1>3

(* The swap finds the entries of a page of a process that is alive, and nothing else. *)
LEMMA PageFound ==
    ASSUME StoreInv, NEW p \in Pids, Live(p), NEW n
    PROVE  /\ \A f \in Files, i \in Indexes : Holds(f, i, p, n) =>
                PidExists(p) = f /\ IndexOf(p, n) = i /\ i # -1
           /\ (\A f \in Files, i \in Indexes : ~(entries[f][i].pid = p /\ entries[f][i].page = n)) =>
                IndexOf(p, n) = -1
<1>1. ASSUME NEW f \in Files, NEW i \in Indexes, Holds(f, i, p, n)
      PROVE  PidExists(p) = f /\ IndexOf(p, n) = i /\ i # -1
  <2>1. PidExists(p) = f /\ f # 0
    BY <1>1, OneFile, Sizes DEF Holds
  <2>2. PICK k : k = GetIndex(f, p, n)
    OBVIOUS
  <2>3. k \in Indexes /\ entries[f][k].pid = p /\ entries[f][k].page = n
    BY <1>1, <2>2, IndexFound DEF Holds
  <2>4. k = i
    BY <1>1, <2>3 DEF StoreInv, SwampInv, OnePlace, Holds
  <2> QED
    BY <2>1, <2>2, <2>4, Sizes DEF IndexOf
<1>2. ASSUME \A f \in Files, i \in Indexes : ~(entries[f][i].pid = p /\ entries[f][i].page = n)
      PROVE  IndexOf(p, n) = -1
  <2>1. PidExists(p) = 0 \/ PidExists(p) \in Files
    BY ProcessFile DEF StoreInv
  <2> QED
    BY <1>2, <2>1, IndexFound DEF IndexOf
<1> QED
  BY <1>1, <1>2

(* A page in a page table is in the swap if it was accepted, else nothing of it is. *)
LEMMA TablePage ==
    ASSUME StoreInv, NEW p \in Pids, Live(p), NEW n \in Nat, n < Len(table[p])
    PROVE  /\ table[p][n + 1] => \E f \in Files, i \in Indexes : Holds(f, i, p, n)
           /\ ~table[p][n + 1] => \A f \in Files, i \in Indexes :
                ~(entries[f][i].pid = p /\ entries[f][i].page = n)
<1>1. Len(table[p]) \in Nat
  BY DEF StoreInv, SwampInv, TypeOK
<1>2. n \in 0 .. Len(table[p]) - 1
  BY <1>1
<1> QED
  BY <1>2 DEF StoreInv, AcceptedKept, OnlyAccepted

-----------------------------------------------------------------------------
(* The petitions *)

StorePart == AcceptedKept /\ OnlyAccepted /\ InOrder /\ NoPageBeyondFile

(* A page that is saved replaces what was stored of it, and nothing else. *)
LEMMA SaveStep ==
    ASSUME Whole, StoreInv, NEW p, NEW n, Saved(p, n), NEW c \in Contents, Store(p, n, c),
           UNCHANGED <<asignacion, client>>,
           \/ n < Len(table[p]) /\ table[p][n + 1] /\ UNCHANGED table
           \/ n = Len(table[p]) /\ table' = [table EXCEPT ![p] = Append(@, TRUE)]
    PROVE  StorePart' /\ Swap!SavePage(p, n, c)
<1>1. PICK f, i : f = Assigned(p, n)[1] /\ i = Assigned(p, n)[2]
  OBVIOUS
<1>2. /\ f # 0
      /\ content' = [content EXCEPT ![f][i] = c]
      /\ entries' = [entries EXCEPT ![f][i] = [used |-> TRUE, pid |-> p, page |-> n]]
      /\ reply' = <<"SAVE_PAGE", p, n, "SWAP_OK">>
  BY <1>1 DEF Store
<1>3. /\ f \in Files /\ i \in Indexes
      /\ \A g \in Files, j \in Indexes :
           entries[g][j].pid = p /\ entries[g][j].page = n => g = f /\ j = i
      /\ entries[f][i].used /\ Live(entries[f][i].pid) => Holds(f, i, p, n)
      /\ asignacion = "ASIG_FIJA" =>
           \A b \in ChunkStarts : b <= i /\ i < b + MaxFrames => n = i - b
  BY <1>1, <1>2, StoredPlace
<1>4. p \in Pids /\ Live(p) /\ n \in Nat /\ \A q : Live(q)' <=> Live(q)
  BY Sizes DEF Saved, Savable, Live, Pages
<1>5. /\ entries \in [Files -> [Slots -> [used : BOOLEAN, pid : Pids \cup {NoPid}, page : Pages]]]
      /\ content \in [Files -> [Slots -> Contents]] /\ Indexes \subseteq Slots
      /\ table \in [Pids -> Seq(BOOLEAN)]
  BY Sizes DEF StoreInv, SwampInv, TypeOK
<1>6. /\ \A g \in Files, j \in Slots : ~(g = f /\ j = i) => entries'[g][j] = entries[g][j]
                                                            /\ content'[g][j] = content[g][j]
      /\ entries'[f][i].used /\ entries'[f][i].pid = p /\ entries'[f][i].page = n
      /\ content'[f][i] = c
  BY <1>2, <1>3, <1>5
<1>7. /\ \A q \in Pids : q # p => table'[q] = table[q]
      /\ Len(table[p]) \in Nat /\ Len(table'[p]) \in Nat
      /\ Len(table[p]) <= Len(table'[p]) /\ n < Len(table'[p]) /\ table'[p][n + 1] = TRUE
      /\ \A m \in Nat : m < Len(table'[p]) /\ m # n => m < Len(table[p])
      /\ \A m \in Nat : m < Len(table[p]) => table'[p][m + 1] = table[p][m + 1]
  <2>0. Len(table[p]) \in Nat
    BY <1>4, <1>5
  <2>1. CASE n < Len(table[p]) /\ table[p][n + 1] /\ UNCHANGED table
    <3>1. n + 1 \in 1 .. Len(table[p])
      BY <1>4, <2>0, <2>1
    <3>2. table[p][n + 1] \in BOOLEAN
      BY <1>4, <1>5, <3>1
    <3> QED
      BY <2>0, <2>1, <3>2
  <2>2. CASE n = Len(table[p]) /\ table' = [table EXCEPT ![p] = Append(@, TRUE)]
    <3>1. PICK t : t = table[p]
      OBVIOUS
    <3>2. t \in Seq(BOOLEAN) /\ n = Len(t)
      BY <1>4, <1>5, <2>2, <3>1
    <3>3. table'[p] = Append(t, TRUE) /\ \A q \in Pids : q # p => table'[q] = table[q]
      BY <1>4, <1>5, <2>2, <3>1
    <3>4. Len(Append(t, TRUE)) = n + 1 /\ Append(t, TRUE)[n + 1] = TRUE
      BY <3>2
    <3>5. ASSUME NEW m \in Nat, m < n PROVE Append(t, TRUE)[m + 1] = t[m + 1]
      <4>1. m + 1 \in 1 .. Len(t)
        BY <1>4, <3>2, <3>5
      <4> QED
        BY <3>2, <4>1, AppendProperties
    <3>6. \A m \in Nat : m < Len(table[p]) => table'[p][m + 1] = table[p][m + 1]
      BY <3>1, <3>2, <3>3, <3>5
    <3>7. Len(table'[p]) = n + 1 /\ table'[p][n + 1] = TRUE /\ Len(table[p]) = n
      BY <3>1, <3>2, <3>3, <3>4
    <3>8. \A q \in Pids : q # p => table'[q] = table[q]
      BY <3>3
    <3>9. \A m \in Nat : m < n + 1 /\ m # n => m < n
      BY <1>4
    <3> QED
      BY <1>4, <3>6, <3>7, <3>8, <3>9
  <2> QED
    BY <2>1, <2>2
<1>9. AcceptedKept'
  <2>1. ASSUME NEW q \in Pids, Live(q), NEW m \in 0 .. Len(table'[q]) - 1, table'[q][m + 1]
        PROVE  \E g \in Files, j \in Indexes :
                  entries'[g][j].used /\ entries'[g][j].pid = q /\ entries'[g][j].page = m
    <3>1. CASE q = p /\ m = n
      BY <1>3, <1>6, <3>1
    <3>2. CASE ~(q = p /\ m = n)
      <4>1. m \in 0 .. Len(table[q]) - 1 /\ table[q][m + 1]
        BY <1>7, <2>1, <3>2
      <4>2. PICK g \in Files, j \in Indexes : Holds(g, j, q, m)
        BY <2>1, <4>1 DEF StoreInv, AcceptedKept
      <4>3. ~(g = f /\ j = i)
        BY <1>3, <2>1, <3>2, <4>2 DEF Holds
      <4>4. entries'[g][j] = entries[g][j]
        BY <1>5, <1>6, <4>3
      <4> QED
        BY <4>2, <4>4 DEF Holds
    <3> QED
      BY <3>1, <3>2
  <2> QED
    BY <1>4, <2>1 DEF AcceptedKept, Holds
<1>10. OnlyAccepted'
  <2>1. ASSUME NEW q \in Pids, NEW g \in Files, NEW j \in Indexes, Live(q), entries'[g][j].pid = q
        PROVE  /\ entries'[g][j].used => entries'[g][j].page < Len(table'[q])
               /\ entries'[g][j].page < Len(table'[q]) =>
                    entries'[g][j].used /\ table'[q][entries'[g][j].page + 1]
    <3>1. CASE g = f /\ j = i
      BY <1>6, <1>7, <2>1, <3>1
    <3>2. CASE ~(g = f /\ j = i)
      <4>1. entries'[g][j] = entries[g][j]
        BY <1>5, <1>6, <3>2
      <4>2. PICK m : m = entries[g][j].page
        OBVIOUS
      <4>3. /\ entries[g][j].used => m < Len(table[q])
            /\ m < Len(table[q]) => entries[g][j].used /\ table[q][m + 1]
        BY <2>1, <4>1, <4>2 DEF StoreInv, OnlyAccepted
      <4>4. m \in Nat /\ Len(table[q]) \in Nat
        BY <1>5, <4>2, Sizes DEF Pages
      <4>5. q = p => m # n
        BY <1>3, <2>1, <3>2, <4>1, <4>2
      <4>6. /\ entries[g][j].used => m < Len(table'[q])
            /\ m < Len(table'[q]) => entries[g][j].used /\ table'[q][m + 1]
        BY <1>7, <4>3, <4>4, <4>5
      <4> QED
        BY <4>1, <4>2, <4>6
    <3> QED
      BY <3>1, <3>2
  <2> QED
    BY <1>4, <2>1 DEF OnlyAccepted
<1>11. InOrder'
  <2>1. ASSUME asignacion = "ASIG_FIJA", NEW q \in Pids, Live(q), NEW g \in Files,
               NEW b \in ChunkStarts, NEW j \in Indexes,
               b <= j, j < b + MaxFrames, entries'[g][j].pid = q
        PROVE  entries'[g][j].page = j - b
    <3>1. CASE g = f /\ j = i
      BY <1>3, <1>6, <2>1, <3>1
    <3>2. CASE ~(g = f /\ j = i)
      <4>1. entries'[g][j] = entries[g][j]
        BY <1>5, <1>6, <3>2
      <4> QED
        BY <2>1, <4>1 DEF StoreInv, InOrder
    <3> QED
      BY <3>1, <3>2
  <2>2. ASSUME asignacion = "ASIG_FIJA", NEW q \in Pids, Live(q), Begun(q)',
               NEW m \in 0 .. Len(table'[q]) - 1
        PROVE  table'[q][m + 1] <=> m < MaxFrames
    <3>1. CASE q = p /\ m = n
      <4>1. SwampInv /\ Savable(p, n)
        BY DEF StoreInv, Saved
      <4>2. PICK b \in ChunkStarts : b <= i /\ i < b + MaxFrames
        BY <1>1, <1>2, <2>2, <4>1, AssignedPlace
      <4>3. n = i - b /\ b \in Nat /\ i \in Nat /\ MaxFrames \in Nat
        BY <1>3, <2>2, <4>2, Sizes
      <4> QED
        BY <1>7, <3>1, <4>2, <4>3
    <3>2. CASE ~(q = p /\ m = n)
      <4>1. m \in 0 .. Len(table[q]) - 1 /\ table'[q][m + 1] = table[q][m + 1]
        BY <1>7, <3>2
      <4>2. Begun(q)
        <5>1. Len(table[q]) # 0 /\ 0 < Len(table[q])
          BY <4>1
        <5>2. table'[q][1] = table[q][1]
          BY <1>7, <5>1
        <5>3. table[q] # <<>>
          BY <5>1
        <5> QED
          BY <2>2, <5>2, <5>3 DEF Begun
      <4> QED
        BY <2>2, <4>1, <4>2 DEF StoreInv, InOrder
    <3> QED
      BY <3>1, <3>2
  <2>3. ChunkStarts' = ChunkStarts
    BY DEF ChunkStarts
  <2> QED
    BY <1>4, <2>1, <2>2 DEF InOrder
<1>12. NoPageBeyondFile'
  <2>1. ASSUME NEW g \in Files, NEW j \in Slots \ Indexes PROVE ~entries'[g][j].used
    <3>1. entries'[g][j] = entries[g][j]
      BY <1>3, <1>6
    <3> QED
      BY <3>1 DEF StoreInv, NoPageBeyondFile
  <2> QED
    BY <2>1 DEF NoPageBeyondFile
<1>13. Swap!SavePage(p, n, c)
  <2>1. \A e : e \in Swap!Of(p, n) <=> e \in Stored /\ e[1] = p /\ e[2] = n
    BY DEF Swap!Of
  <2>2. ASSUME NEW e, e \in Stored' PROVE e \in (Stored \ Swap!Of(p, n)) \cup {<<p, n, c>>}
    <3>1. PICK q : \E g \in Files, j \in Indexes :
              /\ entries'[g][j].used /\ entries'[g][j].pid = q /\ Live(q)'
              /\ e = <<q, entries'[g][j].page, content'[g][j]>>
      BY <2>2, StoredIs
    <3>2. PICK g \in Files, j \in Indexes :
              /\ entries'[g][j].used /\ entries'[g][j].pid = q /\ Live(q)'
              /\ e = <<q, entries'[g][j].page, content'[g][j]>>
      BY <3>1
    <3>3. CASE g = f /\ j = i
      BY <1>6, <3>2, <3>3
    <3>4. CASE ~(g = f /\ j = i)
      <4>1. entries'[g][j] = entries[g][j] /\ content'[g][j] = content[g][j]
        BY <1>5, <1>6, <3>4
      <4>2. /\ entries[g][j].used /\ entries[g][j].pid = q /\ Live(q)
            /\ e = <<q, entries[g][j].page, content[g][j]>>
        BY <1>4, <3>2, <4>1
      <4>3. e \in Stored
        BY <4>2, StoredIs
      <4>4. ~(e[1] = p /\ e[2] = n)
        BY <1>3, <3>4, <4>2
      <4> QED
        BY <2>1, <4>3, <4>4
    <3> QED
      BY <3>3, <3>4
  <2>3. <<p, n, c>> \in Stored'
    BY <1>3, <1>4, <1>6, StoredIs
  <2>4. ASSUME NEW e, e \in Stored, e \notin Swap!Of(p, n) PROVE e \in Stored'
    <3>1. PICK q : \E g \in Files, j \in Indexes :
              /\ entries[g][j].used /\ entries[g][j].pid = q /\ Live(q)
              /\ e = <<q, entries[g][j].page, content[g][j]>>
      BY <2>4, StoredIs
    <3>2. PICK g \in Files, j \in Indexes :
              /\ entries[g][j].used /\ entries[g][j].pid = q /\ Live(q)
              /\ e = <<q, entries[g][j].page, content[g][j]>>
      BY <3>1
    <3>3. ~(e[1] = p /\ e[2] = n)
      BY <2>1, <2>4
    <3>4. ~(g = f /\ j = i)
      <4>1. SUFFICES ASSUME g = f, j = i PROVE FALSE
        OBVIOUS
      <4>2. Holds(f, i, p, n)
        BY <1>3, <3>2, <4>1
      <4> QED
        BY <3>2, <3>3, <4>1, <4>2 DEF Holds
    <3>5. entries'[g][j] = entries[g][j] /\ content'[g][j] = content[g][j]
      BY <1>5, <1>6, <3>4
    <3>6. /\ entries'[g][j].used /\ entries'[g][j].pid = q /\ Live(q)'
          /\ e = <<q, entries'[g][j].page, content'[g][j]>>
      BY <1>4, <3>2, <3>5
    <3> QED
      BY <3>6, StoredIs
  <2>5. Stored' = (Stored \ Swap!Of(p, n)) \cup {<<p, n, c>>}
    BY <2>2, <2>3, <2>4
  <2> QED
    BY <1>2, <2>5 DEF Swap!SavePage
<1> QED
  BY <1>9, <1>10, <1>11, <1>12, <1>13 DEF StorePart

(* A page is refused only if nothing is stored of it. *)
LEMMA RefuseStep ==
    ASSUME StoreInv, NEW p, NEW n, Saved(p, n), Refuse(p, n),
           UNCHANGED <<asignacion, client>>,
           n = Len(table[p]) => table' = [table EXCEPT ![p] = Append(@, FALSE)]
    PROVE  StorePart' /\ Swap!RefusePage(p, n) /\ n = Len(table[p])
<1>1. SwampInv /\ Savable(p, n) /\ Assigned(p, n)[1] = 0
  BY DEF StoreInv, Saved, Refuse
<1>2. /\ UNCHANGED <<entries, content>>
      /\ reply' = <<"SAVE_PAGE", p, n, "SWAP_ERROR">>
  BY DEF Refuse, fileVars
<1>3. p \in Pids /\ Live(p) /\ n \in Nat /\ \A q : Live(q)' <=> Live(q)
  BY <1>1, Sizes DEF Savable, Live, Pages
<1>4. \A f \in Files, i \in Indexes : ~(entries[f][i].pid = p /\ entries[f][i].page = n)
  BY <1>1, RefusedAbsent
<1>5. /\ entries \in [Files -> [Slots -> [used : BOOLEAN, pid : Pids \cup {NoPid}, page : Pages]]]
      /\ Indexes \subseteq Slots /\ table \in [Pids -> Seq(BOOLEAN)]
  BY <1>1, Sizes DEF SwampInv, TypeOK
<1>6. n = Len(table[p])
  <2>1. ASSUME n < Len(table[p]), table[p][n + 1] PROVE FALSE
    <3>1. PICK f \in Files, i \in Indexes : Holds(f, i, p, n)
      BY <1>3, <2>1, TablePage
    <3> QED
      BY <1>4, <3>1 DEF Holds
  <2> QED
    BY <2>1 DEF Saved
<1>7. /\ \A q \in Pids : q # p => table'[q] = table[q]
      /\ Len(table'[p]) = n + 1 /\ table'[p][n + 1] = FALSE
      /\ \A m \in Nat : m < n => table'[p][m + 1] = table[p][m + 1]
  <2>1. PICK t : t = table[p]
    OBVIOUS
  <2>2. t \in Seq(BOOLEAN) /\ n = Len(t)
    BY <1>3, <1>5, <1>6, <2>1
  <2>3. table'[p] = Append(t, FALSE) /\ \A q \in Pids : q # p => table'[q] = table[q]
    BY <1>3, <1>5, <1>6, <2>1
  <2>4. Len(Append(t, FALSE)) = n + 1 /\ Append(t, FALSE)[n + 1] = FALSE
    BY <2>2
  <2>5. ASSUME NEW m \in Nat, m < n PROVE Append(t, FALSE)[m + 1] = t[m + 1]
    <3>1. m + 1 \in 1 .. Len(t)
      BY <1>3, <2>2, <2>5
    <3> QED
      BY <2>2, <3>1, AppendProperties
  <2> QED
    BY <2>1, <2>3, <2>4, <2>5
<1>8. AcceptedKept'
  <2>1. ASSUME NEW q \in Pids, Live(q), NEW m \in 0 .. Len(table'[q]) - 1, table'[q][m + 1]
        PROVE  \E f \in Files, i \in Indexes : Holds(f, i, q, m)
    <3>1. m \in 0 .. Len(table[q]) - 1 /\ table[q][m + 1]
      <4>1. CASE q = p
        <5>1. m \in Nat /\ m < n + 1 /\ m # n
          BY <1>3, <1>7, <2>1, <4>1
        <5> QED
          BY <1>3, <1>6, <1>7, <2>1, <4>1, <5>1
      <4>2. CASE q # p
        BY <1>7, <2>1, <4>2
      <4> QED
        BY <4>1, <4>2
    <3> QED
      BY <2>1, <3>1 DEF StoreInv, AcceptedKept
  <2>2. \A q, m : \A f \in Files, i \in Indexes : Holds(f, i, q, m)' <=> Holds(f, i, q, m)
    BY <1>2 DEF Holds
  <2> QED
    BY <1>3, <2>1, <2>2 DEF AcceptedKept
<1>9. OnlyAccepted'
  <2>1. ASSUME NEW q \in Pids, NEW f \in Files, NEW i \in Indexes, Live(q), entries[f][i].pid = q
        PROVE  /\ entries[f][i].used => entries[f][i].page < Len(table'[q])
               /\ entries[f][i].page < Len(table'[q]) =>
                    entries[f][i].used /\ table'[q][entries[f][i].page + 1]
    <3>1. PICK m : m = entries[f][i].page
      OBVIOUS
    <3>2. /\ entries[f][i].used => m < Len(table[q])
          /\ m < Len(table[q]) => entries[f][i].used /\ table[q][m + 1]
      BY <2>1, <3>1 DEF StoreInv, OnlyAccepted
    <3>3. m \in Nat /\ (q = p => m # n)
      BY <1>4, <1>5, <2>1, <3>1, Sizes DEF Pages
    <3>4. /\ entries[f][i].used => m < Len(table'[q])
          /\ m < Len(table'[q]) => entries[f][i].used /\ table'[q][m + 1]
      <4>1. CASE q = p
        BY <1>3, <1>6, <1>7, <3>2, <3>3, <4>1
      <4>2. CASE q # p
        BY <1>7, <3>2, <4>2
      <4> QED
        BY <4>1, <4>2
    <3> QED
      BY <3>1, <3>4
  <2> QED
    BY <1>2, <1>3, <2>1 DEF OnlyAccepted
<1>10. InOrder'
  <2>1. ASSUME asignacion = "ASIG_FIJA", NEW q \in Pids, Live(q), Begun(q)',
               NEW m \in 0 .. Len(table'[q]) - 1
        PROVE  table'[q][m + 1] <=> m < MaxFrames
    <3>1. CASE q = p
      <4>0. m \in Nat /\ m < n + 1
        BY <1>3, <1>7, <2>1, <3>1
      <4>1. Begun(p) /\ n # 0
        <5>1. n # 0
          BY <1>7, <2>1, <3>1 DEF Begun
        <5>2. table[p] # <<>>
          BY <1>6, <5>1
        <5> QED
          BY <1>1, <5>1, <5>2 DEF Begun, Savable
      <4>2. CASE m < n
        <5>1. m \in 0 .. Len(table[p]) - 1
          BY <1>3, <1>6, <4>0, <4>2
        <5> QED
          BY <1>3, <1>7, <2>1, <3>1, <4>0, <4>1, <4>2, <5>1 DEF StoreInv, InOrder
      <4>3. CASE m = n
        <5>1. PICK f : f = PidExists(p)
          OBVIOUS
        <5>2. f \in Files /\ f # 0
          BY <1>1, <1>3, <4>1, <5>1, ProcessFile, Sizes
        <5>3. Cardinality(PidIndexes(f, p)) = MaxFrames
          BY <1>1, <2>1, <5>1, <5>2, NoRoom
        <5>4. Cardinality(PidIndexes(f, p)) = IF n < MaxFrames THEN n ELSE MaxFrames
          BY <1>3, <1>6, <2>1, <4>1, <5>1, AcceptedCount
        <5>5. ~(n < MaxFrames)
          BY <1>3, <5>3, <5>4, Sizes
        <5> QED
          BY <1>7, <3>1, <4>3, <5>5
      <4> QED
        BY <1>3, <4>0, <4>2, <4>3
    <3>2. CASE q # p
      <4>1. table'[q] = table[q]
        BY <1>7, <3>2
      <4> QED
        BY <2>1, <4>1 DEF StoreInv, InOrder, Begun
    <3> QED
      BY <3>1, <3>2
  <2>2. ChunkStarts' = ChunkStarts
    BY DEF ChunkStarts
  <2>3. ASSUME asignacion = "ASIG_FIJA", NEW q \in Pids, Live(q), NEW g \in Files,
               NEW b \in ChunkStarts, NEW j \in Indexes,
               b <= j, j < b + MaxFrames, entries[g][j].pid = q
        PROVE  entries[g][j].page = j - b
    BY <2>3 DEF StoreInv, InOrder
  <2> QED
    BY <1>2, <1>3, <2>1, <2>2, <2>3 DEF InOrder
<1>11. NoPageBeyondFile'
  BY <1>2 DEF StoreInv, NoPageBeyondFile
<1>12. Swap!RefusePage(p, n)
  <2>1. Swap!Of(p, n) = {}
    BY <1>3, <1>4, StoredOf DEF Holds
  <2>2. UNCHANGED Stored
    BY <1>2 DEF Stored, LivePlaces, Live
  <2> QED
    BY <1>2, <2>1, <2>2 DEF Swap!RefusePage
<1> QED
  BY <1>6, <1>8, <1>9, <1>10, <1>11, <1>12 DEF StorePart

(* A page that was accepted is read as it was stored; of another the memory is told. *)
LEMMA ReadStep ==
    ASSUME StoreInv, NEW p \in Pids, Usable(p), NEW n \in Nat, n < Len(table[p]), ReadPage(p, n),
           UNCHANGED client
    PROVE  \/ \E c \in Contents : Swap!ReadPage(p, n, c)
           \/ Swap!NoSuchPage("READ_PAGE", p, n)
<1>1. Live(p) /\ UNCHANGED <<entries, content>>
  BY DEF Usable, Live, ReadPage, fileVars
<1>2. UNCHANGED Stored
  BY <1>1 DEF Stored, LivePlaces, Live
<1>3. CASE table[p][n + 1]
  <2>1. PICK f \in Files, i \in Indexes : Holds(f, i, p, n)
    BY <1>1, <1>3, TablePage
  <2>2. PidExists(p) = f /\ IndexOf(p, n) = i /\ i # -1
    BY <1>1, <2>1, PageFound
  <2>3. reply' = <<"READ_PAGE", p, n, content[f][i]>>
    BY <2>2 DEF ReadPage
  <2>4. content[f][i] \in Contents
    BY Sizes DEF StoreInv, SwampInv, TypeOK
  <2>5. Swap!Of(p, n) = {<<p, n, content[f][i]>>}
    BY <1>1, <2>1, StoredOf
  <2> QED
    BY <1>2, <2>3, <2>4, <2>5 DEF Swap!ReadPage
<1>4. CASE ~table[p][n + 1]
  <2>1. \A f \in Files, i \in Indexes : ~(entries[f][i].pid = p /\ entries[f][i].page = n)
    BY <1>1, <1>4, TablePage
  <2>2. IndexOf(p, n) = -1
    BY <1>1, <2>1, PageFound
  <2>3. Swap!Of(p, n) = {}
    BY <1>1, <2>1, StoredOf DEF Holds
  <2> QED
    BY <1>2, <2>2, <2>3 DEF ReadPage, Swap!NoSuchPage
<1> QED
  BY <1>3, <1>4

(* A page that is destroyed is not stored any more; it was the last of its process. *)
LEMMA EraseStep ==
    ASSUME StoreInv, NEW p \in Pids, Live(p), table[p] # <<>>,
           NEW n \in Pages, n = LastPage(p), DestroyPage(p, n),
           table' = [table EXCEPT ![p] = SubSeq(@, 1, Len(@) - 1)],
           UNCHANGED asignacion,
           \A q \in Pids : Live(q)' <=> Live(q) /\ (q = p => n # 0)
    PROVE  /\ StorePart'
           /\ (Swap!DestroyPage(p, n) \/ Swap!NoSuchPage("DESTROY_PAGE", p, n))
<1>1. SwampInv
  BY DEF StoreInv
<1>2. /\ entries \in [Files -> [Slots -> [used : BOOLEAN, pid : Pids \cup {NoPid}, page : Pages]]]
      /\ content \in [Files -> [Slots -> Contents]] /\ Indexes \subseteq Slots
      /\ \A q \in Pids : Len(table[q]) \in Nat
  BY <1>1, Sizes DEF SwampInv, TypeOK
<1>3. /\ \A q \in Pids : q # p => table'[q] = table[q]
      /\ n \in Nat /\ Len(table'[p]) = n
      /\ n > 0 => table'[p] # <<>> /\ table'[p][1] = table[p][1]
      /\ \A k \in 1 .. n : table'[p][k] = table[p][k]
  BY <1>1, ShorterTable
<1>4. Len(table[p]) = n + 1 /\ n < Len(table[p])
  BY <1>2 DEF LastPage
<1>5. \A q \in Pids, m \in Nat : Live(q)' /\ m < Len(table'[q]) =>
         /\ m < Len(table[q]) /\ (q = p => m # n)
         /\ table'[q][m + 1] = table[q][m + 1]
  <2>1. ASSUME NEW m \in Nat, m < n PROVE m + 1 \in 1 .. n
    BY <1>3, <2>1
  <2> QED
    BY <1>3, <1>4, <2>1
\* Pid and page stay, and what is not of the page stays in use
<1>6. /\ \A f \in Files, i \in Slots : /\ entries'[f][i].pid = entries[f][i].pid
                                       /\ entries'[f][i].page = entries[f][i].page
                                       /\ entries'[f][i].used => entries[f][i].used
      /\ \A f \in Files, i \in Indexes :
           IF entries[f][i].pid = p /\ entries[f][i].page = n
           THEN ~entries'[f][i].used
           ELSE entries'[f][i] = entries[f][i] /\ content'[f][i] = content[f][i]
      /\ Swap!Of(p, n) = {} =>
           reply' = <<"DESTROY_PAGE", p, n, "SWAP_ERROR">>
      /\ Swap!Of(p, n) # {} =>
           reply' = <<"DESTROY_PAGE", p, n, "SWAP_OK">>
  <2>1. CASE table[p][n + 1]
    <3>1. PICK f \in Files, i \in Indexes : Holds(f, i, p, n)
      BY <1>3, <1>4, <2>1, TablePage
    <3>2. PidExists(p) = f /\ IndexOf(p, n) = i /\ i # -1
      BY <3>1, PageFound
    <3>3. /\ content' = [content EXCEPT ![f][i] = Zero]
          /\ entries' = [entries EXCEPT ![f][i].used = FALSE]
          /\ reply' = <<"DESTROY_PAGE", p, n, "SWAP_OK">>
      BY <3>2 DEF DestroyPage
    <3>4. /\ \A g \in Files, j \in Slots : ~(g = f /\ j = i) =>
               entries'[g][j] = entries[g][j] /\ content'[g][j] = content[g][j]
          /\ ~entries'[f][i].used /\ entries'[f][i].pid = entries[f][i].pid
          /\ entries'[f][i].page = entries[f][i].page
      BY <1>2, <3>3
    <3>5. \A g \in Files, j \in Indexes :
            entries[g][j].pid = p /\ entries[g][j].page = n => g = f /\ j = i
      BY <1>1, <3>1 DEF SwampInv, OnePlace, Holds
    <3>6. Swap!Of(p, n) # {}
      BY <3>1, StoredOf
    <3> QED
      BY <1>2, <3>1, <3>3, <3>4, <3>5, <3>6 DEF Holds
  <2>2. CASE ~table[p][n + 1]
    <3>1. \A f \in Files, i \in Indexes : ~(entries[f][i].pid = p /\ entries[f][i].page = n)
      BY <1>3, <1>4, <2>2, TablePage
    <3>2. IndexOf(p, n) = -1
      BY <3>1, PageFound
    <3>3. UNCHANGED <<entries, content>> /\ reply' = <<"DESTROY_PAGE", p, n, "SWAP_ERROR">>
      BY <3>2 DEF DestroyPage, fileVars
    <3>4. Swap!Of(p, n) = {}
      BY <3>1, StoredOf DEF Holds
    <3> QED
      BY <3>1, <3>3, <3>4
  <2> QED
    BY <2>1, <2>2
<1>7. AcceptedKept'
  <2>1. ASSUME NEW q \in Pids, Live(q)', NEW m \in 0 .. Len(table'[q]) - 1, table'[q][m + 1]
        PROVE  \E f \in Files, i \in Indexes :
                  entries'[f][i].used /\ entries'[f][i].pid = q /\ entries'[f][i].page = m
    <3>0. m \in Nat /\ m < Len(table'[q])
      BY <1>2, <1>3, <2>1
    <3>1. /\ m < Len(table[q]) /\ (q = p => m # n) /\ table[q][m + 1] /\ Live(q)
      BY <1>5, <2>1, <3>0
    <3>2. PICK f \in Files, i \in Indexes : Holds(f, i, q, m)
      BY <3>0, <3>1, TablePage
    <3>3. entries'[f][i] = entries[f][i]
      BY <1>6, <3>1, <3>2 DEF Holds
    <3> QED
      BY <3>2, <3>3 DEF Holds
  <2> QED
    BY <2>1 DEF AcceptedKept, Holds
<1>8. OnlyAccepted'
  <2>1. ASSUME NEW q \in Pids, NEW f \in Files, NEW i \in Indexes, Live(q)', entries'[f][i].pid = q
        PROVE  /\ entries'[f][i].used => entries'[f][i].page < Len(table'[q])
               /\ entries'[f][i].page < Len(table'[q]) =>
                    entries'[f][i].used /\ table'[q][entries'[f][i].page + 1]
    <3>1. PICK m : m = entries[f][i].page
      OBVIOUS
    <3>2. m \in Nat /\ entries'[f][i].page = m /\ entries[f][i].pid = q
      BY <1>2, <1>6, <2>1, <3>1, Sizes DEF Pages
    <3>3. /\ entries[f][i].used => m < Len(table[q])
          /\ m < Len(table[q]) => entries[f][i].used /\ table[q][m + 1]
      BY <2>1, <3>1, <3>2 DEF StoreInv, OnlyAccepted
    <3>4. CASE q = p /\ m = n
      BY <1>3, <1>6, <3>1, <3>2, <3>4
    <3>5. CASE ~(q = p /\ m = n)
      <4>1. entries'[f][i].used = entries[f][i].used
        BY <1>6, <3>1, <3>2, <3>5
      <4>2. m < Len(table[q]) => m < Len(table'[q])
        BY <1>3, <1>4, <3>2, <3>5
      <4>3. m < Len(table'[q]) => m < Len(table[q]) /\ table'[q][m + 1] = table[q][m + 1]
        BY <1>5, <2>1, <3>2
      <4> QED
        BY <3>2, <3>3, <4>1, <4>2, <4>3
    <3> QED
      BY <3>4, <3>5
  <2> QED
    BY <2>1 DEF OnlyAccepted
<1>9. InOrder'
  <2>1. ASSUME asignacion = "ASIG_FIJA", NEW q \in Pids, Live(q)', Begun(q)',
               NEW m \in 0 .. Len(table'[q]) - 1
        PROVE  table'[q][m + 1] <=> m < MaxFrames
    <3>0. m \in Nat /\ m < Len(table'[q])
      BY <1>2, <1>3, <2>1
    <3>1. m \in 0 .. Len(table[q]) - 1 /\ table'[q][m + 1] = table[q][m + 1] /\ Live(q)
      BY <1>2, <1>5, <2>1, <3>0
    <3>2. Begun(q)
      <4>1. CASE q = p
        BY <1>3, <2>1, <4>1 DEF Begun
      <4>2. CASE q # p
        BY <1>3, <2>1, <4>2 DEF Begun
      <4> QED
        BY <4>1, <4>2
    <3> QED
      BY <2>1, <3>1, <3>2 DEF StoreInv, InOrder
  <2>2. ASSUME asignacion = "ASIG_FIJA", NEW q \in Pids, Live(q)', NEW g \in Files,
               NEW b \in ChunkStarts, NEW j \in Indexes,
               b <= j, j < b + MaxFrames, entries'[g][j].pid = q
        PROVE  entries'[g][j].page = j - b
    <3>1. entries[g][j].pid = q /\ entries'[g][j].page = entries[g][j].page
      BY <1>2, <1>6, <2>2
    <3> QED
      BY <2>2, <3>1 DEF StoreInv, InOrder
  <2>3. ChunkStarts' = ChunkStarts
    BY DEF ChunkStarts
  <2> QED
    BY <2>1, <2>2, <2>3 DEF InOrder
<1>10. NoPageBeyondFile'
  <2>1. ASSUME NEW g \in Files, NEW j \in Slots \ Indexes PROVE ~entries'[g][j].used
    BY <1>6 DEF StoreInv, NoPageBeyondFile
  <2> QED
    BY <2>1 DEF NoPageBeyondFile
<1>11. Stored' = Stored \ Swap!Of(p, n)
  <2>1. \A e : e \in Swap!Of(p, n) <=> e \in Stored /\ e[1] = p /\ e[2] = n
    BY DEF Swap!Of
  <2>2. ASSUME NEW e, e \in Stored' PROVE e \in Stored \ Swap!Of(p, n)
    <3>1. PICK q : \E g \in Files, j \in Indexes :
              /\ entries'[g][j].used /\ entries'[g][j].pid = q /\ Live(q)'
              /\ e = <<q, entries'[g][j].page, content'[g][j]>>
      BY <2>2, StoredIs
    <3>2. PICK g \in Files, j \in Indexes :
              /\ entries'[g][j].used /\ entries'[g][j].pid = q /\ Live(q)'
              /\ e = <<q, entries'[g][j].page, content'[g][j]>>
      BY <3>1
    <3>3. ~(q = p /\ entries'[g][j].page = n)
      BY <1>2, <1>6, <3>2
    <3>4. entries'[g][j] = entries[g][j] /\ content'[g][j] = content[g][j]
      BY <1>2, <1>6, <3>2, <3>3
    <3>5. q \in Pids
      BY <1>1, <3>2, <3>4 DEF SwampInv, Owned
    <3>6. Live(q)
      BY <3>2, <3>5
    <3>7. e \in Stored
      BY <3>2, <3>4, <3>6, StoredIs
    <3> QED
      BY <2>1, <3>2, <3>3, <3>7
  <2>3. ASSUME NEW e, e \in Stored, e \notin Swap!Of(p, n) PROVE e \in Stored'
    <3>1. PICK q : \E g \in Files, j \in Indexes :
              /\ entries[g][j].used /\ entries[g][j].pid = q /\ Live(q)
              /\ e = <<q, entries[g][j].page, content[g][j]>>
      BY <2>3, StoredIs
    <3>2. PICK g \in Files, j \in Indexes :
              /\ entries[g][j].used /\ entries[g][j].pid = q /\ Live(q)
              /\ e = <<q, entries[g][j].page, content[g][j]>>
      BY <3>1
    <3>3. ~(q = p /\ entries[g][j].page = n)
      BY <2>1, <2>3, <3>2
    <3>4. entries'[g][j] = entries[g][j] /\ content'[g][j] = content[g][j]
      BY <1>6, <3>2, <3>3
    <3>5. Live(q)'
      <4>0. q \in Pids
        BY <1>1, <3>2 DEF SwampInv, Owned
      <4>1. CASE q = p
        <5>1. entries[g][j].page \in Nat /\ entries[g][j].page < n + 1
          BY <1>2, <1>4, <3>2, <4>1, Sizes DEF StoreInv, OnlyAccepted, Pages
        <5>2. n # 0
          BY <1>3, <3>3, <4>1, <5>1
        <5> QED
          BY <3>2, <4>1, <5>2
      <4>2. CASE q # p
        BY <3>2, <4>0, <4>2
      <4> QED
        BY <4>1, <4>2
    <3> QED
      BY <3>2, <3>4, <3>5, StoredIs
  <2> QED
    BY <2>2, <2>3
<1>12. Swap!DestroyPage(p, n) \/ Swap!NoSuchPage("DESTROY_PAGE", p, n)
  <2>1. CASE Swap!Of(p, n) = {}
    <3>1. UNCHANGED Stored
      BY <1>11, <2>1
    <3> QED
      BY <1>6, <2>1, <3>1 DEF Swap!NoSuchPage
  <2>2. CASE Swap!Of(p, n) # {}
    BY <1>6, <1>11, <2>2 DEF Swap!DestroyPage
  <2> QED
    BY <2>1, <2>2
<1> QED
  BY <1>7, <1>8, <1>9, <1>10, <1>12 DEF StorePart

(* Processes that begin, end or stay, with no petition that changes the files. *)
LEMMA KeepStep ==
    ASSUME StoreInv, UNCHANGED entries,
           \A q \in Pids : Live(q)' =>
              /\ asignacion' = asignacion /\ table'[q] = table[q]
              /\ \/ Live(q)
                 \/ /\ table[q] = <<>>
                    /\ \A f \in Files, i \in Indexes : entries[f][i].pid # q
    PROVE  StorePart'
<1>1. ASSUME NEW q \in Pids, Live(q)', ~Live(q)
      PROVE  /\ Len(table'[q]) = 0 /\ ~Begun(q)'
             /\ \A f \in Files, i \in Indexes : entries'[f][i].pid # q
  BY <1>1 DEF Begun
<1>2. AcceptedKept'
  <2>1. ASSUME NEW q \in Pids, Live(q)', NEW m \in 0 .. Len(table'[q]) - 1, table'[q][m + 1]
        PROVE  \E f \in Files, i \in Indexes : Holds(f, i, q, m)'
    <3>1. Live(q)
      BY <1>1, <2>1
    <3>2. PICK f \in Files, i \in Indexes : Holds(f, i, q, m)
      BY <2>1, <3>1 DEF StoreInv, AcceptedKept
    <3> QED
      BY <3>2 DEF Holds
  <2> QED
    BY <2>1 DEF AcceptedKept
<1>3. OnlyAccepted'
  <2>1. ASSUME NEW q \in Pids, NEW f \in Files, NEW i \in Indexes, Live(q)', entries[f][i].pid = q
        PROVE  /\ entries[f][i].used => entries[f][i].page < Len(table'[q])
               /\ entries[f][i].page < Len(table'[q]) =>
                    entries[f][i].used /\ table'[q][entries[f][i].page + 1]
    <3>1. Live(q) /\ table'[q] = table[q]
      BY <1>1, <2>1
    <3> QED
      BY <2>1, <3>1 DEF StoreInv, OnlyAccepted
  <2> QED
    BY <2>1 DEF OnlyAccepted
<1>4. InOrder'
  <2>1. ASSUME asignacion' = "ASIG_FIJA", NEW q \in Pids, Live(q)', Begun(q)',
               NEW m \in 0 .. Len(table'[q]) - 1
        PROVE  table'[q][m + 1] <=> m < MaxFrames
    <3>1. Live(q) /\ table'[q] = table[q] /\ asignacion = "ASIG_FIJA" /\ Begun(q)
      BY <1>1, <2>1 DEF Begun
    <3> QED
      BY <2>1, <3>1 DEF StoreInv, InOrder
  <2>2. ASSUME asignacion' = "ASIG_FIJA", NEW q \in Pids, Live(q)', NEW g \in Files,
               NEW b \in ChunkStarts, NEW j \in Indexes,
               b <= j, j < b + MaxFrames, entries[g][j].pid = q
        PROVE  entries[g][j].page = j - b
    <3>1. Live(q) /\ asignacion = "ASIG_FIJA"
      BY <1>1, <2>2
    <3> QED
      BY <2>2, <3>1 DEF StoreInv, InOrder
  <2>3. ChunkStarts' = ChunkStarts
    BY DEF ChunkStarts
  <2> QED
    BY <2>1, <2>2, <2>3 DEF InOrder
<1>5. NoPageBeyondFile'
  BY DEF StoreInv, NoPageBeyondFile
<1> QED
  BY <1>2, <1>3, <1>4, <1>5 DEF StorePart

(* The same is stored when the processes that have entries live on. *)
LEMMA SameStored ==
    ASSUME StoreInv, UNCHANGED <<entries, content>>,
           \A q \in Pids, f \in Files, i \in Indexes :
              entries[f][i].pid = q => (Live(q)' <=> Live(q))
    PROVE  Stored' = Stored
<1>1. \A f \in Files, i \in Indexes : entries[f][i].used => entries[f][i].pid \in Pids
  BY DEF StoreInv, SwampInv, Owned
<1>2. ASSUME NEW e, e \in Stored PROVE e \in Stored'
  <2>1. PICK q : \E f \in Files, i \in Indexes :
            /\ entries[f][i].used /\ entries[f][i].pid = q /\ Live(q)
            /\ e = <<q, entries[f][i].page, content[f][i]>>
    BY <1>2, StoredIs
  <2>2. PICK f \in Files, i \in Indexes :
            /\ entries[f][i].used /\ entries[f][i].pid = q /\ Live(q)
            /\ e = <<q, entries[f][i].page, content[f][i]>>
    BY <2>1
  <2>3. q \in Pids /\ Live(q)'
    BY <1>1, <2>2
  <2> QED
    BY <2>2, <2>3, StoredIs
<1>3. ASSUME NEW e, e \in Stored' PROVE e \in Stored
  <2>1. PICK q : \E f \in Files, i \in Indexes :
            /\ entries[f][i].used /\ entries[f][i].pid = q /\ Live(q)'
            /\ e = <<q, entries[f][i].page, content[f][i]>>
    BY <1>3, StoredIs
  <2>2. PICK f \in Files, i \in Indexes :
            /\ entries[f][i].used /\ entries[f][i].pid = q /\ Live(q)'
            /\ e = <<q, entries[f][i].page, content[f][i]>>
    BY <2>1
  <2>3. q \in Pids /\ Live(q)
    BY <1>1, <2>2
  <2> QED
    BY <2>2, <2>3, StoredIs
<1> QED
  BY <1>2, <1>3

(* The files begin empty and nothing is stored in them. *)
LEMMA StoreInit == Init => StoreInv /\ Swap!Init
<1> SUFFICES ASSUME Init PROVE StoreInv /\ Swap!Init
  OBVIOUS
<1>1. SwampInv
  BY SwampInit
<1>2. \A f \in Files, i \in Slots : entries[f][i] = Unused
  BY DEF Init
<1>3. \A f \in Files, i \in Slots : ~entries[f][i].used
  BY <1>2 DEF Unused
<1>4. \A q \in Pids : ~Live(q)
  BY DEF Init, Live
<1>5. AcceptedKept /\ OnlyAccepted /\ InOrder /\ NoPageBeyondFile
  BY <1>3, <1>4 DEF AcceptedKept, OnlyAccepted, InOrder, NoPageBeyondFile
<1>6. Stored = {}
  <2>1. \A e : e \notin Stored
    BY <1>3, StoredIs, Sizes
  <2> QED
    BY <2>1
<1> QED
  BY <1>1, <1>5, <1>6 DEF StoreInv, Swap!Init, Init

(* Every step keeps the invariant and is a step of the store of pages or none. *)
LEMMA StoreNext ==
    ASSUME Whole, StoreInv, [Next]_vars
    PROVE  StoreInv' /\ [Swap!Next]_(Swap!vars)
<1>0. /\ SwampInv /\ SwampInv'
      /\ client \in [Pids -> {"new", "running", "ending", "gone"}]
      /\ table \in [Pids -> Seq(BOOLEAN)] /\ \A q \in Pids : Len(table[q]) <= MaxTable
      /\ \A q \in Pids : Len(table[q]) \in Nat
      /\ \A q \in Pids : /\ client[q] \in {"new", "gone"} => table[q] = <<>>
                         /\ client[q] = "ending" => table[q] # <<>>
  BY SwampStep DEF StoreInv, SwampInv, TypeOK, TablesMatch
<1> SUFFICES StorePart' /\ [Swap!Next]_(Swap!vars)
  BY <1>0 DEF StorePart, StoreInv
<1>1. ASSUME NEW p \in Pids, Start(p) PROVE StorePart' /\ UNCHANGED Swap!vars
  <2>1. /\ client[p] = "new" /\ client' = [client EXCEPT ![p] = "running"]
        /\ UNCHANGED <<entries, content, asignacion, table, reply>>
    BY <1>1 DEF Start, fileVars
  <2>2. /\ table[p] = <<>> /\ \A f \in Files, i \in Indexes : entries[f][i].pid # p
    BY <1>0, <2>1 DEF SwampInv, Absent
  <2>3. \A q \in Pids : Live(q)' <=> Live(q) \/ q = p
    BY <1>0, <2>1 DEF Live
  <2>4. StorePart'
    BY <2>1, <2>2, <2>3, KeepStep
  <2>5. Stored' = Stored
    <3>1. \A q \in Pids, f \in Files, i \in Indexes : entries[f][i].pid = q =>
             (Live(q)' <=> Live(q))
      BY <2>2, <2>3
    <3> QED
      BY <2>1, <3>1, SameStored
  <2> QED
    BY <2>1, <2>4, <2>5 DEF Swap!vars
<1>2. ASSUME NEW p \in Pids, EndProcess(p) PROVE StorePart' /\ UNCHANGED Swap!vars
  <2>1. /\ client[p] = "running"
        /\ client' = [client EXCEPT ![p] = IF table[p] = <<>> THEN "gone" ELSE "ending"]
        /\ UNCHANGED <<entries, content, asignacion, table, reply>>
    BY <1>2 DEF EndProcess, fileVars
  <2>2. \A q \in Pids : Live(q)' <=> Live(q) /\ (q = p => table[p] # <<>>)
    BY <1>0, <2>1 DEF Live
  <2>3. StorePart'
    BY <2>1, <2>2, KeepStep
  <2>4. table[p] = <<>> => \A f \in Files, i \in Indexes : entries[f][i].pid # p
    <3>1. Live(p)
      BY <2>1 DEF Live
    <3> QED
      BY <1>0, <3>1 DEF SwampInv, Absent, Begun
  <2>5. Stored' = Stored
    <3>1. \A q \in Pids, f \in Files, i \in Indexes : entries[f][i].pid = q =>
             (Live(q)' <=> Live(q))
      BY <2>2, <2>4
    <3> QED
      BY <2>1, <3>1, SameStored
  <2> QED
    BY <2>1, <2>3, <2>5 DEF Swap!vars
<1>3. ASSUME NEW p \in Pids, CreatePage(p) PROVE StorePart' /\ Swap!Next
  <2>1. /\ Usable(p) /\ NextPage(p) < MaxTable /\ UNCHANGED <<asignacion, client>>
        /\ \/ Store(p, NextPage(p), Zero) /\ table' = [table EXCEPT ![p] = Append(@, TRUE)]
           \/ Refuse(p, NextPage(p)) /\ table' = [table EXCEPT ![p] = Append(@, FALSE)]
    BY <1>3 DEF CreatePage
  <2>2. PICK n : n = NextPage(p)
    OBVIOUS
  <2>3. n \in Pages /\ Saved(p, n) /\ n = Len(table[p])
    <3>1. n = Len(table[p]) /\ n \in Nat /\ n < MaxTable /\ (table[p] = <<>> => n = 0)
      BY <1>0, <2>1, <2>2 DEF NextPage
    <3>2. n \in Pages
      BY <3>1, Sizes DEF Pages
    <3>3. client[p] = "running" /\ (table[p] # <<>> => table[p][1])
      BY <2>1 DEF Usable
    <3> QED
      BY <3>1, <3>2, <3>3 DEF Saved, Savable
  <2>4. Zero \in Contents
    BY SwampAssumption DEF SwampAssumption
  <2>5. CASE Store(p, n, Zero) /\ table' = [table EXCEPT ![p] = Append(@, TRUE)]
    <3>1. StorePart' /\ Swap!SavePage(p, n, Zero)
      BY <2>1, <2>3, <2>4, <2>5, SaveStep
    <3> QED
      BY <2>3, <2>4, <3>1 DEF Swap!Next
  <2>6. CASE Refuse(p, n) /\ table' = [table EXCEPT ![p] = Append(@, FALSE)]
    <3>1. StorePart' /\ Swap!RefusePage(p, n)
      BY <2>1, <2>3, <2>6, RefuseStep
    <3> QED
      BY <2>3, <3>1 DEF Swap!Next
  <2> QED
    BY <2>1, <2>2, <2>5, <2>6
<1>4. ASSUME NEW p \in Pids, NEW n \in Pages, NEW c \in Contents, WriteBack(p, n, c)
      PROVE  StorePart' /\ Swap!Next
  <2>1. /\ Usable(p) /\ n < Len(table[p]) /\ table[p][n + 1]
        /\ Store(p, n, c) \/ Refuse(p, n)
        /\ UNCHANGED <<asignacion, client, table>>
    BY <1>4 DEF WriteBack, NextPage, memoryVars
  <2>2. n \in Nat /\ Saved(p, n) /\ n # Len(table[p])
    <3>1. n \in Nat /\ (table[p] = <<>> => Len(table[p]) = 0)
      BY Sizes DEF Pages
    <3>2. client[p] = "running" /\ (table[p] # <<>> => table[p][1])
      BY <2>1 DEF Usable
    <3> QED
      BY <1>0, <2>1, <3>1, <3>2 DEF Saved, Savable
  <2>3. CASE Store(p, n, c)
    <3>1. StorePart' /\ Swap!SavePage(p, n, c)
      BY <2>1, <2>2, <2>3, SaveStep
    <3> QED
      BY <3>1 DEF Swap!Next
  <2>4. CASE Refuse(p, n)
    BY <2>1, <2>2, <2>4, RefuseStep
  <2> QED
    BY <2>1, <2>3, <2>4
<1>5. ASSUME NEW p \in Pids, NEW n \in Pages, LoadPage(p, n) PROVE StorePart' /\ Swap!Next
  <2>1. /\ Usable(p) /\ n < Len(table[p]) /\ ReadPage(p, n)
        /\ UNCHANGED <<entries, asignacion, client, table>>
    BY <1>5 DEF LoadPage, NextPage, memoryVars, ReadPage, fileVars
  <2>2. n \in Nat
    BY Sizes DEF Pages
  <2>3. \/ \E c \in Contents : Swap!ReadPage(p, n, c)
        \/ Swap!NoSuchPage("READ_PAGE", p, n)
    BY <2>1, <2>2, ReadStep
  <2>4. \A q : Live(q)' <=> Live(q)
    BY <2>1 DEF Live
  <2>5. StorePart'
    BY <2>1, <2>4, KeepStep
  <2> QED
    BY <2>3, <2>5 DEF Swap!Next
<1>6. ASSUME NEW p \in Pids, EraseLast(p) \/ EraseEnding(p) PROVE StorePart' /\ Swap!Next
  <2>1. /\ client[p] \in {"running", "ending"} /\ table[p] # <<>>
        /\ DestroyPage(p, LastPage(p)) /\ UNCHANGED asignacion
        /\ table' = [table EXCEPT ![p] = SubSeq(@, 1, Len(@) - 1)]
    <3>1. table[p] = <<>> => LastPage(p) = -1
      BY DEF LastPage
    <3> QED
      BY <1>0, <1>6, <3>1 DEF EraseLast, EraseEnding
  <2>2. \A q \in Pids : Live(q)' <=> Live(q) /\ (q = p => LastPage(p) # 0)
    <3>1. LastPage(p) \in Int
      BY <1>0 DEF LastPage
    <3>2. CASE EraseLast(p)
      <4>1. LastPage(p) > 0 /\ UNCHANGED client
        BY <3>2 DEF EraseLast
      <4> QED
        BY <3>1, <4>1 DEF Live
    <3>3. CASE EraseEnding(p)
      <4>1. /\ client[p] = "ending"
            /\ client' = [client EXCEPT ![p] = IF LastPage(p) = 0 THEN "gone" ELSE "ending"]
        BY <3>3 DEF EraseEnding
      <4> QED
        BY <1>0, <4>1 DEF Live
    <3> QED
      BY <1>6, <3>2, <3>3
  <2>3. Live(p)
    BY <2>1 DEF Live
  <2>4. PICK n : n = LastPage(p)
    OBVIOUS
  <2>5. n \in Pages
    <3>1. n = Len(table[p]) - 1 /\ Len(table[p]) # 0 /\ Len(table[p]) \in Nat
          /\ Len(table[p]) <= MaxTable
      BY <1>0, <2>1, <2>4 DEF LastPage
    <3> QED
      BY <3>1, Sizes DEF Pages
  <2>6. StorePart' /\ (Swap!DestroyPage(p, n) \/ Swap!NoSuchPage("DESTROY_PAGE", p, n))
    <3>1. /\ DestroyPage(p, n)
          /\ \A q \in Pids : Live(q)' <=> Live(q) /\ (q = p => n # 0)
      BY <2>1, <2>2, <2>4
    <3>2. /\ table[p] # <<>> /\ UNCHANGED asignacion
          /\ table' = [table EXCEPT ![p] = SubSeq(@, 1, Len(@) - 1)]
      BY <2>1
    <3> QED
      BY <2>3, <2>4, <2>5, <3>1, <3>2, EraseStep
  <2> QED
    BY <2>5, <2>6 DEF Swap!Next
<1>7. ASSUME Reconnect PROVE StorePart' /\ Swap!Next
  <2>1. /\ client' = [q \in Pids |-> IF client[q] = "new" THEN "new" ELSE "gone"]
        /\ reply' = <<>> /\ UNCHANGED entries
    BY <1>7 DEF Reconnect, fileVars
  <2>2. \A q \in Pids : ~Live(q)'
    BY <2>1 DEF Live
  <2>3. StorePart'
    BY <2>1, <2>2, KeepStep
  <2>4. Stored' = {}
    <3>1. ASSUME NEW e, e \in Stored' PROVE FALSE
      <4>1. PICK q : \E f \in Files, i \in Indexes :
              entries'[f][i].used /\ entries'[f][i].pid = q /\ Live(q)'
        BY <3>1, StoredIs
      <4>2. q \in Pids
        BY <1>0, <4>1 DEF SwampInv, Owned
      <4> QED
        BY <2>2, <4>1, <4>2
    <3> QED
      BY <3>1
  <2> QED
    BY <2>1, <2>3, <2>4 DEF Swap!Next, Swap!Forget
<1>8. ASSUME UNCHANGED vars PROVE StorePart' /\ UNCHANGED Swap!vars
  <2>1. UNCHANGED <<entries, content, asignacion, client, table, reply>>
    BY <1>8 DEF vars, fileVars, memoryVars
  <2>2. \A q : Live(q)' <=> Live(q)
    BY <2>1 DEF Live
  <2>3. StorePart'
    BY <2>1, <2>2, KeepStep
  <2>4. UNCHANGED Stored
    BY <2>1 DEF Stored, LivePlaces, Live
  <2> QED
    BY <2>1, <2>3, <2>4 DEF Swap!vars
<1> QED
  BY <1>1, <1>2, <1>3, <1>4, <1>5, <1>6, <1>7, <1>8 DEF Next

(* In files of whole chunks no page is put past the end of a file. *)
THEOREM SwampNoPageBeyondFile == Whole /\ Spec => []NoPageBeyondFile
<1>1. Whole /\ StoreInv /\ [Next]_vars => StoreInv'
  BY StoreNext
<1>2. Init => StoreInv
  BY StoreInit
<1>3. StoreInv => NoPageBeyondFile
  BY DEF StoreInv
<1>4. CASE Whole
  <2>1. StoreInv /\ [Next]_vars => StoreInv'
    BY <1>1, <1>4
  <2> QED
    BY <1>2, <1>3, <2>1, PTL DEF Spec
<1> QED
  BY <1>4

(* In files of whole chunks the swap is the store of pages that the memory expects: it gets
   back each page as it last saved it and is refused new pages only, whatever the entries
   that stay in the files, the connections and the processes that came before. *)
THEOREM SwampImplementsPageStore == Whole /\ Spec => ImplementsPageStore
<1>1. CASE Whole
  <2>1. Init => StoreInv /\ Swap!Init
    BY StoreInit
  <2>2. StoreInv /\ [Next]_vars => StoreInv' /\ [Swap!Next]_(Swap!vars)
    BY <1>1, StoreNext
  <2> QED
    BY <2>1, <2>2, PTL DEF Spec, ImplementsPageStore, Swap!Spec
<1> QED
  BY <1>1

=============================================================================
