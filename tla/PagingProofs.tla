---------------------------- MODULE PagingProofs ----------------------------
(***************************************************************************)
(* Proofs that the memory keeps each page in one place and that a page     *)
(* reads back as it was last written, for any number of processes, frames  *)
(* and pages, where threads have blocks of their own or come one at a time.*)
(***************************************************************************)
EXTENDS Paging, CommonLemmas

-----------------------------------------------------------------------------
(* The invariant *)

\* Where a thread has a page of its process in hands
Accessing == {"translate", "walk", "load", "drop", "save", "unmap", "write", "install", "use",
              "answer"}
\* Where the page is in no entry of the TLB, and where it is known not to be present
Missing == {"walk", "load", "drop", "save", "unmap", "write", "install"}
Loading == Missing \ {"walk"}
Evicting == {"drop", "save", "unmap"}
Filling == {"write", "install"}
Steps == Accessing \cup {"idle", "release", "forget"}

\* In these modes threads do not disturb each other
Apart == \A m \in Modes : m.asignacion = "fijo" \/ m.threads = 1

FrameData == [isFree : BOOLEAN, modified : BOOLEAN, u : BOOLEAN, pid : Pids \cup {NoPid},
              page : Pages]
PageEntry == [present : BOOLEAN, frame : Frames \cup {NoFrame}]
TlbEntry == [pid : Pids \cup {NoPid}, page : Pages, frame : Frames, isFree : BOOLEAN]

TypeInv ==
    /\ mode \in Modes
    /\ meta \in [Frames -> FrameData]
    /\ \A f \in Frames : meta[f].isFree \/ meta[f].pid \in Pids
    /\ recency \in Seq(Frames) /\ IsInjective(recency)
    /\ ram \in [Frames -> Contents]
    /\ table \in [Pids -> Seq(PageEntry)]
    /\ \A p \in Pids : Len(table[p]) <= MaxTable
    /\ swap \in [Pids -> [Pages -> Contents \cup {NoPage}]]
    /\ client \in [Pids -> {"new", "running", "gone"}]
    /\ frame \in [Threads -> Frames \cup {NoFrame}]
    /\ buffer \in [Threads -> Contents]
    /\ victim \in [Threads -> [pid : Pids \cup {NoPid}, page : Pages, modified : BOOLEAN]]
    /\ reply \in [Pids -> Contents \cup {NoPage}]
    /\ accesses \in 0 .. mode.accesses

\* A process has one petition, and threads are alone where the mode says so
PetitionInv ==
    /\ petition \in [Threads -> [pid : Pids \cup {NoPid}, page : Pages,
                                 op : Written \cup {Reads}]]
    /\ pc \in [Threads -> Steps]
    /\ \A t \in Threads : pc[t] = "idle" <=> petition[t].pid = NoPid
    /\ \A t, u \in Busy : petition[t].pid = petition[u].pid => t = u
    /\ mode.threads = 1 => \A t, u \in Busy : t = u

BlockInv ==
    /\ firstFrame \in [Blocks -> Pids \cup {NoPid}]
    /\ hand \in [Blocks -> Frames] /\ \A b \in Blocks : hand[b] \in RangeOf(b)
    /\ OwnBlock

\* FrameOwner, page by page and frame by frame
OwnerInv ==
    /\ \A p \in Pids, n \in Pages : Present(p, n) =>
         \E f \in Frames : FrameOf(p, n) = f /\ ~meta[f].isFree
                           /\ meta[f].pid = p /\ meta[f].page = n
    /\ \A f \in Frames :
         \/ meta[f].isFree
         \/ \E p \in Pids, n \in Pages :
              meta[f].pid = p /\ meta[f].page = n /\ Present(p, n) /\ FrameOf(p, n) = f
         \/ \E t \in Threads : frame[t] = f /\ pc[t] \in Filling

Translates(x, p, n, f) ==
    \E i \in DOMAIN x.entries :
        LET e == x.entries[i] IN ~e.isFree /\ e.pid = p /\ e.page = n /\ e.frame = f

\* The entries that are in use are in the queue, and each is the first of its page
TlbWhole(x, size) ==
    /\ x \in [entries : [1 .. size -> TlbEntry], victimQueue : Seq(1 .. size)]
    /\ \A i \in 1 .. size : ~x.entries[i].isFree =>
         /\ x.entries[i].pid \in Pids
         /\ i \in Range(x.victimQueue)
         /\ \A j \in 1 .. size :
               x.entries[j].pid = x.entries[i].pid /\ x.entries[j].page = x.entries[i].page =>
                  j = i \/ (x.entries[j].isFree /\ i < j)

TlbInv ==
    /\ TlbWhole(tlb, mode.tlbSize)
    /\ \A p \in Pids, n \in Pages, f \in Frames : Translates(tlb, p, n, f) =>
         \/ Present(p, n) /\ FrameOf(p, n) = f
         \/ \E t \in Threads : petition[t].pid = p /\ pc[t] \in {"release", "forget"}

SwapInv ==
    /\ \A p \in Pids, n \in Pages, f \in Frames :
         Present(p, n) /\ FrameOf(p, n) = f => meta[f].modified \/ ram[f] = swap[p][n]
    /\ \A p \in Pids, n \in Pages : swap[p][n] = NoPage <=> PageCount(p) <= n

InBlock(p, f) ==
    mode.asignacion = "fijo" => \E b \in Blocks : firstFrame[b] = p /\ f \in RangeOf(b)

Untranslated(p, n) == \A f \in Frames : ~Translates(tlb, p, n, f)

\* What a thread that looks for page n of p counts on
PageInv(t, p, n, f) ==
    /\ pc[t] \in Accessing => n < PageCount(p)
    /\ pc[t] \in Missing => Untranslated(p, n)
    /\ pc[t] \in Loading => ~Present(p, n)
    /\ pc[t] \in Loading \cup {"use"} /\ f \in Frames => InBlock(p, f)
    /\ pc[t] \in Filling => \A q \in Pids, m \in Pages : ~(Present(q, m) /\ FrameOf(q, m) = f)
    /\ pc[t] \in Evicting \cup {"write"} => buffer[t] = swap[p][n]
    /\ pc[t] = "install" => ram[f] = swap[p][n]
    /\ pc[t] = "use" => Present(p, n) /\ FrameOf(p, n) = f
    /\ pc[t] = "release" => \A m \in Pages : ~Present(p, m)

\* and on page m of q, that it replaces
VictimInv(t, q, m, f) ==
    /\ pc[t] \in Evicting =>
         Present(q, m) /\ FrameOf(q, m) = f /\ meta[f].modified = victim[t].modified
    /\ pc[t] \in {"save", "unmap"} => Untranslated(q, m)
    /\ pc[t] = "unmap" => swap[q][m] = ram[f]

ThreadInv(t) ==
    /\ pc[t] \in Evicting \cup Filling \cup {"use"} => frame[t] \in Frames
    /\ pc[t] \in Evicting => victim[t].pid \in Pids
    /\ \A f \in Frames \cup {NoFrame} : frame[t] = f =>
         /\ \A p \in Pids, n \in Pages :
              petition[t].pid = p /\ petition[t].page = n => PageInv(t, p, n, f)
         /\ \A q \in Pids, m \in Pages :
              victim[t].pid = q /\ victim[t].page = m => VictimInv(t, q, m, f)

ThreadsInv == \A t \in Threads : ThreadInv(t)

Inv == TypeInv /\ PetitionInv /\ BlockInv /\ OwnerInv /\ TlbInv /\ SwapInv /\ ThreadsInv

-----------------------------------------------------------------------------
(* The TLB *)

(* The sets of frames and pages. *)
LEMMA Sizes ==
    /\ NumFrames \in Nat \ {0} /\ MaxTable \in Nat \ {0} /\ 0 \in Pages /\ 0 \in Frames
    /\ Frames \subseteq Nat /\ Pages \subseteq Nat /\ NoFrame \notin Frames
BY PagingAssumption DEF PagingAssumption, Frames, Pages, NoFrame

(* The TLB is whole when it is created, and answers nothing. *)
LEMMA TlbCreated ==
    ASSUME NEW size \in Nat \ {0}
    PROVE  /\ TlbWhole(CreateTLB(size), size)
           /\ \A p, n, f : ~Translates(CreateTLB(size), p, n, f)
BY Sizes, EmptySeq DEF CreateTLB, TlbWhole, Translates, TlbEntry

(* Moving one entry to the end of the queue keeps the entries that are in it. *)
LEMMA MovedToEnd ==
    ASSUME NEW S, NEW s \in Seq(S), NEW e \in S
    PROVE  /\ MoveToEnd(s, e) \in Seq(S)
           /\ Range(s) \subseteq Range(MoveToEnd(s, e))
           /\ IsInjective(s) => IsInjective(MoveToEnd(s, e))
<1>1. RemoveFirst(s, e) \in Seq(S)
  BY RemoveFirstSeq
<1>2. Range(s) \subseteq Range(RemoveFirst(s, e)) \cup {e}
  <2>1. CASE \E i \in 1 .. Len(s) : s[i] = e
    <3>1. PICK k \in 1 .. Len(s) : s[k] = e /\ RemoveFirst(s, e) = RemoveAt(s, k)
      BY <2>1, RemoveFirstEntry, LenProperties
    <3> DEFINE t == RemoveAt(s, k)
    <3>2. /\ Len(s) \in Nat /\ DOMAIN s = 1 .. Len(s) /\ DOMAIN t = 1 .. Len(s) - 1
          /\ \A i \in 1 .. Len(s) - 1 : t[i] = IF i < k THEN s[i] ELSE s[i + 1]
      BY WithoutEntry, LenProperties
    <3> HIDE DEF t
    <3>3. ASSUME NEW i \in 1 .. Len(s), i # k PROVE \E j \in 1 .. Len(s) - 1 : t[j] = s[i]
      <4>1. CASE i < k
        <5>1. i \in 1 .. Len(s) - 1 /\ t[i] = s[i]
          BY <3>2, <4>1
        <5> QED
          BY <5>1
      <4>2. CASE i > k
        <5>1. i - 1 \in 1 .. Len(s) - 1 /\ t[i - 1] = s[i]
          BY <3>2, <4>2
        <5> QED
          BY <5>1
      <4> QED
        BY <3>2, <3>3, <4>1, <4>2
    <3> QED
      BY <3>1, <3>2, <3>3 DEF t, Range
  <2>2. CASE ~ \E i \in 1 .. Len(s) : s[i] = e
    BY <2>2 DEF RemoveFirst
  <2> QED
    BY <2>1, <2>2
<1>3. IsInjective(s) => IsInjective(RemoveFirst(s, e)) /\ e \notin Range(RemoveFirst(s, e))
  BY RemoveFirstRange
<1> QED
  BY <1>1, <1>2, <1>3, AppendRange, AppendProperties DEF MoveToEnd

(* A page has one entry in use at most, and the lookup finds it. *)
LEMMA LiveEntry ==
    ASSUME NEW size \in Nat, NEW x, TlbWhole(x, size), NEW p, NEW n
    PROVE  \/ /\ LiveEntriesOf(x, p, n) = {} /\ GetFrame(x, p, n) = NoFrame
              /\ \A f : ~Translates(x, p, n, f)
           \/ \E i \in 1 .. size :
                /\ LiveEntriesOf(x, p, n) = {i}
                /\ GetFrame(x, p, n) \in Frames /\ Translates(x, p, n, GetFrame(x, p, n))
                /\ p \in Pids /\ n \in Pages
<1> DEFINE L == LiveEntriesOf(x, p, n)
<1>1. /\ DOMAIN x.entries = 1 .. size
      /\ \A i \in 1 .. size : i \in L <=> /\ ~x.entries[i].isFree
                                         /\ x.entries[i].pid = p /\ x.entries[i].page = n
      /\ L \subseteq 1 .. size
  BY DEF TlbWhole, LiveEntriesOf, EntriesOf
<1>2. ASSUME NEW i \in L, NEW j \in L PROVE i = j
  BY <1>1, <1>2 DEF TlbWhole
<1>3. CASE L = {}
  BY <1>1, <1>3 DEF GetFrame, Translates
<1>4. CASE L # {}
  <2>1. PICK i \in 1 .. size : L = {i}
    BY <1>1, <1>2, <1>4
  <2>2. GetFrame(x, p, n) = x.entries[i].frame
    <3>1. Max({i}) = i
      BY DEF Max
    <3> QED
      BY <2>1, <3>1 DEF GetFrame
  <2>3. x.entries[i] \in TlbEntry /\ ~x.entries[i].isFree /\ x.entries[i].pid = p
        /\ x.entries[i].page = n /\ p \in Pids
    BY <1>1, <2>1 DEF TlbWhole
  <2> QED
    BY <1>1, <2>1, <2>2, <2>3 DEF Translates, TlbEntry
<1> QED
  BY <1>3, <1>4

(* The queue after the hits on a page that has one entry, or none. *)
LEMMA OneHit ==
    ASSUME NEW q, NEW i \in Nat
    PROVE  MoveAllToEnd(q, {i}) = MoveToEnd(q, i) /\ MoveAllToEnd(q, {}) = q
<1> DEFINE Step(s, h) == IF s = {} THEN q ELSE LET y == Max(s) IN MoveToEnd(h[s \ {y}], y)
           Folds(S, h) == h = [s \in SUBSET S |-> Step(s, h)]
           g(S) == [s \in SUBSET S |-> IF s = {} THEN q ELSE MoveToEnd(q, i)]
<1>1. ASSUME NEW s \in SUBSET {i}, s # {} PROVE Max(s) = i /\ s \ {i} = {}
  <2>1. s = {i}
    BY <1>1
  <2>2. Max({i}) = i
    BY DEF Max
  <2> QED
    BY <2>1, <2>2
<1>2. ASSUME NEW S \in SUBSET {i} PROVE Folds(S, g(S))
  <2>1. ASSUME NEW s \in SUBSET S PROVE g(S)[s] = Step(s, g(S))
    <3>1. CASE s = {}
      BY <3>1
    <3>2. CASE s # {}
      <4>1. Max(s) = i /\ s \ {i} = {}
        BY <1>1, <3>2
      <4> QED
        BY <3>2, <4>1
    <3> QED
      BY <3>1, <3>2
  <2> QED
    BY <2>1
<1>3. ASSUME NEW S \in SUBSET {i}, NEW h, Folds(S, h)
      PROVE  h[S] = IF S = {} THEN q ELSE MoveToEnd(q, i)
  <2>1. h[{}] = q /\ h[S] = Step(S, h)
    BY <1>3
  <2> QED
    BY <1>1, <2>1
<1>4. ASSUME NEW S \in SUBSET {i}
      PROVE  MoveAllToEnd(q, S) = (CHOOSE h : Folds(S, h))[S]
  BY DEF MoveAllToEnd, MapThenFoldSet
<1>5. ASSUME NEW S \in SUBSET {i} PROVE Folds(S, CHOOSE h : Folds(S, h))
  BY <1>2
<1>6. ASSUME NEW S \in SUBSET {i}
      PROVE  MoveAllToEnd(q, S) = IF S = {} THEN q ELSE MoveToEnd(q, i)
  <2> DEFINE h == CHOOSE h : Folds(S, h)
  <2>1. Folds(S, h)
    BY <1>5
  <2>2. h[S] = IF S = {} THEN q ELSE MoveToEnd(q, i)
    <3> HIDE DEF h, Folds
    <3> QED
      BY <1>3, <2>1
  <2> QED
    BY <1>4, <2>2
<1>7. {i} \in SUBSET {i} /\ {} \in SUBSET {i} /\ {i} # {}
  OBVIOUS
<1> QED
  BY <1>6, <1>7

(* A hit changes the queue only. *)
LEMMA HitUpdates ==
    ASSUME NEW size \in Nat, NEW x, TlbWhole(x, size), NEW p, NEW n, NEW algorithm
    PROVE  /\ TlbWhole(UpdateVictims(x, p, n, algorithm), size)
           /\ UpdateVictims(x, p, n, algorithm).entries = x.entries
<1>1. CASE algorithm = "FIFO"
  BY <1>1 DEF UpdateVictims
<1>2. CASE algorithm # "FIFO"
  <2> DEFINE y == UpdateVictims(x, p, n, algorithm)
             s == x.victimQueue
             fold == MoveAllToEnd(s, LiveEntriesOf(x, p, n))
  <2>1. /\ s \in Seq(1 .. size) /\ x.entries \in [1 .. size -> TlbEntry]
        /\ x = [entries |-> x.entries, victimQueue |-> s]
    BY DEF TlbWhole
  <2>a. y = [x EXCEPT !.victimQueue = fold]
    BY <1>2 DEF UpdateVictims
  <2>b. y = [entries |-> x.entries, victimQueue |-> fold] /\ y.victimQueue = fold
    <3> HIDE DEF y, fold, s
    <3> QED
      BY <2>1, <2>a
  <2>2. y.victimQueue \in Seq(1 .. size) /\ Range(s) \subseteq Range(y.victimQueue)
    <3>1. CASE LiveEntriesOf(x, p, n) = {}
      <4>1. fold = s
        BY <3>1, OneHit
      <4>2. y.victimQueue = s
        BY <2>b, <4>1
      <4> QED
        BY <2>1, <4>2
    <3>2. ASSUME NEW i \in 1 .. size, LiveEntriesOf(x, p, n) = {i} 
          PROVE  y.victimQueue \in Seq(1 .. size) /\ Range(s) \subseteq Range(y.victimQueue)
      <4>1. fold = MoveToEnd(s, i)
        BY <3>2, OneHit
      <4>2. y.victimQueue = MoveToEnd(s, i)
        BY <2>b, <4>1
      <4> QED
        BY <2>1, <4>2, MovedToEnd
    <3>3. \/ LiveEntriesOf(x, p, n) = {}
          \/ \E i \in 1 .. size : LiveEntriesOf(x, p, n) = {i}
      BY LiveEntry
    <3> HIDE DEF y
    <3> QED
      BY <3>1, <3>2, <3>3
  <2>3. y = [entries |-> x.entries, victimQueue |-> y.victimQueue] /\ y.entries = x.entries
    <3> HIDE DEF y, fold
    <3> QED
      BY <2>b
  <2> HIDE DEF y, s
  <2>4. TlbWhole(y, size)
    BY <2>1, <2>2, <2>3 DEF TlbWhole, s
  <2> QED
    BY <2>3, <2>4 DEF y
<1> QED
  BY <1>1, <1>2

(* Where the page has no entry in use, the new entry is the first of its page. *)
LEMMA EntryAdded ==
    ASSUME NEW size \in Nat \ {0}, NEW x, TlbWhole(x, size), NEW p \in Pids, NEW n \in Pages,
           NEW f \in Frames, \A g : ~Translates(x, p, n, g)
    PROVE  /\ TlbWhole(AddEntry(x, p, n, f), size)
           /\ \A q, m, g : Translates(AddEntry(x, p, n, f), q, m, g) =>
                 Translates(x, q, m, g) \/ (q = p /\ m = n /\ g = f)
<1> DEFINE free == FreeEntries(x)
           i == IF free # {} THEN Min(free) ELSE Head(x.victimQueue)
           queue == IF free # {} THEN x.victimQueue ELSE Tail(x.victimQueue)
           y == AddEntry(x, p, n, f)
           new == [pid |-> p, page |-> n, frame |-> f, isFree |-> FALSE]
<1>1. /\ x.entries \in [1 .. size -> TlbEntry] /\ x.victimQueue \in Seq(1 .. size)
      /\ DOMAIN x.entries = 1 .. size
      /\ free \subseteq 1 .. size /\ \A j \in 1 .. size : j \in free <=> x.entries[j].isFree
  BY DEF TlbWhole, FreeEntries
<1>a. PICK vq \in Seq(1 .. size) : vq = x.victimQueue
  BY <1>1
<1>2. /\ i \in 1 .. size /\ queue \in Seq(1 .. size)
      /\ Range(x.victimQueue) \subseteq Range(queue) \cup {i}
      /\ \A j \in free : i <= j
      /\ free # {} => i \in free
  <2>1. CASE free # {}
    BY <1>1, <2>1, MinMember
  <2>2. CASE free = {}
    <3>1. x.victimQueue # <<>>
      <4>1. 1 \in 1 .. size /\ 1 \in Range(x.victimQueue)
        BY <1>1, <2>2 DEF TlbWhole
      <4> QED
        BY <1>1, <4>1, EmptySeq DEF Range
    <3>2. vq # <<>>
      BY <1>a, <3>1
    <3>3. /\ Head(vq) \in 1 .. size /\ Tail(vq) \in Seq(1 .. size)
          /\ Range(vq) = Range(Tail(vq)) \cup {Head(vq)}
      BY <3>2, HeadTailRange
    <3>4. i = Head(vq) /\ queue = Tail(vq)
      BY <1>a, <2>2
    <3> HIDE DEF i, queue
    <3> QED
      BY <1>a, <2>2, <3>3, <3>4
  <2> QED
    BY <2>1, <2>2
<1>3. y = [entries |-> [x.entries EXCEPT ![i] = new], victimQueue |-> Append(queue, i)]
  BY DEF AddEntry
<1> HIDE DEF i, queue, free
<1>4. /\ y.victimQueue \in Seq(1 .. size) /\ Range(x.victimQueue) \subseteq Range(y.victimQueue)
      /\ i \in Range(y.victimQueue)
  <2>1. y.victimQueue = Append(queue, i)
    BY <1>3
  <2>2. Append(queue, i) \in Seq(1 .. size) /\ Range(Append(queue, i)) = Range(queue) \cup {i}
    BY <1>2, AppendRange, AppendProperties
  <2> QED
    BY <1>2, <2>1, <2>2
<1>5. /\ y.entries \in [1 .. size -> TlbEntry] /\ y.entries[i] = new
      /\ \A j \in 1 .. size : j # i => y.entries[j] = x.entries[j]
      /\ DOMAIN y.entries = 1 .. size
  BY <1>1, <1>2, <1>3 DEF TlbEntry
<1>6. \A j \in 1 .. size : x.entries[j].pid = p /\ x.entries[j].page = n => j \in free
  BY <1>1 DEF Translates
<1>7. y \in [entries : [1 .. size -> TlbEntry], victimQueue : Seq(1 .. size)]
  <2>1. y = [entries |-> y.entries, victimQueue |-> y.victimQueue]
    BY <1>3
  <2> QED
    BY <1>4, <1>5, <2>1
<1>8. ASSUME NEW k \in 1 .. size, ~y.entries[k].isFree, NEW j \in 1 .. size,
             y.entries[j].pid = y.entries[k].pid, y.entries[j].page = y.entries[k].page
      PROVE  j = k \/ (y.entries[j].isFree /\ k < j)
  <2>1. CASE k = i
    <3>1. CASE j = i
      BY <2>1, <3>1
    <3>2. CASE j # i
      <4>1. x.entries[j].pid = p /\ x.entries[j].page = n
        BY <1>5, <1>8, <2>1, <3>2
      <4>2. j \in free /\ i <= j
        BY <1>2, <1>6, <4>1
      <4>3. y.entries[j].isFree /\ i < j
        BY <1>1, <1>2, <1>5, <3>2, <4>2
      <4> QED
        BY <2>1, <4>3
    <3> QED
      BY <3>1, <3>2
  <2>2. CASE k # i
    <3>1. j # i
      BY <1>1, <1>2, <1>5, <1>6, <1>8, <2>2
    <3> QED
      BY <1>5, <1>8, <2>2, <3>1 DEF TlbWhole
  <2> QED
    BY <2>1, <2>2
<1>b. \A k \in 1 .. size : ~x.entries[k].isFree =>
         x.entries[k].pid \in Pids /\ k \in Range(x.victimQueue)
  BY DEF TlbWhole
<1>9. \A k \in 1 .. size : ~y.entries[k].isFree =>
         y.entries[k].pid \in Pids /\ k \in Range(y.victimQueue)
  <2> HIDE DEF y
  <2> SUFFICES ASSUME NEW k \in 1 .. size, ~y.entries[k].isFree
               PROVE  y.entries[k].pid \in Pids /\ k \in Range(y.victimQueue)
    OBVIOUS
  <2>1. CASE k = i
    BY <1>4, <1>5, <2>1
  <2>2. CASE k # i
    BY <1>4, <1>5, <1>b, <2>2
  <2> QED
    BY <2>1, <2>2
<1>10. TlbWhole(y, size)
  BY <1>7, <1>8, <1>9 DEF TlbWhole
<1>11. \A q, m, g : Translates(y, q, m, g) => Translates(x, q, m, g) \/ (q = p /\ m = n /\ g = f)
  BY <1>1, <1>2, <1>5 DEF Translates
<1> QED
  BY <1>10, <1>11

(* Entries that are freed keep their places. *)
LEMMA EntriesFreed ==
    ASSUME NEW size \in Nat, NEW x, TlbWhole(x, size), NEW y,
           y = [entries |-> y.entries, victimQueue |-> x.victimQueue],
           y.entries \in [1 .. size -> TlbEntry],
           \A i \in 1 .. size : /\ y.entries[i].pid = x.entries[i].pid
                                /\ y.entries[i].page = x.entries[i].page
                                /\ y.entries[i].frame = x.entries[i].frame
                                /\ x.entries[i].isFree => y.entries[i].isFree
    PROVE  /\ TlbWhole(y, size)
           /\ \A p, n, f : Translates(y, p, n, f) => Translates(x, p, n, f)
<1>1. /\ y \in [entries : [1 .. size -> TlbEntry], victimQueue : Seq(1 .. size)]
      /\ y.victimQueue = x.victimQueue
      /\ DOMAIN x.entries = 1 .. size /\ DOMAIN y.entries = 1 .. size
  BY DEF TlbWhole
<1>2. ASSUME NEW i \in 1 .. size, ~y.entries[i].isFree
      PROVE  /\ ~x.entries[i].isFree
             /\ y.entries[i].pid \in Pids /\ i \in Range(y.victimQueue)
             /\ \A j \in 1 .. size :
                   y.entries[j].pid = y.entries[i].pid /\ y.entries[j].page = y.entries[i].page =>
                      j = i \/ (y.entries[j].isFree /\ i < j)
  BY <1>1, <1>2 DEF TlbWhole
<1>3. TlbWhole(y, size)
  BY <1>1, <1>2 DEF TlbWhole
<1>4. ASSUME NEW p, NEW n, NEW f, Translates(y, p, n, f) PROVE Translates(x, p, n, f)
  BY <1>1, <1>2, <1>4 DEF Translates
<1> QED
  BY <1>3, <1>4

(* The entry that is dropped is the one in use. *)
LEMMA EntryDropped ==
    ASSUME NEW size \in Nat, NEW x, TlbWhole(x, size), NEW p, NEW n
    PROVE  /\ TlbWhole(DropEntry(x, p, n), size)
           /\ \A q, m, g : Translates(DropEntry(x, p, n), q, m, g) =>
                 Translates(x, q, m, g) /\ ~(q = p /\ m = n)
<1> DEFINE found == EntriesOf(x, p, n)
           y == DropEntry(x, p, n)
<1>1. /\ x = [entries |-> x.entries, victimQueue |-> x.victimQueue]
      /\ x.entries \in [1 .. size -> TlbEntry] /\ DOMAIN x.entries = 1 .. size
      /\ \A i \in 1 .. size : i \in found <=> x.entries[i].pid = p /\ x.entries[i].page = n
      /\ found \subseteq 1 .. size
  BY DEF TlbWhole, EntriesOf
<1>2. CASE found = {}
  BY <1>1, <1>2 DEF DropEntry, Translates
<1>3. CASE found # {}
  <2>1. Min(found) \in found /\ \A j \in found : Min(found) <= j
    BY <1>1, <1>3, MinMember
  <2>2. PICK i \in 1 .. size : i = Min(found)
    BY <1>1, <2>1
  <2>3. y = [x EXCEPT !.entries[i].isFree = TRUE]
    BY <1>3, <2>2 DEF DropEntry
  <2>4. y.entries = [x.entries EXCEPT ![i] = [@ EXCEPT !.isFree = TRUE]]
        /\ y = [entries |-> y.entries, victimQueue |-> x.victimQueue]
    BY <1>1, <2>3
  <2>5. /\ y.entries \in [1 .. size -> TlbEntry] /\ DOMAIN y.entries = 1 .. size
        /\ y.entries[i].isFree
        /\ \A j \in 1 .. size : /\ y.entries[j].pid = x.entries[j].pid
                                /\ y.entries[j].page = x.entries[j].page
                                /\ y.entries[j].frame = x.entries[j].frame
                                /\ x.entries[j].isFree => y.entries[j].isFree
    <3> PICK es \in [1 .. size -> TlbEntry] : es = x.entries
      BY <1>1
    <3> HIDE DEF y
    <3>1. y.entries = [es EXCEPT ![i] = [es[i] EXCEPT !.isFree = TRUE]]
      BY <2>4
    <3>2. es[i] \in TlbEntry
      OBVIOUS
    <3>3. PICK e \in TlbEntry : e = [es[i] EXCEPT !.isFree = TRUE]
      BY <3>2 DEF TlbEntry
    <3>4. e.isFree /\ e.pid = es[i].pid /\ e.page = es[i].page /\ e.frame = es[i].frame
      BY <3>2, <3>3 DEF TlbEntry
    <3>5. y.entries = [es EXCEPT ![i] = e]
      BY <3>1, <3>3
    <3>6. /\ y.entries \in [1 .. size -> TlbEntry] /\ y.entries[i] = e
          /\ \A j \in 1 .. size : j # i => y.entries[j] = es[j]
      BY <3>5
    <3> QED
      BY <3>4, <3>6
  <2>6. TlbWhole(y, size) /\ \A q, m, g : Translates(y, q, m, g) => Translates(x, q, m, g)
    BY <2>4, <2>5, EntriesFreed
  <2>7. \A g : ~Translates(y, p, n, g)
    <3> SUFFICES ASSUME NEW j \in 1 .. size, ~y.entries[j].isFree, y.entries[j].pid = p,
                        y.entries[j].page = n
                 PROVE  FALSE
      BY <2>5 DEF Translates
    <3>1. ~x.entries[j].isFree /\ x.entries[j].pid = p /\ x.entries[j].page = n /\ j # i
      BY <2>5
    <3>2. i \in found /\ x.entries[i].pid = p /\ x.entries[i].page = n /\ i <= j
      BY <1>1, <2>1, <2>2, <3>1
    <3>3. j < i
      BY <3>1, <3>2 DEF TlbWhole
    <3> QED
      BY <3>2, <3>3
  <2> QED
    BY <2>6, <2>7
<1> QED
  BY <1>2, <1>3

(* A process whose entries are freed has no entry in use. *)
LEMMA ProcessForgotten ==
    ASSUME NEW size \in Nat, NEW x, TlbWhole(x, size), NEW p
    PROVE  /\ TlbWhole(FreeProcessEntries(x, p), size)
           /\ \A q, m, g : Translates(FreeProcessEntries(x, p), q, m, g) =>
                 Translates(x, q, m, g) /\ q # p
<1> DEFINE y == FreeProcessEntries(x, p)
<1>1. /\ x = [entries |-> x.entries, victimQueue |-> x.victimQueue]
      /\ x.entries \in [1 .. size -> TlbEntry] /\ DOMAIN x.entries = 1 .. size
  BY DEF TlbWhole
<1> DEFINE g == [i \in 1 .. size |-> IF x.entries[i].pid = p
                                     THEN [x.entries[i] EXCEPT !.isFree = TRUE]
                                     ELSE x.entries[i]]
<1>a. y = [x EXCEPT !.entries = g]
  BY <1>1 DEF FreeProcessEntries
<1>2. /\ y = [entries |-> y.entries, victimQueue |-> x.victimQueue]
      /\ y.entries = g
  <2> HIDE DEF y, g
  <2> QED
    BY <1>1, <1>a
<1>3. /\ y.entries \in [1 .. size -> TlbEntry] /\ DOMAIN y.entries = 1 .. size
      /\ \A j \in 1 .. size : /\ y.entries[j].pid = x.entries[j].pid
                              /\ y.entries[j].page = x.entries[j].page
                              /\ y.entries[j].frame = x.entries[j].frame
                              /\ x.entries[j].isFree => y.entries[j].isFree
                              /\ x.entries[j].pid = p => y.entries[j].isFree
  <2>1. ASSUME NEW j \in 1 .. size
        PROVE  /\ g[j] \in TlbEntry /\ g[j].pid = x.entries[j].pid
               /\ g[j].page = x.entries[j].page /\ g[j].frame = x.entries[j].frame
               /\ x.entries[j].isFree => g[j].isFree
               /\ x.entries[j].pid = p => g[j].isFree
    <3> PICK e \in TlbEntry : e = x.entries[j]
      BY <1>1
    <3>1. g[j] = IF e.pid = p THEN [e EXCEPT !.isFree = TRUE] ELSE e
      OBVIOUS
    <3> HIDE DEF g
    <3> QED
      BY <3>1 DEF TlbEntry
  <2>2. DOMAIN g = 1 .. size
    OBVIOUS
  <2>3. g \in [1 .. size -> TlbEntry]
    BY <2>1
  <2> HIDE DEF g, y
  <2> QED
    BY <1>2, <2>1, <2>2, <2>3
<1> HIDE DEF y, g
<1>4. TlbWhole(y, size) /\ \A q, m, k : Translates(y, q, m, k) => Translates(x, q, m, k)
  BY <1>2, <1>3, EntriesFreed
<1>5. \A q, m, h : Translates(y, q, m, h) => q # p
  BY <1>3 DEF Translates
<1> QED
  BY <1>4, <1>5 DEF y

-----------------------------------------------------------------------------
(* Blocks and the choice of a frame *)

(* The values of a mode. *)
LEMMA ModeType ==
    ASSUME TypeInv
    PROVE  /\ mode.framesPerProcess \in Nat \ {0} /\ mode.framesPerProcess <= NumFrames
           /\ mode.asignacion \in {"fijo", "global"} /\ mode.tlbSize \in Nat \ {0}
           /\ mode.threads \in Nat \ {0} /\ mode.accesses \in Nat
<1>1. mode \in Mode
  BY PagingAssumption DEF PagingAssumption, TypeInv
<1> QED
  BY <1>1, Sizes DEF Mode

(* The frames of a block. *)
LEMMA BlockRange ==
    ASSUME TypeInv
    PROVE  /\ 0 \in Blocks /\ Blocks \subseteq Nat
           /\ \A b \in Blocks :
                \E lo \in Nat, size \in Nat \ {0} :
                    RangeOf(b) = lo .. lo + size - 1 /\ RangeOf(b) \subseteq Frames
                    /\ b * mode.framesPerProcess \in RangeOf(b)
           /\ mode.asignacion = "fijo" =>
                /\ \A b, c \in Blocks : \A f \in RangeOf(b) : f \in RangeOf(c) => b = c
                /\ \A f \in Frames : \E b \in Blocks : f \in RangeOf(b)
<1> DEFINE M == mode.framesPerProcess
<1>1. M \in Nat \ {0} /\ M <= NumFrames /\ NumFrames \in Nat
  BY ModeType, Sizes
<1>2. NumFrames \div M \in Nat /\ NumFrames = (NumFrames \div M) * M + (NumFrames % M)
      /\ NumFrames % M \in 0 .. M - 1
  BY <1>1, DivMod
<1> DEFINE K == NumFrames \div M
<1>3. Blocks = 0 .. K - 1
  BY DEF Blocks
<1> HIDE DEF M, K
<1>a. K \in Nat /\ K * M \in Nat /\ K * M <= NumFrames /\ NumFrames < K * M + M
  BY <1>1, <1>2 DEF K
<1>4. K >= 1
  <2>1. K = 0 => K * M = 0
    BY <1>1
  <2> QED
    BY <1>1, <1>a, <2>1
<1>5. ASSUME NEW b \in 0 .. K - 1 
      PROVE  b * M \in Nat /\ b * M + M <= NumFrames /\ (b + 1) * M = b * M + M
  <2>1. b \in Nat /\ b + 1 <= K
    BY <1>a
  <2>2. (b + 1) * M <= K * M
    BY <1>1, <1>a, <2>1
  <2>3. (b + 1) * M = b * M + M /\ b * M \in Nat
    BY <1>1, <2>1
  <2> QED
    BY <1>1, <1>a, <2>2, <2>3
<1>6. ASSUME NEW b \in Blocks
      PROVE  \E lo \in Nat, size \in Nat \ {0} :
                 RangeOf(b) = lo .. lo + size - 1 /\ RangeOf(b) \subseteq Frames
                 /\ b * M \in RangeOf(b)
  <2>1. PICK lo \in Nat : lo = b * M
    BY <1>3, <1>5
  <2>2. lo + M <= NumFrames /\ (b + 1) * M = lo + M
    BY <1>3, <1>5, <2>1
  <2>3. CASE mode.asignacion = "global"
    <3>1. RangeOf(b) = 0 .. NumFrames - 1
      BY <2>3 DEF RangeOf, Frames
    <3>2. lo \in 0 .. NumFrames - 1
      BY <1>1, <2>2
    <3> QED
      BY <1>1, <2>1, <3>1, <3>2 DEF Frames
  <2>4. CASE mode.asignacion # "global"
    <3>3. RangeOf(b) = b * M .. (b + 1) * M - 1
      BY <2>4 DEF RangeOf, M
    <3>4. PICK x, y : x = b * M /\ y = (b + 1) * M
      OBVIOUS
    <3>5. RangeOf(b) = x .. y - 1 /\ x = lo /\ y = lo + M
      BY <2>1, <2>2, <3>3, <3>4
    <3>1. RangeOf(b) = lo .. lo + M - 1
      BY <1>1, <3>5
    <3>2. lo .. lo + M - 1 \subseteq Frames /\ lo \in lo .. lo + M - 1
      BY <1>1, <2>2 DEF Frames
    <3> QED
      BY <1>1, <2>1, <3>1, <3>2
  <2> QED
    BY <2>3, <2>4
<1>7. ASSUME mode.asignacion = "fijo", NEW b \in Blocks, NEW c \in Blocks,
             NEW f \in RangeOf(b), f \in RangeOf(c)
      PROVE  b = c
  <2>1. RangeOf(b) = b * M .. (b + 1) * M - 1 /\ RangeOf(c) = c * M .. (c + 1) * M - 1
    BY <1>7 DEF RangeOf, M
  <2>2. PICK x \in Nat, y \in Nat : /\ x = b * M /\ y = c * M
                                    /\ (b + 1) * M = x + M /\ (c + 1) * M = y + M
    BY <1>3, <1>5
  <2>3. f \in Int /\ x <= f /\ f < x + M /\ y <= f /\ f < y + M
    BY <1>1, <1>7, <2>1, <2>2
  <2>4. x < y + M /\ y < x + M
    BY <1>1, <2>3
  <2>5. ASSUME b < c PROVE FALSE
    <3>1. b \in Nat /\ c \in Nat /\ b + 1 <= c
      BY <1>3, <2>5
    <3>2. (b + 1) * M <= c * M
      BY <1>1, <3>1
    <3> QED
      BY <1>1, <2>2, <2>4, <3>2
  <2>6. ASSUME c < b PROVE FALSE
    <3>1. b \in Nat /\ c \in Nat /\ c + 1 <= b
      BY <1>3, <2>6
    <3>2. (c + 1) * M <= b * M
      BY <1>1, <3>1
    <3> QED
      BY <1>1, <2>2, <2>4, <3>2
  <2> QED
    BY <1>3, <2>5, <2>6
<1>8. 0 \in Blocks /\ Blocks \subseteq Nat
  BY <1>3, <1>4, <1>a
<1>9. \A b \in Blocks :
         \E lo \in Nat, size \in Nat \ {0} :
             RangeOf(b) = lo .. lo + size - 1 /\ RangeOf(b) \subseteq Frames
             /\ b * mode.framesPerProcess \in RangeOf(b)
  BY <1>6 DEF M
<1>10. mode.asignacion = "fijo" =>
          \A b, c \in Blocks : \A f \in RangeOf(b) : f \in RangeOf(c) => b = c
  BY <1>7
<1>11. ASSUME mode.asignacion = "fijo", NEW f \in Frames PROVE \E b \in Blocks : f \in RangeOf(b)
  <2>1. NumFrames % M = 0
    BY PagingAssumption DEF PagingAssumption, TypeInv, M
  <2>2. NumFrames = K * M
    BY <1>1, <1>2, <1>a, <2>1 DEF K
  <2>3. f \in Nat /\ f < NumFrames
    BY <1>1 DEF Frames
  <2>4. f \div M \in Nat /\ f = (f \div M) * M + (f % M) /\ f % M \in 0 .. M - 1
    BY <1>1, <2>3, DivMod
  <2>5. PICK b \in Nat : b = f \div M
    BY <2>4
  <2>6. PICK x \in Nat : x = b * M /\ (b + 1) * M = x + M
    BY <1>1
  <2>7. x <= f /\ f < x + M
    BY <1>1, <2>3, <2>4, <2>5, <2>6
  <2>8. b < K
    <3> SUFFICES ASSUME K <= b PROVE FALSE
      BY <1>a
    <3>1. K * M <= b * M
      BY <1>1, <1>a
    <3> QED
      BY <1>1, <1>a, <2>2, <2>3, <2>6, <2>7, <3>1
  <2>9. b \in Blocks
    BY <1>3, <1>a, <2>8
  <2>10. RangeOf(b) = b * M .. (b + 1) * M - 1
    BY <1>11 DEF RangeOf, M
  <2>11. RangeOf(b) = x .. x + M - 1
    BY <1>1, <2>6, <2>10
  <2>12. f \in RangeOf(b)
    BY <1>1, <2>3, <2>7, <2>11
  <2> QED
    BY <2>9, <2>12
<1> QED
  BY <1>8, <1>9, <1>10, <1>11

(* The hand stays in its block. *)
LEMMA HandInRange ==
    ASSUME NEW lo \in Nat, NEW size \in Nat \ {0}, NEW f \in Nat
    PROVE  /\ NextHand(lo .. lo + size - 1, f) \in lo .. lo + size - 1
           /\ Cardinality(lo .. lo + size - 1) = size
<1> DEFINE R == lo .. lo + size - 1
<1>1. lo \in R /\ R \subseteq Nat
  OBVIOUS
<1>2. Min(R) = lo
  <2>1. Min(R) \in R /\ \A x \in R : Min(R) <= x
    BY <1>1, MinMember
  <2> QED
    BY <1>1, <2>1
<1>3. Cardinality(R) = size
  <2>1. lo \in Int /\ lo + size - 1 \in Int /\ lo + size - 1 >= lo
    OBVIOUS
  <2>2. PICK top \in Int : top = lo + size - 1
    BY <2>1
  <2>3. Cardinality(lo .. top) = top - lo + 1
    BY <2>1, <2>2, FS_Interval
  <2> QED
    BY <2>2, <2>3
<1>4. (f + 1) % size \in 0 .. size - 1
  OBVIOUS
<1>5. NextHand(R, f) = lo + ((f + 1) % size)
  BY <1>2, <1>3 DEF NextHand
<1> HIDE DEF R
<1> QED
  BY <1>3, <1>4, <1>5 DEF R

(* Some element of a set has the least value. *)
LEMMA LeastValue ==
    ASSUME NEW S, S # {}, NEW g, \A x \in S : g[x] \in Nat
    PROVE  \E x \in S : \A y \in S : g[x] <= g[y]
<1> DEFINE V == {g[x] : x \in S}
<1>1. V \subseteq Nat /\ V # {}
  OBVIOUS
<1>2. Min(V) \in V /\ \A v \in V : Min(V) <= v
  BY <1>1, MinMember
<1> QED
  BY <1>2

(* clock_m takes a frame of its range. *)
LEMMA ClockInRange ==
    ASSUME NEW lo \in Nat, NEW size \in Nat \ {0}, NEW h \in lo .. lo + size - 1
    PROVE  ClockVictim(lo .. lo + size - 1, h) \in lo .. lo + size - 1
<1> DEFINE R == lo .. lo + size - 1
<1>1. ASSUME NEW S \in SUBSET R, S # {} PROVE Nearest(R, h, S) \in S
  <2> DEFINE g == [f \in S |-> Distance(R, h, f)]
  <2>1. Cardinality(R) = size
    BY HandInRange
  <2>2. \A f \in S : (f - h) % size \in Nat
    OBVIOUS
  <2>3. \A f \in S : g[f] \in Nat
    BY <2>1, <2>2 DEF Distance
  <2>4. \E f \in S : \A k \in S : g[f] <= g[k]
    <3> HIDE DEF g
    <3> QED
      BY <1>1, <2>3, LeastValue
  <2>5. \E f \in S : \A k \in S : Distance(R, h, f) <= Distance(R, h, k)
    BY <2>4
  <2> QED
    BY <2>5 DEF Nearest
<1> HIDE DEF R
<1>2. h \in R
  BY DEF R
<1>3. ClockVictim(R, h) \in R
  <2> DEFINE cold == {f \in R : ~meta[f].u}
             clean == {f \in R : ~meta[f].modified}
  <2>1. /\ cold \cap clean # {} => Nearest(R, h, cold \cap clean) \in R
        /\ cold # {} => Nearest(R, h, cold) \in R
        /\ clean # {} => Nearest(R, h, clean) \in R
    <3>1. cold \in SUBSET R /\ clean \in SUBSET R /\ cold \cap clean \in SUBSET R
      OBVIOUS
    <3> HIDE DEF cold, clean
    <3> QED
      BY <1>1, <3>1
  <2>2. ClockVictim(R, h) = IF cold \cap clean # {} THEN Nearest(R, h, cold \cap clean)
                            ELSE IF cold # {} THEN Nearest(R, h, cold)
                            ELSE IF clean # {} THEN Nearest(R, h, clean) ELSE h
    BY DEF ClockVictim
  <2> HIDE DEF cold, clean
  <2> QED
    BY <1>2, <2>1, <2>2
<1> QED
  BY <1>3 DEF R

(* LRU takes a frame of its range, or none. *)
LEMMA LRUInRange ==
    ASSUME TypeInv, NEW R, R \subseteq Frames
    PROVE  LRU(R) \in R \cup {NoFrame}
<1> DEFINE older == {f \in R : Age(f) < Len(recency)}
           oldest == {f \in older : \A g \in older : Age(f) <= Age(g)}
<1>1. Frames \subseteq Nat /\ R \subseteq Nat
  BY Sizes
<1>2. \A f \in R : Age(f) \in Nat
  <2> SUFFICES ASSUME NEW f \in R PROVE Age(f) \in Nat
    OBVIOUS
  <2>1. DOMAIN recency = 1 .. Len(recency) /\ Len(recency) \in Nat
    BY LenProperties DEF TypeInv
  <2>2. f \in Range(recency) => \E i \in DOMAIN recency : recency[i] = f
    BY DEF Range
  <2>3. f \in Range(recency) => Age(f) \in DOMAIN recency
    BY <2>2 DEF Age
  <2>4. f \notin Range(recency) => Age(f) = 0
    BY DEF Age
  <2> QED
    BY <2>1, <2>3, <2>4
<1>3. older # {} => oldest # {}
  <2> SUFFICES ASSUME older # {} PROVE oldest # {}
    OBVIOUS
  <2> DEFINE age == [f \in older |-> Age(f)]
  <2>1. \A f \in older : age[f] \in Nat
    BY <1>2
  <2>2. \E f \in older : \A k \in older : age[f] <= age[k]
    <3> HIDE DEF age, older
    <3> QED
      BY <2>1, LeastValue
  <2> QED
    BY <2>2
<1>4. older # {} => Min(oldest) \in R
  <2>1. oldest \subseteq Nat /\ oldest \subseteq R
    BY <1>1
  <2> HIDE DEF oldest
  <2> QED
    BY <1>3, <2>1, MinMember
<1>5. FreeFrames(R) # {} => Min(FreeFrames(R)) \in R
  <2>1. FreeFrames(R) \subseteq R
    BY DEF FreeFrames
  <2> QED
    BY <1>1, <2>1, MinMember
<1>6. LRU(R) = IF FreeFrames(R) # {} THEN Min(FreeFrames(R))
               ELSE IF older = {} THEN NoFrame ELSE Min(oldest)
  BY DEF LRU
<1> HIDE DEF older, oldest
<1> QED
  BY <1>4, <1>5, <1>6

-----------------------------------------------------------------------------
(* Page tables *)

\* The pages of a process that are present stay where they are
SamePages(p) ==
    \A n \in Pages : /\ Present(p, n)' <=> Present(p, n)
                     /\ Present(p, n) => FrameOf(p, n)' = FrameOf(p, n)

Kept(p) == PageCount(p)' = PageCount(p) /\ SamePages(p)

(* The page tables are as they were. *)
LEMMA TablesKept == UNCHANGED table => \A p \in Pids : Kept(p)
BY DEF Kept, SamePages, PageCount, Present, FrameOf

(* A page that is present is in the table. *)
LEMMA PresentInTable ==
    ASSUME TypeInv, NEW p \in Pids
    PROVE  /\ PageCount(p) \in Nat /\ PageCount(p) <= MaxTable
           /\ \A n \in Pages : Present(p, n) => n < PageCount(p)
BY LenProperties DEF TypeInv, PageCount, Present

(* The page table of one process is replaced. *)
LEMMA TableReplaced ==
    ASSUME TypeInv, NEW p \in Pids, NEW s \in Seq(PageEntry), Len(s) <= MaxTable,
           table' = [table EXCEPT ![p] = s]
    PROVE  /\ table' \in [Pids -> Seq(PageEntry)] /\ \A q \in Pids : Len(table'[q]) <= MaxTable
           /\ \A q \in Pids : q # p => Kept(q)
           /\ PageCount(p)' = Len(s)
           /\ \A n \in Pages : /\ Present(p, n)' <=> n < Len(s) /\ s[n + 1].present
                               /\ FrameOf(p, n)' = s[n + 1].frame
<1>1. /\ table \in [Pids -> Seq(PageEntry)] /\ \A q \in Pids : Len(table[q]) <= MaxTable
  BY DEF TypeInv
<1>2. table'[p] = s /\ \A q \in Pids : q # p => table'[q] = table[q]
  BY <1>1
<1>3. table' \in [Pids -> Seq(PageEntry)] /\ \A q \in Pids : Len(table'[q]) <= MaxTable
  BY <1>1, <1>2
<1> QED
  BY <1>2, <1>3 DEF Kept, SamePages, PageCount, Present, FrameOf

(* One entry of a page table is written. *)
LEMMA EntryWritten ==
    ASSUME TypeInv, NEW p \in Pids, NEW n \in Pages, n < PageCount(p), NEW e \in PageEntry,
           table' = [table EXCEPT ![p][n + 1] = e]
    PROVE  /\ table' \in [Pids -> Seq(PageEntry)] /\ \A q \in Pids : Len(table'[q]) <= MaxTable
           /\ \A q \in Pids : q # p => Kept(q)
           /\ PageCount(p)' = PageCount(p)
           /\ Present(p, n)' <=> e.present
           /\ FrameOf(p, n)' = e.frame
           /\ \A m \in Pages : m # n => /\ Present(p, m)' <=> Present(p, m)
                                        /\ Present(p, m) => FrameOf(p, m)' = FrameOf(p, m)
<1> PICK s \in Seq(PageEntry) : s = table[p]
  BY DEF TypeInv
<1> DEFINE r == [s EXCEPT ![n + 1] = e]
<1>1. PageCount(p) = Len(s) /\ Len(s) \in Nat /\ Len(s) <= MaxTable /\ n \in Nat
  BY LenProperties, Sizes DEF PageCount, TypeInv
<1>2. n + 1 \in 1 .. Len(s)
  BY <1>1
<1>3. r \in Seq(PageEntry) /\ Len(r) = Len(s) /\ r[n + 1] = e
      /\ \A i \in 1 .. Len(s) : i # n + 1 => r[i] = s[i]
  BY <1>2, ExceptSeq
<1>4. table' = [table EXCEPT ![p] = r]
  OBVIOUS
<1> HIDE DEF r
<1>5. /\ table' \in [Pids -> Seq(PageEntry)] /\ \A q \in Pids : Len(table'[q]) <= MaxTable
      /\ \A q \in Pids : q # p => Kept(q)
      /\ PageCount(p)' = Len(r)
      /\ \A m \in Pages : /\ Present(p, m)' <=> m < Len(r) /\ r[m + 1].present
                          /\ FrameOf(p, m)' = r[m + 1].frame
  BY <1>1, <1>3, <1>4, TableReplaced
<1>6. \A m \in Pages : /\ Present(p, m) <=> m < Len(s) /\ s[m + 1].present
                       /\ FrameOf(p, m) = s[m + 1].frame
  BY DEF Present, FrameOf, PageCount
<1>7. \A m \in Pages : m < Len(s) => m + 1 \in 1 .. Len(s)
  BY <1>1, Sizes
<1>8. ASSUME NEW m \in Pages, m # n
      PROVE  /\ Present(p, m)' <=> Present(p, m)
             /\ Present(p, m) => FrameOf(p, m)' = FrameOf(p, m)
  <2>1. m < Len(s) => r[m + 1] = s[m + 1]
    <3>1. m \in Nat /\ m + 1 # n + 1
      BY <1>1, <1>8, Sizes
    <3> QED
      BY <1>3, <1>7, <3>1
  <2> QED
    BY <1>3, <1>5, <1>6, <2>1
<1> QED
  BY <1>1, <1>2, <1>3, <1>5, <1>8

-----------------------------------------------------------------------------
(* Threads do not disturb each other *)

\* The pages of a process with fixed assignment stay as they are
Quiet(p) ==
    /\ mode.asignacion = "fijo"
    /\ Kept(p)
    /\ \A n \in Pages : swap'[p][n] = swap[p][n]
    /\ \A n \in Pages, f \in Frames : Translates(tlb', p, n, f) => Translates(tlb, p, n, f)
    /\ \A b \in Blocks : firstFrame[b] = p =>
         /\ firstFrame'[b] = p
         /\ \A f \in RangeOf(b) : meta'[f].modified = meta[f].modified /\ ram'[f] = ram[f]

SameThread(t) ==
    /\ pc'[t] = pc[t] /\ petition'[t] = petition[t] /\ frame'[t] = frame[t]
    /\ buffer'[t] = buffer[t] /\ victim'[t] = victim[t]

(* The blocks depend on the mode only. *)
LEMMA SameBlocks == mode' = mode => Blocks' = Blocks /\ \A b : RangeOf(b)' = RangeOf(b)
BY DEF Blocks, RangeOf

(* With fixed assignment a page that is present is in the block of its process. *)
LEMMA PageInBlock ==
    ASSUME TypeInv, BlockInv, OwnerInv, mode.asignacion = "fijo", NEW p \in Pids, NEW n \in Pages,
           Present(p, n), NEW b \in Blocks, NEW f \in RangeOf(b), FrameOf(p, n) = f
    PROVE  firstFrame[b] = p
<1>1. f \in Frames
  BY BlockRange
<1>2. ~meta[f].isFree /\ meta[f].pid = p
  BY <1>1 DEF OwnerInv
<1> QED
  BY <1>2 DEF BlockInv, OwnBlock

(* With fixed assignment the thread of another process goes on from where it was. *)
LEMMA Undisturbed ==
    ASSUME TypeInv, PetitionInv, BlockInv, OwnerInv, TypeInv', BlockInv', OwnerInv',
           NEW u \in Threads, ThreadInv(u), mode' = mode, SameThread(u),
           pc[u] # "idle" => \A p \in Pids : petition[u].pid = p => Quiet(p)
    PROVE  ThreadInv(u)'
<1>m. Blocks' = Blocks /\ \A b : RangeOf(b)' = RangeOf(b)
  BY SameBlocks
<1>s. /\ pc'[u] = pc[u] /\ petition'[u] = petition[u] /\ frame'[u] = frame[u]
      /\ buffer'[u] = buffer[u] /\ victim'[u] = victim[u]
  BY DEF SameThread
<1>1. CASE pc[u] = "idle"
  BY <1>1, <1>s DEF ThreadInv, PageInv, VictimInv, Accessing, Missing, Loading, Evicting, Filling
<1>2. CASE pc[u] # "idle"
  <2>1. PICK p \in Pids, n \in Pages : petition[u].pid = p /\ petition[u].page = n
    BY <1>2 DEF PetitionInv
  <2>2. PICK f \in Frames \cup {NoFrame} : frame[u] = f
    BY DEF TypeInv
  <2>3. PageInv(u, p, n, f)
    BY <2>1, <2>2 DEF ThreadInv
  <2>q. Quiet(p)
    BY <1>2, <2>1
  <2>4. /\ mode.asignacion = "fijo" /\ mode'.asignacion = "fijo"
        /\ PageCount(p)' = PageCount(p)
        /\ \A m \in Pages : /\ Present(p, m)' <=> Present(p, m)
                            /\ Present(p, m) => FrameOf(p, m)' = FrameOf(p, m)
        /\ \A m \in Pages : swap'[p][m] = swap[p][m]
        /\ \A m \in Pages, g \in Frames : Translates(tlb', p, m, g) => Translates(tlb, p, m, g)
    BY <2>q DEF Quiet, Kept, SamePages
  <2>5. pc[u] \in Loading \cup {"use"} /\ f \in Frames =>
           \E b \in Blocks : firstFrame[b] = p /\ firstFrame'[b] = p /\ f \in RangeOf(b)
                             /\ f \in RangeOf(b)' /\ b \in Blocks'
                             /\ meta'[f].modified = meta[f].modified /\ ram'[f] = ram[f]
    <3> SUFFICES ASSUME pc[u] \in Loading \cup {"use"}, f \in Frames
                 PROVE  \E b \in Blocks : firstFrame[b] = p /\ firstFrame'[b] = p
                             /\ f \in RangeOf(b)
                             /\ f \in RangeOf(b)' /\ b \in Blocks'
                             /\ meta'[f].modified = meta[f].modified /\ ram'[f] = ram[f]
      OBVIOUS
    <3>1. PICK b \in Blocks : firstFrame[b] = p /\ f \in RangeOf(b)
      BY <2>3, <2>4 DEF PageInv, InBlock
    <3>2. f \in RangeOf(b)' /\ b \in Blocks'
      BY <1>m, <3>1
    <3>3. firstFrame'[b] = p /\ meta'[f].modified = meta[f].modified /\ ram'[f] = ram[f]
      BY <2>q, <3>1 DEF Quiet
    <3> QED
      BY <3>1, <3>2, <3>3
  <2>6. pc[u] \in Evicting \cup Filling \cup {"use"} => f \in Frames
    BY <2>2 DEF ThreadInv
  <2>7. Untranslated(p, n) => Untranslated(p, n)'
    BY <2>4 DEF Untranslated
  <2>8. PageInv(u, p, n, f)'
    <3>1. pc[u] \in Filling => \A q \in Pids, m \in Pages : ~(Present(q, m)' /\ FrameOf(q, m)' = f)
      <4> SUFFICES ASSUME pc[u] \in Filling, NEW q \in Pids, NEW m \in Pages, Present(q, m)',
                          FrameOf(q, m)' = f
                   PROVE  FALSE
        OBVIOUS
      <4>1. pc[u] \in Loading /\ f \in Frames
        BY <2>6 DEF Filling, Loading, Missing
      <4>2. PICK b \in Blocks : firstFrame'[b] = p /\ f \in RangeOf(b)' /\ b \in Blocks'
        BY <2>5, <4>1
      <4>3. meta'[f].pid = q /\ ~meta'[f].isFree
        BY DEF OwnerInv
      <4>4. firstFrame'[b] = q
        BY <2>4, <4>2, <4>3 DEF BlockInv, OwnBlock
      <4>5. q = p
        BY <4>2, <4>4
      <4>6. Present(p, m) /\ FrameOf(p, m) = f
        BY <2>4, <4>5
      <4> QED
        BY <2>3, <4>6 DEF PageInv
    <3>2. pc[u] \in Loading \cup {"use"} /\ f \in Frames => InBlock(p, f)'
      BY <2>5 DEF InBlock
    <3>3. pc[u] = "install" => ram'[f] = swap'[p][n]
      <4> SUFFICES ASSUME pc[u] = "install" PROVE ram'[f] = swap'[p][n]
        OBVIOUS
      <4>1. pc[u] \in Loading \cup {"use"} /\ f \in Frames
        BY <2>6 DEF Filling, Loading, Missing
      <4>2. ram'[f] = ram[f]
        BY <2>5, <4>1
      <4> QED
        BY <2>3, <2>4, <4>2 DEF PageInv
    <3>4. pc[u] = "release" => \A m \in Pages : ~Present(p, m)'
      BY <2>3, <2>4 DEF PageInv
    <3>5. pc[u] = "use" => Present(p, n)' /\ FrameOf(p, n)' = f
      BY <2>3, <2>4 DEF PageInv
    <3>6. /\ pc[u] \in Accessing => n < PageCount(p)'
          /\ pc[u] \in Missing => Untranslated(p, n)'
          /\ pc[u] \in Loading => ~Present(p, n)'
          /\ pc[u] \in Evicting \cup {"write"} => buffer[u] = swap'[p][n]
      BY <2>3, <2>4, <2>7 DEF PageInv
    <3> QED
      BY <1>s, <3>1, <3>2, <3>3, <3>4, <3>5, <3>6 DEF PageInv
  <2>9. ASSUME NEW q \in Pids, NEW m \in Pages, victim[u].pid = q, victim[u].page = m
        PROVE  VictimInv(u, q, m, f)'
    <3>1. VictimInv(u, q, m, f)
      BY <2>2, <2>9 DEF ThreadInv
    <3>2. CASE pc[u] \notin Evicting
      BY <1>s, <3>2 DEF VictimInv, Evicting
    <3>3. CASE pc[u] \in Evicting
      <4>1. pc[u] \in Loading \cup {"use"} /\ f \in Frames
        BY <2>6, <3>3 DEF Loading, Missing, Evicting
      <4>2. PICK b \in Blocks : /\ firstFrame[b] = p /\ f \in RangeOf(b)
                                /\ meta'[f].modified = meta[f].modified /\ ram'[f] = ram[f]
        BY <2>5, <4>1
      <4>3. Present(q, m) /\ FrameOf(q, m) = f
        BY <3>1, <3>3 DEF VictimInv
      <4>4. firstFrame[b] = q
        BY <2>4, <4>2, <4>3, PageInBlock
      <4>5. q = p
        BY <4>2, <4>4
      <4>6. Present(q, m)' /\ FrameOf(q, m)' = f /\ swap'[q][m] = swap[q][m]
        BY <2>4, <4>3, <4>5
      <4>7. Untranslated(q, m) => Untranslated(q, m)'
        BY <2>4, <4>5 DEF Untranslated
      <4> QED
        BY <1>s, <3>1, <4>2, <4>6, <4>7 DEF VictimInv
    <3> QED
      BY <3>2, <3>3
  <2> QED
    BY <1>s, <2>1, <2>2, <2>6, <2>8, <2>9 DEF ThreadInv
<1> QED
  BY <1>1, <1>2

(* Two threads with petitions have different processes, with fixed assignment. *)
LEMMA Others ==
    ASSUME Apart, TypeInv, PetitionInv, NEW t \in Threads, pc[t] # "idle",
           NEW u \in Threads, u # t, pc[u] # "idle"
    PROVE  mode.asignacion = "fijo" /\ petition[u].pid # petition[t].pid
<1>1. t \in Busy /\ u \in Busy
  BY DEF Busy
<1>2. mode.asignacion = "fijo" \/ mode.threads = 1
  BY DEF Apart, TypeInv
<1> QED
  BY <1>1, <1>2 DEF PetitionInv

(* A thread that takes a petition finds only others of other processes. *)
LEMMA OthersServe ==
    ASSUME Apart, TypeInv, PetitionInv, NEW t \in Threads, NEW p \in Pids, Serves(t, p),
           NEW u \in Threads, pc[u] # "idle"
    PROVE  u # t /\ mode.asignacion = "fijo" /\ petition[u].pid # p
<1>1. mode.threads # 1
  <2> SUFFICES ASSUME mode.threads = 1 PROVE FALSE
    OBVIOUS
  <2>1. Busy = {u}
    BY DEF PetitionInv, Busy
  <2>2. Cardinality({u}) = 1
    BY FS_Singleton
  <2> QED
    BY <2>1, <2>2 DEF Serves
<1>2. mode.asignacion = "fijo"
  BY <1>1 DEF Apart, TypeInv
<1> QED
  BY <1>2 DEF Serves

-----------------------------------------------------------------------------
(* What a step leaves as it was *)

Leaving == {"release", "forget"}

(* A thread goes on with its petition. *)
LEMMA PetitionGoesOn ==
    ASSUME PetitionInv, mode' = mode, NEW t \in Threads, pc[t] # "idle",
           NEW s \in Steps, s # "idle", Goes(t, s), petition' = petition
    PROVE  PetitionInv' /\ pc'[t] = s /\ \A u \in Threads : u # t => pc'[u] = pc[u]
<1>1. /\ pc' \in [Threads -> Steps] /\ pc'[t] = s
      /\ \A u \in Threads : u # t => pc'[u] = pc[u]
  BY DEF PetitionInv, Goes
<1>2. Busy' = Busy
  BY <1>1 DEF Busy
<1> QED
  BY <1>1, <1>2 DEF PetitionInv

(* A petition ends. *)
LEMMA PetitionEnds ==
    ASSUME TypeInv, PetitionInv, mode' = mode, NEW t \in Threads, pc[t] # "idle", Finish(t)
    PROVE  /\ PetitionInv' /\ pc'[t] = "idle"
           /\ frame' \in [Threads -> Frames \cup {NoFrame}] /\ buffer' \in [Threads -> Contents]
           /\ victim' \in [Threads -> [pid : Pids \cup {NoPid}, page : Pages, modified : BOOLEAN]]
           /\ \A u \in Threads : u # t => SameThread(u)
           /\ ThreadInv(t)'
<1>1. /\ pc' \in [Threads -> Steps] /\ pc'[t] = "idle"
      /\ \A u \in Threads : u # t => pc'[u] = pc[u]
  BY DEF PetitionInv, Finish, Goes, Steps
<1>2. /\ petition' = [petition EXCEPT ![t] = NoPetition] /\ petition'[t] = NoPetition
      /\ \A u \in Threads : u # t => petition'[u] = petition[u]
  BY DEF PetitionInv, Finish
<1>3. NoPetition \in [pid : Pids \cup {NoPid}, page : Pages, op : Written \cup {Reads}]
      /\ NoPetition.pid = NoPid
  BY Sizes DEF NoPetition
<1>4. petition' \in [Threads -> [pid : Pids \cup {NoPid}, page : Pages,
                                 op : Written \cup {Reads}]]
  BY <1>2, <1>3 DEF PetitionInv
<1>5. Busy' = Busy \ {t}
  BY <1>1 DEF Busy
<1>6. PetitionInv'
  BY <1>1, <1>2, <1>3, <1>4, <1>5 DEF PetitionInv
<1>7. /\ frame' \in [Threads -> Frames \cup {NoFrame}] /\ buffer' \in [Threads -> Contents]
      /\ victim' \in [Threads -> [pid : Pids \cup {NoPid}, page : Pages, modified : BOOLEAN]]
      /\ \A u \in Threads : u # t =>
            frame'[u] = frame[u] /\ buffer'[u] = buffer[u] /\ victim'[u] = victim[u]
  <2>1. Zero \in Contents
    BY PagingAssumption DEF PagingAssumption
  <2>2. NoVictim \in [pid : Pids \cup {NoPid}, page : Pages, modified : BOOLEAN]
    BY Sizes DEF NoVictim
  <2> QED
    BY <2>1, <2>2 DEF TypeInv, Finish
<1>8. ThreadInv(t)'
  BY <1>1 DEF ThreadInv, PageInv, VictimInv, Accessing, Missing, Loading, Evicting, Filling
<1> QED
  BY <1>1, <1>2, <1>6, <1>7, <1>8 DEF SameThread

(* A thread takes a petition. *)
LEMMA PetitionBegins ==
    ASSUME Apart, TypeInv, PetitionInv, mode' = mode, NEW t \in Threads, NEW p \in Pids,
           Serves(t, p), NEW s \in Steps, s # "idle", Goes(t, s),
           NEW r \in [pid : Pids \cup {NoPid}, page : Pages, op : Written \cup {Reads}],
           r.pid = p, petition' = [petition EXCEPT ![t] = r]
    PROVE  /\ PetitionInv' /\ pc[t] = "idle" /\ pc'[t] = s /\ petition'[t] = r
           /\ \A u \in Threads : u # t => pc'[u] = pc[u] /\ petition'[u] = petition[u]
<1>1. /\ pc' \in [Threads -> Steps] /\ pc'[t] = s /\ pc[t] = "idle"
      /\ \A u \in Threads : u # t => pc'[u] = pc[u]
  BY DEF PetitionInv, Goes, Serves
<1>2. /\ petition'[t] = r
      /\ petition' \in [Threads -> [pid : Pids \cup {NoPid}, page : Pages,
                                    op : Written \cup {Reads}]]
      /\ \A u \in Threads : u # t => petition'[u] = petition[u]
  BY DEF PetitionInv
<1>3. p # NoPid
  BY PagingAssumption DEF PagingAssumption
<1>4. \A u \in Threads : pc[u] # "idle" =>
         u # t /\ mode.asignacion = "fijo" /\ petition[u].pid # p
  BY OthersServe
<1>5. \A u \in Threads : u \in Busy' <=> u = t \/ u \in Busy
  BY <1>1 DEF Busy
<1>6. Busy' \subseteq Threads /\ Busy \subseteq Threads
  BY DEF Busy
<1>7. ASSUME NEW u \in Busy, NEW v \in Busy' PROVE u # t /\ petition[u].pid # p /\ pc[u] # "idle"
  BY <1>4, <1>6 DEF Busy
<1>8. \A u, v \in Busy' : petition'[u].pid = petition'[v].pid => u = v
  <2> SUFFICES ASSUME NEW u \in Busy', NEW v \in Busy', petition'[u].pid = petition'[v].pid
               PROVE  u = v
    OBVIOUS
  <2>1. u \in Threads /\ v \in Threads
    BY <1>6
  <2>2. CASE u = t \/ v = t
    BY <1>2, <1>5, <1>7, <2>1, <2>2
  <2>3. CASE u # t /\ v # t
    BY <1>2, <1>5, <2>1, <2>3 DEF PetitionInv
  <2> QED
    BY <2>2, <2>3
<1>9. mode'.threads = 1 => \A u, v \in Busy' : u = v
  <2> SUFFICES ASSUME mode.threads = 1 PROVE Busy = {}
    BY <1>5, <1>6
  <2>1. ASSUME NEW u \in Busy PROVE FALSE
    <3>1. Busy = {u} /\ u \in Threads
      BY <2>1 DEF PetitionInv, Busy
    <3>2. Cardinality({u}) = 1
      BY FS_Singleton
    <3> QED
      BY <3>1, <3>2 DEF Serves
  <2> QED
    BY <2>1
<1>10. \A u \in Threads : pc'[u] = "idle" <=> petition'[u].pid = NoPid
  BY <1>1, <1>2, <1>3 DEF PetitionInv
<1> QED
  BY <1>1, <1>2, <1>8, <1>9, <1>10 DEF PetitionInv

(* No petition begins or ends. *)
LEMMA PetitionsKept ==
    PetitionInv /\ UNCHANGED <<mode, threadVars>> => PetitionInv' /\ \A u \in Threads : SameThread(u)
BY DEF threadVars, PetitionInv, Busy, SameThread

(* The blocks keep their owners. *)
LEMMA BlocksKept ==
    ASSUME BlockInv, mode' = mode, firstFrame' = firstFrame, hand' = hand, TypeInv,
           \A f \in Frames : meta'[f].isFree \/ (~meta[f].isFree /\ meta'[f].pid = meta[f].pid)
    PROVE  BlockInv'
<1>1. Blocks' = Blocks /\ \A b : RangeOf(b)' = RangeOf(b)
  BY SameBlocks
<1>2. \A b \in Blocks : RangeOf(b) \subseteq Frames
  BY BlockRange
<1>3. firstFrame' \in [Blocks' -> Pids \cup {NoPid}] /\ hand' \in [Blocks' -> Frames]
      /\ \A b \in Blocks' : hand'[b] \in RangeOf(b)'
  BY <1>1 DEF BlockInv
<1>4. mode.asignacion = "fijo" =>
        /\ \A b, c \in Blocks : firstFrame[b] = firstFrame[c] => b = c \/ firstFrame[b] = NoPid
        /\ \A b \in Blocks : \A f \in RangeOf(b) : meta[f].isFree \/ firstFrame[b] = meta[f].pid
  BY DEF BlockInv, OwnBlock
<1>5. mode'.asignacion = "fijo" =>
        /\ \A b, c \in Blocks' : firstFrame'[b] = firstFrame'[c] => b = c \/ firstFrame'[b] = NoPid
        /\ \A b \in Blocks' : \A f \in RangeOf(b)' : meta'[f].isFree \/ firstFrame'[b] = meta'[f].pid
  BY <1>1, <1>2, <1>4
<1> QED
  BY <1>3, <1>5 DEF BlockInv, OwnBlock

(* The pages keep their frames, and the frames their pages. *)
LEMMA OwnersKept ==
    ASSUME OwnerInv, \A p \in Pids : SamePages(p),
           \A f \in Frames : /\ meta'[f].isFree = meta[f].isFree /\ meta'[f].pid = meta[f].pid
                             /\ meta'[f].page = meta[f].page,
           \A u \in Threads : pc[u] \in Filling => pc'[u] \in Filling /\ frame'[u] = frame[u]
    PROVE  OwnerInv'
<1>1. \A p \in Pids, n \in Pages : /\ Present(p, n)' <=> Present(p, n)
                                   /\ Present(p, n) => FrameOf(p, n)' = FrameOf(p, n)
  BY DEF SamePages
<1>2. ASSUME NEW p \in Pids, NEW n \in Pages, Present(p, n)'
      PROVE  \E f \in Frames : FrameOf(p, n)' = f /\ ~meta'[f].isFree
                               /\ meta'[f].pid = p /\ meta'[f].page = n
  <2>1. PICK f \in Frames : FrameOf(p, n) = f /\ ~meta[f].isFree
                            /\ meta[f].pid = p /\ meta[f].page = n
    BY <1>1, <1>2 DEF OwnerInv
  <2> QED
    BY <1>1, <1>2, <2>1
<1>3. ASSUME NEW f \in Frames
      PROVE  \/ meta'[f].isFree
             \/ \E p \in Pids, n \in Pages :
                  meta'[f].pid = p /\ meta'[f].page = n /\ Present(p, n)' /\ FrameOf(p, n)' = f
             \/ \E t \in Threads : frame'[t] = f /\ pc'[t] \in Filling
  <2>1. \/ meta[f].isFree
        \/ \E p \in Pids, n \in Pages :
             meta[f].pid = p /\ meta[f].page = n /\ Present(p, n) /\ FrameOf(p, n) = f
        \/ \E t \in Threads : frame[t] = f /\ pc[t] \in Filling
    BY DEF OwnerInv
  <2>2. ASSUME NEW p \in Pids, NEW n \in Pages, meta[f].pid = p, meta[f].page = n,
               Present(p, n), FrameOf(p, n) = f
        PROVE  meta'[f].pid = p /\ meta'[f].page = n /\ Present(p, n)' /\ FrameOf(p, n)' = f
    BY <1>1, <2>2
  <2> QED
    BY <2>1, <2>2
<1> QED
  BY <1>2, <1>3 DEF OwnerInv

(* What the TLB answers it answered before. *)
LEMMA TlbKept ==
    ASSUME TlbInv, TlbWhole(tlb', mode'.tlbSize), \A p \in Pids : SamePages(p),
           \A p \in Pids, n \in Pages, f \in Frames :
               Translates(tlb', p, n, f) => Translates(tlb, p, n, f),
           \A u \in Threads : pc[u] \in Leaving => pc'[u] \in Leaving /\ petition'[u] = petition[u]
    PROVE  TlbInv'
<1>1. ASSUME NEW p \in Pids, NEW n \in Pages, NEW f \in Frames, Translates(tlb', p, n, f)
      PROVE  \/ Present(p, n)' /\ FrameOf(p, n)' = f
             \/ \E t \in Threads : petition'[t].pid = p /\ pc'[t] \in {"release", "forget"}
  <2>1. \/ Present(p, n) /\ FrameOf(p, n) = f
        \/ \E t \in Threads : petition[t].pid = p /\ pc[t] \in Leaving
    BY <1>1 DEF TlbInv, Leaving
  <2> QED
    BY <2>1 DEF SamePages, Leaving
<1> QED
  BY <1>1 DEF TlbInv

(* The swap has what it had. *)
LEMMA SwapKept ==
    ASSUME SwapInv, \A p \in Pids : Kept(p), swap' = swap, ram' = ram,
           \A f \in Frames : meta[f].modified => meta'[f].modified
    PROVE  SwapInv'
BY DEF SwapInv, Kept, SamePages

(* What a thread in the middle of a petition holds. *)
LEMMA ThreadFacts ==
    ASSUME TypeInv, PetitionInv, NEW t \in Threads, pc[t] # "idle", ThreadInv(t)
    PROVE  \E p \in Pids, n \in Pages, f \in Frames \cup {NoFrame} :
             /\ petition[t].pid = p /\ petition[t].page = n /\ frame[t] = f
             /\ PageInv(t, p, n, f)
             /\ pc[t] \in Evicting \cup Filling \cup {"use"} => f \in Frames
             /\ pc[t] \in Evicting =>
                  \E q \in Pids, m \in Pages :
                      victim[t].pid = q /\ victim[t].page = m /\ VictimInv(t, q, m, f)
<1>1. PICK p \in Pids, n \in Pages : petition[t].pid = p /\ petition[t].page = n
  BY DEF PetitionInv
<1>2. PICK f \in Frames \cup {NoFrame} : frame[t] = f
  BY DEF TypeInv
<1>3. PageInv(t, p, n, f)
  BY <1>1, <1>2 DEF ThreadInv
<1>4. ASSUME pc[t] \in Evicting
      PROVE  \E q \in Pids, m \in Pages :
                 victim[t].pid = q /\ victim[t].page = m /\ VictimInv(t, q, m, f)
  <2>1. PICK q \in Pids, m \in Pages : victim[t].pid = q /\ victim[t].page = m
    BY <1>4 DEF ThreadInv, TypeInv
  <2> QED
    BY <1>2, <2>1 DEF ThreadInv
<1> QED
  BY <1>1, <1>2, <1>3, <1>4 DEF ThreadInv

(* The other threads go on, and the invariant holds after the step. *)
LEMMA AllThreads ==
    ASSUME Inv, NEW t \in Threads, NEW p \in Pids, mode' = mode,
           TypeInv', PetitionInv', BlockInv', OwnerInv', TlbInv', SwapInv', ThreadInv(t)',
           \A u \in Threads : u # t => SameThread(u),
           \A u \in Threads : u # t /\ pc[u] # "idle" =>
               mode.asignacion = "fijo" /\ petition[u].pid # p,
           mode.asignacion = "fijo" => \A r \in Pids : r # p => Quiet(r)
    PROVE  Inv'
<1>1. ASSUME NEW u \in Threads, u # t PROVE ThreadInv(u)'
  <2>1. /\ TypeInv /\ PetitionInv /\ BlockInv /\ OwnerInv /\ ThreadInv(u)
        /\ SameThread(u)
    BY <1>1 DEF Inv, ThreadsInv
  <2>2. pc[u] # "idle" => \A r \in Pids : petition[u].pid = r => Quiet(r)
    BY <1>1
  <2> QED
    BY <2>1, <2>2, Undisturbed
<1> QED
  BY <1>1 DEF Inv, ThreadsInv

(* A frame in the hands of the thread of one process is in no other's block. *)
LEMMA OtherBlock ==
    ASSUME TypeInv, mode.asignacion = "fijo", NEW p \in Pids, NEW f \in Frames, InBlock(p, f),
           NEW r \in Pids, r # p, NEW b \in Blocks, firstFrame[b] = r
    PROVE  f \notin RangeOf(b)
<1>1. PICK c \in Blocks : firstFrame[c] = p /\ f \in RangeOf(c)
  BY DEF InBlock
<1> QED
  BY <1>1, BlockRange

-----------------------------------------------------------------------------
(* The steps of a thread *)

(* A thread that changes nothing but what it holds. *)
LEMMA HandsOnly ==
    ASSUME Inv, UNCHANGED <<mode, frameVars, ram, table, tlb, swap>>, 
           \A u \in Threads : pc[u] \in Filling => pc'[u] \in Filling /\ frame'[u] = frame[u],
           \A u \in Threads : pc[u] \in Leaving => pc'[u] \in Leaving /\ petition'[u] = petition[u]
    PROVE  /\ BlockInv' /\ OwnerInv' /\ TlbInv' /\ SwapInv' /\ mode' = mode
           /\ \A p \in Pids : Kept(p)
           /\ mode.asignacion = "fijo" => \A p \in Pids : Quiet(p)
<1>1. /\ mode' = mode /\ firstFrame' = firstFrame /\ hand' = hand /\ meta' = meta
      /\ ram' = ram /\ table' = table /\ tlb' = tlb /\ swap' = swap
  BY DEF frameVars
<1>2. \A p \in Pids : Kept(p) /\ SamePages(p)
  BY <1>1, TablesKept DEF Kept
<1>3. TypeInv /\ BlockInv /\ OwnerInv /\ TlbInv /\ SwapInv
  BY DEF Inv
<1>4. \A f \in Frames : meta'[f].isFree \/ (~meta[f].isFree /\ meta'[f].pid = meta[f].pid)
  BY <1>1 
<1>5. BlockInv'
  BY <1>1, <1>3, <1>4, BlocksKept
<1>6. OwnerInv'
  BY <1>1, <1>2, <1>3, OwnersKept
<1>7. TlbInv'
  <2>1. TlbWhole(tlb', mode'.tlbSize)
    BY <1>1, <1>3 DEF TlbInv
  <2> QED
    BY <1>1, <1>2, <1>3, <2>1, TlbKept
<1>8. SwapInv'
  BY <1>1, <1>2, <1>3, SwapKept
<1>9. mode.asignacion = "fijo" => \A p \in Pids : Quiet(p)
  BY <1>1, <1>2 DEF Quiet
<1> QED
  BY <1>1, <1>2, <1>5, <1>6, <1>7, <1>8, <1>9

(* A process comes. *)
LEMMA StartStep ==
    ASSUME Apart, Inv, NEW p \in Pids, Start(p)
    PROVE  Inv'
<1>1. /\ UNCHANGED <<mode, frameVars, ram, table, tlb, swap>> /\ UNCHANGED <<mode, threadVars>>
      /\ client' = [client EXCEPT ![p] = "running"] /\ reply' = reply /\ accesses' = accesses
  BY DEF Start, threadVars, frameVars
<1>2. TypeInv /\ PetitionInv /\ ThreadsInv
  BY DEF Inv
<1>3. PetitionInv' /\ \A u \in Threads : SameThread(u)
  BY <1>1, <1>2, PetitionsKept
<1>4. \A u \in Threads : pc'[u] = pc[u] /\ frame'[u] = frame[u] /\ petition'[u] = petition[u]
  BY <1>3 DEF SameThread
<1>5. TypeInv'
  BY <1>1, <1>2 DEF TypeInv, threadVars, frameVars
<1>6. /\ BlockInv' /\ OwnerInv' /\ TlbInv' /\ SwapInv' /\ mode' = mode
      /\ \A r \in Pids : Kept(r)
      /\ mode.asignacion = "fijo" => \A r \in Pids : Quiet(r)
  BY <1>1, <1>4, HandsOnly
<1>7. ASSUME NEW t \in Threads PROVE ThreadInv(t)'
  <2>1. /\ pc' = pc /\ petition' = petition /\ frame' = frame /\ buffer' = buffer
        /\ victim' = victim /\ meta' = meta /\ ram' = ram /\ swap' = swap /\ tlb' = tlb
        /\ firstFrame' = firstFrame /\ table' = table
    BY <1>1 DEF threadVars, frameVars
  <2>2. \A q \in Pids, n \in Pages : /\ Present(q, n)' <=> Present(q, n)
                                     /\ FrameOf(q, n)' = FrameOf(q, n)
                                     /\ PageCount(q)' = PageCount(q)
                                     /\ Untranslated(q, n)' <=> Untranslated(q, n)
    BY <2>1 DEF Present, FrameOf, PageCount, Untranslated
  <2>3. \A q \in Pids, f \in Frames : InBlock(q, f) => InBlock(q, f)'
    BY <1>6, <2>1, SameBlocks DEF InBlock
  <2>4. ThreadInv(t)
    BY <1>2 DEF ThreadsInv
  <2>5. ASSUME NEW q \in Pids, NEW n \in Pages, NEW f \in Frames \cup {NoFrame}
        PROVE  /\ PageInv(t, q, n, f) => PageInv(t, q, n, f)'
               /\ VictimInv(t, q, n, f) => VictimInv(t, q, n, f)'
    BY <2>1, <2>2, <2>3 DEF PageInv, VictimInv
  <2> QED
    BY <2>1, <2>4, <2>5 DEF ThreadInv
<1> QED
  BY <1>3, <1>5, <1>6, <1>7 DEF Inv, ThreadsInv

(* A thread takes the petition to read or to write a page. *)
LEMMA AccessStep ==
    ASSUME Apart, Inv, NEW t \in Threads, NEW p \in Pids, NEW n \in Pages,
           NEW op \in Written \cup {Reads}, Access(t, p, n, op)
    PROVE  Inv'
<1> DEFINE r == [pid |-> p, page |-> n, op |-> op]
<1>1. /\ Serves(t, p) /\ n < PageCount(p) /\ accesses < mode.accesses
      /\ accesses' = accesses + 1 /\ petition' = [petition EXCEPT ![t] = r]
      /\ Goes(t, "translate")
      /\ UNCHANGED <<mode, frameVars, ram, table, tlb, swap>>
      /\ mode' = mode /\ client' = client /\ frame' = frame /\ buffer' = buffer
      /\ victim' = victim /\ reply' = reply
  BY DEF Access
<1>2. TypeInv /\ PetitionInv /\ ThreadsInv
  BY DEF Inv
<1>3. r \in [pid : Pids \cup {NoPid}, page : Pages, op : Written \cup {Reads}] /\ r.pid = p
      /\ r.page = n
  OBVIOUS
<1> HIDE DEF r
<1>4. "translate" \in Steps /\ "translate" # "idle"
  BY DEF Steps, Accessing
<1>5. /\ PetitionInv' /\ pc[t] = "idle" /\ pc'[t] = "translate" /\ petition'[t] = r
      /\ \A u \in Threads : u # t => pc'[u] = pc[u] /\ petition'[u] = petition[u]
  BY <1>1, <1>2, <1>3, <1>4, PetitionBegins
<1>6. /\ \A u \in Threads : u # t => SameThread(u)
      /\ \A u \in Threads : pc[u] \in Filling => pc'[u] \in Filling /\ frame'[u] = frame[u]
      /\ \A u \in Threads : pc[u] \in Leaving => pc'[u] \in Leaving /\ petition'[u] = petition[u]
  BY <1>1, <1>5 DEF SameThread, Filling, Leaving
<1>7. /\ BlockInv' /\ OwnerInv' /\ TlbInv' /\ SwapInv'
      /\ \A q \in Pids : Kept(q)
      /\ mode.asignacion = "fijo" => \A q \in Pids : Quiet(q)
  BY <1>1, <1>6, HandsOnly
<1>8. TypeInv'
  <2>1. accesses' \in 0 .. mode'.accesses
    BY <1>1, <1>2, ModeType DEF TypeInv
  <2> QED
    BY <1>1, <1>2, <2>1 DEF TypeInv, frameVars
<1>9. ThreadInv(t)'
  <2>1. n < PageCount(p)'
    BY <1>1, <1>7 DEF Kept
  <2> QED
    BY <1>3, <1>5, <2>1
       DEF ThreadInv, PageInv, VictimInv, Accessing, Missing, Loading, Evicting, Filling
<1>10. \A u \in Threads : u # t /\ pc[u] # "idle" =>
          mode.asignacion = "fijo" /\ petition[u].pid # p
  BY <1>1, <1>2, OthersServe
<1> QED
  BY <1>1, <1>5, <1>6, <1>7, <1>8, <1>9, <1>10, AllThreads

(* The page is in no entry of the TLB. *)
LEMMA LookupMissStep ==
    ASSUME Apart, Inv, NEW t \in Threads, LookupMiss(t)
    PROVE  Inv'
<1>1. /\ pc[t] = "translate" /\ Goes(t, "walk")
      /\ GetFrame(tlb, petition[t].pid, petition[t].page) = NoFrame
      /\ UNCHANGED <<mode, frameVars, ram, table, tlb, swap>>
      /\ mode' = mode /\ client' = client /\ frame' = frame /\ buffer' = buffer
      /\ victim' = victim /\ reply' = reply /\ petition' = petition /\ accesses' = accesses
  BY DEF LookupMiss
<1>2. TypeInv /\ PetitionInv /\ ThreadInv(t) /\ TlbInv
  BY DEF Inv, ThreadsInv
<1>3. "walk" \in Steps /\ "walk" # "idle" /\ pc[t] # "idle"
  BY <1>1 DEF Steps, Accessing
<1>4. PetitionInv' /\ pc'[t] = "walk" /\ \A u \in Threads : u # t => pc'[u] = pc[u]
  BY <1>1, <1>2, <1>3, PetitionGoesOn
<1>5. PICK p \in Pids, n \in Pages, f \in Frames \cup {NoFrame} :
         petition[t].pid = p /\ petition[t].page = n /\ frame[t] = f /\ PageInv(t, p, n, f)
  BY <1>2, <1>3, ThreadFacts
<1>6. /\ \A u \in Threads : u # t => SameThread(u)
      /\ \A u \in Threads : pc[u] \in Filling => pc'[u] \in Filling /\ frame'[u] = frame[u]
      /\ \A u \in Threads : pc[u] \in Leaving => pc'[u] \in Leaving /\ petition'[u] = petition[u]
  BY <1>1, <1>4 DEF SameThread, Filling, Leaving
<1>7. /\ BlockInv' /\ OwnerInv' /\ TlbInv' /\ SwapInv'
      /\ \A q \in Pids : Kept(q)
      /\ mode.asignacion = "fijo" => \A q \in Pids : Quiet(q)
  BY <1>1, <1>6, HandsOnly
<1>8. TypeInv'
  BY <1>1, <1>2 DEF TypeInv, frameVars
<1>9. ThreadInv(t)'
  <2>1. n < PageCount(p)'
    BY <1>1, <1>5, <1>7 DEF Kept, PageInv, Accessing
  <2>2. Untranslated(p, n)'
    <3>1. GetFrame(tlb, p, n) \notin Frames
      BY <1>1, <1>5, Sizes
    <3>2. mode.tlbSize \in Nat /\ TlbWhole(tlb, mode.tlbSize)
      BY <1>2, ModeType DEF TlbInv
    <3>3. \A g : ~Translates(tlb, p, n, g)
      BY <3>1, <3>2, LiveEntry
    <3> QED
      BY <1>1, <3>3 DEF Untranslated
  <2> QED
    BY <1>1, <1>4, <1>5, <2>1, <2>2
       DEF ThreadInv, PageInv, VictimInv, Accessing, Missing, Loading, Evicting, Filling
<1>10. \A u \in Threads : u # t /\ pc[u] # "idle" =>
          mode.asignacion = "fijo" /\ petition[u].pid # p
  BY <1>2, <1>3, <1>5, Others
<1> QED
  BY <1>1, <1>4, <1>6, <1>7, <1>8, <1>9, <1>10, AllThreads

(* The frame has a time stamp. *)
LEMMA Stamped ==
    ASSUME TypeInv, NEW f \in Frames, Stamp(f)
    PROVE  recency' \in Seq(Frames) /\ IsInjective(recency')
BY MovedToEnd DEF TypeInv, Stamp

(* A frame that is marked keeps its page. *)
LEMMA Marked ==
    ASSUME TypeInv, NEW f \in Frames, meta' = [meta EXCEPT ![f].u = TRUE]
    PROVE  /\ meta' \in [Frames -> FrameData]
           /\ \A g \in Frames : /\ meta'[g].isFree = meta[g].isFree /\ meta'[g].pid = meta[g].pid
                                /\ meta'[g].page = meta[g].page
                                /\ meta'[g].modified = meta[g].modified
<1> PICK d \in FrameData : d = meta[f]
  BY DEF TypeInv
<1> PICK e \in FrameData : e = [d EXCEPT !.u = TRUE]
  BY DEF FrameData
<1>1. e.isFree = d.isFree /\ e.pid = d.pid /\ e.page = d.page /\ e.modified = d.modified
  BY DEF FrameData
<1>2. meta' = [meta EXCEPT ![f] = e]
  OBVIOUS
<1>3. /\ meta' \in [Frames -> FrameData] /\ meta'[f] = e
      /\ \A g \in Frames : g # f => meta'[g] = meta[g]
  BY <1>2 DEF TypeInv
<1> QED
  BY <1>1, <1>3

(* What the TLB answers is a frame. *)
LEMMA TranslatesFrame ==
    ASSUME NEW size \in Nat, NEW x, TlbWhole(x, size), NEW p, NEW n, NEW f, Translates(x, p, n, f)
    PROVE  f \in Frames
BY DEF TlbWhole, Translates, TlbEntry

(* No memory changes, but for the marks of the frames and the TLB, which may forget, or learn
   where a page is. *)
LEMMA SameMemory ==
    ASSUME Inv, UNCHANGED <<mode, firstFrame, hand, ram, table, swap>>,
           \A g \in Frames : /\ meta'[g].isFree = meta[g].isFree /\ meta'[g].pid = meta[g].pid
                             /\ meta'[g].page = meta[g].page
                             /\ meta'[g].modified = meta[g].modified,
           TlbWhole(tlb', mode.tlbSize),
           NEW p \in Pids, NEW n \in Pages, NEW f \in Frames \cup {NoFrame},
           \A q \in Pids, m \in Pages, g \in Frames : Translates(tlb', q, m, g) =>
               \/ Translates(tlb, q, m, g)
               \/ q = p /\ m = n /\ g = f /\ Present(p, n) /\ FrameOf(p, n) = f,
           \A u \in Threads : pc[u] \in Filling => pc'[u] \in Filling /\ frame'[u] = frame[u],
           \A u \in Threads : pc[u] \in Leaving => pc'[u] \in Leaving /\ petition'[u] = petition[u]
    PROVE  /\ BlockInv' /\ OwnerInv' /\ TlbInv' /\ SwapInv' /\ mode' = mode
           /\ \A q \in Pids : Kept(q)
           /\ mode.asignacion = "fijo" => \A q \in Pids : q # p => Quiet(q)
<1>1. \A q \in Pids : Kept(q) /\ SamePages(q)
  BY TablesKept DEF Kept
<1>2. TypeInv /\ BlockInv /\ OwnerInv /\ TlbInv /\ SwapInv
  BY DEF Inv
<1>3. BlockInv'
  BY <1>2, BlocksKept
<1>4. OwnerInv'
  BY <1>1, <1>2, OwnersKept
<1>5. TlbInv'
  <2>1. ASSUME NEW q \in Pids, NEW m \in Pages, NEW g \in Frames, Translates(tlb', q, m, g)
        PROVE  \/ Present(q, m)' /\ FrameOf(q, m)' = g
               \/ \E t \in Threads : petition'[t].pid = q /\ pc'[t] \in Leaving
    <3>1. \/ Present(q, m) /\ FrameOf(q, m) = g
          \/ \E t \in Threads : petition[t].pid = q /\ pc[t] \in Leaving
      BY <1>2, <2>1 DEF TlbInv, Leaving
    <3> QED
      BY <1>1, <3>1 DEF SamePages
  <2> QED
    BY <2>1 DEF TlbInv, Leaving
<1>6. SwapInv'
  BY <1>1, <1>2, SwapKept
<1>7. ASSUME mode.asignacion = "fijo", NEW q \in Pids, q # p PROVE Quiet(q)
  <2>1. \A b \in Blocks : RangeOf(b) \subseteq Frames
    BY <1>2, BlockRange
  <2> QED
    BY <1>1, <1>7, <2>1 DEF Quiet
<1> QED
  BY <1>1, <1>3, <1>4, <1>5, <1>6, <1>7

\* The TLB may learn that page n of p is in frame f
Learns(p, n, f) ==
    \A q \in Pids, m \in Pages, g \in Frames : Translates(tlb', q, m, g) =>
        Translates(tlb, q, m, g) \/ (q = p /\ m = n /\ g = f)

(* getFrame finds the page in a frame, through the TLB or the page table. *)
LEMMA PageFound ==
    ASSUME Apart, Inv, NEW t \in Threads, pc[t] \in {"translate", "walk"},
           NEW p \in Pids, NEW n \in Pages, NEW f \in Frames,
           petition[t].pid = p, petition[t].page = n, Present(p, n), FrameOf(p, n) = f,
           meta' = [meta EXCEPT ![f].u = TRUE], Stamp(f), Uses(t, f),
           TlbWhole(tlb', mode.tlbSize),
           Learns(p, n, f),
           UNCHANGED <<mode, firstFrame, hand, ram, table, swap, client, petition, buffer,
                       victim, reply, accesses>>
    PROVE  Inv'
<1>1. TypeInv /\ PetitionInv /\ BlockInv /\ OwnerInv /\ ThreadInv(t)
  BY DEF Inv, ThreadsInv
<1>2. "use" \in Steps /\ "use" # "idle" /\ pc[t] # "idle"
  BY DEF Steps, Accessing
<1>3. PetitionInv' /\ pc'[t] = "use" /\ \A u \in Threads : u # t => pc'[u] = pc[u]
  BY <1>1, <1>2, PetitionGoesOn DEF Uses
<1>4. /\ frame' \in [Threads -> Frames \cup {NoFrame}] /\ frame'[t] = f
      /\ \A u \in Threads : u # t => frame'[u] = frame[u]
  BY <1>1 DEF Uses, TypeInv
<1>5. /\ \A u \in Threads : u # t => SameThread(u)
      /\ \A u \in Threads : pc[u] \in Filling => pc'[u] \in Filling /\ frame'[u] = frame[u]
      /\ \A u \in Threads : pc[u] \in Leaving => pc'[u] \in Leaving /\ petition'[u] = petition[u]
  BY <1>3, <1>4 DEF SameThread, Filling, Leaving
<1>6. /\ meta' \in [Frames -> FrameData]
      /\ \A g \in Frames : /\ meta'[g].isFree = meta[g].isFree /\ meta'[g].pid = meta[g].pid
                           /\ meta'[g].page = meta[g].page
                           /\ meta'[g].modified = meta[g].modified
  BY <1>1, Marked
<1>7. /\ BlockInv' /\ OwnerInv' /\ TlbInv' /\ SwapInv' /\ mode' = mode
      /\ \A q \in Pids : Kept(q)
      /\ mode.asignacion = "fijo" => \A q \in Pids : q # p => Quiet(q)
  BY <1>5, <1>6, SameMemory DEF Learns
<1>8. TypeInv'
  BY <1>1, <1>4, <1>6, Stamped DEF TypeInv
<1>9. ThreadInv(t)'
  <2>1. n < PageCount(p)' /\ Present(p, n)' /\ FrameOf(p, n)' = f
    BY <1>1, <1>7, PresentInTable DEF Kept, SamePages
  <2>2. InBlock(p, f)'
    <3>1. ASSUME mode.asignacion = "fijo"
          PROVE  \E b \in Blocks : firstFrame[b] = p /\ f \in RangeOf(b)
      <4>1. PICK b \in Blocks : f \in RangeOf(b)
        BY <1>1, <3>1, BlockRange
      <4> QED
        BY <1>1, <3>1, <4>1, PageInBlock
    <3> QED
      BY <3>1, SameBlocks DEF InBlock
  <2> QED
    BY <1>3, <1>4, <2>1, <2>2
       DEF ThreadInv, PageInv, VictimInv, Accessing, Missing, Loading, Evicting, Filling
<1>10. \A u \in Threads : u # t /\ pc[u] # "idle" =>
          mode.asignacion = "fijo" /\ petition[u].pid # p
  BY <1>1, <1>2, Others
<1> QED
  BY <1>3, <1>5, <1>7, <1>8, <1>9, <1>10, AllThreads

(* The page is in the TLB, which says where it is. *)
LEMMA LookupHitStep ==
    ASSUME Apart, Inv, NEW t \in Threads, LookupHit(t)
    PROVE  Inv'
<1>1. PICK f : f = GetFrame(tlb, petition[t].pid, petition[t].page)
  OBVIOUS
<1>2. /\ pc[t] = "translate" /\ f # NoFrame
      /\ tlb' = UpdateVictims(tlb, petition[t].pid, petition[t].page, mode.tlb)
      /\ meta' = [meta EXCEPT ![f].u = TRUE] /\ Stamp(f) /\ Uses(t, f)
      /\ UNCHANGED <<mode, firstFrame, hand, ram, table, swap, client, petition, buffer,
                     victim, reply, accesses>>
  BY <1>1 DEF LookupHit
<1>3. TypeInv /\ PetitionInv /\ ThreadInv(t) /\ TlbInv
  BY DEF Inv, ThreadsInv
<1>4. PICK p \in Pids, n \in Pages : petition[t].pid = p /\ petition[t].page = n
  BY <1>2, <1>3, ThreadFacts
<1>5. mode.tlbSize \in Nat /\ TlbWhole(tlb, mode.tlbSize)
  BY <1>3, ModeType DEF TlbInv
<1>6. f \in Frames /\ Translates(tlb, p, n, f)
  BY <1>1, <1>2, <1>4, <1>5, LiveEntry
<1>7. Present(p, n) /\ FrameOf(p, n) = f
  <2>1. SUFFICES ASSUME NEW u \in Threads, petition[u].pid = p, pc[u] \in {"release", "forget"}
                 PROVE  FALSE
    BY <1>3, <1>6 DEF TlbInv
  <2>2. u \in Busy /\ t \in Busy
    BY <1>2, <2>1 DEF Busy
  <2> QED
    BY <1>2, <1>3, <1>4, <2>1, <2>2 DEF PetitionInv
<1>8. TlbWhole(tlb', mode.tlbSize) /\ tlb'.entries = tlb.entries
  BY <1>2, <1>5, HitUpdates
<1>9. Learns(p, n, f)
  BY <1>8 DEF Learns, Translates
<1> QED
  BY <1>2, <1>4, <1>6, <1>7, <1>8, <1>9, PageFound

(* The page is in a frame that the TLB does not know. *)
LEMMA WalkPresentStep ==
    ASSUME Apart, Inv, NEW t \in Threads, WalkPresent(t)
    PROVE  Inv'
<1>1. TypeInv /\ PetitionInv /\ ThreadInv(t) /\ TlbInv /\ OwnerInv /\ pc[t] = "walk"
  BY DEF Inv, ThreadsInv, WalkPresent
<1>2. PICK p \in Pids, n \in Pages, h \in Frames \cup {NoFrame} :
         petition[t].pid = p /\ petition[t].page = n /\ PageInv(t, p, n, h)
  BY <1>1, ThreadFacts
<1>3. PICK f \in Frames : f = FrameOf(p, n)
  BY <1>1, <1>2 DEF OwnerInv, WalkPresent
<1>4. /\ Present(p, n) /\ Stamp(f) /\ Uses(t, f)
      /\ meta' = [meta EXCEPT ![f].u = TRUE] /\ tlb' = AddEntry(tlb, p, n, f)
      /\ UNCHANGED <<mode, firstFrame, hand, ram, table, swap, client, petition, buffer,
                     victim, reply, accesses>>
  BY <1>2, <1>3 DEF WalkPresent
<1>6. mode.tlbSize \in Nat \ {0} /\ TlbWhole(tlb, mode.tlbSize)
  BY <1>1, ModeType DEF TlbInv
<1>7. \A g : ~Translates(tlb, p, n, g)
  <2>1. \A g \in Frames : ~Translates(tlb, p, n, g)
    BY <1>1, <1>2 DEF PageInv, Untranslated, Missing
  <2> QED
    BY <1>6, <2>1, TranslatesFrame
<1>8. /\ TlbWhole(tlb', mode.tlbSize)
      /\ \A q, m, g : Translates(tlb', q, m, g) =>
            Translates(tlb, q, m, g) \/ (q = p /\ m = n /\ g = f)
  BY <1>4, <1>6, <1>7, EntryAdded
<1>9. Learns(p, n, f)
  BY <1>8 DEF Learns
<1>10. /\ pc[t] \in {"translate", "walk"} /\ petition[t].pid = p /\ petition[t].page = n
       /\ FrameOf(p, n) = f /\ Present(p, n)
  BY <1>1, <1>2, <1>3, <1>4
<1>11. /\ meta' = [meta EXCEPT ![f].u = TRUE] /\ Stamp(f) /\ Uses(t, f)
       /\ UNCHANGED <<mode, firstFrame, hand, ram, table, swap, client, petition, buffer,
                      victim, reply, accesses>>
       /\ TlbWhole(tlb', mode.tlbSize)
  BY <1>4, <1>8
<1> QED
  BY <1>9, <1>10, <1>11, PageFound

(* fijo finds the block of a process, or a free one, or none. *)
LEMMA BlockFound ==
    ASSUME TypeInv, BlockInv, NEW p \in Pids
    PROVE  \/ BlockOf(p) = -1
           \/ /\ BlockOf(p) \in Blocks
              /\ firstFrame[BlockOf(p)] \in {p, NoPid}
              /\ mode.asignacion = "fijo" =>
                    \A c \in Blocks : firstFrame[c] = p => c = BlockOf(p)
<1> DEFINE own == {b \in Blocks : firstFrame[b] = p}
           free == {b \in Blocks : firstFrame[b] = NoPid}
<1>1. own \subseteq Nat /\ free \subseteq Nat /\ own \subseteq Blocks /\ free \subseteq Blocks
  BY BlockRange
<1>2. /\ own # {} => Min(own) \in own
      /\ free # {} => Min(free) \in free
  BY <1>1, MinMember
<1>3. BlockOf(p) = IF own # {} THEN Min(own) ELSE IF free # {} THEN Min(free) ELSE -1
  BY DEF BlockOf
<1>4. CASE own # {}
  <2>1. BlockOf(p) \in Blocks /\ firstFrame[BlockOf(p)] = p
    BY <1>2, <1>3, <1>4
  <2>2. p # NoPid
    BY PagingAssumption DEF PagingAssumption
  <2> QED
    BY <2>1, <2>2 DEF BlockInv, OwnBlock
<1>5. CASE own = {} /\ free # {}
  BY <1>2, <1>3, <1>5
<1>6. CASE own = {} /\ free = {}
  BY <1>3, <1>6
<1> QED
  BY <1>4, <1>5, <1>6

(* A thread chooses a frame. *)
LEMMA ChooseStep ==
    ASSUME Apart, Inv, NEW t \in Threads, Choose(t)
    PROVE  Inv'
<1>1. TypeInv /\ PetitionInv /\ ThreadInv(t) /\ TlbInv /\ OwnerInv /\ BlockInv /\ SwapInv
      /\ pc[t] = "walk" /\ pc[t] # "idle"
  BY DEF Inv, ThreadsInv, Choose
<1>2. PICK p \in Pids, n \in Pages, h \in Frames \cup {NoFrame} :
         petition[t].pid = p /\ petition[t].page = n /\ PageInv(t, p, n, h)
  BY <1>1, ThreadFacts
<1> DEFINE b == IF mode.asignacion = "fijo" THEN BlockOf(p) ELSE 0
           range == RangeOf(b)
           scans == b # -1 /\ mode.algoritmo = "clock_m" /\ FreeFrames(range) = {}
           found == IF b = -1 THEN NoFrame
                    ELSE IF scans THEN ClockVictim(range, hand[b]) ELSE LRU(range)
           cleared == ClockCleared(range, hand[b])
<1>f. PICK f : f = found
  OBVIOUS
<1> DEFINE next == NextHand(range, f)
<1>3. /\ ~Present(p, n) /\ Goes(t, "load") /\ frame' = [frame EXCEPT ![t] = f]
      /\ firstFrame' = [c \in Blocks |-> IF mode.asignacion = "fijo" /\ c = b
                                         THEN p ELSE firstFrame[c]]
      /\ hand' = [c \in Blocks |-> IF scans /\ c = b THEN next ELSE hand[c]]
      /\ meta' = [g \in Frames |-> IF scans /\ g \in cleared
                                   THEN [meta[g] EXCEPT !.u = FALSE] ELSE meta[g]]
      /\ UNCHANGED <<mode, recency, ram, table, tlb, swap, client, petition, buffer, victim,
                     reply, accesses>>
  BY <1>2, <1>f DEF Choose
<1>4. \/ b = -1
      \/ /\ b \in Blocks
         /\ mode.asignacion = "fijo" =>
              /\ firstFrame[b] \in {p, NoPid}
              /\ \A c \in Blocks : firstFrame[c] = p => c = b
  BY <1>1, BlockFound, BlockRange
<1>5. /\ f \in Frames \cup {NoFrame}
      /\ f \in Frames => b \in Blocks /\ f \in RangeOf(b)
      /\ b \in Blocks /\ scans => next \in RangeOf(b) /\ next \in Frames
  <2>1. CASE b = -1
    <3>1. f = NoFrame
      BY <1>f, <2>1
    <3>2. b \notin Blocks
      BY <1>1, <2>1, BlockRange
    <3> QED
      BY <3>1, <3>2, Sizes
  <2>2. CASE b \in Blocks
    <3>1. PICK lo \in Nat, size \in Nat \ {0} : /\ RangeOf(b) = lo .. lo + size - 1
                                                /\ RangeOf(b) \subseteq Frames
      BY <1>1, <2>2, BlockRange
    <3>2. hand[b] \in RangeOf(b) /\ b # -1
      BY <1>1, <2>2, BlockRange DEF BlockInv
    <3>3. ClockVictim(range, hand[b]) \in RangeOf(b)
      <4> HIDE DEF b
      <4> QED
        BY <3>1, <3>2, ClockInRange
    <3>4. LRU(range) \in RangeOf(b) \cup {NoFrame}
      BY <1>1, <3>1, LRUInRange
    <3>5. f \in RangeOf(b) \cup {NoFrame} /\ (scans => f \in RangeOf(b))
      <4> HIDE DEF b
      <4> QED
        BY <1>f, <3>2, <3>3, <3>4
    <3>6. scans => next \in RangeOf(b)
      <4> SUFFICES ASSUME scans PROVE next \in RangeOf(b)
        OBVIOUS
      <4>1. f \in Nat
        BY <3>1, <3>5, Sizes
      <4> HIDE DEF b
      <4> QED
        BY <3>1, <4>1, HandInRange
    <3> HIDE DEF b, next, scans
    <3> QED
      BY <2>2, <3>1, <3>5, <3>6, Sizes
  <2> QED
    BY <1>4, <2>1, <2>2
<1> HIDE DEF b, found, next, scans, cleared
<1>6. "load" \in Steps /\ "load" # "idle"
  BY DEF Steps, Accessing
<1>7. PetitionInv' /\ pc'[t] = "load" /\ \A u \in Threads : u # t => pc'[u] = pc[u]
  BY <1>1, <1>3, <1>6, PetitionGoesOn
<1>8. /\ frame' \in [Threads -> Frames \cup {NoFrame}] /\ frame'[t] = f
      /\ \A u \in Threads : u # t => frame'[u] = frame[u]
  BY <1>1, <1>3, <1>5 DEF TypeInv
<1>9. /\ \A u \in Threads : u # t => SameThread(u)
      /\ \A u \in Threads : pc[u] \in Filling => pc'[u] \in Filling /\ frame'[u] = frame[u]
      /\ \A u \in Threads : pc[u] \in Leaving => pc'[u] \in Leaving /\ petition'[u] = petition[u]
  BY <1>1, <1>3, <1>7, <1>8 DEF SameThread, Filling, Leaving
<1>10. /\ meta' \in [Frames -> FrameData]
       /\ \A g \in Frames : /\ meta'[g].isFree = meta[g].isFree /\ meta'[g].pid = meta[g].pid
                            /\ meta'[g].page = meta[g].page
                            /\ meta'[g].modified = meta[g].modified
  <2>1. ASSUME NEW g \in Frames
        PROVE  /\ meta'[g] \in FrameData
               /\ meta'[g].isFree = meta[g].isFree /\ meta'[g].pid = meta[g].pid
               /\ meta'[g].page = meta[g].page /\ meta'[g].modified = meta[g].modified
    <3> PICK d \in FrameData : d = meta[g]
      BY <1>1 DEF TypeInv
    <3> PICK e \in FrameData : e = [d EXCEPT !.u = FALSE]
      BY DEF FrameData
    <3>1. e.isFree = d.isFree /\ e.pid = d.pid /\ e.page = d.page /\ e.modified = d.modified
      BY DEF FrameData
    <3>2. meta'[g] = e \/ meta'[g] = d
      BY <1>3
    <3> QED
      BY <3>1, <3>2
  <2>2. meta' = [g \in Frames |-> meta'[g]]
    BY <1>3
  <2> QED
    BY <2>1, <2>2
<1>11. \A q \in Pids : Kept(q) /\ SamePages(q)
  BY <1>3, TablesKept DEF Kept
<1>m. Blocks' = Blocks /\ (\A c : RangeOf(c)' = RangeOf(c)) /\ mode' = mode
  BY <1>3, SameBlocks
<1>12. /\ \A c \in Blocks : c # b => firstFrame'[c] = firstFrame[c]
       /\ mode.asignacion = "fijo" /\ b \in Blocks => firstFrame'[b] = p
       /\ firstFrame' \in [Blocks -> Pids \cup {NoPid}]
       /\ mode.asignacion # "fijo" => firstFrame' = firstFrame
  BY <1>1, <1>3 DEF BlockInv
<1>13. BlockInv'
  <2>1. hand' \in [Blocks -> Frames] /\ \A c \in Blocks : hand'[c] \in RangeOf(c)
    BY <1>1, <1>3, <1>5 DEF BlockInv
  <2>2. ASSUME mode.asignacion = "fijo", NEW c \in Blocks, NEW d \in Blocks,
               firstFrame'[c] = firstFrame'[d]
        PROVE  c = d \/ firstFrame'[c] = NoPid
    <3>1. firstFrame[c] = firstFrame[d] => c = d \/ firstFrame[c] = NoPid
      BY <1>1, <2>2 DEF BlockInv, OwnBlock
    <3>2. CASE c # b /\ d # b
      BY <1>12, <2>2, <3>1, <3>2
    <3>3. CASE c = b
      <4>1. firstFrame'[d] = p
        BY <1>12, <2>2, <3>3
      <4>2. d # b => firstFrame[d] = p
        BY <1>12, <4>1
      <4> QED
        BY <1>4, <2>2, <3>3, <4>2, BlockRange, <1>1
    <3>4. CASE d = b
      <4>1. firstFrame'[c] = p
        BY <1>12, <2>2, <3>4
      <4>2. c # b => firstFrame[c] = p
        BY <1>12, <4>1
      <4> QED
        BY <1>4, <2>2, <3>4, <4>2, BlockRange, <1>1
    <3> QED
      BY <3>2, <3>3, <3>4
  <2>3. ASSUME mode.asignacion = "fijo", NEW c \in Blocks, NEW g \in RangeOf(c)
        PROVE  meta'[g].isFree \/ firstFrame'[c] = meta'[g].pid
    <3>1. g \in Frames
      BY <1>1, BlockRange
    <3>2. meta[g].isFree \/ (firstFrame[c] = meta[g].pid /\ meta[g].pid \in Pids)
      BY <1>1, <2>3, <3>1 DEF BlockInv, OwnBlock, TypeInv
    <3>3. NoPid \notin Pids
      BY PagingAssumption DEF PagingAssumption
    <3>4. meta'[g].isFree = meta[g].isFree /\ meta'[g].pid = meta[g].pid
      BY <1>10, <3>1
    <3>5. CASE c # b
      BY <1>12, <3>2, <3>4, <3>5
    <3>6. CASE c = b
      <4>1. firstFrame[c] \in {p, NoPid} /\ firstFrame'[c] = p
        BY <1>1, <1>4, <1>12, <2>3, <3>6, BlockRange
      <4> QED
        BY <3>2, <3>3, <3>4, <4>1
    <3> QED
      BY <3>5, <3>6
  <2> QED
    BY <1>m, <1>12, <2>1, <2>2, <2>3 DEF BlockInv, OwnBlock
<1>14. OwnerInv'
  BY <1>1, <1>9, <1>10, <1>11, OwnersKept
<1>15. TlbInv'
  <2>1. TlbWhole(tlb', mode'.tlbSize) /\ tlb' = tlb
    BY <1>1, <1>3 DEF TlbInv
  <2> QED
    BY <1>1, <1>9, <1>11, <2>1, TlbKept
<1>16. SwapInv'
  BY <1>1, <1>3, <1>10, <1>11, SwapKept
<1>17. TypeInv'
  <2>1. \A g \in Frames : meta'[g].isFree \/ meta'[g].pid \in Pids
    BY <1>1, <1>10 DEF TypeInv
  <2> QED
    BY <1>1, <1>3, <1>8, <1>10, <2>1 DEF TypeInv
<1>18. ThreadInv(t)'
  <2>1. n < PageCount(p)' /\ ~Present(p, n)'
    BY <1>1, <1>2, <1>3, <1>11 DEF Kept, SamePages, PageInv, Accessing
  <2>2. Untranslated(p, n)'
    BY <1>1, <1>2, <1>3 DEF PageInv, Missing, Untranslated
  <2>3. f \in Frames => InBlock(p, f)'
    <3>1. ASSUME f \in Frames, mode.asignacion = "fijo"
          PROVE  \E c \in Blocks : firstFrame'[c] = p /\ f \in RangeOf(c)
      BY <1>5, <1>12, <3>1
    <3>2. ASSUME f \in Frames, mode.asignacion = "fijo"
          PROVE  \E c \in Blocks' : firstFrame'[c] = p /\ f \in RangeOf(c)'
      BY <1>m, <3>1, <3>2
    <3> QED
      BY <1>m, <3>2 DEF InBlock
  <2>4. petition'[t].pid = p /\ petition'[t].page = n
    BY <1>2, <1>3
  <2>5. PageInv(t, p, n, f)'
    BY <1>7, <2>1, <2>2, <2>3
       DEF PageInv, Accessing, Missing, Loading, Evicting, Filling
  <2>6. \A q \in Pids, m \in Pages : VictimInv(t, q, m, f)'
    BY <1>7 DEF VictimInv, Evicting
  <2> QED
    BY <1>7, <1>8, <2>4, <2>5, <2>6 DEF ThreadInv, Evicting, Filling
<1>19. ASSUME mode.asignacion = "fijo", NEW r \in Pids, r # p PROVE Quiet(r)
  <2>1. \A c \in Blocks : RangeOf(c) \subseteq Frames
    BY <1>1, BlockRange
  <2>2. \A c \in Blocks : firstFrame[c] = r => firstFrame'[c] = r
    <3>1. r # NoPid
      BY PagingAssumption DEF PagingAssumption
    <3>2. ASSUME NEW c \in Blocks, firstFrame[c] = r PROVE c # b
      BY <1>4, <1>19, <3>1, <3>2, BlockRange, <1>1
    <3> QED
      BY <1>12, <3>2
  <2>3. ram' = ram /\ swap' = swap /\ tlb' = tlb
    BY <1>3
  <2> QED
    BY <1>10, <1>11, <1>19, <2>1, <2>2, <2>3 DEF Quiet
<1>20. \A u \in Threads : u # t /\ pc[u] # "idle" =>
          mode.asignacion = "fijo" /\ petition[u].pid # p
  BY <1>1, <1>2, Others
<1> QED
  BY <1>m, <1>7, <1>9, <1>13, <1>14, <1>15, <1>16, <1>17, <1>18, <1>19, <1>20, AllThreads

(* The frame that a thread has chosen for its page is free or has a page in it: nobody else is
   filling it. *)
LEMMA NobodyFills ==
    ASSUME Apart, Inv, NEW t \in Threads, pc[t] = "load", NEW f \in Frames, frame[t] = f,
           ~meta[f].isFree
    PROVE  \E q \in Pids, m \in Pages :
             meta[f].pid = q /\ meta[f].page = m /\ Present(q, m) /\ FrameOf(q, m) = f
<1>1. TypeInv /\ PetitionInv /\ ThreadInv(t) /\ OwnerInv /\ ThreadsInv /\ pc[t] # "idle"
  BY DEF Inv, ThreadsInv
<1>2. PICK p \in Pids, n \in Pages : petition[t].pid = p /\ PageInv(t, p, n, f)
  BY <1>1, ThreadFacts
<1>3. SUFFICES ASSUME NEW u \in Threads, frame[u] = f, pc[u] \in Filling PROVE FALSE
  BY <1>1 DEF OwnerInv
<1>4. ThreadInv(u) /\ u # t /\ pc[u] # "idle"
  BY <1>1, <1>3 DEF ThreadsInv, Filling
<1>5. PICK r \in Pids, m \in Pages : petition[u].pid = r /\ PageInv(u, r, m, f)
  BY <1>1, <1>3, <1>4, ThreadFacts
<1>6. mode.asignacion = "fijo" /\ r # p
  BY <1>1, <1>2, <1>4, <1>5, Others
<1>7. InBlock(p, f)
  BY <1>2 DEF PageInv, Loading, Missing
<1>8. InBlock(r, f)
  BY <1>3, <1>5 DEF PageInv, Loading, Missing, Filling
<1>9. PICK b \in Blocks : firstFrame[b] = r /\ f \in RangeOf(b)
  BY <1>6, <1>8 DEF InBlock
<1> QED
  BY <1>1, <1>6, <1>7, <1>9, OtherBlock

(* replace reads the page from the swap, and finds a free frame or a page in it. *)
LEMMA LoadStep ==
    ASSUME Apart, Inv, NEW t \in Threads, Load(t)
    PROVE  Inv'
<1>1. TypeInv /\ PetitionInv /\ ThreadInv(t) /\ OwnerInv /\ SwapInv
      /\ pc[t] = "load" /\ pc[t] # "idle"
  BY DEF Inv, ThreadsInv, Load
<1>2. PICK p \in Pids, n \in Pages, f \in Frames :
         petition[t].pid = p /\ petition[t].page = n /\ frame[t] = f /\ PageInv(t, p, n, f)
  BY <1>1, ThreadFacts DEF Load
<1>3. PICK c : c = swap[p][n]
  OBVIOUS
<1>4. /\ buffer' = [buffer EXCEPT ![t] = c]
      /\ UNCHANGED <<mode, frameVars, ram, table, tlb, swap>>
      /\ UNCHANGED <<client, petition, frame, reply, accesses>>
  BY <1>2, <1>3 DEF Load
<1>5. PICK q \in Pids \cup {NoPid}, m \in Pages, d \in BOOLEAN :
         q = meta[f].pid /\ m = meta[f].page /\ d = meta[f].modified
  BY <1>1 DEF TypeInv, FrameData
<1>6. \/ meta[f].isFree /\ Goes(t, "write") /\ victim' = victim
      \/ /\ ~meta[f].isFree /\ Goes(t, "drop")
         /\ victim' = [victim EXCEPT ![t] = [pid |-> q, page |-> m, modified |-> d]]
  BY <1>2, <1>5 DEF Load
<1>7. PICK s \in {"write", "drop"} : Goes(t, s) /\ s \in Steps /\ s # "idle"
                                     /\ (s = "write" <=> meta[f].isFree)
  BY <1>6 DEF Steps, Accessing
<1>8. PetitionInv' /\ pc'[t] = s /\ \A u \in Threads : u # t => pc'[u] = pc[u]
  BY <1>1, <1>4, <1>7, PetitionGoesOn
<1>9. c \in Contents
  <2>1. ~(PageCount(p) <= n)
    <3>1. n < PageCount(p) /\ n \in Nat /\ PageCount(p) \in Nat
      BY <1>1, <1>2, Sizes, PresentInTable DEF PageInv, Accessing
    <3> QED
      BY <3>1
  <2>2. swap[p][n] # NoPage
    BY <1>1, <2>1 DEF SwapInv
  <2> QED
    BY <1>1, <1>3, <2>2 DEF TypeInv
<1>10. /\ buffer' \in [Threads -> Contents] /\ buffer'[t] = c
       /\ \A u \in Threads : u # t => buffer'[u] = buffer[u]
  BY <1>1, <1>4, <1>9 DEF TypeInv
<1>11. /\ victim' \in [Threads -> [pid : Pids \cup {NoPid}, page : Pages, modified : BOOLEAN]]
       /\ \A u \in Threads : u # t => victim'[u] = victim[u]
       /\ ~meta[f].isFree =>
             victim'[t].pid = q /\ victim'[t].page = m /\ victim'[t].modified = d
  <2>1. victim \in [Threads -> [pid : Pids \cup {NoPid}, page : Pages, modified : BOOLEAN]]
    BY <1>1 DEF TypeInv
  <2> QED
    BY <1>6, <2>1
<1>12. petition' = petition /\ frame' = frame
  BY <1>4
<1>13. /\ \A u \in Threads : u # t => SameThread(u)
       /\ \A u \in Threads : pc[u] \in Filling => pc'[u] \in Filling /\ frame'[u] = frame[u]
       /\ \A u \in Threads : pc[u] \in Leaving => pc'[u] \in Leaving /\ petition'[u] = petition[u]
  BY <1>1, <1>8, <1>10, <1>11, <1>12 DEF SameThread, Filling, Leaving
<1>14. /\ BlockInv' /\ OwnerInv' /\ TlbInv' /\ SwapInv' /\ mode' = mode
       /\ \A r \in Pids : Kept(r)
       /\ mode.asignacion = "fijo" => \A r \in Pids : Quiet(r)
  BY <1>4, <1>13, HandsOnly
<1>15. TypeInv'
  BY <1>1, <1>4, <1>10, <1>11, <1>12 DEF TypeInv, frameVars
<1>16. ThreadInv(t)'
  <2>1. n < PageCount(p)' /\ ~Present(p, n)'
    BY <1>1, <1>2, <1>14 DEF Kept, SamePages, PageInv, Accessing, Loading, Missing
  <2>2. /\ tlb' = tlb /\ firstFrame' = firstFrame /\ swap' = swap /\ meta' = meta
        /\ table' = table /\ mode' = mode
    BY <1>4 DEF frameVars
  <2>3. Untranslated(p, n)'
    BY <1>1, <1>2, <2>2 DEF PageInv, Missing, Untranslated
  <2>4. InBlock(p, f)
    BY <1>1, <1>2 DEF PageInv, Loading, Missing
  <2>5. InBlock(p, f)'
    BY <2>2, <2>4, SameBlocks DEF InBlock
  <2>6. meta[f].isFree => \A r \in Pids, k \in Pages : ~(Present(r, k)' /\ FrameOf(r, k)' = f)
    BY <1>14, <2>2 DEF OwnerInv
  <2>7. buffer'[t] = swap'[p][n]
    BY <1>3, <1>10, <2>2
  <2>8. PageInv(t, p, n, f)'
    BY <1>7, <1>8, <2>1, <2>3, <2>5, <2>6, <2>7
       DEF PageInv, Accessing, Missing, Loading, Evicting, Filling
  <2>9. ~meta[f].isFree => q \in Pids /\ Present(q, m)' /\ FrameOf(q, m)' = f
                           /\ meta'[f].modified = d
    <3>1. ~meta[f].isFree => q \in Pids /\ Present(q, m) /\ FrameOf(q, m) = f
      BY <1>1, <1>2, <1>5, NobodyFills
    <3> QED
      BY <1>5, <1>14, <2>2, <3>1 DEF Kept, SamePages
  <2>10. \A r \in Pids, k \in Pages :
            victim'[t].pid = r /\ victim'[t].page = k => VictimInv(t, r, k, f)'
    BY <1>7, <1>8, <1>11, <2>9 DEF VictimInv, Evicting
  <2>11. pc'[t] \in Evicting => victim'[t].pid \in Pids
    BY <1>7, <1>8, <1>11, <2>9 DEF Evicting
  <2>12. petition'[t].pid = p /\ petition'[t].page = n /\ frame'[t] = f
    BY <1>2, <1>12
  <2> QED
    BY <2>8, <2>10, <2>11, <2>12 DEF ThreadInv
<1>17. \A u \in Threads : u # t /\ pc[u] # "idle" =>
          mode.asignacion = "fijo" /\ petition[u].pid # p
  BY <1>1, <1>2, Others
<1> QED
  BY <1>8, <1>13, <1>14, <1>15, <1>16, <1>17, AllThreads

(* The page that leaves is in the TLB no more. *)
LEMMA EvictDropStep ==
    ASSUME Apart, Inv, NEW t \in Threads, EvictDrop(t)
    PROVE  Inv'
<1>1. TypeInv /\ PetitionInv /\ ThreadInv(t) /\ OwnerInv /\ SwapInv /\ BlockInv /\ TlbInv
      /\ pc[t] = "drop" /\ pc[t] # "idle" /\ pc[t] \in Evicting
  BY DEF Inv, ThreadsInv, EvictDrop, Evicting
<1>2. PICK p \in Pids, n \in Pages, f \in Frames \cup {NoFrame} :
         /\ petition[t].pid = p /\ petition[t].page = n /\ frame[t] = f /\ PageInv(t, p, n, f)
         /\ pc[t] \in Evicting \cup Filling \cup {"use"} => f \in Frames
         /\ pc[t] \in Evicting =>
              \E q \in Pids, m \in Pages :
                  victim[t].pid = q /\ victim[t].page = m /\ VictimInv(t, q, m, f)
  BY <1>1, ThreadFacts
<1>3. f \in Frames
  BY <1>1, <1>2
<1>4. PICK q \in Pids, m \in Pages :
         victim[t].pid = q /\ victim[t].page = m /\ VictimInv(t, q, m, f)
  BY <1>1, <1>2
<1>5. /\ tlb' = DropEntry(tlb, q, m) /\ Goes(t, "save")
      /\ UNCHANGED <<mode, frameVars, ram, table, swap>>
      /\ UNCHANGED <<client, petition, frame, buffer, victim, reply, accesses>>
  BY <1>4 DEF EvictDrop
<1>6. "save" \in Steps /\ "save" # "idle"
  BY DEF Steps, Accessing
<1>7. PetitionInv' /\ pc'[t] = "save" /\ \A u \in Threads : u # t => pc'[u] = pc[u]
  BY <1>1, <1>5, <1>6, PetitionGoesOn
<1>8. /\ TlbWhole(tlb', mode.tlbSize)
      /\ \A r, k, g : Translates(tlb', r, k, g) => Translates(tlb, r, k, g) /\ ~(r = q /\ k = m)
  <2>1. mode.tlbSize \in Nat /\ TlbWhole(tlb, mode.tlbSize)
    BY <1>1, ModeType DEF TlbInv
  <2> QED
    BY <1>5, <2>1, EntryDropped
<1>9. /\ \A u \in Threads : u # t => SameThread(u)
      /\ \A u \in Threads : pc[u] \in Filling => pc'[u] \in Filling /\ frame'[u] = frame[u]
      /\ \A u \in Threads : pc[u] \in Leaving => pc'[u] \in Leaving /\ petition'[u] = petition[u]
  BY <1>1, <1>5, <1>7 DEF SameThread, Filling, Leaving
<1>10. /\ UNCHANGED <<mode, firstFrame, hand, ram, table, swap>>
       /\ meta' = meta
       /\ \A g \in Frames : /\ meta'[g].isFree = meta[g].isFree /\ meta'[g].pid = meta[g].pid
                            /\ meta'[g].page = meta[g].page
                            /\ meta'[g].modified = meta[g].modified
       /\ \A r \in Pids, k \in Pages, g \in Frames : Translates(tlb', r, k, g) =>
             \/ Translates(tlb, r, k, g)
             \/ r = p /\ k = n /\ g = f /\ Present(p, n) /\ FrameOf(p, n) = f
  BY <1>5, <1>8 DEF frameVars
<1>11. /\ BlockInv' /\ OwnerInv' /\ TlbInv' /\ SwapInv' /\ mode' = mode
       /\ \A r \in Pids : Kept(r)
       /\ mode.asignacion = "fijo" => \A r \in Pids : r # p => Quiet(r)
  BY <1>8, <1>9, <1>10, SameMemory
<1>12. TypeInv'
  BY <1>1, <1>5 DEF TypeInv, frameVars
<1>13. ThreadInv(t)'
  <2>1. PageInv(t, p, n, f)'
    <3>1. n < PageCount(p)' /\ ~Present(p, n)'
      BY <1>1, <1>2, <1>11 DEF Kept, SamePages, PageInv, Accessing, Loading, Missing
    <3>2. Untranslated(p, n)'
      BY <1>1, <1>2, <1>8 DEF PageInv, Missing, Untranslated
    <3>3. InBlock(p, f)'
      <4>1. InBlock(p, f)
        BY <1>1, <1>2, <1>3 DEF PageInv, Loading, Missing
      <4> QED
        BY <1>10, <1>11, <4>1, SameBlocks DEF InBlock
    <3>4. buffer'[t] = swap'[p][n]
      BY <1>1, <1>2, <1>5 DEF PageInv
    <3> QED
      BY <1>7, <3>1, <3>2, <3>3, <3>4
         DEF PageInv, Accessing, Missing, Loading, Evicting, Filling
  <2>2. VictimInv(t, q, m, f)'
    <3>1. Present(q, m)' /\ FrameOf(q, m)' = f
      BY <1>1, <1>4, <1>11 DEF VictimInv, Kept, SamePages
    <3>2. meta'[f].modified = victim'[t].modified
      BY <1>1, <1>4, <1>5, <1>10 DEF VictimInv
    <3>3. Untranslated(q, m)'
      BY <1>8 DEF Untranslated
    <3> QED
      BY <1>7, <3>1, <3>2, <3>3 DEF VictimInv
  <2>3. /\ petition'[t].pid = p /\ petition'[t].page = n /\ frame'[t] = f
        /\ victim'[t].pid = q /\ victim'[t].page = m
    BY <1>2, <1>4, <1>5
  <2> QED
    BY <1>3, <2>1, <2>2, <2>3 DEF ThreadInv
<1>14. \A u \in Threads : u # t /\ pc[u] # "idle" =>
          mode.asignacion = "fijo" /\ petition[u].pid # p
  BY <1>1, <1>2, Others
<1> QED
  BY <1>7, <1>9, <1>11, <1>12, <1>13, <1>14, AllThreads

(* What a thread that replaces a page holds; with fixed assignment the page is of its process. *)
LEMMA EvictingFacts ==
    ASSUME TypeInv, PetitionInv, BlockInv, OwnerInv, NEW t \in Threads, pc[t] \in Evicting,
           ThreadInv(t)
    PROVE  \E p \in Pids, n \in Pages, q \in Pids, m \in Pages, f \in Frames :
             /\ petition[t].pid = p /\ petition[t].page = n /\ frame[t] = f
             /\ victim[t].pid = q /\ victim[t].page = m
             /\ PageInv(t, p, n, f) /\ VictimInv(t, q, m, f)
             /\ Present(q, m) /\ FrameOf(q, m) = f /\ ~Present(p, n) /\ InBlock(p, f)
             /\ mode.asignacion = "fijo" => q = p
<1>1. pc[t] # "idle" /\ pc[t] \in Evicting \cup Filling \cup {"use"}
      /\ pc[t] \in Loading /\ pc[t] \in Loading \cup {"use"}
  BY DEF Evicting, Loading, Missing
<1>2. PICK p \in Pids, n \in Pages, f \in Frames \cup {NoFrame} :
         /\ petition[t].pid = p /\ petition[t].page = n /\ frame[t] = f /\ PageInv(t, p, n, f)
         /\ pc[t] \in Evicting \cup Filling \cup {"use"} => f \in Frames
         /\ pc[t] \in Evicting =>
              \E q \in Pids, m \in Pages :
                  victim[t].pid = q /\ victim[t].page = m /\ VictimInv(t, q, m, f)
  BY <1>1, ThreadFacts
<1>3. f \in Frames
  BY <1>1, <1>2
<1>4. PICK q \in Pids, m \in Pages :
         victim[t].pid = q /\ victim[t].page = m /\ VictimInv(t, q, m, f)
  BY <1>2
<1>5. Present(q, m) /\ FrameOf(q, m) = f
  BY <1>4 DEF VictimInv
<1>6. ~Present(p, n) /\ InBlock(p, f)
  BY <1>1, <1>2, <1>3 DEF PageInv
<1>7. ASSUME mode.asignacion = "fijo" PROVE q = p
  <2>1. PICK b \in Blocks : firstFrame[b] = p /\ f \in RangeOf(b)
    BY <1>6, <1>7 DEF InBlock
  <2>2. firstFrame[b] = q
    BY <1>5, <1>7, <2>1, PageInBlock
  <2> QED
    BY <2>1, <2>2
<1> QED
  BY <1>2, <1>3, <1>4, <1>5, <1>6, <1>7

(* The page that leaves is in the swap as its frame has it. *)
LEMMA EvictSaveStep ==
    ASSUME Apart, Inv, NEW t \in Threads, EvictSave(t)
    PROVE  Inv'
<1>1. TypeInv /\ PetitionInv /\ ThreadInv(t) /\ OwnerInv /\ SwapInv /\ BlockInv /\ TlbInv
      /\ pc[t] = "save" /\ pc[t] # "idle" /\ pc[t] \in Evicting
  BY DEF Inv, ThreadsInv, EvictSave, Evicting
<1>2. PICK p \in Pids, n \in Pages, q \in Pids, m \in Pages, f \in Frames :
         /\ petition[t].pid = p /\ petition[t].page = n /\ frame[t] = f
         /\ victim[t].pid = q /\ victim[t].page = m
         /\ PageInv(t, p, n, f) /\ VictimInv(t, q, m, f)
         /\ Present(q, m) /\ FrameOf(q, m) = f /\ ~Present(p, n) /\ InBlock(p, f)
         /\ mode.asignacion = "fijo" => q = p
  BY <1>1, EvictingFacts
<1>3. PICK c : c = ram[f]
  OBVIOUS
<1>4. /\ swap' = IF victim[t].modified THEN [swap EXCEPT ![q][m] = c] ELSE swap
      /\ Goes(t, "unmap")
      /\ UNCHANGED <<mode, meta, recency, firstFrame, hand, ram, table, tlb, client, petition,
                     frame, buffer, victim, reply, accesses>>
  BY <1>2, <1>3 DEF EvictSave, frameVars
<1>5. "unmap" \in Steps /\ "unmap" # "idle"
  BY DEF Steps, Accessing
<1>6. PetitionInv' /\ pc'[t] = "unmap" /\ \A u \in Threads : u # t => pc'[u] = pc[u]
  BY <1>1, <1>4, <1>5, PetitionGoesOn
<1>7. c \in Contents /\ c # NoPage
  BY <1>1, <1>3, PagingAssumption DEF PagingAssumption, TypeInv
<1>8. /\ swap' \in [Pids -> [Pages -> Contents \cup {NoPage}]]
      /\ swap'[q][m] = c
      /\ \A r \in Pids, k \in Pages : ~(r = q /\ k = m) => swap'[r][k] = swap[r][k]
      /\ swap[q][m] # NoPage
  <2>1. swap \in [Pids -> [Pages -> Contents \cup {NoPage}]]
    BY <1>1 DEF TypeInv
  <2>2. ~victim[t].modified => swap[q][m] = c
    BY <1>1, <1>2, <1>3 DEF VictimInv, SwapInv
  <2>3. swap[q][m] # NoPage
    <3>1. m < PageCount(q) /\ m \in Nat /\ PageCount(q) \in Nat
      BY <1>1, <1>2, PresentInTable, Sizes
    <3>2. ~(PageCount(q) <= m)
      BY <3>1
    <3> QED
      BY <1>1, <3>2 DEF SwapInv
  <2>4. CASE victim[t].modified
    <3>1. swap' = [swap EXCEPT ![q][m] = c]
      BY <1>4, <2>4
    <3>2. PICK s \in [Pages -> Contents \cup {NoPage}] : s = swap[q]
      BY <2>1
    <3>3. PICK z : z = [s EXCEPT ![m] = c]
      OBVIOUS
    <3>4. z \in [Pages -> Contents \cup {NoPage}] /\ z[m] = c
          /\ \A k \in Pages : k # m => z[k] = s[k]
      BY <1>7, <3>2, <3>3
    <3>5. swap' = [swap EXCEPT ![q] = z]
      BY <3>1, <3>2, <3>3
    <3>6. swap'[q] = z /\ (\A r \in Pids : r # q => swap'[r] = swap[r])
          /\ swap' \in [Pids -> [Pages -> Contents \cup {NoPage}]]
      BY <2>1, <3>4, <3>5
    <3> QED
      BY <2>3, <3>2, <3>4, <3>6
  <2>5. CASE ~victim[t].modified
    <3>1. swap' = swap
      BY <1>4, <2>5
    <3> QED
      BY <2>1, <2>2, <2>3, <2>5, <3>1
  <2> QED
    BY <2>4, <2>5
<1>9. /\ \A u \in Threads : u # t => SameThread(u)
      /\ \A u \in Threads : pc[u] \in Filling => pc'[u] \in Filling /\ frame'[u] = frame[u]
      /\ \A u \in Threads : pc[u] \in Leaving => pc'[u] \in Leaving /\ petition'[u] = petition[u]
  BY <1>1, <1>4, <1>6 DEF SameThread, Filling, Leaving
<1>10. /\ mode' = mode /\ firstFrame' = firstFrame /\ hand' = hand /\ ram' = ram /\ meta' = meta
       /\ table' = table /\ tlb' = tlb
  BY <1>4
<1>11. \A r \in Pids : Kept(r) /\ SamePages(r)
  BY <1>10, TablesKept DEF Kept
<1>12. BlockInv'
  <2>1. \A g \in Frames : meta'[g].isFree \/ (~meta[g].isFree /\ meta'[g].pid = meta[g].pid)
    BY <1>10
  <2> QED
    BY <1>1, <1>10, <2>1, BlocksKept
<1>13. OwnerInv'
  <2>1. \A g \in Frames : /\ meta'[g].isFree = meta[g].isFree /\ meta'[g].pid = meta[g].pid
                          /\ meta'[g].page = meta[g].page
    BY <1>10
  <2> QED
    BY <1>1, <1>9, <1>11, <2>1, OwnersKept
<1>14. TlbInv'
  <2>1. TlbWhole(tlb', mode'.tlbSize)
    BY <1>1, <1>10 DEF TlbInv
  <2> QED
    BY <1>1, <1>9, <1>10, <1>11, <2>1, TlbKept
<1>15. SwapInv'
  <2>1. ASSUME NEW r \in Pids, NEW k \in Pages, NEW g \in Frames, Present(r, k)',
               FrameOf(r, k)' = g
        PROVE  meta'[g].modified \/ ram'[g] = swap'[r][k]
    <3>1. Present(r, k) /\ FrameOf(r, k) = g
      BY <1>11, <2>1 DEF SamePages
    <3>2. meta[g].modified \/ ram[g] = swap[r][k]
      BY <1>1, <3>1 DEF SwapInv
    <3>3. CASE r = q /\ k = m
      BY <1>2, <1>3, <1>8, <1>10, <3>1, <3>3
    <3>4. CASE ~(r = q /\ k = m)
      BY <1>8, <1>10, <3>2, <3>4
    <3> QED
      BY <3>3, <3>4
  <2>2. ASSUME NEW r \in Pids, NEW k \in Pages
        PROVE  swap'[r][k] = NoPage <=> PageCount(r)' <= k
    <3>1. swap[r][k] = NoPage <=> PageCount(r) <= k
      BY <1>1 DEF SwapInv
    <3>2. PageCount(r)' = PageCount(r)
      BY <1>11 DEF Kept
    <3> QED
      BY <1>7, <1>8, <3>1, <3>2
  <2> QED
    BY <2>1, <2>2 DEF SwapInv
<1>16. TypeInv'
  BY <1>1, <1>4, <1>8 DEF TypeInv
<1>17. ThreadInv(t)'
  <2>1. PageInv(t, p, n, f)'
    <3>1. n < PageCount(p)' /\ ~Present(p, n)'
      BY <1>1, <1>2, <1>11 DEF Kept, SamePages, PageInv, Accessing
    <3>2. Untranslated(p, n)'
      BY <1>1, <1>2, <1>10 DEF PageInv, Missing, Untranslated
    <3>3. InBlock(p, f)'
      BY <1>2, <1>10, SameBlocks DEF InBlock
    <3>4. buffer'[t] = swap'[p][n]
      <4>1. ~(p = q /\ n = m)
        BY <1>2
      <4> QED
        BY <1>1, <1>2, <1>4, <1>8, <4>1 DEF PageInv
    <3> QED
      BY <1>6, <3>1, <3>2, <3>3, <3>4
         DEF PageInv, Accessing, Missing, Loading, Evicting, Filling
  <2>2. VictimInv(t, q, m, f)'
    <3>1. Present(q, m)' /\ FrameOf(q, m)' = f
      BY <1>2, <1>11 DEF SamePages
    <3>2. meta'[f].modified = victim'[t].modified
      BY <1>1, <1>2, <1>4 DEF VictimInv
    <3>3. Untranslated(q, m)'
      BY <1>1, <1>2, <1>10 DEF VictimInv, Untranslated
    <3>4. swap'[q][m] = ram'[f]
      BY <1>3, <1>8, <1>10
    <3> QED
      BY <1>6, <3>1, <3>2, <3>3, <3>4 DEF VictimInv
  <2>3. /\ petition'[t].pid = p /\ petition'[t].page = n /\ frame'[t] = f
        /\ victim'[t].pid = q /\ victim'[t].page = m
    BY <1>2, <1>4
  <2> QED
    BY <2>1, <2>2, <2>3 DEF ThreadInv
<1>18. ASSUME mode.asignacion = "fijo", NEW r \in Pids, r # p PROVE Quiet(r)
  <2>1. \A k \in Pages : swap'[r][k] = swap[r][k]
    BY <1>2, <1>8, <1>18
  <2>2. \A b \in Blocks : RangeOf(b) \subseteq Frames
    BY <1>1, BlockRange
  <2> QED
    BY <1>10, <1>11, <1>18, <2>1, <2>2 DEF Quiet
<1>19. \A u \in Threads : u # t /\ pc[u] # "idle" =>
          mode.asignacion = "fijo" /\ petition[u].pid # p
  BY <1>1, <1>2, Others
<1> QED
  BY <1>6, <1>9, <1>10, <1>12, <1>13, <1>14, <1>15, <1>16, <1>17, <1>18, <1>19, AllThreads

(* The page that leaves is present no more, and nobody's page is in the frame. *)
LEMMA EvictUnmapStep ==
    ASSUME Apart, Inv, NEW t \in Threads, EvictUnmap(t)
    PROVE  Inv'
<1>1. TypeInv /\ PetitionInv /\ ThreadInv(t) /\ OwnerInv /\ SwapInv /\ BlockInv /\ TlbInv
      /\ pc[t] = "unmap" /\ pc[t] # "idle" /\ pc[t] \in Evicting
  BY DEF Inv, ThreadsInv, EvictUnmap, Evicting
<1>2. PICK p \in Pids, n \in Pages, q \in Pids, m \in Pages, f \in Frames :
         /\ petition[t].pid = p /\ petition[t].page = n /\ frame[t] = f
         /\ victim[t].pid = q /\ victim[t].page = m
         /\ PageInv(t, p, n, f) /\ VictimInv(t, q, m, f)
         /\ Present(q, m) /\ FrameOf(q, m) = f /\ ~Present(p, n) /\ InBlock(p, f)
         /\ mode.asignacion = "fijo" => q = p
  BY <1>1, EvictingFacts
<1>3. PICK e \in PageEntry : e = [present |-> FALSE, frame |-> NoFrame] /\ ~e.present
  <2>1. /\ [present |-> FALSE, frame |-> NoFrame] \in PageEntry
        /\ ~[present |-> FALSE, frame |-> NoFrame].present
    BY DEF PageEntry
  <2> QED
    BY <2>1
<1>4. /\ table' = [table EXCEPT ![q][m + 1] = e] /\ Goes(t, "write") /\ m < PageCount(q)
      /\ UNCHANGED <<mode, meta, recency, firstFrame, hand, ram, swap, tlb, client, petition,
                     frame, buffer, victim, reply, accesses>>
  BY <1>2, <1>3 DEF EvictUnmap, frameVars
<1>5. "write" \in Steps /\ "write" # "idle"
  BY DEF Steps, Accessing
<1>6. PetitionInv' /\ pc'[t] = "write" /\ \A u \in Threads : u # t => pc'[u] = pc[u]
  BY <1>1, <1>4, <1>5, PetitionGoesOn
<1>7. /\ table' \in [Pids -> Seq(PageEntry)] /\ \A r \in Pids : Len(table'[r]) <= MaxTable
      /\ \A r \in Pids : r # q => Kept(r)
      /\ PageCount(q)' = PageCount(q)
      /\ ~Present(q, m)'
      /\ \A k \in Pages : k # m => /\ Present(q, k)' <=> Present(q, k)
                                   /\ Present(q, k) => FrameOf(q, k)' = FrameOf(q, k)
  BY <1>1, <1>3, <1>4, EntryWritten
<1>8. /\ \A r \in Pids : PageCount(r)' = PageCount(r)
      /\ \A r \in Pids, k \in Pages : ~(r = q /\ k = m) =>
            /\ Present(r, k)' <=> Present(r, k)
            /\ Present(r, k) => FrameOf(r, k)' = FrameOf(r, k)
  BY <1>7 DEF Kept, SamePages
<1>9. /\ \A u \in Threads : u # t => SameThread(u)
      /\ \A u \in Threads : pc[u] \in Filling => pc'[u] \in Filling /\ frame'[u] = frame[u]
      /\ \A u \in Threads : pc[u] \in Leaving => pc'[u] \in Leaving /\ petition'[u] = petition[u]
  BY <1>1, <1>4, <1>6 DEF SameThread, Filling, Leaving
<1>10. /\ mode' = mode /\ firstFrame' = firstFrame /\ hand' = hand /\ ram' = ram /\ meta' = meta
       /\ swap' = swap /\ tlb' = tlb /\ petition' = petition /\ frame' = frame
       /\ buffer' = buffer /\ victim' = victim
  BY <1>4
<1>12. BlockInv'
  <2>1. \A g \in Frames : meta'[g].isFree \/ (~meta[g].isFree /\ meta'[g].pid = meta[g].pid)
    BY <1>10
  <2> QED
    BY <1>1, <1>10, <2>1, BlocksKept
<1>13. OwnerInv'
  <2>1. ASSUME NEW r \in Pids, NEW k \in Pages, Present(r, k)'
        PROVE  \E g \in Frames : FrameOf(r, k)' = g /\ ~meta'[g].isFree
                                 /\ meta'[g].pid = r /\ meta'[g].page = k
    <3>1. Present(r, k) /\ FrameOf(r, k)' = FrameOf(r, k)
      BY <1>7, <1>8, <2>1
    <3>2. PICK g \in Frames : FrameOf(r, k) = g /\ ~meta[g].isFree
                              /\ meta[g].pid = r /\ meta[g].page = k
      BY <1>1, <3>1 DEF OwnerInv
    <3> QED
      BY <1>10, <3>1, <3>2
  <2>2. ASSUME NEW g \in Frames
        PROVE  \/ meta'[g].isFree
               \/ \E r \in Pids, k \in Pages :
                    meta'[g].pid = r /\ meta'[g].page = k /\ Present(r, k)' /\ FrameOf(r, k)' = g
               \/ \E u \in Threads : frame'[u] = g /\ pc'[u] \in Filling
    <3>1. CASE g = f
      BY <1>2, <1>6, <1>10, <3>1 DEF Filling
    <3>2. CASE g # f
      <4>1. \/ meta[g].isFree
            \/ \E r \in Pids, k \in Pages :
                 meta[g].pid = r /\ meta[g].page = k /\ Present(r, k) /\ FrameOf(r, k) = g
            \/ \E u \in Threads : frame[u] = g /\ pc[u] \in Filling
        BY <1>1 DEF OwnerInv
      <4>2. ASSUME NEW r \in Pids, NEW k \in Pages, meta[g].pid = r, meta[g].page = k,
                   Present(r, k), FrameOf(r, k) = g
            PROVE  meta'[g].pid = r /\ meta'[g].page = k /\ Present(r, k)' /\ FrameOf(r, k)' = g
        <5>1. ~(r = q /\ k = m)
          BY <1>2, <3>2, <4>2
        <5> QED
          BY <1>8, <1>10, <4>2, <5>1
      <4> QED
        BY <1>9, <1>10, <4>1, <4>2
    <3> QED
      BY <3>1, <3>2
  <2> QED
    BY <2>1, <2>2 DEF OwnerInv
<1>14. TlbInv'
  <2>1. TlbWhole(tlb', mode'.tlbSize)
    BY <1>1, <1>10 DEF TlbInv
  <2>2. ASSUME NEW r \in Pids, NEW k \in Pages, NEW g \in Frames, Translates(tlb', r, k, g)
        PROVE  \/ Present(r, k)' /\ FrameOf(r, k)' = g
               \/ \E u \in Threads : petition'[u].pid = r /\ pc'[u] \in Leaving
    <3>1. Translates(tlb, r, k, g)
      BY <1>10, <2>2
    <3>2. ~(r = q /\ k = m)
      BY <1>1, <1>2, <3>1 DEF VictimInv, Untranslated
    <3>3. \/ Present(r, k) /\ FrameOf(r, k) = g
          \/ \E u \in Threads : petition[u].pid = r /\ pc[u] \in Leaving
      BY <1>1, <3>1 DEF TlbInv, Leaving
    <3> QED
      BY <1>8, <1>9, <3>2, <3>3
  <2> QED
    BY <2>1, <2>2 DEF TlbInv, Leaving
<1>15. SwapInv'
  <2>1. ASSUME NEW r \in Pids, NEW k \in Pages, NEW g \in Frames, Present(r, k)',
               FrameOf(r, k)' = g
        PROVE  meta'[g].modified \/ ram'[g] = swap'[r][k]
    <3>1. Present(r, k) /\ FrameOf(r, k) = g
      BY <1>7, <1>8, <2>1
    <3> QED
      BY <1>1, <1>10, <3>1 DEF SwapInv
  <2>2. ASSUME NEW r \in Pids, NEW k \in Pages
        PROVE  swap'[r][k] = NoPage <=> PageCount(r)' <= k
    BY <1>1, <1>8, <1>10 DEF SwapInv
  <2> QED
    BY <2>1, <2>2 DEF SwapInv
<1>16. TypeInv'
  BY <1>1, <1>4, <1>7 DEF TypeInv
<1>17. ThreadInv(t)'
  <2>1. PageInv(t, p, n, f)'
    <3>1. n < PageCount(p)' /\ ~Present(p, n)'
      <4>1. n < PageCount(p)
        BY <1>1, <1>2 DEF PageInv, Accessing
      <4> QED
        BY <1>2, <1>7, <1>8, <4>1
    <3>2. Untranslated(p, n)'
      BY <1>1, <1>2, <1>10 DEF PageInv, Missing, Untranslated
    <3>3. InBlock(p, f)'
      BY <1>2, <1>10, SameBlocks DEF InBlock
    <3>4. buffer'[t] = swap'[p][n]
      BY <1>1, <1>2, <1>10 DEF PageInv
    <3>5. ASSUME NEW r \in Pids, NEW k \in Pages, Present(r, k)', FrameOf(r, k)' = f PROVE FALSE
      <4>1. Present(r, k) /\ FrameOf(r, k) = f /\ ~(r = q /\ k = m)
        BY <1>7, <1>8, <3>5
      <4>2. meta[f].pid = r /\ meta[f].page = k
        BY <1>1, <4>1 DEF OwnerInv
      <4>3. meta[f].pid = q /\ meta[f].page = m
        BY <1>1, <1>2 DEF OwnerInv
      <4> QED
        BY <4>1, <4>2, <4>3
    <3> QED
      BY <1>6, <3>1, <3>2, <3>3, <3>4, <3>5
         DEF PageInv, Accessing, Missing, Loading, Evicting, Filling
  <2>2. \A r \in Pids, k \in Pages : VictimInv(t, r, k, f)'
    BY <1>6 DEF VictimInv, Evicting
  <2>3. petition'[t].pid = p /\ petition'[t].page = n /\ frame'[t] = f
    BY <1>2, <1>10
  <2> QED
    BY <1>6, <2>1, <2>2, <2>3 DEF ThreadInv, Evicting
<1>18. ASSUME mode.asignacion = "fijo", NEW r \in Pids, r # p PROVE Quiet(r)
  <2>1. Kept(r)
    BY <1>2, <1>7, <1>18
  <2>2. \A b \in Blocks : RangeOf(b) \subseteq Frames
    BY <1>1, BlockRange
  <2> QED
    BY <1>10, <1>18, <2>1, <2>2 DEF Quiet
<1>19. \A u \in Threads : u # t /\ pc[u] # "idle" =>
          mode.asignacion = "fijo" /\ petition[u].pid # p
  BY <1>1, <1>2, Others
<1> QED
  BY <1>6, <1>9, <1>10, <1>12, <1>13, <1>14, <1>15, <1>16, <1>17, <1>18, <1>19, AllThreads

(* A frame that is written keeps its page and is modified. *)
LEMMA MarkedModified ==
    ASSUME TypeInv, NEW f \in Frames, meta' = [meta EXCEPT ![f].modified = TRUE, ![f].u = TRUE]
    PROVE  /\ meta' \in [Frames -> FrameData]
           /\ \A g \in Frames : /\ meta'[g].isFree = meta[g].isFree /\ meta'[g].pid = meta[g].pid
                                /\ meta'[g].page = meta[g].page
                                /\ g # f => meta'[g].modified = meta[g].modified
           /\ meta'[f].modified
<1> PICK d \in FrameData : d = meta[f]
  BY DEF TypeInv
<1> PICK a \in FrameData : a = [d EXCEPT !.modified = TRUE]
  BY DEF FrameData
<1> PICK e \in FrameData : e = [a EXCEPT !.u = TRUE]
  BY DEF FrameData
<1>1. a.isFree = d.isFree /\ a.pid = d.pid /\ a.page = d.page /\ a.modified
  BY DEF FrameData
<1>2. e.isFree = a.isFree /\ e.pid = a.pid /\ e.page = a.page /\ e.modified = a.modified
  BY DEF FrameData
<1>3. meta' = [meta EXCEPT ![f] = e]
  BY DEF TypeInv
<1>4. /\ meta' \in [Frames -> FrameData] /\ meta'[f] = e
      /\ \A g \in Frames : g # f => meta'[g] = meta[g]
  BY <1>3 DEF TypeInv
<1> QED
  BY <1>1, <1>2, <1>4

(* A process is not disturbed by what happens to a frame of another's block. *)
LEMMA QuietElsewhere ==
    ASSUME TypeInv, mode.asignacion = "fijo", NEW p \in Pids, NEW f \in Frames, InBlock(p, f),
           NEW r \in Pids, r # p, Kept(r), firstFrame' = firstFrame, swap' = swap,
           \A k \in Pages, g \in Frames : Translates(tlb', r, k, g) => Translates(tlb, r, k, g),
           \A g \in Frames : g # f => meta'[g].modified = meta[g].modified /\ ram'[g] = ram[g]
    PROVE  Quiet(r)
<1>1. ASSUME NEW b \in Blocks, firstFrame[b] = r, NEW g \in RangeOf(b)
      PROVE  meta'[g].modified = meta[g].modified /\ ram'[g] = ram[g]
  <2>1. g # f
    BY <1>1, OtherBlock
  <2>2. g \in Frames
    BY BlockRange
  <2> QED
    BY <2>1, <2>2
<1> QED
  BY <1>1 DEF Quiet

(* The page is written in the frame. *)
LEMMA WriteFrameStep ==
    ASSUME Apart, Inv, NEW t \in Threads, WriteFrame(t)
    PROVE  Inv'
<1>1. TypeInv /\ PetitionInv /\ ThreadInv(t) /\ OwnerInv /\ SwapInv /\ BlockInv /\ TlbInv
      /\ pc[t] = "write" /\ pc[t] # "idle"
  BY DEF Inv, ThreadsInv, WriteFrame
<1>2. PICK p \in Pids, n \in Pages, f \in Frames :
         petition[t].pid = p /\ petition[t].page = n /\ frame[t] = f /\ PageInv(t, p, n, f)
  BY <1>1, ThreadFacts DEF Filling
<1>3. PICK c \in Contents : c = buffer[t]
  BY <1>1 DEF TypeInv
<1>4. /\ ram' = [ram EXCEPT ![f] = c] /\ Goes(t, "install")
      /\ meta' = [meta EXCEPT ![f].modified = TRUE, ![f].u = TRUE]
      /\ UNCHANGED <<mode, recency, firstFrame, hand, table, tlb, swap, client, petition, frame,
                     buffer, victim, reply, accesses>>
  BY <1>2, <1>3 DEF WriteFrame
<1>5. "install" \in Steps /\ "install" # "idle"
  BY DEF Steps, Accessing
<1>6. PetitionInv' /\ pc'[t] = "install" /\ \A u \in Threads : u # t => pc'[u] = pc[u]
  BY <1>1, <1>4, <1>5, PetitionGoesOn
<1>7. /\ meta' \in [Frames -> FrameData]
      /\ \A g \in Frames : /\ meta'[g].isFree = meta[g].isFree /\ meta'[g].pid = meta[g].pid
                           /\ meta'[g].page = meta[g].page
                           /\ g # f => meta'[g].modified = meta[g].modified
      /\ meta'[f].modified
  BY <1>1, <1>4, MarkedModified
<1>8. /\ ram' \in [Frames -> Contents] /\ ram'[f] = c
      /\ \A g \in Frames : g # f => ram'[g] = ram[g]
  BY <1>1, <1>4 DEF TypeInv
<1>9. /\ \A u \in Threads : u # t => SameThread(u)
      /\ \A u \in Threads : pc[u] \in Filling => pc'[u] \in Filling /\ frame'[u] = frame[u]
      /\ \A u \in Threads : pc[u] \in Leaving => pc'[u] \in Leaving /\ petition'[u] = petition[u]
  BY <1>1, <1>4, <1>6 DEF SameThread, Filling, Leaving
<1>10. /\ mode' = mode /\ firstFrame' = firstFrame /\ hand' = hand
       /\ swap' = swap /\ tlb' = tlb /\ petition' = petition /\ frame' = frame
       /\ buffer' = buffer /\ victim' = victim /\ table' = table
  BY <1>4
<1>11. \A r \in Pids : Kept(r) /\ SamePages(r)
  BY <1>10, TablesKept DEF Kept
<1>12. BlockInv'
  BY <1>1, <1>7, <1>10, BlocksKept
<1>13. OwnerInv'
  BY <1>1, <1>7, <1>9, <1>11, OwnersKept
<1>14. TlbInv'
  <2>1. TlbWhole(tlb', mode'.tlbSize)
    BY <1>1, <1>10 DEF TlbInv
  <2> QED
    BY <1>1, <1>9, <1>10, <1>11, <2>1, TlbKept
<1>15. SwapInv'
  <2>1. ASSUME NEW r \in Pids, NEW k \in Pages, NEW g \in Frames, Present(r, k)',
               FrameOf(r, k)' = g
        PROVE  meta'[g].modified \/ ram'[g] = swap'[r][k]
    <3>1. Present(r, k) /\ FrameOf(r, k) = g
      BY <1>11, <2>1 DEF SamePages
    <3>2. meta[g].modified \/ ram[g] = swap[r][k]
      BY <1>1, <3>1 DEF SwapInv
    <3> QED
      BY <1>7, <1>8, <1>10, <3>2
  <2>2. ASSUME NEW r \in Pids, NEW k \in Pages
        PROVE  swap'[r][k] = NoPage <=> PageCount(r)' <= k
    BY <1>1, <1>10, <1>11 DEF SwapInv, Kept
  <2> QED
    BY <2>1, <2>2 DEF SwapInv
<1>16. TypeInv'
  <2>1. \A g \in Frames : meta'[g].isFree \/ meta'[g].pid \in Pids
    BY <1>1, <1>7 DEF TypeInv
  <2> QED
    BY <1>1, <1>4, <1>7, <1>8, <2>1 DEF TypeInv
<1>17. ThreadInv(t)'
  <2>1. PageInv(t, p, n, f)'
    <3>1. n < PageCount(p)' /\ ~Present(p, n)'
      BY <1>1, <1>2, <1>11 DEF Kept, SamePages, PageInv, Accessing, Loading, Missing
    <3>2. Untranslated(p, n)'
      BY <1>1, <1>2, <1>10 DEF PageInv, Missing, Untranslated
    <3>3. InBlock(p, f)'
      <4>1. InBlock(p, f)
        BY <1>1, <1>2 DEF PageInv, Loading, Missing
      <4> QED
        BY <1>10, <4>1, SameBlocks DEF InBlock
    <3>4. ram'[f] = swap'[p][n]
      BY <1>1, <1>2, <1>3, <1>8, <1>10 DEF PageInv
    <3>5. \A r \in Pids, k \in Pages : ~(Present(r, k)' /\ FrameOf(r, k)' = f)
      BY <1>1, <1>2, <1>11 DEF PageInv, Filling, SamePages
    <3> QED
      BY <1>6, <3>1, <3>2, <3>3, <3>4, <3>5
         DEF PageInv, Accessing, Missing, Loading, Evicting, Filling
  <2>2. \A r \in Pids, k \in Pages : VictimInv(t, r, k, f)'
    BY <1>6 DEF VictimInv, Evicting
  <2>3. petition'[t].pid = p /\ petition'[t].page = n /\ frame'[t] = f
    BY <1>2, <1>10
  <2> QED
    BY <1>6, <2>1, <2>2, <2>3 DEF ThreadInv, Evicting
<1>18. ASSUME mode.asignacion = "fijo", NEW r \in Pids, r # p PROVE Quiet(r)
  <2>1. InBlock(p, f)
    BY <1>1, <1>2 DEF PageInv, Loading, Missing
  <2> QED
    BY <1>1, <1>7, <1>8, <1>10, <1>11, <1>18, <2>1, QuietElsewhere
<1>19. \A u \in Threads : u # t /\ pc[u] # "idle" =>
          mode.asignacion = "fijo" /\ petition[u].pid # p
  BY <1>1, <1>2, Others
<1> QED
  BY <1>6, <1>9, <1>10, <1>12, <1>13, <1>14, <1>15, <1>16, <1>17, <1>18, <1>19, AllThreads

(* The page is present in its frame, and in the TLB. *)
LEMMA InstallStep ==
    ASSUME Apart, Inv, NEW t \in Threads, Install(t)
    PROVE  Inv'
<1>1. TypeInv /\ PetitionInv /\ ThreadInv(t) /\ OwnerInv /\ SwapInv /\ BlockInv /\ TlbInv
      /\ pc[t] = "install" /\ pc[t] # "idle"
  BY DEF Inv, ThreadsInv, Install
<1>2. PICK p \in Pids, n \in Pages, f \in Frames :
         petition[t].pid = p /\ petition[t].page = n /\ frame[t] = f /\ PageInv(t, p, n, f)
  BY <1>1, ThreadFacts DEF Filling
<1>3. PICK e \in PageEntry : e = [present |-> TRUE, frame |-> f] /\ e.present /\ e.frame = f
  <2>1. /\ [present |-> TRUE, frame |-> f] \in PageEntry
        /\ [present |-> TRUE, frame |-> f].present /\ [present |-> TRUE, frame |-> f].frame = f
    BY DEF PageEntry
  <2> QED
    BY <2>1
<1>4. PICK d \in FrameData :
         /\ d = [isFree |-> FALSE, modified |-> FALSE, u |-> TRUE, pid |-> p, page |-> n]
         /\ ~d.isFree /\ d.pid = p /\ d.page = n
  <2> DEFINE r == [isFree |-> FALSE, modified |-> FALSE, u |-> TRUE, pid |-> p, page |-> n]
  <2>1. r \in FrameData /\ ~r.isFree /\ r.pid = p /\ r.page = n
    BY DEF FrameData
  <2> QED
    BY <2>1
<1>5. /\ table' = [table EXCEPT ![p][n + 1] = e] /\ Stamp(f) /\ Uses(t, f)
      /\ tlb' = AddEntry(tlb, p, n, f) /\ meta' = [meta EXCEPT ![f] = d]
      /\ UNCHANGED <<mode, firstFrame, hand, ram, swap, client, petition, buffer, victim,
                     reply, accesses>>
  BY <1>2, <1>3, <1>4 DEF Install
<1>6. "use" \in Steps /\ "use" # "idle"
  BY DEF Steps, Accessing
<1>7. PetitionInv' /\ pc'[t] = "use" /\ \A u \in Threads : u # t => pc'[u] = pc[u]
  BY <1>1, <1>5, <1>6, PetitionGoesOn DEF Uses
<1>8. /\ frame' \in [Threads -> Frames \cup {NoFrame}] /\ frame'[t] = f
      /\ \A u \in Threads : u # t => frame'[u] = frame[u]
  BY <1>1, <1>5 DEF Uses, TypeInv
<1>9. /\ n < PageCount(p) /\ ~Present(p, n) /\ InBlock(p, f) /\ ram[f] = swap[p][n]
      /\ \A r \in Pids, k \in Pages : ~(Present(r, k) /\ FrameOf(r, k) = f)
      /\ \A g \in Frames : ~Translates(tlb, p, n, g)
  BY <1>1, <1>2 DEF PageInv, Accessing, Missing, Loading, Filling, Untranslated
<1>10. /\ table' \in [Pids -> Seq(PageEntry)] /\ \A r \in Pids : Len(table'[r]) <= MaxTable
       /\ \A r \in Pids : r # p => Kept(r)
       /\ PageCount(p)' = PageCount(p)
       /\ Present(p, n)' /\ FrameOf(p, n)' = f
       /\ \A k \in Pages : k # n => /\ Present(p, k)' <=> Present(p, k)
                                    /\ Present(p, k) => FrameOf(p, k)' = FrameOf(p, k)
  <2>1. TypeInv /\ n < PageCount(p) /\ table' = [table EXCEPT ![p][n + 1] = e]
    BY <1>1, <1>5, <1>9
  <2>2. e.present /\ e.frame = f
    BY <1>3
  <2> QED
    BY <2>1, <2>2, EntryWritten
<1>11. /\ \A r \in Pids : PageCount(r)' = PageCount(r)
       /\ \A r \in Pids, k \in Pages : ~(r = p /\ k = n) =>
             /\ Present(r, k)' <=> Present(r, k)
             /\ Present(r, k) => FrameOf(r, k)' = FrameOf(r, k)
  BY <1>10 DEF Kept, SamePages
<1>12. /\ meta' \in [Frames -> FrameData] /\ meta'[f] = d
       /\ \A g \in Frames : g # f => meta'[g] = meta[g]
  BY <1>1, <1>5 DEF TypeInv
<1>13. /\ TlbWhole(tlb', mode.tlbSize)
       /\ \A r, k, g : Translates(tlb', r, k, g) =>
             Translates(tlb, r, k, g) \/ (r = p /\ k = n /\ g = f)
  <2>1. mode.tlbSize \in Nat \ {0} /\ TlbWhole(tlb, mode.tlbSize)
    BY <1>1, ModeType DEF TlbInv
  <2>2. \A g : ~Translates(tlb, p, n, g)
    BY <1>9, <2>1, TranslatesFrame
  <2> QED
    BY <1>5, <2>1, <2>2, EntryAdded
<1>14. /\ mode' = mode /\ firstFrame' = firstFrame /\ hand' = hand /\ ram' = ram
       /\ swap' = swap /\ petition' = petition /\ buffer' = buffer /\ victim' = victim
  BY <1>5
<1>15. /\ \A u \in Threads : u # t => SameThread(u)
       /\ \A u \in Threads : u # t /\ pc[u] \in Filling => pc'[u] \in Filling /\ frame'[u] = frame[u]
       /\ \A u \in Threads : pc[u] \in Leaving => pc'[u] \in Leaving /\ petition'[u] = petition[u]
  BY <1>1, <1>7, <1>8, <1>14 DEF SameThread, Filling, Leaving
<1>m. Blocks' = Blocks /\ (\A c : RangeOf(c)' = RangeOf(c))
  BY <1>14, SameBlocks
<1>16. BlockInv'
  <2>1. ASSUME mode.asignacion = "fijo", NEW b \in Blocks, NEW g \in RangeOf(b)
        PROVE  meta'[g].isFree \/ firstFrame'[b] = meta'[g].pid
    <3>1. g \in Frames
      BY <1>1, BlockRange
    <3>2. CASE g # f
      BY <1>1, <1>12, <1>14, <2>1, <3>1, <3>2 DEF BlockInv, OwnBlock
    <3>3. CASE g = f
      <4>1. PICK c \in Blocks : firstFrame[c] = p /\ f \in RangeOf(c)
        BY <1>9, <2>1 DEF InBlock
      <4>2. c = b
        BY <1>1, <2>1, <3>3, <4>1, BlockRange
      <4> QED
        BY <1>4, <1>12, <1>14, <3>3, <4>1, <4>2
    <3> QED
      BY <3>2, <3>3
  <2>2. mode.asignacion = "fijo" =>
          \A b, c \in Blocks : firstFrame[b] = firstFrame[c] => b = c \/ firstFrame[b] = NoPid
    BY <1>1 DEF BlockInv, OwnBlock
  <2>3. /\ firstFrame \in [Blocks -> Pids \cup {NoPid}]
        /\ hand \in [Blocks -> Frames] /\ \A b \in Blocks : hand[b] \in RangeOf(b)
    BY <1>1 DEF BlockInv
  <2> QED
    BY <1>m, <1>14, <2>1, <2>2, <2>3 DEF BlockInv, OwnBlock
<1>17. OwnerInv'
  <2>1. ASSUME NEW r \in Pids, NEW k \in Pages, Present(r, k)'
        PROVE  \E g \in Frames : FrameOf(r, k)' = g /\ ~meta'[g].isFree
                                 /\ meta'[g].pid = r /\ meta'[g].page = k
    <3>1. CASE r = p /\ k = n
      BY <1>4, <1>10, <1>12, <3>1
    <3>2. CASE ~(r = p /\ k = n)
      <4>1. Present(r, k) /\ FrameOf(r, k)' = FrameOf(r, k)
        BY <1>11, <2>1, <3>2
      <4>2. PICK g \in Frames : FrameOf(r, k) = g /\ ~meta[g].isFree
                                /\ meta[g].pid = r /\ meta[g].page = k
        BY <1>1, <4>1 DEF OwnerInv
      <4>3. g # f
        BY <1>9, <4>1, <4>2
      <4> QED
        BY <1>12, <4>1, <4>2, <4>3
    <3> QED
      BY <3>1, <3>2
  <2>2. ASSUME NEW g \in Frames
        PROVE  \/ meta'[g].isFree
               \/ \E r \in Pids, k \in Pages :
                    meta'[g].pid = r /\ meta'[g].page = k /\ Present(r, k)' /\ FrameOf(r, k)' = g
               \/ \E u \in Threads : frame'[u] = g /\ pc'[u] \in Filling
    <3>1. CASE g = f
      BY <1>4, <1>10, <1>12, <3>1
    <3>2. CASE g # f
      <4>1. \/ meta[g].isFree
            \/ \E r \in Pids, k \in Pages :
                 meta[g].pid = r /\ meta[g].page = k /\ Present(r, k) /\ FrameOf(r, k) = g
            \/ \E u \in Threads : frame[u] = g /\ pc[u] \in Filling
        BY <1>1 DEF OwnerInv
      <4>2. ASSUME NEW r \in Pids, NEW k \in Pages, meta[g].pid = r, meta[g].page = k,
                   Present(r, k), FrameOf(r, k) = g
            PROVE  meta'[g].pid = r /\ meta'[g].page = k /\ Present(r, k)' /\ FrameOf(r, k)' = g
        <5>1. ~(r = p /\ k = n)
          BY <1>9, <4>2
        <5> QED
          BY <1>11, <1>12, <3>2, <4>2, <5>1
      <4>3. ASSUME NEW u \in Threads, frame[u] = g, pc[u] \in Filling
            PROVE  frame'[u] = g /\ pc'[u] \in Filling
        BY <1>2, <1>15, <3>2, <4>3
      <4> QED
        BY <1>12, <3>2, <4>1, <4>2, <4>3
    <3> QED
      BY <3>1, <3>2
  <2> QED
    BY <2>1, <2>2 DEF OwnerInv
<1>18. TlbInv'
  <2>1. ASSUME NEW r \in Pids, NEW k \in Pages, NEW g \in Frames, Translates(tlb', r, k, g)
        PROVE  \/ Present(r, k)' /\ FrameOf(r, k)' = g
               \/ \E u \in Threads : petition'[u].pid = r /\ pc'[u] \in Leaving
    <3>1. CASE r = p /\ k = n /\ g = f
      BY <1>10, <3>1
    <3>2. CASE Translates(tlb, r, k, g)
      <4>1. ~(r = p /\ k = n)
        BY <1>9, <3>2
      <4>2. \/ Present(r, k) /\ FrameOf(r, k) = g
            \/ \E u \in Threads : petition[u].pid = r /\ pc[u] \in Leaving
        BY <1>1, <3>2 DEF TlbInv, Leaving
      <4> QED
        BY <1>11, <1>15, <4>1, <4>2
    <3> QED
      BY <1>13, <2>1, <3>1, <3>2
  <2> QED
    BY <1>13, <1>14, <2>1 DEF TlbInv, Leaving
<1>19. SwapInv'
  <2>1. ASSUME NEW r \in Pids, NEW k \in Pages, NEW g \in Frames, Present(r, k)',
               FrameOf(r, k)' = g
        PROVE  meta'[g].modified \/ ram'[g] = swap'[r][k]
    <3>1. CASE r = p /\ k = n
      BY <1>9, <1>10, <1>14, <2>1, <3>1
    <3>2. CASE ~(r = p /\ k = n)
      <4>1. Present(r, k) /\ FrameOf(r, k) = g
        BY <1>11, <2>1, <3>2
      <4>2. g # f
        BY <1>9, <4>1
      <4> QED
        BY <1>1, <1>12, <1>14, <4>1, <4>2 DEF SwapInv
    <3> QED
      BY <3>1, <3>2
  <2>2. ASSUME NEW r \in Pids, NEW k \in Pages
        PROVE  swap'[r][k] = NoPage <=> PageCount(r)' <= k
    BY <1>1, <1>11, <1>14 DEF SwapInv
  <2> QED
    BY <2>1, <2>2 DEF SwapInv
<1>20. TypeInv'
  <2>1. \A g \in Frames : meta'[g].isFree \/ meta'[g].pid \in Pids
    BY <1>1, <1>4, <1>12 DEF TypeInv
  <2>2. recency' \in Seq(Frames) /\ IsInjective(recency')
    BY <1>1, <1>5, Stamped
  <2> QED
    BY <1>1, <1>5, <1>8, <1>10, <1>12, <2>1, <2>2 DEF TypeInv
<1>21. ThreadInv(t)'
  <2>1. InBlock(p, f)'
    BY <1>9, <1>14, SameBlocks DEF InBlock
  <2>2. n < PageCount(p)'
    BY <1>9, <1>11
  <2>3. PageInv(t, p, n, f)'
    BY <1>7, <1>10, <2>1, <2>2
       DEF PageInv, Accessing, Missing, Loading, Evicting, Filling
  <2>4. \A r \in Pids, k \in Pages : VictimInv(t, r, k, f)'
    BY <1>7 DEF VictimInv, Evicting
  <2>5. petition'[t].pid = p /\ petition'[t].page = n
    BY <1>2, <1>14
  <2> QED
    BY <1>7, <1>8, <2>3, <2>4, <2>5 DEF ThreadInv, Evicting
<1>22. ASSUME mode.asignacion = "fijo", NEW r \in Pids, r # p PROVE Quiet(r)
  <2>1. \A g \in Frames : g # f => meta'[g].modified = meta[g].modified /\ ram'[g] = ram[g]
    BY <1>12, <1>14
  <2>2. \A k \in Pages, g \in Frames : Translates(tlb', r, k, g) => Translates(tlb, r, k, g)
    BY <1>13, <1>22
  <2>3. Kept(r)
    BY <1>10, <1>22
  <2> QED
    BY <1>1, <1>9, <1>14, <1>22, <2>1, <2>2, <2>3, QuietElsewhere
<1>23. \A u \in Threads : u # t /\ pc[u] # "idle" =>
          mode.asignacion = "fijo" /\ petition[u].pid # p
  BY <1>1, <1>2, Others
<1> QED
  BY <1>7, <1>14, <1>15, <1>16, <1>17, <1>18, <1>19, <1>20, <1>21, <1>22, <1>23, AllThreads

(* The page is read. *)
LEMMA UseReadStep ==
    ASSUME Apart, Inv, NEW t \in Threads, UseRead(t)
    PROVE  Inv'
<1>1. TypeInv /\ PetitionInv /\ ThreadInv(t) /\ pc[t] = "use" /\ pc[t] # "idle"
  BY DEF Inv, ThreadsInv, UseRead
<1>2. PICK p \in Pids, n \in Pages, f \in Frames :
         petition[t].pid = p /\ petition[t].page = n /\ frame[t] = f /\ PageInv(t, p, n, f)
  BY <1>1, ThreadFacts
<1>3. /\ reply' = [reply EXCEPT ![p] = ram[f]] /\ Goes(t, "answer")
      /\ UNCHANGED <<mode, frameVars, ram, table, tlb, swap>>
      /\ UNCHANGED <<client, petition, frame, buffer, victim, accesses>>
  BY <1>2 DEF UseRead
<1>4. "answer" \in Steps /\ "answer" # "idle"
  BY DEF Steps, Accessing
<1>5. PetitionInv' /\ pc'[t] = "answer" /\ \A u \in Threads : u # t => pc'[u] = pc[u]
  BY <1>1, <1>3, <1>4, PetitionGoesOn
<1>6. /\ \A u \in Threads : u # t => SameThread(u)
      /\ \A u \in Threads : pc[u] \in Filling => pc'[u] \in Filling /\ frame'[u] = frame[u]
      /\ \A u \in Threads : pc[u] \in Leaving => pc'[u] \in Leaving /\ petition'[u] = petition[u]
  BY <1>1, <1>3, <1>5 DEF SameThread, Filling, Leaving
<1>7. /\ BlockInv' /\ OwnerInv' /\ TlbInv' /\ SwapInv' /\ mode' = mode
      /\ \A r \in Pids : Kept(r)
      /\ mode.asignacion = "fijo" => \A r \in Pids : Quiet(r)
  BY <1>3, <1>6, HandsOnly
<1>8. reply' \in [Pids -> Contents \cup {NoPage}]
  BY <1>1, <1>3 DEF TypeInv
<1>9. TypeInv'
  BY <1>1, <1>3, <1>8 DEF TypeInv, frameVars
<1>10. ThreadInv(t)'
  <2>1. n < PageCount(p)'
    BY <1>1, <1>2, <1>7 DEF Kept, PageInv, Accessing
  <2>2. petition'[t].pid = p /\ petition'[t].page = n
    BY <1>2, <1>3
  <2> QED
    BY <1>5, <2>1, <2>2
       DEF ThreadInv, PageInv, VictimInv, Accessing, Missing, Loading, Evicting, Filling
<1>11. \A u \in Threads : u # t /\ pc[u] # "idle" =>
          mode.asignacion = "fijo" /\ petition[u].pid # p
  BY <1>1, <1>2, Others
<1> QED
  BY <1>5, <1>6, <1>7, <1>9, <1>10, <1>11, AllThreads

(* The content of the page is sent. *)
LEMMA AnswerStep ==
    ASSUME Apart, Inv, NEW t \in Threads, Answer(t)
    PROVE  Inv'
<1>1. TypeInv /\ PetitionInv /\ ThreadInv(t) /\ pc[t] = "answer" /\ pc[t] # "idle"
  BY DEF Inv, ThreadsInv, Answer
<1>2. PICK p \in Pids : petition[t].pid = p
  BY <1>1, ThreadFacts
<1>3. /\ reply' = [reply EXCEPT ![p] = NoPage] /\ Finish(t)
      /\ UNCHANGED <<mode, frameVars, ram, table, tlb, swap>>
      /\ UNCHANGED <<mode, client, accesses>>
  BY <1>2 DEF Answer
<1>4. /\ PetitionInv' /\ pc'[t] = "idle"
      /\ frame' \in [Threads -> Frames \cup {NoFrame}] /\ buffer' \in [Threads -> Contents]
      /\ victim' \in [Threads -> [pid : Pids \cup {NoPid}, page : Pages, modified : BOOLEAN]]
      /\ \A u \in Threads : u # t => SameThread(u)
      /\ ThreadInv(t)'
  BY <1>1, <1>3, PetitionEnds
<1>5. /\ \A u \in Threads : pc[u] \in Filling => pc'[u] \in Filling /\ frame'[u] = frame[u]
      /\ \A u \in Threads : pc[u] \in Leaving => pc'[u] \in Leaving /\ petition'[u] = petition[u]
  BY <1>1, <1>4 DEF SameThread, Filling, Leaving
<1>6. /\ BlockInv' /\ OwnerInv' /\ TlbInv' /\ SwapInv' /\ mode' = mode
      /\ \A r \in Pids : Kept(r)
      /\ mode.asignacion = "fijo" => \A r \in Pids : Quiet(r)
  BY <1>3, <1>5, HandsOnly
<1>7. reply' \in [Pids -> Contents \cup {NoPage}]
  BY <1>1, <1>3 DEF TypeInv
<1>8. TypeInv'
  BY <1>1, <1>3, <1>4, <1>7 DEF TypeInv, frameVars
<1>9. \A u \in Threads : u # t /\ pc[u] # "idle" =>
         mode.asignacion = "fijo" /\ petition[u].pid # p
  BY <1>1, <1>2, Others
<1> QED
  BY <1>4, <1>6, <1>8, <1>9, AllThreads

(* The page is written. *)
LEMMA UseWriteStep ==
    ASSUME Apart, Inv, NEW t \in Threads, UseWrite(t)
    PROVE  Inv'
<1>1. TypeInv /\ PetitionInv /\ ThreadInv(t) /\ OwnerInv /\ SwapInv /\ BlockInv /\ TlbInv
      /\ pc[t] = "use" /\ pc[t] # "idle"
  BY DEF Inv, ThreadsInv, UseWrite
<1>2. PICK p \in Pids, n \in Pages, f \in Frames :
         petition[t].pid = p /\ petition[t].page = n /\ frame[t] = f /\ PageInv(t, p, n, f)
  BY <1>1, ThreadFacts
<1>3. PICK c \in Contents : c = petition[t].op
  BY <1>1, PagingAssumption DEF PagingAssumption, PetitionInv, UseWrite
<1>4. /\ meta' = [meta EXCEPT ![f].modified = TRUE, ![f].u = TRUE]
      /\ ram' = [ram EXCEPT ![f] = c] /\ Finish(t)
      /\ UNCHANGED <<mode, recency, firstFrame, hand, table, tlb, swap, client, reply, accesses>>
  BY <1>2, <1>3 DEF UseWrite
<1>5. /\ PetitionInv' /\ pc'[t] = "idle"
      /\ frame' \in [Threads -> Frames \cup {NoFrame}] /\ buffer' \in [Threads -> Contents]
      /\ victim' \in [Threads -> [pid : Pids \cup {NoPid}, page : Pages, modified : BOOLEAN]]
      /\ \A u \in Threads : u # t => SameThread(u)
      /\ ThreadInv(t)'
  BY <1>1, <1>4, PetitionEnds
<1>6. /\ \A u \in Threads : pc[u] \in Filling => pc'[u] \in Filling /\ frame'[u] = frame[u]
      /\ \A u \in Threads : pc[u] \in Leaving => pc'[u] \in Leaving /\ petition'[u] = petition[u]
  BY <1>1, <1>5 DEF SameThread, Filling, Leaving
<1>7. /\ meta' \in [Frames -> FrameData]
      /\ \A g \in Frames : /\ meta'[g].isFree = meta[g].isFree /\ meta'[g].pid = meta[g].pid
                           /\ meta'[g].page = meta[g].page
                           /\ g # f => meta'[g].modified = meta[g].modified
      /\ meta'[f].modified
  BY <1>1, <1>4, MarkedModified
<1>8. /\ ram' \in [Frames -> Contents]
      /\ \A g \in Frames : g # f => ram'[g] = ram[g]
  BY <1>1, <1>4 DEF TypeInv
<1>9. /\ mode' = mode /\ firstFrame' = firstFrame /\ hand' = hand
      /\ swap' = swap /\ tlb' = tlb /\ table' = table
  BY <1>4
<1>10. \A r \in Pids : Kept(r) /\ SamePages(r)
  BY <1>9, TablesKept DEF Kept
<1>11. BlockInv'
  BY <1>1, <1>7, <1>9, BlocksKept
<1>12. OwnerInv'
  BY <1>1, <1>6, <1>7, <1>10, OwnersKept
<1>13. TlbInv'
  <2>1. TlbWhole(tlb', mode'.tlbSize)
    BY <1>1, <1>9 DEF TlbInv
  <2> QED
    BY <1>1, <1>6, <1>9, <1>10, <2>1, TlbKept
<1>14. SwapInv'
  <2>1. ASSUME NEW r \in Pids, NEW k \in Pages, NEW g \in Frames, Present(r, k)',
               FrameOf(r, k)' = g
        PROVE  meta'[g].modified \/ ram'[g] = swap'[r][k]
    <3>1. Present(r, k) /\ FrameOf(r, k) = g
      BY <1>10, <2>1 DEF SamePages
    <3>2. meta[g].modified \/ ram[g] = swap[r][k]
      BY <1>1, <3>1 DEF SwapInv
    <3> QED
      BY <1>7, <1>8, <1>9, <3>2
  <2>2. ASSUME NEW r \in Pids, NEW k \in Pages
        PROVE  swap'[r][k] = NoPage <=> PageCount(r)' <= k
    BY <1>1, <1>9, <1>10 DEF SwapInv, Kept
  <2> QED
    BY <2>1, <2>2 DEF SwapInv
<1>15. TypeInv'
  <2>1. \A g \in Frames : meta'[g].isFree \/ meta'[g].pid \in Pids
    BY <1>1, <1>7 DEF TypeInv
  <2> QED
    BY <1>1, <1>4, <1>5, <1>7, <1>8, <2>1 DEF TypeInv
<1>16. ASSUME mode.asignacion = "fijo", NEW r \in Pids, r # p PROVE Quiet(r)
  <2>1. InBlock(p, f)
    BY <1>1, <1>2 DEF PageInv
  <2> QED
    BY <1>1, <1>7, <1>8, <1>9, <1>10, <1>16, <2>1, QuietElsewhere
<1>17. \A u \in Threads : u # t /\ pc[u] # "idle" =>
          mode.asignacion = "fijo" /\ petition[u].pid # p
  BY <1>1, <1>2, Others
<1> QED
  BY <1>5, <1>9, <1>11, <1>12, <1>13, <1>14, <1>15, <1>16, <1>17, AllThreads

(* The block of a process that is suspended is free, with all its frames. *)
LEMMA SuspendReleaseStep ==
    ASSUME Apart, Inv, NEW t \in Threads, SuspendRelease(t)
    PROVE  Inv'
<1>1. TypeInv /\ PetitionInv /\ ThreadInv(t) /\ OwnerInv /\ SwapInv /\ BlockInv /\ TlbInv
      /\ ThreadsInv /\ pc[t] = "release" /\ pc[t] # "idle"
  BY DEF Inv, ThreadsInv, SuspendRelease
<1>2. PICK p \in Pids, n \in Pages, f \in Frames \cup {NoFrame} :
         petition[t].pid = p /\ petition[t].page = n /\ frame[t] = f /\ PageInv(t, p, n, f)
  BY <1>1, ThreadFacts
<1>3. /\ firstFrame' = [b \in Blocks |-> IF firstFrame[b] = p THEN NoPid ELSE firstFrame[b]]
      /\ Goes(t, "forget")
      /\ UNCHANGED <<mode, meta, recency, hand, ram, table, tlb, swap, client, petition,
                     frame, buffer, victim, reply, accesses>>
  BY <1>2 DEF SuspendRelease
<1>4. "forget" \in Steps /\ "forget" # "idle"
  BY DEF Steps
<1>5. PetitionInv' /\ pc'[t] = "forget" /\ \A u \in Threads : u # t => pc'[u] = pc[u]
  BY <1>1, <1>3, <1>4, PetitionGoesOn
<1>6. /\ \A u \in Threads : u # t => SameThread(u)
      /\ \A u \in Threads : pc[u] \in Filling => pc'[u] \in Filling /\ frame'[u] = frame[u]
      /\ \A u \in Threads : pc[u] \in Leaving => pc'[u] \in Leaving /\ petition'[u] = petition[u]
  BY <1>1, <1>3, <1>5 DEF SameThread, Filling, Leaving
<1>7. /\ mode' = mode /\ hand' = hand /\ swap' = swap /\ tlb' = tlb /\ table' = table
      /\ ram' = ram /\ meta' = meta
  BY <1>3
<1>8. \A r \in Pids : Kept(r) /\ SamePages(r)
  BY <1>7, TablesKept DEF Kept
<1>9. ASSUME mode.asignacion = "fijo", NEW b \in Blocks, firstFrame[b] = p, NEW g \in RangeOf(b)
      PROVE  meta[g].isFree
  <2>1. g \in Frames
    BY <1>1, BlockRange
  <2>2. SUFFICES ASSUME ~meta[g].isFree PROVE FALSE
    OBVIOUS
  <2>3. meta[g].pid = p
    BY <1>1, <1>9, <2>2 DEF BlockInv, OwnBlock
  <2>4. \A m \in Pages : ~Present(p, m)
    BY <1>1, <1>2 DEF PageInv
  <2>5. PICK u \in Threads : frame[u] = g /\ pc[u] \in Filling
    BY <1>1, <2>1, <2>2, <2>3, <2>4 DEF OwnerInv
  <2>6. ThreadInv(u) /\ u # t /\ pc[u] # "idle"
    BY <1>1, <2>5 DEF ThreadsInv, Filling
  <2>7. PICK r \in Pids, m \in Pages : petition[u].pid = r /\ PageInv(u, r, m, g)
    BY <1>1, <2>5, <2>6, ThreadFacts
  <2>8. r # p
    BY <1>1, <1>2, <2>6, <2>7, Others
  <2>9. InBlock(r, g)
    BY <2>1, <2>5, <2>7 DEF PageInv, Loading, Missing, Filling
  <2> QED
    BY <1>1, <1>9, <2>1, <2>8, <2>9, OtherBlock
<1>10. \A b \in Blocks : \/ firstFrame[b] = p /\ firstFrame'[b] = NoPid
                         \/ firstFrame[b] # p /\ firstFrame'[b] = firstFrame[b]
  BY <1>3
<1>11. BlockInv'
  <2>1. firstFrame' \in [Blocks -> Pids \cup {NoPid}]
    BY <1>1, <1>3 DEF BlockInv
  <2>2. ASSUME mode.asignacion = "fijo", NEW b \in Blocks, NEW c \in Blocks,
               firstFrame'[b] = firstFrame'[c]
        PROVE  b = c \/ firstFrame'[b] = NoPid
    <3>1. firstFrame[b] = firstFrame[c] => b = c \/ firstFrame[b] = NoPid
      BY <1>1, <2>2 DEF BlockInv, OwnBlock
    <3> QED
      BY <1>10, <2>2, <3>1
  <2>3. ASSUME mode.asignacion = "fijo", NEW b \in Blocks, NEW g \in RangeOf(b)
        PROVE  meta'[g].isFree \/ firstFrame'[b] = meta'[g].pid
    <3>1. meta[g].isFree \/ firstFrame[b] = meta[g].pid
      BY <1>1, <2>3 DEF BlockInv, OwnBlock
    <3> QED
      BY <1>7, <1>9, <1>10, <2>3, <3>1
  <2>4. Blocks' = Blocks /\ \A b : RangeOf(b)' = RangeOf(b)
    BY <1>7, SameBlocks
  <2>5. hand \in [Blocks -> Frames] /\ \A b \in Blocks : hand[b] \in RangeOf(b)
    BY <1>1 DEF BlockInv
  <2> QED
    BY <1>7, <2>1, <2>2, <2>3, <2>4, <2>5 DEF BlockInv, OwnBlock
<1>12. OwnerInv'
  <2>1. \A g \in Frames : /\ meta'[g].isFree = meta[g].isFree /\ meta'[g].pid = meta[g].pid
                          /\ meta'[g].page = meta[g].page
    BY <1>7
  <2> QED
    BY <1>1, <1>6, <1>8, <2>1, OwnersKept
<1>13. TlbInv'
  <2>1. TlbWhole(tlb', mode'.tlbSize)
    BY <1>1, <1>7 DEF TlbInv
  <2> QED
    BY <1>1, <1>6, <1>7, <1>8, <2>1, TlbKept
<1>14. SwapInv'
  BY <1>1, <1>7, <1>8, SwapKept
<1>15. TypeInv'
  BY <1>1, <1>3 DEF TypeInv
<1>16. ThreadInv(t)'
  BY <1>5 DEF ThreadInv, PageInv, VictimInv, Accessing, Missing, Loading, Evicting, Filling
<1>17. ASSUME mode.asignacion = "fijo", NEW r \in Pids, r # p PROVE Quiet(r)
  BY <1>7, <1>8, <1>10, <1>17 DEF Quiet
<1>18. \A u \in Threads : u # t /\ pc[u] # "idle" =>
          mode.asignacion = "fijo" /\ petition[u].pid # p
  BY <1>1, <1>2, Others
<1> QED
  BY <1>5, <1>6, <1>7, <1>11, <1>12, <1>13, <1>14, <1>15, <1>16, <1>17, <1>18, AllThreads

(* The TLB forgets a process that has no pages present. *)
LEMMA ForgetStep ==
    ASSUME Apart, Inv, NEW t \in Threads, Forget(t)
    PROVE  Inv'
<1>1. TypeInv /\ PetitionInv /\ ThreadInv(t) /\ OwnerInv /\ SwapInv /\ BlockInv /\ TlbInv
      /\ pc[t] = "forget" /\ pc[t] # "idle"
  BY DEF Inv, ThreadsInv, Forget
<1>2. PICK p \in Pids : petition[t].pid = p
  BY <1>1, ThreadFacts
<1>3. /\ tlb' = FreeProcessEntries(tlb, p) /\ Finish(t)
      /\ UNCHANGED <<mode, meta, recency, firstFrame, hand, ram, table, swap, client, reply,
                     accesses>>
  BY <1>2 DEF Forget, frameVars
<1>4. /\ PetitionInv' /\ pc'[t] = "idle"
      /\ frame' \in [Threads -> Frames \cup {NoFrame}] /\ buffer' \in [Threads -> Contents]
      /\ victim' \in [Threads -> [pid : Pids \cup {NoPid}, page : Pages, modified : BOOLEAN]]
      /\ \A u \in Threads : u # t => SameThread(u)
      /\ ThreadInv(t)'
  BY <1>1, <1>3, PetitionEnds
<1>5. /\ \A u \in Threads : pc[u] \in Filling => pc'[u] \in Filling /\ frame'[u] = frame[u]
      /\ \A u \in Threads : u # t => pc'[u] = pc[u] /\ petition'[u] = petition[u]
  BY <1>1, <1>4 DEF SameThread, Filling
<1>6. /\ mode' = mode /\ firstFrame' = firstFrame /\ hand' = hand /\ swap' = swap
      /\ table' = table /\ ram' = ram /\ meta' = meta
  BY <1>3
<1>7. \A r \in Pids : Kept(r) /\ SamePages(r)
  BY <1>6, TablesKept DEF Kept
<1>8. /\ TlbWhole(tlb', mode.tlbSize)
      /\ \A r, k, g : Translates(tlb', r, k, g) => Translates(tlb, r, k, g) /\ r # p
  <2>1. mode.tlbSize \in Nat /\ TlbWhole(tlb, mode.tlbSize)
    BY <1>1, ModeType DEF TlbInv
  <2> QED
    BY <1>3, <2>1, ProcessForgotten
<1>9. BlockInv'
  <2>1. \A g \in Frames : meta'[g].isFree \/ (~meta[g].isFree /\ meta'[g].pid = meta[g].pid)
    BY <1>6
  <2> QED
    BY <1>1, <1>6, <2>1, BlocksKept
<1>10. OwnerInv'
  <2>1. \A g \in Frames : /\ meta'[g].isFree = meta[g].isFree /\ meta'[g].pid = meta[g].pid
                          /\ meta'[g].page = meta[g].page
    BY <1>6
  <2> QED
    BY <1>1, <1>5, <1>7, <2>1, OwnersKept
<1>11. TlbInv'
  <2>1. ASSUME NEW r \in Pids, NEW k \in Pages, NEW g \in Frames, Translates(tlb', r, k, g)
        PROVE  \/ Present(r, k)' /\ FrameOf(r, k)' = g
               \/ \E u \in Threads : petition'[u].pid = r /\ pc'[u] \in Leaving
    <3>1. Translates(tlb, r, k, g) /\ r # p
      BY <1>8, <2>1
    <3>2. \/ Present(r, k) /\ FrameOf(r, k) = g
          \/ \E u \in Threads : petition[u].pid = r /\ pc[u] \in Leaving
      BY <1>1, <3>1 DEF TlbInv, Leaving
    <3>3. ASSUME NEW u \in Threads, petition[u].pid = r, pc[u] \in Leaving
          PROVE  petition'[u].pid = r /\ pc'[u] \in Leaving
      BY <1>2, <1>5, <3>1, <3>3
    <3> QED
      BY <1>7, <3>2, <3>3 DEF SamePages
  <2> QED
    BY <1>6, <1>8, <2>1 DEF TlbInv, Leaving
<1>12. SwapInv'
  BY <1>1, <1>6, <1>7, SwapKept
<1>13. TypeInv'
  BY <1>1, <1>3, <1>4 DEF TypeInv
<1>14. ASSUME mode.asignacion = "fijo", NEW r \in Pids, r # p PROVE Quiet(r)
  BY <1>6, <1>7, <1>8, <1>14 DEF Quiet
<1>15. \A u \in Threads : u # t /\ pc[u] # "idle" =>
          mode.asignacion = "fijo" /\ petition[u].pid # p
  BY <1>1, <1>2, Others
<1> QED
  BY <1>4, <1>6, <1>9, <1>10, <1>11, <1>12, <1>13, <1>14, <1>15, AllThreads

-----------------------------------------------------------------------------
(* The petitions that need one step *)

(* The frames of a process are free after freeing them, and the others as they were. *)
LEMMA FramesFreed ==
    ASSUME TypeInv, OwnerInv, NEW p \in Pids, meta' = FreedOf(p)
    PROVE  /\ meta' \in [Frames -> FrameData]
           /\ \A g \in Frames :
                 \/ /\ meta'[g].isFree /\ ~meta[g].isFree /\ meta[g].pid = p
                    /\ \E n \in Pages : Present(p, n) /\ FrameOf(p, n) = g
                 \/ meta'[g] = meta[g] /\ \A n \in Pages : ~(Present(p, n) /\ FrameOf(p, n) = g)
<1>1. FreeFrame \in FrameData /\ FreeFrame.isFree
  BY Sizes DEF FreeFrame, FrameData
<1>2. \A g \in Frames : g \in FramesOf(p) <=> \E n \in Pages : Present(p, n) /\ FrameOf(p, n) = g
  BY DEF FramesOf, PresentPages
<1>3. \A g \in Frames : meta'[g] = IF g \in FramesOf(p) THEN FreeFrame ELSE meta[g]
  BY DEF FreedOf
<1>4. meta' \in [Frames -> FrameData]
  <2>1. \A g \in Frames : meta[g] \in FrameData
    BY DEF TypeInv
  <2> HIDE DEF FrameData, FreeFrame
  <2> QED
    BY <1>1, <2>1 DEF FreedOf
<1>5. \A g \in Frames : g \in FramesOf(p) => ~meta[g].isFree /\ meta[g].pid = p
  BY <1>2 DEF OwnerInv
<1> QED
  BY <1>1, <1>2, <1>3, <1>4, <1>5

(* A process leaves the memory: none of its pages is present and its frames are free. *)
LEMMA PagesFreed ==
    ASSUME Apart, Inv, NEW t \in Threads, NEW p \in Pids, Serves(t, p), NEW s \in Leaving,
           meta' = FreedOf(p), Retires(t, p, s),
           UNCHANGED <<mode, recency, firstFrame, hand, ram, tlb, frame, buffer, victim, reply,
                       accesses>>,
           client' \in [Pids -> {"new", "running", "gone"}],
           table' \in [Pids -> Seq(PageEntry)], \A r \in Pids : Len(table'[r]) <= MaxTable,
           \A r \in Pids : r # p => Kept(r),
           \A n \in Pages : ~Present(p, n)',
           swap' \in [Pids -> [Pages -> Contents \cup {NoPage}]],
           \A r \in Pids : r # p => swap'[r] = swap[r],
           \A n \in Pages : swap'[p][n] = NoPage <=> PageCount(p)' <= n
    PROVE  Inv'
<1>1. TypeInv /\ PetitionInv /\ OwnerInv /\ SwapInv /\ BlockInv /\ TlbInv
  BY DEF Inv
<1>2. PICK x \in [pid : Pids \cup {NoPid}, page : Pages, op : Written \cup {Reads}] :
         x.pid = p /\ petition' = [petition EXCEPT ![t] = x]
  <2> DEFINE z == [pid |-> p, page |-> 0, op |-> Reads]
  <2>1. z \in [pid : Pids \cup {NoPid}, page : Pages, op : Written \cup {Reads}] /\ z.pid = p
    BY Sizes
  <2>2. [NoPetition EXCEPT !.pid = p] = z
    BY DEF NoPetition
  <2>3. petition' = [petition EXCEPT ![t] = z]
    BY <2>2 DEF Retires
  <2> HIDE DEF z
  <2> QED
    BY <2>1, <2>3
<1>3. Goes(t, s)
  BY DEF Retires
<1>4. s \in Steps /\ s # "idle"
  BY DEF Leaving, Steps
<1>5. /\ PetitionInv' /\ pc[t] = "idle" /\ pc'[t] = s /\ petition'[t] = x
      /\ \A u \in Threads : u # t => pc'[u] = pc[u] /\ petition'[u] = petition[u]
  BY <1>1, <1>2, <1>3, <1>4, PetitionBegins
<1>6. /\ \A u \in Threads : u # t => SameThread(u)
      /\ \A u \in Threads : pc[u] \in Filling => pc'[u] \in Filling /\ frame'[u] = frame[u]
      /\ \A u \in Threads : pc[u] \in Leaving => pc'[u] \in Leaving /\ petition'[u] = petition[u]
  BY <1>5 DEF SameThread, Filling, Leaving
<1>7. /\ meta' \in [Frames -> FrameData]
      /\ \A g \in Frames :
            \/ /\ meta'[g].isFree /\ ~meta[g].isFree /\ meta[g].pid = p
               /\ \E n \in Pages : Present(p, n) /\ FrameOf(p, n) = g
            \/ meta'[g] = meta[g] /\ \A n \in Pages : ~(Present(p, n) /\ FrameOf(p, n) = g)
  BY <1>1, FramesFreed
<1>8. BlockInv'
  <2>1. \A g \in Frames : meta'[g].isFree \/ (~meta[g].isFree /\ meta'[g].pid = meta[g].pid)
    BY <1>7
  <2> QED
    BY <1>1, <2>1, BlocksKept
<1>9. \A r \in Pids, k \in Pages : r # p =>
         /\ Present(r, k)' <=> Present(r, k)
         /\ Present(r, k) => FrameOf(r, k)' = FrameOf(r, k)
  BY DEF Kept, SamePages
<1>10. OwnerInv'
  <2>1. ASSUME NEW r \in Pids, NEW k \in Pages, Present(r, k)'
        PROVE  \E g \in Frames : FrameOf(r, k)' = g /\ ~meta'[g].isFree
                                 /\ meta'[g].pid = r /\ meta'[g].page = k
    <3>1. r # p
      BY <2>1
    <3>2. Present(r, k) /\ FrameOf(r, k)' = FrameOf(r, k)
      BY <1>9, <2>1, <3>1
    <3>3. PICK g \in Frames : FrameOf(r, k) = g /\ ~meta[g].isFree
                              /\ meta[g].pid = r /\ meta[g].page = k
      BY <1>1, <3>2 DEF OwnerInv
    <3>4. meta'[g] = meta[g]
      BY <1>7, <3>1, <3>3
    <3> QED
      BY <3>2, <3>3, <3>4
  <2>2. ASSUME NEW g \in Frames
        PROVE  \/ meta'[g].isFree
               \/ \E r \in Pids, k \in Pages :
                    meta'[g].pid = r /\ meta'[g].page = k /\ Present(r, k)' /\ FrameOf(r, k)' = g
               \/ \E u \in Threads : frame'[u] = g /\ pc'[u] \in Filling
    <3>1. SUFFICES ASSUME meta'[g] = meta[g],
                          \A n \in Pages : ~(Present(p, n) /\ FrameOf(p, n) = g)
                   PROVE  \/ meta'[g].isFree
                          \/ \E r \in Pids, k \in Pages :
                               /\ meta'[g].pid = r /\ meta'[g].page = k
                               /\ Present(r, k)' /\ FrameOf(r, k)' = g
                          \/ \E u \in Threads : frame'[u] = g /\ pc'[u] \in Filling
      BY <1>7
    <3>2. \/ meta[g].isFree
          \/ \E r \in Pids, k \in Pages :
               meta[g].pid = r /\ meta[g].page = k /\ Present(r, k) /\ FrameOf(r, k) = g
          \/ \E u \in Threads : frame[u] = g /\ pc[u] \in Filling
      BY <1>1 DEF OwnerInv
    <3>3. ASSUME NEW r \in Pids, NEW k \in Pages, meta[g].pid = r, meta[g].page = k,
                 Present(r, k), FrameOf(r, k) = g
          PROVE  meta'[g].pid = r /\ meta'[g].page = k /\ Present(r, k)' /\ FrameOf(r, k)' = g
      <4>1. r # p
        BY <3>1, <3>3
      <4> QED
        BY <1>9, <3>1, <3>3, <4>1
    <3> QED
      BY <1>6, <3>1, <3>2, <3>3
  <2> QED
    BY <2>1, <2>2 DEF OwnerInv
<1>11. TlbInv'
  <2>1. TlbWhole(tlb', mode'.tlbSize)
    BY <1>1 DEF TlbInv
  <2>2. ASSUME NEW r \in Pids, NEW k \in Pages, NEW g \in Frames, Translates(tlb', r, k, g)
        PROVE  \/ Present(r, k)' /\ FrameOf(r, k)' = g
               \/ \E u \in Threads : petition'[u].pid = r /\ pc'[u] \in Leaving
    <3>1. CASE r = p
      <4>1. petition'[t].pid = r /\ pc'[t] \in Leaving
        BY <1>2, <1>5, <3>1
      <4> QED
        BY <4>1
    <3>2. CASE r # p
      <4>1. Translates(tlb, r, k, g)
        BY <2>2
      <4>2. \/ Present(r, k) /\ FrameOf(r, k) = g
            \/ \E u \in Threads : petition[u].pid = r /\ pc[u] \in Leaving
        BY <1>1, <4>1 DEF TlbInv, Leaving
      <4> QED
        BY <1>6, <1>9, <3>2, <4>2
    <3> QED
      BY <3>1, <3>2
  <2> QED
    BY <2>1, <2>2 DEF TlbInv, Leaving
<1>12. SwapInv'
  <2>1. ASSUME NEW r \in Pids, NEW k \in Pages, NEW g \in Frames, Present(r, k)',
               FrameOf(r, k)' = g
        PROVE  meta'[g].modified \/ ram'[g] = swap'[r][k]
    <3>1. r # p
      BY <2>1
    <3>2. Present(r, k) /\ FrameOf(r, k) = g
      BY <1>9, <2>1, <3>1
    <3>3. meta[g].modified \/ ram[g] = swap[r][k]
      BY <1>1, <3>2 DEF SwapInv
    <3>4. meta[g].pid = r
      BY <1>1, <3>2 DEF OwnerInv
    <3>5. meta'[g] = meta[g]
      BY <1>7, <3>1, <3>4
    <3> QED
      BY <3>1, <3>3, <3>5
  <2>2. ASSUME NEW r \in Pids, NEW k \in Pages
        PROVE  swap'[r][k] = NoPage <=> PageCount(r)' <= k
    <3>1. CASE r = p
      BY <3>1
    <3>2. CASE r # p
      BY <1>1, <3>2 DEF SwapInv, Kept
    <3> QED
      BY <3>1, <3>2
  <2> QED
    BY <2>1, <2>2 DEF SwapInv
<1>13. TypeInv'
  <2>1. \A g \in Frames : meta'[g].isFree \/ meta'[g].pid \in Pids
    BY <1>1, <1>7 DEF TypeInv
  <2> QED
    BY <1>1, <1>7, <2>1 DEF TypeInv
<1>14. ThreadInv(t)'
  <2>1. \A m \in Pages : ~Present(p, m)'
    OBVIOUS
  <2> QED
    BY <1>2, <1>5, <2>1
       DEF ThreadInv, PageInv, VictimInv, Accessing, Missing, Loading, Evicting, Filling, Leaving
<1>15. ASSUME mode.asignacion = "fijo", NEW r \in Pids, r # p PROVE Quiet(r)
  <2>1. Kept(r) /\ swap'[r] = swap[r]
    BY <1>15
  <2>2. ASSUME NEW b \in Blocks, firstFrame[b] = r, NEW g \in RangeOf(b)
        PROVE  meta'[g].modified = meta[g].modified /\ ram'[g] = ram[g]
    <3>1. g \in Frames
      BY <1>1, BlockRange
    <3>2. meta[g].isFree \/ meta[g].pid = r
      BY <1>1, <1>15, <2>2 DEF BlockInv, OwnBlock
    <3>3. meta'[g] = meta[g]
      BY <1>7, <1>15, <3>1, <3>2
    <3> QED
      BY <3>3
  <2>3. firstFrame' = firstFrame /\ tlb' = tlb
    OBVIOUS
  <2> QED
    BY <1>15, <2>1, <2>2, <2>3 DEF Quiet
<1>16. \A u \in Threads : u # t /\ pc[u] # "idle" =>
          mode.asignacion = "fijo" /\ petition[u].pid # p
  BY <1>1, OthersServe
<1>17. mode' = mode
  OBVIOUS
<1> QED
  BY <1>5, <1>6, <1>8, <1>10, <1>11, <1>12, <1>13, <1>14, <1>15, <1>16, <1>17, AllThreads

(* None of the entries of a table is present after clearing the flag in each. *)
LEMMA AllAbsent ==
    ASSUME NEW old \in Seq(PageEntry)
    PROVE  LET new == [i \in DOMAIN old |-> [old[i] EXCEPT !.present = FALSE]]
           IN  /\ new \in Seq(PageEntry) /\ Len(new) = Len(old)
               /\ \A i \in 1 .. Len(old) : ~new[i].present
<1> DEFINE new == [i \in DOMAIN old |-> [old[i] EXCEPT !.present = FALSE]]
<1>1. Len(old) \in Nat /\ DOMAIN old = 1 .. Len(old)
  BY LenProperties
<1>2. ASSUME NEW i \in 1 .. Len(old)
      PROVE  [old[i] EXCEPT !.present = FALSE] \in PageEntry
             /\ ~[old[i] EXCEPT !.present = FALSE].present
  <2> PICK e \in PageEntry : e = old[i]
    BY ElementOfSeq
  <2> QED
    BY DEF PageEntry
<1>3. new \in [1 .. Len(old) -> PageEntry]
  BY <1>1, <1>2
<1>4. new \in Seq(PageEntry) /\ Len(new) = Len(old)
  <2> HIDE DEF new
  <2> QED
    BY <1>1, <1>3, SeqDef, LenProperties
<1> QED
  BY <1>1, <1>2, <1>4

(* A process is suspended: its pages go to the swap. *)
LEMMA SuspendStep ==
    ASSUME Apart, Inv, NEW t \in Threads, NEW p \in Pids, Suspend(t, p)
    PROVE  Inv'
<1>1. TypeInv /\ PetitionInv /\ OwnerInv /\ SwapInv
  BY DEF Inv
<1>2. PICK old \in Seq(PageEntry) : old = table[p] /\ Len(old) <= MaxTable
  BY <1>1 DEF TypeInv
<1> DEFINE new == [i \in DOMAIN old |-> [old[i] EXCEPT !.present = FALSE]]
<1>3. /\ Serves(t, p) /\ meta' = FreedOf(p) /\ table' = [table EXCEPT ![p] = new]
      /\ swap' = [swap EXCEPT ![p] = [n \in Pages |->
                     IF n \in PresentPages(p) THEN ram[FrameOf(p, n)] ELSE swap[p][n]]]
      /\ Retires(t, p, "release")
      /\ UNCHANGED <<mode, recency, firstFrame, hand, ram, tlb, client, frame, buffer, victim,
                     reply, accesses>>
  <2>1. table' = [table EXCEPT ![p] = [i \in DOMAIN table[p] |->
                                          [table[p][i] EXCEPT !.present = FALSE]]]
    BY DEF Suspend
  <2>2. table' = [table EXCEPT ![p] = new]
    BY <1>2, <2>1
  <2> QED
    BY <1>1, <2>2 DEF Suspend, TypeInv
<1>4. new \in Seq(PageEntry) /\ Len(new) = Len(old) /\ \A i \in 1 .. Len(old) : ~new[i].present
  BY AllAbsent
<1> HIDE DEF new
<1>5. /\ table' \in [Pids -> Seq(PageEntry)] /\ \A r \in Pids : Len(table'[r]) <= MaxTable
      /\ \A r \in Pids : r # p => Kept(r)
      /\ PageCount(p)' = Len(old)
      /\ \A n \in Pages : Present(p, n)' <=> n < Len(new) /\ new[n + 1].present
  <2>1. Len(new) <= MaxTable
    BY <1>2, <1>4
  <2>2. table' = [table EXCEPT ![p] = new]
    BY <1>3
  <2> QED
    BY <1>1, <1>4, <2>1, <2>2, TableReplaced
<1>6. \A n \in Pages : ~Present(p, n)'
  <2> SUFFICES ASSUME NEW n \in Pages, n < Len(old) PROVE ~new[n + 1].present
    BY <1>4, <1>5
  <2>1. n + 1 \in 1 .. Len(old)
    BY LenProperties, Sizes
  <2> QED
    BY <1>4, <2>1
<1>7. \A n \in Pages : Present(p, n) => FrameOf(p, n) \in Frames /\ n < PageCount(p)
  BY <1>1, PresentInTable DEF OwnerInv
<1>8. /\ swap' \in [Pids -> [Pages -> Contents \cup {NoPage}]]
      /\ \A r \in Pids : r # p => swap'[r] = swap[r]
      /\ \A n \in Pages : swap'[p][n] = IF Present(p, n) THEN ram[FrameOf(p, n)] ELSE swap[p][n]
  <2> DEFINE w == [n \in Pages |-> IF n \in PresentPages(p) THEN ram[FrameOf(p, n)]
                                   ELSE swap[p][n]]
  <2>1. w \in [Pages -> Contents \cup {NoPage}]
    BY <1>1, <1>7 DEF TypeInv, PresentPages
  <2>2. \A n \in Pages : w[n] = IF Present(p, n) THEN ram[FrameOf(p, n)] ELSE swap[p][n]
    BY DEF PresentPages
  <2>3. swap' = [swap EXCEPT ![p] = w] /\ swap \in [Pids -> [Pages -> Contents \cup {NoPage}]]
    BY <1>1, <1>3 DEF TypeInv
  <2> HIDE DEF w
  <2> QED
    BY <2>1, <2>2, <2>3
<1>9. \A n \in Pages : swap'[p][n] = NoPage <=> PageCount(p)' <= n
  <2> SUFFICES ASSUME NEW n \in Pages PROVE swap'[p][n] = NoPage <=> PageCount(p)' <= n
    OBVIOUS
  <2>1. PageCount(p)' = PageCount(p) /\ PageCount(p) \in Nat /\ n \in Nat
    BY <1>1, <1>2, <1>5, Sizes, PresentInTable DEF PageCount
  <2>2. CASE Present(p, n)
    <3>1. swap'[p][n] = ram[FrameOf(p, n)]
      BY <1>8, <2>2
    <3>2. swap'[p][n] # NoPage
      BY <1>1, <1>7, <2>2, <3>1, PagingAssumption DEF PagingAssumption, TypeInv
    <3> QED
      BY <1>7, <2>1, <2>2, <3>2
  <2>3. CASE ~Present(p, n)
    BY <1>1, <1>8, <2>1, <2>3 DEF SwapInv
  <2> QED
    BY <2>2, <2>3
<1>10. client' \in [Pids -> {"new", "running", "gone"}]
  BY <1>1, <1>3 DEF TypeInv
<1>11. "release" \in Leaving
  BY DEF Leaving
<1>12. UNCHANGED <<mode, recency, firstFrame, hand, ram, tlb, frame, buffer, victim, reply,
                   accesses>>
  BY <1>3
<1> QED
  BY <1>3, <1>5, <1>6, <1>8, <1>9, <1>10, <1>11, <1>12, PagesFreed

(* A process ends. *)
LEMMA EndStep ==
    ASSUME Apart, Inv, NEW t \in Threads, NEW p \in Pids, End(t, p)
    PROVE  Inv'
<1>1. TypeInv
  BY DEF Inv
<1>2. /\ Serves(t, p) /\ meta' = FreedOf(p) /\ table' = [table EXCEPT ![p] = <<>>]
      /\ swap' = [swap EXCEPT ![p] = [n \in Pages |-> NoPage]]
      /\ client' = [client EXCEPT ![p] = "gone"] /\ Retires(t, p, "forget")
      /\ UNCHANGED <<mode, recency, firstFrame, hand, ram, tlb, frame, buffer, victim, reply,
                     accesses>>
  BY DEF End
<1>3. <<>> \in Seq(PageEntry) /\ Len(<<>>) = 0 /\ 0 <= MaxTable
  BY EmptySeq, Sizes
<1>4. /\ table' \in [Pids -> Seq(PageEntry)] /\ \A r \in Pids : Len(table'[r]) <= MaxTable
      /\ \A r \in Pids : r # p => Kept(r)
      /\ PageCount(p)' = 0
      /\ \A n \in Pages : ~Present(p, n)'
  <2>1. PICK s \in Seq(PageEntry) : s = <<>> /\ Len(s) = 0
    BY <1>3
  <2>2. table' = [table EXCEPT ![p] = s] /\ Len(s) <= MaxTable
    BY <1>2, <1>3, <2>1
  <2>3. /\ table' \in [Pids -> Seq(PageEntry)] /\ \A r \in Pids : Len(table'[r]) <= MaxTable
        /\ \A r \in Pids : r # p => Kept(r)
        /\ PageCount(p)' = Len(s)
        /\ \A n \in Pages : Present(p, n)' <=> n < Len(s) /\ s[n + 1].present
    BY <1>1, <2>2, TableReplaced
  <2>4. \A n \in Pages : ~(n < 0)
    BY Sizes
  <2> QED
    BY <2>1, <2>3, <2>4
<1>5. /\ swap' \in [Pids -> [Pages -> Contents \cup {NoPage}]]
      /\ \A r \in Pids : r # p => swap'[r] = swap[r]
      /\ \A n \in Pages : swap'[p][n] = NoPage
  BY <1>1, <1>2 DEF TypeInv
<1>6. \A n \in Pages : swap'[p][n] = NoPage <=> PageCount(p)' <= n
  <2>1. \A n \in Pages : 0 <= n
    BY Sizes
  <2> QED
    BY <1>4, <1>5, <2>1
<1>7. client' \in [Pids -> {"new", "running", "gone"}]
  BY <1>1, <1>2 DEF TypeInv
<1>8. "forget" \in Leaving
  BY DEF Leaving
<1>9. UNCHANGED <<mode, recency, firstFrame, hand, ram, tlb, frame, buffer, victim, reply,
                  accesses>>
  BY <1>2
<1> QED
  BY <1>2, <1>4, <1>5, <1>6, <1>7, <1>8, <1>9, PagesFreed

(* A page is created: it is in the swap, full of zeros. *)
LEMMA CreatePageStep ==
    ASSUME Apart, Inv, NEW t \in Threads, NEW p \in Pids, CreatePage(t, p)
    PROVE  Inv'
<1>1. TypeInv /\ PetitionInv /\ OwnerInv /\ SwapInv /\ BlockInv /\ TlbInv
  BY DEF Inv
<1>2. PICK s \in Seq(PageEntry) : s = table[p] /\ Len(s) <= MaxTable
  BY <1>1 DEF TypeInv
<1>3. PICK e \in PageEntry : e = [present |-> FALSE, frame |-> 0] /\ ~e.present
  <2>1. [present |-> FALSE, frame |-> 0] \in PageEntry /\ ~[present |-> FALSE, frame |-> 0].present
    BY Sizes DEF PageEntry
  <2> QED
    BY <2>1
<1>4. PICK n \in Nat : n = Len(s) /\ n = PageCount(p)
  BY <1>2, LenProperties DEF PageCount
<1>5. /\ Serves(t, p) /\ n < MaxTable /\ table' = [table EXCEPT ![p] = Append(s, e)]
      /\ swap' = [swap EXCEPT ![p][n] = Zero]
      /\ UNCHANGED <<mode, meta, recency, firstFrame, hand, ram, tlb, client, reply, accesses>>
      /\ UNCHANGED <<mode, threadVars>>
  BY <1>2, <1>3, <1>4 DEF CreatePage, frameVars
<1>6. n \in Pages
  BY <1>5, Sizes DEF Pages
<1>7. PICK r \in Seq(PageEntry) :
         /\ r = Append(s, e) /\ Len(r) = n + 1 /\ r[n + 1] = e
         /\ \A i \in 1 .. n : r[i] = s[i]
  <2>1. /\ Append(s, e) \in Seq(PageEntry) /\ Len(Append(s, e)) = Len(s) + 1
        /\ Append(s, e)[Len(s) + 1] = e
        /\ \A i \in 1 .. Len(s) : Append(s, e)[i] = s[i]
    BY AppendProperties
  <2> QED
    BY <1>4, <2>1
<1>8. /\ table' \in [Pids -> Seq(PageEntry)] /\ \A q \in Pids : Len(table'[q]) <= MaxTable
      /\ \A q \in Pids : q # p => Kept(q)
      /\ PageCount(p)' = n + 1
      /\ \A k \in Pages : /\ Present(p, k)' <=> k < n + 1 /\ r[k + 1].present
                          /\ FrameOf(p, k)' = r[k + 1].frame
  <2>1. table' = [table EXCEPT ![p] = r]
    BY <1>5, <1>7
  <2>2. Len(r) <= MaxTable
    BY <1>5, <1>7, Sizes
  <2> QED
    BY <1>1, <1>7, <2>1, <2>2, TableReplaced
<1>9. \A k \in Pages : /\ Present(p, k)' <=> Present(p, k)
                       /\ Present(p, k) => FrameOf(p, k)' = FrameOf(p, k)
  <2> SUFFICES ASSUME NEW k \in Pages
               PROVE  /\ Present(p, k)' <=> Present(p, k)
                      /\ Present(p, k) => FrameOf(p, k)' = FrameOf(p, k)
    OBVIOUS
  <2>1. /\ Present(p, k) <=> k < n /\ s[k + 1].present
        /\ FrameOf(p, k) = s[k + 1].frame
    BY <1>2, <1>4 DEF Present, FrameOf, PageCount
  <2>2. k \in Nat
    BY Sizes
  <2>3. CASE k < n
    <3>1. k + 1 \in 1 .. n
      BY <2>2, <2>3
    <3> QED
      BY <1>7, <1>8, <2>1, <2>2, <2>3, <3>1
  <2>4. CASE k = n
    BY <1>3, <1>7, <1>8, <2>1, <2>4
  <2>5. CASE n < k
    BY <1>8, <2>1, <2>2, <2>5
  <2> QED
    BY <2>2, <2>3, <2>4, <2>5
<1>10. \A q \in Pids : SamePages(q)
  BY <1>8, <1>9 DEF Kept, SamePages
<1>11. PetitionInv' /\ \A u \in Threads : SameThread(u)
  BY <1>1, <1>5, PetitionsKept
<1>12. \A u \in Threads : pc'[u] = pc[u] /\ petition'[u] = petition[u] /\ frame'[u] = frame[u]
  BY <1>11 DEF SameThread
<1>13. /\ mode' = mode /\ firstFrame' = firstFrame /\ hand' = hand /\ ram' = ram /\ meta' = meta
       /\ tlb' = tlb
  BY <1>5
<1>14. BlockInv'
  <2>1. \A g \in Frames : meta'[g].isFree \/ (~meta[g].isFree /\ meta'[g].pid = meta[g].pid)
    BY <1>13
  <2> QED
    BY <1>1, <1>13, <2>1, BlocksKept
<1>15. OwnerInv'
  <2>1. \A g \in Frames : /\ meta'[g].isFree = meta[g].isFree /\ meta'[g].pid = meta[g].pid
                          /\ meta'[g].page = meta[g].page
    BY <1>13
  <2> QED
    BY <1>1, <1>10, <1>12, <2>1, OwnersKept
<1>16. TlbInv'
  <2>1. TlbWhole(tlb', mode'.tlbSize)
    BY <1>1, <1>13 DEF TlbInv
  <2> QED
    BY <1>1, <1>10, <1>12, <1>13, <2>1, TlbKept
<1>17. /\ swap' \in [Pids -> [Pages -> Contents \cup {NoPage}]]
       /\ \A q \in Pids : q # p => swap'[q] = swap[q]
       /\ swap'[p][n] = Zero
       /\ \A k \in Pages : k # n => swap'[p][k] = swap[p][k]
  <2>1. PICK w \in [Pages -> Contents \cup {NoPage}] : w = swap[p]
    BY <1>1 DEF TypeInv
  <2>2. PICK z : z = [w EXCEPT ![n] = Zero]
    OBVIOUS
  <2>3. z \in [Pages -> Contents \cup {NoPage}] /\ z[n] = Zero
        /\ \A k \in Pages : k # n => z[k] = w[k]
    BY <1>6, <2>1, <2>2, PagingAssumption DEF PagingAssumption
  <2>4. swap' = [swap EXCEPT ![p] = z] /\ swap \in [Pids -> [Pages -> Contents \cup {NoPage}]]
    BY <1>1, <1>5, <2>1, <2>2 DEF TypeInv
  <2>5. swap'[p] = z /\ swap' \in [Pids -> [Pages -> Contents \cup {NoPage}]]
        /\ \A q \in Pids : q # p => swap'[q] = swap[q]
    BY <2>3, <2>4
  <2> QED
    BY <2>1, <2>3, <2>5
<1>18. SwapInv'
  <2>1. ASSUME NEW q \in Pids, NEW k \in Pages, NEW g \in Frames, Present(q, k)',
               FrameOf(q, k)' = g
        PROVE  meta'[g].modified \/ ram'[g] = swap'[q][k]
    <3>1. Present(q, k) /\ FrameOf(q, k) = g
      BY <1>10, <2>1 DEF SamePages
    <3>2. meta[g].modified \/ ram[g] = swap[q][k]
      BY <1>1, <3>1 DEF SwapInv
    <3>3. swap'[q][k] = swap[q][k]
      <4>1. CASE q = p
        <5>1. k < n /\ n \in Nat /\ k \in Nat
          BY <1>1, <1>4, <3>1, <4>1, PresentInTable, Sizes
        <5> QED
          BY <1>17, <4>1, <5>1
      <4>2. CASE q # p
        BY <1>17, <4>2
      <4> QED
        BY <4>1, <4>2
    <3> QED
      BY <1>13, <3>2, <3>3
  <2>2. ASSUME NEW q \in Pids, NEW k \in Pages
        PROVE  swap'[q][k] = NoPage <=> PageCount(q)' <= k
    <3>1. CASE q = p
      <4>1. swap[p][k] = NoPage <=> n <= k
        BY <1>1, <1>4 DEF SwapInv
      <4>2. k \in Nat /\ Zero # NoPage
        BY Sizes, PagingAssumption DEF PagingAssumption
      <4>3. CASE k = n
        BY <1>8, <1>17, <3>1, <4>2, <4>3
      <4>4. CASE k # n
        BY <1>8, <1>17, <3>1, <4>1, <4>2, <4>4
      <4> QED
        BY <4>3, <4>4
    <3>2. CASE q # p
      BY <1>1, <1>8, <1>17, <3>2 DEF SwapInv, Kept
    <3> QED
      BY <3>1, <3>2
  <2> QED
    BY <2>1, <2>2 DEF SwapInv
<1>19. TypeInv'
  BY <1>1, <1>5, <1>8, <1>17 DEF TypeInv, threadVars
<1>20. pc[t] = "idle" /\ pc'[t] = "idle"
  BY <1>5, <1>12 DEF Serves
<1>21. ThreadInv(t)'
  BY <1>20 DEF ThreadInv, PageInv, VictimInv, Accessing, Missing, Loading, Evicting, Filling
<1>22. ASSUME mode.asignacion = "fijo", NEW q \in Pids, q # p PROVE Quiet(q)
  BY <1>8, <1>13, <1>17, <1>22 DEF Quiet
<1>23. \A u \in Threads : u # t /\ pc[u] # "idle" =>
          mode.asignacion = "fijo" /\ petition[u].pid # p
  BY <1>1, <1>5, OthersServe
<1>24. mode' = mode /\ \A u \in Threads : u # t => SameThread(u)
  BY <1>11, <1>13
<1> QED
  BY <1>11, <1>14, <1>15, <1>16, <1>18, <1>19, <1>21, <1>22, <1>23, <1>24, AllThreads

(* The last page is deleted: its frame is free, and neither the TLB nor the swap has it. *)
LEMMA DeleteLastPageStep ==
    ASSUME Apart, Inv, NEW t \in Threads, NEW p \in Pids, DeleteLastPage(t, p)
    PROVE  Inv'
<1>1. TypeInv /\ PetitionInv /\ OwnerInv /\ SwapInv /\ BlockInv /\ TlbInv
  BY DEF Inv
<1>2. PICK s \in Seq(PageEntry) : s = table[p] /\ Len(s) <= MaxTable /\ Len(s) = PageCount(p)
  BY <1>1 DEF TypeInv, PageCount
<1>3. PICK n \in Nat : n = PageCount(p) - 1 /\ n > 0
  <2>1. PageCount(p) \in Nat /\ PageCount(p) - 1 > 0
    BY <1>2, LenProperties DEF DeleteLastPage
  <2> QED
    BY <2>1
<1>4. n \in Pages /\ Len(s) = n + 1
  BY <1>2, <1>3, Sizes DEF Pages
<1>5. /\ Serves(t, p) /\ table' = [table EXCEPT ![p] = SubSeq(s, 1, n)]
      /\ swap' = [swap EXCEPT ![p][n] = NoPage]
      /\ IF Present(p, n)
         THEN meta' = [meta EXCEPT ![FrameOf(p, n)] = FreeFrame] /\ tlb' = DropEntry(tlb, p, n)
         ELSE meta' = meta /\ tlb' = tlb
      /\ UNCHANGED <<mode, recency, firstFrame, hand, ram, client, reply, accesses>>
      /\ UNCHANGED <<mode, threadVars>>
  BY <1>2, <1>3 DEF DeleteLastPage
<1>6. PICK r \in Seq(PageEntry) :
         /\ table' = [table EXCEPT ![p] = r] /\ Len(r) = n
         /\ \A i \in 1 .. n : r[i] = s[i]
  <2>1. /\ SubSeq(s, 1, n) \in Seq(PageEntry) /\ Len(SubSeq(s, 1, n)) = n
        /\ \A i \in 1 .. n : SubSeq(s, 1, n)[i] = s[i]
    BY <1>3, <1>4, SubSeqProperties
  <2> QED
    BY <1>5, <2>1
<1>7. /\ table' \in [Pids -> Seq(PageEntry)] /\ \A q \in Pids : Len(table'[q]) <= MaxTable
      /\ \A q \in Pids : q # p => Kept(q)
      /\ PageCount(p)' = n
      /\ \A k \in Pages : /\ Present(p, k)' <=> k < n /\ r[k + 1].present
                          /\ FrameOf(p, k)' = r[k + 1].frame
  <2>1. table' = [table EXCEPT ![p] = r] /\ Len(r) = n
    BY <1>6
  <2>2. Len(r) <= MaxTable
    BY <1>2, <1>4, <2>1, Sizes
  <2>3. /\ table' \in [Pids -> Seq(PageEntry)] /\ \A q \in Pids : Len(table'[q]) <= MaxTable
        /\ \A q \in Pids : q # p => Kept(q)
        /\ PageCount(p)' = Len(r)
        /\ \A k \in Pages : /\ Present(p, k)' <=> k < Len(r) /\ r[k + 1].present
                            /\ FrameOf(p, k)' = r[k + 1].frame
    BY <1>1, <2>1, <2>2, TableReplaced
  <2> QED
    BY <2>1, <2>3
<1>8. \A k \in Pages : /\ Present(p, k)' <=> Present(p, k) /\ k # n
                       /\ Present(p, k)' => FrameOf(p, k)' = FrameOf(p, k)
  <2> SUFFICES ASSUME NEW k \in Pages
               PROVE  /\ Present(p, k)' <=> Present(p, k) /\ k # n
                      /\ Present(p, k)' => FrameOf(p, k)' = FrameOf(p, k)
    OBVIOUS
  <2>1. /\ Present(p, k) <=> k < n + 1 /\ s[k + 1].present
        /\ FrameOf(p, k) = s[k + 1].frame
    BY <1>2, <1>4 DEF Present, FrameOf, PageCount
  <2>2. k \in Nat
    BY Sizes
  <2>3. CASE k < n
    <3>1. k + 1 \in 1 .. n
      BY <2>2, <2>3
    <3> QED
      BY <1>6, <1>7, <2>1, <2>2, <2>3, <3>1
  <2>4. CASE n <= k
    BY <1>7, <2>1, <2>2, <2>4
  <2> QED
    BY <2>2, <2>3, <2>4
<1>9. \A q \in Pids, k \in Pages :
         /\ Present(q, k)' <=> Present(q, k) /\ ~(q = p /\ k = n)
         /\ Present(q, k)' => FrameOf(q, k)' = FrameOf(q, k)
  BY <1>7, <1>8 DEF Kept, SamePages
<1>10. PICK h : h = FrameOf(p, n)
  OBVIOUS
<1>11. Present(p, n) => h \in Frames /\ ~meta[h].isFree /\ meta[h].pid = p /\ meta[h].page = n
  BY <1>1, <1>4, <1>10 DEF OwnerInv
<1>12. /\ meta' \in [Frames -> FrameData]
       /\ Present(p, n) => meta'[h].isFree
       /\ \A g \in Frames : ~(Present(p, n) /\ g = h) => meta'[g] = meta[g]
  <2>1. PICK d \in FrameData : d = FreeFrame /\ d.isFree
    <3>1. FreeFrame \in FrameData /\ FreeFrame.isFree
      BY Sizes DEF FreeFrame, FrameData
    <3> QED
      BY <3>1
  <2>2. meta \in [Frames -> FrameData]
    BY <1>1 DEF TypeInv
  <2>3. CASE Present(p, n)
    <3>1. meta' = [meta EXCEPT ![h] = d]
      BY <1>5, <1>10, <2>1, <2>3
    <3> QED
      BY <1>11, <2>1, <2>2, <2>3, <3>1
  <2>4. CASE ~Present(p, n)
    BY <1>5, <2>2, <2>4
  <2> QED
    BY <2>3, <2>4
<1>13. /\ TlbWhole(tlb', mode.tlbSize)
       /\ \A q, k, g : Translates(tlb', q, k, g) => Translates(tlb, q, k, g)
       /\ \A g \in Frames : ~Translates(tlb', p, n, g)
  <2>1. mode.tlbSize \in Nat /\ TlbWhole(tlb, mode.tlbSize)
    BY <1>1, ModeType DEF TlbInv
  <2>2. CASE Present(p, n)
    <3>1. tlb' = DropEntry(tlb, p, n)
      BY <1>5, <2>2
    <3> QED
      BY <2>1, <3>1, EntryDropped
  <2>3. CASE ~Present(p, n)
    <3>1. tlb' = tlb
      BY <1>5, <2>3
    <3>2. ASSUME NEW g \in Frames, Translates(tlb, p, n, g) PROVE FALSE
      <4>1. PICK u \in Threads : petition[u].pid = p
        BY <1>1, <1>4, <2>3, <3>2 DEF TlbInv
      <4> QED
        BY <1>5, <4>1 DEF Serves
    <3> QED
      BY <2>1, <3>1, <3>2
  <2> QED
    BY <2>2, <2>3
<1>14. PetitionInv' /\ \A u \in Threads : SameThread(u)
  BY <1>1, <1>5, PetitionsKept
<1>15. \A u \in Threads : pc'[u] = pc[u] /\ petition'[u] = petition[u] /\ frame'[u] = frame[u]
  BY <1>14 DEF SameThread
<1>16. mode' = mode /\ firstFrame' = firstFrame /\ hand' = hand /\ ram' = ram
  BY <1>5
<1>17. BlockInv'
  <2>1. \A g \in Frames : meta'[g].isFree \/ (~meta[g].isFree /\ meta'[g].pid = meta[g].pid)
    BY <1>12
  <2> QED
    BY <1>1, <1>16, <2>1, BlocksKept
<1>18. OwnerInv'
  <2>1. ASSUME NEW q \in Pids, NEW k \in Pages, Present(q, k)'
        PROVE  \E g \in Frames : FrameOf(q, k)' = g /\ ~meta'[g].isFree
                                 /\ meta'[g].pid = q /\ meta'[g].page = k
    <3>1. Present(q, k) /\ ~(q = p /\ k = n) /\ FrameOf(q, k)' = FrameOf(q, k)
      BY <1>9, <2>1
    <3>2. PICK g \in Frames : FrameOf(q, k) = g /\ ~meta[g].isFree
                              /\ meta[g].pid = q /\ meta[g].page = k
      BY <1>1, <3>1 DEF OwnerInv
    <3>3. meta'[g] = meta[g]
      BY <1>11, <1>12, <3>1, <3>2
    <3> QED
      BY <3>1, <3>2, <3>3
  <2>2. ASSUME NEW g \in Frames
        PROVE  \/ meta'[g].isFree
               \/ \E q \in Pids, k \in Pages :
                    meta'[g].pid = q /\ meta'[g].page = k /\ Present(q, k)' /\ FrameOf(q, k)' = g
               \/ \E u \in Threads : frame'[u] = g /\ pc'[u] \in Filling
    <3>1. CASE Present(p, n) /\ g = h
      BY <1>12, <3>1
    <3>2. CASE ~(Present(p, n) /\ g = h)
      <4>1. \/ meta[g].isFree
            \/ \E q \in Pids, k \in Pages :
                 meta[g].pid = q /\ meta[g].page = k /\ Present(q, k) /\ FrameOf(q, k) = g
            \/ \E u \in Threads : frame[u] = g /\ pc[u] \in Filling
        BY <1>1 DEF OwnerInv
      <4>2. meta'[g] = meta[g]
        BY <1>12, <3>2
      <4>3. ASSUME NEW q \in Pids, NEW k \in Pages, meta[g].pid = q, meta[g].page = k,
                   Present(q, k), FrameOf(q, k) = g
            PROVE  meta'[g].pid = q /\ meta'[g].page = k /\ Present(q, k)' /\ FrameOf(q, k)' = g
        <5>1. ~(q = p /\ k = n)
          BY <1>10, <3>2, <4>3
        <5>2. Present(q, k)' /\ FrameOf(q, k)' = FrameOf(q, k)
          BY <1>9, <4>3, <5>1
        <5> QED
          BY <4>2, <4>3, <5>2
      <4> QED
        BY <1>15, <4>1, <4>2, <4>3
    <3> QED
      BY <3>1, <3>2
  <2> QED
    BY <2>1, <2>2 DEF OwnerInv
<1>19. TlbInv'
  <2>1. ASSUME NEW q \in Pids, NEW k \in Pages, NEW g \in Frames, Translates(tlb', q, k, g)
        PROVE  \/ Present(q, k)' /\ FrameOf(q, k)' = g
               \/ \E u \in Threads : petition'[u].pid = q /\ pc'[u] \in Leaving
    <3>1. Translates(tlb, q, k, g) /\ ~(q = p /\ k = n)
      BY <1>13, <2>1
    <3>2. \/ Present(q, k) /\ FrameOf(q, k) = g
          \/ \E u \in Threads : petition[u].pid = q /\ pc[u] \in Leaving
      BY <1>1, <3>1 DEF TlbInv, Leaving
    <3>3. Present(q, k) => Present(q, k)' /\ FrameOf(q, k)' = FrameOf(q, k)
      BY <1>9, <3>1
    <3> QED
      BY <1>15, <3>2, <3>3
  <2> QED
    BY <1>13, <1>16, <2>1 DEF TlbInv, Leaving
<1>20. /\ swap' \in [Pids -> [Pages -> Contents \cup {NoPage}]]
       /\ \A q \in Pids : q # p => swap'[q] = swap[q]
       /\ swap'[p][n] = NoPage
       /\ \A k \in Pages : k # n => swap'[p][k] = swap[p][k]
  <2>1. PICK w \in [Pages -> Contents \cup {NoPage}] : w = swap[p]
    BY <1>1 DEF TypeInv
  <2>2. PICK z : z = [w EXCEPT ![n] = NoPage]
    OBVIOUS
  <2>3. z \in [Pages -> Contents \cup {NoPage}] /\ z[n] = NoPage
        /\ \A k \in Pages : k # n => z[k] = w[k]
    BY <1>4, <2>1, <2>2
  <2>4. swap' = [swap EXCEPT ![p] = z] /\ swap \in [Pids -> [Pages -> Contents \cup {NoPage}]]
    BY <1>1, <1>5, <2>1, <2>2 DEF TypeInv
  <2>5. swap'[p] = z /\ swap' \in [Pids -> [Pages -> Contents \cup {NoPage}]]
        /\ \A q \in Pids : q # p => swap'[q] = swap[q]
    BY <2>3, <2>4
  <2> QED
    BY <2>1, <2>3, <2>5
<1>21. SwapInv'
  <2>1. ASSUME NEW q \in Pids, NEW k \in Pages, NEW g \in Frames, Present(q, k)',
               FrameOf(q, k)' = g
        PROVE  meta'[g].modified \/ ram'[g] = swap'[q][k]
    <3>1. Present(q, k) /\ FrameOf(q, k) = g /\ ~(q = p /\ k = n)
      BY <1>9, <2>1
    <3>2. meta[g].modified \/ ram[g] = swap[q][k]
      BY <1>1, <3>1 DEF SwapInv
    <3>3. meta[g].pid = q /\ meta[g].page = k
      BY <1>1, <3>1 DEF OwnerInv
    <3>4. meta'[g] = meta[g]
      BY <1>11, <1>12, <3>1, <3>3
    <3>5. swap'[q][k] = swap[q][k]
      BY <1>20, <3>1
    <3> QED
      BY <1>16, <3>2, <3>4, <3>5
  <2>2. ASSUME NEW q \in Pids, NEW k \in Pages
        PROVE  swap'[q][k] = NoPage <=> PageCount(q)' <= k
    <3>1. CASE q = p
      <4>1. swap[p][k] = NoPage <=> n + 1 <= k
        <5>1. PageCount(p) = n + 1
          BY <1>2, <1>4
        <5> QED
          BY <1>1, <5>1 DEF SwapInv
      <4>2. k \in Nat
        BY Sizes
      <4>3. CASE k = n
        BY <1>7, <1>20, <3>1, <4>2, <4>3
      <4>4. CASE k # n
        BY <1>7, <1>20, <3>1, <4>1, <4>2, <4>4
      <4> QED
        BY <4>3, <4>4
    <3>2. CASE q # p
      BY <1>1, <1>7, <1>20, <3>2 DEF SwapInv, Kept
    <3> QED
      BY <3>1, <3>2
  <2> QED
    BY <2>1, <2>2 DEF SwapInv
<1>22. TypeInv'
  <2>1. \A g \in Frames : meta'[g].isFree \/ meta'[g].pid \in Pids
    BY <1>1, <1>12 DEF TypeInv
  <2> QED
    BY <1>1, <1>5, <1>7, <1>12, <1>20, <2>1 DEF TypeInv, threadVars
<1>23. pc[t] = "idle" /\ pc'[t] = "idle"
  BY <1>5, <1>15 DEF Serves
<1>24. ThreadInv(t)'
  BY <1>23 DEF ThreadInv, PageInv, VictimInv, Accessing, Missing, Loading, Evicting, Filling
<1>25. ASSUME mode.asignacion = "fijo", NEW q \in Pids, q # p PROVE Quiet(q)
  <2>1. ASSUME NEW b \in Blocks, firstFrame[b] = q, NEW g \in RangeOf(b)
        PROVE  meta'[g].modified = meta[g].modified /\ ram'[g] = ram[g]
    <3>1. g \in Frames
      BY <1>1, BlockRange
    <3>2. meta[g].isFree \/ meta[g].pid = q
      BY <1>1, <1>25, <2>1 DEF BlockInv, OwnBlock
    <3>3. meta'[g] = meta[g]
      BY <1>11, <1>12, <1>25, <3>1, <3>2
    <3> QED
      BY <1>16, <3>3
  <2>2. Kept(q) /\ swap'[q] = swap[q]
    BY <1>7, <1>20, <1>25
  <2> QED
    BY <1>13, <1>16, <1>25, <2>1, <2>2 DEF Quiet
<1>26. \A u \in Threads : u # t /\ pc[u] # "idle" =>
          mode.asignacion = "fijo" /\ petition[u].pid # p
  BY <1>1, <1>5, OthersServe
<1>27. \A u \in Threads : u # t => SameThread(u)
  BY <1>14
<1> QED
  BY <1>14, <1>16, <1>17, <1>18, <1>19, <1>21, <1>22, <1>24, <1>25, <1>26, <1>27, AllThreads

-----------------------------------------------------------------------------
(* The theorems *)

(* The memory starts with every frame free and nothing in the TLB. *)
LEMMA InvInit == Init => Inv
<1> SUFFICES ASSUME Init PROVE Inv
  OBVIOUS
<1>1. mode \in Modes /\ mode \in Mode
  BY PagingAssumption DEF PagingAssumption, Init
<1>2. mode.tlbSize \in Nat \ {0} /\ mode.accesses \in Nat
  BY <1>1 DEF Mode
<1>3. NoPid \notin Pids /\ Zero \in Contents /\ NoPage \notin Contents
  BY PagingAssumption DEF PagingAssumption
<1>4. \A p \in Pids : table[p] = <<>> /\ Len(table[p]) = 0
  BY EmptySeq DEF Init
<1>5. \A p \in Pids, n \in Pages : ~Present(p, n) /\ PageCount(p) = 0
  <2>1. \A n \in Pages : ~(n < 0)
    BY Sizes
  <2> QED
    BY <1>4, <2>1 DEF Present, PageCount
<1>6. TypeInv
  <2>1. FreeFrame \in FrameData /\ FreeFrame.isFree
    BY Sizes DEF FreeFrame, FrameData
  <2>2. meta \in [Frames -> FrameData] /\ \A f \in Frames : meta[f].isFree
    BY <2>1 DEF Init
  <2>3. recency \in Seq(Frames) /\ IsInjective(recency)
    <3>1. <<>> \in Seq(Frames) /\ DOMAIN <<>> = {}
      BY EmptySeq
    <3> QED
      BY <3>1 DEF Init, IsInjective
  <2>4. table \in [Pids -> Seq(PageEntry)]
    <3>1. <<>> \in Seq(PageEntry)
      BY EmptySeq
    <3> QED
      BY <3>1 DEF Init
  <2>5. \A p \in Pids : Len(table[p]) <= MaxTable
    BY <1>4, Sizes
  <2>6. NoVictim \in [pid : Pids \cup {NoPid}, page : Pages, modified : BOOLEAN]
    BY Sizes DEF NoVictim
  <2>7. victim \in [Threads -> [pid : Pids \cup {NoPid}, page : Pages, modified : BOOLEAN]]
    BY <2>6 DEF Init
  <2>8. /\ ram \in [Frames -> Contents] /\ swap \in [Pids -> [Pages -> Contents \cup {NoPage}]]
        /\ client \in [Pids -> {"new", "running", "gone"}]
        /\ frame \in [Threads -> Frames \cup {NoFrame}] /\ buffer \in [Threads -> Contents]
        /\ reply \in [Pids -> Contents \cup {NoPage}] /\ accesses \in 0 .. mode.accesses
    BY <1>2, <1>3 DEF Init
  <2> QED
    BY <1>1, <2>2, <2>3, <2>4, <2>5, <2>7, <2>8 DEF TypeInv
<1>7. PetitionInv
  <2>1. NoPetition \in [pid : Pids \cup {NoPid}, page : Pages, op : Written \cup {Reads}]
        /\ NoPetition.pid = NoPid
    BY Sizes DEF NoPetition
  <2>2. petition \in [Threads -> [pid : Pids \cup {NoPid}, page : Pages,
                                  op : Written \cup {Reads}]]
        /\ \A t \in Threads : petition[t].pid = NoPid
    BY <2>1 DEF Init
  <2>3. pc \in [Threads -> Steps] /\ \A t \in Threads : pc[t] = "idle"
    BY DEF Init, Steps
  <2>4. Busy = {}
    BY <2>3 DEF Busy
  <2> QED
    BY <2>2, <2>3, <2>4 DEF PetitionInv
<1>8. BlockInv
  <2>1. \A b \in Blocks : RangeOf(b) \subseteq Frames /\ b * mode.framesPerProcess \in RangeOf(b)
    BY <1>6, BlockRange
  <2>2. /\ firstFrame = [b \in Blocks |-> NoPid]
        /\ hand = [b \in Blocks |-> b * mode.framesPerProcess]
    BY DEF Init
  <2>3. firstFrame \in [Blocks -> Pids \cup {NoPid}] /\ \A b \in Blocks : firstFrame[b] = NoPid
    BY <2>2
  <2>4. hand \in [Blocks -> Frames] /\ \A b \in Blocks : hand[b] \in RangeOf(b)
    BY <2>1, <2>2
  <2>5. \A f \in Frames : meta[f].isFree
    BY DEF Init, FreeFrame
  <2> QED
    BY <2>1, <2>3, <2>4, <2>5 DEF BlockInv, OwnBlock
<1>9. OwnerInv
  <2>1. \A f \in Frames : meta[f].isFree
    BY DEF Init, FreeFrame
  <2> QED
    BY <1>5, <2>1 DEF OwnerInv
<1>10. TlbInv
  BY <1>2, TlbCreated DEF TlbInv, Init
<1>11. SwapInv
  <2>1. \A p \in Pids, n \in Pages : swap[p][n] = NoPage
    BY DEF Init
  <2>2. \A n \in Pages : 0 <= n
    BY Sizes
  <2> QED
    BY <1>5, <2>1, <2>2 DEF SwapInv
<1>12. ThreadsInv
  <2>1. \A t \in Threads : pc[t] = "idle"
    BY DEF Init
  <2> QED
    BY <2>1 DEF ThreadsInv, ThreadInv, PageInv, VictimInv, Accessing, Missing, Loading, Evicting,
                Filling
<1> QED
  BY <1>6, <1>7, <1>8, <1>9, <1>10, <1>11, <1>12 DEF Inv

(* A step that changes nothing keeps the invariant. *)
LEMMA InvStutters == Inv /\ UNCHANGED vars => Inv'
<1> SUFFICES ASSUME Inv, UNCHANGED vars PROVE Inv'
  OBVIOUS
<1>1. /\ mode' = mode /\ meta' = meta /\ recency' = recency /\ firstFrame' = firstFrame
      /\ hand' = hand /\ ram' = ram /\ table' = table /\ tlb' = tlb /\ swap' = swap
      /\ client' = client /\ pc' = pc /\ petition' = petition /\ frame' = frame
      /\ buffer' = buffer /\ victim' = victim /\ reply' = reply /\ accesses' = accesses
  BY DEF vars, frameVars, threadVars
<1>2. TypeInv' /\ SwapInv' /\ OwnerInv' /\ TlbInv'
  BY <1>1 DEF Inv, TypeInv, SwapInv, OwnerInv, TlbInv, Present, PageCount, FrameOf
<1>3. BlockInv' /\ PetitionInv'
  BY <1>1 DEF Inv, BlockInv, OwnBlock, Blocks, RangeOf, PetitionInv, Busy
<1>4. ThreadsInv'
  BY <1>1 DEF Inv, ThreadsInv, ThreadInv, PageInv, VictimInv, Present, PageCount, FrameOf,
              Untranslated, InBlock, Blocks, RangeOf
<1> QED
  BY <1>2, <1>3, <1>4 DEF Inv

(* Every step keeps the invariant, where threads do not disturb each other. *)
LEMMA InvNext ==
    ASSUME Apart, Inv, [Next]_vars
    PROVE  Inv'
<1>1. ASSUME NEW p \in Pids, Start(p) PROVE Inv'
  BY <1>1, StartStep
<1>2. ASSUME NEW t \in Threads, Thread(t) PROVE Inv'
  BY <1>2, LookupHitStep, LookupMissStep, WalkPresentStep, ChooseStep, LoadStep, EvictDropStep,
     EvictSaveStep, EvictUnmapStep, WriteFrameStep, InstallStep, UseReadStep, AnswerStep,
     UseWriteStep, SuspendReleaseStep, ForgetStep DEF Thread
<1>3. ASSUME NEW t \in Threads, NEW p \in Pids, Petition(t, p) PROVE Inv'
  BY <1>3, CreatePageStep, DeleteLastPageStep, SuspendStep, EndStep, AccessStep DEF Petition
<1>4. CASE UNCHANGED vars
  BY <1>4, InvStutters
<1> QED
  BY <1>1, <1>2, <1>3, <1>4 DEF Next

(* The invariant holds in every state. *)
LEMMA PagingInv ==
    ASSUME Apart
    PROVE  Spec => []Inv
<1>1. Init => Inv
  BY InvInit
<1>2. Inv /\ [Next]_vars => Inv'
  BY InvNext
<1> QED
  BY <1>1, <1>2, PTL DEF Spec

(* The state is well typed; the hand of clock_m stays in its block and pages that are present
   have a frame, whatever the sizes, the assignment and the algorithms (memory.c). *)
THEOREM PagingTypes ==
    ASSUME Apart
    PROVE  Spec => []TypeOK
<1>1. ASSUME Inv PROVE TypeOK
  <2>1. TypeInv /\ BlockInv /\ OwnerInv /\ TlbInv
    BY <1>1 DEF Inv
  <2>2. \A p \in Pids : table[p] \in Seq([present : BOOLEAN, frame : Frames \cup {NoFrame}])
    BY <2>1 DEF TypeInv, PageEntry
  <2>3. \A p \in Pids : \A n \in PresentPages(p) : FrameOf(p, n) \in Frames
    BY <2>1 DEF OwnerInv, PresentPages
  <2>4. tlb.victimQueue \in Seq(DOMAIN tlb.entries)
    <3>1. DOMAIN tlb.entries = 1 .. mode.tlbSize /\ tlb.victimQueue \in Seq(1 .. mode.tlbSize)
      BY <2>1 DEF TlbInv, TlbWhole
    <3> QED
      BY <3>1
  <2>5. meta \in [Frames -> [isFree : BOOLEAN, modified : BOOLEAN, u : BOOLEAN,
                             pid : Pids \cup {NoPid}, page : Pages]]
    BY <2>1 DEF TypeInv, FrameData
  <2>6. /\ mode \in Modes /\ recency \in Seq(Frames) /\ IsInjective(recency)
        /\ ram \in [Frames -> Contents]
        /\ swap \in [Pids -> [Pages -> Contents \cup {NoPage}]]
        /\ client \in [Pids -> {"new", "running", "gone"}]
        /\ frame \in [Threads -> Frames \cup {NoFrame}]
        /\ buffer \in [Threads -> Contents]
        /\ reply \in [Pids -> Contents \cup {NoPage}]
        /\ accesses \in 0 .. mode.accesses
    BY <2>1 DEF TypeInv
  <2>7. /\ firstFrame \in [Blocks -> Pids \cup {NoPid}]
        /\ hand \in [Blocks -> Frames] /\ \A b \in Blocks : hand[b] \in RangeOf(b)
    BY <2>1 DEF BlockInv
  <2> QED
    BY <2>2, <2>3, <2>4, <2>5, <2>6, <2>7 DEF TypeOK
<1> QED
  BY <1>1, PagingInv, PTL

(* A page that is present and the metadata of its frame name each other, and a frame that is
   not free has its page or is about to get another: through replacements, suspensions and
   ends of other processes (replace, suspendHandler, memfreeHandler, capiTermHandler). *)
THEOREM PagingFrameOwner ==
    ASSUME Apart
    PROVE  Spec => []FrameOwner
<1>1. ASSUME Inv PROVE FrameOwner
  <2>1. OwnerInv
    BY <1>1 DEF Inv
  <2>2. \A p \in Pids : \A n \in PresentPages(p) :
           LET f == meta[FrameOf(p, n)] IN ~f.isFree /\ f.pid = p /\ f.page = n
    BY <2>1 DEF OwnerInv, PresentPages
  <2>3. \A f \in Frames :
           \/ meta[f].isFree
           \/ Present(meta[f].pid, meta[f].page) /\ FrameOf(meta[f].pid, meta[f].page) = f
           \/ \E t \in Threads : frame[t] = f /\ pc[t] \in {"write", "install"}
    BY <2>1 DEF OwnerInv, Filling
  <2> QED
    BY <2>2, <2>3 DEF FrameOwner
<1> QED
  BY <1>1, PagingInv, PTL

(* The TLB never answers a frame the page is not in, but for a process that is leaving and asks
   nothing: each entry in use is the first of its page, the one that dropEntry frees. *)
THEOREM PagingTlbCoherent ==
    ASSUME Apart
    PROVE  Spec => []TlbCoherent
<1>1. ASSUME Inv PROVE TlbCoherent
  <2>1. TlbInv
    BY <1>1 DEF Inv
  <2>2. ASSUME NEW i \in DOMAIN tlb.entries, i \notin FreeEntries(tlb)
        PROVE  LET e == tlb.entries[i]
               IN  \/ Present(e.pid, e.page) /\ FrameOf(e.pid, e.page) = e.frame
                   \/ \E t \in Threads : petition[t].pid = e.pid /\ pc[t] \in {"release", "forget"}
    <3>1. ~tlb.entries[i].isFree
      BY <2>2 DEF FreeEntries
    <3>2. /\ DOMAIN tlb.entries = 1 .. mode.tlbSize /\ tlb.entries[i] \in TlbEntry
          /\ tlb.entries[i].pid \in Pids
      BY <2>1, <3>1 DEF TlbInv, TlbWhole
    <3>3. PICK p \in Pids, n \in Pages, f \in Frames :
             tlb.entries[i].pid = p /\ tlb.entries[i].page = n /\ tlb.entries[i].frame = f
      BY <3>2 DEF TlbEntry
    <3>4. Translates(tlb, p, n, f)
      BY <3>1, <3>3 DEF Translates
    <3> QED
      BY <2>1, <3>3, <3>4 DEF TlbInv
  <2> QED
    BY <2>2 DEF TlbCoherent
<1> QED
  BY <1>1, PagingInv, PTL

(* A page whose frame is not marked as modified is in the swap as it is in its frame: replace
   loses nothing when it does not save it. *)
THEOREM PagingCleanMatchesSwap ==
    ASSUME Apart
    PROVE  Spec => []CleanMatchesSwap
<1>1. ASSUME Inv PROVE CleanMatchesSwap
  <2>1. ASSUME NEW p \in Pids, NEW n \in PresentPages(p)
        PROVE  meta[FrameOf(p, n)].modified \/ ram[FrameOf(p, n)] = swap[p][n]
    <3>1. n \in Pages /\ Present(p, n)
      BY <2>1 DEF PresentPages
    <3>2. FrameOf(p, n) \in Frames
      BY <1>1, <3>1 DEF Inv, OwnerInv
    <3> QED
      BY <1>1, <3>1, <3>2 DEF Inv, SwapInv
  <2> QED
    BY <2>1 DEF CleanMatchesSwap
<1> QED
  BY <1>1, PagingInv, PTL

(* With fixed assignment a process has one block and its pages are in it, through suspensions
   that release the block and replacements by other processes (fijo). *)
THEOREM PagingOwnBlock ==
    ASSUME Apart
    PROVE  Spec => []OwnBlock
<1>1. ASSUME Inv PROVE OwnBlock
  BY <1>1 DEF Inv, BlockInv
<1> QED
  BY <1>1, PagingInv, PTL

(* When a frame is written nobody's page is in it: the page that occupied it is in the swap and
   present no more (replace). *)
THEOREM PagingOccupantSaved ==
    ASSUME Apart
    PROVE  Spec => []OccupantSaved
<1>1. ASSUME Inv PROVE OccupantSaved
  <2>1. ASSUME NEW t \in Threads, pc[t] = "write", NEW q \in Pids, frame[t] \in FramesOf(q)
        PROVE  FALSE
    <3>1. TypeInv /\ PetitionInv /\ ThreadInv(t)
      BY <1>1 DEF Inv, ThreadsInv
    <3>2. PICK p \in Pids, n \in Pages, f \in Frames \cup {NoFrame} :
             frame[t] = f /\ PageInv(t, p, n, f)
      BY <2>1, <3>1, ThreadFacts
    <3>3. \A m \in Pages : ~(Present(q, m) /\ FrameOf(q, m) = f)
      BY <2>1, <3>2 DEF PageInv, Filling
    <3> QED
      BY <2>1, <3>2, <3>3 DEF FramesOf, PresentPages
  <2> QED
    BY <2>1 DEF OccupantSaved
<1> QED
  BY <1>1, PagingInv, PTL

-----------------------------------------------------------------------------
(* What processes have asked for *)

Pending(t) == pc[t] \notin {"idle", "release", "forget"}

(* What a process has asked for, thread by thread. *)
LEMMA AskedOf == Asked = {AccessOf(t) : t \in {u \in Threads : Pending(u)}}
BY DEF Asked, Pending

(* Two threads have no access in common. *)
LEMMA AccessesApart ==
    ASSUME PetitionInv, NEW t \in Threads, NEW u \in Threads, Pending(t), Pending(u),
           AccessOf(t).pid = AccessOf(u).pid
    PROVE  t = u
<1>1. petition[t].pid = petition[u].pid
  BY DEF AccessOf
<1>2. t \in Busy /\ u \in Busy
  BY DEF Pending, Busy
<1> QED
  BY <1>1, <1>2 DEF PetitionInv

(* No access begins, ends or is read. *)
LEMMA AskedKept ==
    ASSUME \A t \in Threads : Pending(t)' <=> Pending(t),
           \A t \in Threads : Pending(t) => AccessOf(t)' = AccessOf(t)
    PROVE  Asked' = Asked
<1>1. Asked' = {AccessOf(t)' : t \in {u \in Threads : Pending(u)'}}
  BY AskedOf DEF Asked, Pending
<1> QED
  BY <1>1, AskedOf

(* A thread goes on with its access. *)
LEMMA AskedGoesOn ==
    ASSUME PetitionInv, NEW t \in Threads, Pending(t), pc[t] # "answer",
           NEW s \in Steps, s \notin {"idle", "release", "forget", "answer"}, Goes(t, s),
           petition' = petition
    PROVE  Asked' = Asked
<1>1. pc'[t] = s /\ \A u \in Threads : u # t => pc'[u] = pc[u]
  BY DEF PetitionInv, Goes
<1>2. \A u \in Threads : Pending(u)' <=> Pending(u)
  BY <1>1 DEF Pending
<1>3. \A u \in Threads : AccessOf(u)' = AccessOf(u)
  BY <1>1 DEF AccessOf
<1> QED
  BY <1>2, <1>3, AskedKept

(* The page of an access is read. *)
LEMMA AskedRead ==
    ASSUME PetitionInv, NEW t \in Threads, Pending(t), Goes(t, "answer"), petition' = petition
    PROVE  Asked' = (Asked \ {AccessOf(t)}) \cup {[AccessOf(t) EXCEPT !.read = TRUE]}
<1>1. pc'[t] = "answer" /\ \A u \in Threads : u # t => pc'[u] = pc[u]
  BY DEF PetitionInv, Goes, Steps, Accessing
<1>2. \A u \in Threads : Pending(u)' <=> Pending(u)
  BY <1>1 DEF Pending
<1>3. \A u \in Threads : u # t => AccessOf(u)' = AccessOf(u)
  BY <1>1 DEF AccessOf
<1>4. AccessOf(t)' = [AccessOf(t) EXCEPT !.read = TRUE]
  <2>1. PICK b : b = (pc'[t] = "answer")
    OBVIOUS
  <2>2. b = TRUE
    BY <1>1, <2>1
  <2>3. AccessOf(t)' = [pid |-> petition[t].pid, page |-> petition[t].page,
                        op |-> petition[t].op, read |-> b]
    BY <2>1, Zenon DEF AccessOf
  <2>4. PICK c : c = (pc[t] = "answer")
    OBVIOUS
  <2>5. AccessOf(t) = [pid |-> petition[t].pid, page |-> petition[t].page,
                       op |-> petition[t].op, read |-> c]
    BY <2>4, Zenon DEF AccessOf
  <2>6. PICK x : x = TRUE
    OBVIOUS
  <2>7. b = x
    BY <2>2, <2>6
  <2>8. [AccessOf(t) EXCEPT !.read = x] = [pid |-> petition[t].pid, page |-> petition[t].page,
                                           op |-> petition[t].op, read |-> x]
    BY <2>5
  <2> QED
    BY <2>3, <2>6, <2>7, <2>8, Zenon
<1>5. \A u \in Threads : Pending(u) /\ u # t => AccessOf(u) # AccessOf(t)
  BY AccessesApart
<1>6. Asked' = {AccessOf(u)' : u \in {v \in Threads : Pending(v)'}}
  BY AskedOf DEF Asked, Pending
<1> QED
  BY <1>2, <1>3, <1>4, <1>5, <1>6, AskedOf

(* An access ends. *)
LEMMA AskedEnds ==
    ASSUME PetitionInv, NEW t \in Threads, Pending(t), Finish(t)
    PROVE  Asked' = Asked \ {AccessOf(t)}
<1>1. /\ pc'[t] = "idle" /\ \A u \in Threads : u # t => pc'[u] = pc[u]
      /\ \A u \in Threads : u # t => petition'[u] = petition[u]
  BY DEF PetitionInv, Finish, Goes, Steps
<1>2. ~Pending(t)' /\ \A u \in Threads : u # t => (Pending(u)' <=> Pending(u))
  BY <1>1 DEF Pending
<1>3. \A u \in Threads : u # t => AccessOf(u)' = AccessOf(u)
  BY <1>1 DEF AccessOf
<1>4. \A u \in Threads : Pending(u) /\ u # t => AccessOf(u) # AccessOf(t)
  BY AccessesApart
<1>5. Asked' = {AccessOf(u)' : u \in {v \in Threads : Pending(v)'}}
  BY AskedOf DEF Asked, Pending
<1> QED
  BY <1>2, <1>3, <1>4, <1>5, AskedOf

(* A thread that has no access goes on without one. *)
LEMMA AskedNothing ==
    ASSUME PetitionInv, NEW t \in Threads, ~Pending(t), ~Pending(t)',
           \A u \in Threads : u # t => pc'[u] = pc[u] /\ petition'[u] = petition[u]
    PROVE  Asked' = Asked
<1>1. \A u \in Threads : Pending(u)' <=> Pending(u)
  BY DEF Pending
<1>2. \A u \in Threads : Pending(u) => AccessOf(u)' = AccessOf(u)
  BY DEF AccessOf
<1> QED
  BY <1>1, <1>2, AskedKept

(* An access begins. *)
LEMMA AskedBegins ==
    ASSUME PetitionInv, NEW t \in Threads, NEW p \in Pids, NEW n \in Pages,
           NEW op \in Written \cup {Reads}, Access(t, p, n, op)
    PROVE  Asked' = Asked \cup {[pid |-> p, page |-> n, op |-> op, read |-> FALSE]}
<1>1. /\ pc'[t] = "translate" /\ \A u \in Threads : u # t => pc'[u] = pc[u]
      /\ petition'[t] = [pid |-> p, page |-> n, op |-> op]
      /\ \A u \in Threads : u # t => petition'[u] = petition[u]
  BY DEF PetitionInv, Access, Goes, Steps, Accessing
<1>2. /\ Pending(t)' /\ \A u \in Threads : u # t => (Pending(u)' <=> Pending(u))
      /\ ~Pending(t)
  BY <1>1 DEF Pending, Access, Serves
<1>3. \A u \in Threads : u # t => AccessOf(u)' = AccessOf(u)
  BY <1>1 DEF AccessOf
<1>4. AccessOf(t)' = [pid |-> p, page |-> n, op |-> op, read |-> FALSE]
  <2>1. PICK b : b = (pc'[t] = "answer")
    OBVIOUS
  <2>2. b = FALSE
    BY <1>1, <2>1
  <2>3. PICK r : r = petition'[t] /\ r.pid = p /\ r.page = n /\ r.op = op
    BY <1>1
  <2>4. AccessOf(t)' = [pid |-> r.pid, page |-> r.page, op |-> r.op, read |-> b]
    BY <2>1, <2>3, Zenon DEF AccessOf
  <2> QED
    BY <2>2, <2>3, <2>4
<1>5. Asked' = {AccessOf(u)' : u \in {v \in Threads : Pending(v)'}}
  BY AskedOf DEF Asked, Pending
<1> QED
  BY <1>2, <1>3, <1>4, <1>5, AskedOf

(* A process whose petition a thread takes has no access under way. *)
LEMMA ServedIdle ==
    ASSUME NEW t \in Threads, NEW p \in Pids, Serves(t, p)
    PROVE  \A a \in Asked : a.pid # p
BY DEF Serves, Asked, AccessOf

-----------------------------------------------------------------------------
(* The frames and the swap keep what PagedMemory promises *)

\* The pages of Memory
Stored == [p \in Pids |-> [n \in Pages |-> Content(p, n)]]

(* A page stays where it is, and there nothing is written. *)
LEMMA ContentKept ==
    ASSUME NEW p \in Pids, NEW n \in Pages, Present(p, n)' <=> Present(p, n),
           Present(p, n) => /\ FrameOf(p, n)' = FrameOf(p, n)
                            /\ ram'[FrameOf(p, n)] = ram[FrameOf(p, n)],
           ~Present(p, n) => swap'[p][n] = swap[p][n]
    PROVE  Content(p, n)' = Content(p, n)
BY DEF Content

(* Every page reads back as before. *)
LEMMA StoredKept ==
    ASSUME \A p \in Pids, n \in Pages : Content(p, n)' = Content(p, n)
    PROVE  Stored' = Stored
<1>1. \A p \in Pids : [n \in Pages |-> Content(p, n)]' = [n \in Pages |-> Content(p, n)]
  OBVIOUS
<1> QED
  BY <1>1 DEF Stored

(* One page reads back as something else. *)
LEMMA StoredWritten ==
    ASSUME NEW p \in Pids, NEW n \in Pages, NEW c, Content(p, n)' = c,
           \A q \in Pids, m \in Pages : ~(q = p /\ m = n) => Content(q, m)' = Content(q, m)
    PROVE  Stored' = [Stored EXCEPT ![p][n] = c]
<1> PICK x : x = Stored
  OBVIOUS
<1> PICK y : y = Stored'
  OBVIOUS
<1>1. /\ x = [q \in Pids |-> x[q]] /\ \A q \in Pids : x[q] = [m \in Pages |-> x[q][m]]
      /\ \A q \in Pids, m \in Pages : x[q][m] = Content(q, m)
  BY DEF Stored
<1>2. /\ y = [q \in Pids |-> y[q]] /\ \A q \in Pids : y[q] = [m \in Pages |-> y[q][m]]
      /\ \A q \in Pids, m \in Pages : y[q][m] = Content(q, m)'
  BY DEF Stored
<1>3. ASSUME NEW q \in Pids, q # p PROVE y[q] = x[q]
  <2>1. PICK w : w = x[q] /\ w = [m \in Pages |-> w[m]]
    BY <1>1
  <2>2. PICK z : z = y[q] /\ z = [m \in Pages |-> z[m]]
    BY <1>2
  <2>3. \A m \in Pages : z[m] = w[m]
    BY <1>1, <1>2, <1>3, <2>1, <2>2
  <2>4. z = w
    BY <2>1, <2>2, <2>3
  <2> QED
    BY <2>1, <2>2, <2>4
<1>4. y[p] = [x[p] EXCEPT ![n] = c]
  <2>1. PICK w : w = x[p] /\ w = [m \in Pages |-> w[m]]
    BY <1>1
  <2>2. PICK z : z = y[p] /\ z = [m \in Pages |-> z[m]]
    BY <1>2
  <2>3. \A m \in Pages : z[m] = IF m = n THEN c ELSE w[m]
    BY <1>1, <1>2, <2>1, <2>2
  <2>4. z = [w EXCEPT ![n] = c]
    BY <2>1, <2>2, <2>3
  <2> QED
    BY <2>1, <2>2, <2>4
<1>5. y = [x EXCEPT ![p] = [x[p] EXCEPT ![n] = c]]
  BY <1>1, <1>2, <1>3, <1>4
<1> QED
  BY <1>5

(* One process has no page. *)
LEMMA StoredEmpty ==
    ASSUME NEW p \in Pids, \A n \in Pages : Content(p, n)' = NoPage,
           \A q \in Pids, m \in Pages : q # p => Content(q, m)' = Content(q, m)
    PROVE  Stored' = [Stored EXCEPT ![p] = [n \in Pages |-> NoPage]]
<1> PICK x : x = Stored
  OBVIOUS
<1> PICK y : y = Stored'
  OBVIOUS
<1>1. /\ x = [q \in Pids |-> x[q]] /\ \A q \in Pids : x[q] = [m \in Pages |-> x[q][m]]
      /\ \A q \in Pids, m \in Pages : x[q][m] = Content(q, m)
  BY DEF Stored
<1>2. /\ y = [q \in Pids |-> y[q]] /\ \A q \in Pids : y[q] = [m \in Pages |-> y[q][m]]
      /\ \A q \in Pids, m \in Pages : y[q][m] = Content(q, m)'
  BY DEF Stored
<1>3. ASSUME NEW q \in Pids, q # p PROVE y[q] = x[q]
  <2>1. PICK w : w = x[q] /\ w = [m \in Pages |-> w[m]]
    BY <1>1
  <2>2. PICK z : z = y[q] /\ z = [m \in Pages |-> z[m]]
    BY <1>2
  <2>3. \A m \in Pages : z[m] = w[m]
    BY <1>1, <1>2, <1>3, <2>1, <2>2
  <2>4. z = w
    BY <2>1, <2>2, <2>3
  <2> QED
    BY <2>1, <2>2, <2>4
<1>4. y[p] = [n \in Pages |-> NoPage]
  <2>1. \A m \in Pages : y[p][m] = NoPage
    BY <1>2
  <2> QED
    BY <1>2, <2>1
<1>5. y = [x EXCEPT ![p] = [n \in Pages |-> NoPage]]
  BY <1>1, <1>2, <1>3, <1>4
<1> QED
  BY <1>5

\* A page of the swap is written, and nothing else of it
WritesSwap(p, n, c) == swap' = [swap EXCEPT ![p][n] = c]

(* The swap has one more page, or another content in one. *)
LEMMA SwapWritten ==
    ASSUME TypeInv, NEW p \in Pids, NEW n \in Pages, NEW c,
           WritesSwap(p, n, c)
    PROVE  /\ swap'[p][n] = c
           /\ \A q \in Pids, m \in Pages : ~(q = p /\ m = n) => swap'[q][m] = swap[q][m]
<1>1. PICK w \in [Pages -> Contents \cup {NoPage}] : w = swap[p]
  BY DEF TypeInv
<1>2. PICK z : z = [w EXCEPT ![n] = c]
  OBVIOUS
<1>3. z[n] = c /\ \A k \in Pages : k # n => z[k] = w[k]
  BY <1>1, <1>2
<1>4. swap' = [swap EXCEPT ![p] = z] /\ swap \in [Pids -> [Pages -> Contents \cup {NoPage}]]
  BY <1>1, <1>2 DEF TypeInv, WritesSwap
<1>5. swap'[p] = z /\ \A q \in Pids : q # p => swap'[q] = swap[q]
  BY <1>4
<1> QED
  BY <1>1, <1>3, <1>5

(* A process has the pages of its table. *)
LEMMA StoredHas ==
    ASSUME TypeInv, OwnerInv, SwapInv, NEW p \in Pids, NEW n \in Pages
    PROVE  Stored[p][n] # NoPage <=> n < PageCount(p)
<1>1. Stored[p][n] = Content(p, n)
  BY DEF Stored
<1>2. n \in Nat /\ PageCount(p) \in Nat
  BY Sizes, LenProperties DEF TypeInv, PageCount
<1>3. CASE Present(p, n)
  <2>1. FrameOf(p, n) \in Frames
    BY <1>3 DEF OwnerInv
  <2>2. ram[FrameOf(p, n)] # NoPage
    BY <2>1, PagingAssumption DEF PagingAssumption, TypeInv
  <2> QED
    BY <1>1, <1>3, <2>2 DEF Content, Present
<1>4. CASE ~Present(p, n)
  BY <1>1, <1>2, <1>4 DEF Content, SwapInv
<1> QED
  BY <1>3, <1>4

(* The steps that move no page and write none. *)
LEMMA NothingMoves ==
    ASSUME UNCHANGED <<ram, table, swap, reply>>
    PROVE  UNCHANGED <<Stored, reply>>
<1>1. \A p \in Pids, n \in Pages : Content(p, n)' = Content(p, n)
  BY DEF Content, Present, FrameOf, PageCount
<1> QED
  BY <1>1, StoredKept

(* A page that is saved is present until it is unmapped. *)
LEMMA EvictSaveRefines ==
    ASSUME Inv, NEW t \in Threads, EvictSave(t)
    PROVE  UNCHANGED <<Stored, reply>>
<1>1. TypeInv /\ PetitionInv /\ ThreadInv(t) /\ OwnerInv /\ BlockInv /\ pc[t] \in Evicting
  BY DEF Inv, ThreadsInv, EvictSave, Evicting
<1>2. PICK q \in Pids, m \in Pages, f \in Frames :
         victim[t].pid = q /\ victim[t].page = m /\ frame[t] = f /\ Present(q, m)
  BY <1>1, EvictingFacts
<1>3. \A r \in Pids, k \in Pages : ~(r = q /\ k = m) => swap'[r][k] = swap[r][k]
  <2>1. CASE victim[t].modified
    <3>1. WritesSwap(q, m, ram[f])
      BY <1>2, <2>1 DEF EvictSave, WritesSwap
    <3> QED
      BY <1>1, <3>1, SwapWritten
  <2>2. CASE ~victim[t].modified
    BY <2>2 DEF EvictSave
  <2> QED
    BY <2>1, <2>2
<1>4. table' = table /\ ram' = ram /\ reply' = reply
  BY DEF EvictSave
<1>5. \A r \in Pids : SamePages(r)
  BY <1>4, TablesKept DEF Kept
<1>6. ASSUME NEW r \in Pids, NEW k \in Pages PROVE Content(r, k)' = Content(r, k)
  BY <1>2, <1>3, <1>4, <1>5, ContentKept DEF SamePages
<1> QED
  BY <1>4, <1>6, StoredKept

(* A page that is unmapped is in the swap as it was in its frame. *)
LEMMA EvictUnmapRefines ==
    ASSUME Inv, NEW t \in Threads, EvictUnmap(t)
    PROVE  UNCHANGED <<Stored, reply>>
<1>1. TypeInv /\ PetitionInv /\ ThreadInv(t) /\ OwnerInv /\ BlockInv /\ pc[t] \in Evicting
      /\ pc[t] = "unmap"
  BY DEF Inv, ThreadsInv, EvictUnmap, Evicting
<1>2. PICK q \in Pids, m \in Pages, f \in Frames :
         /\ victim[t].pid = q /\ victim[t].page = m /\ Present(q, m) /\ FrameOf(q, m) = f
         /\ VictimInv(t, q, m, f)
  BY <1>1, EvictingFacts
<1>3. swap[q][m] = ram[f]
  BY <1>1, <1>2 DEF VictimInv
<1>4. PICK e \in PageEntry : e = [present |-> FALSE, frame |-> NoFrame] /\ ~e.present
  <2>1. /\ [present |-> FALSE, frame |-> NoFrame] \in PageEntry
        /\ ~[present |-> FALSE, frame |-> NoFrame].present
    BY DEF PageEntry
  <2> QED
    BY <2>1
<1>5. /\ table' = [table EXCEPT ![q][m + 1] = e] /\ m < PageCount(q)
      /\ ram' = ram /\ swap' = swap /\ reply' = reply
  BY <1>2, <1>4 DEF EvictUnmap
<1>6. /\ ~Present(q, m)'
      /\ \A r \in Pids, k \in Pages : ~(r = q /\ k = m) =>
            /\ Present(r, k)' <=> Present(r, k)
            /\ Present(r, k) => FrameOf(r, k)' = FrameOf(r, k)
  <2>1. /\ \A r \in Pids : r # q => Kept(r)
        /\ ~Present(q, m)'
        /\ \A k \in Pages : k # m => /\ Present(q, k)' <=> Present(q, k)
                                     /\ Present(q, k) => FrameOf(q, k)' = FrameOf(q, k)
    BY <1>1, <1>4, <1>5, EntryWritten
  <2> QED
    BY <2>1 DEF Kept, SamePages
<1>7. Content(q, m)' = Content(q, m)
  BY <1>2, <1>3, <1>5, <1>6 DEF Content
<1>8. ASSUME NEW r \in Pids, NEW k \in Pages, ~(r = q /\ k = m)
      PROVE  Content(r, k)' = Content(r, k)
  BY <1>5, <1>6, <1>8, ContentKept
<1> QED
  BY <1>5, <1>7, <1>8, StoredKept

(* Nobody's page is in a frame that is written. *)
LEMMA WriteFrameRefines ==
    ASSUME Inv, NEW t \in Threads, WriteFrame(t)
    PROVE  UNCHANGED <<Stored, reply>>
<1>1. TypeInv /\ PetitionInv /\ ThreadInv(t) /\ OwnerInv /\ pc[t] = "write" /\ pc[t] # "idle"
  BY DEF Inv, ThreadsInv, WriteFrame
<1>2. PICK p \in Pids, n \in Pages, f \in Frames : frame[t] = f /\ PageInv(t, p, n, f)
  BY <1>1, ThreadFacts DEF Filling
<1>3. \A g \in Frames : g # f => ram'[g] = ram[g]
  <2>1. ram' = [ram EXCEPT ![f] = buffer[t]] /\ ram \in [Frames -> Contents]
    BY <1>1, <1>2 DEF WriteFrame, TypeInv
  <2> QED
    BY <2>1
<1>4. table' = table /\ swap' = swap /\ reply' = reply
  BY DEF WriteFrame
<1>5. \A r \in Pids : SamePages(r)
  BY <1>4, TablesKept DEF Kept
<1>6. ASSUME NEW r \in Pids, NEW k \in Pages PROVE Content(r, k)' = Content(r, k)
  <2>1. Present(r, k) => FrameOf(r, k) \in Frames /\ FrameOf(r, k) # f
    BY <1>1, <1>2 DEF PageInv, Filling, OwnerInv
  <2> QED
    BY <1>3, <1>4, <1>5, <2>1, ContentKept DEF SamePages
<1> QED
  BY <1>4, <1>6, StoredKept

(* A page is installed in a frame that has what the swap had. *)
LEMMA InstallRefines ==
    ASSUME Inv, NEW t \in Threads, Install(t)
    PROVE  UNCHANGED <<Stored, reply>>
<1>1. TypeInv /\ PetitionInv /\ ThreadInv(t) /\ pc[t] = "install" /\ pc[t] # "idle"
  BY DEF Inv, ThreadsInv, Install
<1>2. PICK p \in Pids, n \in Pages, f \in Frames :
         petition[t].pid = p /\ petition[t].page = n /\ frame[t] = f /\ PageInv(t, p, n, f)
  BY <1>1, ThreadFacts DEF Filling
<1>3. PICK e \in PageEntry : e = [present |-> TRUE, frame |-> f] /\ e.present /\ e.frame = f
  <2>1. /\ [present |-> TRUE, frame |-> f] \in PageEntry
        /\ [present |-> TRUE, frame |-> f].present /\ [present |-> TRUE, frame |-> f].frame = f
    BY DEF PageEntry
  <2> QED
    BY <2>1
<1>4. n < PageCount(p) /\ ~Present(p, n) /\ ram[f] = swap[p][n]
  BY <1>1, <1>2 DEF PageInv, Accessing, Missing, Loading
<1>5. /\ table' = [table EXCEPT ![p][n + 1] = e]
      /\ ram' = ram /\ swap' = swap /\ reply' = reply
  BY <1>2, <1>3 DEF Install
<1>6. /\ Present(p, n)' /\ FrameOf(p, n)' = f
      /\ \A r \in Pids, k \in Pages : ~(r = p /\ k = n) =>
            /\ Present(r, k)' <=> Present(r, k)
            /\ Present(r, k) => FrameOf(r, k)' = FrameOf(r, k)
  <2>1. /\ \A r \in Pids : r # p => Kept(r)
        /\ Present(p, n)' <=> e.present
        /\ FrameOf(p, n)' = e.frame
        /\ \A k \in Pages : k # n => /\ Present(p, k)' <=> Present(p, k)
                                     /\ Present(p, k) => FrameOf(p, k)' = FrameOf(p, k)
    BY <1>1, <1>4, <1>5, EntryWritten
  <2> QED
    BY <1>3, <2>1 DEF Kept, SamePages
<1>7. Content(p, n)' = Content(p, n)
  BY <1>4, <1>5, <1>6 DEF Content
<1>8. ASSUME NEW r \in Pids, NEW k \in Pages, ~(r = p /\ k = n)
      PROVE  Content(r, k)' = Content(r, k)
  BY <1>5, <1>6, <1>8, ContentKept
<1> QED
  BY <1>5, <1>7, <1>8, StoredKept

(* The page asked for is read, as it was last written. *)
LEMMA UseReadRefines ==
    ASSUME Inv, NEW t \in Threads, UseRead(t)
    PROVE  \E a \in Asked : Memory!Read(a)
<1>1. TypeInv /\ PetitionInv /\ ThreadInv(t) /\ pc[t] = "use" /\ pc[t] # "idle"
  BY DEF Inv, ThreadsInv, UseRead
<1>2. PICK p \in Pids, n \in Pages, f \in Frames :
         petition[t].pid = p /\ petition[t].page = n /\ frame[t] = f /\ PageInv(t, p, n, f)
  BY <1>1, ThreadFacts
<1>3. Present(p, n) /\ FrameOf(p, n) = f
  BY <1>1, <1>2 DEF PageInv
<1>4. Stored[p][n] = ram[f]
  BY <1>3 DEF Stored, Content
<1>5. /\ reply' = [reply EXCEPT ![p] = ram[f]] /\ UNCHANGED <<ram, table, swap>>
      /\ Goes(t, "answer") /\ petition' = petition /\ petition[t].op = Reads
  BY <1>2 DEF UseRead
<1>6. Stored' = Stored
  <2>1. \A r \in Pids, k \in Pages : Content(r, k)' = Content(r, k)
    BY <1>5 DEF Content, Present, FrameOf, PageCount
  <2> QED
    BY <2>1, StoredKept
<1>7. Pending(t)
  BY <1>1 DEF Pending
<1>8. PICK a : a = AccessOf(t)
  OBVIOUS
<1>9. a \in Asked
  BY <1>7, <1>8, AskedOf
<1>10. Asked' = (Asked \ {a}) \cup {[a EXCEPT !.read = TRUE]}
  BY <1>1, <1>5, <1>7, <1>8, AskedRead
<1>11. a.pid = p /\ a.page = n /\ a.op = Reads
  BY <1>2, <1>5, <1>8 DEF AccessOf
<1>12. ~a.read
  BY <1>1, <1>8 DEF AccessOf
<1>13. reply' = [reply EXCEPT ![a.pid] = Stored[a.pid][a.page]]
  BY <1>4, <1>5, <1>11
<1> QED
  BY <1>6, <1>9, <1>10, <1>11, <1>12, <1>13 DEF Stored, Memory!Read

(* What was read is sent. *)
LEMMA AnswerRefines ==
    ASSUME Inv, NEW t \in Threads, Answer(t)
    PROVE  \E a \in Asked : Memory!Tell(a)
<1>1. TypeInv /\ PetitionInv /\ ThreadInv(t) /\ pc[t] = "answer"
  BY DEF Inv, ThreadsInv, Answer
<1>2. Pending(t)
  BY <1>1 DEF Pending
<1>3. PICK a : a = AccessOf(t)
  OBVIOUS
<1>4. a.pid = petition[t].pid /\ a.read
  BY <1>1, <1>3 DEF AccessOf
<1>5. reply' = [reply EXCEPT ![a.pid] = NoPage] /\ UNCHANGED <<ram, table, swap>> /\ Finish(t)
  BY <1>4 DEF Answer
<1>6. Stored' = Stored
  <2>1. \A r \in Pids, k \in Pages : Content(r, k)' = Content(r, k)
    BY <1>5 DEF Content, Present, FrameOf, PageCount
  <2> QED
    BY <2>1, StoredKept
<1>7. a \in Asked
  BY <1>2, <1>3, AskedOf
<1>8. Asked' = Asked \ {a}
  BY <1>1, <1>2, <1>3, <1>5, AskedEnds
<1> QED
  BY <1>4, <1>5, <1>6, <1>7, <1>8 DEF Stored, Memory!Tell

(* The page asked for is written with what was asked, and no other. *)
LEMMA UseWriteRefines ==
    ASSUME Inv, NEW t \in Threads, UseWrite(t)
    PROVE  \E a \in Asked : Memory!Write(a)
<1>1. TypeInv /\ PetitionInv /\ ThreadInv(t) /\ OwnerInv /\ pc[t] = "use" /\ pc[t] # "idle"
  BY DEF Inv, ThreadsInv, UseWrite
<1>2. PICK p \in Pids, n \in Pages, f \in Frames :
         petition[t].pid = p /\ petition[t].page = n /\ frame[t] = f /\ PageInv(t, p, n, f)
  BY <1>1, ThreadFacts
<1>3. PICK c \in Contents : c = petition[t].op /\ c # Reads
  BY <1>1, PagingAssumption DEF PagingAssumption, PetitionInv, UseWrite
<1>4. Present(p, n) /\ FrameOf(p, n) = f
  BY <1>1, <1>2 DEF PageInv
<1>5. Pending(t) /\ Finish(t)
  BY <1>1 DEF Pending, UseWrite
<1>6. ram'[f] = c /\ \A g \in Frames : g # f => ram'[g] = ram[g]
  <2>1. ram' = [ram EXCEPT ![f] = c] /\ ram \in [Frames -> Contents]
    BY <1>1, <1>2, <1>3 DEF UseWrite, TypeInv
  <2> QED
    BY <2>1
<1>7. table' = table /\ swap' = swap /\ reply' = reply
  BY DEF UseWrite
<1>8. \A r \in Pids : SamePages(r)
  BY <1>7, TablesKept DEF Kept
<1>9. Content(p, n)' = c
  BY <1>4, <1>6, <1>8 DEF Content, SamePages
<1>10. ASSUME NEW r \in Pids, NEW k \in Pages, ~(r = p /\ k = n)
       PROVE  Content(r, k)' = Content(r, k)
  <2>1. Present(r, k) => FrameOf(r, k) \in Frames /\ FrameOf(r, k) # f
    BY <1>1, <1>4, <1>10 DEF OwnerInv
  <2> QED
    BY <1>6, <1>7, <1>8, <2>1, ContentKept DEF SamePages
<1>11. Stored' = [Stored EXCEPT ![p][n] = c]
  BY <1>9, <1>10, StoredWritten
<1>12. PICK a : a = AccessOf(t)
  OBVIOUS
<1>13. a.pid = p /\ a.page = n /\ a.op = c
  BY <1>2, <1>3, <1>12 DEF AccessOf
<1>14. a \in Asked
  BY <1>5, <1>12, AskedOf
<1>15. Asked' = Asked \ {a}
  BY <1>1, <1>5, <1>12, AskedEnds
<1> QED
  BY <1>3, <1>7, <1>11, <1>13, <1>14, <1>15 DEF Stored, Memory!Write

(* The page that is created is new, and full of zeros. *)
LEMMA CreatePageRefines ==
    ASSUME Inv, Inv', NEW t \in Threads, NEW p \in Pids, CreatePage(t, p)
    PROVE  \E n \in Pages : Memory!Create(p, n)
<1>1. TypeInv /\ SwapInv /\ SwapInv' /\ OwnerInv /\ OwnerInv'
  BY DEF Inv
<1>2. PICK s \in Seq(PageEntry) : s = table[p] /\ Len(s) = PageCount(p)
  BY <1>1 DEF TypeInv, PageCount
<1>3. PICK e \in PageEntry : e = [present |-> FALSE, frame |-> 0] /\ ~e.present
  <2>1. [present |-> FALSE, frame |-> 0] \in PageEntry /\ ~[present |-> FALSE, frame |-> 0].present
    BY Sizes DEF PageEntry
  <2> QED
    BY <2>1
<1>4. PICK n \in Nat : n = Len(s)
  BY LenProperties
<1>5. /\ n < MaxTable /\ table' = [table EXCEPT ![p] = Append(s, e)]
      /\ swap' = [swap EXCEPT ![p][n] = Zero] /\ ram' = ram /\ reply' = reply
  BY <1>2, <1>3, <1>4 DEF CreatePage
<1>6. n \in Pages
  BY <1>5, Sizes DEF Pages
<1>7. /\ \A q \in Pids : q # p => SamePages(q)
      /\ \A k \in Pages : /\ Present(p, k)' <=> Present(p, k)
                          /\ Present(p, k) => k # n /\ FrameOf(p, k)' = FrameOf(p, k)
  <2>1. PICK r \in Seq(PageEntry) :
           /\ table' = [table EXCEPT ![p] = r] /\ Len(r) = n + 1 /\ r[n + 1] = e
           /\ \A i \in 1 .. n : r[i] = s[i]
    <3>1. /\ Append(s, e) \in Seq(PageEntry) /\ Len(Append(s, e)) = Len(s) + 1
          /\ Append(s, e)[Len(s) + 1] = e
          /\ \A i \in 1 .. Len(s) : Append(s, e)[i] = s[i]
      BY AppendProperties
    <3> QED
      BY <1>4, <1>5, <3>1
  <2>2. Len(r) <= MaxTable
    BY <1>5, <2>1, Sizes
  <2>3. /\ \A q \in Pids : q # p => Kept(q)
        /\ \A k \in Pages : /\ Present(p, k)' <=> k < Len(r) /\ r[k + 1].present
                            /\ FrameOf(p, k)' = r[k + 1].frame
    BY <1>1, <2>1, <2>2, TableReplaced
  <2>4. \A k \in Pages : /\ Present(p, k) <=> k < n /\ s[k + 1].present
                         /\ FrameOf(p, k) = s[k + 1].frame
    BY <1>2, <1>4 DEF Present, FrameOf, PageCount
  <2>5. ASSUME NEW k \in Pages
        PROVE  /\ Present(p, k)' <=> Present(p, k)
               /\ Present(p, k) => k # n /\ FrameOf(p, k)' = FrameOf(p, k)
    <3>1. k \in Nat
      BY Sizes
    <3>2. CASE k < n
      <4>1. k + 1 \in 1 .. n
        BY <3>1, <3>2
      <4> QED
        BY <2>1, <2>3, <2>4, <3>1, <3>2, <4>1
    <3>3. CASE k = n
      BY <1>3, <2>1, <2>3, <2>4, <3>3
    <3>4. CASE n < k
      BY <2>1, <2>3, <2>4, <3>1, <3>4
    <3> QED
      BY <3>1, <3>2, <3>3, <3>4
  <2> QED
    BY <2>3, <2>5 DEF Kept
<1>8. /\ swap'[p][n] = Zero
      /\ \A q \in Pids, k \in Pages : ~(q = p /\ k = n) => swap'[q][k] = swap[q][k]
  <2>1. WritesSwap(p, n, Zero)
    BY <1>5 DEF WritesSwap
  <2> QED
    BY <1>1, <1>6, <2>1, SwapWritten
<1>9. \A k \in Pages : Stored[p][k] # NoPage <=> k < n
  BY <1>1, <1>2, <1>4, StoredHas
<1>10. Content(p, n)' = Zero
  BY <1>6, <1>7, <1>8 DEF Content
<1>11. ASSUME NEW q \in Pids, NEW k \in Pages, ~(q = p /\ k = n)
       PROVE  Content(q, k)' = Content(q, k)
  BY <1>5, <1>7, <1>8, <1>11, ContentKept DEF SamePages
<1>12. Stored' = [Stored EXCEPT ![p][n] = Zero]
  BY <1>6, <1>10, <1>11, StoredWritten
<1>13. Asked' = Asked
  <2>1. UNCHANGED <<pc, petition>>
    BY DEF CreatePage, threadVars
  <2> QED
    BY <2>1, AskedKept DEF Pending, AccessOf
<1>14. \A a \in Asked : a.pid # p
  BY ServedIdle DEF CreatePage
<1> QED
  BY <1>5, <1>6, <1>9, <1>12, <1>13, <1>14
     DEF Stored, Memory!Create, Memory!Idle, Memory!Has

(* The last page is in no frame and not in the swap. *)
LEMMA DeleteLastPageRefines ==
    ASSUME Inv, NEW t \in Threads, NEW p \in Pids, DeleteLastPage(t, p)
    PROVE  \E n \in Pages : Memory!Delete(p, n)
<1>1. TypeInv /\ SwapInv /\ OwnerInv
  BY DEF Inv
<1>2. PICK s \in Seq(PageEntry) : s = table[p] /\ Len(s) <= MaxTable /\ Len(s) = PageCount(p)
  BY <1>1 DEF TypeInv, PageCount
<1>3. PICK n \in Nat : n = PageCount(p) - 1 /\ n > 0
  <2>1. PageCount(p) \in Nat /\ PageCount(p) - 1 > 0
    BY <1>2, LenProperties DEF DeleteLastPage
  <2> QED
    BY <2>1
<1>4. n \in Pages /\ Len(s) = n + 1
  BY <1>2, <1>3, Sizes DEF Pages
<1>5. /\ table' = [table EXCEPT ![p] = SubSeq(s, 1, n)]
      /\ swap' = [swap EXCEPT ![p][n] = NoPage] /\ ram' = ram /\ reply' = reply
  BY <1>2, <1>3 DEF DeleteLastPage
<1>6. /\ \A q \in Pids : q # p => SamePages(q)
      /\ ~Present(p, n)'
      /\ \A k \in Pages : k # n => /\ Present(p, k)' <=> Present(p, k)
                                   /\ Present(p, k) => FrameOf(p, k)' = FrameOf(p, k)
  <2>1. PICK r \in Seq(PageEntry) :
           /\ table' = [table EXCEPT ![p] = r] /\ Len(r) = n
           /\ \A i \in 1 .. n : r[i] = s[i]
    <3>1. /\ SubSeq(s, 1, n) \in Seq(PageEntry) /\ Len(SubSeq(s, 1, n)) = n
          /\ \A i \in 1 .. n : SubSeq(s, 1, n)[i] = s[i]
      BY <1>3, <1>4, SubSeqProperties
    <3> QED
      BY <1>5, <3>1
  <2>2. Len(r) <= MaxTable
    BY <1>2, <1>4, <2>1, Sizes
  <2>3. /\ \A q \in Pids : q # p => Kept(q)
        /\ \A k \in Pages : /\ Present(p, k)' <=> k < Len(r) /\ r[k + 1].present
                            /\ FrameOf(p, k)' = r[k + 1].frame
    BY <1>1, <2>1, <2>2, TableReplaced
  <2>4. \A k \in Pages : /\ Present(p, k) <=> k < n + 1 /\ s[k + 1].present
                         /\ FrameOf(p, k) = s[k + 1].frame
    BY <1>2, <1>4 DEF Present, FrameOf, PageCount
  <2>5. ASSUME NEW k \in Pages, k # n
        PROVE  /\ Present(p, k)' <=> Present(p, k)
               /\ Present(p, k) => FrameOf(p, k)' = FrameOf(p, k)
    <3>1. k \in Nat
      BY Sizes
    <3>2. CASE k < n
      <4>1. k + 1 \in 1 .. n
        BY <3>1, <3>2
      <4> QED
        BY <2>1, <2>3, <2>4, <3>1, <3>2, <4>1
    <3>3. CASE n < k
      BY <2>1, <2>3, <2>4, <3>1, <3>3
    <3> QED
      BY <2>5, <3>1, <3>2, <3>3
  <2>6. ~Present(p, n)'
    BY <1>4, <2>1, <2>3
  <2> QED
    BY <2>3, <2>5, <2>6 DEF Kept
<1>7. /\ swap'[p][n] = NoPage
      /\ \A q \in Pids, k \in Pages : ~(q = p /\ k = n) => swap'[q][k] = swap[q][k]
  <2>1. WritesSwap(p, n, NoPage)
    BY <1>5 DEF WritesSwap
  <2> QED
    BY <1>1, <1>4, <2>1, SwapWritten
<1>8. Content(p, n)' = NoPage
  BY <1>6, <1>7 DEF Content
<1>9. ASSUME NEW q \in Pids, NEW k \in Pages, ~(q = p /\ k = n)
      PROVE  Content(q, k)' = Content(q, k)
  BY <1>5, <1>6, <1>7, <1>9, ContentKept DEF SamePages
<1>10. Stored' = [Stored EXCEPT ![p][n] = NoPage]
  BY <1>4, <1>8, <1>9, StoredWritten
<1>11. \A k \in Pages : Stored[p][k] # NoPage <=> k < n + 1
  BY <1>1, <1>2, <1>4, StoredHas
<1>12. Asked' = Asked
  <2>1. UNCHANGED <<pc, petition>>
    BY DEF DeleteLastPage, threadVars
  <2> QED
    BY <2>1, AskedKept DEF Pending, AccessOf
<1>13. \A a \in Asked : a.pid # p
  BY ServedIdle DEF DeleteLastPage
<1> QED
  BY <1>3, <1>4, <1>5, <1>10, <1>11, <1>12, <1>13
     DEF Stored, Memory!Delete, Memory!Idle, Memory!Has

(* A process that is suspended has in the swap what it had in its frames. *)
LEMMA SuspendRefines ==
    ASSUME Inv, NEW t \in Threads, NEW p \in Pids, Suspend(t, p)
    PROVE  UNCHANGED <<Stored, reply>>
<1>1. TypeInv
  BY DEF Inv
<1>2. PICK old \in Seq(PageEntry) : old = table[p] /\ Len(old) <= MaxTable
  BY <1>1 DEF TypeInv
<1> DEFINE new == [i \in DOMAIN old |-> [old[i] EXCEPT !.present = FALSE]]
<1>3. table' = [table EXCEPT ![p] = new] /\ ram' = ram /\ reply' = reply
  <2>1. table' = [table EXCEPT ![p] = [i \in DOMAIN table[p] |->
                                          [table[p][i] EXCEPT !.present = FALSE]]]
    BY DEF Suspend
  <2>2. table' = [table EXCEPT ![p] = new]
    BY <1>2, <2>1
  <2> QED
    BY <2>2 DEF Suspend
<1>4. new \in Seq(PageEntry) /\ Len(new) = Len(old) /\ \A i \in 1 .. Len(old) : ~new[i].present
  BY AllAbsent
<1> HIDE DEF new
<1>5. /\ \A r \in Pids : r # p => SamePages(r)
      /\ \A n \in Pages : ~Present(p, n)'
  <2>1. Len(new) <= MaxTable
    BY <1>2, <1>4
  <2>2. /\ \A r \in Pids : r # p => Kept(r)
        /\ \A n \in Pages : Present(p, n)' <=> n < Len(new) /\ new[n + 1].present
    BY <1>1, <1>3, <1>4, <2>1, TableReplaced
  <2>3. ASSUME NEW n \in Pages, n < Len(old) PROVE ~new[n + 1].present
    <3>1. n + 1 \in 1 .. Len(old)
      BY <2>3, LenProperties, Sizes
    <3> QED
      BY <1>4, <3>1
  <2> QED
    BY <1>4, <2>2, <2>3 DEF Kept
<1>6. /\ \A r \in Pids : r # p => swap'[r] = swap[r]
      /\ \A n \in Pages : swap'[p][n] = Content(p, n)
  <2> DEFINE w == [n \in Pages |-> IF n \in PresentPages(p) THEN ram[FrameOf(p, n)]
                                   ELSE swap[p][n]]
  <2>1. \A n \in Pages : w[n] = Content(p, n)
    BY DEF PresentPages, Content
  <2>2. swap' = [swap EXCEPT ![p] = w] /\ swap \in [Pids -> [Pages -> Contents \cup {NoPage}]]
    BY <1>1 DEF TypeInv, Suspend
  <2> HIDE DEF w
  <2> QED
    BY <2>1, <2>2
<1>7. \A n \in Pages : Content(p, n)' = Content(p, n)
  <2>1. \A n \in Pages : Content(p, n)' = swap'[p][n]
    BY <1>5 DEF Content
  <2> QED
    BY <1>6, <2>1
<1>8. ASSUME NEW r \in Pids, NEW n \in Pages, r # p PROVE Content(r, n)' = Content(r, n)
  BY <1>3, <1>5, <1>6, <1>8, ContentKept DEF SamePages
<1> QED
  BY <1>3, <1>7, <1>8, StoredKept

(* A process that ends leaves nothing. *)
LEMMA EndRefines ==
    ASSUME Inv, NEW t \in Threads, NEW p \in Pids, End(t, p)
    PROVE  Stored' = [Stored EXCEPT ![p] = [n \in Pages |-> NoPage]] /\ reply' = reply
<1>1. TypeInv
  BY DEF Inv
<1>2. /\ table' = [table EXCEPT ![p] = <<>>] /\ swap' = [swap EXCEPT ![p] = [n \in Pages |-> NoPage]]
      /\ ram' = ram /\ reply' = reply
  BY DEF End
<1>3. /\ \A r \in Pids : r # p => SamePages(r)
      /\ \A n \in Pages : ~Present(p, n)'
  <2>1. PICK s \in Seq(PageEntry) : s = <<>> /\ Len(s) = 0
    BY EmptySeq
  <2>2. table' = [table EXCEPT ![p] = s] /\ Len(s) <= MaxTable
    BY <1>2, <2>1, Sizes
  <2>3. /\ \A r \in Pids : r # p => Kept(r)
        /\ \A n \in Pages : Present(p, n)' <=> n < Len(s) /\ s[n + 1].present
    BY <1>1, <2>2, TableReplaced
  <2>4. \A n \in Pages : ~(n < 0)
    BY Sizes
  <2> QED
    BY <2>1, <2>3, <2>4 DEF Kept
<1>4. /\ \A r \in Pids : r # p => swap'[r] = swap[r]
      /\ \A n \in Pages : swap'[p][n] = NoPage
  BY <1>1, <1>2 DEF TypeInv
<1>5. \A n \in Pages : Content(p, n)' = NoPage
  BY <1>3, <1>4 DEF Content
<1>6. ASSUME NEW r \in Pids, NEW n \in Pages, r # p PROVE Content(r, n)' = Content(r, n)
  BY <1>2, <1>3, <1>4, <1>6, ContentKept DEF SamePages
<1> QED
  BY <1>2, <1>5, <1>6, StoredEmpty

(* At the start no process has a page. *)
LEMMA InitRefines == Init => Memory!Init
<1> SUFFICES ASSUME Init PROVE Memory!Init
  OBVIOUS
<1>1. \A p \in Pids, n \in Pages : ~Present(p, n)
  <2>1. \A p \in Pids : PageCount(p) = 0
    BY EmptySeq DEF Init, PageCount
  <2>2. \A n \in Pages : ~(n < 0)
    BY Sizes
  <2> QED
    BY <2>1, <2>2 DEF Present
<1>2. \A p \in Pids, n \in Pages : Content(p, n) = NoPage
  BY <1>1 DEF Content, Init
<1>3. reply = [p \in Pids |-> NoPage]
  BY DEF Init
<1>4. Asked = {}
  BY DEF Init, Asked
<1> QED
  BY <1>2, <1>3, <1>4 DEF Memory!Init

(* A process that is suspended or that ends has no access under way. *)
LEMMA RetiresAskNothing ==
    ASSUME PetitionInv, NEW t \in Threads, NEW p \in Pids, Serves(t, p),
           NEW s \in {"release", "forget"}, Retires(t, p, s)
    PROVE  Asked' = Asked
<1>1. /\ pc'[t] = s /\ \A u \in Threads : u # t => pc'[u] = pc[u] /\ petition'[u] = petition[u]
  BY DEF Retires, Goes, PetitionInv
<1>2. ~Pending(t) /\ ~Pending(t)'
  BY <1>1 DEF Pending, Serves
<1> QED
  BY <1>1, <1>2, AskedNothing

(* Nor while the thread lets it go. *)
LEMMA LeavingAsksNothing ==
    ASSUME PetitionInv, NEW t \in Threads, SuspendRelease(t) \/ Forget(t)
    PROVE  Asked' = Asked
<1>1. CASE SuspendRelease(t)
  <2>1. /\ pc'[t] = "forget" /\ \A u \in Threads : u # t => pc'[u] = pc[u]
        /\ petition' = petition /\ pc[t] = "release"
    BY <1>1 DEF SuspendRelease, Goes, PetitionInv
  <2>2. ~Pending(t) /\ ~Pending(t)'
    BY <2>1 DEF Pending
  <2> QED
    BY <2>1, <2>2, AskedNothing
<1>2. CASE Forget(t)
  <2>1. /\ pc'[t] = "idle" /\ \A u \in Threads : u # t => pc'[u] = pc[u]
        /\ \A u \in Threads : u # t => petition'[u] = petition[u]
        /\ pc[t] = "forget"
    BY <1>2 DEF Forget, Finish, Goes, PetitionInv
  <2>2. ~Pending(t) /\ ~Pending(t)'
    BY <2>1 DEF Pending
  <2> QED
    BY <2>1, <2>2, AskedNothing
<1> QED
  BY <1>1, <1>2

(* A thread looks for the page of its access. *)
LEMMA SearchAsksNothing ==
    ASSUME PetitionInv, NEW t \in Threads,
           \/ LookupHit(t) \/ LookupMiss(t) \/ WalkPresent(t) \/ Choose(t)
           \/ Load(t) \/ EvictDrop(t) \/ EvictSave(t) \/ EvictUnmap(t)
           \/ WriteFrame(t) \/ Install(t)
    PROVE  Asked' = Asked
<1>1. /\ pc[t] \in {"translate", "walk", "load", "drop", "save", "unmap", "write", "install"}
      /\ petition' = petition
  BY DEF LookupHit, LookupMiss, WalkPresent, Choose, Load, EvictDrop, EvictSave, EvictUnmap,
         WriteFrame, Install
<1>2. PICK s \in Steps : Goes(t, s) /\ s \notin {"idle", "release", "forget", "answer"}
  BY DEF LookupHit, LookupMiss, WalkPresent, Choose, Load, EvictDrop, EvictSave, EvictUnmap,
         WriteFrame, Install, Uses, Steps, Accessing
<1>3. Pending(t) /\ pc[t] # "answer"
  BY <1>1 DEF Pending
<1> QED
  BY <1>1, <1>2, <1>3, AskedGoesOn

(* Each step is an operation on the pages, or changes nothing a process sees. *)
LEMMA NextRefines == Inv /\ Inv' /\ [Next]_vars => [Memory!Next]_(Memory!vars)
<1> SUFFICES ASSUME Inv, Inv', [Next]_vars PROVE Memory!Next \/ UNCHANGED Memory!vars
  OBVIOUS
<1>p. PetitionInv
  BY DEF Inv
<1>v. UNCHANGED <<Stored, reply>> /\ Asked' = Asked => UNCHANGED Memory!vars
  BY DEF Stored, Memory!vars
<1>1. ASSUME NEW t \in Threads, UseRead(t) PROVE Memory!Next
  BY <1>1, UseReadRefines DEF Memory!Next
<1>2. ASSUME NEW t \in Threads, Answer(t) PROVE Memory!Next
  BY <1>2, AnswerRefines DEF Memory!Next
<1>3. ASSUME NEW t \in Threads, UseWrite(t) PROVE Memory!Next
  BY <1>3, UseWriteRefines DEF Memory!Next
<1>4. ASSUME NEW t \in Threads, NEW p \in Pids, CreatePage(t, p) PROVE Memory!Next
  BY <1>4, CreatePageRefines DEF Memory!Next
<1>5. ASSUME NEW t \in Threads, NEW p \in Pids, DeleteLastPage(t, p) PROVE Memory!Next
  BY <1>5, DeleteLastPageRefines DEF Memory!Next
<1>6. ASSUME NEW t \in Threads, NEW p \in Pids, End(t, p) PROVE Memory!Next
  <2>1. Serves(t, p) /\ Retires(t, p, "forget")
    BY <1>6 DEF End
  <2>2. Asked' = Asked
    BY <1>p, <2>1, RetiresAskNothing
  <2>3. \A a \in Asked : a.pid # p
    BY <2>1, ServedIdle
  <2>4. Memory!End(p)
    BY <1>6, <2>2, <2>3, EndRefines DEF Stored, Memory!End, Memory!Idle
  <2> QED
    BY <2>4 DEF Memory!Next
<1>7. ASSUME NEW t \in Threads, NEW p \in Pids, NEW n \in Pages,
             NEW op \in Written \cup {Reads}, Access(t, p, n, op)
      PROVE  Memory!Next
  <2>1. UNCHANGED <<Stored, reply>>
    BY <1>7, NothingMoves DEF Access
  <2>2. Asked' = Asked \cup {[pid |-> p, page |-> n, op |-> op, read |-> FALSE]}
    BY <1>p, <1>7, AskedBegins
  <2>3. \A a \in Asked : a.pid # p
    BY <1>7, ServedIdle DEF Access
  <2>4. Stored[p][n] # NoPage
    BY <1>7, StoredHas DEF Access, Inv
  <2>5. Memory!Ask(p, n, op)
    BY <2>1, <2>2, <2>3, <2>4 DEF Stored, Memory!Ask, Memory!Idle
  <2>6. op \in Contents \cup {Reads}
    BY PagingAssumption DEF PagingAssumption
  <2> QED
    BY <2>5, <2>6 DEF Memory!Next
<1>8. ASSUME NEW t \in Threads, NEW p \in Pids, Petition(t, p)
      PROVE  Memory!Next \/ UNCHANGED Memory!vars
  <2>1. ASSUME Suspend(t, p) PROVE UNCHANGED Memory!vars
    <3>1. Serves(t, p) /\ Retires(t, p, "release")
      BY <2>1 DEF Suspend
    <3>2. Asked' = Asked
      BY <1>p, <3>1, RetiresAskNothing
    <3> QED
      BY <1>v, <2>1, <3>2, SuspendRefines
  <2> QED
    BY <1>4, <1>5, <1>6, <1>7, <1>8, <2>1 DEF Petition
<1>9. ASSUME NEW t \in Threads, Thread(t) PROVE Memory!Next \/ UNCHANGED Memory!vars
  <2>1. CASE LookupHit(t) \/ LookupMiss(t) \/ WalkPresent(t) \/ Choose(t)
    <3>1. UNCHANGED <<ram, table, swap, reply>>
      BY <2>1 DEF LookupHit, LookupMiss, WalkPresent, Choose
    <3> QED
      BY <1>p, <1>v, <2>1, <3>1, NothingMoves, SearchAsksNothing
  <2>2. CASE Load(t) \/ EvictDrop(t)
    <3>1. UNCHANGED <<ram, table, swap, reply>>
      BY <2>2 DEF Load, EvictDrop
    <3> QED
      BY <1>p, <1>v, <2>2, <3>1, NothingMoves, SearchAsksNothing
  <2>3. CASE EvictSave(t) \/ EvictUnmap(t) \/ WriteFrame(t) \/ Install(t)
    <3>1. Asked' = Asked
      BY <1>p, <2>3, SearchAsksNothing
    <3> QED
      BY <1>v, <2>3, <3>1, EvictSaveRefines, EvictUnmapRefines, WriteFrameRefines, InstallRefines
  <2>4. CASE UseRead(t) \/ Answer(t) \/ UseWrite(t)
    BY <1>1, <1>2, <1>3, <2>4
  <2>5. CASE SuspendRelease(t) \/ Forget(t)
    <3>1. UNCHANGED <<ram, table, swap, reply>>
      BY <2>5 DEF SuspendRelease, Forget
    <3> QED
      BY <1>p, <1>v, <2>5, <3>1, NothingMoves, LeavingAsksNothing
  <2> QED
    BY <1>9, <2>1, <2>2, <2>3, <2>4, <2>5 DEF Thread
<1>10. ASSUME NEW p \in Pids, Start(p) PROVE UNCHANGED Memory!vars
  <2>1. UNCHANGED <<ram, table, swap, reply>> /\ UNCHANGED <<pc, petition>>
    BY <1>10 DEF Start, threadVars
  <2>2. Asked' = Asked
    BY <2>1, AskedKept DEF Pending, AccessOf
  <2> QED
    BY <1>v, <2>1, <2>2, NothingMoves
<1>11. CASE UNCHANGED vars
  <2>1. UNCHANGED <<ram, table, swap, reply>> /\ UNCHANGED <<pc, petition>>
    BY <1>11 DEF vars, threadVars
  <2>2. Asked' = Asked
    BY <2>1, AskedKept DEF Pending, AccessOf
  <2> QED
    BY <1>v, <2>1, <2>2, NothingMoves
<1> QED
  BY <1>8, <1>9, <1>10, <1>11 DEF Next

(* Through hits, misses, replacements and suspensions a page changes only by the petitions of
   its process, and what a process is sent is what its page had when it was read, where
   threads have blocks of their own or come one at a time (heap_read, heap_write, createPage,
   memfreeHandler, capiTermHandler). *)
THEOREM PagingImplementsPagedMemory ==
    ASSUME Apart
    PROVE  Spec => ImplementsPagedMemory
<1>1. Inv /\ Inv' /\ [Next]_vars => [Memory!Next]_(Memory!vars)
  BY NextRefines
<1> QED
  BY <1>1, InitRefines, PagingInv, PTL DEF Spec, ImplementsPagedMemory, Memory!Spec
=============================================================================
