-------------------------------- MODULE Heap --------------------------------
(***************************************************************************)
(* The heap of one process, as the memory's memalloc, memfree, memread and *)
(* memwrite handlers keep it: a list of allocations inside the pages, each *)
(* behind Header bytes of metadata, over the process's logical addresses.  *)
(* The pages are Paging's; here only how many there are matters. A process *)
(* has one petition at a time, so a handler is one action. The metadata an *)
(* allocation leaves behind when it is absorbed is read no more, and is    *)
(* not kept. A process frees what it holds and writes inside it.           *)
(***************************************************************************)
EXTENDS Integers, FiniteSetsExt, Functions

CONSTANTS
    PageSize,
    Header,     \* the bytes of a heapMetadata: memalloc writes the first in one page
    Sizes,      \* the sizes a process asks for
    MaxPages    \* bound: the heap does not grow beyond

ASSUME HeapAssumption ==
    /\ PageSize \in Nat \ {0} /\ Header \in 1 .. PageSize - 1
    /\ Sizes \subseteq Nat /\ MaxPages \in Nat \ {0}

VARIABLES
    pages,      \* the pageQuantity of its page table
    head,       \* the metadata of each allocation in the list, by address
    answer      \* what the process was last told

vars == <<pages, head, answer>>

Alloc(prev, next, isFree) == [prevAlloc |-> prev, nextAlloc |-> next, isFree |-> isFree]

\* The list with one allocation more
With(h, a, alloc) == [b \in DOMAIN h \cup {a} |-> IF b = a THEN alloc ELSE h[b]]

Init ==
    /\ pages = 0
    /\ head = [a \in {} |-> Alloc(0, 0, TRUE)]
    /\ answer = <<"OK", 0>>

Answer(type, value) == answer' = <<type, value>>

DivRoundUp(a, b) == IF a % b = 0 THEN a \div b ELSE a \div b + 1

\* The page with the first byte behind the metadata at a
PageBehind(a) == (a + Header) \div PageSize

-----------------------------------------------------------------------------
(* memalloc *)

\* The heap memalloc searches: an empty page table gets a page and its first allocation
First == [a \in {0} |-> Alloc(0, 0, TRUE)]
Heads == IF pages = 0 THEN First ELSE head

\* Mutant: the room is measured from the metadata's start
SuitsAnyRoom(h, a, size) ==
    h[a].nextAlloc = 0 \/ (h[a].isFree /\ h[a].nextAlloc - a >= size)

Suits(h, a, size) ==
    h[a].nextAlloc = 0 \/ (h[a].isFree /\ h[a].nextAlloc - a - Header >= size)

\* The list is in the order of the addresses (Linked)
Found(h, size) == Min({a \in DOMAIN h : Suits(h, a, size)})

\* The first memalloc finds no page in the swap: the table keeps an entry without a page,
\* and nothing can be read there again
FirstPageRefused ==
    /\ pages = 0
    /\ pages' = 1
    /\ Answer("POINTER", 0)
    /\ UNCHANGED head

TakeWhole(h, a, size) ==
    /\ h[a].nextAlloc # 0
    /\ h[a].nextAlloc - a - Header <= size + Header
    /\ head' = [h EXCEPT ![a].isFree = FALSE]
    /\ Answer("POINTER", a + Header)
    /\ UNCHANGED pages

\* Mutant: the allocation after the new one still points back to the one before it
SplitKeepingPrev(h, a, size) ==
    LET mid == a + Header + size
        old == h[a].nextAlloc
    IN  /\ old # 0
        /\ old - a - Header > size + Header
        /\ head' = With([h EXCEPT ![a] = Alloc(@.prevAlloc, mid, FALSE)], mid, Alloc(a, old, TRUE))
        /\ Answer("POINTER", a + Header)
        /\ UNCHANGED pages

Split(h, a, size) ==
    LET mid == a + Header + size
        old == h[a].nextAlloc
    IN  /\ old # 0
        /\ old - a - Header > size + Header
        /\ head' = With([h EXCEPT ![a] = Alloc(@.prevAlloc, mid, FALSE), ![old].prevAlloc = mid],
                        mid, Alloc(a, old, TRUE))
        /\ Answer("POINTER", a + Header)
        /\ UNCHANGED pages

FreeSpace(a) == PageSize - ((a + Header) % PageSize)

\* Mutant: no byte is kept behind the metadata of the last allocation
NecessaryNoByte(size) == size + Header

Necessary(size) == size + Header + 1

NewPages(a, size) ==
    IF FreeSpace(a) >= Necessary(size) THEN 0
    ELSE DivRoundUp(Necessary(size) - FreeSpace(a), PageSize)

\* The last allocation takes the size and a new last one comes behind it
Extend(h, a, size) ==
    LET last == a + Header + size
        grown == (IF pages = 0 THEN 1 ELSE pages) + NewPages(a, size)
    IN  /\ h[a].nextAlloc = 0
        /\ grown <= MaxPages
        /\ pages' = grown
        /\ head' = With([h EXCEPT ![a] = Alloc(@.prevAlloc, last, FALSE)], last, Alloc(a, 0, TRUE))
        /\ Answer("POINTER", a + Header)

\* Mutant: the pages got before the refusal are kept
RefusedKeepingPages(h, a, size) ==
    \E created \in 1 .. NewPages(a, size) :
        /\ h[a].nextAlloc = 0
        /\ pages' = Min({MaxPages, (IF pages = 0 THEN 1 ELSE pages) + created})
        /\ head' = h
        /\ Answer("POINTER", 0)

\* A page is refused: the entries of this call are deleted again (deleteLastPages)
Refused(h, a, size) ==
    /\ h[a].nextAlloc = 0
    /\ NewPages(a, size) > 0
    /\ pages' = PageBehind(a) + 1
    /\ head' = h
    /\ Answer("POINTER", 0)

\* Whether the pages hold a list at all
Usable == pages = 0 \/ DOMAIN head # {}

Memalloc(size) ==
    \/ FirstPageRefused
    \/ /\ Usable
       /\ LET a == Found(Heads, size) IN
          TakeWhole(Heads, a, size) \/ Split(Heads, a, size)
            \/ Extend(Heads, a, size) \/ Refused(Heads, a, size)

-----------------------------------------------------------------------------
(* memfree *)

ValidMallocAddress(addr) == addr < pages * PageSize

\* What is behind a freed allocation: its right neighbour if free is absorbed
NextOf(a) ==
    LET right == head[a].nextAlloc
    IN  IF right # 0 /\ head[right].isFree THEN head[right].nextAlloc ELSE right

\* Mutant: a free left neighbour does not absorb it
FinalAlone(a) == a

\* The left neighbour if free absorbs it; the first allocation is its own left neighbour
Final(a) == LET left == head[a].prevAlloc IN IF head[left].isFree THEN left ELSE a

Absorbed(a) == {b \in DOMAIN head : Final(a) < b /\ (b < NextOf(a) \/ NextOf(a) = 0)}

\* What is left of the pages when the freed allocation becomes the last one
FreePages(final, next) ==
    IF next = 0 THEN Min({pages, PageBehind(final) + 1}) ELSE pages

Memfree(p) ==
    LET a == p - Header
        final == Final(a)
        next == NextOf(a)
        kept == [Restrict(head, DOMAIN head \ Absorbed(a))
                   EXCEPT ![final].nextAlloc = next, ![final].isFree = TRUE]
    IN  /\ head' = IF next = 0 THEN kept ELSE [kept EXCEPT ![next].prevAlloc = final]
        /\ pages' = FreePages(final, next)
        /\ Answer("OK", 0)

MemfreeInvalid(addr) ==
    /\ ~ValidMallocAddress(addr)
    /\ Answer("ERROR", 0)
    /\ UNCHANGED <<pages, head>>

-----------------------------------------------------------------------------
(* memread and memwrite *)

MaxAddr == pages * PageSize - 1

Access(addr, size) ==
    /\ IF addr + size > MaxAddr THEN Answer("ERROR", 0) ELSE Answer("OK", 0)
    /\ UNCHANGED <<pages, head>>

Memread(addr, size) == Access(addr, size)

Memwrite(addr, size) == Access(addr, size)

-----------------------------------------------------------------------------
\* The bytes of each block the process holds
Held ==
    LET used == {a \in DOMAIN head : ~head[a].isFree}
    IN  [p \in {a + Header : a \in used} |-> head[p - Header].nextAlloc - p]

\* It may also pass an address just beyond its pages
Beyond == pages * PageSize

Next ==
    \/ \E size \in Sizes : Memalloc(size)
    \/ \E p \in DOMAIN Held : Memfree(p) \/ Memread(p, Held[p]) \/ Memwrite(p, Held[p])
    \/ MemfreeInvalid(Beyond)
    \/ pages > 0 /\ (Memread(Beyond, 1) \/ Memwrite(Beyond, 1))

Spec == Init /\ [][Next]_vars

-----------------------------------------------------------------------------
\* Type invariant
TypeOK ==
    /\ pages \in 0 .. MaxPages
    /\ \A a \in DOMAIN head :
         /\ a \in 0 .. pages * PageSize - Header
         /\ head[a].prevAlloc \in DOMAIN head
         /\ head[a].nextAlloc \in DOMAIN head
    /\ answer \in {"OK", "ERROR", "POINTER"} \X (0 .. pages * PageSize)

\* The list goes up the addresses and back, from 0 to a last allocation that is free and
\* has a byte behind its metadata
Linked ==
    \A a \in DOMAIN head :
        LET next == head[a].nextAlloc IN
        /\ IF a = 0 THEN head[a].prevAlloc = 0 ELSE head[head[a].prevAlloc].nextAlloc = a
        /\ next # 0 => next >= a + Header /\ head[next].prevAlloc = a
        /\ next = 0 => head[a].isFree /\ \A b \in DOMAIN head : b <= a

\* Freed neighbours are one allocation again (memfreeHandler's absorptions)
Coalesced ==
    \A a \in DOMAIN head : head[a].isFree => ~head[head[a].nextAlloc].isFree \/ head[a].nextAlloc = 0

\* The page table ends with the page of the last allocation's first byte: what a free or a
\* refusal gives up goes back to the swap, and the last metadata are never beyond the pages
PagesEndWithHeap ==
    \A a \in DOMAIN head : head[a].nextAlloc = 0 => pages = PageBehind(a) + 1

\* A memalloc that answers 0 leaves the heap as it was, or with nothing in it
RefusedChangesNothing ==
    [][answer' = <<"POINTER", 0>> =>
         IF pages = 0 THEN Held' = << >> ELSE UNCHANGED <<pages, head>>]_vars

\* The list in the pages is the allocator the processes see: blocks apart, first gap that
\* fits, no refusal while one does ("de manera simil al malloc()", README)
Blocks == INSTANCE Allocator WITH held <- Held
ImplementsAllocator == Blocks!Spec

=============================================================================
