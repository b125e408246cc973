----------------------------- MODULE Allocator -----------------------------
(***************************************************************************)
(* What mate_memalloc and mate_memfree promise a process, whatever its     *)
(* heap keeps in the pages: blocks that do not overlap, each behind the    *)
(* Header bytes of its metadata, placed in the first gap that is large     *)
(* enough, refused only when no gap is, and accessible until freed.        *)
(***************************************************************************)
EXTENDS Integers, FiniteSetsExt, Functions

CONSTANTS Header, Sizes

VARIABLES
    held,       \* the bytes of each block the process holds, by its address
    answer      \* what the process was last told

vars == <<held, answer>>

Init ==
    /\ held = [p \in {} |-> 0]
    /\ answer = <<"OK", 0>>

\* Where free bytes begin: at the start of the heap or after a block, if no block follows
GapStarts ==
    {e \in {0} \cup {p + held[p] : p \in DOMAIN held} : e + Header \notin DOMAIN held}

Above(e) == {p \in DOMAIN held : p > e}

\* The bytes a block may have between its metadata and those of the next block
GapRoom(e) == Min(Above(e)) - Header - (e + Header)

Gaps(size) == {e \in GapStarts : Above(e) # {} /\ GapRoom(e) >= size}

Give(e, room) ==
    /\ held' = [p \in DOMAIN held \cup {e + Header} |->
                  IF p = e + Header THEN room ELSE held[p]]
    /\ answer' = <<"POINTER", e + Header>>

\* A gap is taken whole unless what is left has its own metadata and a byte
AllocInGap(size) ==
    /\ Gaps(size) # {}
    /\ LET e == Min(Gaps(size)) IN
       \E room \in size .. size + Header :
          /\ room = GapRoom(e) \/ GapRoom(e) - room > Header
          /\ Give(e, room)

AllocAtEnd(size) ==
    /\ Gaps(size) = {}
    /\ Give(Max(GapStarts), size)

Refuse(size) ==
    /\ Gaps(size) = {}
    /\ answer' = <<"POINTER", 0>>
    /\ UNCHANGED held

Free(p) ==
    /\ held' = Restrict(held, DOMAIN held \ {p})
    /\ answer' = <<"OK", 0>>

\* A byte of a block may be read and written
Access ==
    /\ held # << >>
    /\ answer' = <<"OK", 0>>
    /\ UNCHANGED held

\* An address of no block
Error ==
    /\ answer' = <<"ERROR", 0>>
    /\ UNCHANGED held

Next ==
    \/ \E size \in Sizes : AllocInGap(size) \/ AllocAtEnd(size) \/ Refuse(size)
    \/ \E p \in DOMAIN held : Free(p)
    \/ Access \/ Error

Spec == Init /\ [][Next]_vars

=============================================================================
