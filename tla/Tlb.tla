-------------------------------- MODULE Tlb --------------------------------
(***************************************************************************)
(* The translation lookaside buffer (memory/src/tlb.c) as operators on its *)
(* state: the entries and victimQueue. Each is one region under its mutex. *)
(***************************************************************************)
EXTENDS Integers, Sequences, SequencesExt, FiniteSetsExt

CONSTANT NoPid          \* the zero of the entries calloc makes

NoFrame == -1

CreateTLB(size) ==
    [entries |-> [i \in 1 .. size |-> [pid |-> NoPid, page |-> 0, frame |-> 0, isFree |-> TRUE]],
     victimQueue |-> <<>>]

\* The entries of a page, freed ones included
EntriesOf(tlb, p, n) ==
    {i \in DOMAIN tlb.entries : tlb.entries[i].pid = p /\ tlb.entries[i].page = n}

LiveEntriesOf(tlb, p, n) == {i \in EntriesOf(tlb, p, n) : ~tlb.entries[i].isFree}

FreeEntries(tlb) == {i \in DOMAIN tlb.entries : tlb.entries[i].isFree}

\* getFrameFromTLB: the last entry found wins
GetFrame(tlb, p, n) ==
    LET live == LiveEntriesOf(tlb, p, n)
    IN  IF live = {} THEN NoFrame ELSE tlb.entries[Max(live)].frame

MoveToEnd(queue, i) == Append(RemoveFirst(queue, i), i)

\* updateVictimQueue of some entries, in their order
MoveAllToEnd(queue, hits) ==
    MapThenFoldSet(LAMBDA i, q : MoveToEnd(q, i), queue, LAMBDA i : i, Max, hits)

\* The entries that are hit; FIFO leaves the queue alone
UpdateVictims(tlb, p, n, algorithm) ==
    IF algorithm = "FIFO" THEN tlb
    ELSE [tlb EXCEPT !.victimQueue = MoveAllToEnd(@, LiveEntriesOf(tlb, p, n))]

\* A free entry first; a reused entry may already be in the queue and is added again
AddEntry(tlb, p, n, f) ==
    LET free == FreeEntries(tlb)
        i == IF free # {} THEN Min(free) ELSE Head(tlb.victimQueue)
        queue == IF free # {} THEN tlb.victimQueue ELSE Tail(tlb.victimQueue)
    IN  [entries |-> [tlb.entries EXCEPT
                        ![i] = [pid |-> p, page |-> n, frame |-> f, isFree |-> FALSE]],
         victimQueue |-> Append(queue, i)]

\* Mutant: an entry that is dropped stays valid
DropEntryMissing(tlb, p, n) == tlb

\* The first entry of the page, free or not, which stays in the queue
DropEntry(tlb, p, n) ==
    LET found == EntriesOf(tlb, p, n)
    IN  IF found = {} THEN tlb ELSE [tlb EXCEPT !.entries[Min(found)].isFree = TRUE]

FreeProcessEntries(tlb, p) ==
    [tlb EXCEPT !.entries = [i \in DOMAIN @ |->
        IF @[i].pid = p THEN [@[i] EXCEPT !.isFree = TRUE] ELSE @[i]]]

=============================================================================
