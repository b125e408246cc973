------------------------------- MODULE Paging -------------------------------
(***************************************************************************)
(* The memory's pages and frames (memory/src/memory.c, pageTable.c and the *)
(* handlers of petitionHandlers.c that use them), with the TLB of Tlb and  *)
(* the swap as PageStore promises it. One thread serves each connection.   *)
(*                                                                         *)
(* A petition on the heap is a sequence of pages created, read, written    *)
(* and deleted from the last. The swap accepts the pages it is given. A    *)
(* process has one petition at a time, its suspension included. A thread   *)
(* that has no frame (-1) goes no further: it would use entries[-1].       *)
(***************************************************************************)
EXTENDS Tlb, FiniteSets

CONSTANTS
    Pids,           \* processes
    Threads,        \* threads of the memory, one for each connection
    NumFrames,      \* config->frameQty
    Modes,          \* the configurations to start from, see Mode
    Contents,       \* what a page may hold
    Zero,           \* the content of a page full of zeros
    NoPage,
    Reads,          \* the operation that is not a write of some content
    Written,        \* bound: the contents that processes write
    MaxTable        \* bound: pages in a process's page table

Frames == 0 .. NumFrames - 1
Pages == 0 .. MaxTable - 1

\* asignacion, algoritmo, framesPerProcess, the TLB's algorithm and size, how many threads
\* have petitions at a time, and a bound: how many pages are read or written
Mode == [asignacion : {"fijo", "global"}, algoritmo : {"LRU", "clock_m"},
         framesPerProcess : 1 .. NumFrames, tlb : {"FIFO", "LRU"}, tlbSize : Nat \ {0},
         threads : Nat \ {0}, accesses : Nat]

ASSUME PagingAssumption ==
    /\ NoPid \notin Pids
    /\ NumFrames \in Nat \ {0}
    /\ Zero \in Contents /\ Written \subseteq Contents
    /\ NoPage \notin Contents /\ Reads \notin Contents
    /\ MaxTable \in Nat \ {0}
    /\ \A m \in Modes : m \in Mode /\ NumFrames % m.framesPerProcess = 0

VARIABLES
    mode,           \* never changes
    meta,           \* metadata->entries, but for timeStamp
    recency,        \* the frames in the order of their timeStamp, those with 0 left out
    firstFrame,     \* metadata->firstFrame: the process each block is assigned to
    hand,           \* metadata->clock_m_Counter, and clock_m_Counter for block 0
    ram,            \* the content of each frame
    table,          \* the page table of each process
    tlb,
    swap,           \* what the swap has
    client,         \* "new" | "running" | "gone"
    pc, petition,   \* the next step of each thread, and its page
    frame, buffer,  \* the frame it uses, the page it has loaded
    victim,         \* the page it replaces, as replace() read it
    reply,          \* what each process has read and not been sent yet, or NoPage
    accesses        \* pages read or written, counted to the bound of the mode

frameVars == <<meta, recency, firstFrame, hand>>
threadVars == <<pc, petition, frame, buffer, victim>>
vars == <<mode, frameVars, ram, table, tlb, swap, client, threadVars, reply, accesses>>

NoPetition == [pid |-> NoPid, page |-> 0, op |-> Reads]
\* The rest of the metadata of a free frame is not read before it is written: it is left out
FreeFrame == [isFree |-> TRUE, modified |-> FALSE, u |-> FALSE, pid |-> NoPid, page |-> 0]
NoVictim == [pid |-> NoPid, page |-> 0, modified |-> FALSE]
Blocks == 0 .. (NumFrames \div mode.framesPerProcess) - 1

Init ==
    /\ mode \in Modes
    /\ meta = [f \in Frames |-> FreeFrame]
    /\ recency = <<>>
    /\ firstFrame = [b \in Blocks |-> NoPid]
    /\ hand = [b \in Blocks |-> b * mode.framesPerProcess]
    /\ ram = [f \in Frames |-> Zero]
    /\ table = [p \in Pids |-> <<>>]
    /\ tlb = CreateTLB(mode.tlbSize)
    /\ swap = [p \in Pids |-> [n \in Pages |-> NoPage]]
    /\ client = [p \in Pids |-> "new"]
    /\ pc = [t \in Threads |-> "idle"]
    /\ petition = [t \in Threads |-> NoPetition]
    /\ frame = [t \in Threads |-> NoFrame]
    /\ buffer = [t \in Threads |-> Zero]
    /\ victim = [t \in Threads |-> NoVictim]
    /\ reply = [p \in Pids |-> NoPage]
    /\ accesses = 0

-----------------------------------------------------------------------------
(* Page tables, frames *)

PageCount(p) == Len(table[p])
Present(p, n) == n < PageCount(p) /\ table[p][n + 1].present
FrameOf(p, n) == table[p][n + 1].frame
PresentPages(p) == {n \in Pages : Present(p, n)}

FreeFrames(range) == {f \in range : meta[f].isFree}

\* updateTimestamp, whose timestamps only LRU reads
Stamp(f) == recency' = IF mode.algoritmo = "LRU" THEN MoveToEnd(recency, f) ELSE recency

\* 0 for a frame that was never used, and Len(recency) for the one whose timeStamp is
\* metadata->counter
Age(f) == IF f \in Range(recency) THEN CHOOSE i \in DOMAIN recency : recency[i] = f ELSE 0

\* LRU: only a frame whose timeStamp is below the counter is taken
LRU(range) ==
    LET older == {f \in range : Age(f) < Len(recency)}
    IN  IF FreeFrames(range) # {} THEN Min(FreeFrames(range))
        ELSE IF older = {} THEN NoFrame
        ELSE Min({f \in older : \A g \in older : Age(f) <= Age(g)})

\* clock_m: how far the hand is from a frame, and the nearest of some frames
Distance(range, h, f) == (f - h) % Cardinality(range)
Nearest(range, h, S) == CHOOSE f \in S : \A g \in S : Distance(range, h, f) <= Distance(range, h, g)

\* The scans: not used and not modified; not used, clearing u on the way; then the same
\* again with every u cleared
ClockVictim(range, h) ==
    LET cold == {f \in range : ~meta[f].u}
        clean == {f \in range : ~meta[f].modified}
    IN  IF cold \cap clean # {} THEN Nearest(range, h, cold \cap clean)
        ELSE IF cold # {} THEN Nearest(range, h, cold)
        ELSE IF clean # {} THEN Nearest(range, h, clean) ELSE h

ClockCleared(range, h) ==
    LET cold == {f \in range : ~meta[f].u}
        clean == {f \in range : ~meta[f].modified}
    IN  IF cold \cap clean # {} THEN {}
        ELSE IF cold = {} THEN range
        ELSE {f \in range : Distance(range, h, f) < Distance(range, h, ClockVictim(range, h))}

NextHand(range, f) == Min(range) + ((f + 1) % Cardinality(range))

\* Mutant: fijo finds the free blocks only
BlockOfFree(p) ==
    LET free == {b \in Blocks : firstFrame[b] = NoPid}
    IN  IF free # {} THEN Min(free) ELSE -1

\* fijo: the block of the process, or the first that is free, or -1
BlockOf(p) ==
    LET own == {b \in Blocks : firstFrame[b] = p}
        free == {b \in Blocks : firstFrame[b] = NoPid}
    IN  IF own # {} THEN Min(own) ELSE IF free # {} THEN Min(free) ELSE -1

RangeOf(b) ==
    IF mode.asignacion = "global" THEN Frames
    ELSE b * mode.framesPerProcess .. (b + 1) * mode.framesPerProcess - 1

-----------------------------------------------------------------------------
(* Petitions *)

Busy == {t \in Threads : pc[t] # "idle"}

\* A thread takes the petition of a process that has no other
Serves(t, p) ==
    /\ client[p] = "running"
    /\ pc[t] = "idle"
    /\ Cardinality(Busy) < mode.threads
    /\ \A u \in Threads : petition[u].pid # p

Goes(t, step) == pc' = [pc EXCEPT ![t] = step]

Finish(t) ==
    /\ Goes(t, "idle")
    /\ petition' = [petition EXCEPT ![t] = NoPetition]
    /\ frame' = [frame EXCEPT ![t] = NoFrame]
    /\ buffer' = [buffer EXCEPT ![t] = Zero]
    /\ victim' = [victim EXCEPT ![t] = NoVictim]

\* capiIDHandler
Start(p) ==
    /\ client[p] = "new"
    /\ client' = [client EXCEPT ![p] = "running"]
    /\ UNCHANGED <<mode, frameVars, ram, table, tlb, swap, threadVars, reply, accesses>>

\* createPage
CreatePage(t, p) ==
    /\ Serves(t, p)
    /\ PageCount(p) < MaxTable
    /\ table' = [table EXCEPT ![p] = Append(@, [present |-> FALSE, frame |-> 0])]
    /\ swap' = [swap EXCEPT ![p][PageCount(p)] = Zero]
    /\ UNCHANGED <<mode, frameVars, ram, tlb, client, threadVars, reply, accesses>>

\* memfreeHandler, the pages past the last block
DeleteLastPage(t, p) ==
    LET n == PageCount(p) - 1
        f == FrameOf(p, n)
    IN  /\ Serves(t, p)
        /\ n > 0
        /\ IF Present(p, n)
           THEN /\ meta' = [meta EXCEPT ![f] = FreeFrame]
                /\ tlb' = DropEntry(tlb, p, n)
           ELSE UNCHANGED <<meta, tlb>>
        /\ table' = [table EXCEPT ![p] = SubSeq(@, 1, n)]
        /\ swap' = [swap EXCEPT ![p][n] = NoPage]
        /\ UNCHANGED <<mode, recency, firstFrame, hand, ram, client, threadVars, reply, accesses>>

\* heap_read and heap_write, page by page
Access(t, p, n, op) ==
    /\ Serves(t, p)
    /\ n < PageCount(p)
    /\ accesses < mode.accesses
    /\ accesses' = accesses + 1
    /\ petition' = [petition EXCEPT ![t] = [pid |-> p, page |-> n, op |-> op]]
    /\ Goes(t, "translate")
    /\ UNCHANGED <<mode, frameVars, ram, table, tlb, swap, client, frame, buffer, victim, reply>>

-----------------------------------------------------------------------------
(* getFrame *)

\* The thread uses frame f from here on
Uses(t, f) == frame' = [frame EXCEPT ![t] = f] /\ Goes(t, "use")

LookupHit(t) ==
    LET p == petition[t].pid
        n == petition[t].page
        f == GetFrame(tlb, p, n)
    IN  /\ pc[t] = "translate"
        /\ f # NoFrame
        /\ tlb' = UpdateVictims(tlb, p, n, mode.tlb)
        /\ meta' = [meta EXCEPT ![f].u = TRUE]
        /\ Stamp(f)
        /\ Uses(t, f)
        /\ UNCHANGED <<mode, firstFrame, hand, ram, table, swap, client, petition, buffer,
                       victim, reply, accesses>>

LookupMiss(t) ==
    /\ pc[t] = "translate"
    /\ GetFrame(tlb, petition[t].pid, petition[t].page) = NoFrame
    /\ Goes(t, "walk")
    /\ UNCHANGED <<mode, frameVars, ram, table, tlb, swap, client, petition, frame, buffer,
                   victim, reply, accesses>>

WalkPresent(t) ==
    LET p == petition[t].pid
        n == petition[t].page
        f == FrameOf(p, n)
    IN  /\ pc[t] = "walk"
        /\ Present(p, n)
        /\ Stamp(f)
        /\ meta' = [meta EXCEPT ![f].u = TRUE]
        /\ tlb' = AddEntry(tlb, p, n, f)
        /\ Uses(t, f)
        /\ UNCHANGED <<mode, firstFrame, hand, ram, table, swap, client, petition, buffer,
                       victim, reply, accesses>>

\* asignacion and algoritmo. Without a block there is no frame either
Choose(t) ==
    LET b == IF mode.asignacion = "fijo" THEN BlockOf(petition[t].pid) ELSE 0
        range == RangeOf(b)
        scans == b # -1 /\ mode.algoritmo = "clock_m" /\ FreeFrames(range) = {}
        f == IF b = -1 THEN NoFrame
             ELSE IF scans THEN ClockVictim(range, hand[b]) ELSE LRU(range)
    IN  /\ pc[t] = "walk"
        /\ ~Present(petition[t].pid, petition[t].page)
        /\ firstFrame' = [c \in Blocks |-> IF mode.asignacion = "fijo" /\ c = b
                                           THEN petition[t].pid ELSE firstFrame[c]]
        /\ hand' = [c \in Blocks |-> IF scans /\ c = b THEN NextHand(range, f) ELSE hand[c]]
        /\ meta' = [g \in Frames |-> IF scans /\ g \in ClockCleared(range, hand[b])
                                     THEN [meta[g] EXCEPT !.u = FALSE] ELSE meta[g]]
        /\ frame' = [frame EXCEPT ![t] = f]
        /\ Goes(t, "load")
        /\ UNCHANGED <<mode, recency, ram, table, tlb, swap, client, petition, buffer, victim,
                       reply, accesses>>

-----------------------------------------------------------------------------
(* replace *)

Load(t) ==
    LET f == frame[t]
    IN  /\ pc[t] = "load"
        /\ f # NoFrame
        /\ buffer' = [buffer EXCEPT ![t] = swap[petition[t].pid][petition[t].page]]
        /\ IF meta[f].isFree
           THEN Goes(t, "write") /\ UNCHANGED victim
           ELSE /\ victim' = [victim EXCEPT ![t] = [pid |-> meta[f].pid, page |-> meta[f].page,
                                                   modified |-> meta[f].modified]]
                /\ Goes(t, "drop")
        /\ UNCHANGED <<mode, frameVars, ram, table, tlb, swap, client, petition, frame, reply,
                       accesses>>

EvictDrop(t) ==
    /\ pc[t] = "drop"
    /\ tlb' = DropEntry(tlb, victim[t].pid, victim[t].page)
    /\ Goes(t, "save")
    /\ UNCHANGED <<mode, frameVars, ram, table, swap, client, petition, frame, buffer, victim,
                   reply, accesses>>

\* Mutant: a modified page leaves without being sent to the swap
EvictSaveMissing(t) ==
    /\ pc[t] = "save"
    /\ Goes(t, "unmap")
    /\ UNCHANGED <<mode, frameVars, ram, table, tlb, swap, client, petition, frame, buffer,
                   victim, reply, accesses>>

EvictSave(t) ==
    /\ pc[t] = "save"
    /\ swap' = IF victim[t].modified
               THEN [swap EXCEPT ![victim[t].pid][victim[t].page] = ram[frame[t]]] ELSE swap
    /\ Goes(t, "unmap")
    /\ UNCHANGED <<mode, frameVars, ram, table, tlb, client, petition, frame, buffer, victim,
                   reply, accesses>>

\* Mutant: the page that leaves is still present
EvictUnmapMissing(t) ==
    /\ pc[t] = "unmap"
    /\ Goes(t, "write")
    /\ UNCHANGED <<mode, frameVars, ram, table, tlb, swap, client, petition, frame, buffer,
                   victim, reply, accesses>>

EvictUnmap(t) ==
    /\ pc[t] = "unmap"
    /\ victim[t].page < PageCount(victim[t].pid)
    /\ table' = [table EXCEPT ![victim[t].pid][victim[t].page + 1] =
                     [present |-> FALSE, frame |-> NoFrame]]
    /\ Goes(t, "write")
    /\ UNCHANGED <<mode, frameVars, ram, tlb, swap, client, petition, frame, buffer, victim,
                   reply, accesses>>

\* writeFrame
WriteFrame(t) ==
    /\ pc[t] = "write"
    /\ ram' = [ram EXCEPT ![frame[t]] = buffer[t]]
    /\ meta' = [meta EXCEPT ![frame[t]].modified = TRUE, ![frame[t]].u = TRUE]
    /\ Goes(t, "install")
    /\ UNCHANGED <<mode, recency, firstFrame, hand, table, tlb, swap, client, petition, frame,
                   buffer, victim, reply, accesses>>

\* The end of replace, and of getFrame
Install(t) ==
    LET p == petition[t].pid
        n == petition[t].page
        f == frame[t]
    IN  /\ pc[t] = "install"
        /\ table' = [table EXCEPT ![p][n + 1] = [present |-> TRUE, frame |-> f]]
        /\ tlb' = AddEntry(tlb, p, n, f)
        /\ meta' = [meta EXCEPT ![f] = [isFree |-> FALSE, modified |-> FALSE, u |-> TRUE,
                                        pid |-> p, page |-> n]]
        /\ Stamp(f)
        /\ Uses(t, f)
        /\ UNCHANGED <<mode, firstFrame, hand, ram, swap, client, petition, buffer, victim,
                       reply, accesses>>

-----------------------------------------------------------------------------
(* The page is used: heap_read's copy, ram_editFrame *)

UseRead(t) ==
    /\ pc[t] = "use"
    /\ petition[t].op = Reads
    /\ reply' = [reply EXCEPT ![petition[t].pid] = ram[frame[t]]]
    /\ Goes(t, "answer")
    /\ UNCHANGED <<mode, frameVars, ram, table, tlb, swap, client, petition, frame, buffer,
                   victim, accesses>>

Answer(t) ==
    /\ pc[t] = "answer"
    /\ reply' = [reply EXCEPT ![petition[t].pid] = NoPage]
    /\ Finish(t)
    /\ UNCHANGED <<mode, frameVars, ram, table, tlb, swap, client, accesses>>

\* Mutant: the frame is not marked as modified
UseWriteUnmarked(t) ==
    /\ pc[t] = "use"
    /\ petition[t].op # Reads
    /\ ram' = [ram EXCEPT ![frame[t]] = petition[t].op]
    /\ Finish(t)
    /\ UNCHANGED <<mode, frameVars, table, tlb, swap, client, reply, accesses>>

UseWrite(t) ==
    /\ pc[t] = "use"
    /\ petition[t].op # Reads
    /\ meta' = [meta EXCEPT ![frame[t]].modified = TRUE, ![frame[t]].u = TRUE]
    /\ ram' = [ram EXCEPT ![frame[t]] = petition[t].op]
    /\ Finish(t)
    /\ UNCHANGED <<mode, recency, firstFrame, hand, table, tlb, swap, client, reply, accesses>>

-----------------------------------------------------------------------------
(* suspendHandler, capiTermHandler *)

FramesOf(p) == {FrameOf(p, n) : n \in PresentPages(p)}

FreedOf(p) == [f \in Frames |-> IF f \in FramesOf(p) THEN FreeFrame ELSE meta[f]]

\* The thread has process p in its hands from here on
Retires(t, p, step) ==
    /\ petition' = [petition EXCEPT ![t] = [NoPetition EXCEPT !.pid = p]]
    /\ Goes(t, step)

Suspend(t, p) ==
    /\ Serves(t, p)
    /\ swap' = [swap EXCEPT ![p] = [n \in Pages |->
                    IF n \in PresentPages(p) THEN ram[FrameOf(p, n)] ELSE @[n]]]
    /\ meta' = FreedOf(p)
    /\ table' = [table EXCEPT ![p] = [i \in DOMAIN @ |-> [@[i] EXCEPT !.present = FALSE]]]
    /\ Retires(t, p, "release")
    /\ UNCHANGED <<mode, recency, firstFrame, hand, ram, tlb, client, frame, buffer, victim,
                   reply, accesses>>

SuspendRelease(t) ==
    /\ pc[t] = "release"
    /\ firstFrame' = [b \in Blocks |-> IF firstFrame[b] = petition[t].pid THEN NoPid
                                        ELSE firstFrame[b]]
    /\ Goes(t, "forget")
    /\ UNCHANGED <<mode, meta, recency, hand, ram, table, tlb, swap, client, petition, frame,
                   buffer, victim, reply, accesses>>

\* firstFrame keeps the process (the TODO of memory.c)
End(t, p) ==
    /\ Serves(t, p)
    /\ swap' = [swap EXCEPT ![p] = [n \in Pages |-> NoPage]]
    /\ meta' = FreedOf(p)
    /\ table' = [table EXCEPT ![p] = <<>>]
    /\ client' = [client EXCEPT ![p] = "gone"]
    /\ Retires(t, p, "forget")
    /\ UNCHANGED <<mode, recency, firstFrame, hand, ram, tlb, frame, buffer, victim, reply,
                   accesses>>

Forget(t) ==
    /\ pc[t] = "forget"
    /\ tlb' = FreeProcessEntries(tlb, petition[t].pid)
    /\ Finish(t)
    /\ UNCHANGED <<mode, frameVars, ram, table, swap, client, reply, accesses>>

Thread(t) ==
    \/ LookupHit(t) \/ LookupMiss(t) \/ WalkPresent(t) \/ Choose(t)
    \/ Load(t) \/ EvictDrop(t) \/ EvictSave(t) \/ EvictUnmap(t) \/ WriteFrame(t) \/ Install(t)
    \/ UseRead(t) \/ Answer(t) \/ UseWrite(t)
    \/ SuspendRelease(t) \/ Forget(t)

Petition(t, p) ==
    \/ CreatePage(t, p) \/ DeleteLastPage(t, p) \/ Suspend(t, p) \/ End(t, p)
    \/ \E n \in Pages, op \in Written \cup {Reads} : Access(t, p, n, op)

Next ==
    \/ \E p \in Pids : Start(p)
    \/ \E t \in Threads : Thread(t) \/ \E p \in Pids : Petition(t, p)

Spec == Init /\ [][Next]_vars

-----------------------------------------------------------------------------
(* Properties *)

\* The state is well typed: among the rest, the hand of each block stays in its block and
\* a page that is present has a frame (clock_m, replace)
TypeOK ==
    /\ mode \in Modes
    /\ meta \in [Frames -> [isFree : BOOLEAN, modified : BOOLEAN, u : BOOLEAN,
                            pid : Pids \cup {NoPid}, page : Pages]]
    /\ recency \in Seq(Frames) /\ IsInjective(recency)
    /\ firstFrame \in [Blocks -> Pids \cup {NoPid}]
    /\ hand \in [Blocks -> Frames] /\ \A b \in Blocks : hand[b] \in RangeOf(b)
    /\ ram \in [Frames -> Contents]
    /\ \A p \in Pids : table[p] \in Seq([present : BOOLEAN, frame : Frames \cup {NoFrame}])
    /\ \A p \in Pids : \A n \in PresentPages(p) : FrameOf(p, n) \in Frames
    /\ tlb.victimQueue \in Seq(DOMAIN tlb.entries)
    /\ swap \in [Pids -> [Pages -> Contents \cup {NoPage}]]
    /\ client \in [Pids -> {"new", "running", "gone"}]
    /\ frame \in [Threads -> Frames \cup {NoFrame}]
    /\ buffer \in [Threads -> Contents]
    /\ reply \in [Pids -> Contents \cup {NoPage}]
    /\ accesses \in 0 .. mode.accesses

\* A page that is present and the metadata of its frame name each other, and a frame that
\* is not free has its page or is about to get another (replace, suspendHandler,
\* memfreeHandler, capiTermHandler)
FrameOwner ==
    /\ \A p \in Pids : \A n \in PresentPages(p) :
         LET f == meta[FrameOf(p, n)] IN ~f.isFree /\ f.pid = p /\ f.page = n
    /\ \A f \in Frames :
         \/ meta[f].isFree
         \/ Present(meta[f].pid, meta[f].page) /\ FrameOf(meta[f].pid, meta[f].page) = f
         \/ \E t \in Threads : frame[t] = f /\ pc[t] \in {"write", "install"}

\* What the TLB answers is what the page table says, but for a process that is leaving and
\* asks nothing (dropEntry finds the entry that is in use, freeProcessEntries)
TlbCoherent ==
    \A i \in DOMAIN tlb.entries \ FreeEntries(tlb) :
        LET e == tlb.entries[i]
        IN  \/ Present(e.pid, e.page) /\ FrameOf(e.pid, e.page) = e.frame
            \/ \E t \in Threads : petition[t].pid = e.pid /\ pc[t] \in {"release", "forget"}

\* A page that replace would not save, because its frame is not modified, is in the swap
CleanMatchesSwap ==
    \A p \in Pids : \A n \in PresentPages(p) :
        meta[FrameOf(p, n)].modified \/ ram[FrameOf(p, n)] = swap[p][n]

\* With fixed assignment a process has one block, and its pages are in it (fijo)
OwnBlock ==
    mode.asignacion = "fijo" =>
        /\ \A b, c \in Blocks : firstFrame[b] = firstFrame[c] => b = c \/ firstFrame[b] = NoPid
        /\ \A b \in Blocks : \A f \in RangeOf(b) : meta[f].isFree \/ firstFrame[b] = meta[f].pid

\* "Algoritmo (clock-m o LRU) ... eligen la victima dentro del rango" (memory.h)
VictimInRange ==
    \A t \in Threads : pc[t] = "load" =>
        IF mode.asignacion = "global" THEN frame[t] \in Frames
        ELSE \E b \in Blocks : firstFrame[b] = petition[t].pid /\ frame[t] \in RangeOf(b)

\* "Si el frame no esta libre se envia a swap la pagina que lo ocupa" (replace): when a
\* frame is written nobody's page is in it
OccupantSaved ==
    \A t \in Threads : pc[t] = "write" => \A p \in Pids : frame[t] \notin FramesOf(p)

\* A page is what its frame has, or the swap
Content(p, n) == IF Present(p, n) THEN ram[FrameOf(p, n)] ELSE swap[p][n]

\* The access of a thread that has not ended: a petition is served page by page
AccessOf(t) == [pid |-> petition[t].pid, page |-> petition[t].page, op |-> petition[t].op,
                read |-> pc[t] = "answer"]
Asked == {AccessOf(t) : t \in {u \in Threads : pc[u] \notin {"idle", "release", "forget"}}}

Memory == INSTANCE PagedMemory
          WITH pages <- [p \in Pids |-> [n \in Pages |-> Content(p, n)]], asked <- Asked

\* Through hits, misses, replacements and suspensions a page changes only by the petitions of
\* its process, and what a process is sent is what its page had when it was read: no page is
\* lost on the way to the swap and none is overwritten by another's (heap_read, heap_write,
\* createPage, memfreeHandler, capiTermHandler)
ImplementsPagedMemory == Memory!Spec

=============================================================================
