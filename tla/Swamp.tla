------------------------------- MODULE Swamp -------------------------------
(***************************************************************************)
(* The swap server (swamp/src): its files, the two assignment algorithms   *)
(* and the petitions of the memory, one at a time on one connection.       *)
(*                                                                         *)
(* The memory is the environment, as memory/src/petitionHandlers.c uses    *)
(* the swap: the pages of a process are created in order, destroyed from   *)
(* the last, and all of them when it ends; a pid does not come back.       *)
(***************************************************************************)
EXTENDS Integers, Sequences, FiniteSets, FiniteSetsExt

CONSTANTS
    Pids,           \* pids of processes
    NoPid,          \* the zero of the entries calloc makes
    Contents,       \* what a page may hold
    Zero,           \* the content of a page full of zeros
    NumFiles,       \* swapConfig->swapFiles
    MaxPages,       \* file->maxPages
    MaxFrames,      \* swapConfig->maxFrames
    MaxTable,       \* bound: pages in a process's page table
    MaxConnections  \* bound: connections of the memory

ASSUME SwampAssumption ==
    /\ NoPid \notin Pids
    /\ Zero \in Contents
    /\ NumFiles \in Nat \ {0} /\ MaxPages \in Nat \ {0} /\ MaxFrames \in Nat \ {0}
    /\ MaxTable \in Nat \ {0} /\ MaxConnections \in Nat \ {0}

Files == 1 .. NumFiles
Indexes == 0 .. MaxPages - 1
\* An assigned index may lie past the end of a file whose last chunk is not whole
Slots == 0 .. MaxPages + MaxFrames - 1
Pages == 0 .. MaxTable - 1
Algorithms == {"ASIG_FIJA", "ASIG_GLOBAL"}

VARIABLES
    entries,        \* sf->entries of each file
    content,        \* the mapped file, page by page
    asignacion,     \* the algorithm the memory chose when it connected
    reply,          \* the last petition and its answer
    client,         \* the memory's processes: "new" | "running" | "ending" | "gone"
    table,          \* the memory's page tables: whether each page was accepted
    connections     \* counted to MaxConnections

fileVars == <<entries, content>>
memoryVars == <<client, table, connections>>
vars == <<fileVars, asignacion, reply, memoryVars>>

\* A page the server cleared and never wrote since
Unused == [used |-> FALSE, pid |-> NoPid, page |-> 0]

Init ==
    /\ entries = [f \in Files |-> [i \in Slots |-> Unused]]
    /\ content = [f \in Files |-> [i \in Slots |-> Zero]]
    /\ asignacion \in Algorithms
    /\ reply = <<>>
    /\ client = [p \in Pids |-> "new"]
    /\ table = [p \in Pids |-> <<>>]
    /\ connections = 1

-----------------------------------------------------------------------------
(* swapFile.c *)

UsedIndexes(f) == {i \in Indexes : entries[f][i].used}

FreeIndexes(f) == Indexes \ UsedIndexes(f)

\* swapFile_hasPid and swapFile_countPidPages
PidIndexes(f, p) == {i \in UsedIndexes(f) : entries[f][i].pid = p}

\* The first of some indexes, -1 when there is none
First(S) == IF S = {} THEN -1 ELSE Min(S)

\* swapFile_getIndex: an entry that is not used any more is found too
GetIndex(f, p, n) ==
    First({i \in Indexes : entries[f][i].pid = p /\ entries[f][i].page = n})

-----------------------------------------------------------------------------
(* swap.c: each operator is the index a page gets in a file, -1 when it is refused *)

\* The first file that has a page of the process, 0 for NULL
PidExists(p) ==
    LET holding == {f \in Files : PidIndexes(f, p) # {}}
    IN  IF holding = {} THEN 0 ELSE Min(holding)

ChunkStarts == {i \in Indexes : i % MaxFrames = 0}

\* Mutant: the first chunk, free or not
FreeChunkAny(f) == First(ChunkStarts)

\* hasFreeChunk and findFreeChunk look at the first page of a chunk only
FreeChunk(f) == First({i \in ChunkStarts : ~entries[f][i].used})

\* The first chunk that begins with a page of the process, if that page is used
GetChunk(f, p) ==
    LET i == First({j \in ChunkStarts : entries[f][j].pid = p})
    IN  IF i # -1 /\ entries[f][i].used THEN i ELSE -1

\* Mutant: a process that fills its chunk is not refused
FijaIndexUnbounded(f, p, n) ==
    LET base == IF GetChunk(f, p) # -1 THEN GetChunk(f, p) ELSE FreeChunk(f)
    IN  IF GetIndex(f, p, n) # -1 THEN GetIndex(f, p, n)
        ELSE IF base = -1 THEN -1 ELSE base + Cardinality(PidIndexes(f, p))

\* A page beyond the chunk is refused
FijaIndex(f, p, n) ==
    LET base == IF GetChunk(f, p) # -1 THEN GetChunk(f, p) ELSE FreeChunk(f)
        offset == Cardinality(PidIndexes(f, p))
    IN  IF GetIndex(f, p, n) # -1 THEN GetIndex(f, p, n)
        ELSE IF base = -1 \/ offset = MaxFrames THEN -1 ELSE base + offset

FijaFile(p) ==
    LET free == {f \in Files : FreeChunk(f) # -1}
    IN  IF PidExists(p) # 0 THEN PidExists(p) ELSE IF free = {} THEN 0 ELSE Min(free)

\* Mutant: a page that is already in the file gets a second index
GlobalIndexFresh(f, p, n) == First(FreeIndexes(f))

GlobalIndex(f, p, n) ==
    IF GetIndex(f, p, n) # -1 THEN GetIndex(f, p, n) ELSE First(FreeIndexes(f))

\* Mutant: the first file, whatever room it has
GlobalFileFirst(p) == IF PidExists(p) # 0 THEN PidExists(p) ELSE 1

\* The first of the files with most free indexes
GlobalFile(p) ==
    LET room(f) == Cardinality(FreeIndexes(f))
    IN  IF PidExists(p) # 0 THEN PidExists(p)
        ELSE Min({f \in Files : \A g \in Files : room(f) >= room(g)})

\* Where a page is put: <<file, index>>, or <<0, -1>> when there is no room
Assigned(p, n) ==
    LET f == IF asignacion = "ASIG_FIJA" THEN FijaFile(p) ELSE GlobalFile(p)
        i == IF asignacion = "ASIG_FIJA" THEN FijaIndex(f, p, n) ELSE GlobalIndex(f, p, n)
    IN  IF f = 0 THEN <<0, -1>> ELSE IF i = -1 THEN <<0, -1>> ELSE <<f, i>>

-----------------------------------------------------------------------------
(* The petitions *)

\* writeAtIndex and register
Store(p, n, c) ==
    LET f == Assigned(p, n)[1]
        i == Assigned(p, n)[2]
    IN  /\ f # 0
        /\ content' = [content EXCEPT ![f][i] = c]
        /\ entries' = [entries EXCEPT ![f][i] = [used |-> TRUE, pid |-> p, page |-> n]]
        /\ reply' = <<"SAVE_PAGE", p, n, "SWAP_OK">>

Refuse(p, n) ==
    /\ Assigned(p, n)[1] = 0
    /\ reply' = <<"SAVE_PAGE", p, n, "SWAP_ERROR">>
    /\ UNCHANGED fileVars

\* The index of a page in the file that has its process, -1 if there is none
IndexOf(p, n) == IF PidExists(p) = 0 THEN -1 ELSE GetIndex(PidExists(p), p, n)

ReadPage(p, n) ==
    /\ reply' = <<"READ_PAGE", p, n,
                  IF IndexOf(p, n) = -1 THEN "SWAP_ERROR"
                                        ELSE content[PidExists(p)][IndexOf(p, n)]>>
    /\ UNCHANGED fileVars

\* Mutant: the entry stays in use
DestroyPageKeeping(p, n) ==
    IF IndexOf(p, n) = -1
    THEN /\ reply' = <<"DESTROY_PAGE", p, n, "SWAP_ERROR">>
         /\ UNCHANGED fileVars
    ELSE /\ content' = [content EXCEPT ![PidExists(p)][IndexOf(p, n)] = Zero]
         /\ reply' = <<"DESTROY_PAGE", p, n, "SWAP_OK">>
         /\ UNCHANGED entries

\* The entry keeps its pid and page number
DestroyPage(p, n) ==
    IF IndexOf(p, n) = -1
    THEN /\ reply' = <<"DESTROY_PAGE", p, n, "SWAP_ERROR">>
         /\ UNCHANGED fileVars
    ELSE /\ content' = [content EXCEPT ![PidExists(p)][IndexOf(p, n)] = Zero]
         /\ entries' = [entries EXCEPT ![PidExists(p)][IndexOf(p, n)].used = FALSE]
         /\ reply' = <<"DESTROY_PAGE", p, n, "SWAP_OK">>

-----------------------------------------------------------------------------
(* The memory *)

NextPage(p) == Len(table[p])
LastPage(p) == Len(table[p]) - 1

\* A process whose first page was refused cannot go on
Usable(p) == client[p] = "running" /\ (table[p] # <<>> => table[p][1])

Start(p) ==
    /\ client[p] = "new"
    /\ client' = [client EXCEPT ![p] = "running"]
    /\ UNCHANGED <<fileVars, asignacion, reply, table, connections>>

\* createPage: the page table has the new entry even if the swap refuses the page
CreatePage(p) ==
    /\ Usable(p)
    /\ NextPage(p) < MaxTable
    /\ \/ Store(p, NextPage(p), Zero) /\ table' = [table EXCEPT ![p] = Append(@, TRUE)]
       \/ Refuse(p, NextPage(p)) /\ table' = [table EXCEPT ![p] = Append(@, FALSE)]
    /\ UNCHANGED <<asignacion, client, connections>>

\* suspendHandler and replace: a page that was loaded is written back
WriteBack(p, n, c) ==
    /\ Usable(p)
    /\ n < NextPage(p) /\ table[p][n + 1]
    /\ Store(p, n, c) \/ Refuse(p, n)
    /\ UNCHANGED <<asignacion, memoryVars>>

\* replace
LoadPage(p, n) ==
    /\ Usable(p)
    /\ n < NextPage(p)
    /\ ReadPage(p, n)
    /\ UNCHANGED <<asignacion, memoryVars>>

\* memfree and deleteLastPages keep page 0
EraseLast(p) ==
    /\ client[p] = "running" /\ LastPage(p) > 0
    /\ DestroyPage(p, LastPage(p))
    /\ table' = [table EXCEPT ![p] = SubSeq(@, 1, Len(@) - 1)]
    /\ UNCHANGED <<asignacion, client, connections>>

\* capiTermHandler destroys all the pages, between petitions of other processes
EndProcess(p) ==
    /\ client[p] = "running"
    /\ client' = [client EXCEPT ![p] = IF table[p] = <<>> THEN "gone" ELSE "ending"]
    /\ UNCHANGED <<fileVars, asignacion, reply, table, connections>>

EraseEnding(p) ==
    /\ client[p] = "ending"
    /\ DestroyPage(p, LastPage(p))
    /\ table' = [table EXCEPT ![p] = SubSeq(@, 1, Len(@) - 1)]
    /\ client' = [client EXCEPT ![p] = IF LastPage(p) = 0 THEN "gone" ELSE "ending"]
    /\ UNCHANGED <<asignacion, connections>>

\* The memory's socket is closed and the next memory is accepted: the files stay as they are
Reconnect ==
    /\ connections < MaxConnections
    /\ connections' = connections + 1
    /\ asignacion' \in Algorithms
    /\ client' = [p \in Pids |-> IF client[p] = "new" THEN "new" ELSE "gone"]
    /\ table' = [p \in Pids |-> <<>>]
    /\ reply' = <<>>
    /\ UNCHANGED fileVars

Next ==
    \/ \E p \in Pids :
         \/ Start(p) \/ CreatePage(p) \/ EraseLast(p) \/ EndProcess(p) \/ EraseEnding(p)
         \/ \E n \in Pages : LoadPage(p, n) \/ \E c \in Contents : WriteBack(p, n, c)
    \/ Reconnect

Spec == Init /\ [][Next]_vars

-----------------------------------------------------------------------------
(* Properties *)

\* Type invariant: a slot keeps pid and page whether it is in use or not
TypeOK ==
    /\ entries \in [Files -> [Slots -> [used : BOOLEAN, pid : Pids \cup {NoPid}, page : Pages]]]
    /\ content \in [Files -> [Slots -> Contents]]
    /\ asignacion \in Algorithms
    /\ client \in [Pids -> {"new", "running", "ending", "gone"}]
    /\ table \in [Pids -> Seq(BOOLEAN)] /\ \A p \in Pids : Len(table[p]) <= MaxTable
    /\ connections \in 1 .. MaxConnections

Live(p) == client[p] \in {"running", "ending"}

(* A page in swap is in one place: no two entries in use are of the same page of a
   process, in one file or in two, although entries keep their pid after their page was
   destroyed and are found by it. *)
OneEntryPerPage ==
    \A f, g \in Files, i, j \in Indexes :
        LET a == entries[f][i]
            b == entries[g][j]
        IN  a.used /\ b.used /\ a.pid = b.pid /\ a.page = b.page /\ Live(a.pid)
                => f = g /\ i = j

(* swap.c:44-47: with fixed assignment the pages of a process that is alive are in one
   chunk of one file and no other process alive has a page there, although a chunk is
   taken for free by its first page alone. *)
ChunksNotShared ==
    asignacion = "ASIG_FIJA" =>
        \A f, g \in Files, i, j \in Indexes :
            LET a == entries[f][i]
                b == entries[g][j]
            IN  a.used /\ b.used /\ Live(a.pid) /\ Live(b.pid)
                    => (a.pid = b.pid <=> f = g /\ i \div MaxFrames = j \div MaxFrames)

(* swapFile.h:21, "maxPages: cantidad de paginas que entran en el archivo": no page is
   put past the end of a file. *)
NoPageBeyondFile == \A f \in Files, i \in Slots \ Indexes : ~entries[f][i].used

\* The places of the pages of processes that are alive
LivePlaces ==
    {at \in Files \X Indexes :
        entries[at[1]][at[2]].used /\ Live(entries[at[1]][at[2]].pid)}

Stored ==
    {<<entries[at[1]][at[2]].pid, entries[at[1]][at[2]].page, content[at[1]][at[2]]>> :
        at \in LivePlaces}

Swap == INSTANCE PageStore WITH stored <- Stored

(* The memory gets back each page as it last saved it, is refused only pages that are
   new, and is told of a page that is not in swap, whatever the pages of the processes
   that came before have left in the files. *)
ImplementsPageStore == Swap!Spec

(* swap.c:43-47 and 77-81: a page is refused only when the file its process is in, or
   all of them for a new process, has no room for it. *)
RefusedOnlyWhenFull ==
    [][\A p \in Pids :
          table'[p] # table[p] /\ reply' = <<"SAVE_PAGE", p, NextPage(p), "SWAP_ERROR">> =>
          LET files == IF PidExists(p) = 0 THEN Files ELSE {PidExists(p)}
          IN  \A f \in files :
                IF asignacion = "ASIG_GLOBAL" THEN FreeIndexes(f) = {}
                ELSE \/ Cardinality(PidIndexes(f, p)) = MaxFrames
                     \/ PidExists(p) = 0 /\ \A i \in ChunkStarts : entries[f][i].used]_vars

=============================================================================
