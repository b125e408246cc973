# A verification project for sisop-2C2021

The repository simulates an operating system in three server programs: a **kernel** that
schedules clients ("carpinchos"), a **memory** with pages, frames and a TLB, and a **swap
server** (swamp). Clients use a library (libmate) and talk to the kernel, or straight to the
memory, over TCP. This directory holds TLA+ models of the programs, the instances that TLC checks,
and theorems that TLAPS checks for every value of the constants.

    tlc -config MCScheduler.cfg MCScheduler      # model-check one instance
    tlapm SchedulerProofs.tla                    # check the proofs of one module

## 1. Inventory

| Component (source) | State | Operations | Status |
|---|---|---|---|
| process scheduler (`kernel/src/kernel.c`, `callIO` and `terminateProcess` of `petitionHandlers.c`) | the queues, `process->state`, `sem_multiprogram`, `sem_newProcess`, `longTermSem`, `cuposLibres` | server loop, long term, two medium terms, CPU threads, device threads | `Scheduler` |
| concurrent queues (`shared/src/pQueue.c`) | list, mutex, semaphore of its length | put, take, takeLast, removeBy, sort, iterate | sequences in the other modules; `CommonLemmas` |
| semaphores (`mateSem.c`, `semWait`, `semPost`, `thread_semFunc`) | value, waiting processes, one thread each | init, wait, post, destroy | `Semaphores`, `Carpinchos` |
| deadlock detector (`deadlockDetector.c`, `deadlockResolver.c`) | `available`, `allocation`, `request`, `procs` | six updates; search, choice and kill of a victim | `DeadlockSearch`, `Semaphores`, `Carpinchos` |
| frames and replacement (`memory/src/memory.c`, `pageTable.c`) | RAM, metadata of each frame, page tables | `getFrame`, `replace`, fixed / global assignment, LRU / modified clock, suspend, end | `Paging` |
| TLB (`memory/src/tlb.c`) | entries, `victimQueue` | lookup, add, drop, free a process's entries | `Tlb`, used by `Paging` |
| heap of a process (`memory/src/petitionHandlers.c`) | list of blocks inside the pages | memalloc, memfree, memread, memwrite | `Heap` |
| swap interface (`memory/src/swapInterface.c`) | none | save, load, erase a page | `PageStore` |
| swap server (`swamp/src`) | files, entry of each page | save, read, destroy; fixed / global assignment; next client | `Swamp` |
| client library (`libmate/src/matelib.c`) | socket, pid, whether the server is the memory | one petition and one answer for each call | `Carpinchos`, `Pruebas` |
| client programs (`carpinchos-pruebas`) | a place in their program, the pthread semaphores they share | the calls of eight programs | `Pruebas`, run by `Carpinchos` |
| networking and serialization (`shared`) | a connection for each client | send and get a packet | in `Carpinchos` the answers on the way, in order; framing is I/O |
| configuration, logs, sleeping, signal handlers, dumps | read once, or none | | not modelled: the values are the constants of the modules |

**How they interact.** A client's packet is read by the CPU thread that runs its process; the
handlers of the kernel change the process's state and the queues, and forward memory petitions to the
memory. Blocked processes leave through the thread of a device or of a semaphore. The threads share
queues (each with a lock of its own), three counting semaphores, a hand-kept count `cuposLibres`,
`process->state`, and `mutex_mediumTerm`, which some of them take. The detector's matrices are a
second copy of the semaphores' state, updated by reports that come after the change. The memory asks
the swap server one petition at a time on one connection.

**What is hard.** Reads of `process->state` outside the mutex whose holders write it
(`kernel.c:241`, `:284`); a process that is in a queue before it has the state the taker of
the queue expects (`petitionHandlers.c:47`); one semaphore that counts two kinds of process
(`kernel.c:96`); a queue that blocks when empty, taken from inside a mutex (`kernel.c:72`); reports that
come late or in the other order (`kernel.c:306`); the frames of the memory, chosen and replaced in different
critical sections (`memory.c:269`); stale entries in swap (`swapFile.c:106`); a list kept inside pages that come
and go, split and merged in any order (`memory/src/petitionHandlers.c:388`); processes that wait for one another through
the degree of multiprogramming and the semaphores together (`kernel.c:131`). `PROJECT.json` lists every hazard at
its line with the properties for it.

**What makes each part correct.** Scheduler: each process is in one place, each slot of the degree is somewhere, no
wake-up is lost, who waits is admitted. Semaphores: no process goes on without a unit and each one handed
a unit goes on. Detector: the matrices are the semaphores' state, a victim exists when there is a deadlock
and is part of it. Memory: a page is read back as it was written, no frame has two pages. Swap: a page saved
is the page loaded. Heap: blocks are apart, what is freed is found again, nothing is refused that fits. Clients: a call has
one answer, every program ends, and leaves nothing behind in the servers.

## 2. The modules

| Module | What it is |
|---|---|
| `Threads` | counting threads at a step |
| `Scheduler` / `MCScheduler` / `SchedulerProofs` | the scheduler; instances; theorems: types, tokens and wake-ups, then where each process is |
| `DeadlockSearch` / `DeadlockSearchProofs` | the search and the choice of a victim as functions of the matrices, part of the two modules that follow; theorems for any matrices |
| `Semaphores` / `MCSemaphores` / `SemaphoresProofs` | semaphores, their threads and the detector, composed with `DeadlockSearch`; instances; theorems |
| `CountingSem` | abstract: counting semaphores as a client sees them; `Semaphores` implements it |
| `Swamp` / `MCSwamp` / `SwampProofs` | the swap server; instances; theorems |
| `Tlb` | the TLB as operators on its state |
| `Paging` / `MCPaging` / `PagingProofs` | frames, page tables, replacement, suspension, with `Tlb`; instances; theorems |
| `PagedMemory` | abstract: a page changes by its own process's petitions only, and reads back as it was last written; `Paging` implements it |
| `PageStore` | abstract: the pages of `swapInterface.h`; `Swamp` implements it |
| `Heap` / `MCHeap` / `HeapProofs` | the list of allocations of one process; an instance; theorems |
| `Allocator` | abstract: the first-fit allocator a process sees; `Heap` implements it |
| `Carpinchos` / `MCCarpinchos` / `CarpinchosProofs` | clients, kernel and memory, the petitions on semaphores step by step, composed with `DeadlockSearch`; the set-ups of the tests and one of our own; theorems |
| `Pruebas` | the programs of `carpinchos-pruebas` as sequences of calls |
| `CommonLemmas` | lemmas about appending to, taking from and removing from a queue; about quotients, minima and iterations |

### Scheduler

`Connect` is the body of the server loop; `LongTerm*`, `Unsuspender*`, `MediumTerm*`, `CPU*`, `CallIO*`,
`Terminate*` and `IO*` are the steps of `thread_longTermFunc`, `thread_mediumTermUnsuspenderFunc`,
`thread_mediumTermFunc`, `thread_CPUFunc`, `callIO`, `terminateProcess` and `thread_IODeviceFunc`. A
`t_process` is a control block of `Procs`; `UNUSED` is before `malloc` and after `free`, so a block may
come back. The ready queue is a set, because SJF and HRRN order it by measured times; `suspendedBlockedQueue` counts
the entries of each process, because its order is never used and an entry may be left behind. `leftBehind` is history: how many of those entries devices have left
by making ready a process that was suspended after they had read its state (`kernel.c:241-250`). The entry outlives the process, and `pQueue_removeBy` goes on comparing its pid.

*Which code is one action.* A region under `mutex_mediumTerm` is one action. What it touches without
another mutex is touched by others only under the same mutex or through one semaphore or
queue operation, so the region's other steps commute with the other threads and the region can be moved
together. What the code does outside the mutex is a step of its own: the devices' read of the state, the CPUs' signal
after their take, the post and the count of `terminateProcess`, the notification after a suspended process
is queued. Two places keep more together than a lock does: `CPUTake` takes a process and writes `EXEC`
(nobody else uses a process that is in no queue), and `IOReadState`
merges the two reads of the branch, the second of which can only find a state that stays.

`MediumTermWait` and `SignalMediumTerm` are the condition variable: a thread that waits is moved to
its test by a signal. A spurious wake-up would make the same test again.

### Semaphores and DeadlockSearch

`SemWait*`, `SemPost*` and `Terminate*` are the petitions on a CPU thread, `Sem*` the thread of each semaphore, `Detector` the search
and the kill. A region under a semaphore's `sem_mutex`, `mutex_mediumTerm` or `dd->mutex` is one action, with
one exception: the detector removes its victim from `waitingProcesses` without `sem_mutex`
(`deadlockResolver.c:106`), so the thread's test and take are `SemTest` and `SemTake`, and in between the
other operations on the semaphore wait. The scheduler is the environment: `Dispatch`,
`Suspend` and `Unsuspend` at any time its queues allow. The processes have all connected and the semaphores exist: creating and destroying them is in `Carpinchos`.

No thread is followed past a use of a process after its free (the guards `Alive`), and the model ends where the
kernel uses a NULL process. A thread whose report looks for a process that is not in `dd->procs` stops too: the
loop has no end in the array. These ends are reachable, and faults of the code:

- `SemTakeNull`: the detector removes the only waiting process (`deadlockResolver.c:106`) between the test of a
  semaphore's thread and its take, which uses the NULL it gets (`kernel.c:281-284`).
- a process is put in ready before `DDSemAllocated` reports it (`kernel.c:306`): it may run, end and leave `dd->procs`
  first, and the report looks for it past the end of the array. For the same reason a search may terminate a process that already runs.

What the passing runs say is said of everything before.

`DeadlockSearch` has `findDeadlocks` up to the choice of the victim. Its loops are functions of the iterations made so far: `Visit(p)` is the body of the
second loop for one process, and `Finishing` what is left after as many passes as there are processes. `isInCircularWait` calls itself: `Walks` has for
each call under way, the outermost first, the pairs of a semaphore and a holder that its two loops have still to go through, and `WalkStep` is one iteration of the innermost
call, or its return. A call that has found the base makes no other (`found || ...`), and a holder seen before ends the call with false, whatever it had
found (`:14`). The kernel goes through `procs` in the order of connection and compares pids; here a process is one number for both.

### Swamp

One petition is one action, since the server handles one at a time. The memory is the environment as `memory/src/petitionHandlers.c` uses the swap: pages created in order, written back when
loaded, erased from the last, page 0 kept, and all of them erased when the process ends, with other processes' petitions in
between. `Reconnect` is a memory that disconnects and the next one: the files keep what they had. Files have
`MaxFrames` slots past their end, where the last chunk of a file may be assigned.

The instance has chunks that divide the file. When they do not, as in `swamp/cfg/saludoAlHumedal.config` (files of 128
pages, chunks of 10), `fija` assigns the last chunk past the end of the file (`swap.c:65`), and `NoPageBeyondFile` fails. Of the
shipped configurations `swamp`, `batallaPorNordelta`, `memoriaAsignacion` and `kernelSuspension` have files of whole chunks.
`ImplementsPageStore` too is proved for those only (`Whole`, section 5): a page past the end is written where the mapping of the file does not reach.

### Paging and Tlb

A `Mode` is a configuration: assignment, replacement, frames for each process, the TLB's algorithm and size, and how many threads have a petition at a time. A petition on
the heap is a sequence of pages created, read, written and deleted from the last; the heap inside them is `Heap`, and a write replaces the content of a page.
`LookupHit` to `Choose` are `getFrame` and `swapPage`, `Load` to `Install` are `replace`, `Use*` is what `heap_read` and `ram_editFrame` do with the frame after every lock is released.
Each is one critical section, with what the thread does next to metadata that only it looks at: `Install` keeps together the page table, the TLB
and the metadata, and `WalkPresent` its two reads of the page table. `Suspend` is the region under `pageTablesMut`; `End` the loop of `capiTermHandler`.

*Why keeping them together is sound.* In the passing run either one thread at a time has a petition, or assignment is fixed and a process's frames, page table and entries are used
by the thread of its only petition; what threads share are the TLB, each of whose operations is one region, and `firstFrame`, read and written in one region. With global assignment and two threads the merged steps only leave interleavings out,
which a counterexample does not need.

*What `PagedMemory` promises.* Its state has the accesses under way (`asked`): who, which page, and to write what or to read. `Write` is the write of an access asked for, once,
with its content, on its page; `Create`, `Delete` and `End` are of a process that has no access under way, which creates its next page, deletes its last one, or goes. Nothing else changes
a page. So a page that a replacement does not save, and a frame written over by another thread, refine nothing: with global assignment and two threads TLC finds
`ImplementsPagedMemory` violated as well as `OccupantSaved`.

*What is left out.* Timestamps are kept as the order of the frames, and only for LRU, the only one to read them; the counter does not overflow. The metadata of a free frame is not read before it is written. Blocks for a process that does not get one are not run: `fijo` returns -1,
which `swapPage` does not look at. A process has one petition at a time, its suspension included, although the kernel does not wait for the suspension (`kernel.c:150`).

### Heap and Allocator

`Memalloc(size)` is `memallocHandler`, split by its cases: `FirstPageRefused`, `TakeWhole` and `Split` for a gap, `Extend` and `Refused`
for the last allocation. `Memfree` is `memfreeHandler` with both absorptions and the pages it deletes. A process has one petition at a
time on a connection that waits for the answer, so a handler is one action; which frames the pages are in is Paging's business.
`head` has the metadata of the allocations in the list; what an absorbed allocation leaves in the page is not kept, because nothing
reads it. `Found` takes the lowest address that suits, which is the first of the list because of `Linked`. The swap may refuse any
page: `createPage` returns -1.

A process frees the addresses it was given, once, and writes inside its blocks: `memfreeHandler` looks at no more than the end of the
pages, and a write over the metadata is the client's fault. Sizes are natural numbers; a negative one becomes a large unsigned one
(`petitionHandlers.c:206`). When the first page of all is refused the page table keeps an entry without a page, and no later petition on
that heap works: `Usable` lets a process in that state allocate nothing more.

`ImplementsAllocator` is the refinement: the held blocks are apart, the lowest gap that is large enough is used, a refusal comes only
when no gap is, and every held byte can be accessed, which says that the pages reach as far as the list.

### Carpinchos and Pruebas

Here are many processes, semaphores that are created and destroyed, devices, the degree, the detector with its matrices, the memory's tables and whole programs. A client is at a
call of its program (`pc`); `due` says that no server has taken the call yet, `inbox` has the answers on the way. `Return` is the end of a library function: `mate_sem_wait` closes
the instance on an error, so every later call returns at once up to the next `mate_init` or a call of the program's own (`AfterNull`). A call that blocks is answered by the CPU that
dispatches the process again (`Dispatch`; `kernel.c:181-182`) or by the detector. Which new or suspended process is admitted and which ready one runs is left open,
and any process of a circle may be the one with the biggest pid, because pids are read from a clock (`matelib.c:32`).

*Steps.* A petition on a semaphore has the steps between which another thread can see what it has done and has not told (`step` of each process): `SemWaitPass` and `SemWaitInstant`
(`petitionHandlers.c:47`, `:63`); `SemWaitEnqueue`, `SemWaitBlock` and `SemWaitRequested` (`:47`, `:48-52`, `:54`), the last of which is owed by the CPU (`asking`) while the process may already run on another; `SemPost` and
`SemPostRelease` (`:106`, `:108`); `TerminateProcess` answers and `TerminateLeave` is what comes after. A semaphore's thread tests, takes, reads the state, wakes up and reports (`SemTest` to
`SemAllocated`), a device reads and wakes up (`IORead`, `IOWakeUp`). The detector has `dd->mutex` from a search that finds somebody stuck to one that finds nobody (`locked`), and
withdraws and posts semaphore by semaphore (`KillWithdraw`, `KillPost`, `KillDestroy`); every report waits for it. A process read as `BLOCKED` and suspended since is made ready without a slot (`Found`, `WakeUp`).

*What is still one step.* In `Dispatch` the take, `EXEC` and the answer, since nobody else uses a process between its ready queue and its first petition but to report on it; in `KillDestroy` the petition to the memory, the answer, the free and the slot,
which the detector does with its mutex taken and of which no property looks at the order; the queues of the scheduler, which `Scheduler` takes apart. Three pairs are one step although another thread can come between: in `SemRead` the two reads of the state (one that is not blocked at the first and suspended at
the second would be woken up, here it is lost; `Semaphores` has the two); `sem_dict` and the matrices in `SemInit` (a wait in between would look for the semaphore past the end of `dd->sems`); and `DDProcInit` with the rest of `Connect`, here before the first petition of
the process. The last two are listed as a hazard, since they end like `"forgotten"` below.
`Connect` waits for the client's former process to be gone: `ReturnsAssumption` says of the programs that who connects twice uses no semaphores, so that no
report about the former process is taken for one about the new. `SessionsAssumption` says that who connects to a server also closes it (`mate_close`) before it connects again or ends, as all of `carpinchos-pruebas` do. A client that goes without closing is in section 6.

*Where the model ends.* `Next` stops when `fault` is not "no", because the code's behaviour is not defined any more: `"null"`, the thread of a semaphore takes from an empty queue; `"destroyed"`, a semaphore is destroyed in use; `"forgotten"`, a
report looks for a process that is not in `dd->procs`; `"freed"`, the detector frees a process that another thread has. The search that finds nobody in a circle (`locked = Nobody`) is made again for ever: then the clients that need the detector's mutex stand still, and the others go on.

`Pruebas` translates the programs call by call. What is written in memory, sleeps and messages are left out, so timing shows no order the
code does not force. A loop is run once, a run of equal calls is shortened, and of clients with the same program some are left out.
`PruebaDeadlock` is run as its two groups ("Deadlock entre estos 4", "Deadlock entre estos 2 con uno pendiente del anterior"), the second
without carpincho 1 (`DeadlockOfTwo({2, 3})`), which is only late for a semaphore of the other two; `BatallaPorNordelta` as carpinchos 2, 3 and 5 and as carpinchos 1, 4 and 7 (6 only asks for memory, 8 only connects and leaves). A test is a program for each client
with the CPUs and the degree (`Run`): those of `kernel/cfg` that belong to the program for `BatallaPorNordelta`, `PruebaBase`, `PruebaSuspension`, `PruebaPlanificacion` and `PruebaAsignacion`; the 8 and 8 of `kernelDeadlock.config` and the 2 and 2 of
`kernel.config` for the group of two of `PruebaDeadlock`, and 2 and 2 for the group of four, where clients are suspended. `PruebaMMU` runs on the memory alone. `CircleOfFour` of `MCCarpinchos` is not of the repository: four clients that take
semaphores of one and of two units in an order that may close a circle.

## 3. The runs

| Run | Checks | Instance |
|---|---|---|
| `scheduler` | `TypeOK`, `AdmissionTokens`, `LongTermNeverStuck`, `NoLostWakeup`, `CuposTracksSlots`, `DegreeAccounting`, `HeldOnce`, `BlockedQueuesExact`, `LifecycleRespected` | three processes, two CPUs, two devices, degree 2, three I/O petitions |
| `scheduler_live` | `AdmittedEventually`, `ReadyAgainEventually` | three processes, one CPU, one device, degree 1, two I/O petitions |
| `semaphores` | `TypeOK`, `NoLostWakeup`, `AvailableTracksSem`, `RequestsTrackWaits`, `VictimsInCycle`, `ImplementsCountingSem` | two processes, two mutexes, two CPUs, four petitions, one search |
| `blocked_is_woken` | `BlockedIsWoken` **fails** | the same |
| `swamp` | `OneEntryPerPage`, `NoPageBeyondFile`, `ChunksNotShared`, `ImplementsPageStore`, `RefusedOnlyWhenFull` | three processes, two files of one chunk of two pages, both assignments, two connections |
| `paging` | `FrameOwner`, `TlbCoherent`, `CleanMatchesSwap`, `OwnBlock`, `ImplementsPagedMemory` | two processes of two pages, two frames; fixed assignment with two threads and clock; global with clock; global with LRU and a TLB of one entry |
| `victim_in_range` | `VictimInRange` **fails** | fixed assignment, one frame for each process, LRU |
| `occupant_saved` | `OccupantSaved` **fails** | global assignment, two threads |
| `heap` | `Linked`, `Coalesced`, `PagesEndWithHeap`, `RefusedChangesNothing`, `ImplementsAllocator` | pages of 16 bytes, blocks of 0, 1, 6 and 20 bytes, four pages |
| `carpinchos` | `OneAnswerPerCall`, `SemaphoresOutliveUse`, `NobodyOnlyUntold`, `NothingLeft`, `VictimsDeadlocked`, `StuckExact`, `MutexCyclesFound`, `ClientsEnd` | nine set-ups of the programs (143,915 states) |
| `suspended_ready_admitted` | `SuspendedReadyAdmitted` **fails** | the four clients of `PruebaDeadlock` and its main thread, two CPUs, degree 2 |
| `circle_without_victim` | `CycleHasVictim` **fails** | four clients in a circle, two semaphores of one unit and two of two |

The type invariants of `Swamp`, `Paging` and `Heap` are stated in their modules and hold of the same instances; no run repeats them,
since the structural invariants and the refinements say more.

**Bounds.** `MaxIOCalls`, `MaxPetitions`, `MaxSearches`, `MaxTable` and `MaxConnections` count what clients
ask. In `scheduler` degree 2 with three processes makes the degree full with one to
admit, three I/O petitions are what it takes to suspend a process, admit another in its place, and have it queue while a third is suspended too; a block is reused after its free.
In `semaphores` two processes on two mutexes with four petitions are enough to close a circle, and one search to find it and kill a process while
the other threads go on. In `swamp` two pages per file let a process fill a
file, a page table of three makes the third one be refused, a third process finds no chunk, and the second connection finds the first one's entries. In `paging` four pages on two frames (or two on one) make pages be replaced; three accesses with fixed assignment, and four with global, let a page be written,
replaced and read again between suspensions, deletions and ends. In `heap` a page of 16 bytes is smaller than the largest
block and holds one metadata (9 bytes) and a small block, so that metadata and blocks cross pages, and four pages hold enough blocks for
gaps to open, merge on both sides, and be split or taken whole. In `carpinchos` nothing is counted: the programs are finite. The deadlock of two closes in its set-up with 8
and 8, where victims are terminated, forgotten and answered late; one CPU never lets it close, since nobody is taken off a CPU. With carpincho 1 it was gone through once, with two CPUs and two or three slots
(502,782 and 297,067 states, no violation), the first of which terminates a victim that is suspended. With 8 and 8 and carpincho 1, and for the group of four with 8 and 8 or 2 and 2, the states are too many to go through:
the invariants were only simulated (1.5 to 5.6 million states each, no violation). A process writes one content (`Written`) over the zeros of a new page: a write that is lost reads as zeros.
Blocks have one frame, or there is one block of two: a hand that moves inside the second of two larger blocks was checked once with four frames (5.6 million states, five minutes) and is not among the runs.

**Deadlock** is checked in the scheduler runs: a thread can always move. `CHECK_DEADLOCK FALSE` is used where
the system really stops: `Semaphores` (every process waits and no search is left, or a thread is at one of the ends above),
`Swamp` (all processes gone, no connection left), `Paging` (all processes gone, or a thread without a frame) and `Carpinchos` (every program at its end). `Heap` never stops: a process can always pass an address beyond its pages.

**Fairness** (`FairSpec`): weak fairness of each thread the kernel starts, none of which can be starved by a lock, since every region is short. It includes that a
client that executes ends its burst: a CPU thread in `recv` waits for a client that could run for ever, and the kernel never takes the CPU away (`README.md:36`); nothing can be promised to others otherwise. Nothing makes
clients connect or ask for a device. The I/O petitions are bounded, so the run does not show whether a client could wait for ever because suspended
processes are always admitted before it: with unbounded I/O it can.

`Carpinchos` states weak fairness of `Next` as a whole: something happens while something can. The programs are finite and every step
takes a client, its process or a thread further, so that is enough, and weaker than what the threads' scheduling gives. `ClientsEnd` is about the executions in which the code's behaviour stays defined (`fault`) and the
detector does not search for ever, and has two exceptions, of which it says that they are the only ones. `HeldUp(c)`: following who waits for whom, `c` comes to a process that is in no queue any more (`Lost`: the finding `BlockedIsWoken`, which the clients of `PruebaDeadlock` and
`BatallaPorNordelta` can meet) or to one that waits for a post nobody will make (`WaitsInVain`: the first carpincho of `PruebaBase` when the second has posted
`SEM_HELLO` before it was created; the post is an error that the program does not look at). `SlotsHeldByBlocked`: the case of `SuspendedReadyAdmitted` in section 4. Both are states that the end of the execution must have, so a client that is only late is none of them.

## 4. Findings

- `BlockedIsWoken` (`petitionHandlers.c:47`): a process is in the semaphore's queue before it is BLOCKED. A post in between makes the semaphore's thread take it, find it in
  EXEC, and do nothing with it; then it blocks, and nothing wakes it.
- `SuspendedReadyAdmitted` (`kernel.c:131`): the medium term suspends a process only when there is a new one. Clients of
  `PruebaDeadlock` with the degree of `kernel.config` (2) end up with two blocked clients in both slots and the client that would post for
  them suspended and ready: it waits for a slot, they wait for it, `newQueue` is empty, and the detector sees no circle because the
  suspended client requests nothing. Nothing moves any more.
- `CycleHasVictim` (`deadlockResolver.c:14`): `isInCircularWait` returns false as soon as it meets a holder that it has met before, although another one leads to the base.
  `deadlockResolver.c:26-27` says that processes that ask for more than there is imply a deadlock and one of them is terminated. With semaphores of two units four processes
  can wait for each other in a circle with the search giving up on every one of them: the list is empty, and `list_get_maximum` (`:91`) has nobody to return. `MutexCyclesFound` says where it cannot
  happen: when one process holds each semaphore.
- `VictimInRange` (`memory.c:366`): LRU takes a frame only if its timestamp is below the counter, and the frame used last has the counter. With one frame for each process (the shipped `kernelPlanificacion.config`) a single process that goes
  from one page to another gets -1, and `replace` uses `entries[-1]`.
- `OccupantSaved` (`memory.c:269`): two threads choose the same frame before either has written its metadata; the second overwrites the page of the first, which is still mapped and was not saved.

Six more behaviours are described by properties that hold, because they state what the code does with them:

- `DegreeAccounting` (`kernel.c:241`): a device reads `BLOCKED` without the mutex; the medium term suspends the process and posts its
  slot; the device puts it in ready all the same. The property says exactly how many more processes than the degree are in memory: as many
  as entries left behind in `suspendedBlockedQueue`.
- `AvailableTracksSem` (`kernel/src/petitionHandlers.c:108`): a unit that is posted and taken again before the post is reported makes the
  detector's count negative for a while, by as much as the reports under way. A search in between may find a deadlock that is none with
  nobody in a circle, and asks for the maximum of an empty list (`deadlockResolver.c:91`). `Semaphores` ends there (`FindNobody`). `NobodyOnlyUntold` says that in the repository's programs
  nothing else leads there: some client is between `petitionHandlers.c:106` and `:108`, and its semaphore has less than nothing available.
- `NothingLeft` (`deadlockResolver.c:133`): a victim that was suspended had given its slot back; its termination posts one more, and the
  degree stays larger by one; so does it when a semaphore's thread or a device has read `BLOCKED` of a process that is suspended before it is made ready.
- `VictimsDeadlocked`: who a search would terminate is in a set of processes that wait in semaphores which only they would post. The property has three exceptions. In `BatallaPorNordelta` carpincho 2 has taken
  `smirnoffc2` once and waits for it again, which is a circle of one for the detector, although carpincho 3 is going to post it: the matrices know who holds, not who posts. A process whose
  semaphore's thread has taken it, and may have made it ready, still waits for the detector until `DDSemAllocated` (`kernel.c:306`). And `DDSemAllocated` may come before the `DDSemRequested` of the same wait (`petitionHandlers.c:54`), which then looks like a wait.
- `OneAnswerPerCall`: in the second of those exceptions a CPU may have answered the process (`kernel.c:181-182`) when the detector sends it ERROR and frees it (`deadlockResolver.c:128-132`). The model ends there, with `fault` = "freed" and the process in `locked`, and that client is
  the only one who may have an answer too many.
- `SemaphoresOutliveUse`: a process can post a unit before the thread that handed it over reports it: `DDSemRelease` finds nothing to take from `allocation`, and `DDSemAllocated` then leaves a unit there that the process does not hold. If the process is
  terminated the unit is posted once more. So the property says that a semaphore has at least the units it was created with when its test destroys it, and not exactly those.

## 5. The theorems

Each theorem holds for every value of the constants its module's ASSUME allows. `SchedulerAssumption` and `SemaphoresAssumption` say
that the sets are finite, the bounds natural numbers and the degree at least one; `HeapAssumption` that a metadata is smaller than a page and the
sizes are natural numbers; `SwampAssumption` that there is a file and files, chunks and tables have a page at least; `PagingAssumption` that
there is a frame, and that with each configuration the frames of a process divide all of them, as `initializeMemoryMetadata` expects;
`SearchAssumption` that processes and semaphores are finite sets of numbers; `TestsAssumption` that a test has a program for each client, with a CPU and a slot at
least, whose calls name semaphores and devices that there are and natural numbers of units; `NobodyAssumption` that the two names for no process are none. (`SessionsAssumption` and `ReturnsAssumption` are of the repository's programs, and no proof uses them.) TLC evaluates them all.

**Scheduler, tokens and wake-ups** (`SchedulerProofs`).
- `SchedulerTypes`: `TypeOK` is not inductive, because a CPU thread in the middle of a petition uses its process; `TypeInv` adds `ThreadsHoldProcess`.
- `SchedulerAdmissionTokens`, `SchedulerLongTermNeverStuck`, `SchedulerCuposTracksSlots`: balances. Each step moves a token or a slot from one place to another; `NumAt` counts the threads at a step, and the lemmas about it say
  what moving one thread does to the count. `LongTermNeverStuck` needs `AdmissionTokens`: a token is forwarded only when no process is suspended-ready, so it has a process in the new queue.
- `SchedulerNoLostWakeup`: a thread sleeps only when its condition is false; each step that could make it true either signals or, for the CPU's take, is followed by a signal.

**Scheduler, where each process is** (the same module). The inductive invariant is `PlaceInv`.
- What it says. Which state the processes of each place have (`StateOfPlace`), that a thread has a process only between the step that takes it and the
  one that hands it on (`HeldByThread`), that the places which a state does not tell apart are disjoint (`OnePlace`: the CPUs, the devices, their queues,
  the suspended-ready queue), and that somebody has every process that is neither new nor ready (`SomePlace`).
- Why all of it is needed. A step that moves a process out of one place leaves it nowhere else only if it was in one place before, and the states alone
  do not say that: a process that is `BLOCKED` may be a CPU's, in a device's queue or with the device.
- `SchedulerHeldOnce`, `SchedulerBlockedQueuesExact` and `SchedulerLifecycleRespected` follow. The part of the first that is about `suspendedBlockedQueue` is an invariant of its own (`LeftInv`): a process has an entry there
  while it is `SUSP_BLOCKED`, and one for each time `IOPutToReady` made it ready while it was, which stays through its end and the reuse of its block. The last is an action property: a write of `state` outside
  the mutex never goes against the one the process has.
- `SchedulerDegreeAccounting` counts sets of processes: each step is one lemma about what adding or removing one process does to the cardinality, and a
  stale entry of `suspendedBlockedQueue` appears in the same step as the process that is in memory beyond the degree.

**Semaphores** (`SemaphoresProofs`).
- `SemaphoresTypes`: `TypeInv` adds `ThreadsHoldProcess` and `UnitKept`: the thread between its test and its take still has the unit it saw, because the others wait for the mutex. So no semaphore goes below zero.
- `SemaphoresNoLostWakeup`: as in the scheduler.
- `SemaphoresAvailableTracksSem`: the detector's count and the semaphore differ by the reports under way, for any number of threads; each petition is
  two steps on the two counts, and the reports of each kind are a finite set that gains or loses one thread.
- `SemaphoresRequestsTrackWaits`: needs `VictimGone` (the victim of the search that ended has left the array) and `HandsEmpty` (a semaphore's thread has a
  process only while it hands it on), or the take could find a process whose request was already removed.
- `SemaphoresPlaces`: a process runs on one CPU (`RunsOnce`), waits in one queue (`WaitsOnce`) or is in the hands of one thread (`HeldOnce`); one that waits or is handed on
  is not ready, and no CPU runs it but the one that queued it and is about to block it (`StoppedInside`); what a semaphore's thread has read of its state still holds, but for a
  suspension (`StateSeen`). None is inductive alone: a thread that puts a process in ready keeps `StoppedInside` only because of what it read before, and because nobody else has the process.
- `SemaphoresVictimsInCycle`: the detector's matrices, however late the reports are, are matrices of natural numbers (`TypeInv`), so what is proved of the search below holds of each search.
- `SemaphoresImplementCountingSem` is the refinement of `CountingSem`. `Status` says how a client sees its process, and `StatusOfPlace` that its place decides it. `SemWaitPass` is `Pass`,
  `SemWaitEnqueue` is `Wait`, `SemTake` is `Grant`, the post of a client and each post of the detector are `Post`; the step in which a process that was handed a unit may run is `Resume`, the ends of
  processes are `End`, and the kill of one that waits is `Cancel`. Everything else a client does not see (`ClientSeesNothing`): the reads of the state, the reports to the detector, the suspensions.

**Heap** (`HeapProofs`). `HeapInv` is that the metadata are a `List`: `WellFormed`, `Ordered` (backward and forward links agree, with no
metadata in between), `Ended` (the last is free), `NoneToAbsorb`; and that the pages end with the last allocation's (`EndsAt`). Each case of the two handlers (a gap given whole, split, an
allocation appended, a block freed with none, one or both neighbours absorbed) is one lemma about the list before and after; which pages a new last
allocation asks for is arithmetic on quotients (`CommonLemmas`).
- `HeapLinked`, `HeapCoalesced`, `HeapPagesEnd`, `HeapTypes` are parts of `StepInv`, which adds that the address answered is one of the list.
- `HeapRefused` is an action property: a refused `memalloc` has undone the pages it got.
- `HeapImplementsAllocator` is the refinement of `Allocator`: the mapping takes the metadata that are not free to blocks with their sizes. Each step maps to one of the
  allocator's or a stutter; the first gap of the list that fits is the lowest (`Ordered`), and the gap the allocator sees between two blocks is one free
  allocation (`NoneToAbsorb`).

**Swap server** (`SwampProofs`). `SwampInv` has four ideas. A process whose first page the swap does not have has no entry at all (`Absent`). One that has any has its first page (`FirstPage`), because pages are erased
from the last. Its entries, in use or not, are in one file and of different pages (`OnePlace`): stale entries too, because `swapFile_getIndex` does not look at `used`.
And with fixed assignment they are in the chunk that begins with the first page (`InChunk`), which is why it is enough that `fija` looks only at the first page of a chunk.
- `SwampTypes`, `SwampOneEntryPerPage`, `SwampChunksNotShared`, and `SwampRefusedOnlyWhenFull`, which is an action property.
- `SwampNoPageBeyondFile` and `SwampImplementsPageStore` have the hypothesis `Whole`, that chunks divide the file: without it they are false (section 2). Their invariant `StoreInv`
  adds that the pages the table of a process says are accepted are in use and no others are (`AcceptedKept`, `OnlyAccepted`), and that with fixed assignment page `n` of a process is
  the `n`-th of its chunk, so that the pages refused are those past the chunk (`InOrder`). TLC checked `StoreInv` on two instances before it was proved.

**Memory** (`PagingProofs`). The theorems have the hypothesis `Apart`: with each configuration, assignment is fixed or one thread has a petition at a time.
Both kinds are in the `paging` run; without it, with global assignment and two threads, `occupant_saved` shows what goes wrong, and every theorem below but the types is false.
Everything else is left open: how many processes, threads with fixed assignment, pages, frames and blocks, LRU or clock, FIFO or LRU in the TLB, its size.
- The inductive invariant is `Inv`. `OwnerInv`, `TlbInv` and `SwapInv` are the properties page by page; `PetitionInv` and `BlockInv` say whose the
  threads and the blocks are; `TlbWhole` says that the TLB's entries in use are in the victims' queue and that each is the first of its page, because `dropEntry` frees
  the first entry that it finds, free or not. `ThreadsInv` is what each thread counts on at each step of `getFrame` and `replace`: for instance that the page it looks for is in no entry
  of the TLB from its miss to `Install`, that the page it has read is still what the swap has, that between `unmap` and `install` nobody's page is in its frame.
- Why the other threads are not disturbed (`Undisturbed`): with fixed assignment a step of one process leaves the pages, the block and the entries of the others as they are (`Quiet`),
  because the frame it uses is in its own block (`InBlock`) and a block has one owner. Each action is one lemma (`LoadStep`, `EvictSaveStep`, ...).
- `PagingTypes`, `PagingFrameOwner`, `PagingTlbCoherent`, `PagingCleanMatchesSwap`, `PagingOwnBlock` and `PagingOccupantSaved` follow. That the hand of the clock and the choice of both
  algorithms stay in the block of the process is part of it (`ClockInRange`, `LRUInRange`).
- `PagingImplementsPagedMemory` is the refinement of `PagedMemory`: a page is what its frame has if it is present, and otherwise what the swap has (`Content`), and the accesses under way are those of the threads (`Asked`). Only `Access`, `UseRead`, `Answer`, `UseWrite`, `CreatePage`,
  `DeleteLastPage` and `End` change what a process sees, each as the access or the petition of that process and of no other; a replacement moves a page from one place to the other with the content that it had, and that is what `SwapInv` and `ThreadsInv` are for.

**The detector's search** (`DeadlockSearchProofs`). The theorems are about any matrices (`Matrices`: what is available and what is requested are integers, what is held is natural): any number of processes and semaphores,
whether the programs reach them or not. A loop is a function of its iterations, and what each iteration keeps is proved of all of them with one lemma, `NatInductionSet` of `CommonLemmas`: a set of
numbers that has 0 and the successor of each of its members has every number. The set is that of the iterations at which the invariant holds.
- `SearchStuckExact`: `findDeadlocks` leaves out exactly the processes that no order of finishing can free. No scan frees a member of a set that cannot finish (`ScanAvoids`). In the other direction `work` is always what
  is available and what the finished ones hold (`ScanWork`), and the passes are enough (`FinishingOver`): a pass that frees nobody changes nothing (`PassIdle`), and there are as many passes as processes.
- `SearchVictimsInCycle`: who is terminated waits for itself through others. Take a set that is closed under waiting for and has what the process waits for; every holder the walk has seen or has still to go through is in it
  (`LeadsInto`), so the base is too when it is found.
- `SearchMutexCyclesFound`: when one process holds each semaphore and a process requests one, the search finds every stuck process that waits for itself. A call then has one holder to go on to (`OneEdge`); if the walk met a holder it had
  seen, those it has seen would be closed (`SeenNotClosed`) and would not have the base. That the iterations are enough is `WalkEnds`: each call is for a process of its own.
- `SearchStuckHasVictim`: with `OneHolderEach`, and `UnitsForEach` (each request alone can be met by the units there are and those that are held), `list_get_maximum` is not called on an empty list. A stuck process waits for a stuck one,
  and in a finite set who always waits for another comes to a circle (`CircleAmong`). Neither hypothesis can be dropped: semaphores of two units give `CycleHasVictim` its counterexample, and a count that is negative for
  a while gives `FindNobody` (both in section 4).

**Clients** (`CarpinchosProofs`). The theorems hold for any programs, not only for those of the tests.
- `CarpinchosOneAnswerPerCall`. Who answers a petition that is not answered at once is decided by where its process is. The invariant `Inv` says of each client (`InvOf`) that it has at most one answer on the way, to a call that was taken, and none
  while its process does not execute or is in the middle of a petition to be answered (`Answering`); and that whoever waits for a semaphore, is in the hands of its thread, or waits for a device, is in the call that put it there and is blocked, or about to be
  (`AtSemaphores`, `AtDevices`). What a thread has read of the state still holds but for a suspension, so the step that puts a process in ready (`SemWakeUp`, `IOWakeUp`) makes a blocked process ready, whatever was told to the detector and when; no queue has a process twice (`Ordered`), so it is made ready once, and the
  CPU that dispatches it gives its one answer. The late reports (`SemWaitRequested`, `SemAllocated`, `SemPostRelease`) change the matrices only. The detector answers too: a victim that no other thread has (`InUse`) is blocked, so that no CPU has answered its call, and `VictimInv` says that it is in
  `blockedQueue` no more when it is freed. With a victim that another thread has the model ends, and the theorem claims nothing of that client.
  A step is about one process and leaves the others' calls as they are (`Same`, `KeptOut`); each action then needs only what it does to that process and to one queue.
- `CarpinchosStuckExact`, `CarpinchosVictimsInCycle`, `CarpinchosMutexCyclesFound`: `TypeInv` keeps the detector's state within `Matrices`, through every late report, creation and destruction of a semaphore.

`CommonLemmas` has lengths, membership, order and distinctness after append, head, tail, front and removal; quotients, minima and maxima; iterations.

**Model-checked only.**
- `SemaphoresOutliveUse`, `NothingLeft`, `NobodyOnlyUntold` and `VictimsDeadlocked` of `Carpinchos` depend on the programs: a client may destroy a semaphore that others hold, or go without closing, and those of the tests do not; whether a victim would have been posted for by another client is written in that client's program.
  `SearchStuckHasVictim` says on which matrices a search has a victim; that the programs of the tests leave those only between a post and its report is what the run shows.
- `BlockedIsWoken`, `SuspendedReadyAdmitted`, `VictimInRange`, `OccupantSaved` under its run's configuration and `CycleHasVictim` are false.
- Liveness (`AdmittedEventually`, `ReadyAgainEventually`, `ClientsEnd`) is outside what the prover does.

## 6. Not modelled

- The order of the ready queue and the estimates behind it (SJF, HRRN; `kernel.c:15-64`, `:205-214`): they are measured times. Every
  order is allowed instead. Which thread writes an estimate when (`kernel.c:210`) is listed as a hazard.
- A client that crashes: the kernel's CPU thread answers on the closed socket twice (`kernel.c:197`, `:199`), and the second write may
  end the kernel with SIGPIPE. What becomes of it depends on the operating system's buffers.
- Two clients with the same pid (`matelib.c:32` takes nanoseconds).
- The suspension on a connection of its own (`kernel.c:150`), served by the memory after the process runs again.
- Two threads of the memory on shared frames, beyond their first fault (`OccupantSaved`).
- Framing of packets, configuration files, logs, sleeps, signal handlers, dumps, metrics. `prueba_swamp.c`, `prueba_tlb_fifo.c` and
  `prueba_tlb_lru.c` only move data through the memory.

## 7. Plan

1. `Scheduler`, `Semaphores`, `DeadlockSearch`, `Swamp`, `Paging` with `Tlb`, `Heap`, `Carpinchos` with `Pruebas`, and the abstract
   specifications (done), with the types, the balances and the wake-ups of the first two proved (done).
2. Proofs: the safety properties of `Scheduler`, `Semaphores`, `Heap`, `Swamp` and `Paging`, and the refinements of `Allocator`, `PageStore` and
   `PagedMemory` (done); `OneAnswerPerCall` of `Carpinchos` and the refinement of `CountingSem` (done); both searches of the detector on any matrices (done). Next, `NothingLeft` for any programs that close what they open, and
   the hypotheses of `SearchStuckHasVictim` from the programs.
3. The order of the ready queue: SJF and HRRN against a definition of the shortest and the highest ratio.
4. `Paging` with blocks that run out, and with a suspension that is served late (`kernel.c:150`).
