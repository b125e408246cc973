------------------------------ MODULE Pruebas ------------------------------
(***************************************************************************)
(* The client programs of carpinchos-pruebas, each as the sequence of its  *)
(* calls to the mate library and to the semaphores and threads of its own  *)
(* process. What is written and read in memory, the sleeps and the         *)
(* messages are left out. A loop is run once, a run of equal calls is      *)
(* shortened, and of clients with the same program only some are there.    *)
(***************************************************************************)
EXTENDS Integers, Sequences

CONSTANT Procs      \* the clients; the main thread of a test is the last one, if it has calls

Main == 5
Op(name, arg, value) == <<name, arg, value>>

MateInit == Op("init", 0, 0)
MateClose == <<Op("term", 0, 0), Op("disc", 0, 0)>>
SemInit(s, v) == Op("semInit", s, v)
Wait(s) == Op("wait", s, 0)
Post(s) == Op("post", s, 0)
Destroy(s) == Op("destroy", s, 0)
IO(d) == Op("io", d, 0)
Mem == Op("mem", 0, 0)

\* sem_wait and sem_post of pthreads, pthread_create as the post of n units, pthread_join
HostWait(h) == Op("hostWait", h, 0)
HostPost(h, n) == Op("hostPost", h, n)
Join(c) == Op("join", c, 0)

Mates(calls) == <<MateInit>> \o calls \o MateClose

\* The programs of some clients, the others have none
Programs(f) == [c \in Procs |-> IF c \in DOMAIN f THEN f[c] ELSE <<>>]

-----------------------------------------------------------------------------
(* PruebaDeadlock *)

\* A carpincho that holds one semaphore while it waits for the other
LocksBoth(a, b) ==
    <<HostWait(1)>> \o Mates(<<Wait(a), Wait(b), Post(a), Post(b)>>)

\* carpincho4 posts in the other order
LocksBothBack(a, b) ==
    <<HostWait(1)>> \o Mates(<<Wait(a), Wait(b), Post(b), Post(a)>>)

Carpincho6(one, five, six) ==
    <<HostWait(1)>> \o Mates(<<Wait(six), Wait(one), Post(one), Wait(five), Post(five), Post(six)>>)

\* main creates the semaphores, starts the clients, leaves, waits for them and comes back
DeadlockMain(clients, sems) ==
    LET n == Len(clients) m == Len(sems)
    IN  <<MateInit>> \o [k \in 1 .. m |-> SemInit(sems[k], 1)]
          \o <<HostPost(1, n)>> \o MateClose
          \o [k \in 1 .. n |-> Join(clients[k])]
          \o Mates([k \in 1 .. m |-> Destroy(sems[k])])

\* "Deadlock entre estos 4"
DeadlockOfFour == Programs(
    [c \in 1 .. 5 |->
       CASE c = 1 -> LocksBoth(1, 2)
         [] c = 2 -> LocksBoth(2, 3)
         [] c = 3 -> LocksBoth(3, 4)
         [] c = 4 -> LocksBothBack(4, 1)
         [] c = Main -> DeadlockMain(<<4, 3, 2, 1>>, <<1, 2, 3, 4>>)])

\* "Deadlock entre estos 2 con uno pendiente del anterior": carpinchos 1, 5 and 6 as
\* clients 1, 2 and 3, with SEM5 and SEM6 as 3 and 4. main starts and joins those that are
\* taken; only carpincho1 uses semaphore 2, and 2 and 3 deadlock without it.
DeadlockOfTwo(clients) == Programs(
    [c \in clients \cup {Main} |->
       CASE c = 1 -> LocksBoth(1, 2)
         [] c = 2 -> LocksBoth(3, 4)
         [] c = 3 -> Carpincho6(1, 3, 4)
         [] c = Main -> DeadlockMain(SelectSeq(<<3, 2, 1>>, LAMBDA k : k \in clients),
                                     <<1, 2, 3, 4>>)])

-----------------------------------------------------------------------------
(* BatallaPorNordelta: semaphores that are posted by others, created by whoever comes
   first and never destroyed. smirnoffc2 is 1, smirnoffc3 is 2, SEMAFORO is 3,
   SEMAFORO_NUEVO is 4. *)

Nordelta1 == Mates(<<IO(1), Mem, IO(1), Mem>>)
Nordelta2 == Mates(<<SemInit(1, 1), SemInit(2, 0), Post(2), Wait(1), Wait(1), Mem, Mem>>)
Nordelta3 == Mates(<<SemInit(1, 1), Post(1), Mem, IO(1), Mem>>)
Nordelta4 == Mates(<<Mem, Mem, IO(1), Mem>>)
Nordelta5 == Mates(<<SemInit(3, 1), Post(3), Post(3), Wait(3), Wait(3)>>)
Nordelta7 == Mates(<<SemInit(4, 1), Post(4), Wait(4)>>)

BatallaPorNordelta == Programs(
    [c \in 1 .. 3 |-> CASE c = 1 -> Nordelta2 [] c = 2 -> Nordelta3 [] c = 3 -> Nordelta5])

BatallaPorNordeltaRest == Programs(
    [c \in 1 .. 3 |-> CASE c = 1 -> Nordelta1 [] c = 2 -> Nordelta4 [] c = 3 -> Nordelta7])

-----------------------------------------------------------------------------
(* PruebaBase: the second carpincho greets the first, if it is there to be greeted *)

Greeted == Mates(<<Mem, Mem, SemInit(1, 0), Wait(1), Mem>>)
Greets == Mates(<<Mem, Mem, Mem, Post(1)>>)

PruebaBase == Programs([c \in 1 .. 2 |-> CASE c = 1 -> Greeted [] c = 2 -> Greets])

-----------------------------------------------------------------------------
(* Input and output *)

PruebaSuspension == Programs([c \in 1 .. 3 |-> Mates(<<IO(1), Mem, IO(1), Mem>>)])

\* Each carpincho lets the next one connect
PruebaPlanificacion == Programs(
    [c \in 1 .. 3 |->
       CASE c = 1 -> <<MateInit, HostPost(1, 1), IO(1)>> \o MateClose
         [] c = 2 -> <<HostWait(1), MateInit, HostPost(2, 1), IO(1)>> \o MateClose
         [] c = 3 -> <<HostWait(2), MateInit, IO(1)>> \o MateClose])

-----------------------------------------------------------------------------
(* PruebaMMU and PruebaAsignacion: three carpinchos in turns. Their semaphore 1 starts at
   one, here with a post of the first carpincho. *)

Turns(k) == IF k = 1 THEN <<MateInit, Mem>> ELSE <<Mem>>

\* A carpincho works when it is posted and posts the next one
Round(k, own, next) == <<HostWait(own)>> \o Turns(k) \o <<HostPost(next, 1)>>

PruebaMMU == Programs(
    [c \in 1 .. 3 |->
       CASE c = 1 -> <<HostPost(1, 1)>> \o Round(1, 1, 2) \o Round(2, 1, 2)
                       \o <<HostPost(3, 1)>> \o MateClose
         [] c = 2 -> Round(1, 2, 3) \o <<HostWait(2)>> \o MateClose
         [] c = 3 -> Round(1, 3, 1) \o <<HostWait(3)>> \o MateClose])

PruebaAsignacion == Programs(
    [c \in 1 .. 3 |->
       CASE c = 1 -> <<HostPost(1, 1)>> \o Round(1, 1, 2) \o Round(2, 1, 2) \o MateClose
         [] c = 2 -> Round(1, 2, 3) \o <<HostWait(2), HostPost(3, 1)>> \o MateClose
         [] c = 3 -> Round(1, 3, 1) \o <<HostWait(3)>> \o MateClose])

=============================================================================
