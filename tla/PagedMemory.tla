---------------------------- MODULE PagedMemory ----------------------------
(***************************************************************************)
(* What a process may expect of its pages, wherever the memory keeps them: *)
(* a page changes only when its own process creates, writes or deletes it, *)
(* and what the process is told is what the page had then.                 *)
(***************************************************************************)
EXTENDS Naturals

CONSTANTS Pids, Pages, Contents, Zero, NoPage, Reads

VARIABLES
    pages,      \* the content of each page, or NoPage
    asked,      \* the accesses under way: [pid, page, op, read]
    reply       \* what each process has been read and not told yet, or NoPage

vars == <<pages, asked, reply>>

Init ==
    /\ pages = [p \in Pids |-> [n \in Pages |-> NoPage]]
    /\ asked = {}
    /\ reply = [p \in Pids |-> NoPage]

\* A process asks for one thing at a time
Idle(p) == \A a \in asked : a.pid # p

\* The pages of a process are the first ones
Has(p, count) == \A n \in Pages : pages[p][n] # NoPage <=> n < count

Create(p, n) ==
    /\ Idle(p) /\ Has(p, n)
    /\ pages' = [pages EXCEPT ![p][n] = Zero]
    /\ UNCHANGED <<asked, reply>>

Delete(p, n) ==
    /\ Idle(p) /\ Has(p, n + 1) /\ n > 0
    /\ pages' = [pages EXCEPT ![p][n] = NoPage]
    /\ UNCHANGED <<asked, reply>>

Ask(p, n, op) ==
    /\ Idle(p) /\ pages[p][n] # NoPage
    /\ asked' = asked \cup {[pid |-> p, page |-> n, op |-> op, read |-> FALSE]}
    /\ UNCHANGED <<pages, reply>>

\* The write that was asked for, and nothing else
Write(a) ==
    /\ a.op # Reads
    /\ pages' = [pages EXCEPT ![a.pid][a.page] = a.op]
    /\ asked' = asked \ {a}
    /\ UNCHANGED reply

Read(a) ==
    /\ a.op = Reads /\ ~a.read
    /\ reply' = [reply EXCEPT ![a.pid] = pages[a.pid][a.page]]
    /\ asked' = (asked \ {a}) \cup {[a EXCEPT !.read = TRUE]}
    /\ UNCHANGED pages

Tell(a) ==
    /\ a.read
    /\ reply' = [reply EXCEPT ![a.pid] = NoPage]
    /\ asked' = asked \ {a}
    /\ UNCHANGED pages

End(p) ==
    /\ Idle(p)
    /\ pages' = [pages EXCEPT ![p] = [n \in Pages |-> NoPage]]
    /\ UNCHANGED <<asked, reply>>

Next ==
    \/ \E p \in Pids :
         \/ End(p)
         \/ \E n \in Pages : Create(p, n) \/ Delete(p, n)
         \/ \E n \in Pages, op \in Contents \cup {Reads} : Ask(p, n, op)
    \/ \E a \in asked : Write(a) \/ Read(a) \/ Tell(a)

Spec == Init /\ [][Next]_vars

=============================================================================
