----------------------------- MODULE PageStore -----------------------------
(***************************************************************************)
(* What the memory expects of the swap: the operations of                  *)
(* memory/include/swapInterface.h on the pages of each process.            *)
(***************************************************************************)
CONSTANTS Pids, Pages, Contents

VARIABLES
    stored,     \* <<pid, page, content>> of each page that is in swap
    reply       \* the last petition and its answer

vars == <<stored, reply>>

Init ==
    /\ stored = {}
    /\ reply = <<>>

\* What is stored of a page
Of(p, n) == {page \in stored : page[1] = p /\ page[2] = n}

SavePage(p, n, c) ==
    /\ reply' = <<"SAVE_PAGE", p, n, "SWAP_OK">>
    /\ stored' = (stored \ Of(p, n)) \cup {<<p, n, c>>}

\* Only a new page may be refused
RefusePage(p, n) ==
    /\ reply' = <<"SAVE_PAGE", p, n, "SWAP_ERROR">>
    /\ Of(p, n) = {}
    /\ UNCHANGED stored

ReadPage(p, n, c) ==
    /\ reply' = <<"READ_PAGE", p, n, c>>
    /\ Of(p, n) = {<<p, n, c>>}
    /\ UNCHANGED stored

DestroyPage(p, n) ==
    /\ reply' = <<"DESTROY_PAGE", p, n, "SWAP_OK">>
    /\ Of(p, n) # {}
    /\ stored' = stored \ Of(p, n)

NoSuchPage(op, p, n) ==
    /\ reply' = <<op, p, n, "SWAP_ERROR">>
    /\ Of(p, n) = {}
    /\ UNCHANGED stored

\* The memory disconnects: its processes are not heard of again
Forget ==
    /\ reply' = <<>>
    /\ stored' = {}

Next ==
    \/ \E p \in Pids, n \in Pages :
         \/ RefusePage(p, n) \/ DestroyPage(p, n)
         \/ \E c \in Contents : SavePage(p, n, c) \/ ReadPage(p, n, c)
         \/ \E op \in {"READ_PAGE", "DESTROY_PAGE"} : NoSuchPage(op, p, n)
    \/ Forget

Spec == Init /\ [][Next]_vars

=============================================================================
