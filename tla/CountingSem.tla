---------------------------- MODULE CountingSem ----------------------------
(***************************************************************************)
(* What a client may expect of the kernel's counting semaphores, whatever  *)
(* threads, queues and suspensions there are behind them: a process that   *)
(* waits goes on only with a unit of its own, in order of arrival, and     *)
(* units come only from posts.                                             *)
(***************************************************************************)
EXTENDS Integers, Sequences, SequencesExt

CONSTANTS Procs, Sems, InitialValue

VARIABLES
    value,      \* units left
    queue,      \* the processes that wait, in order of arrival
    status      \* "running" | "waiting" | "granted" a unit | "ended"

vars == <<value, queue, status>>

Init ==
    /\ value = InitialValue
    /\ queue = [s \in Sems |-> <<>>]
    /\ status = [p \in Procs |-> "running"]

Pass(p, s) ==
    /\ status[p] = "running"
    /\ value[s] > 0
    /\ value' = [value EXCEPT ![s] = @ - 1]
    /\ UNCHANGED <<queue, status>>

Wait(p, s) ==
    /\ status[p] = "running"
    /\ value[s] = 0
    /\ queue' = [queue EXCEPT ![s] = Append(@, p)]
    /\ status' = [status EXCEPT ![p] = "waiting"]
    /\ UNCHANGED value

\* A client posts, or the units of a terminated process are given back
Post(s) ==
    /\ value' = [value EXCEPT ![s] = @ + 1]
    /\ UNCHANGED <<queue, status>>

Grant(s) ==
    /\ value[s] > 0
    /\ queue[s] # <<>>
    /\ value' = [value EXCEPT ![s] = @ - 1]
    /\ queue' = [queue EXCEPT ![s] = Tail(@)]
    /\ status' = [status EXCEPT ![Head(queue[s])] = "granted"]

Resume(p) ==
    /\ status[p] = "granted"
    /\ status' = [status EXCEPT ![p] = "running"]
    /\ UNCHANGED <<value, queue>>

\* A process disconnects or is terminated
End(p) ==
    /\ status[p] \in {"running", "granted"}
    /\ status' = [status EXCEPT ![p] = "ended"]
    /\ UNCHANGED <<value, queue>>

\* A process is terminated while it waits
Cancel(p, s) ==
    /\ status[p] = "waiting"
    /\ queue' = [queue EXCEPT ![s] = RemoveFirst(@, p)]
    /\ status' = [status EXCEPT ![p] = "ended"]
    /\ UNCHANGED value

Next ==
    \/ \E p \in Procs : Resume(p) \/ End(p)
    \/ \E s \in Sems : Post(s) \/ Grant(s)
    \/ \E p \in Procs, s \in Sems : Pass(p, s) \/ Wait(p, s) \/ Cancel(p, s)

Spec == Init /\ [][Next]_vars

=============================================================================
