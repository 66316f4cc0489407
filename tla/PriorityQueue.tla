--------------------------- MODULE PriorityQueue ---------------------------
(***************************************************************************)
(* What the task queue promises its users: a set of waiting tasks, at most *)
(* one per session, of which the consumer always takes one that no waiting *)
(* task precedes.  No step loses a task.                                   *)
(***************************************************************************)
EXTENDS Integers

CONSTANTS Task, PriorityWeight, NoTask

VARIABLES
    waiting,    \* tasks put into the queue and not yet taken or withdrawn
    hand        \* the task the consumer is taking, or NoTask

vars == <<waiting, hand>>

Precedes(t, u) ==
    t.at - t.priority * PriorityWeight < u.at - u.priority * PriorityWeight

Init == waiting = {} /\ hand = NoTask

\* The session is not queued and not being taken.
Put(t) ==
    /\ \A u \in waiting : u.session # t.session
    /\ waiting' = waiting \cup {t}
    /\ UNCHANGED hand

Take(t) ==
    /\ hand = NoTask
    /\ t \in waiting
    /\ \A u \in waiting : ~Precedes(u, t)
    /\ hand' = t
    /\ waiting' = waiting \ {t}

HandOver ==
    /\ hand # NoTask
    /\ hand' = NoTask
    /\ UNCHANGED waiting

Withdraw(t) ==
    /\ hand = NoTask
    /\ t \in waiting
    /\ waiting' = waiting \ {t}
    /\ UNCHANGED hand

Next ==
    \/ \E t \in Task : Put(t) \/ Take(t) \/ Withdraw(t)
    \/ HandOver

Spec == Init /\ [][Next]_vars
=============================================================================
