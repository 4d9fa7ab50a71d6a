-------------------------------- MODULE Fifo --------------------------------
(***************************************************************************)
(* What the lockless queue promises: nodes enter one at a time and leave   *)
(* in the order they entered, one or several at a time.                    *)
(***************************************************************************)
EXTENDS Naturals, Sequences

CONSTANT Node

VARIABLES queue,    \* the nodes inside, oldest first
          free      \* the nodes outside

Init == queue = <<>> /\ free = Node

Enqueue(n) ==
    /\ n \in free
    /\ queue' = Append(queue, n)
    /\ free' = free \ {n}

\* The k oldest nodes leave; the reader hands them on when its call returns.
Dequeue(k) ==
    /\ queue' = SubSeq(queue, k + 1, Len(queue))
    /\ UNCHANGED free

Return(S) ==
    /\ \A i \in 1 .. Len(queue) : queue[i] \notin S
    /\ free' = free \cup S
    /\ UNCHANGED queue

\* A removal that hands its nodes on at once.
DequeueReturn(k) ==
    /\ queue' = SubSeq(queue, k + 1, Len(queue))
    /\ free' = free \cup {queue[i] : i \in 1 .. k}

Next == \/ \E n \in Node : Enqueue(n)
        \/ \E k \in 1 .. Len(queue) : Dequeue(k) \/ DequeueReturn(k)
        \/ \E S \in SUBSET (Node \ free) : Return(S)

Spec == Init /\ [][Next]_<<queue, free>>
=============================================================================
