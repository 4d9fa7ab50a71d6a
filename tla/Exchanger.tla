----------------------------- MODULE Exchanger -----------------------------
(***************************************************************************)
(* What a data exchanger promises: a thread puts a list of its own nodes   *)
(* in front of what is there, at once; a thread takes everything that is   *)
(* there, at once.  A node is always in exactly one place.  The order of   *)
(* the list, newest first, is part of the promise because the lockless     *)
(* queue is built on it.                                                   *)
(***************************************************************************)
EXTENDS Sequences, SequencesExt

CONSTANTS Thread, Node

VARIABLES content,  \* the nodes inside, newest first
          pool      \* the nodes each thread may use

Init == /\ content = <<>>
        /\ pool \in [Thread -> SUBSET Node]
        /\ \A n \in Node : \E t \in Thread :
               \A u \in Thread : n \in pool[u] <=> u = t

Put(t) ==
    \E S \in (SUBSET pool[t]) \ {{}} : \E list \in SetToSeqs(S) :
        /\ content' = list \o content
        /\ pool' = [pool EXCEPT ![t] = @ \ S]

TakeAll(t) ==
    /\ content' = <<>>
    /\ pool' = [pool EXCEPT ![t] = @ \cup ToSet(content)]

Next == \E t \in Thread : Put(t) \/ TakeAll(t)

Spec == Init /\ [][Next]_<<content, pool>>
=============================================================================
