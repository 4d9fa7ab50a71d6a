------------------------------ MODULE LockSpec ------------------------------
(***************************************************************************)
(* What a shared / exclusive lock promises its callers, whatever word and  *)
(* whatever loop it is built from: a thread holds the lock for reading     *)
(* only while nobody writes, and for writing only while nobody else holds  *)
(* it at all.  A mutex is the special case in which nobody reads.          *)
(***************************************************************************)
CONSTANT Thread

VARIABLE holds      \* what each thread may do, by the answers it has had

Mode == {"none", "read", "write"}

Init == holds = [t \in Thread |-> "none"]

AcquireRead(t) ==
    /\ holds[t] = "none"
    /\ \A u \in Thread : holds[u] # "write"
    /\ holds' = [holds EXCEPT ![t] = "read"]

AcquireWrite(t) ==
    /\ \A u \in Thread : holds[u] = "none"
    /\ holds' = [holds EXCEPT ![t] = "write"]

Release(t) ==
    /\ holds[t] # "none"
    /\ holds' = [holds EXCEPT ![t] = "none"]

Next == \E t \in Thread : AcquireRead(t) \/ AcquireWrite(t) \/ Release(t)

Spec == Init /\ [][Next]_holds
=============================================================================
