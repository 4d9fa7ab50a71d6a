---------------------------- MODULE AtomicMutex ----------------------------
(***************************************************************************)
(* The spin mutex of M_atomic.c (the __M_CFG_ATOMIC branch): atomic_lock,  *)
(* atomic_trylock, atomic_unlock.  The word is exchanged from 0 to 1 in    *)
(* one step; a blocking call that finds it taken yields and tries again;   *)
(* the release is a plain store of 0, made by the holder only.             *)
(***************************************************************************)
EXTENDS Naturals, FiniteSets

CONSTANT Thread

VARIABLES atom,     \* M_atomic.atom
          pc,       \* "out" of every call, or in the "spin" of atomic_lock
          holds     \* what the thread may do

vars == <<atom, pc, holds>>

Init ==
    /\ atom = 0
    /\ pc = [t \in Thread |-> "out"]
    /\ holds = [t \in Thread |-> "none"]

\* atomic_cmpxchg(atom, 0, 1): what it returns, and what it leaves.
StoreOne == TRUE                        \* defect: the old value is ignored
TakesWord == atom = 0

Take(t) == /\ TakesWord
           /\ atom' = 1
           /\ holds' = [holds EXCEPT ![t] = "write"]

Lock(t) ==
    /\ holds[t] = "none"
    /\ \/ /\ Take(t)
          /\ pc' = [pc EXCEPT ![t] = "out"]
       \/ /\ ~TakesWord
          /\ pc' = [pc EXCEPT ![t] = "spin"]
          /\ UNCHANGED <<atom, holds>>

TryLock(t) ==
    /\ pc[t] = "out" /\ holds[t] = "none"
    /\ Take(t) \/ (~TakesWord /\ UNCHANGED <<atom, holds>>)
    /\ UNCHANGED pc

Unlock(t) ==
    /\ holds[t] = "write"
    /\ atom' = 0
    /\ holds' = [holds EXCEPT ![t] = "none"]
    /\ UNCHANGED pc

Next == \E t \in Thread : Lock(t) \/ TryLock(t) \/ Unlock(t)

Spec == Init /\ [][Next]_vars

\* Threads inside atomic_lock keep running, and holders let go.
Fairness == \A t \in Thread :
    WF_vars(Unlock(t) \/ (pc[t] = "spin" /\ Lock(t)))

FairSpec == Spec /\ Fairness
-----------------------------------------------------------------------------
\* The word is 1 exactly while one thread holds the mutex, so the plain store
\* of atomic_unlock can never wipe out the lock of another thread.
WordTellsHolder ==
    Cardinality({t \in Thread : holds[t] = "write"}) = atom

\* If threads spin for ever, the mutex is granted again and again.
Granted == \E t \in Thread : holds[t] = "none" /\ holds'[t] # "none"
Progress == \/ []<>(\A t \in Thread : pc[t] # "spin")
            \/ []<><<Granted>>_vars
=============================================================================
