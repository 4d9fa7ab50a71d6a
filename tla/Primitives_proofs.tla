------------------------- MODULE Primitives_proofs -------------------------
(***************************************************************************)
(* Proofs about the three primitives of M_atomic.c and about the lockless  *)
(* queue.  The reader / writer spin lock, for any finite set of threads    *)
(* that use rdlock, wrlock, tryrdlock and rwunlock (Spec).  The mutex and  *)
(* the semaphore, for every set of threads, any number of posts and every  *)
(* count that is not negative at first (PrimSpec): a step of the           *)
(* composition is one of the mutex or leaves its variables alone, and      *)
(* likewise for the semaphore, so the invariants of each are kept by the   *)
(* steps of the composition.  The count and the order of the queue         *)
(* (QueueSpec), for any number of writers and nodes, when the reader keeps *)
(* to one of the three removals.                                           *)
(***************************************************************************)
EXTENDS MCPrimitives, FiniteSetTheorems, SequenceTheorems, TLAPS

\* The reader / writer lock.

Readers == Holders("read")
Writers == Holders("write")

\* Where a thread is tells what it holds.
PlaceInv ==
    \A t \in Thread :
        /\ pc[t] \in {"rd_load", "rd_cas", "wr_load", "wr_cas", "tryrd_cas"}
              => holds[t] = "none"
        /\ pc[t] \in {"un_load", "un_cas"} => holds[t] # "none"

\* The word, against the set of readers and the one writer.
WordInv ==
    /\ \A t \in Thread : holds[t] = "write" => atom = -1 /\ Readers = {}
    /\ (\A t \in Thread : holds[t] # "write") => atom = Cardinality(Readers)

\* What a releasing thread has loaded.
SeenInv ==
    \A t \in Thread : pc[t] = "un_cas" =>
        /\ seen[t] # 0
        /\ seen[t] < 0 <=> holds[t] = "write"

\* The inductive invariant.
IInv == /\ TypeOK /\ PlaceInv /\ WordInv /\ Exclusion /\ SeenInv
        /\ UnlockNeverAborts
-----------------------------------------------------------------------------
\* The readers are finitely many, and no more than there are threads.
LEMMA ReadersFinite ==
    /\ Cardinality(Thread) \in Nat
    /\ IsFiniteSet(Readers)
    /\ Cardinality(Readers) \in Nat
    /\ Cardinality(Readers) <= Cardinality(Thread)
    /\ Cardinality(Readers) = 0 <=> Readers = {}
<1>1. Readers \in SUBSET Thread
    BY DEF Readers, Holders
<1> QED
    BY <1>1, ThreadFinite, FS_Subset, FS_CardinalityType, FS_EmptySet

\* The same of the readers after a step.
LEMMA ReadersFinitePrime ==
    /\ IsFiniteSet(Readers')
    /\ Cardinality(Readers') \in Nat
    /\ Cardinality(Readers') <= Cardinality(Thread)
    /\ Cardinality(Readers') = 0 <=> Readers' = {}
<1>1. Readers' \in SUBSET Thread
    BY DEF Readers, Holders
<1> QED
    BY <1>1, ThreadFinite, FS_Subset, FS_CardinalityType, FS_EmptySet

\* How one thread's new mode changes the set of readers and its size.
LEMMA ReadersChange ==
    ASSUME TypeOK, NEW t \in Thread, NEW m \in {"none", "read", "write"},
           holds' = [holds EXCEPT ![t] = m]
    PROVE  /\ m = "read" /\ holds[t] # "read" =>
                 Cardinality(Readers') = Cardinality(Readers) + 1
           /\ m # "read" /\ holds[t] = "read" =>
                 Cardinality(Readers') = Cardinality(Readers) - 1
           /\ m # "read" /\ holds[t] # "read" => Readers' = Readers
<1>1. CASE m = "read" /\ holds[t] # "read"
    <2>1. Readers' = Readers \cup {t} /\ t \notin Readers
        BY <1>1 DEF Readers, Holders, TypeOK
    <2> QED
        BY <1>1, <2>1, ReadersFinite, FS_AddElement
<1>2. CASE m # "read" /\ holds[t] = "read"
    <2>1. Readers' = Readers \ {t} /\ t \in Readers
        BY <1>2 DEF Readers, Holders, TypeOK
    <2> QED
        BY <1>2, <2>1, ReadersFinite, FS_RemoveElement
<1>3. CASE m # "read" /\ holds[t] # "read"
    BY <1>3 DEF Readers, Holders, TypeOK
<1> QED
    BY <1>1, <1>2, <1>3

LEMMA InitIInv == Init => IInv
<1> SUFFICES ASSUME Init PROVE IInv
    OBVIOUS
<1>1. Readers = {}
    BY DEF Init, Readers, Holders
<1> QED
    BY <1>1, ReadersFinite
       DEF Init, IInv, TypeOK, PlaceInv, WordInv, SeenInv, Exclusion,
           UnlockNeverAborts, Running, Location, Load

-----------------------------------------------------------------------------
\* A step that only loads the word and moves one thread.
LEMMA LoadStep ==
    ASSUME IInv, NEW t \in Thread, NEW loc \in Location \ {"aborted"},
           Load(t), Goto(t, loc), UNCHANGED <<atom, holds>>,
           loc \in {"rd_cas", "wr_cas", "tryrd_cas"} => holds[t] = "none",
           loc = "un_cas" => holds[t] # "none" /\ atom # 0,
           loc \in {"rd_cas", "wr_cas", "tryrd_cas", "un_cas"}
    PROVE  IInv'
<1> USE DEF IInv, Load, Goto
<1>1. TypeOK'
    BY DEF TypeOK, Location
<1>2. PlaceInv'
    BY DEF PlaceInv, TypeOK
<1>3. Readers' = Readers
    BY DEF Readers, Holders
<1>4. WordInv' /\ Exclusion'
    BY <1>3 DEF WordInv, Exclusion
<1>5. SeenInv'
    <2> SUFFICES ASSUME NEW u \in Thread, pc'[u] = "un_cas"
                 PROVE  seen'[u] # 0 /\ (seen'[u] < 0 <=> holds'[u] = "write")
        BY DEF SeenInv
    <2>1. CASE u # t
        BY <2>1 DEF SeenInv, TypeOK
    <2>2. CASE u = t
        <3>1. seen'[t] = atom /\ atom # 0 /\ holds'[t] = holds[t]
              /\ holds[t] \in {"read", "write"}
            BY <2>2 DEF TypeOK, Location
        <3>2. CASE holds[t] = "write"
            BY <2>2, <3>1, <3>2 DEF WordInv
        <3>3. CASE holds[t] = "read"
            <4>1. \A v \in Thread : holds[v] # "write"
                BY <3>3 DEF Exclusion
            <4>2. atom = Cardinality(Readers)
                BY <4>1 DEF WordInv
            <4> QED
                BY <2>2, <3>1, <3>3, <4>2, ReadersFinite
        <3> QED
            BY <3>1, <3>2, <3>3
    <2> QED
        BY <2>1, <2>2
<1>6. UnlockNeverAborts'
    BY DEF UnlockNeverAborts, Running, TypeOK
<1> QED
    BY <1>1, <1>2, <1>4, <1>5, <1>6

\* A step that moves one thread outside the release and loads nothing.
LEMMA MoveStep ==
    ASSUME IInv, NEW t \in Thread, NEW loc \in {"out", "rd_load", "wr_load", "un_load"},
           Goto(t, loc), UNCHANGED <<atom, seen, holds>>,
           loc \in {"rd_load", "wr_load"} => holds[t] = "none",
           loc = "un_load" => holds[t] # "none"
    PROVE  IInv'
<1> USE DEF IInv, Goto
<1>1. TypeOK' /\ PlaceInv'
    BY DEF TypeOK, PlaceInv, Location
<1>2. Readers' = Readers
    BY DEF Readers, Holders
<1>3. WordInv' /\ Exclusion'
    BY <1>2 DEF WordInv, Exclusion
<1>4. SeenInv' /\ UnlockNeverAborts'
    BY DEF SeenInv, UnlockNeverAborts, Running, TypeOK
<1> QED
    BY <1>1, <1>3, <1>4

\* A step by which a thread starts to read: its exchange found the word it
\* had loaded, which counts readers only.
LEMMA ReadStep ==
    ASSUME IInv, NEW t \in Thread, holds[t] = "none", pc[t] \in {"rd_cas", "tryrd_cas"},
           MayRead(seen[t]), CasWins(t), atom' = seen[t] + 1,
           holds' = [holds EXCEPT ![t] = "read"], Goto(t, "out"), seen' = seen
    PROVE  IInv'
<1> USE DEF IInv, Goto, MayRead, CasWins
<1>1. atom \in Nat /\ atom' = atom + 1
    BY DEF TypeOK
<1>2. \A u \in Thread : holds[u] # "write"
    BY <1>1 DEF WordInv
<1>3. atom = Cardinality(Readers)
    BY <1>2 DEF WordInv
<1>4. Cardinality(Readers') = Cardinality(Readers) + 1
    BY ReadersChange
<1>5. TypeOK'
    BY <1>1, <1>3, <1>4, ReadersFinite, ReadersFinitePrime DEF TypeOK, Location
<1>6. \A u \in Thread : holds'[u] # "write"
    BY <1>2 DEF TypeOK
<1>7. WordInv' /\ Exclusion'
    BY <1>1, <1>3, <1>4, <1>6 DEF WordInv, Exclusion
<1>8. PlaceInv' /\ SeenInv' /\ UnlockNeverAborts'
    BY DEF PlaceInv, SeenInv, UnlockNeverAborts, Running, TypeOK
<1> QED
    BY <1>5, <1>7, <1>8

\* A step by which a thread starts to write: the word it exchanged was 0, so
\* nobody held the lock.
LEMMA WriteStep ==
    ASSUME IInv, NEW t \in Thread, holds[t] = "none", pc[t] = "wr_cas",
           MayWrite(seen[t]), CasWins(t), atom' = -1,
           holds' = [holds EXCEPT ![t] = "write"], Goto(t, "out"), seen' = seen
    PROVE  IInv'
<1> USE DEF IInv, Goto, MayWrite, CasWins
<1>1. \A u \in Thread : holds[u] # "write"
    BY DEF WordInv
<1>2. Readers = {}
    BY <1>1, ReadersFinite DEF WordInv
<1>3. \A u \in Thread : holds[u] = "none"
    BY <1>1, <1>2 DEF Readers, Holders, TypeOK
<1>4. Readers' = {}
    BY <1>2, ReadersChange
<1>5. WordInv' /\ Exclusion'
    BY <1>3, <1>4 DEF WordInv, Exclusion, TypeOK
<1>6. TypeOK'
    BY ReadersFinite DEF TypeOK, Location
<1>7. PlaceInv' /\ SeenInv' /\ UnlockNeverAborts'
    BY DEF PlaceInv, SeenInv, UnlockNeverAborts, Running, TypeOK
<1> QED
    BY <1>5, <1>6, <1>7

\* A step by which a holder leaves.  What it had loaded is still the word, so
\* it knows which mode it leaves and how many readers stay.
LEMMA ReleaseStep ==
    ASSUME IInv, NEW t \in Thread, pc[t] = "un_cas", CasWins(t),
           atom' = Unlocked(seen[t]),
           holds' = [holds EXCEPT ![t] = "none"], Goto(t, "out"), seen' = seen
    PROVE  IInv'
<1> USE DEF IInv, Goto, CasWins, Unlocked
<1>1. PlaceInv' /\ SeenInv' /\ UnlockNeverAborts'
    BY DEF PlaceInv, SeenInv, UnlockNeverAborts, Running, TypeOK
<1>2. holds[t] \in {"read", "write"} /\ (atom < 0 <=> holds[t] = "write")
    BY DEF PlaceInv, SeenInv, TypeOK
<1>3. Exclusion'
    BY DEF Exclusion, TypeOK
<1>4. CASE holds[t] = "write"
    <2>1. Readers = {} /\ atom = -1 /\ atom' = 0
        BY <1>4 DEF WordInv
    <2>2. Readers' = {}
        BY <1>4, <2>1, ReadersChange
    <2>3. \A u \in Thread : holds'[u] = "none"
        BY <1>4 DEF Exclusion, TypeOK
    <2>4. WordInv'
        BY <2>1, <2>2, <2>3, ReadersFinitePrime DEF WordInv
    <2>5. TypeOK'
        BY <2>1, ReadersFinite DEF TypeOK, Location
    <2> QED
        BY <1>1, <1>3, <2>4, <2>5
<1>5. CASE holds[t] = "read"
    <2>1. \A u \in Thread : holds[u] # "write"
        BY <1>5 DEF Exclusion
    <2>2. atom = Cardinality(Readers) /\ atom' = atom - 1
        BY <1>2, <1>5, <2>1, ReadersFinite DEF WordInv
    <2>3. Cardinality(Readers') = Cardinality(Readers) - 1
        BY <1>5, ReadersChange
    <2>4. WordInv'
        BY <2>1, <2>2, <2>3 DEF WordInv, TypeOK
    <2>5. TypeOK'
        BY <2>2, <2>3, ReadersFinite, ReadersFinitePrime DEF TypeOK, Location
    <2> QED
        BY <1>1, <1>3, <2>4, <2>5
<1> QED
    BY <1>2, <1>4, <1>5

-----------------------------------------------------------------------------
\* Every step keeps the invariant.
LEMMA NextIInv ==
    ASSUME IInv, [Next]_vars
    PROVE  IInv'
<1>1. CASE UNCHANGED vars
    <2>1. Readers' = Readers
        BY <1>1 DEF vars, Readers, Holders
    <2> QED
        BY <1>1, <2>1 DEF vars, IInv, TypeOK, PlaceInv, WordInv, SeenInv,
                          Exclusion, UnlockNeverAborts, Running
<1>2. CASE Next
    <2> PICK t \in Thread : Acquire(t) \/ Unlock(t)
        BY <1>2 DEF Next
    <2> USE DEF Entering
    <2>1. CASE RdLoad(t)
        BY <2>1, LoadStep DEF RdLoad, IInv, PlaceInv, Location
    <2>2. CASE RdCas(t)
        <3>1. holds[t] = "none"
            BY <2>2 DEF RdCas, IInv, PlaceInv
        <3>2. CASE MayRead(seen[t]) /\ CasWins(t)
            BY <2>2, <3>1, <3>2, ReadStep DEF RdCas
        <3>3. CASE ~(MayRead(seen[t]) /\ CasWins(t))
            BY <2>2, <3>1, <3>3, MoveStep DEF RdCas
        <3> QED
            BY <3>2, <3>3
    <2>3. CASE WrLoad(t)
        BY <2>3, LoadStep DEF WrLoad, IInv, PlaceInv, Location
    <2>4. CASE WrCas(t)
        <3>1. holds[t] = "none"
            BY <2>4 DEF WrCas, IInv, PlaceInv
        <3>2. CASE MayWrite(seen[t]) /\ CasWins(t)
            BY <2>4, <3>1, <3>2, WriteStep DEF WrCas
        <3>3. CASE ~(MayWrite(seen[t]) /\ CasWins(t))
            BY <2>4, <3>1, <3>3, MoveStep DEF WrCas
        <3> QED
            BY <3>2, <3>3
    <2>5. CASE TryRdLoad(t)
        BY <2>5, LoadStep DEF TryRdLoad, IInv, PlaceInv, Location
    <2>6. CASE TryRdCas(t)
        <3>1. holds[t] = "none"
            BY <2>6 DEF TryRdCas, IInv, PlaceInv
        <3>2. CASE MayRead(seen[t]) /\ CasWins(t)
            BY <2>6, <3>1, <3>2, ReadStep DEF TryRdCas, TryEnds
        <3>3. CASE ~(MayRead(seen[t]) /\ CasWins(t))
            BY <2>6, <3>1, <3>3, MoveStep DEF TryRdCas, TryEnds
        <3> QED
            BY <3>2, <3>3
    <2>7. CASE UnLoad(t)
        <3>1. holds[t] \in {"read", "write"}
            BY <2>7 DEF UnLoad, IInv, PlaceInv, TypeOK
        <3>2. atom # 0
            <4>1. CASE holds[t] = "write"
                BY <4>1 DEF IInv, WordInv
            <4>2. CASE holds[t] = "read"
                <5>1. \A u \in Thread : holds[u] # "write"
                    BY <4>2 DEF IInv, Exclusion
                <5>2. t \in Readers
                    BY <4>2 DEF Readers, Holders
                <5> QED
                    BY <5>1, <5>2, ReadersFinite DEF IInv, WordInv
            <4> QED
                BY <3>1, <4>1, <4>2
        <3> QED
            BY <2>7, <3>1, <3>2, LoadStep DEF UnLoad, Location
    <2>8. CASE UnCas(t)
        <3>1. CASE CasWins(t)
            BY <2>8, <3>1, ReleaseStep DEF UnCas
        <3>2. CASE ~CasWins(t)
            BY <2>8, <3>2, MoveStep DEF UnCas, IInv, PlaceInv
        <3> QED
            BY <3>1, <3>2
    <2> QED
        BY <2>1, <2>2, <2>3, <2>4, <2>5, <2>6, <2>7, <2>8
           DEF Acquire, Unlock
<1> QED
    BY <1>1, <1>2

\* The inductive invariant holds in every state of the lock.
THEOREM Invariance == Spec => []IInv
<1>1. IInv /\ [Next]_vars => IInv'
    BY NextIInv
<1> QED
    BY InitIInv, <1>1, PTL DEF Spec

\* A writer is alone, for any number of threads (atomic_wrlock, atomic_rdlock,
\* atomic_tryrdlock, atomic_rwunlock).
THEOREM MutualExclusion == Spec => []Exclusion
<1>1. IInv => Exclusion
    BY DEF IInv
<1> QED
    BY Invariance, <1>1, PTL

\* atomic_rwunlock never trips over assert(i).
THEOREM NoAssertionFails == Spec => []UnlockNeverAborts
<1>1. IInv => UnlockNeverAborts
    BY DEF IInv
<1> QED
    BY Invariance, <1>1, PTL

\* The type invariant holds, the bound on the word included: no interleaving
\* takes it outside -1 .. the number of threads.
THEOREM TypeCorrect == Spec => []TypeOK
<1>1. IInv => TypeOK
    BY DEF IInv
<1> QED
    BY Invariance, <1>1, PTL

\* The word tells exactly who holds the lock.
THEOREM WordIsExact == Spec => []WordCountsHolders
<1>1. IInv => WordCountsHolders
    <2> SUFFICES ASSUME IInv PROVE WordCountsHolders
        OBVIOUS
    <2>1. CASE Holders("write") # {}
        <3>1. PICK w \in Thread : holds[w] = "write"
            BY <2>1 DEF Holders
        <3>2. Holders("write") = {w}
            BY <3>1 DEF IInv, Exclusion, Holders
        <3> QED
            BY <3>1, <3>2, FS_Singleton
               DEF IInv, WordInv, WordCountsHolders, Readers
    <2>2. CASE Holders("write") = {}
        BY <2>2 DEF IInv, WordInv, WordCountsHolders, Readers, Holders
    <2> QED
        BY <2>1, <2>2
<1> QED
    BY Invariance, <1>1, PTL

\* Every step of the lock is a step, or a stutter, of LockSpec.
THEOREM LockIsImplemented == Spec => ImplementsLock
<1>1. Init => Abstract!Init
    BY DEF Init, Abstract!Init
<1>2. IInv /\ [Next]_vars => [Abstract!Next]_holds
    <2> SUFFICES ASSUME IInv, Next, holds' # holds
                 PROVE  Abstract!Next
        BY DEF vars
    <2>1. PICK t \in Thread : Acquire(t) \/ Unlock(t)
        BY DEF Next
    <2>2. CASE RdCas(t) \/ TryRdCas(t)
        <3>1. holds' = [holds EXCEPT ![t] = "read"] /\ holds[t] = "none" /\ atom >= 0
            BY <2>2 DEF RdCas, TryRdCas, MayRead, CasWins, IInv, PlaceInv
        <3>2. \A u \in Thread : holds[u] # "write"
            BY <3>1 DEF IInv, WordInv
        <3> QED
            BY <3>1, <3>2 DEF Abstract!Next, Abstract!AcquireRead
    <2>3. CASE WrCas(t)
        <3>1. holds' = [holds EXCEPT ![t] = "write"] /\ atom = 0
            BY <2>3 DEF WrCas, MayWrite, CasWins
        <3>2. \A u \in Thread : holds[u] # "write"
            BY <3>1 DEF IInv, WordInv
        <3>3. Readers = {}
            BY <3>1, <3>2, ReadersFinite DEF IInv, WordInv
        <3>4. \A u \in Thread : holds[u] = "none"
            BY <3>2, <3>3 DEF Readers, Holders, IInv, TypeOK
        <3> QED
            BY <3>1, <3>4 DEF Abstract!Next, Abstract!AcquireWrite
    <2>4. CASE UnCas(t)
        <3>1. holds' = [holds EXCEPT ![t] = "none"] /\ holds[t] # "none"
            BY <2>4 DEF UnCas, IInv, PlaceInv
        <3> QED
            BY <3>1 DEF Abstract!Next, Abstract!Release
    <2> QED
        BY <2>1, <2>2, <2>3, <2>4
           DEF Acquire, Unlock, RdLoad, WrLoad, TryRdLoad, UnLoad
<1> QED
    BY <1>1, <1>2, Invariance, PTL DEF Spec, ImplementsLock, Abstract!Spec
-----------------------------------------------------------------------------
PrimStep == [PrimNext]_<<which, vars, m_vars, s_vars, queue_vars>>
-----------------------------------------------------------------------------
\* The mutex.

Owners == {t \in MutexThread : m_holds[t] = "write"}

HoldsOK == m_holds \in [MutexThread -> {"none", "write"}]

\* The number of holders is not enough to know that a release leaves none: the
\* one that releases has to be the one that is counted.
MutexInv ==
    /\ HoldsOK
    /\ \/ m_atom = 0 /\ Owners = {}
       \/ m_atom = 1 /\ \E t \in MutexThread : Owners = {t}

LEMMA MutexInvInit == Mutex!Init => MutexInv
BY DEF Mutex!Init, MutexInv, HoldsOK, Owners

LEMMA MutexInvTake ==
    ASSUME NEW t \in MutexThread, MutexInv, Mutex!Take(t)
    PROVE  MutexInv'
<1>1. m_atom = 0 /\ Owners = {}
  BY DEF MutexInv, Mutex!Take, Mutex!TakesWord
<1>2. HoldsOK'
  BY DEF MutexInv, HoldsOK, Mutex!Take
<1>3. Owners' = {t}
  BY <1>1 DEF MutexInv, HoldsOK, Owners, Mutex!Take
<1> QED
  BY <1>2, <1>3 DEF MutexInv, Mutex!Take

LEMMA MutexInvUnlock ==
    ASSUME NEW t \in MutexThread, MutexInv, Mutex!Unlock(t)
    PROVE  MutexInv'
<1>1. Owners = {t}
  BY DEF MutexInv, Mutex!Unlock, Owners
<1>2. HoldsOK'
  BY DEF MutexInv, HoldsOK, Mutex!Unlock
<1>3. Owners' = {}
  BY <1>1 DEF MutexInv, HoldsOK, Owners, Mutex!Unlock
<1> QED
  BY <1>2, <1>3 DEF MutexInv, Mutex!Unlock

LEMMA MutexInvSame ==
    ASSUME MutexInv, UNCHANGED <<m_atom, m_holds>>
    PROVE  MutexInv'
BY DEF MutexInv, HoldsOK, Owners

LEMMA MutexInvNext ==
    ASSUME MutexInv, [Mutex!Next]_m_vars
    PROVE  MutexInv'
<1>1. ASSUME NEW t \in MutexThread, Mutex!Lock(t) \/ Mutex!TryLock(t)
      PROVE  MutexInv'
  BY <1>1, MutexInvTake, MutexInvSame DEF Mutex!Lock, Mutex!TryLock
<1>2. ASSUME NEW t \in MutexThread, Mutex!Unlock(t)
      PROVE  MutexInv'
  BY <1>2, MutexInvUnlock
<1>3. CASE UNCHANGED m_vars
  BY <1>3, MutexInvSame DEF m_vars
<1> QED
  BY <1>1, <1>2, <1>3 DEF Mutex!Next

LEMMA MutexInvCounts == MutexInv => WordTellsHolder
<1> SUFFICES ASSUME MutexInv PROVE Cardinality(Owners) = m_atom
  BY DEF WordTellsHolder, Mutex!WordTellsHolder, Owners, Mutex!Cardinality, Cardinality
<1>1. CASE m_atom = 0 /\ Owners = {}
  BY <1>1, FS_EmptySet
<1>2. CASE m_atom = 1 /\ \E t \in MutexThread : Owners = {t}
  BY <1>2, FS_Singleton
<1> QED
  BY <1>1, <1>2 DEF MutexInv

\* Whatever the threads do, the word counts the one that holds the mutex: the
\* plain store of atomic_unlock releases nobody else's lock.
THEOREM WordIsTheHolder == PrimSpec => []WordTellsHolder
<1>1. PrimInit => MutexInv
  BY MutexInvInit DEF PrimInit
<1>2. MutexInv /\ PrimStep => MutexInv'
  BY MutexInvNext DEF PrimStep, PrimNext
<1> QED
  BY <1>1, <1>2, MutexInvCounts, PTL DEF PrimSpec, PrimStep
-----------------------------------------------------------------------------
\* The semaphore.

Places == {"out", "wait_load", "wait_cas", "post_load", "post_cas"}

\* An exchange succeeds only on the count that was loaded, so the count it
\* stores is one less than a count above 0, or one more than a count.
SemInv ==
    /\ s_atom \in Nat /\ s_posted \in Nat /\ s_passed \in Nat
    /\ s_seen \in [Thread -> Nat]
    /\ s_pc \in [Thread -> Places]
    /\ s_atom = InitCount + s_posted - s_passed

LEMMA SemInvInit == InitCount \in Nat => (Sem!Init => SemInv)
BY DEF Sem!Init, SemInv, Places

LEMMA SemInvLoad ==
    ASSUME SemInv, NEW t \in Thread, NEW loc \in Places, Sem!Load(t, loc)
    PROVE  SemInv'
<1>1. ~(s_atom < 0)
  BY DEF SemInv
<1>2. s_pc' = [s_pc EXCEPT ![t] = loc]
  BY <1>1 DEF Sem!Load, Sem!Goto
<1> QED
  BY <1>2 DEF SemInv, Sem!Load

LEMMA SemInvWaitCas ==
    ASSUME InitCount \in Nat, SemInv, NEW t \in Thread, Sem!WaitCas(t)
    PROVE  SemInv'
<1>1. s_pc' \in [Thread -> Places] /\ s_seen' = s_seen /\ s_posted' = s_posted
  <2>1. \/ s_pc' = [s_pc EXCEPT ![t] = "out"]
        \/ s_pc' = [s_pc EXCEPT ![t] = "wait_load"]
    BY DEF Sem!WaitCas, Sem!Retry, Sem!Goto
  <2> QED
    BY <2>1 DEF SemInv, Places, Sem!WaitCas
<1>2. CASE Sem!MayPass(s_seen[t]) /\ Sem!CasWins(t)
  <2>1. s_atom' = s_atom - 1 /\ s_passed' = s_passed + 1 /\ s_atom # 0
    BY <1>2 DEF Sem!WaitCas, Sem!MayPass, Sem!CasWins
  <2> QED
    BY <1>1, <2>1 DEF SemInv
<1>3. CASE ~(Sem!MayPass(s_seen[t]) /\ Sem!CasWins(t))
  BY <1>1, <1>3 DEF Sem!WaitCas, SemInv
<1> QED
  BY <1>2, <1>3

LEMMA SemInvPostCas ==
    ASSUME InitCount \in Nat, SemInv, NEW t \in Thread, Sem!PostCas(t)
    PROVE  SemInv'
<1>1. s_pc' \in [Thread -> Places] /\ s_seen' = s_seen /\ s_passed' = s_passed
  BY DEF SemInv, Sem!PostCas, Sem!Retry, Sem!Goto, Places
<1>2. CASE Sem!CasWins(t)
  <2>1. s_atom' = s_atom + 1 /\ s_posted' = s_posted + 1
    BY <1>2 DEF Sem!PostCas, Sem!CasWins
  <2> QED
    BY <1>1, <2>1 DEF SemInv
<1>3. CASE ~Sem!CasWins(t)
  BY <1>1, <1>3 DEF Sem!PostCas, SemInv
<1> QED
  BY <1>2, <1>3

LEMMA SemInvNext ==
    ASSUME InitCount \in Nat, SemInv, [Sem!Next]_s_vars
    PROVE  SemInv'
<1>1. ASSUME NEW t \in Thread, Sem!WaitLoad(t) \/ Sem!PostLoad(t)
      PROVE  SemInv'
  <2>1. "wait_cas" \in Places /\ "post_cas" \in Places
    BY DEF Places
  <2> QED
    BY <1>1, <2>1, SemInvLoad DEF Sem!WaitLoad, Sem!PostLoad
<1>2. ASSUME NEW t \in Thread, Sem!WaitCas(t) \/ Sem!PostCas(t)
      PROVE  SemInv'
  BY <1>2, SemInvWaitCas, SemInvPostCas
<1>3. CASE UNCHANGED s_vars
  BY <1>3 DEF s_vars, SemInv
<1> QED
  BY <1>1, <1>2, <1>3 DEF Sem!Next

THEOREM SemInvariance ==
    ASSUME InitCount \in Nat
    PROVE  PrimSpec => []SemInv
<1>1. PrimInit => SemInv
  BY SemInvInit DEF PrimInit
<1>2. SemInv /\ PrimStep => SemInv'
  BY SemInvNext DEF PrimStep, PrimNext
<1> QED
  BY <1>1, <1>2, PTL DEF PrimSpec, PrimStep

\* However loads and exchanges interleave, atomic_sem_wait and atomic_sem_post
\* lose no unit and make none up.
THEOREM NoUnitLost ==
    ASSUME InitCount \in Nat
    PROVE  PrimSpec => []UnitsAccounted
<1>1. SemInv => UnitsAccounted
  BY DEF SemInv, UnitsAccounted, Sem!UnitsAccounted
<1> QED
  BY <1>1, SemInvariance, PTL

\* assert(i >= 0) of atomic_sem_wait and atomic_sem_post holds whenever it is
\* evaluated.
THEOREM NoSemaphoreAssertionFails ==
    ASSUME InitCount \in Nat
    PROVE  PrimSpec => []NeverAborts
<1>1. SemInv => NeverAborts
  BY DEF SemInv, Places, NeverAborts, Sem!NeverAborts, Sem!Running
<1> QED
  BY <1>1, SemInvariance, PTL
-----------------------------------------------------------------------------
\* The lockless queue.

\* A reader that keeps to one kind of removal.
OneKind == {{"remove"}, {"remove_list"}, {"bycount"}}

\* Writers whose node is in the queue, or was, and is not counted.
Late == {w \in Writer : wpc[w] = "inc"}

\* Where the reader can be, by the removal it makes.
ReaderPlaces == CASE calls = {"remove"} -> {"out", "dec", "pop"}
                  [] calls = {"remove_list"} -> {"out", "list_xchg", "list_sub"}
                  [] OTHER -> {"out", "by_xchg", "by_sub"}

Shape ==
    /\ calls \in OneKind
    /\ content \in Seq(Node) /\ tail \in Seq(Node) /\ ret \in Seq(Node)
    /\ count \in Int /\ asked \in Nat /\ told \in Nat
    /\ wpc \in [Writer -> {"out", "inc"}]
    /\ rpc \in ReaderPlaces
    /\ free \subseteq Node

\* The nodes that the reader has taken out and still has to count out.
Taken == CASE rpc = "pop" -> -1
           [] rpc \in {"list_sub", "by_sub"} -> Len(ret)
           [] OTHER -> 0

\* The count never runs ahead of the nodes, and a removal that has been let
\* through finds one.  lqueue_remove_list leaves no tail list behind, and
\* lqueue_remove_list_bycount counts out as many as it returns.
CountInv ==
    /\ count = Len(tail) + Len(content) - Cardinality(Late) + Taken
    /\ calls = {"remove"} => count >= 0 /\ (rpc = "dec" => count > 0)
    /\ calls = {"remove_list"} => tail = <<>>
    /\ rpc = "by_sub" => told = Len(ret)

QueueIInv == Shape /\ CountInv
-----------------------------------------------------------------------------
LEMMA LateFinite ==
    /\ IsFiniteSet(Late) /\ Cardinality(Late) \in Nat
    /\ IsFiniteSet(Late') /\ Cardinality(Late') \in Nat
<1>1. Late \in SUBSET Writer /\ Late' \in SUBSET Writer
    BY DEF Late
<1> QED
    BY <1>1, FiniteParts, FS_Subset, FS_CardinalityType

\* The lists of the exchanger have the same length both ways round.
LEMMA ReversedLength ==
    ASSUME NEW s \in Seq(Node)
    PROVE  Reversed(s) \in Seq(Node) /\ Len(Reversed(s)) = Len(s)
<1>1. Len(s) \in Nat /\ \A i \in 1 .. Len(s) : s[Len(s) + 1 - i] \in Node
    OBVIOUS
<1>2. Reversed(s) \in [1 .. Len(s) -> Node]
    BY <1>1 DEF Reversed
<1> QED
    BY <1>1, <1>2

LEMMA ReversedAt ==
    ASSUME NEW s \in Seq(Node)
    PROVE  /\ Reversed(s) \in Seq(Node) /\ Len(Reversed(s)) = Len(s)
           /\ \A i \in 1 .. Len(s) : Reversed(s)[i] = s[Len(s) + 1 - i]
<1>1. \A i \in 1 .. Len(s) : Reversed(s)[i] = s[Len(s) + 1 - i]
    BY DEF Reversed
<1> QED
    BY <1>1, ReversedLength

LEMMA ReversedEmpty == Reversed(<<>>) = <<>>
<1>1. <<>> \in Seq(Node) /\ Len(<<>>) = 0
    OBVIOUS
<1>2. Reversed(<<>>) \in Seq(Node) /\ Len(Reversed(<<>>)) = 0
    BY <1>1, ReversedLength
<1> QED
    BY <1>2, EmptySeq

\* A node put at the front of the exchanger's list comes last when it is reversed.
LEMMA ReversedCons ==
    ASSUME NEW s \in Seq(Node), NEW n \in Node
    PROVE  Reversed(<<n>> \o s) = Append(Reversed(s), n)
<1> DEFINE c == <<n>> \o s
<1>1. /\ c \in Seq(Node) /\ Len(c) = Len(s) + 1 /\ c[1] = n /\ Len(s) \in Nat
      /\ \A i \in 1 .. Len(s) : c[i + 1] = s[i]
    OBVIOUS
<1> HIDE DEF c
<1>2. /\ Reversed(c) \in Seq(Node) /\ Len(Reversed(c)) = Len(s) + 1
      /\ \A i \in 1 .. Len(s) + 1 : Reversed(c)[i] = c[Len(s) + 2 - i]
    <2>1. \A i \in 1 .. Len(c) : Reversed(c)[i] = c[Len(c) + 1 - i]
        BY <1>1, ReversedAt
    <2>2. Len(c) + 1 = Len(s) + 2
        BY <1>1
    <2> QED
        BY <1>1, <2>1, <2>2, ReversedLength
<1>3. /\ Reversed(s) \in Seq(Node) /\ Len(Reversed(s)) = Len(s)
      /\ \A i \in 1 .. Len(s) : Reversed(s)[i] = s[Len(s) + 1 - i]
    BY ReversedAt
<1>4. /\ Append(Reversed(s), n) \in Seq(Node) /\ Len(Append(Reversed(s), n)) = Len(s) + 1
      /\ Append(Reversed(s), n)[Len(s) + 1] = n
      /\ \A i \in 1 .. Len(s) : Append(Reversed(s), n)[i] = s[Len(s) + 1 - i]
    BY <1>3
<1>5. Reversed(c)[Len(s) + 1] = Append(Reversed(s), n)[Len(s) + 1]
    BY <1>1, <1>2, <1>4
<1>6. ASSUME NEW i \in 1 .. Len(s)
      PROVE  Reversed(c)[i] = Append(Reversed(s), n)[i]
    <2>1. Reversed(c)[i] = c[(Len(s) + 1 - i) + 1] /\ Len(s) + 1 - i \in 1 .. Len(s)
        BY <1>1, <1>2
    <2> QED
        BY <1>1, <1>4, <2>1
<1>7. \A i \in 1 .. Len(s) + 1 : i \in 1 .. Len(s) \/ i = Len(s) + 1
    BY <1>1
<1>8. \A i \in 1 .. Len(s) + 1 : Reversed(c)[i] = Append(Reversed(s), n)[i]
    BY <1>5, <1>6, <1>7
<1> QED
    BY <1>2, <1>4, <1>8, SeqEqual DEF c

LEMMA QueueLength ==
    ASSUME content \in Seq(Node), tail \in Seq(Node)
    PROVE  Len(Queue) = Len(tail) + Len(content)
<1>1. Reversed(content) \in Seq(Node) /\ Len(Reversed(content)) = Len(content)
    BY ReversedLength
<1>2. \A s \in Seq(Node), u \in Seq(Node) : Len(s \o u) = Len(s) + Len(u)
    OBVIOUS
<1> QED
    BY <1>1, <1>2 DEF Queue

\* A refill moves no node out of the queue: what is read from is the older part
\* of it, and what stays in the exchanger the newer.
LEMMA RefillKeeps ==
    ASSUME content \in Seq(Node), tail \in Seq(Node), Refill
    PROVE  /\ Refilled \in Seq(Node) /\ content' \in Seq(Node)
           /\ Reversed(content') \in Seq(Node)
           /\ Queue = Refilled \o Reversed(content')
           /\ Len(Refilled) + Len(content') = Len(tail) + Len(content)
           /\ Refilled = <<>> => tail = <<>> /\ content = <<>>
<1>1. CASE tail = <<>>
    <2>1. Refilled = Reversed(content) /\ content' = <<>>
        BY <1>1 DEF Refilled, Refill
    <2>2. /\ Refilled \in Seq(Node) /\ Len(Refilled) = Len(content)
          /\ Reversed(content') = <<>>
        BY <2>1, ReversedLength, ReversedEmpty
    <2>3. Queue = Refilled \o Reversed(content')
        BY <1>1, <2>1, <2>2 DEF Queue
    <2>4. Refilled = <<>> => content = <<>>
        BY <2>2
    <2>5. Len(Refilled) + Len(content') = Len(tail) + Len(content)
        BY <1>1, <2>1, <2>2
    <2> QED
        BY <1>1, <2>1, <2>2, <2>3, <2>4, <2>5
<1>2. CASE tail # <<>>
    BY <1>2, ReversedLength DEF Refilled, Refill, Queue
<1> QED
    BY <1>1, <1>2

\* The place of the reader and the calls it enters tell the kind of its removals.
LEMMA KindTold ==
    ASSUME Shape
    PROVE  /\ rpc \in {"dec", "pop"} => calls = {"remove"}
           /\ rpc \in {"list_xchg", "list_sub"} => calls = {"remove_list"}
           /\ rpc \in {"by_xchg", "by_sub"} => calls = {"bycount"}
           /\ Calling("remove") => calls = {"remove"}
           /\ Calling("remove_list") => calls = {"remove_list"}
           /\ Calling("bycount") => calls = {"bycount"}
           /\ {"remove"} # {"remove_list"} /\ {"remove"} # {"bycount"}
           /\ {"remove_list"} # {"bycount"}
<1>1. {"remove"} # {"remove_list"} /\ {"remove"} # {"bycount"}
      /\ {"remove_list"} # {"bycount"}
    OBVIOUS
<1>2. calls = {"remove"} \/ calls = {"remove_list"} \/ calls = {"bycount"}
    BY DEF Shape, OneKind
<1>3. rpc \in ReaderPlaces
    BY DEF Shape
<1> QED
    BY <1>1, <1>2, <1>3 DEF ReaderPlaces, Calling

LEMMA Lens ==
    ASSUME Shape
    PROVE  Len(tail) \in Nat /\ Len(content) \in Nat /\ Len(ret) \in Nat
BY DEF Shape

LEMMA QueueInit_IInv ==
    ASSUME Modes \subseteq OneKind, QueueInit
    PROVE  QueueIInv
<1>1. Late = {}
    BY DEF QueueInit, Late
<1>2. Cardinality(Late) = 0
    BY <1>1, FS_EmptySet
<1>3. Shape
    BY DEF QueueInit, Shape, OneKind, ReaderPlaces
<1> QED
    BY <1>2, <1>3 DEF QueueInit, QueueIInv, CountInv, Taken

\* An insertion adds a node and a writer that is late to count it.
LEMMA InsertStep ==
    ASSUME QueueIInv, NEW w \in Writer, Insert(w)
    PROVE  QueueIInv'
<1>1. Late' = Late \cup {w} /\ w \notin Late
    BY DEF Insert, Late, QueueIInv, Shape
<1>2. Cardinality(Late') = Cardinality(Late) + 1
    BY <1>1, LateFinite, FS_AddElement
<1>3. PICK n \in free : content' = <<n>> \o content
    BY DEF Insert
<1>4. content' \in Seq(Node) /\ Len(content') = Len(content) + 1
    BY <1>3 DEF QueueIInv, Shape
<1>5. /\ tail' = tail /\ count' = count /\ Taken' = Taken /\ ReaderPlaces' = ReaderPlaces
      /\ rpc' = rpc /\ calls' = calls /\ told' = told /\ ret' = ret
      /\ Len(tail) \in Nat /\ Len(content) \in Nat
    BY DEF QueueIInv, Shape, Insert, Taken, ReaderPlaces
<1>6. Shape'
    BY <1>4, <1>5 DEF QueueIInv, Shape, Insert
<1>7. Taken \in Int
    BY DEF QueueIInv, Shape, Taken
<1>8. CountInv'
  <2>1. /\ count = Len(tail) + Len(content) - Cardinality(Late) + Taken
        /\ calls = {"remove"} => count >= 0 /\ (rpc = "dec" => count > 0)
        /\ calls = {"remove_list"} => tail = <<>>
        /\ rpc = "by_sub" => told = Len(ret)
    BY DEF QueueIInv, CountInv
  <2>2. PICK a, b : a = Cardinality(Late) /\ b = Len(content)
    OBVIOUS
  <2>3. a \in Nat /\ b \in Nat
    BY <1>5, <2>2, LateFinite
  <2>4. Cardinality(Late') = a + 1 /\ Len(content') = b + 1 /\ Len(tail') = Len(tail)
    BY <1>2, <1>4, <1>5, <2>2
  <2>5. count = Len(tail) + b - a + Taken
    BY <2>1, <2>2, Zenon
  <2>6. Len(tail) + b - a + Taken = Len(tail) + (b + 1) - (a + 1) + Taken
    BY <1>5, <1>7, <2>3
  <2>7. count' = Len(tail') + Len(content') - Cardinality(Late') + Taken'
    BY <1>5, <2>4, <2>5, <2>6, Zenon
  <2>8. /\ calls' = {"remove"} => count' >= 0 /\ (rpc' = "dec" => count' > 0)
        /\ calls' = {"remove_list"} => tail' = <<>>
        /\ rpc' = "by_sub" => told' = Len(ret')
    BY <1>5, <2>1, Zenon
  <2> QED
    BY <2>7, <2>8, Zenon DEF CountInv
<1> QED
    BY <1>6, <1>8 DEF QueueIInv

\* Counting it makes the writer punctual again.
LEMMA IncStep ==
    ASSUME QueueIInv, NEW w \in Writer, Inc(w)
    PROVE  QueueIInv'
<1>1. Late' = Late \ {w} /\ w \in Late
    BY DEF Inc, Late, QueueIInv, Shape
<1>2. Cardinality(Late') = Cardinality(Late) - 1
    BY <1>1, LateFinite, FS_RemoveElement
<1>3. Cardinality(Late) >= 1
    BY <1>2, LateFinite
<1>4. /\ tail' = tail /\ count' = count + 1 /\ Taken' = Taken /\ ReaderPlaces' = ReaderPlaces
      /\ rpc' = rpc /\ calls' = calls /\ told' = told /\ ret' = ret /\ content' = content
      /\ Len(tail) \in Nat /\ Len(content) \in Nat
    BY DEF QueueIInv, Shape, Inc, Taken, ReaderPlaces
<1>5. Shape'
    BY <1>4 DEF QueueIInv, Shape, Inc
<1>6. Taken \in Int
    BY DEF QueueIInv, Shape, Taken
<1>7. CountInv'
    <2>1. count' = Len(tail') + Len(content') - Cardinality(Late') + Taken'
        BY <1>2, <1>3, <1>4, <1>6, LateFinite DEF QueueIInv, CountInv, Shape
    <2>2. calls = {"remove"} => count' >= 0 /\ (rpc = "dec" => count' > 0)
        BY <1>4 DEF QueueIInv, CountInv, Shape
    <2> QED
        BY <1>4, <2>1, <2>2 DEF QueueIInv, CountInv
<1> QED
    BY <1>5, <1>7 DEF QueueIInv

\* A removal that was let through finds a node, in the tail list or inside.
LEMMA PopFinds ==
    ASSUME QueueIInv, RemovePop
    PROVE  /\ Refilled # <<>> /\ tail' = Tail(Refilled) /\ ret' = <<Head(Refilled)>>
           /\ free' = free \cup {Head(Refilled)} /\ rpc' = "out"
<1>1. /\ content \in Seq(Node) /\ tail \in Seq(Node)
      /\ Len(tail) + Len(content) >= 1
    BY LateFinite, KindTold DEF RemovePop, QueueIInv, Shape, CountInv, Taken
<1>2. Refilled # <<>>
    BY <1>1, RefillKeeps DEF RemovePop
<1> QED
    BY <1>2 DEF RemovePop

LEMMA PopStep ==
    ASSUME QueueIInv, RemovePop
    PROVE  QueueIInv'
<1>1. /\ content \in Seq(Node) /\ tail \in Seq(Node) /\ Late' = Late
      /\ rpc = "pop" /\ calls' = calls /\ calls = {"remove"} /\ count' = count
    BY KindTold DEF RemovePop, QueueIInv, Shape, Late
<1>2. /\ Refilled \in Seq(Node) /\ content' \in Seq(Node) /\ Refilled # <<>>
      /\ Len(Refilled) + Len(content') = Len(tail) + Len(content)
    BY <1>1, RefillKeeps, PopFinds DEF RemovePop
<1>3. /\ tail' \in Seq(Node) /\ Len(tail') = Len(Refilled) - 1
      /\ ret' \in Seq(Node) /\ free' \subseteq Node
    <2>1. /\ tail' = Tail(Refilled) /\ ret' = <<Head(Refilled)>>
          /\ free' = free \cup {Head(Refilled)} /\ free \subseteq Node
        BY PopFinds DEF QueueIInv, Shape
    <2>2. Head(Refilled) \in Node /\ Tail(Refilled) \in Seq(Node)
          /\ Len(Tail(Refilled)) = Len(Refilled) - 1
        BY <1>2
    <2> QED
        BY <2>1, <2>2
<1>4. Shape'
    BY <1>1, <1>2, <1>3, PopFinds DEF RemovePop, QueueIInv, Shape, ReaderPlaces
<1>5. count = Len(tail) + Len(content) - Cardinality(Late) - 1 /\ count >= 0
    <2>1. Taken = -1
        BY <1>1 DEF Taken
    <2> QED
        BY <1>1, <2>1, Lens, LateFinite DEF QueueIInv, CountInv
<1>6. Taken' = 0 /\ rpc' = "out"
    BY PopFinds DEF Taken
<1>7. {"remove"} # {"remove_list"}
    BY KindTold DEF QueueIInv
<1>8. CountInv'
    <2>1. count' = Len(tail') + Len(content') - Cardinality(Late') + Taken'
        <3>1. Len(Refilled) \in Nat /\ Len(content') \in Nat
            BY <1>2
        <3> QED
            BY <1>1, <1>2, <1>3, <1>5, <1>6, <3>1, Lens, LateFinite, SMTT(20) DEF QueueIInv
    <2> QED
        BY <1>1, <1>5, <1>6, <1>7, <2>1 DEF CountInv
<1> QED
    BY <1>4, <1>8 DEF QueueIInv

\* lqueue_remove_list takes everything, and owes the count as much.
LEMMA ListXchgStep ==
    ASSUME QueueIInv, ListXchg
    PROVE  QueueIInv'
<1>1. /\ content \in Seq(Node) /\ tail = <<>> /\ tail' = <<>> /\ Late' = Late
      /\ rpc = "list_xchg" /\ rpc' = "list_sub" /\ calls' = calls
      /\ calls = {"remove_list"} /\ count' = count /\ told' = told /\ tail \in Seq(Node)
    BY KindTold DEF ListXchg, QueueIInv, Shape, CountInv, Late
<1>2. /\ ret' = Refilled /\ Refilled \in Seq(Node) /\ content' = <<>>
      /\ Len(Refilled) + Len(content') = Len(tail) + Len(content)
    BY <1>1, RefillKeeps DEF ListXchg, Refill
<1>3. Shape'
    BY <1>1, <1>2 DEF ListXchg, QueueIInv, Shape, ReaderPlaces
<1>4. count = Len(tail) + Len(content) - Cardinality(Late)
    BY <1>1, LateFinite DEF QueueIInv, Shape, CountInv, Taken
<1>5. Taken' = Len(Refilled)
    BY <1>1, <1>2 DEF Taken
<1>6. CountInv'
    BY <1>1, <1>2, <1>4, <1>5, LateFinite, KindTold DEF CountInv, QueueIInv
<1> QED
    BY <1>3, <1>6 DEF QueueIInv

LEMMA CutFits ==
    ASSUME NEW k \in Nat, NEW len \in Nat
    PROVE  CutAt(k, len) \in 0 .. len /\ (len > 0 => CutAt(k, len) > 0)
BY DEF CutAt

\* lqueue_remove_list_bycount keeps what it does not return.
LEMMA ByXchgStep ==
    ASSUME QueueIInv, ByXchg
    PROVE  /\ QueueIInv'
           /\ told' \in 0 .. Len(Refilled) /\ (Len(Refilled) > 0 => told' > 0)
<1>1. /\ content \in Seq(Node) /\ tail \in Seq(Node) /\ Late' = Late
      /\ rpc = "by_xchg" /\ rpc' = "by_sub" /\ calls' = calls
      /\ calls = {"bycount"} /\ count' = count /\ asked \in Nat
    BY KindTold DEF ByXchg, QueueIInv, Shape, CountInv, Late
<1>2. /\ Refilled \in Seq(Node) /\ content' \in Seq(Node)
      /\ Len(Refilled) + Len(content') = Len(tail) + Len(content)
    BY <1>1, RefillKeeps DEF ByXchg
<1>3. told' \in 0 .. Len(Refilled) /\ (Len(Refilled) > 0 => told' > 0)
    BY <1>1, <1>2, CutFits DEF ByXchg
<1>4. \A s \in Seq(Node), k \in Nat : k <= Len(s) =>
         /\ SubSeq(s, 1, k) \in Seq(Node) /\ Len(SubSeq(s, 1, k)) = k
         /\ SubSeq(s, k + 1, Len(s)) \in Seq(Node) /\ Len(SubSeq(s, k + 1, Len(s))) = Len(s) - k
    OBVIOUS
<1>5. /\ ret' \in Seq(Node) /\ Len(ret') = told'
      /\ tail' \in Seq(Node) /\ Len(tail') = Len(Refilled) - told'
    <2>1. told' \in Nat /\ told' <= Len(Refilled)
        BY <1>2, <1>3
    <2>2. ret' = SubSeq(Refilled, 1, told') /\ tail' = SubSeq(Refilled, told' + 1, Len(Refilled))
        BY DEF ByXchg, Rest
    <2> QED
        BY <1>2, <1>4, <2>1, <2>2
<1>6. Shape'
    <2>1. rpc' \in ReaderPlaces'
        BY <1>1, KindTold DEF ReaderPlaces, QueueIInv
    <2>2. told' \in Nat
        BY <1>2, <1>3
    <2> QED
        BY <1>1, <1>2, <1>5, <2>1, <2>2 DEF ByXchg, QueueIInv, Shape
<1>7. count = Len(tail) + Len(content) - Cardinality(Late)
    BY <1>1, LateFinite DEF QueueIInv, Shape, CountInv, Taken
<1>8. Taken' = told'
    BY <1>1, <1>5 DEF Taken
<1>9. {"bycount"} # {"remove"} /\ {"bycount"} # {"remove_list"}
    BY KindTold DEF QueueIInv
<1>10. CountInv'
    <2>1. count' = Len(tail') + Len(content') - Cardinality(Late') + Taken'
        <3>1. Len(Refilled) \in Nat /\ Len(content') \in Nat /\ told' \in Int
            BY <1>2, <1>3
        <3>2. count' = Len(Refilled) + Len(content') - Cardinality(Late)
            <4>1. Len(tail) \in Nat /\ Len(content) \in Nat /\ Cardinality(Late) \in Nat
                BY Lens, LateFinite DEF QueueIInv
            <4>2. count' = count /\ Len(Refilled) + Len(content') = Len(tail) + Len(content)
                BY <1>1, <1>2
            <4> QED
                BY <1>7, <3>1, <4>1, <4>2
        <3>3. Cardinality(Late') = Cardinality(Late) /\ Cardinality(Late) \in Nat
            BY <1>1, LateFinite
        <3> QED
            BY <1>5, <1>8, <3>1, <3>2, <3>3
    <2> QED
        BY <1>1, <1>5, <1>9, <2>1 DEF CountInv
<1> QED
    BY <1>3, <1>6, <1>10 DEF QueueIInv

LEMMA NodesOf ==
    ASSUME NEW s \in Seq(Node)
    PROVE  Nodes(s) \subseteq Node
BY DEF Nodes

LEMMA SubSteps ==
    ASSUME QueueIInv, ListSub \/ BySub
    PROVE  QueueIInv'
<1>1. /\ Late' = Late /\ ReaderPlaces' = ReaderPlaces /\ rpc \in {"list_sub", "by_sub"} /\ rpc' = "out"
      /\ calls' = calls /\ content' = content /\ tail' = tail /\ ret' = ret /\ told' = told
      /\ calls # {"remove"}
    BY KindTold DEF ListSub, BySub, QueueIInv, Late, ReaderPlaces
<1>2. count' = count - Len(ret) /\ ret \in Seq(Node) /\ Taken = Len(ret) /\ Taken' = 0
    BY <1>1 DEF ListSub, BySub, QueueIInv, Shape, CountInv, Taken
<1>3. free' \subseteq Node
    BY <1>2, NodesOf DEF ListSub, BySub, QueueIInv, Shape
<1>4. Shape'
    BY <1>1, <1>2, <1>3 DEF ListSub, BySub, QueueIInv, Shape, ReaderPlaces
<1>5. CountInv'
    BY <1>1, <1>2, LateFinite, SMTT(20) DEF QueueIInv, CountInv, Shape
<1> QED
    BY <1>4, <1>5 DEF QueueIInv

\* The steps in which the reader only looks and goes on.
LEMMA LookSteps ==
    ASSUME QueueIInv, RemoveTest \/ ListTest \/ ByTest
    PROVE  QueueIInv'
<1>1. /\ Late' = Late /\ ReaderPlaces' = ReaderPlaces /\ content' = content /\ tail' = tail
      /\ calls' = calls /\ count' = count /\ Taken = 0
    BY DEF RemoveTest, ListTest, ByTest, Calling, QueueIInv, Late, ReaderPlaces, Taken
<1>2. Taken' = 0 /\ rpc' \notin {"by_sub", "pop"}
    BY DEF RemoveTest, ListTest, ByTest, Taken
<1>3. Shape'
    <2>1. ret' \in Seq(Node) /\ free' = free /\ wpc' = wpc
        <3>1. (ret' = ret \/ ret' = <<>>) /\ free' = free /\ wpc' = wpc
            BY DEF RemoveTest, ListTest, ByTest
        <3>2. ret \in Seq(Node) /\ <<>> \in Seq(Node)
            BY DEF QueueIInv, Shape
        <3> QED
            BY <3>1, <3>2
    <2>3. asked' \in Nat /\ told' \in Nat
        BY MaxAskNat DEF RemoveTest, ListTest, ByTest, QueueIInv, Shape
    <2>2. rpc' \in ReaderPlaces
        BY KindTold DEF RemoveTest, ListTest, ByTest, QueueIInv, Shape, ReaderPlaces
    <2> QED
        BY <1>1, <2>1, <2>2, <2>3 DEF QueueIInv, Shape
<1>4. rpc' = "dec" => count > 0 \/ calls # {"remove"}
    BY DEF RemoveTest, ListTest, ByTest, QueueIInv, Shape, CountInv
<1>5. CountInv'
    BY <1>1, <1>2, <1>4 DEF QueueIInv, CountInv
<1> QED
    BY <1>3, <1>5 DEF QueueIInv

LEMMA DecStep ==
    ASSUME QueueIInv, RemoveDec
    PROVE  QueueIInv'
<1>1. /\ Late' = Late /\ content' = content /\ tail' = tail /\ calls' = calls
      /\ calls = {"remove"} /\ count' = count - 1 /\ rpc' = "pop" /\ ret' = ret
      /\ Taken = 0 /\ Taken' = -1 /\ count > 0
    BY KindTold DEF RemoveDec, CountedOut, QueueIInv, CountInv, Late, Taken
<1>2. Shape'
    <2>1. rpc' \in ReaderPlaces'
        BY <1>1 DEF ReaderPlaces
    <2>2. count' \in Int
        BY <1>1 DEF QueueIInv, Shape
    <2> QED
        BY <1>1, <2>1, <2>2 DEF RemoveDec, QueueIInv, Shape
<1>3. count = Len(tail) + Len(content) - Cardinality(Late)
    BY <1>1, Lens, LateFinite DEF QueueIInv, CountInv
<1>4. {"remove"} # {"remove_list"} /\ count \in Int
    BY KindTold DEF QueueIInv, Shape
<1>5. CountInv'
    BY <1>1, <1>3, <1>4, Lens, LateFinite DEF QueueIInv, CountInv
<1> QED
    BY <1>2, <1>5 DEF QueueIInv

\* A reader that keeps to lqueue_remove_list leaves nothing in the tail list.
LEMMA NoTailToList ==
    ASSUME QueueIInv
    PROVE  ~ListFromTail
BY KindTold DEF ListFromTail, QueueIInv, CountInv

LEMMA QueueNext_IInv ==
    ASSUME QueueIInv, [QueueNext]_queue_vars
    PROVE  QueueIInv'
<1>1. CASE UNCHANGED queue_vars
    BY <1>1 DEF queue_vars, QueueIInv, Shape, CountInv, Late, Taken, ReaderPlaces
<1> QED
    BY <1>1, LookSteps, DecStep, PopStep, ListXchgStep, ByXchgStep, SubSteps, NoTailToList,
       InsertStep, IncStep DEF QueueNext, Read

THEOREM QueueInvariance ==
    ASSUME Modes \subseteq OneKind
    PROVE  QueueSpec => []QueueIInv
<1>1. QueueInit => QueueIInv
    BY QueueInit_IInv
<1>2. QueueIInv /\ [QueueNext]_queue_vars => QueueIInv'
    BY QueueNext_IInv
<1> QED
    BY <1>1, <1>2, PTL DEF QueueSpec

\* lqueue_remove never reads through a NULL tail, for any number of writers
\* inserting at any moment.
THEOREM RemoveIsSafe ==
    ASSUME Modes \subseteq OneKind
    PROVE  QueueSpec => []NeverTakesNull
<1>1. QueueIInv => NeverTakesNull
    BY DEF QueueIInv, Shape, ReaderPlaces, NeverTakesNull
<1> QED
    BY QueueInvariance, <1>1, PTL

\* The count is the number of nodes, but for the late writers and the removal
\* in progress.
THEOREM CountIsExact ==
    ASSUME Modes \subseteq OneKind
    PROVE  QueueSpec => []CountAccounts
<1>1. QueueIInv => CountAccounts
    <2> SUFFICES ASSUME QueueIInv PROVE CountAccounts
        OBVIOUS
    <2>1. Len(Queue) = Len(tail) + Len(content) /\ Len(tail) \in Nat /\ Len(content) \in Nat
        BY QueueLength DEF QueueIInv, Shape
    <2>2. Uncounted = Cardinality(Late) /\ Cardinality(Late) \in Nat
        BY LateFinite DEF Uncounted, Late
    <2>3. InRemoval = Taken /\ Taken \in Int
        BY DEF InRemoval, Taken, QueueIInv, Shape
    <2> QED
        BY <2>1, <2>2, <2>3 DEF QueueIInv, CountInv, Shape, CountAccounts
<1> QED
    BY QueueInvariance, <1>1, PTL
-----------------------------------------------------------------------------
\* A node is in one place: once in the queue, or free, or on its way out.
OnePlace ==
    /\ \A i, j \in 1 .. Len(Queue) : Queue[i] = Queue[j] => i = j
    /\ \A i \in 1 .. Len(Queue) : Queue[i] \notin free
    /\ rpc \in {"list_sub", "by_sub"} =>
          \A k \in 1 .. Len(ret) :
             /\ ret[k] \notin free
             /\ \A i \in 1 .. Len(Queue) : Queue[i] # ret[k]

LEMMA QueueSeq ==
    ASSUME QueueIInv
    PROVE  Queue \in Seq(Node) /\ Len(Queue) \in Nat
<1>1. tail \in Seq(Node) /\ Reversed(content) \in Seq(Node)
    BY ReversedLength DEF QueueIInv, Shape
<1>2. \A u, v \in Seq(Node) : u \o v \in Seq(Node)
    OBVIOUS
<1>3. Queue \in Seq(Node)
    BY <1>1, <1>2 DEF Queue
<1> QED
    BY <1>3

LEMMA InsertIsEnqueue ==
    ASSUME QueueIInv, NEW w \in Writer, Insert(w)
    PROVE  \E n \in Node : InOrder!Enqueue(n)
<1>1. PICK n \in free : content' = <<n>> \o content /\ free' = free \ {n} /\ tail' = tail
    BY DEF Insert
<1>2. content \in Seq(Node) /\ tail \in Seq(Node) /\ n \in Node
    BY <1>1 DEF QueueIInv, Shape
<1>3. Queue' = tail \o Append(Reversed(content), n)
    BY <1>1, <1>2, ReversedCons DEF Queue
<1>4. Queue' = Append(Queue, n)
    <2>1. \A s, u \in Seq(Node) : s \o Append(u, n) = Append(s \o u, n)
        BY <1>2
    <2> QED
        BY <1>2, <1>3, <2>1, ReversedLength DEF Queue
<1> QED
    BY <1>1, <1>2, <1>4 DEF InOrder!Enqueue

\* The first nodes can be cut off before or after a list is joined behind.
LEMMA CutThenConcat ==
    ASSUME NEW u \in Seq(Node), NEW v \in Seq(Node), NEW k \in Nat, k <= Len(u)
    PROVE  /\ SubSeq(u, k + 1, Len(u)) \o v = SubSeq(u \o v, k + 1, Len(u \o v))
           /\ k <= Len(u \o v)
           /\ \A i \in 1 .. k : (u \o v)[i] = u[i]
<1> DEFINE c == SubSeq(u, k + 1, Len(u))
           w == u \o v
           d == SubSeq(w, k + 1, Len(w))
<1>1. /\ c \in Seq(Node) /\ Len(c) = Len(u) - k
      /\ \A i \in 1 .. Len(u) - k : c[i] = u[i + k]
    OBVIOUS
<1>2. /\ w \in Seq(Node) /\ Len(w) = Len(u) + Len(v)
      /\ \A i \in 1 .. Len(u) : w[i] = u[i]
      /\ \A i \in 1 .. Len(v) : w[Len(u) + i] = v[i]
    OBVIOUS
<1>3. /\ d \in Seq(Node) /\ Len(d) = Len(w) - k
      /\ \A i \in 1 .. Len(w) - k : d[i] = w[i + k]
    <2> HIDE DEF w
    <2> QED
        BY <1>2
<1> HIDE DEF c, d, w
<1>4. /\ c \o v \in Seq(Node) /\ Len(c \o v) = Len(c) + Len(v)
      /\ \A i \in 1 .. Len(c) : (c \o v)[i] = c[i]
      /\ \A i \in 1 .. Len(v) : (c \o v)[Len(c) + i] = v[i]
    <2> HIDE DEF c
    <2>1. \A i \in 1 .. Len(c \o v) : (c \o v)[i] = IF i <= Len(c) THEN c[i] ELSE v[i - Len(c)]
        BY <1>1, ConcatProperties
    <2>2. c \o v \in Seq(Node) /\ Len(c \o v) = Len(c) + Len(v)
        BY <1>1, ConcatProperties
    <2>3. Len(c) \in Nat /\ Len(v) \in Nat
        BY <1>1
    <2>4. \A i \in 1 .. Len(c) : (c \o v)[i] = c[i]
        BY <2>1, <2>2, <2>3
    <2>5. ASSUME NEW i \in 1 .. Len(v) PROVE (c \o v)[Len(c) + i] = v[i]
        BY <2>1, <2>2, <2>3
    <2> QED
        BY <2>2, <2>4, <2>5
<1>5. Len(u) \in Nat /\ Len(v) \in Nat /\ Len(d) = Len(u) - k + Len(v)
    BY <1>2, <1>3
<1>6. ASSUME NEW i \in 1 .. Len(d)
      PROVE  (c \o v)[i] = d[i]
    <2>1. i \in Nat /\ i + k \in 1 .. Len(w) /\ d[i] = w[i + k]
        BY <1>2, <1>3, <1>5
    <2>2. CASE i <= Len(u) - k
        BY <1>1, <1>2, <1>4, <1>5, <2>1, <2>2
    <2>3. CASE i > Len(u) - k
        <3>1. i - (Len(u) - k) \in 1 .. Len(v)
            BY <1>5, <2>1, <2>3
        <3>3. PICK j \in 1 .. Len(v) : j = i - (Len(u) - k)
            BY <3>1
        <3>2. Len(c) + j = i /\ Len(u) + j = i + k
            BY <1>1, <1>5, <2>1, <3>3
        <3> QED
            BY <1>2, <1>4, <2>1, <3>2
    <2>4. i <= Len(u) - k \/ i > Len(u) - k
        BY <1>5, <2>1
    <2> QED
        BY <2>2, <2>3, <2>4
<1>7. Len(c \o v) = Len(d)
    BY <1>1, <1>2, <1>3, <1>4, <1>5
<1>8. c \o v = d
    BY <1>3, <1>4, <1>6, <1>7, SeqEqual
<1>9. k <= Len(w) /\ \A i \in 1 .. k : w[i] = u[i]
    BY <1>2, <1>5
<1> QED
    BY <1>8, <1>9 DEF c, d, w

\* What a removal leaves behind is the newer part of the queue.
LEMMA LeavesTheNewer ==
    ASSUME QueueIInv, Refill, NEW k \in Nat, k <= Len(Refilled),
           tail' = SubSeq(Refilled, k + 1, Len(Refilled))
    PROVE  /\ Queue' = SubSeq(Queue, k + 1, Len(Queue)) /\ k <= Len(Queue)
           /\ \A i \in 1 .. k : Queue[i] = Refilled[i]
<1> DEFINE rest == Reversed(content')
<1>1. /\ Refilled \in Seq(Node) /\ rest \in Seq(Node) /\ Queue = Refilled \o rest
    BY RefillKeeps DEF QueueIInv, Shape
<1>2. Queue' = SubSeq(Refilled, k + 1, Len(Refilled)) \o rest
    BY DEF Queue
<1> HIDE DEF rest
<1> QED
    BY <1>1, <1>2, CutThenConcat

LEMMA PopIsDequeue ==
    ASSUME QueueIInv, RemovePop
    PROVE  1 \in 1 .. Len(Queue) /\ InOrder!DequeueReturn(1)
<1>1. /\ Refilled # <<>> /\ tail' = Tail(Refilled) /\ free' = free \cup {Head(Refilled)}
      /\ Refilled \in Seq(Node) /\ Refill
    BY PopFinds, RefillKeeps DEF RemovePop, QueueIInv, Shape
<1>2. /\ 1 <= Len(Refilled) /\ tail' = SubSeq(Refilled, 1 + 1, Len(Refilled))
      /\ Head(Refilled) = Refilled[1]
    BY <1>1
<1>3. /\ Queue' = SubSeq(Queue, 1 + 1, Len(Queue)) /\ 1 <= Len(Queue)
      /\ \A i \in 1 .. 1 : Queue[i] = Refilled[i]
    BY <1>1, <1>2, LeavesTheNewer
<1>4. {Queue[i] : i \in 1 .. 1} = {Head(Refilled)}
    BY <1>2, <1>3
<1>5. 1 \in 1 .. Len(Queue)
    BY <1>3, QueueSeq
<1> QED
    BY <1>1, <1>3, <1>4, <1>5 DEF InOrder!DequeueReturn

\* The exchange of lqueue_remove_list takes all nodes at once.
LEMMA ListXchgIsDequeue ==
    ASSUME QueueIInv, ListXchg
    PROVE  /\ ret' = Queue /\ Queue' = <<>>
           /\ Len(Queue) > 0 => InOrder!Dequeue(Len(Queue))
<1>1. tail = <<>> /\ tail' = <<>> /\ content \in Seq(Node) /\ free' = free
    BY KindTold DEF ListXchg, QueueIInv, Shape, CountInv
<1>2. ret' = Reversed(content) /\ content' = <<>>
    BY <1>1 DEF ListXchg, Refilled, Refill
<1>3. Reversed(content) \in Seq(Node) /\ Reversed(<<>>) = <<>>
    BY <1>1, ReversedLength, ReversedEmpty
<1>4. Queue = Reversed(content) /\ Queue' = <<>>
    BY <1>1, <1>2, <1>3 DEF Queue
<1>5. \A q \in Seq(Node) : SubSeq(q, Len(q) + 1, Len(q)) = <<>>
    OBVIOUS
<1> QED
    BY <1>1, <1>2, <1>4, <1>5, QueueSeq DEF InOrder!Dequeue

LEMMA ByXchgIsDequeue ==
    ASSUME QueueIInv, ByXchg
    PROVE  /\ told' \in Nat /\ told' <= Len(Queue) /\ Len(ret') = told'
           /\ \A i \in 1 .. told' : ret'[i] = Queue[i]
           /\ IF told' = 0 THEN Queue' = Queue ELSE InOrder!Dequeue(told')
           /\ free' = free
<1>1. /\ Refilled \in Seq(Node) /\ Refill /\ told' \in 0 .. Len(Refilled)
      /\ ret' = SubSeq(Refilled, 1, told') /\ free' = free
      /\ tail' = SubSeq(Refilled, told' + 1, Len(Refilled))
    BY ByXchgStep, RefillKeeps DEF ByXchg, Rest, QueueIInv, Shape
<1>2. PICK k \in Nat : k = told'
    BY <1>1
<1>3. /\ Queue' = SubSeq(Queue, k + 1, Len(Queue)) /\ k <= Len(Queue)
      /\ \A i \in 1 .. k : Queue[i] = Refilled[i]
    <2>1. k <= Len(Refilled) /\ tail' = SubSeq(Refilled, k + 1, Len(Refilled))
        BY <1>1, <1>2
    <2> QED
        BY <1>1, <2>1, LeavesTheNewer
<1>4. /\ Len(SubSeq(Refilled, 1, k)) = k
      /\ \A i \in 1 .. k : SubSeq(Refilled, 1, k)[i] = Refilled[i]
    <2>1. PICK f \in Seq(Node) : f = Refilled /\ k <= Len(f)
        BY <1>1, <1>2
    <2>2. Len(SubSeq(f, 1, k)) = k /\ \A i \in 1 .. k : SubSeq(f, 1, k)[i] = f[i]
        BY <2>1
    <2> QED
        BY <2>1, <2>2
<1>5. SubSeq(Queue, 0 + 1, Len(Queue)) = Queue
    BY QueueSeq
<1> QED
    BY <1>1, <1>2, <1>3, <1>4, <1>5 DEF InOrder!Dequeue

\* The nodes that a list removal returns are in no queue and free to nobody.
LEMMA SubIsReturn ==
    ASSUME QueueIInv, OnePlace, ListSub \/ BySub
    PROVE  Nodes(ret) \in SUBSET (Node \ free) /\ InOrder!Return(Nodes(ret))
<1>1. /\ Queue' = Queue /\ free' = free \cup Nodes(ret) /\ ret \in Seq(Node)
      /\ rpc \in {"list_sub", "by_sub"}
    BY DEF ListSub, BySub, Queue, QueueIInv, Shape
<1>2. /\ \A n \in Nodes(ret) : n \in Node /\ n \notin free
      /\ \A i \in 1 .. Len(Queue) : Queue[i] \notin Nodes(ret)
    BY <1>1 DEF OnePlace, Nodes
<1> QED
    BY <1>1, <1>2 DEF InOrder!Return
-----------------------------------------------------------------------------
LEMMA CutKeepsApart ==
    ASSUME NEW q \in Seq(Node), NEW k \in Nat, k <= Len(q)
    PROVE  LET t == SubSeq(q, k + 1, Len(q))
           IN /\ t \in Seq(Node) /\ Len(t) = Len(q) - k
              /\ \A i \in 1 .. Len(t) : i + k \in 1 .. Len(q) /\ t[i] = q[i + k]
<1> DEFINE t == SubSeq(q, k + 1, Len(q))
<1>1. Len(q) \in Nat
  OBVIOUS
<1>2. Len(t) = Len(q) - k
  BY <1>1
<1>3. t \in Seq(Node)
  BY <1>1
<1>4. ASSUME NEW i \in 1 .. Len(t)
      PROVE  i + k \in 1 .. Len(q) /\ t[i] = q[i + k]
  <2>1. i \in 1 .. Len(q) - k
    BY <1>2
  <2>2. i + k \in 1 .. Len(q)
    BY <1>1, <2>1
  <2>3. t[i] = q[(k + 1) + i - 1]
    BY <1>1, <2>1
  <2>4. (k + 1) + i - 1 = i + k
    BY <1>1, <2>1
  <2> QED
    BY <2>2, <2>3, <2>4
<1> QED
  BY <1>2, <1>3, <1>4

LEMMA AppendKeepsApart ==
    ASSUME NEW q \in Seq(Node), NEW n \in Node
    PROVE  /\ Append(q, n) \in Seq(Node) /\ Len(Append(q, n)) = Len(q) + 1
           /\ Append(q, n)[Len(q) + 1] = n
           /\ \A i \in 1 .. Len(q) : Append(q, n)[i] = q[i]
           /\ \A i \in 1 .. Len(q) + 1 : i \in 1 .. Len(q) \/ i = Len(q) + 1
OBVIOUS

LEMMA InsertOnePlace ==
    ASSUME QueueIInv, OnePlace, NEW w \in Writer, Insert(w)
    PROVE  OnePlace'
<1>1. PICK n \in Node : n \in free /\ Queue' = Append(Queue, n) /\ free' = free \ {n}
    BY InsertIsEnqueue DEF InOrder!Enqueue
<1>2. rpc' = rpc /\ ret' = ret
    BY DEF Insert
<1> QED
    BY <1>1, <1>2, QueueSeq, AppendKeepsApart DEF OnePlace

LEMMA PopOnePlace ==
    ASSUME QueueIInv, OnePlace, RemovePop
    PROVE  OnePlace'
<1>1. /\ Queue' = SubSeq(Queue, 1 + 1, Len(Queue)) /\ 1 <= Len(Queue)
      /\ free' = free \cup {Queue[i] : i \in 1 .. 1} /\ rpc' = "out"
    BY PopIsDequeue, PopFinds, QueueSeq DEF InOrder!DequeueReturn
<1>2. PICK q \in Seq(Node) : q = Queue /\ Len(q) \in Nat
    BY QueueSeq
<1>3. /\ Len(Queue') = Len(q) - 1
      /\ \A i \in 1 .. Len(Queue') : i + 1 \in 1 .. Len(q) /\ Queue'[i] = q[i + 1]
    BY <1>1, <1>2, CutKeepsApart
<1>4. free' = free \cup {q[1]}
    BY <1>1, <1>2
<1>5. \A i \in 1 .. Len(q) : \A j \in 1 .. Len(q) : q[i] = q[j] => i = j
    BY <1>2 DEF OnePlace
<1>6. \A i \in 1 .. Len(Queue') : Queue'[i] \notin free'
    BY <1>1, <1>2, <1>3, <1>4, <1>5 DEF OnePlace
<1>7. \A i, j \in 1 .. Len(Queue') : Queue'[i] = Queue'[j] => i = j
    BY <1>3, <1>5
<1> QED
    BY <1>1, <1>6, <1>7 DEF OnePlace

LEMMA XchgOnePlace ==
    ASSUME QueueIInv, OnePlace, ListXchg
    PROVE  OnePlace'
<1>1. ret' = Queue /\ Queue' = <<>> /\ free' = free
    BY ListXchgIsDequeue DEF ListXchg
<1> QED
    BY <1>1 DEF OnePlace

LEMMA ByXchgOnePlace ==
    ASSUME QueueIInv, OnePlace, ByXchg
    PROVE  OnePlace'
<1>1. PICK k \in Nat : k = told' /\ k <= Len(Queue)
    BY ByXchgIsDequeue
<1>2. PICK q \in Seq(Node) : q = Queue /\ Len(q) \in Nat
    BY QueueSeq
<1>3. SubSeq(q, 0 + 1, Len(q)) = q
    BY <1>2
<1>4. Queue' = SubSeq(q, k + 1, Len(q))
    BY <1>1, <1>2, <1>3, ByXchgIsDequeue DEF InOrder!Dequeue
<1>5. /\ Len(Queue') = Len(q) - k
      /\ \A i \in 1 .. Len(Queue') : i + k \in 1 .. Len(q) /\ Queue'[i] = q[i + k]
    BY <1>1, <1>2, <1>4, CutKeepsApart, ZenonT(30)
<1>6. free' = free /\ Len(ret') = k /\ \A i \in 1 .. k : i \in 1 .. Len(q) /\ ret'[i] = q[i]
    BY <1>1, <1>2, ByXchgIsDequeue
<1>7. /\ \A i \in 1 .. Len(q) : \A j \in 1 .. Len(q) : q[i] = q[j] => i = j
      /\ \A i \in 1 .. Len(q) : q[i] \notin free
    BY <1>2 DEF OnePlace
<1>8. \A i, j \in 1 .. Len(Queue') : Queue'[i] = Queue'[j] => i = j
    BY <1>5, <1>7
<1>9. \A i \in 1 .. Len(Queue') : Queue'[i] \notin free'
    BY <1>5, <1>6, <1>7
<1>10. \A j \in 1 .. Len(ret') : ret'[j] \notin free'
    BY <1>6, <1>7
<1>11. \A j \in 1 .. Len(ret') : \A i \in 1 .. Len(Queue') : Queue'[i] # ret'[j]
    BY <1>5, <1>6, <1>7
<1> QED
    BY <1>8, <1>9, <1>10, <1>11 DEF OnePlace

LEMMA SubOnePlace ==
    ASSUME QueueIInv, OnePlace, ListSub \/ BySub
    PROVE  OnePlace'
<1>1. /\ Queue' = Queue /\ free' = free \cup Nodes(ret) /\ rpc' = "out"
    BY DEF ListSub, BySub, Queue
<1>2. \A i \in 1 .. Len(Queue) : Queue[i] \notin Nodes(ret)
    BY SubIsReturn DEF InOrder!Return
<1> QED
    BY <1>1, <1>2 DEF OnePlace

LEMMA StepIsFifo ==
    ASSUME QueueIInv, OnePlace, [QueueNext]_queue_vars
    PROVE  OnePlace' /\ (InOrder!Next \/ UNCHANGED <<Queue, free>>)
<1>1. CASE UNCHANGED queue_vars
    BY <1>1 DEF queue_vars, Queue, OnePlace
<1>2. CASE RemoveTest \/ RemoveDec \/ ListTest \/ ByTest
    <2>1. Queue' = Queue /\ free' = free /\ rpc' \notin {"list_sub", "by_sub"}
        BY <1>2 DEF RemoveTest, RemoveDec, ListTest, ByTest, Queue
    <2> QED
        BY <2>1 DEF OnePlace
<1>3. CASE RemovePop
    BY <1>3, PopIsDequeue, PopOnePlace DEF InOrder!Next
<1>4. CASE ListXchg
    <2>1. CASE Len(Queue) > 0
        <3>1. Len(Queue) \in 1 .. Len(Queue)
            BY <2>1, QueueSeq
        <3> QED
            BY <1>4, <2>1, <3>1, ListXchgIsDequeue, XchgOnePlace DEF InOrder!Next
    <2>2. CASE ~(Len(Queue) > 0)
        <3>1. Queue = <<>>
            BY <2>2, QueueSeq
        <3>2. free' = free
            BY <1>4 DEF ListXchg
        <3> QED
            BY <1>4, <3>1, <3>2, ListXchgIsDequeue, XchgOnePlace
    <2> QED
        BY <2>1, <2>2
<1>5. CASE ByXchg
    <2>1. PICK k \in Nat : k = told' /\ k <= Len(Queue)
        BY <1>5, ByXchgIsDequeue
    <2>2. k # 0 => k \in 1 .. Len(Queue)
        BY <2>1, QueueSeq
    <2>3. k # 0 => InOrder!Dequeue(k)
        BY <1>5, <2>1, ByXchgIsDequeue
    <2>4. k = 0 => Queue' = Queue /\ free' = free
        BY <1>5, <2>1, ByXchgIsDequeue
    <2>5. (\E j \in 1 .. Len(Queue) : InOrder!Dequeue(j)) \/ UNCHANGED <<Queue, free>>
        BY <2>2, <2>3, <2>4
    <2> QED
        BY <1>5, <2>5, ByXchgOnePlace DEF InOrder!Next
<1>6. CASE ListSub \/ BySub
    BY <1>6, SubIsReturn, SubOnePlace DEF InOrder!Next
<1>7. ASSUME NEW w \in Writer, Insert(w)
      PROVE  OnePlace' /\ InOrder!Next
    BY <1>7, InsertIsEnqueue, InsertOnePlace DEF InOrder!Next
<1>8. ASSUME NEW w \in Writer, Inc(w)
      PROVE  OnePlace' /\ UNCHANGED <<Queue, free>>
    BY <1>8 DEF Inc, Queue, OnePlace
<1> QED
    BY <1>1, <1>2, <1>3, <1>4, <1>5, <1>6, <1>7, <1>8, NoTailToList DEF QueueNext, Read

\* Nodes leave in the order they were inserted, each exactly once, for any
\* number of writers and nodes, one by one or in lists.
THEOREM QueueIsFifo ==
    ASSUME Modes \subseteq OneKind
    PROVE  QueueSpec => ImplementsFifo
<1>1. QueueInit => InOrder!Init /\ OnePlace
    <2>1. <<>> \o Reversed(<<>>) = <<>>
        BY ReversedEmpty
    <2>2. QueueInit => Queue = <<>> /\ free = Node /\ rpc = "out"
        BY <2>1 DEF QueueInit, Queue
    <2> QED
        BY <2>2 DEF InOrder!Init, OnePlace
<1>2. QueueIInv /\ OnePlace /\ [QueueNext]_queue_vars => OnePlace' /\ [InOrder!Next]_<<Queue, free>>
    BY StepIsFifo
<1> QED
    BY <1>1, <1>2, QueueInvariance, PTL DEF QueueSpec, ImplementsFifo, InOrder!Spec
=============================================================================
