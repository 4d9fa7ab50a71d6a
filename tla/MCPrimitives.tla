---------------------------- MODULE MCPrimitives ----------------------------
\* The three primitives of M_atomic.c and the lockless queue for TLC: a process
\* uses the reader/writer lock, the mutex, the semaphore or a queue, and the
\* words of the others stay as they were initialised.
EXTENDS AtomicRWLock, LQueue

CONSTANTS MutexThread, InitCount, MaxPosts

VARIABLES which, m_atom, m_pc, m_holds,
          s_atom, s_pc, s_seen, s_begun, s_posted, s_passed

Mutex == INSTANCE AtomicMutex WITH
            Thread <- MutexThread, atom <- m_atom, pc <- m_pc, holds <- m_holds
Sem == INSTANCE AtomicSem WITH
            atom <- s_atom, pc <- s_pc, seen <- s_seen, begun <- s_begun,
            posted <- s_posted, passed <- s_passed

m_vars == <<m_atom, m_pc, m_holds>>
s_vars == <<s_atom, s_pc, s_seen, s_begun, s_posted, s_passed>>

PrimInit ==
    /\ which \in {"rwlock", "mutex", "sem", "queue"}
    /\ Init /\ Mutex!Init /\ Sem!Init /\ QueueInit
    /\ which # "queue" => calls = {"remove"}

PrimNext ==
    /\ \/ which = "rwlock" /\ Next /\ UNCHANGED <<m_vars, s_vars, queue_vars>>
       \/ which = "mutex" /\ Mutex!Next /\ UNCHANGED <<vars, s_vars, queue_vars>>
       \/ which = "sem" /\ Sem!Next /\ UNCHANGED <<vars, m_vars, queue_vars>>
       \/ which = "queue" /\ QueueNext /\ UNCHANGED <<vars, m_vars, s_vars>>
    /\ UNCHANGED which

PrimSpec ==
    /\ PrimInit /\ [][PrimNext]_<<which, vars, m_vars, s_vars, queue_vars>>
    /\ Fairness /\ Mutex!Fairness /\ Sem!Fairness /\ QueueFairness
-----------------------------------------------------------------------------
\* The word of the mutex tells whether somebody holds it (atomic_unlock).
WordTellsHolder == Mutex!WordTellsHolder

\* Neither lock makes everybody wait for ever (the loops of atomic_rdlock,
\* atomic_wrlock and atomic_lock).
LocksProgress == Progress /\ Mutex!Progress

\* The semaphore loses no unit and makes none up (atomic_sem_wait and _post),
\* its assertions hold, and no waiter is left behind.
UnitsAccounted == Sem!UnitsAccounted
NeverAborts == Sem!NeverAborts
NobodyLeftBehind == Sem!NobodyLeftBehind
=============================================================================
