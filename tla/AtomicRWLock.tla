---------------------------- MODULE AtomicRWLock ----------------------------
(***************************************************************************)
(* The reader / writer spin lock of M_atomic.c (the __M_CFG_ATOMIC branch).*)
(* The lock is one machine word: 0 when free, n > 0 when n threads read,   *)
(* -1 while a thread writes.  Every operation loads the word, computes the *)
(* new value from what it loaded, and publishes it with one                *)
(* compare-and-exchange; a blocking call that loses the race sleeps and    *)
(* loads again.  Load and compare-and-exchange are separate steps here, so *)
(* a thread may act on a value that is stale.                              *)
(*                                                                         *)
(* holds[t] is what thread t may do by the answers it has had: the return  *)
(* of rdlock / wrlock, or the value 0 returned by tryrdlock / trywrlock.   *)
(* A thread holds at most one mode of the lock at a time.                  *)
(*                                                                         *)
(* Spec has the threads that keep to rdlock, wrlock, tryrdlock and         *)
(* rwunlock.  SpecWithTryWr has those that call trywrlock too, which       *)
(* breaks the lock for all of them (TryVerdictIsTheTruth).                 *)
(***************************************************************************)
EXTENDS Integers, FiniteSets

CONSTANT Thread     \* the threads that share the lock

ASSUME ThreadFinite == IsFiniteSet(Thread)

VARIABLES atom,     \* M_atomic.atom
          pc,       \* where each thread is
          seen,     \* local i: the value the thread loaded last
          holds     \* what the thread may do

vars == <<atom, pc, seen, holds>>

Location == {"out", "rd_load", "rd_cas", "wr_load", "wr_cas", "tryrd_cas",
             "trywr_cas", "un_load", "un_cas", "aborted"}

TypeOK ==
    /\ atom \in -1 .. Cardinality(Thread)
    /\ pc \in [Thread -> Location]
    /\ seen \in [Thread -> -1 .. Cardinality(Thread)]
    /\ holds \in [Thread -> {"none", "read", "write"}]

Init ==
    /\ atom = 0
    /\ pc = [t \in Thread |-> "out"]
    /\ seen = [t \in Thread |-> 0]
    /\ holds = [t \in Thread |-> "none"]

Goto(t, loc) == pc' = [pc EXCEPT ![t] = loc]
Load(t) == seen' = [seen EXCEPT ![t] = atom]

\* A new call: the thread is outside every call and holds nothing.
Entering(t) == pc[t] = "out" /\ holds[t] = "none"

\* atomic_cmpxchg(atom, i, new) returned i: the word still held what t loaded.
StoreAnyway(t) == TRUE                  \* defect: a store, not an exchange
CasWins(t) == atom = seen[t]

\* The loaded words from which each lock goes on to the exchange.
MayRead(i) == i >= 0
MayWriteAtAnyCount(i) == i >= 0         \* defect: readers overlooked
MayWrite(i) == i = 0

\* What the lock word becomes when a holder leaves.
OneLess(i) == i - 1                     \* defect: the writer's -1 overlooked
Unlocked(i) == IF i < 0 THEN 0 ELSE i - 1

\* A try call leaves after its one exchange, whatever came of it.
TryEnds(t) == Goto(t, "out")

RdLoad(t) ==
    /\ Entering(t) \/ pc[t] = "rd_load"
    /\ Load(t)
    /\ Goto(t, "rd_cas")
    /\ UNCHANGED <<atom, holds>>

RdCas(t) ==
    /\ pc[t] = "rd_cas"
    /\ \/ /\ MayRead(seen[t]) /\ CasWins(t)
          /\ atom' = seen[t] + 1
          /\ holds' = [holds EXCEPT ![t] = "read"]
          /\ Goto(t, "out")
       \/ /\ ~(MayRead(seen[t]) /\ CasWins(t))
          /\ Goto(t, "rd_load")
          /\ UNCHANGED <<atom, holds>>
    /\ UNCHANGED seen

WrLoad(t) ==
    /\ Entering(t) \/ pc[t] = "wr_load"
    /\ Load(t)
    /\ Goto(t, "wr_cas")
    /\ UNCHANGED <<atom, holds>>

WrCas(t) ==
    /\ pc[t] = "wr_cas"
    /\ \/ /\ MayWrite(seen[t]) /\ CasWins(t)
          /\ atom' = -1
          /\ holds' = [holds EXCEPT ![t] = "write"]
          /\ Goto(t, "out")
       \/ /\ ~(MayWrite(seen[t]) /\ CasWins(t))
          /\ Goto(t, "wr_load")
          /\ UNCHANGED <<atom, holds>>
    /\ UNCHANGED seen

TryRdLoad(t) ==
    /\ Entering(t)
    /\ Load(t)
    /\ Goto(t, "tryrd_cas")
    /\ UNCHANGED <<atom, holds>>

TryRdCas(t) ==
    /\ pc[t] = "tryrd_cas"
    /\ \/ /\ MayRead(seen[t]) /\ CasWins(t)                     \* returns 0
          /\ atom' = seen[t] + 1
          /\ holds' = [holds EXCEPT ![t] = "read"]
       \/ /\ ~(MayRead(seen[t]) /\ CasWins(t))                  \* returns -1
          /\ UNCHANGED <<atom, holds>>
    /\ TryEnds(t)
    /\ UNCHANGED seen

TryWrLoad(t) ==
    /\ Entering(t)
    /\ Load(t)
    /\ Goto(t, "trywr_cas")
    /\ UNCHANGED <<atom, holds>>

\* The test on the result of the exchange reads "!= i": a thread that set the
\* word to -1 is told -1, and one that lost the exchange is told 0.
TryWrCas(t) ==
    /\ pc[t] = "trywr_cas"
    /\ \/ /\ MayWrite(seen[t]) /\ CasWins(t)                      \* returns -1
          /\ atom' = -1
          /\ UNCHANGED holds
       \/ /\ MayWrite(seen[t]) /\ ~CasWins(t)                     \* returns 0
          /\ holds' = [holds EXCEPT ![t] = "write"]
          /\ UNCHANGED atom
       \/ /\ ~MayWrite(seen[t])                                    \* returns -1
          /\ UNCHANGED <<atom, holds>>
    /\ Goto(t, "out")
    /\ UNCHANGED seen

\* assert(i) ends the process when the loaded word is 0.
UnLoad(t) ==
    /\ pc[t] = "un_load" \/ (pc[t] = "out" /\ holds[t] # "none")
    /\ Load(t)
    /\ Goto(t, IF atom = 0 THEN "aborted" ELSE "un_cas")
    /\ UNCHANGED <<atom, holds>>

UnCas(t) ==
    /\ pc[t] = "un_cas"
    /\ \/ /\ CasWins(t)
          /\ atom' = Unlocked(seen[t])
          /\ holds' = [holds EXCEPT ![t] = "none"]
          /\ Goto(t, "out")
       \/ /\ ~CasWins(t)
          /\ Goto(t, "un_load")
          /\ UNCHANGED <<atom, holds>>
    /\ UNCHANGED seen

Acquire(t) == \/ RdLoad(t) \/ RdCas(t) \/ WrLoad(t) \/ WrCas(t)
              \/ TryRdLoad(t) \/ TryRdCas(t)

Unlock(t) == UnLoad(t) \/ UnCas(t)

Running == \A t \in Thread : pc[t] # "aborted"

Next == Running /\ \E t \in Thread : Acquire(t) \/ Unlock(t)

Spec == Init /\ [][Next]_vars

NextWithTryWr ==
    Next \/ (Running /\ \E t \in Thread : TryWrLoad(t) \/ TryWrCas(t))

SpecWithTryWr == Init /\ [][NextWithTryWr]_vars

InCall(t) == pc[t] # "out"

(***************************************************************************)
(* Fairness: the operating system keeps running every thread that is       *)
(* inside a call (M_sleep(0) only yields), and callers give back what they *)
(* hold.  Nobody has to ask for the lock.                                  *)
(***************************************************************************)
Fairness == \A t \in Thread :
    WF_vars(Running /\ (Unlock(t) \/ (InCall(t) /\ Acquire(t))))

FairSpec == Spec /\ Fairness
-----------------------------------------------------------------------------
Holders(mode) == {t \in Thread : holds[t] = mode}

\* A thread that writes is alone: no other writer, no reader.  Every caller of
\* rdlock / wrlock / tryrdlock relies on it.
Exclusion ==
    \A t, u \in Thread : (holds[t] = "write" /\ t # u) => holds[u] = "none"

\* The word always tells exactly who holds the lock, however the loads and
\* exchanges of different threads interleave.
WordCountsHolders ==
    IF Holders("write") # {}
    THEN atom = -1 /\ Cardinality(Holders("write")) = 1 /\ Holders("read") = {}
    ELSE atom = Cardinality(Holders("read"))

\* atomic_rwunlock never trips over assert(i): a thread that releases always
\* loads a word that is not 0, in the retries too.
UnlockNeverAborts == Running

\* The lock does what a shared / exclusive lock promises.
Abstract == INSTANCE LockSpec
ImplementsLock == Abstract!Spec

\* Some thread always gets in: if threads wait forever, the lock is granted
\* again and again (one thread alone may starve: M_atomic.h says so).
Waiting(t) == pc[t] \in {"rd_load", "rd_cas", "wr_load", "wr_cas"}
Granted == \E t \in Thread : holds[t] = "none" /\ holds'[t] # "none"
Progress == \/ []<>(\A t \in Thread : ~Waiting(t))
            \/ []<><<Granted>>_vars

\* M_atomic.h: "trylock version: return 0 if successful get the lock, -1
\* otherwise".  A call is told 0 exactly when its own exchange took the word.
TryVerdictIsTheTruth ==
    [][\A t \in Thread : TryRdCas(t) \/ TryWrCas(t)
            => (holds'[t] # "none" <=> atom' # atom)]_vars
=============================================================================
