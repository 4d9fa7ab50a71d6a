------------------------------ MODULE AtomicSem ------------------------------
(***************************************************************************)
(* The counting semaphore of M_atomic.c: atomic_sem_init, atomic_sem_wait, *)
(* atomic_sem_post.  Both calls load the count and exchange it for the one *)
(* they computed; wait spins while the count it loaded is 0.  A call that  *)
(* loads a negative count trips assert(i >= 0) and ends the process.       *)
(*                                                                         *)
(* Any thread may wait and any thread may post.  MaxPosts bounds the posts *)
(* begun, and with them the waits that can pass.                           *)
(***************************************************************************)
EXTENDS Integers, FiniteSets

CONSTANTS Thread, InitCount, MaxPosts   \* the counts are natural numbers

VARIABLES atom,     \* M_atomic.atom
          pc,       \* where each thread is
          seen,     \* local i
          begun,    \* posts begun
          posted,   \* posts done
          passed    \* waits done

vars == <<atom, pc, seen, begun, posted, passed>>

Init ==
    /\ atom = InitCount
    /\ pc = [t \in Thread |-> "out"]
    /\ seen = [t \in Thread |-> 0]
    /\ begun = 0 /\ posted = 0 /\ passed = 0

Goto(t, loc) == pc' = [pc EXCEPT ![t] = loc]

\* Load the count, assert that it is not negative, go on to the exchange.
Load(t, loc) ==
    /\ seen' = [seen EXCEPT ![t] = atom]
    /\ Goto(t, IF atom < 0 THEN "aborted" ELSE loc)
    /\ UNCHANGED <<atom, posted, passed>>

StoreAnyway(t) == TRUE                  \* defect: a store, not an exchange
CasWins(t) == atom = seen[t]

PassAtZero(i) == i >= 0                 \* defect: an empty count accepted
PassAboveOne(i) == i > 1                \* defect: the last unit is kept back
MayPass(i) == i # 0

\* After a lost exchange the count is loaded again.
Retry(t, loc) == Goto(t, loc)

WaitLoad(t) ==
    /\ pc[t] \in {"out", "wait_load"}
    /\ Load(t, "wait_cas")
    /\ UNCHANGED begun

WaitCas(t) ==
    /\ pc[t] = "wait_cas"
    /\ \/ /\ MayPass(seen[t]) /\ CasWins(t)
          /\ atom' = seen[t] - 1
          /\ passed' = passed + 1
          /\ Goto(t, "out")
       \/ /\ ~(MayPass(seen[t]) /\ CasWins(t))
          /\ Retry(t, "wait_load")
          /\ UNCHANGED <<atom, passed>>
    /\ UNCHANGED <<seen, begun, posted>>

PostLoad(t) ==
    /\ \/ pc[t] = "out" /\ begun < MaxPosts /\ begun' = begun + 1
       \/ pc[t] = "post_load" /\ UNCHANGED begun
    /\ Load(t, "post_cas")

PostCas(t) ==
    /\ pc[t] = "post_cas"
    /\ \/ /\ CasWins(t)
          /\ atom' = seen[t] + 1
          /\ posted' = posted + 1
          /\ Goto(t, "out")
       \/ /\ ~CasWins(t)
          /\ Retry(t, "post_load")
          /\ UNCHANGED <<atom, posted>>
    /\ UNCHANGED <<seen, begun, passed>>

Running == \A t \in Thread : pc[t] # "aborted"

Next == Running /\ \E t \in Thread :
            WaitLoad(t) \/ WaitCas(t) \/ PostLoad(t) \/ PostCas(t)

Spec == Init /\ [][Next]_vars

\* Threads inside a call keep running; nobody has to begin one.
Fairness == \A t \in Thread :
    WF_vars(pc[t] # "out" /\ (WaitLoad(t) \/ WaitCas(t) \/ PostLoad(t) \/ PostCas(t)))

FairSpec == Spec /\ Fairness
-----------------------------------------------------------------------------
\* No unit is lost and none is made up, however loads and exchanges interleave.
UnitsAccounted == atom = InitCount + posted - passed

\* assert(i >= 0) never fails.
NeverAborts == Running

\* No waiter is left behind: once the posts are over, a thread waits only for
\* units that are not there.
Waiting(t) == pc[t] \in {"wait_load", "wait_cas"}
NobodyLeftBehind == <>[](\A t \in Thread : Waiting(t) => atom = 0)
=============================================================================
