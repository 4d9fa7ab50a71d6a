----------------------------- MODULE LocalStore -----------------------------
(***************************************************************************)
(* What thread local storage promises: each thread has a value of its own  *)
(* under each key, which nobody else reads or changes; deleting a key, and *)
(* destroying the store, takes the values of all threads away.  A reading  *)
(* that finds a value is not over at once.  If the key is deleted before   *)
(* it is, it may answer anything; if not, it answers what the thread       *)
(* stored.                                                                 *)
(***************************************************************************)
CONSTANTS Thread, Key, Value, NULL

VARIABLES made,     \* the keys that have been created
          dead,     \* those that have been deleted
          store,    \* the value of each thread under each key
          reading,  \* the threads that are reading a value, with its key
          answer    \* what each thread's last M_tls_get returned

Init ==
    /\ made = {} /\ dead = {}
    /\ store = [t \in Thread |-> [k \in Key |-> NULL]]
    /\ reading = {}
    /\ answer = [t \in Thread |-> NULL]

Idle(t) == \A k \in Key : <<t, k>> \notin reading

Create(k) ==
    /\ k \notin made
    /\ made' = made \cup {k}
    /\ UNCHANGED <<dead, store, reading, answer>>

Set(t, k, v) ==
    /\ Idle(t) /\ k \in made \ dead
    /\ store' = [store EXCEPT ![t][k] = v]
    /\ UNCHANGED <<made, dead, reading, answer>>

Find(t, k) ==
    /\ Idle(t) /\ k \in made
    /\ \/ /\ store[t][k] = NULL
          /\ answer' = [answer EXCEPT ![t] = NULL]
          /\ UNCHANGED reading
       \/ /\ store[t][k] # NULL
          /\ reading' = reading \cup {<<t, k>>}
          /\ UNCHANGED answer
    /\ UNCHANGED <<made, dead, store>>

Read(t, k) ==
    /\ <<t, k>> \in reading
    /\ reading' = reading \ {<<t, k>>}
    /\ \E v \in IF k \in dead THEN Value \cup {NULL} ELSE {store[t][k]} :
          answer' = [answer EXCEPT ![t] = v]
    /\ UNCHANGED <<made, dead, store>>

Delete(k) ==
    /\ k \in made \ dead
    /\ dead' = dead \cup {k}
    /\ store' = [t \in Thread |-> [store[t] EXCEPT ![k] = NULL]]
    /\ UNCHANGED <<made, reading, answer>>

Destroy ==
    /\ reading = {}
    /\ store' = [t \in Thread |-> [k \in Key |-> NULL]]
    /\ UNCHANGED <<made, dead, reading, answer>>

Next ==
    \/ Destroy
    \/ \E k \in Key : \/ Create(k) \/ Delete(k)
                      \/ \E t \in Thread : \/ Find(t, k) \/ Read(t, k)
                                           \/ \E v \in Value : Set(t, k, v)

Spec == Init /\ [][Next]_<<made, dead, store, reading, answer>>
=============================================================================
