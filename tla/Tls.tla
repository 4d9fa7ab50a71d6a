--------------------------------- MODULE Tls ---------------------------------
(***************************************************************************)
(* Thread local storage, M_tls.c.  A key is an index into an array of      *)
(* slots, which is moved to a block of twice the size when it is full.     *)
(* The slot of a key holds a tree with one node per thread and the         *)
(* destroyer of its values, or -1 when the key has been deleted.  One      *)
(* reader/writer lock covers the array, but not everything that is done    *)
(* with it: M_tls_create looks at the number of keys before it locks and   *)
(* fills the new slot after it has unlocked, M_tls_get reads the node that *)
(* it has found after it has unlocked, and M_tls_set gives the lock back   *)
(* between its search and its insertion.                                   *)
(*                                                                         *)
(* The lock is the one of LockSpec.  A block is named by its capacity,     *)
(* every block being larger than the one before.  The tree of a key is the *)
(* set of its nodes.  A value is memory of the client: it is handed over   *)
(* by a successful M_tls_set and comes back when it is destroyed (or, with *)
(* a NULL destroyer, dropped).                                             *)
(*                                                                         *)
(* Clients use keys that M_tls_create has returned to them.  Creator is    *)
(* the set of threads that create keys; MaxKeys is MAX_TLS_COUNT, a power  *)
(* of 2, and array_size wraps at twice that.                               *)
(***************************************************************************)
EXTENDS Naturals, FiniteSets

CONSTANTS Thread, Creator, Value, MaxKeys, MallocFails, NULL

ASSUME CreatorsAreThreads == Creator \subseteq Thread
ASSUME MaxKeysPositive == MaxKeys \in Nat \ {0}
ASSUME MallocFailsBoolean == MallocFails \in BOOLEAN
ASSUME NullIsNoValue == NULL \notin Value

Key == 0 .. MaxKeys

VARIABLES holds,    \* what each thread holds of s_tls.rwlock
          count,    \* s_tls.nodes_count
          size,     \* s_tls.array_size
          block,    \* the block s_tls.key_array points to
          state,    \* the destroyer of each slot: not yet written, some
                    \* destroyer or NULL, or -1
          root,     \* the nodes of each slot
          pc,       \* where each thread is
          key,      \* the key of the call it is in
          kt,       \* the block its pointer to the slot points into
          arg,      \* the value it is storing
          known,    \* the keys that clients have been given
          spare,    \* the values clients own
          answer    \* what its last M_tls_get returned

slots == <<state, root>>
array == <<count, size, block>>
locals == <<key, kt, arg>>
client == <<known, spare, answer>>
vars == <<holds, array, slots, pc, locals, client>>

NodeOf == [tid : Thread, value : Value]

TypeOK ==
    /\ holds \in [Thread -> {"none", "read", "write"}]
    /\ count \in 0 .. MaxKeys /\ size \in 1 .. 2 * MaxKeys /\ count <= size
    /\ block = size
    /\ state \in [Key -> {"unwritten", "live", "gone"}]
    /\ root \in [Key -> SUBSET NodeOf]
    /\ pc \in [Thread -> {"out", "create_lock", "create_body", "create_init",
                          "delete_lock", "delete_body", "get_body",
                          "get_value", "set_search", "set_lock", "set_insert",
                          "crashed"}]
    /\ key \in [Thread -> Key]
    /\ kt \in [Thread -> Nat]
    /\ arg \in [Thread -> Value \cup {NULL}]
    /\ known \subseteq Key /\ spare \subseteq Value
    /\ answer \in [Thread -> Value \cup {NULL}]

\* M_tls_init: room for one key.
Init ==
    /\ holds = [t \in Thread |-> "none"]
    /\ count = 0 /\ size = 1 /\ block = 1
    /\ state = [k \in Key |-> "unwritten"]
    /\ root = [k \in Key |-> {}]
    /\ pc = [t \in Thread |-> "out"]
    /\ key = [t \in Thread |-> 0] /\ kt = [t \in Thread |-> 1]
    /\ arg = [t \in Thread |-> NULL]
    /\ known = {} /\ spare = Value
    /\ answer = [t \in Thread |-> NULL]
-----------------------------------------------------------------------------
Goto(t, p) == pc' = [pc EXCEPT ![t] = p]

ReadLock(t) ==
    /\ \A u \in Thread : holds[u] # "write"
    /\ holds' = [holds EXCEPT ![t] = "read"]

WriteLock(t) ==
    /\ \A u \in Thread : holds[u] = "none"
    /\ holds' = [holds EXCEPT ![t] = "write"]

Unlock(t) == holds' = [holds EXCEPT ![t] = "none"]

\* t's pointer to its slot points into the array that is in use.
InArray(t) == kt[t] = block /\ key[t] < block

Values(k) == {m.value : m \in root[k]}

-----------------------------------------------------------------------------
\* M_tls_create looks at the number of keys, without the lock ...
CreateTest(t) ==
    /\ t \in Creator /\ pc[t] = "out"
    /\ count # MaxKeys /\ count \in Key
    /\ Goto(t, "create_lock")
    /\ UNCHANGED <<holds, array, slots, locals, client>>

CreateLock(t) ==
    /\ pc[t] = "create_lock"
    /\ WriteLock(t)
    /\ Goto(t, "create_body")
    /\ UNCHANGED <<array, slots, locals, client>>

\* ... returns, lock in hand, if there is no memory for a larger array ...
CreateNoMemory(t) ==
    /\ pc[t] = "create_body" /\ count = size /\ MallocFails
    /\ Goto(t, "out")
    /\ UNCHANGED <<holds, array, slots, locals, client>>

\* ... and else takes the next index.
Grown ==
    IF count = size THEN /\ block' = 2 * size
                         /\ size' = (2 * size) % (2 * MaxKeys)
                    ELSE UNCHANGED <<size, block>>

CreateTake(t) ==
    /\ pc[t] = "create_body"
    /\ Grown
    /\ key' = [key EXCEPT ![t] = count]
    /\ kt' = [kt EXCEPT ![t] = block']
    /\ count' = count + 1
    /\ Unlock(t)
    /\ Goto(t, "create_init")
    /\ UNCHANGED <<slots, arg, client>>

\* The slot is written after the lock has been given back.
CreateInit(t) ==
    /\ pc[t] = "create_init"
    /\ state' = [state EXCEPT ![key[t]] = IF InArray(t) THEN "live" ELSE @]
    /\ root' = [root EXCEPT ![key[t]] = IF InArray(t) THEN {} ELSE @]
    /\ known' = known \cup {key[t]}
    /\ Goto(t, "out")
    /\ UNCHANGED <<holds, array, locals, spare, answer>>

-----------------------------------------------------------------------------
\* M_tls_delete: the test of the index lets every known key pass.
DeleteTest(t) ==
    /\ pc[t] = "out"
    /\ \E k \in known : key' = [key EXCEPT ![t] = k]
    /\ Goto(t, "delete_lock")
    /\ UNCHANGED <<holds, array, slots, kt, arg, client>>

DeleteLock(t) ==
    /\ pc[t] = "delete_lock"
    /\ WriteLock(t)
    /\ kt' = [kt EXCEPT ![t] = block]
    /\ Goto(t, "delete_body")
    /\ UNCHANGED <<array, slots, key, arg, client>>

\* The values come back to the client, except through a destroyer of -1.
Destroyed(k) == IF state[k] = "gone" THEN {} ELSE Values(k)

\* A key under which nothing is stored is not deleted at all.
DeleteBody(t) ==
    /\ pc[t] = "delete_body"
    /\ \/ /\ root[key[t]] # {}
          /\ spare' = spare \cup Destroyed(key[t])
          /\ root' = [root EXCEPT ![key[t]] = {}]
          /\ state' = [state EXCEPT ![key[t]] = "gone"]
       \/ /\ root[key[t]] = {}
          /\ UNCHANGED <<slots, spare>>
    /\ Unlock(t)
    /\ Goto(t, "out")
    /\ UNCHANGED <<array, locals, known, answer>>

-----------------------------------------------------------------------------
\* The node of thread t, as bst_search finds it by thread id.
AnyNode(t, m) == TRUE                   \* defect: the thread id is not compared
Mine(t, m) == m.tid = t
Found(t) == {m \in root[key[t]] : Mine(t, m)}

GetLock(t) ==
    /\ pc[t] = "out"
    /\ \E k \in known : key' = [key EXCEPT ![t] = k]
    /\ ReadLock(t)
    /\ kt' = [kt EXCEPT ![t] = block]
    /\ Goto(t, "get_body")
    /\ UNCHANGED <<array, slots, arg, client>>

GetBody(t) ==
    /\ pc[t] = "get_body"
    /\ \/ /\ state[key[t]] = "gone" \/ Found(t) = {}
          /\ answer' = [answer EXCEPT ![t] = NULL]
          /\ Goto(t, "out")
       \/ /\ state[key[t]] # "gone" /\ Found(t) # {}
          /\ Goto(t, "get_value")
          /\ UNCHANGED answer
    /\ Unlock(t)
    /\ UNCHANGED <<array, slots, locals, known, spare>>

\* The value is read without the lock: a deletion of the key may have freed
\* the node, and then anything may be read.
GetValue(t) ==
    /\ pc[t] = "get_value"
    /\ \E v \in IF Found(t) = {} THEN Value \cup {NULL}
                                ELSE {m.value : m \in Found(t)} :
          answer' = [answer EXCEPT ![t] = v]
    /\ Goto(t, "out")
    /\ UNCHANGED <<holds, array, slots, locals, known, spare>>

-----------------------------------------------------------------------------
\* M_tls_set, first under the shared lock: refuse if the key is deleted,
\* replace the value if there is one, else come back with the exclusive lock.
SetLock(t) ==
    /\ pc[t] = "out"
    /\ \E k \in known : key' = [key EXCEPT ![t] = k]
    /\ \E v \in spare : /\ arg' = [arg EXCEPT ![t] = v]
                        /\ spare' = spare \ {v}
    /\ ReadLock(t)
    /\ kt' = [kt EXCEPT ![t] = block]
    /\ Goto(t, "set_search")
    /\ UNCHANGED <<array, slots, known, answer>>

SetRefused(t) ==
    /\ state[key[t]] = "gone"
    /\ spare' = spare \cup {arg[t]}
    /\ Goto(t, "out")
    /\ UNCHANGED slots

\* The old value is destroyed and the new one written into the node.
OldValue(t, m) == m                     \* defect: the node is not written
Rewritten(t, m) == [m EXCEPT !.value = arg[t]]

SetReplace(t) ==
    /\ state[key[t]] # "gone"
    /\ \E m \in Found(t) :
          /\ root' = [root EXCEPT ![key[t]] = (@ \ {m}) \cup {Rewritten(t, m)}]
          /\ spare' = spare \cup {m.value}
    /\ Goto(t, "out")
    /\ UNCHANGED state

SetNotFound(t) ==
    /\ state[key[t]] # "gone" /\ Found(t) = {}
    /\ Goto(t, "set_lock")
    /\ UNCHANGED <<slots, spare>>

SetSearch(t) ==
    /\ pc[t] = "set_search"
    /\ \/ SetRefused(t) \/ SetReplace(t) \/ SetNotFound(t)
    /\ Unlock(t)
    /\ UNCHANGED <<array, locals, known, answer>>

\* The new node is written to whether there was memory for it or not.
SetNoMemory(t) ==
    /\ pc[t] = "set_lock" /\ MallocFails
    /\ Goto(t, "crashed")
    /\ UNCHANGED <<holds, array, slots, locals, client>>

\* Between the two locks the array may have moved; the pointer is made anew.
OldSlot(t) == kt[t]                     \* defect: the old pointer is used
Regotten(t) == block

SetRelock(t) ==
    /\ pc[t] = "set_lock"
    /\ WriteLock(t)
    /\ kt' = [kt EXCEPT ![t] = Regotten(t)]
    /\ Goto(t, "set_insert")
    /\ UNCHANGED <<array, slots, key, arg, client>>

\* The insertion does not look again whether the key has been deleted.
SetInsert(t) ==
    /\ pc[t] = "set_insert"
    /\ root' = [root EXCEPT ![key[t]] = @ \cup {[tid |-> t, value |-> arg[t]]}]
    /\ Unlock(t)
    /\ Goto(t, "out")
    /\ UNCHANGED <<array, state, locals, client>>

-----------------------------------------------------------------------------
\* M_tls_destroy, called when the other threads have ended or are outside.
\* The keys stay as they are, and a later M_tls_init changes nothing.
Destroy ==
    /\ \A t \in Thread : pc[t] = "out" /\ holds[t] = "none"
    /\ spare' = spare \cup UNION {Destroyed(k) : k \in known}
    /\ root' = [k \in Key |-> IF k < count THEN {} ELSE root[k]]
    /\ UNCHANGED <<holds, array, state, pc, locals, known, answer>>

Create(t) == \/ CreateTest(t) \/ CreateLock(t) \/ CreateNoMemory(t)
             \/ CreateTake(t) \/ CreateInit(t)
Delete(t) == DeleteTest(t) \/ DeleteLock(t) \/ DeleteBody(t)
Get(t) == GetLock(t) \/ GetBody(t) \/ GetValue(t)
Set(t) == \/ SetLock(t) \/ SetSearch(t) \/ SetNoMemory(t)
          \/ SetRelock(t) \/ SetInsert(t)

\* The process ends with the thread that crashes.
Running == \A t \in Thread : pc[t] # "crashed"

Next ==
    /\ Running
    /\ \/ Destroy
       \/ \E t \in Thread : Create(t) \/ Delete(t) \/ Get(t) \/ Set(t)

Spec == Init /\ [][Next]_vars
-----------------------------------------------------------------------------
\* No call uses a slot that has not been written or an array that has been
\* freed, although slots are written and pointers kept outside the lock (what
\* such a step does is not defined; here the write is lost).  M_tls.h: keys
\* can be created while threads run.
UsesItsSlot ==
    \A t \in Thread :
        /\ pc[t] \in {"create_init", "delete_body", "get_body", "set_search",
                      "set_insert"} => InArray(t)
        /\ pc[t] \in {"delete_body", "get_body", "set_search", "set_insert"}
              => state[key[t]] # "unwritten"

\* Every value has one owner: the client, the call that is storing it, or one
\* node.  A value that is destroyed twice, or destroyed while stored, has two.
Storing(t) == pc[t] \in {"set_search", "set_lock", "set_insert"}
OneOwner ==
    /\ \A k, l \in Key : \A m \in root[k], n \in root[l] :
          m.value = n.value => k = l /\ m = n
    /\ \A k \in Key : spare \cap Values(k) = {}
    /\ \A t \in Thread : Storing(t) =>
          /\ arg[t] \notin spare
          /\ \A k \in Key : arg[t] \notin Values(k)
          /\ \A u \in Thread : Storing(u) /\ arg[u] = arg[t] => u = t

\* Each thread reads what it stored and nothing else, until the key is deleted
\* (M_tls_get, which reads the node it has found after giving the lock back).
ValueOf(t, k) ==
    LET own == {m \in root[k] : m.tid = t}
    IN IF own = {} \/ state[k] = "gone" THEN NULL
       ELSE (CHOOSE m \in own : TRUE).value
Abstract == INSTANCE LocalStore WITH
    made <- {k \in Key : state[k] # "unwritten"},
    dead <- {k \in Key : state[k] = "gone"},
    store <- [t \in Thread |-> [k \in Key |-> ValueOf(t, k)]],
    reading <- {<<t, key[t]>> : t \in {u \in Thread : pc[u] = "get_value"}}
ImplementsLocalStore == Abstract!Spec
=============================================================================
