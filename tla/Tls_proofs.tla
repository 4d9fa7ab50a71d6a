------------------------------ MODULE Tls_proofs ------------------------------
(***************************************************************************)
(* Thread local storage with at most one thread creating keys, for any     *)
(* number of threads that use and delete them, any values and any maximum  *)
(* number of keys.                                                         *)
(***************************************************************************)
EXTENDS Tls, TLAPS

OneCreator == \A t, u \in Creator : t = u

\* What each place in the code holds of the lock, and that a writer is alone.
LockInv ==
    /\ \A t \in Thread :
          /\ pc[t] \in {"create_body", "delete_body", "set_insert"}
                => holds[t] = "write"
          /\ pc[t] \in {"get_body", "set_search"} => holds[t] = "read"
    /\ \A t, u \in Thread : holds[t] = "write" /\ t # u => holds[u] = "none"

\* A pointer to the array that is kept while the lock is held is current, and
\* so is that of the thread that creates a key; nobody else can move the array.
PointerInv ==
    \A t \in Thread :
        /\ pc[t] \in {"create_init", "delete_body", "get_body", "set_search",
                      "set_insert"} => kt[t] = block
        /\ pc[t] \in {"create_lock", "create_body", "create_init"}
              => t \in Creator
        /\ pc[t] \in {"create_lock", "create_body"} => count < MaxKeys
        /\ pc[t] = "create_init" => key[t] < count

\* The keys that clients know have been written, and calls are about them.
KeyInv ==
    /\ \A k \in known : k < count /\ state[k] # "unwritten"
    /\ \A t \in Thread :
          pc[t] \in {"delete_lock", "delete_body", "get_body", "get_value",
                     "set_search", "set_lock", "set_insert"} => key[t] \in known
    /\ \A t \in Thread : Storing(t) => arg[t] \in Value

IInv == TypeOK /\ LockInv /\ PointerInv /\ KeyInv
-----------------------------------------------------------------------------
LEMMA InitIInv == Init => IInv
    BY MaxKeysPositive DEF Init, IInv, TypeOK, LockInv, PointerInv, KeyInv, Storing, Key

\* The array doubles before its size can wrap.
LEMMA Doubling ==
    ASSUME NEW s \in Nat, s < MaxKeys
    PROVE  (2 * s) % (2 * MaxKeys) = 2 * s
<1>1. \A a, b \in Nat : a < b => a % b = a
    OBVIOUS
<1> QED
    BY <1>1, MaxKeysPositive

LEMMA CreateStep ==
    ASSUME OneCreator, IInv, NEW t \in Thread, Create(t)
    PROVE  IInv'
<1> USE DEF vars, array, slots, locals, client, Goto
<1>1. CASE CreateTest(t)
    <2>1. TypeOK'
        BY <1>1 DEF CreateTest, IInv, TypeOK
    <2>2. LockInv' /\ KeyInv'
        BY <1>1 DEF CreateTest, IInv, TypeOK, LockInv, KeyInv, Storing
    <2>3. count < MaxKeys
        BY <1>1, MaxKeysPositive DEF CreateTest, IInv, TypeOK
    <2>4. PointerInv'
        BY <1>1, <2>3 DEF CreateTest, IInv, TypeOK, PointerInv
    <2> QED
        BY <2>1, <2>2, <2>4 DEF IInv
<1>2. CASE CreateLock(t)
    BY <1>2 DEF CreateLock, WriteLock, IInv, TypeOK, LockInv, PointerInv, KeyInv, Storing, Key
<1>3. CASE CreateNoMemory(t)
    BY <1>3 DEF CreateNoMemory, IInv, TypeOK, LockInv, PointerInv, KeyInv, Storing, Key
<1>4. CASE CreateTake(t)
    <2>1. /\ holds[t] = "write" /\ t \in Creator /\ count < MaxKeys
          /\ count \in Key /\ count <= size /\ size \in Nat /\ block = size
        BY <1>4 DEF CreateTake, IInv, TypeOK, LockInv, PointerInv, Key
    <2>2. /\ size' \in 1 .. 2 * MaxKeys /\ block' = size' /\ count' <= size'
          /\ block' \in Nat
        BY <1>4, <2>1, Doubling, MaxKeysPositive DEF CreateTake, Grown, IInv, TypeOK
    <2>3. TypeOK'
        <3>1. count' \in 0 .. MaxKeys
            BY <1>4, <2>1, MaxKeysPositive DEF CreateTake, Key
        <3>2. key' \in [Thread -> Key] /\ kt' \in [Thread -> Nat]
            BY <1>4, <2>1, <2>2 DEF CreateTake, IInv, TypeOK
        <3>3. /\ holds' \in [Thread -> {"none", "read", "write"}]
              /\ pc' = [pc EXCEPT ![t] = "create_init"]
              /\ UNCHANGED <<state, root, arg, known, spare, answer>>
            BY <1>4 DEF CreateTake, Unlock, IInv, TypeOK
        <3> QED
            BY <2>2, <3>1, <3>2, <3>3 DEF IInv, TypeOK
    <2>4. LockInv'
        BY <1>4, <2>1 DEF CreateTake, Unlock, IInv, TypeOK, LockInv
    <2>5. \A u \in Thread \ {t} :
             /\ pc'[u] = pc[u] /\ key'[u] = key[u] /\ kt'[u] = kt[u]
             /\ pc[u] \notin {"create_lock", "create_body", "create_init", "delete_body",
                              "get_body", "set_search", "set_insert"}
        BY <1>4, <2>1 DEF CreateTake, IInv, TypeOK, LockInv, PointerInv, OneCreator
    <2>6. PointerInv'
        BY <1>4, <2>1, <2>5 DEF CreateTake, IInv, TypeOK, PointerInv, Key
    <2>7. KeyInv'
        BY <1>4, <2>1, <2>5 DEF CreateTake, IInv, TypeOK, KeyInv, Storing, Key
    <2> QED
        BY <2>3, <2>4, <2>6, <2>7 DEF IInv
<1>5. CASE CreateInit(t)
    <2>1. InArray(t)
        BY <1>5 DEF CreateInit, InArray, IInv, TypeOK, PointerInv, Key
    <2>2. /\ pc[t] = "create_init" /\ key[t] \in Key /\ key[t] < count
          /\ state' = [state EXCEPT ![key[t]] = "live"]
          /\ root' = [root EXCEPT ![key[t]] = {}]
        BY <1>5, <2>1 DEF CreateInit, IInv, TypeOK, PointerInv
    <2>3. TypeOK'
        BY <1>5, <2>2 DEF CreateInit, IInv, TypeOK
    <2>4. LockInv' /\ PointerInv'
        BY <1>5 DEF CreateInit, IInv, TypeOK, LockInv, PointerInv
    <2>5. KeyInv'
        BY <1>5, <2>2 DEF CreateInit, IInv, TypeOK, KeyInv, Storing
    <2> QED
        BY <2>3, <2>4, <2>5 DEF IInv
<1> QED
    BY <1>1, <1>2, <1>3, <1>4, <1>5 DEF Create

LEMMA DeleteStep ==
    ASSUME IInv, NEW t \in Thread, Delete(t)
    PROVE  IInv'
<1> USE DEF vars, array, slots, locals, client, Goto
<1>1. CASE DeleteTest(t)
    BY <1>1 DEF DeleteTest, IInv, TypeOK, LockInv, PointerInv, KeyInv, Storing, Key
<1>2. CASE DeleteLock(t)
    BY <1>2 DEF DeleteLock, WriteLock, IInv, TypeOK, LockInv, PointerInv, KeyInv, Storing, Key
<1>3. CASE DeleteBody(t)
    <2>1. Destroyed(key[t]) \subseteq Value
        BY DEF Destroyed, Values, IInv, TypeOK, NodeOf
    <2>2. TypeOK'
        BY <1>3, <2>1 DEF DeleteBody, Unlock, IInv, TypeOK
    <2> QED
        BY <1>3, <2>2 DEF DeleteBody, Unlock, IInv, TypeOK, LockInv, PointerInv, KeyInv, Storing, Key
<1> QED
    BY <1>1, <1>2, <1>3 DEF Delete

LEMMA GetStep ==
    ASSUME IInv, NEW t \in Thread, Get(t)
    PROVE  IInv'
<1> USE DEF vars, array, slots, locals, client, Goto
<1>1. CASE GetLock(t)
    BY <1>1 DEF GetLock, ReadLock, IInv, TypeOK, LockInv, PointerInv, KeyInv, Storing, Key
<1>2. CASE GetBody(t)
    <2>1. TypeOK'
        BY <1>2 DEF GetBody, Unlock, IInv, TypeOK
    <2> QED
        BY <1>2, <2>1 DEF GetBody, Unlock, IInv, TypeOK, LockInv, PointerInv, KeyInv, Storing, Key
<1>3. CASE GetValue(t)
    <2>1. \A m \in Found(t) : m.value \in Value
        BY DEF Found, IInv, TypeOK, NodeOf
    <2>2. PICK v \in Value \cup {NULL} : answer' = [answer EXCEPT ![t] = v]
        BY <1>3, <2>1 DEF GetValue
    <2>3. TypeOK'
        BY <1>3, <2>2 DEF GetValue, IInv, TypeOK
    <2> QED
        BY <1>3, <2>3 DEF GetValue, IInv, TypeOK, LockInv, PointerInv, KeyInv, Storing, Key
<1> QED
    BY <1>1, <1>2, <1>3 DEF Get

LEMMA SetStep ==
    ASSUME IInv, NEW t \in Thread, Set(t)
    PROVE  IInv'
<1> USE DEF vars, array, slots, locals, client, Goto
<1>1. CASE SetLock(t)
    BY <1>1 DEF SetLock, ReadLock, IInv, TypeOK, LockInv, PointerInv, KeyInv, Storing, Key
<1>2. CASE SetSearch(t)
    <2>1. arg[t] \in Value /\ pc[t] = "set_search" /\ holds[t] = "read"
        BY <1>2 DEF SetSearch, IInv, LockInv, KeyInv, Storing
    <2>2. root' \in [Key -> SUBSET NodeOf] /\ spare' \subseteq Value /\ state' = state
        <3>1. CASE SetRefused(t)
            BY <2>1, <3>1 DEF SetRefused, IInv, TypeOK
        <3>2. CASE SetReplace(t)
            <4>1. PICK m \in Found(t) :
                     /\ root' = [root EXCEPT ![key[t]] = (@ \ {m}) \cup {Rewritten(t, m)}]
                     /\ spare' = spare \cup {m.value}
                BY <3>2 DEF SetReplace
            <4>2. m \in NodeOf /\ Rewritten(t, m) \in NodeOf
                BY <2>1 DEF Found, Rewritten, IInv, TypeOK, NodeOf
            <4> QED
                BY <3>2, <4>1, <4>2 DEF SetReplace, IInv, TypeOK, NodeOf
        <3>3. CASE SetNotFound(t)
            BY <3>3 DEF SetNotFound, IInv, TypeOK
        <3> QED
            BY <1>2, <3>1, <3>2, <3>3 DEF SetSearch
    <2>3. pc' = [pc EXCEPT ![t] = "out"] \/ pc' = [pc EXCEPT ![t] = "set_lock"]
        BY <1>2 DEF SetSearch, SetRefused, SetReplace, SetNotFound
    <2>4. /\ holds' = [holds EXCEPT ![t] = "none"]
          /\ UNCHANGED <<count, size, block, key, kt, arg, known, answer>>
        BY <1>2 DEF SetSearch, Unlock
    <2>5. TypeOK'
        BY <2>2, <2>3, <2>4 DEF IInv, TypeOK
    <2>6. LockInv'
        BY <2>3, <2>4 DEF IInv, TypeOK, LockInv
    <2>7. PointerInv'
        BY <2>3, <2>4 DEF IInv, TypeOK, PointerInv
    <2>8. KeyInv'
        BY <2>1, <2>2, <2>3, <2>4 DEF IInv, TypeOK, KeyInv, Storing
    <2> QED
        BY <2>5, <2>6, <2>7, <2>8 DEF IInv
<1>5. CASE SetNoMemory(t)
    BY <1>5 DEF SetNoMemory, IInv, TypeOK, LockInv, PointerInv, KeyInv, Storing, Key
<1>3. CASE SetRelock(t)
    BY <1>3 DEF SetRelock, Regotten, WriteLock, IInv, TypeOK, LockInv, PointerInv, KeyInv, Storing, Key
<1>4. CASE SetInsert(t)
    <2>1. [tid |-> t, value |-> arg[t]] \in NodeOf
        BY <1>4 DEF SetInsert, IInv, KeyInv, Storing, NodeOf
    <2>2. TypeOK'
        BY <1>4, <2>1 DEF SetInsert, Unlock, IInv, TypeOK
    <2> QED
        BY <1>4, <2>2 DEF SetInsert, Unlock, IInv, TypeOK, LockInv, PointerInv, KeyInv, Storing, Key
<1> QED
    BY <1>1, <1>2, <1>3, <1>4, <1>5 DEF Set

LEMMA DestroyStep ==
    ASSUME IInv, Destroy
    PROVE  IInv'
<1>1. \A k \in known : Destroyed(k) \subseteq Value
    BY DEF Destroyed, Values, IInv, TypeOK, NodeOf
<1>2. spare' \subseteq Value /\ root' \in [Key -> SUBSET NodeOf]
    BY <1>1 DEF Destroy, IInv, TypeOK
<1> QED
    BY <1>2 DEF Destroy, IInv, TypeOK, LockInv, PointerInv, KeyInv, Storing, Key,
                array, locals

LEMMA NextIInv ==
    ASSUME OneCreator, IInv, [Next]_vars
    PROVE  IInv'
<1>1. CASE UNCHANGED vars
    BY <1>1 DEF vars, array, slots, locals, client, IInv, TypeOK, LockInv, PointerInv,
                KeyInv, Storing
<1> QED
    BY <1>1, CreateStep, DeleteStep, GetStep, SetStep, DestroyStep DEF Next

THEOREM Invariance ==
    ASSUME OneCreator
    PROVE  Spec => []IInv
<1>1. IInv /\ [Next]_vars => IInv'
    BY NextIInv
<1> QED
    BY <1>1, InitIInv, PTL DEF Spec

\* Variables keep their types; array_size never wraps and never falls behind
\* nodes_count.
THEOREM TypeCorrect ==
    ASSUME OneCreator
    PROVE  Spec => []TypeOK
<1>1. IInv => TypeOK
    BY DEF IInv
<1> QED
    BY Invariance, <1>1, PTL

\* No call reads or writes a slot that is not there or has not been written.
THEOREM SlotsAreThere ==
    ASSUME OneCreator
    PROVE  Spec => []UsesItsSlot
<1>1. IInv => UsesItsSlot
    BY DEF IInv, TypeOK, PointerInv, KeyInv, UsesItsSlot, InArray, Key
<1> QED
    BY Invariance, <1>1, PTL
-----------------------------------------------------------------------------
\* Ownership is a matter of the nodes, the spare values and the arguments of
\* the calls that are storing.
LEMMA QuietStep ==
    ASSUME OneOwner, root' = root, spare' = spare, arg' = arg,
           \A t \in Thread : Storing(t)' => Storing(t)
    PROVE  OneOwner'
    BY DEF OneOwner, Values

\* Nodes that go away and the values that come back from them.
LEMMA NodesGo ==
    ASSUME OneOwner, NEW S \in SUBSET Key, arg' = arg,
           \A t \in Thread : Storing(t)' => Storing(t),
           \A k \in Key : root'[k] = IF k \in S THEN {} ELSE root[k],
           spare' \subseteq spare \cup UNION {Values(k) : k \in S}
    PROVE  OneOwner'
<1>1. \A k, l \in Key : \A m \in root'[k], n \in root'[l] :
          m.value = n.value => k = l /\ m = n
    BY DEF OneOwner
<1>2. \A k \in Key : spare' \cap Values(k)' = {}
    BY DEF OneOwner, Values
<1>3. \A t \in Thread : Storing(t)' =>
          /\ arg[t] \notin spare'
          /\ \A k \in Key : arg[t] \notin Values(k)'
          /\ \A u \in Thread : Storing(u)' /\ arg[u] = arg[t] => u = t
    BY DEF OneOwner, Values
<1> QED
    BY <1>1, <1>2, <1>3 DEF OneOwner

LEMMA OwnerCreate ==
    ASSUME IInv, OneOwner, NEW t \in Thread, Create(t)
    PROVE  OneOwner'
<1> USE DEF array, slots, locals, client, Goto
<1>1. CASE CreateTest(t) \/ CreateLock(t) \/ CreateNoMemory(t) \/ CreateTake(t)
    <2>1. root' = root /\ spare' = spare /\ arg' = arg
        BY <1>1 DEF CreateTest, CreateLock, CreateNoMemory, CreateTake
    <2>2. \A u \in Thread : Storing(u)' => Storing(u)
        BY <1>1 DEF CreateTest, CreateLock, CreateNoMemory, CreateTake, Storing, IInv, TypeOK
    <2> QED
        BY <2>1, <2>2, QuietStep
<1>2. CASE CreateInit(t)
    <2>1. \A u \in Thread : Storing(u)' => Storing(u)
        BY <1>2 DEF CreateInit, Storing, IInv, TypeOK
    <2>2. arg' = arg /\ spare' = spare
        BY <1>2 DEF CreateInit
    <2>3. CASE InArray(t)
        <3>1. \A k \in Key : root'[k] = IF k \in {key[t]} THEN {} ELSE root[k]
            BY <1>2, <2>3 DEF CreateInit, IInv, TypeOK
        <3>2. {key[t]} \in SUBSET Key
            BY DEF IInv, TypeOK
        <3> QED
            BY <2>1, <2>2, <3>1, <3>2, NodesGo
    <2>4. CASE ~InArray(t)
        <3>1. root' = root
            BY <1>2, <2>4 DEF CreateInit, IInv, TypeOK
        <3> QED
            BY <2>1, <2>2, <3>1, QuietStep
    <2> QED
        BY <2>3, <2>4
<1> QED
    BY <1>1, <1>2 DEF Create

LEMMA OwnerDelete ==
    ASSUME IInv, OneOwner, NEW t \in Thread, Delete(t)
    PROVE  OneOwner'
<1> USE DEF array, slots, locals, client, Goto
<1>1. arg' = arg /\ \A u \in Thread : Storing(u)' => Storing(u)
    BY DEF Delete, DeleteTest, DeleteLock, DeleteBody, Storing, IInv, TypeOK
<1>2. CASE root' = root /\ spare' = spare
    BY <1>1, <1>2, QuietStep
<1>3. CASE /\ spare' = spare \cup Destroyed(key[t])
           /\ root' = [root EXCEPT ![key[t]] = {}]
    <2>1. \A k \in Key : root'[k] = IF k \in {key[t]} THEN {} ELSE root[k]
        BY <1>3 DEF IInv, TypeOK
    <2>2. {key[t]} \in SUBSET Key /\ Destroyed(key[t]) \subseteq Values(key[t])
        BY DEF IInv, TypeOK, Destroyed
    <2>3. spare' \subseteq spare \cup UNION {Values(k) : k \in {key[t]}}
        BY <1>3, <2>2
    <2> QED
        BY <1>1, <2>1, <2>2, <2>3, NodesGo
<1> QED
    BY <1>2, <1>3 DEF Delete, DeleteTest, DeleteLock, DeleteBody

LEMMA OwnerGet ==
    ASSUME IInv, OneOwner, NEW t \in Thread, Get(t)
    PROVE  OneOwner'
<1>1. root' = root /\ spare' = spare /\ arg' = arg
    BY DEF Get, GetLock, GetBody, GetValue, array, slots, locals, client
<1>2. \A u \in Thread : Storing(u)' => Storing(u)
    BY DEF Get, GetLock, GetBody, GetValue, Goto, Storing, IInv, TypeOK
<1> QED
    BY <1>1, <1>2, QuietStep

\* A call takes a spare value and leaves it in a node, or gives it back.
LEMMA OwnerSet ==
    ASSUME IInv, OneOwner, NEW t \in Thread, Set(t)
    PROVE  OneOwner'
<1> USE DEF array, slots, locals, client, Goto
<1>1. CASE SetLock(t)
    <2>1. PICK v \in spare : arg' = [arg EXCEPT ![t] = v] /\ spare' = spare \ {v}
        BY <1>1 DEF SetLock
    <2>2. root' = root /\ pc' = [pc EXCEPT ![t] = "set_search"]
        BY <1>1 DEF SetLock
    <2>3. \A k \in Key : v \notin Values(k) /\ Values(k)' = Values(k)
        BY <2>2 DEF OneOwner, Values
    <2>4. \A u \in Thread \ {t} : /\ Storing(u)' <=> Storing(u)
                                  /\ arg'[u] = arg[u]
                                  /\ Storing(u) => arg[u] # v
        BY <2>1, <2>2 DEF Storing, OneOwner, IInv, TypeOK
    <2>5. arg'[t] = v
        BY <2>1 DEF IInv, TypeOK
    <2> QED
        BY <2>1, <2>2, <2>3, <2>4, <2>5 DEF OneOwner
<1>2. CASE SetSearch(t)
    <2>1. /\ pc[t] = "set_search" /\ Storing(t) /\ arg' = arg /\ key[t] \in Key
          /\ \A u \in Thread \ {t} : Storing(u)' <=> Storing(u)
        BY <1>2 DEF SetSearch, SetRefused, SetReplace, SetNotFound, Storing, IInv, TypeOK
    <2>2. CASE SetRefused(t)
        <3>1. /\ ~Storing(t)' /\ root' = root /\ spare' = spare \cup {arg[t]}
              /\ \A k \in Key : Values(k)' = Values(k)
            BY <1>2, <2>2 DEF SetRefused, Storing, Values, IInv, TypeOK
        <3> QED
            BY <2>1, <3>1 DEF OneOwner
    <2>3. CASE SetReplace(t)
        <3>1. PICK m \in Found(t) :
                 /\ root' = [root EXCEPT ![key[t]] = (@ \ {m}) \cup {Rewritten(t, m)}]
                 /\ spare' = spare \cup {m.value}
            BY <2>3 DEF SetReplace
        <3>2. /\ m \in root[key[t]] /\ m \in NodeOf /\ Rewritten(t, m).value = arg[t]
              /\ ~Storing(t)'
            BY <2>1, <2>3 DEF Found, Rewritten, NodeOf, SetReplace, Storing, IInv, TypeOK
        <3>3. \A k \in Key : \A n \in root'[k] :
                 \/ n \in root[k] /\ (k # key[t] \/ n # m)
                 \/ k = key[t] /\ n = Rewritten(t, m)
            BY <2>1, <3>1 DEF IInv, TypeOK
        <3>4. \A k \in Key : \A n \in root[k] : /\ n.value # arg[t]
                                                /\ n.value \notin spare
            BY <2>1 DEF OneOwner, Values
        <3>5. \A k, l \in Key : \A x \in root'[k], y \in root'[l] :
                 x.value = y.value => k = l /\ x = y
            BY <3>2, <3>3, <3>4 DEF OneOwner
        <3>6. \A k \in Key : \A n \in root'[k] : n.value # m.value /\ n.value \notin spare
            BY <2>1, <3>2, <3>3, <3>4 DEF OneOwner
        <3>7. \A u \in Thread : Storing(u)' =>
                 /\ arg[u] \notin spare /\ arg[u] # m.value
                 /\ \A k \in Key : \A n \in root'[k] : n.value # arg[u]
                 /\ \A w \in Thread : Storing(w)' /\ arg[w] = arg[u] => w = u
            BY <2>1, <3>2, <3>3 DEF OneOwner, Values
        <3> QED
            BY <2>1, <3>1, <3>5, <3>6, <3>7 DEF OneOwner, Values
    <2>4. CASE SetNotFound(t)
        <3>1. root' = root /\ spare' = spare
            BY <2>4 DEF SetNotFound
        <3> QED
            BY <2>1, <3>1, QuietStep
    <2> QED
        BY <1>2, <2>2, <2>3, <2>4 DEF SetSearch
<1>3. CASE SetRelock(t) \/ SetNoMemory(t)
    <2>1. root' = root /\ spare' = spare /\ arg' = arg
        BY <1>3 DEF SetRelock, SetNoMemory
    <2>2. \A u \in Thread : Storing(u)' => Storing(u)
        BY <1>3 DEF SetRelock, SetNoMemory, Storing, IInv, TypeOK
    <2> QED
        BY <2>1, <2>2, QuietStep
<1>4. CASE SetInsert(t)
    <2>1. /\ Storing(t) /\ ~Storing(t)' /\ arg' = arg /\ spare' = spare /\ key[t] \in Key
          /\ \A u \in Thread \ {t} : Storing(u)' <=> Storing(u)
        BY <1>4 DEF SetInsert, Storing, IInv, TypeOK
    <2>2. \A k \in Key : \A n \in root'[k] :
             \/ n \in root[k]
             \/ k = key[t] /\ n = [tid |-> t, value |-> arg[t]]
        BY <1>4, <2>1 DEF SetInsert, IInv, TypeOK
    <2>3. \A k \in Key : \A n \in root[k] : n.value # arg[t]
        BY <2>1 DEF OneOwner, Values
    <2>4. \A k, l \in Key : \A x \in root'[k], y \in root'[l] :
             x.value = y.value => k = l /\ x = y
        BY <2>2, <2>3 DEF OneOwner
    <2>5. \A k \in Key : \A n \in root'[k] : n.value \notin spare
        BY <2>1, <2>2 DEF OneOwner, Values
    <2>6. \A u \in Thread : Storing(u)' =>
             /\ arg[u] \notin spare
             /\ \A k \in Key : \A n \in root'[k] : n.value # arg[u]
             /\ \A w \in Thread : Storing(w)' /\ arg[w] = arg[u] => w = u
        BY <2>1, <2>2 DEF OneOwner, Values
    <2> QED
        BY <2>1, <2>4, <2>5, <2>6 DEF OneOwner, Values
<1> QED
    BY <1>1, <1>2, <1>3, <1>4 DEF Set

LEMMA OwnerDestroy ==
    ASSUME IInv, OneOwner, Destroy
    PROVE  OneOwner'
<1>1. arg' = arg /\ \A u \in Thread : Storing(u)' => Storing(u)
    BY DEF Destroy, locals, Storing
<1> DEFINE S == {k \in Key : k < count}
<1>2. \A k \in Key : root'[k] = IF k \in S THEN {} ELSE root[k]
    BY DEF Destroy
<1>3. known \subseteq S
    BY DEF IInv, TypeOK, KeyInv
<1>4. spare' \subseteq spare \cup UNION {Values(k) : k \in S}
    BY <1>3 DEF Destroy, Destroyed
<1>5. S \in SUBSET Key
    OBVIOUS
<1> HIDE DEF S
<1> QED
    BY <1>1, <1>2, <1>4, <1>5, NodesGo

\* No value is destroyed twice, or while a thread can still read it, whatever
\* the interleaving of storing, deleting and destroying.
THEOREM ValuesHaveOneOwner ==
    ASSUME OneCreator
    PROVE  Spec => []OneOwner
<1>1. Init => OneOwner
    BY DEF Init, OneOwner, Values, Storing
<1>2. IInv /\ OneOwner /\ [Next]_vars => OneOwner'
    <2>1. CASE UNCHANGED vars
        BY <2>1, QuietStep DEF vars, slots, locals, client, Storing
    <2> QED
        BY <2>1, OwnerCreate, OwnerDelete, OwnerGet, OwnerSet, OwnerDestroy DEF Next
<1> QED
    BY <1>1, <1>2, Invariance, PTL DEF Spec
-----------------------------------------------------------------------------
\* A slot is written once, a written slot has at most one node of each thread,
\* and a thread that goes for the exclusive lock has none.
NodeInv ==
    /\ \A k \in Key : k >= count => state[k] = "unwritten"
    /\ \A k \in Key : state[k] = "unwritten" => root[k] = {}
    /\ \A k \in Key : \A m, n \in root[k] : m.tid = n.tid => m = n
    /\ \A t \in Thread :
          /\ pc[t] = "create_init" => state[key[t]] = "unwritten"
          /\ pc[t] \in {"set_lock", "set_insert"} => \A m \in root[key[t]] : m.tid # t

\* A step of t that changes no slot, and no key but t's.
Quiet(t) ==
    /\ UNCHANGED <<state, root, count>>
    /\ \A u \in Thread \ {t} : key'[u] = key[u] /\ pc'[u] = pc[u]
    /\ pc'[t] # "create_init"
    /\ pc'[t] \in {"set_lock", "set_insert"} =>
          key'[t] = key[t] /\ pc[t] \in {"set_lock", "set_insert"}

LEMMA NodeQuiet ==
    ASSUME NodeInv, NEW t \in Thread, Quiet(t)
    PROVE  NodeInv'
<1>1. \A u \in Thread : pc'[u] = "create_init" => pc[u] = "create_init" /\ key'[u] = key[u]
    BY DEF Quiet
<1>2. \A u \in Thread : pc'[u] \in {"set_lock", "set_insert"} =>
         pc[u] \in {"set_lock", "set_insert"} /\ key'[u] = key[u]
    BY DEF Quiet
<1> QED
    BY <1>1, <1>2 DEF NodeInv, Quiet

LEMMA NodeCreate ==
    ASSUME OneCreator, IInv, NodeInv, NEW t \in Thread, Create(t)
    PROVE  NodeInv'
<1> USE DEF array, slots, locals, client, Goto
<1>1. CASE CreateTest(t) \/ CreateLock(t) \/ CreateNoMemory(t)
    <2>1. Quiet(t)
        BY <1>1 DEF CreateTest, CreateLock, CreateNoMemory, Quiet, IInv, TypeOK
    <2> QED
        BY <2>1, NodeQuiet
<1>2. CASE CreateTake(t)
    <2>1. /\ count' = count + 1 /\ UNCHANGED <<state, root>> /\ count \in Key
          /\ key'[t] = count /\ pc'[t] = "create_init"
          /\ \A u \in Thread \ {t} : key'[u] = key[u] /\ pc'[u] = pc[u]
        BY <1>2 DEF CreateTake, IInv, TypeOK, Key
    <2>2. \A k \in Key : k >= count' => k >= count
        BY <2>1 DEF Key
    <2>3. \A u \in Thread : pc'[u] \in {"set_lock", "set_insert"} => u # t
        BY <2>1
    <2>4. state[count] = "unwritten"
        BY <2>1 DEF NodeInv, Key
    <2> QED
        BY <2>1, <2>2, <2>3, <2>4 DEF NodeInv
<1>3. CASE CreateInit(t)
    <2>1. /\ InArray(t) /\ key[t] \in Key /\ key[t] < count /\ pc[t] = "create_init"
        BY <1>3 DEF CreateInit, InArray, IInv, TypeOK, PointerInv, Key
    <2>2. /\ state' = [state EXCEPT ![key[t]] = "live"]
          /\ root' = [root EXCEPT ![key[t]] = {}]
          /\ UNCHANGED <<count, key>>
          /\ pc' = [pc EXCEPT ![t] = "out"]
        BY <1>3, <2>1 DEF CreateInit
    <2>3. \A u \in Thread \ {t} : pc[u] # "create_init"
        BY <2>1 DEF IInv, PointerInv, OneCreator
    <2>4. \A k \in Key : /\ root'[k] = IF k = key[t] THEN {} ELSE root[k]
                         /\ state'[k] = IF k = key[t] THEN "live" ELSE state[k]
        BY <2>1, <2>2 DEF IInv, TypeOK
    <2>5. \A u \in Thread : key[u] \in Key /\ pc'[u] = IF u = t THEN "out" ELSE pc[u]
        BY <2>2 DEF IInv, TypeOK
    <2>6. \A k \in Key : k >= count => k # key[t]
        BY <2>1 DEF IInv, TypeOK, Key
    <2> QED
        BY <2>2, <2>3, <2>4, <2>5, <2>6 DEF NodeInv
<1> QED
    BY <1>1, <1>2, <1>3 DEF Create

LEMMA NodeDelete ==
    ASSUME IInv, NodeInv, NEW t \in Thread, Delete(t)
    PROVE  NodeInv'
<1> USE DEF array, slots, locals, client, Goto
<1>1. CASE DeleteTest(t) \/ DeleteLock(t)
    <2>1. Quiet(t)
        BY <1>1 DEF DeleteTest, DeleteLock, Quiet, IInv, TypeOK
    <2> QED
        BY <2>1, NodeQuiet
<1>2. CASE DeleteBody(t)
    <2>1. CASE root[key[t]] = {}
        <3>1. Quiet(t)
            BY <1>2, <2>1 DEF DeleteBody, Quiet, IInv, TypeOK
        <3> QED
            BY <3>1, NodeQuiet
    <2>2. CASE root[key[t]] # {}
        <3>1. /\ root' = [root EXCEPT ![key[t]] = {}]
              /\ state' = [state EXCEPT ![key[t]] = "gone"]
              /\ UNCHANGED <<count, key>> /\ key[t] \in Key
              /\ pc' = [pc EXCEPT ![t] = "out"] /\ key[t] \in known
            BY <1>2, <2>2 DEF DeleteBody, IInv, TypeOK, KeyInv
        <3>2. \A k \in Key : /\ root'[k] = IF k = key[t] THEN {} ELSE root[k]
                             /\ state'[k] = IF k = key[t] THEN "gone" ELSE state[k]
            BY <3>1 DEF IInv, TypeOK
        <3>3. \A u \in Thread : key[u] \in Key /\ pc'[u] = IF u = t THEN "out" ELSE pc[u]
            BY <3>1 DEF IInv, TypeOK
        <3>4. state[key[t]] # "unwritten"
            BY <3>1 DEF IInv, KeyInv
        <3> QED
            BY <3>1, <3>2, <3>3, <3>4 DEF NodeInv
    <2> QED
        BY <2>1, <2>2
<1> QED
    BY <1>1, <1>2 DEF Delete

LEMMA NodeSet ==
    ASSUME IInv, NodeInv, NEW t \in Thread, Set(t)
    PROVE  NodeInv'
<1> USE DEF array, slots, locals, client, Goto
<1>1. CASE SetLock(t) \/ SetRelock(t) \/ SetNoMemory(t)
    <2>1. Quiet(t)
        BY <1>1 DEF SetLock, SetRelock, SetNoMemory, Quiet, IInv, TypeOK
    <2> QED
        BY <2>1, NodeQuiet
<1>2. CASE SetSearch(t)
    <2>1. /\ key[t] \in Key /\ UNCHANGED <<count, key>> /\ key[t] \in known
          /\ \A u \in Thread \ {t} : pc'[u] = pc[u]
        BY <1>2 DEF SetSearch, SetRefused, SetReplace, SetNotFound, IInv, TypeOK, KeyInv
    <2>2. CASE SetRefused(t)
        <3>1. Quiet(t)
            BY <1>2, <2>1, <2>2 DEF SetRefused, Quiet, IInv, TypeOK
        <3> QED
            BY <3>1, NodeQuiet
    <2>3. CASE SetReplace(t)
        <3>1. PICK m \in Found(t) :
                 root' = [root EXCEPT ![key[t]] = (@ \ {m}) \cup {Rewritten(t, m)}]
            BY <2>3 DEF SetReplace
        <3>2. /\ m \in root[key[t]] /\ m.tid = t /\ Rewritten(t, m).tid = t
              /\ state' = state /\ pc'[t] = "out"
            BY <2>1, <2>3 DEF Found, Mine, Rewritten, NodeOf, SetReplace, IInv, TypeOK
        <3>3. \A k \in Key : \A n \in root'[k] :
                 \/ n \in root[k] /\ (k # key[t] \/ n.tid # t)
                 \/ k = key[t] /\ n = Rewritten(t, m)
            BY <2>1, <3>1, <3>2 DEF IInv, TypeOK, NodeInv
        <3>4. \A k \in Key : \A x, y \in root'[k] : x.tid = y.tid => x = y
            BY <3>2, <3>3 DEF NodeInv
        <3>5. \A k \in Key : state[k] = "unwritten" => root'[k] = {}
            BY <2>1, <3>3 DEF NodeInv, IInv, KeyInv
        <3>6. \A u \in Thread : pc'[u] = "create_init" => state[key[u]] = "unwritten"
            BY <2>1, <3>2 DEF NodeInv
        <3>7. \A u \in Thread : pc'[u] \in {"set_lock", "set_insert"} =>
                 \A n \in root'[key[u]] : n.tid # u
            BY <2>1, <3>2, <3>3 DEF NodeInv, IInv, TypeOK
        <3> QED
            BY <2>1, <3>2, <3>4, <3>5, <3>6, <3>7 DEF NodeInv
    <2>4. CASE SetNotFound(t)
        <3>1. pc'[t] = "set_lock" /\ UNCHANGED <<state, root>> /\ \A m \in root[key[t]] : m.tid # t
            BY <2>4 DEF SetNotFound, Found, Mine, IInv, TypeOK
        <3> QED
            BY <2>1, <3>1 DEF NodeInv
    <2> QED
        BY <1>2, <2>2, <2>3, <2>4 DEF SetSearch
<1>3. CASE SetInsert(t)
    <2>1. /\ key[t] \in Key /\ UNCHANGED <<count, key, state>> /\ key[t] \in known
          /\ \A u \in Thread \ {t} : pc'[u] = pc[u]
          /\ pc'[t] = "out" /\ pc[t] = "set_insert"
        BY <1>3 DEF SetInsert, IInv, TypeOK, KeyInv
    <2>2. \A k \in Key : \A n \in root'[k] :
             \/ n \in root[k]
             \/ k = key[t] /\ n = [tid |-> t, value |-> arg[t]]
        BY <1>3, <2>1 DEF SetInsert, IInv, TypeOK
    <2>3. \A k \in Key : \A x, y \in root'[k] : x.tid = y.tid => x = y
        BY <2>1, <2>2 DEF NodeInv
    <2>4. \A k \in Key : state[k] = "unwritten" => root'[k] = {}
        BY <2>1, <2>2 DEF NodeInv, IInv, KeyInv
    <2>5. \A u \in Thread : pc'[u] \in {"set_lock", "set_insert"} =>
             \A n \in root'[key[u]] : n.tid # u
        BY <2>1, <2>2 DEF NodeInv, IInv, TypeOK
    <2> QED
        BY <2>1, <2>3, <2>4, <2>5 DEF NodeInv
<1> QED
    BY <1>1, <1>2, <1>3 DEF Set

LEMMA NodeStep ==
    ASSUME OneCreator, IInv, NodeInv, [Next]_vars
    PROVE  NodeInv'
<1> USE DEF array, slots, locals, client
<1>1. CASE UNCHANGED vars
    BY <1>1 DEF vars, NodeInv
<1>2. CASE Destroy
    <2>1. /\ \A t \in Thread : pc[t] = "out"
          /\ UNCHANGED <<state, pc, key, count>>
          /\ \A k \in Key : root'[k] = IF k < count THEN {} ELSE root[k]
        BY <1>2 DEF Destroy
    <2> QED
        BY <2>1 DEF NodeInv
<1>3. ASSUME NEW t \in Thread, Get(t)
      PROVE  NodeInv'
    <2>1. Quiet(t)
        BY <1>3 DEF Get, GetLock, GetBody, GetValue, Goto, Quiet, IInv, TypeOK
    <2> QED
        BY <1>3, <2>1, NodeQuiet
<1> QED
    BY <1>1, <1>2, <1>3, NodeCreate, NodeDelete, NodeSet DEF Next

LEMMA NodeInit == Init => NodeInv
BY DEF Init, NodeInv, Key
\* The node that a thread has found is there until the key is deleted.
ReadInv ==
    \A t \in Thread : pc[t] = "get_value" =>
        state[key[t]] = "gone" \/ \E m \in root[key[t]] : m.tid = t

LEMMA ReadStep ==
    ASSUME IInv, NodeInv, ReadInv, [Next]_vars
    PROVE  ReadInv'
<1> USE DEF array, slots, locals, client, Goto
<1> SUFFICES ASSUME NEW u \in Thread, pc'[u] = "get_value"
             PROVE  state'[key'[u]] = "gone" \/ \E m \in root'[key'[u]] : m.tid = u
    BY DEF ReadInv
<1>1. CASE UNCHANGED vars
    BY <1>1 DEF vars, ReadInv
<1>2. CASE Destroy
    BY <1>2 DEF Destroy
<1>3. CASE GetBody(u)
    BY <1>3 DEF GetBody, Found, Mine, IInv, TypeOK
<1>4. ASSUME NEW t \in Thread, Create(t) \/ Delete(t) \/ Get(t) \/ Set(t), ~GetBody(u)
      PROVE  state'[key'[u]] = "gone" \/ \E m \in root'[key'[u]] : m.tid = u
    <2>1. t # u /\ pc[u] = "get_value" /\ key'[u] = key[u]
        <3> USE DEF IInv, TypeOK
        <3>1. CASE Create(t)
            BY <3>1 DEF Create, CreateTest, CreateLock, CreateNoMemory, CreateTake, CreateInit
        <3>2. CASE Delete(t)
            BY <3>2 DEF Delete, DeleteTest, DeleteLock, DeleteBody
        <3>3. CASE Set(t)
            BY <3>3 DEF Set, SetLock, SetSearch, SetRefused, SetReplace, SetNotFound,
                        SetNoMemory, SetRelock, SetInsert
        <3>4. CASE Get(t)
            BY <1>4, <3>4 DEF Get, GetLock, GetBody, GetValue
        <3> QED
            BY <1>4, <3>1, <3>2, <3>3, <3>4
    <2>2. /\ key[u] \in Key /\ state[key[u]] # "unwritten"
          /\ state[key[u]] = "gone" \/ \E m \in root[key[u]] : m.tid = u
        BY <2>1 DEF ReadInv, IInv, TypeOK, KeyInv
    <2>3. CASE root' = root /\ state' = state
        BY <2>1, <2>2, <2>3
    <2>4. CASE CreateInit(t)
        <3>1. key[t] # key[u]
            BY <2>2, <2>4 DEF CreateInit, NodeInv
        <3>2. root'[key[u]] = root[key[u]] /\ state'[key[u]] = state[key[u]]
            BY <2>4, <3>1, <2>2 DEF CreateInit, IInv, TypeOK
        <3> QED
            BY <2>1, <2>2, <3>2
    <2>5. CASE DeleteBody(t)
        BY <2>1, <2>2, <2>5 DEF DeleteBody, IInv, TypeOK
    <2>6. CASE SetReplace(t)
        <3>1. PICK m \in Found(t) :
                 root' = [root EXCEPT ![key[t]] = (@ \ {m}) \cup {Rewritten(t, m)}]
            BY <2>6 DEF SetReplace
        <3>2. state' = state /\ m.tid = t
            BY <2>6 DEF SetReplace, Found, Mine
        <3>3. \A n \in root[key[u]] : n.tid = u => n \in root'[key[u]]
            BY <2>1, <2>2, <3>1, <3>2 DEF IInv, TypeOK
        <3> QED
            BY <2>1, <2>2, <3>2, <3>3
    <2>7. CASE SetInsert(t)
        <3>1. state' = state /\ \A n \in root[key[u]] : n \in root'[key[u]]
            BY <2>2, <2>7 DEF SetInsert, IInv, TypeOK
        <3> QED
            BY <2>1, <2>2, <3>1
    <2> QED
        BY <1>4, <2>3, <2>4, <2>5, <2>6, <2>7
        DEF Create, CreateTest, CreateLock, CreateNoMemory, CreateTake,
            Delete, DeleteTest, DeleteLock, Get, GetLock, GetBody, GetValue,
            Set, SetLock, SetSearch, SetRefused, SetNotFound, SetNoMemory, SetRelock
<1> QED
    BY <1>1, <1>2, <1>3, <1>4 DEF Next
-----------------------------------------------------------------------------
\* The state of the abstract store, as Tls maps it.
Made == {k \in Key : state[k] # "unwritten"}
Dead == {k \in Key : state[k] = "gone"}
Stored == [t \in Thread |-> [k \in Key |-> ValueOf(t, k)]]
Reading == {<<t, key[t]>> : t \in {u \in Thread : pc[u] = "get_value"}}

\* The node of t under k, as a set, and the value it stands for.
Own(t, k) == {m \in root[k] : m.tid = t}

ValueIn(own, s) ==
    IF own = {} \/ s = "gone" THEN NULL ELSE (CHOOSE m \in own : TRUE).value

LEMMA ValueCases ==
    ASSUME NEW t, NEW k
    PROVE  /\ ValueOf(t, k) = ValueIn(Own(t, k), state[k])
           /\ ValueOf(t, k)' = ValueIn(Own(t, k)', state'[k])
BY DEF ValueOf, Own, ValueIn

LEMMA SameValue ==
    ASSUME NEW t, NEW k, Own(t, k)' = Own(t, k), state'[k] = state[k]
    PROVE  ValueOf(t, k)' = ValueOf(t, k)
BY ValueCases

LEMMA NoValue ==
    ASSUME NEW t, NEW k
    PROVE  /\ Own(t, k) = {} \/ state[k] = "gone" => ValueOf(t, k) = NULL
           /\ Own(t, k)' = {} \/ state'[k] = "gone" => ValueOf(t, k)' = NULL
BY DEF ValueOf, Own

\* The readings are those of the threads that have found a value; a step of a
\* thread that neither begins nor ends one leaves them as they are.
LEMMA ReadingIs ==
    /\ \A u, k : <<u, k>> \in Reading <=> u \in Thread /\ pc[u] = "get_value" /\ k = key[u]
    /\ \A x \in Reading : \E u \in Thread : x = <<u, key[u]>> /\ pc[u] = "get_value"
BY DEF Reading

LEMMA SameReading ==
    ASSUME NEW t \in Thread, pc[t] # "get_value", pc'[t] # "get_value",
           \A u \in Thread \ {t} : pc'[u] = pc[u] /\ key'[u] = key[u]
    PROVE  Reading' = Reading
BY DEF Reading

\* A thread that is not reading has no reading under any key.
LEMMA NotReading ==
    ASSUME NEW t \in Thread, pc[t] # "get_value"
    PROVE  Abstract!Idle(t)
BY DEF Abstract!Idle

\* A step that changes neither slots nor answers nor readings is not seen.
LEMMA NotSeen ==
    ASSUME UNCHANGED <<slots, answer>>, Reading' = Reading
    PROVE  UNCHANGED <<Made, Dead, Stored, Reading, answer>>
BY DEF slots, Made, Dead, Stored, ValueOf

\* The steps outside M_tls_get.
LEMMA OthersDoNotRead ==
    ASSUME IInv, NEW t \in Thread, Create(t) \/ Delete(t) \/ Set(t) \/ GetLock(t)
    PROVE  Reading' = Reading
<1>1. /\ pc[t] # "get_value" /\ pc'[t] # "get_value"
      /\ \A u \in Thread \ {t} : pc'[u] = pc[u] /\ key'[u] = key[u]
    <2> USE DEF array, slots, locals, client, Goto, IInv, TypeOK
    <2>1. CASE Create(t)
        BY <2>1 DEF Create, CreateTest, CreateLock, CreateNoMemory, CreateTake, CreateInit
    <2>2. CASE Delete(t)
        BY <2>2 DEF Delete, DeleteTest, DeleteLock, DeleteBody
    <2>3. CASE Set(t)
        BY <2>3 DEF Set, SetLock, SetSearch, SetRefused, SetReplace, SetNotFound,
                    SetNoMemory, SetRelock, SetInsert
    <2>4. CASE GetLock(t)
        BY <2>4 DEF GetLock
    <2> QED
        BY <2>1, <2>2, <2>3, <2>4
<1> QED
    BY <1>1, SameReading

LEMMA CreateMaps ==
    ASSUME OneCreator, IInv, NodeInv, NEW t \in Thread, Create(t)
    PROVE  UNCHANGED <<Made, Dead, Stored, Reading, answer>> \/ \E k \in Key : Abstract!Create(k)
<1>0. Reading' = Reading
    BY OthersDoNotRead
<1> USE DEF array, slots, locals, client, Goto
<1>1. CASE CreateTest(t) \/ CreateLock(t) \/ CreateNoMemory(t) \/ CreateTake(t)
    BY <1>0, <1>1, NotSeen DEF CreateTest, CreateLock, CreateNoMemory, CreateTake
<1>2. CASE CreateInit(t)
    <2>1. InArray(t) /\ key[t] \in Key /\ pc[t] = "create_init"
        BY <1>2 DEF CreateInit, InArray, IInv, TypeOK, PointerInv, Key
    <2>2. /\ \A k \in Key : /\ root'[k] = IF k = key[t] THEN {} ELSE root[k]
                            /\ state'[k] = IF k = key[t] THEN "live" ELSE state[k]
          /\ answer' = answer
        BY <1>2, <2>1 DEF CreateInit, IInv, TypeOK
    <2>3. state[key[t]] = "unwritten" /\ root[key[t]] = {}
        BY <2>1 DEF NodeInv
    <2>4. \A u \in Thread, k \in Key : ValueOf(u, k)' = ValueOf(u, k)
        <3>1. TAKE u \in Thread, k \in Key
        <3>2. CASE k = key[t]
            BY <2>2, <2>3, <3>2, NoValue DEF Own
        <3>3. CASE k # key[t]
            BY <2>2, <3>3, SameValue DEF Own
        <3> QED
            BY <3>2, <3>3
    <2>5. Stored' = Stored
        BY <2>4 DEF Stored
    <2>6. Made' = Made \cup {key[t]} /\ Dead' = Dead /\ key[t] \notin Made
        BY <2>1, <2>2, <2>3 DEF Made, Dead
    <2>7. PICK k \in Key : k = key[t]
        BY <2>1
    <2>8. Abstract!Create(k)
        BY <1>0, <2>2, <2>5, <2>6, <2>7 DEF Abstract!Create, Made, Dead, Stored, Reading
    <2> QED
        BY <2>1, <2>8
<1> QED
    BY <1>1, <1>2 DEF Create

LEMMA DeleteMaps ==
    ASSUME IInv, NEW t \in Thread, Delete(t)
    PROVE  UNCHANGED <<Made, Dead, Stored, Reading, answer>> \/ \E k \in Key : Abstract!Delete(k)
<1>0. Reading' = Reading
    BY OthersDoNotRead
<1> USE DEF array, slots, locals, client, Goto
<1>1. CASE DeleteTest(t) \/ DeleteLock(t)
    BY <1>0, <1>1, NotSeen DEF DeleteTest, DeleteLock
<1>2. CASE DeleteBody(t) /\ root[key[t]] = {}
    BY <1>0, <1>2, NotSeen DEF DeleteBody
<1>3. CASE DeleteBody(t) /\ root[key[t]] # {}
    <2>1. /\ key[t] \in Key /\ state[key[t]] # "unwritten" /\ answer' = answer
          /\ \A k \in Key : /\ root'[k] = IF k = key[t] THEN {} ELSE root[k]
                            /\ state'[k] = IF k = key[t] THEN "gone" ELSE state[k]
        BY <1>3 DEF DeleteBody, IInv, TypeOK, KeyInv
    <2>2. \A u \in Thread, k \in Key :
             ValueOf(u, k)' = IF k = key[t] THEN NULL ELSE ValueOf(u, k)
        <3>1. TAKE u \in Thread, k \in Key
        <3>2. CASE k = key[t]
            BY <2>1, <3>2, NoValue
        <3>3. CASE k # key[t]
            BY <2>1, <3>3, SameValue DEF Own
        <3> QED
            BY <3>2, <3>3
    <2>3. Made' = Made /\ Dead' = Dead \cup {key[t]} /\ key[t] \in Made
        BY <2>1 DEF Made, Dead
    <2>4. CASE state[key[t]] = "gone"
        <3>1. \A u \in Thread : ValueOf(u, key[t]) = NULL
            BY <2>4, NoValue
        <3>2. Stored' = Stored
            BY <2>2, <3>1 DEF Stored
        <3> QED
            BY <1>0, <2>1, <2>3, <2>4, <3>2 DEF Dead
    <2>5. CASE state[key[t]] # "gone"
        <3>1. Stored' = [u \in Thread |-> [Stored[u] EXCEPT ![key[t]] = NULL]]
            BY <2>1, <2>2 DEF Stored
        <3>2. key[t] \in Made \ Dead
            BY <2>3, <2>5 DEF Dead
        <3>3. PICK k \in Key : k = key[t]
            BY <2>1
        <3>4. Abstract!Delete(k)
            BY <1>0, <2>1, <2>3, <3>1, <3>2, <3>3 DEF Abstract!Delete, Made, Dead, Stored, Reading
        <3> QED
            BY <3>4
    <2> QED
        BY <2>4, <2>5
<1> QED
    BY <1>1, <1>2, <1>3 DEF Delete

\* The value that a thread reads is that of its node, if the node is there.
LEMMA OwnValue ==
    ASSUME IInv, NodeInv, NEW t \in Thread, NEW k \in Key, Own(t, k) # {}, state[k] # "gone"
    PROVE  ValueOf(t, k) # NULL /\ {m.value : m \in Own(t, k)} = {ValueOf(t, k)}
<1>1. PICK m \in Own(t, k) : m = CHOOSE n \in Own(t, k) : TRUE
    OBVIOUS
<1>2. \A n \in Own(t, k) : n = m
    BY <1>1 DEF NodeInv, Own
<1>3. m.value \in Value
    BY DEF Own, IInv, TypeOK, NodeOf
<1>4. ValueOf(t, k) = m.value
    BY <1>1 DEF ValueOf, Own
<1> QED
    BY <1>2, <1>3, <1>4, NullIsNoValue

LEMMA GetMaps ==
    ASSUME IInv, NodeInv, ReadInv, NEW t \in Thread, Get(t)
    PROVE  UNCHANGED <<Made, Dead, Stored, Reading, answer>>
             \/ \E k \in Key : Abstract!Find(t, k) \/ Abstract!Read(t, k)
<1> USE DEF array, slots, locals, client, Goto
<1>1. CASE GetLock(t)
    BY <1>1, NotSeen, OthersDoNotRead DEF GetLock
<1>2. CASE GetBody(t)
    <2>1. /\ key[t] \in Key /\ key[t] \in Made /\ UNCHANGED <<state, root, key>>
          /\ pc[t] = "get_body"
        BY <1>2 DEF GetBody, Made, IInv, TypeOK, KeyInv
    <2>2. PICK k \in Key : k = key[t]
        BY <2>1
    <2>3. Found(t) = Own(t, k) /\ Stored[t][k] = ValueOf(t, k)
        BY <2>2 DEF Found, Mine, Own, Stored
    <2>4. UNCHANGED <<Made, Dead, Stored>> /\ Abstract!Idle(t)
        BY <2>1, NotReading DEF Made, Dead, Stored, ValueOf
    <2>5. CASE state[key[t]] = "gone" \/ Found(t) = {}
        <3>1. answer' = [answer EXCEPT ![t] = NULL] /\ pc' = [pc EXCEPT ![t] = "out"]
            BY <1>2, <2>5 DEF GetBody
        <3>2. Reading' = Reading
            BY <2>1, <3>1, SameReading DEF IInv, TypeOK
        <3>3. ValueOf(t, k) = NULL
            BY <2>2, <2>3, <2>5, NoValue
        <3>4. Abstract!Find(t, k)
            BY <2>1, <2>2, <2>3, <2>4, <3>1, <3>2, <3>3
            DEF Abstract!Find, Abstract!Idle, Made, Dead, Stored, Reading
        <3> QED
            BY <3>4
    <2>6. CASE state[key[t]] # "gone" /\ Found(t) # {}
        <3>1. answer' = answer /\ pc' = [pc EXCEPT ![t] = "get_value"]
            BY <1>2, <2>6 DEF GetBody
        <3>2. Reading' = Reading \cup {<<t, k>>}
            BY <2>1, <2>2, <3>1 DEF Reading, IInv, TypeOK
        <3>3. ValueOf(t, k) # NULL
            BY <2>2, <2>3, <2>6, OwnValue
        <3>4. Abstract!Find(t, k)
            BY <2>1, <2>2, <2>3, <2>4, <3>1, <3>2, <3>3
            DEF Abstract!Find, Abstract!Idle, Made, Dead, Stored, Reading
        <3> QED
            BY <3>4
    <2> QED
        BY <2>5, <2>6
<1>3. CASE GetValue(t)
    <2>1. /\ key[t] \in Key /\ UNCHANGED <<state, root, key>>
          /\ pc[t] = "get_value" /\ pc' = [pc EXCEPT ![t] = "out"]
        BY <1>3 DEF GetValue, IInv, TypeOK
    <2>2. PICK k \in Key : k = key[t]
        BY <2>1
    <2>3. Found(t) = Own(t, k) /\ Stored[t][k] = ValueOf(t, k)
        BY <2>2 DEF Found, Mine, Own, Stored
    <2>4. UNCHANGED <<Made, Dead, Stored>>
        BY <2>1 DEF Made, Dead, Stored, ValueOf
    <2>5. <<t, k>> \in Reading /\ Reading' = Reading \ {<<t, k>>}
        BY <2>1, <2>2 DEF Reading, IInv, TypeOK
    <2>6. PICK v \in IF Found(t) = {} THEN Value \cup {NULL}
                                     ELSE {m.value : m \in Found(t)} :
             answer' = [answer EXCEPT ![t] = v]
        BY <1>3 DEF GetValue
    <2>7. v \in IF k \in Dead THEN Value \cup {NULL} ELSE {Stored[t][k]}
        <3>1. \A m \in Found(t) : m.value \in Value
            BY DEF Found, IInv, TypeOK, NodeOf
        <3>2. CASE k \in Dead
            BY <2>6, <3>1, <3>2
        <3>3. CASE k \notin Dead
            <4>1. state[k] # "gone"
                BY <3>3 DEF Dead
            <4>2. Own(t, k) # {}
                BY <2>1, <2>2, <4>1 DEF ReadInv, Own
            <4> QED
                BY <2>3, <2>6, <3>3, <4>1, <4>2, OwnValue
        <3> QED
            BY <3>2, <3>3
    <2>8. Abstract!Read(t, k)
        BY <2>4, <2>5, <2>6, <2>7 DEF Abstract!Read, Made, Dead, Stored, Reading
    <2> QED
        BY <2>8
<1> QED
    BY <1>1, <1>2, <1>3 DEF Get

\* Writing t's own node, and nothing else, is what the abstract store does.
LEMMA OwnWrite ==
    ASSUME NEW t \in Thread, NEW k \in Key, NEW v \in Value, state[k] \notin {"unwritten", "gone"},
           UNCHANGED <<state, answer>>, Reading' = Reading, pc[t] # "get_value",
           \A u \in Thread, l \in Key : l # k \/ u # t => Own(u, l)' = Own(u, l),
           Own(t, k)' # {}, \A m \in Own(t, k)' : m.value = v
    PROVE  Abstract!Set(t, k, v)
<1>1. \A u \in Thread, l \in Key :
         ValueOf(u, l)' = IF u = t /\ l = k THEN v ELSE ValueOf(u, l)
    <2>1. TAKE u \in Thread, l \in Key
    <2>2. CASE u = t /\ l = k
        BY <2>2 DEF ValueOf, Own
    <2>3. CASE ~(u = t /\ l = k)
        BY <2>3, SameValue
    <2> QED
        BY <2>2, <2>3
<1>2. Stored' = [Stored EXCEPT ![t][k] = v]
    BY <1>1 DEF Stored
<1>3. k \in Made \ Dead /\ UNCHANGED <<Made, Dead>>
    BY DEF Made, Dead
<1> QED
    BY <1>2, <1>3, NotReading DEF Abstract!Set, Made, Dead, Stored, Reading

LEMMA SetMaps ==
    ASSUME IInv, NodeInv, NEW t \in Thread, Set(t)
    PROVE  UNCHANGED <<Made, Dead, Stored, Reading, answer>>
             \/ \E k \in Key, v \in Value : Abstract!Set(t, k, v)
<1>0. Reading' = Reading
    BY OthersDoNotRead
<1> USE DEF array, slots, locals, client, Goto
<1>1. CASE SetLock(t) \/ SetRelock(t) \/ SetNoMemory(t)
    BY <1>0, <1>1, NotSeen DEF SetLock, SetRelock, SetNoMemory
<1>2. CASE SetSearch(t)
    <2>1. /\ key[t] \in Key /\ arg[t] \in Value /\ state[key[t]] # "unwritten"
          /\ answer' = answer /\ pc[t] # "get_value"
        BY <1>2 DEF SetSearch, Storing, IInv, TypeOK, KeyInv
    <2>2. CASE SetRefused(t) \/ SetNotFound(t)
        BY <1>0, <2>1, <2>2, NotSeen DEF SetRefused, SetNotFound
    <2>3. CASE SetReplace(t)
        <3>0. PICK k \in Key, v \in Value : k = key[t] /\ v = arg[t]
            BY <2>1
        <3>1. PICK m \in Found(t) :
                 root' = [root EXCEPT ![key[t]] = (@ \ {m}) \cup {Rewritten(t, m)}]
            BY <2>3 DEF SetReplace
        <3>2. /\ m \in root[key[t]] /\ m.tid = t /\ Rewritten(t, m).tid = t
              /\ Rewritten(t, m).value = arg[t]
              /\ state' = state /\ state[key[t]] # "gone"
            BY <2>1, <2>3 DEF Found, Mine, Rewritten, NodeOf, SetReplace, IInv, TypeOK
        <3>3. \A l \in Key : \A n : n \in root'[l] <=>
                 \/ n \in root[l] /\ (l # key[t] \/ n # m)
                 \/ l = key[t] /\ n = Rewritten(t, m)
            BY <2>1, <3>1 DEF IInv, TypeOK
        <3>4. \A n \in root[key[t]] : n.tid = t => n = m
            BY <2>1, <3>2 DEF NodeInv
        <3>5. \A u \in Thread, l \in Key : l # k \/ u # t => Own(u, l)' = Own(u, l)
            BY <3>0, <3>2, <3>3, <3>4 DEF Own
        <3>6. Own(t, k)' # {} /\ \A n \in Own(t, k)' : n.value = v
            BY <3>0, <3>2, <3>3, <3>4 DEF Own
        <3>7. Abstract!Set(t, k, v)
            BY <1>0, <2>1, <3>0, <3>2, <3>5, <3>6, OwnWrite
        <3> QED
            BY <3>7
    <2> QED
        BY <1>2, <2>2, <2>3 DEF SetSearch
<1>3. CASE SetInsert(t)
    <2>1. /\ key[t] \in Key /\ arg[t] \in Value /\ state[key[t]] # "unwritten"
          /\ pc[t] # "get_value" /\ answer' = answer /\ state' = state
          /\ \A m \in root[key[t]] : m.tid # t
        BY <1>3 DEF SetInsert, Storing, NodeInv, IInv, TypeOK, KeyInv
    <2>2. \A k \in Key : \A n : n \in root'[k] <=>
             \/ n \in root[k]
             \/ k = key[t] /\ n = [tid |-> t, value |-> arg[t]]
        BY <1>3, <2>1 DEF SetInsert, IInv, TypeOK
    <2>3. \A u \in Thread, k \in Key : k # key[t] \/ u # t => Own(u, k)' = Own(u, k)
        BY <2>2 DEF Own
    <2>4. CASE state[key[t]] = "gone"
        <3>1. \A u \in Thread, k \in Key : ValueOf(u, k)' = ValueOf(u, k)
            <4>1. TAKE u \in Thread, k \in Key
            <4>2. CASE k = key[t]
                BY <2>1, <2>4, <4>2, NoValue
            <4>3. CASE k # key[t]
                BY <2>1, <2>3, <4>3, SameValue
            <4> QED
                BY <4>2, <4>3
        <3> QED
            BY <1>0, <2>1, <3>1 DEF Made, Dead, Stored
    <2>5. CASE state[key[t]] # "gone"
        <3>1. PICK k \in Key, v \in Value : k = key[t] /\ v = arg[t]
            BY <2>1
        <3>2. Own(t, k)' = {[tid |-> t, value |-> v]}
            BY <2>1, <2>2, <3>1 DEF Own
        <3>3. Own(t, k)' # {} /\ \A n \in Own(t, k)' : n.value = v
            BY <3>2
        <3>4. Abstract!Set(t, k, v)
            BY <1>0, <2>1, <2>3, <2>5, <3>1, <3>3, OwnWrite
        <3> QED
            BY <3>4
    <2> QED
        BY <2>4, <2>5
<1> QED
    BY <1>1, <1>2, <1>3 DEF Set

LEMMA DestroyMaps ==
    ASSUME IInv, NodeInv, Destroy
    PROVE  Abstract!Destroy
<1>1. UNCHANGED <<state, answer>> /\ \A k \in Key : root'[k] = {}
    BY DEF Destroy, NodeInv, IInv, TypeOK, Key
<1>2. \A u \in Thread, k \in Key : ValueOf(u, k)' = NULL
    BY <1>1, NoValue DEF Own
<1>3. Stored' = [u \in Thread |-> [k \in Key |-> NULL]]
    BY <1>2 DEF Stored
<1>4. Reading = {} /\ Reading' = {}
    BY DEF Destroy, Reading, locals
<1> QED
    BY <1>1, <1>3, <1>4 DEF Abstract!Destroy, Stored, Reading, Made, Dead

LEMMA StepMaps ==
    ASSUME OneCreator, IInv, NodeInv, ReadInv, [Next]_vars
    PROVE  Abstract!Next \/ UNCHANGED <<Made, Dead, Stored, Reading, answer>>
<1>1. CASE UNCHANGED vars
    BY <1>1, NotSeen DEF vars, locals, client, Reading
<1>2. CASE Destroy
    BY <1>2, DestroyMaps DEF Abstract!Next
<1>3. ASSUME NEW t \in Thread, Create(t) \/ Delete(t) \/ Get(t) \/ Set(t)
      PROVE  Abstract!Next \/ UNCHANGED <<Made, Dead, Stored, Reading, answer>>
    BY <1>3, CreateMaps, DeleteMaps, GetMaps, SetMaps DEF Abstract!Next
<1> QED
    BY <1>1, <1>2, <1>3 DEF Next

LEMMA InitMaps == Init => Abstract!Init
<1> SUFFICES ASSUME Init
             PROVE  Abstract!Init
    OBVIOUS
<1>1. Made = {} /\ Dead = {} /\ Reading = {} /\ answer = [t \in Thread |-> NULL]
    BY DEF Init, Made, Dead, Reading
<1>2. \A t \in Thread, k \in Key : ValueOf(t, k) = NULL
    BY NoValue DEF Init, Own
<1>3. Stored = [t \in Thread |-> [k \in Key |-> NULL]]
    BY <1>2 DEF Stored
<1> QED
    BY <1>1, <1>3 DEF Abstract!Init, Made, Dead, Stored, Reading

\* The store with its growing array, its two-phase M_tls_set, its readings that
\* end without the lock and its slots written outside it implements the abstract
\* one: each thread reads what it stored, and nothing else, unless the key is
\* deleted before the reading ends.
THEOREM StoreIsImplemented ==
    ASSUME OneCreator
    PROVE  Spec => ImplementsLocalStore
<1>1. NodeInv /\ IInv /\ [Next]_vars => NodeInv'
    BY NodeStep
<1>2. ReadInv /\ NodeInv /\ IInv /\ [Next]_vars => ReadInv'
    BY ReadStep
<1>3. Init => ReadInv
    BY DEF Init, ReadInv
<1>4. ReadInv /\ NodeInv /\ IInv /\ [Next]_vars =>
         [Abstract!Next]_<<Made, Dead, Stored, Reading, answer>>
    BY StepMaps
<1>5. ReadInv /\ NodeInv /\ IInv /\ [Next]_vars =>
         [Abstract!Next]_<<{k \in Key : state[k] # "unwritten"}, {k \in Key : state[k] = "gone"},
                           [t \in Thread |-> [k \in Key |-> ValueOf(t, k)]],
                           {<<t, key[t]>> : t \in {u \in Thread : pc[u] = "get_value"}}, answer>>
    BY <1>4 DEF Made, Dead, Stored, Reading
<1> QED
    BY <1>1, <1>2, <1>3, <1>5, Invariance, NodeInit, InitMaps, PTL
    DEF Spec, ImplementsLocalStore, Abstract!Spec
=============================================================================
