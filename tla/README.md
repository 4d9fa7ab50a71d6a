# A verification project for ModFrm

ModFrm is a small C framework. `MBase` is a library of concurrent and sequential data
structures; `normalize_engine` is a pattern matcher built on it. This directory holds TLA+
modules that model the library and the building of the engine, configurations that check them
with TLC on small instances, and theorems that TLAPS proves for every value of the constants.
`PROJECT.json` lists the components, the runs, the source lines each definition stands for, the
hazards each property is for, the disagreements found, and the theorems.

The configuration modelled is the one the headers select: `__M_CFG_ATOMIC`,
`__M_CFG_COUNT_LQUEUE`, `__M_CFG_POOL_LEAK`, 64-bit, assertions on. Atomic instructions
(`M_asm_x86.h`) are single steps; everything between two of them can be interleaved.

## 1. The system

| component | source (under `src/`) | state | operations | used by |
|---|---|---|---|---|
| atomics and locks | `MBase/base_struct/M_atomic.c` | one word per lock | mutex, reader/writer lock and semaphore made of exchange loops | M_tls, clients |
| data exchanger | `M_data_exchanger.c` | `head` of a linked list | insert, insert_list, remove (takes all) | M_lqueue |
| lockless queue | `M_lqueue.c` | an exchanger, the reader's tail list, a count | insert, remove, remove_list, remove_list_bycount | clients |
| thread local storage | `M_tls.c` | an array of slots that moves when it grows, a tree of values per slot, a reader/writer lock | create, delete, set, get, destroy | M_error |
| lists | `M_list.c` | pointers in the nodes | splices, reversal | everywhere |
| search trees | `M_rbtree.c` | pointers and colours in the nodes | insert, remove, replace, search, neighbours, travel, free | M_hash, M_tls, radix trees |
| hash table | `M_hash.c` | an array of lists or trees; an iterator with a cursor, a slot index and a bucket | insert, search, remove; walk, insert and remove relative to the cursor | clients |
| radix tree | `M_radix_tree.c` | a tree of key segments, with split nodes nobody inserted | insert, remove, search in three modes, free_all | engine builder |
| radix mata | `M_radix_mata.c` | a radix tree cut at its wildcards; states of a match | matafy, match, result lists | clients |
| pools | `M_stackpool.c`, `M_poolinf.c` | a stack of pieces of one block; a free list in front of another allocator | alloc, free | radix trees, engine builder |
| error numbers | `MBase/error/M_error.c` | a block per thread, kept by M_tls | set, get, text | clients |
| configuration | `normalize_engine/ne/config.c` | arrays of items, filled from a file in two passes | read | engine builder |
| engine builder | `normalize_engine/ne/normalize_engine.c` | groups, group sets, delimiters and their patterns | build, destroy | clients |

The components interact by calls and shared memory only. What makes them hard:

* **Interleaving.** The locks, the exchanger and the queue are loops around one
  compare-and-exchange: every loaded value may be stale when it is used. Nodes of the exchanger
  are reused, so a head that left and came back looks unchanged.
* **State used outside its lock.** `M_tls_create` tests before it locks and writes after it has
  unlocked; `M_tls_get` reads the node that it has found after it has unlocked; `M_tls_set` gives its lock
  back between search and insertion.
* **A count beside the data.** The queue counts a node after it has put it in, and the reader
  trusts the count; the matcher may drop the state of a wildcard by its count of child states.
* **Long legal sequences.** The red-black repair, the hash iterator that moves away from its
  node and back, the split nodes of the radix tree and the strings they borrow: errors need
  several operations to show.
* **Partial failure.** The builder makes some twenty kinds of allocations and cleans up at one label.
* **Edges.** Empty slots, the end of a bucket, an empty pool, wildcards that match nothing.

What each component must guarantee, and where it stands:

| component | correct means | modules |
|---|---|---|
| mutex, reader/writer lock | exclusion; the word says who holds it; a release releases the caller's own lock; somebody always gets in | `LockSpec`, `AtomicMutex`, `AtomicRWLock`, `MCPrimitives`, `Primitives_proofs` |
| semaphore | units neither lost nor made up; no waiter left beside a unit | `AtomicSem`, `MCPrimitives`, `Primitives_proofs` |
| data exchanger | the pointers spell what was put and not taken; a taken node is private; insertion is lock-free | `Exchanger`, `DataExchanger`, `DataExchanger_proofs` |
| lockless queue | first in first out, every node once; the count never lets the reader into an empty list | `Fifo`, `LQueue`, `MCPrimitives`, `Primitives_proofs` |
| thread local storage | no freed array or unwritten slot is used; one owner per value; a thread reads its own values (until the key is deleted) | `LocalStore`, `Tls`, `MCTls`, `Tls_proofs` |
| search trees | sorted, linked, red-black; searches, walks, release right; loops end | `RBTree`, `MCContainers`, `RBTree_proofs`, `MCContainers_proofs` |
| hash table | nodes in their slots; the iterator walks one row of the nodes of its bucket | `Hash`, `MCContainers`, `MCContainers_proofs` |
| radix tree, pools | the pieces spell exactly the keys; searches answer as the header says (but in two cases: section 7); no block lost or freed twice | `Words`, `PoolInf`, `RadixTree`, `MCRadixTree`, `RadixTree_proofs` |
| radix mata | every wildcard a node alone; every match of every rule found once, with its segments | `Words`, `RadixMata`, `MCEngine`, `RadixMata_proofs` |
| error numbers | a thread reads the number it set (it does not: section 7) | `LocalStore`, `ErrorNumber` |
| configuration, engine builder | sets and delimiters as the file says; an answered failure after the first allocation keeps no memory | `StackPool`, `ReadConfig`, `EngineBuild`, `MCEngine`, `EngineBuild_proofs` |

## 2. The modules and the code

**Locks.** `LockSpec` is an abstract shared/exclusive lock: `AcquireRead`, `AcquireWrite`, `Release`.
`AtomicRWLock` has the word, each thread's place in the code (`rd_load`, `rd_cas`, ...), the value
it has loaded and what it holds; each load and each exchange of `M_atomic.c` 224-316 is an action.
The blocking calls loop, the try calls make one attempt, the release asserts and loops.
`Spec` has the four sound calls; `SpecWithTryWr` adds `atomic_trywrlock`, whose answer is inverted.
`AtomicMutex` and `AtomicSem` do the same for the mutex and the semaphore; `MaxPosts` bounds the
posts begun. The three, and the queue, share nothing, so `MCPrimitives` lets a behaviour use one of them.

**Exchanger and queue.** `DataExchanger` keeps `head` and every `next` pointer. `BeginInsert`, `Link`, `CasInsert` are the
three places of the insertion loop (the exchange returns the new head and the loop links again),
`TestEmpty` and `Take` those of `de_remove`. `de_insert` is the insertion of a list of one node.
`content` is a history variable, what `Exchanger` promises: puts at the front, takes everything.
`LQueue` uses that promise: its exchanger is the sequence `content`, its other variables are the
queue's; a removal is split where the count and the list are touched. `Fifo` is the abstract queue.

**Thread local storage.** `Tls` has the array as a block named by its capacity, the slots, and for each thread where it is,
what it holds of the lock (`LockSpec`'s, which `AtomicRWLock` is proved to implement) and into which
block its pointer points. The tree of a key is the set of its nodes. `M_tls_get` is three steps: the lock (`GetLock`), the search under
it (`GetBody`), and the reading of the node's value when the lock has been given back (`GetValue`), before which a deletion may have freed the node;
then anything is read. `SetRelock` is where `M_tls_set` allocates its node, and writes through NULL when it gets none (`SetNoMemory`). `LocalStore` is what the storage
promises: a map from thread and key to value, and a reading in two steps (`Find`, `Read`), which tells the stored value unless the key is deleted in between. `ErrorNumber` is `M_error.c` on that promise: the test of `M_tls_err_key`,
the allocation, the filing and the freeing of a block are steps of their own.

**Containers.** `RBTree` has the pointers and colours of all nodes, and one step for each turn of the loops
of `rbt_insert_node`, `rbt_remove_node`, `bst_free_all` and `bst_travel`. The code spells out both
sides of every case; here the side is a parameter. `Hash` has a sequence for each slot: what is below
is the business of `RBTree` (for trees) and of `M_list` (for lists). The iterator's cursor, index,
flag and bucket are variables; `d` is the direction wherever the code has a pair of functions. `granted` is a history variable: the bucket that
the client was given last, and whether `set_bucket` has refused one since; the properties measure against it, and not against `bucket_begin`, which a refusal
resets.
`MCContainers` lets a behaviour use a tree or a table.

**Radix tree.** `Words` says what the keys alone determine: which words are ends of keys or places where keys part. `RadixTree` is
the code. A node is the client's block of a key or a split node; `at` and `len` are `skey` and `skey_len`, a
pointer into the string of some key and a length, and all the pointer arithmetic of cutting and joining is done on them. The
branches of a node are a red-black tree in the code; here they are a sequence of which the code sees the top node (`Head`) and the
one that starts with a letter. A call is one step, with an action for each of its cases: `InsertFirst`, `InsertDuplicate`, `InsertOnSplit` (a split node becomes valid),
`InsertBelow` (a new branch), `InsertAbove` and `InsertSplitting` (a piece is cut); `RemoveOnly`, `RemoveLeaf`, `RemoveOverOne` (two pieces are joined),
`RemoveOverMany` (a valid node becomes a split node). `dummy`
and `extra` are the fields of `M_rt_arg`: the spare node given to a call, the node given back. `rt_free_all` is a loop through the
parent fields, one turn a step. `PoolInf` is the free list that both kinds of nodes come from.

**Radix mata.** `RadixMata` starts with a radix tree of rules, whose nodes are named by the word that ends there. `rm_matafy` is a
queue of nodes; a step takes one and cuts it at its wildcards (`MatafyNode`). `rm_match` is one step for each letter, which every state meets in turn:
a state advances, dies, turns into others, or is a wildcard and goes on while its children are alive. States are a list in the order
of the code, with their parents, the counts of child states and the positions at which they were entered.

**Engine builder.** `StackPool` is the block of which only the last piece comes back. `ReadConfig` is `read_config` with its two passes over
the lines of the file. `EngineBuild` goes on in phases (`pc`): the arguments, the two memory blocks and the automata, the reading, the sorting of
groups, the sets, the delimiters of each list of each group one by one, the rules. `mem` holds what was written into the pieces of `spool`,
by address, so a piece that is given out twice shows. `open` is the set of the uses of the file whose handles are open: `get_engine_size`'s is
never closed, `read_config`'s at the end of the file and nowhere else. The first pass over the names of the groups in the sets (`CountGroups`) compares as much of a name as the group's has
(`Begins`), the second (`SortSet`) whole names; `Beginnings` tells which names begin with which. Each allocation takes the failure branch when `spool` has no room (`Files` and
`PoolSizes` make every one of them the first to fail); `TreeIsFull` is the failure of the second block, which holds the nodes of the
tree that finds double delimiters. That tree is the set of its strings, by `RadixTree`.
`MCEngine` lets a behaviour build an engine or match inputs with `RadixMata`, which share nothing; so the variables of `RadixMata` have names of their own (`rm_pc`, `rm_vars`, `RmInit`, `RmNext`).

The definitions marked `defect` beside the modelled ones are plausible bugs in that code. No
specification uses them; each shows that some property notices.

## 3. What the runs check

| run | checks | shows |
|---|---|---|
| `Primitives` | locks: `Exclusion` `WordCountsHolders` `UnlockNeverAborts` `WordTellsHolder` `UnitsAccounted` `NeverAborts` `ImplementsLock` `LocksProgress` `NobodyLeftBehind`; queue: `NeverTakesNull` `CountAccounts` `ImplementsFifo` `EveryNodeComesOut` | reader/writer lock, mutex and semaphore, all interleavings of loads and exchanges, the lock implements `LockSpec`; two writers and a reader of the queue that keeps to one kind of removal, the queue implements `Fifo` |
| `Exchanger` | `HeadSpellsContent` `TakenIsPrivate` `ImplementsExchanger` `Progress` | three threads, three nodes, lists of up to two, with reuse |
| `Tls` | `UsesItsSlot` `OneOwner` `ImplementsLocalStore` | one creator (with and without memory), two threads that store, read, delete |
| `Containers` | trees: `Linked` `Sorted` `RedBlack` `Navigates` `EachOnce` `Returns`; tables: `WellFiled` `CursorInItsSlot` `CursorWalksRow` `RemoveSelfGoesOn` `BucketIsTheLimit` | every sequence of calls on trees of up to ten nodes, and on tables and iterators of both kinds |
| `RadixTree` | `SpellsKeys` `SearchesAnswer` `Accounted` | every sequence of insertions, removals, searches and releases, with the pools |
| `Engine` | building: `GroupsAsWritten` `DelimitersAsWritten` `ReleasesAll`; matching: `Matafied` `CountsChildren` `FindsEveryMatch` | files of many shapes in memory of many sizes; every set of rules and every input, against what a rule with wildcards matches |
| `RWLock_trywr_verdict` | `TryVerdictIsTheTruth` | violated: see section 7 |
| `Tls_create_race` | `UsesItsSlot` | violated |
| `RadixTree_live_keys` | `KeyPointersLive` | violated |
| `ErrorNumber` | `EachThreadItsOwn` | violated |
| `SearchesKeepPromise` | `SearchesKeepPromise` | violated |
| `EssentialByNumber` | `EssentialByNumber` | violated |

## 4. The bounds, and why they are enough

* Locks: three threads give two competitors and a holder, so every load can be overtaken by two
  different changes; the mutex, which is simpler, has five. The theorems remove the bound.
* Semaphore: three posts and one unit (`InitCount`) bring the count through 0 and above 1, with more waiters than
  units. The count is the only bound (`MaxPosts`).
* Exchanger: with three nodes and three threads a head leaves and comes back between the load and the
  exchange of a third thread; lists of two (`MaxList`) have an inner pointer that must survive.
* Queue: three nodes let a refill happen while the tail list still holds nodes and while a writer has
  not counted yet. `MaxAsk` is what a list of all nodes needs, and 0 is asked for too.
* Tls: `MaxKeys` = 2 makes the array grow once while the other thread is in each place of its call;
  three values let both threads replace values. Values are interchangeable (`ValueSymmetry`); the run
  checks no liveness, so the symmetry is sound. `array_size` wraps at twice `MaxKeys`, as the
  `M_uint16` does at twice `MAX_TLS_COUNT`.
* Trees: a removal passes its fault up two levels only where three levels are black, which takes ten
  nodes. Small trees are complete (any subset of six nodes, up to four at once); larger ones hold the
  first nodes but one (`FewTrees`), as only the shape counts. Three keys are equal.
* Tables: five nodes in four slots: a slot with three nodes, two of equal keys, single nodes, an
  empty slot between others; buckets of one half, three quarters with a remainder, and the whole table.
* Radix tree: the seven keys over three letters are a chain of prefixes, with places where two and three keys part, at different depths and at
  the root. Four held at once (`MaxHeld`) give a split node under a split node under a key, and a place with three branches; five split nodes are
  one more than four keys and a spare can use, so none is ever missing. One free block (`MaxBlocks`) makes both pools overflow and run dry.
* Radix mata: sets of one to three of ten rules with wildcards in front, between, at the end, and alone; inputs of one to four letters over two
  let two wildcards share the input in several ways. No rule has two wildcards in a row and no input holds one, as the header demands.
* Engine: two or three groups whose delimiters overlap within a list, a group, and between groups, with `^` and `$`; none, one or two sets, in the order
  of the groups or not, with names nobody defines, a name that begins with another's, essential groups by number, and a set that names a group twice. The sizes of memory in `MCPoolSizes` fall into every
  phase. The files keep to: one `[common]`; every set has its lists and every group its own name, and every set an essential group (`FilesAreComplete`); at most as many sets, those of groups that no name counts for included, as groups
  (`FewSets`); no lone set that names a group twice when there is `^` or `$`. Section 7 says what the code does outside.
* Error numbers: two threads, two blocks.

Deadlock is checked but in `Tls` (creation without memory returns with the lock held, and then everybody
waits; a store without memory ends the process) and in two of the runs that end in a violation. A building that has ended stays as it is (`Ended` of `MCEngine`).

## 5. Fairness

Weak fairness, of threads that are inside a call and (for locks) of holders that release: the operating system schedules every
runnable thread, and `sched_yield` in the spin loops gives way. Nobody has to begin a call. Nothing is
assumed of one thread's luck: a compare-and-exchange may lose for ever, so progress is stated for
the system (`LocksProgress`, `Progress`: if anybody is inside, somebody gets through again and again; the header of
`M_atomic.h` warns of the starvation of one thread). `NobodyLeftBehind` is about units and waiters: a semaphore does not keep both for ever.
`EveryNodeComesOut` assumes that the reader of `LQueue` calls again and again, as the consumers
of the unit test do. `Returns`, of the trees: a loop that has begun goes on (`WF_vars(Loop)`).

## 6. What is proved

All theorems hold for every value of the constants that meets the named assumptions. Every assumption on a constant is also
evaluated by TLC in a run of its module.

* `Primitives_proofs`, the reader/writer lock: `MutualExclusion`, `NoAssertionFails`, `TypeCorrect`, `WordIsExact`,
  `LockIsImplemented`, for any finite set of threads using `rdlock`, `wrlock`, `tryrdlock`, `rwunlock`.
  Exclusion alone is not inductive: the word must be -1 exactly with a writer and else the number of
  readers (`WordInv`), and a thread about to release must have loaded a value whose sign is its mode (`SeenInv`):
  then, whatever happens before the exchange, the exchange succeeds only if the word still
  has that value, and the next word is right. The refinement follows step by step.
* `Primitives_proofs`, the mutex and the semaphore: `WordIsTheHolder`, `NoUnitLost` and `NoSemaphoreAssertionFails`, of the two beside each other and the queue, as the run `Primitives`
  checks them. For the mutex the invariant says more than the count: the word is 0 and nobody holds it, or it is 1 and one named
  thread does, so that the thread that releases is the one that was counted. For the semaphore, with any `InitCount` in `Nat`, units and
  posts together are the count and the waits that have passed; with typed counts this is inductive.
* `DataExchanger_proofs`: `NothingLost`, `TypeCorrect`, `TakenStaysPrivate`, `ExchangerIsImplemented`, for any threads, lists and finite set of nodes. The invariant adds
  that a node is in one place only (`OnePlace`) and that the list of an insertion in flight is chained, its
  last node to the head that was seen (`InFlight`). That is all ABA needs: when the exchange succeeds the head is
  the one seen, whatever happened in between, and the list spelled from it is the content of now. A walk from the head therefore
  finds exactly the content (`WalkIsContent`; two lists that differ do so at a least index), so that each successful exchange is a put or a
  removal of everything and every other step is unseen, and what a thread has taken is in no walk.
* `Primitives_proofs`, the queue: `RemoveIsSafe`, `CountIsExact` and `QueueIsFifo`, for a reader that keeps to one of the three removals (`OneKind`; mixing
  them breaks the count, section 7). The count never runs ahead: it is the number of nodes less the writers that have not counted and, for each
  kind of removal, less or plus what it has taken and not yet counted out. `remove_list` leaves the tail list empty, so its count may start
  again at 0. A node is in the queue once, or free, or on its way out (`OnePlace`). A node put at the
  front of the exchanger's list is the last of the reversed one (`ReversedCons`), so an insertion is an enqueue whatever the tail list holds.
* `MCContainers_proofs`: `BucketsAreApart`, `NodesAreFiled`, `CursorIsInItsSlot`, `IteratorWalksTheRow` and `RemovalGoesOn`, of `Hash`. The invariant files every node in
  the slot of its key and keeps an iterator's node in the slot it remembers. A bucket's nodes form one row; split at a slot into what is before,
  in and behind it, an iterator's step is a step in the slot's part, or crosses the empty slots to the next part, whichever slots
  and nodes there are. `RemovalGoesOn` is what the code does, not what the header promises: the flag that `end` left makes the cursor go back past a next node. `BucketsAreApart` is
  measured against the bucket that was granted last (`granted`), and is no more than is true: after a refused `set_bucket` the slots before that bucket are open to the iterator
  (section 7). What it needs is that `bucket_begin` is that of the granted bucket or, after a refusal, 0, and that the end stays.
* `Tls_proofs`: `TypeCorrect`, `SlotsAreThere`, `ValuesHaveOneOwner`, `StoreIsImplemented`, under `OneCreator` (no two threads create keys).
  The pointer kept inside a locked region, or by the only creator, is to the block in use (`PointerInv`). For the refinement the invariant adds
  that a slot is written once and holds at most one node of each thread, and that a thread which goes for the exclusive lock of
  `M_tls_set` has none (`NodeInv`): writing a node then changes one value of one thread, and an insertion under a key deleted meanwhile is unseen.
  A thread that is about to read a node without the lock finds its own node still there, or the key deleted; so it reads what it stored, or the
  abstract store may read anything too.
* `RBTree_proofs`: `TreeIsLinked`, `TreeIsSorted`, `TreeIsRedBlack`, `SiblingIsThere`, for any finite set of nodes, any keys and both kinds of trees, between any two turns of
  the loops. `Shape` says what pointers spell a tree: parents and children agree, two children differ, and going up from any set of nodes leaves it,
  so that there is no ring; the nodes are finite, and what `Below` computes is then the least set closed under the children. Each piece of surgery
  (rotate, splice out, replace, hang on) has a lemma about the shape and one about the keys. In the middle of `rbt_remove_node` the
  invariant `IInv` keeps the tree in order under two assignments of keys at once: the real one, and the one that has the successor's key at the removed
  node's place, which is the real one after the exchange. It needs more than the two properties: the fields of nodes outside are clear
  (`Clean`), `c` is a child of `p` (`InLoop`), and the removed node is on the way up from `c` or below `c` (`OnWay`), so that it never comes up
  in a rotation and takes the place of the root that `*root` already calls by its successor's name; a black root (`RootRule`) gives a red node its grandparent.
  The colours have an invariant of their own, `RBInv`, on top. Counting black nodes from the root is of no use for a step that changes one place, so
  `Balanced` gives every node a height instead, counted from below: its own weight and the height of either child, with one added at the side
  of a node (`p`, or none) where a removal has left one short. Each recolouring and rotation then needs new heights for two or three nodes only
  (`RecolourBalanced`, `LiftBalanced`, `UpBalanced`, `LastBalanced`), and `Levels` leads back, up the tree, to what `RedBlack` counts. The same heights show that
  the sibling of a short side is there (`SiblingIsThere`: the code goes through `w` without a test), and which side is short when `c` is NULL: both sides of `p`
  would be empty otherwise, and one of them short.
* `MCContainers_proofs`, second part: `TreeIsNavigable` and `TreeIsWalkedOnce`, of the same trees. The recursive functions that go down or climb have the values their equations
  say because every step leaves some set for good (`FallbackIs`, `ClimbOnIs`). A search is right below every node of its path (`SearchesBelow`,
  `NearestBelow`): where it turns away, `Ordered` says that nothing on the other side is nearer. The climb of `NextOn` ends above the node from which the way straight
  down leads back (`LeadsBack`, `ClimbBack`), so each neighbour's neighbour is the node itself. For `bst_travel` the invariant `Travels` says what is left to visit at `x`: what is below `x`, and below
  the right child of each node that `x` is on the left of (`After`). For `bst_free_all`, which destroys the parent pointers as it goes, `Frees` keeps
  those of before the call as a witness: the queue from `x` to `y` through the overwritten fields holds, once each, the
  nodes not freed whose parent has been (`Front`), so that an empty queue means an empty tree.
* `EngineBuild_proofs`: `AllIsReleased`, `GroupsAreAsWritten` and `DelimitersAreAsWritten`, for every file that is complete (`FilesAreComplete`) and every pool
  size, the last two when no set names a group whose name begins with that of another (`NamesApart`). `ReleasesAll` speaks of the end; the invariant says for each phase what is allocated (`LiveInv`), and that each failure branch leads to the
  place that frees just that; `OpenInv` says which handles of the file are open there. For the groups, `ReadInv` says of any place in the two passes over the file what has been counted and what the arrays
  hold: what the lines before say (`Table`), so that after the last line an array's element is what `Written` finds by looking at the
  whole file. `SetsInv` says that the sets sorted so far are the file's; the cursor that looks for essential groups has at
  each group of the order spelled what it has passed (`SpeltAsFar`), and a `spelled` that stops early stops at a name no later group has.
  For the delimiters, `DelimInv` follows the position `at` through sets, groups, lists and items: `Typed`, what the pattern of a string tells of a group
  is what the items before the position say (`Marks`); `TreeHas`, the tree has exactly the strings before it; `Segs`, a group's first segment.
  That is inductive only together with who owns what: a pattern, its string, its index and the arrays of its index are pieces of that pattern
  alone (`Owns`, `Stored`), lie below `spool.cur` (`Below`), and below the spare pattern's two pieces while there is one (`Spare`). An item then writes
  into the pieces of one pattern (`Same` and `OthersSame` for all others), and what `sp_free` takes back at the end of a list is in no use. That
  every delimiter of a group is met at all is where `FewSets`, `NamesApart` and distinct names come in: each group is in a set or left over.
* `RadixTree_proofs`: `KeysSpelled`, `SearchesRight` and `BlocksAccounted`, for every finite set of keys, any number of split nodes and any length of the
  pools' lists. The three properties are not inductive: what a split node borrows from may go away, and it is the letters that matter, not whose they are.
  The invariant `IInv` says that there are words `W` which the fields represent (`Rep`): the words make a tree in which a node's word begins with its parent's and
  siblings part right there (`Trie`); a node's branches are a row of those that have it for a parent; and its pointer goes to *some* key's string that begins with its word, at the place where
  the parent's word ends (`PieceIs`). So it does not matter that `update_rt_parent` leaves higher split nodes on older strings. `Trie` has four lemmas, for a leaf that comes or goes, a
  node that comes between two, a node that leaves such a place, and a node that takes another's; each operator of the code has one that says what it does to the fields, and
  under what condition a row stays a row (`AddNodeIs`, `CutBelowIs`, `ReplaceNodeIs`); each case of an insertion or removal is one or two of these steps.
  A search follows the only way there is (`OneWay`): each turn of its loop is at the branch that goes on with the key's letter (`Good`), and
  where it ends (`Arrived`) it has passed every node on the key's way that a held key goes on from (`Deepest`): the longest held key that begins the one looked for is there, or is a leaf. For `rt_free_all` the fields from before the call are kept as a witness, as in `bst_free_all`:
  the queue goes on through overwritten parent fields (`Links`), a node is in it exactly if its parent is freed (`Met`), and when it is empty a node left over
  with the shortest word would have a freed parent (`AllMet`).

* `RadixMata_proofs`: `MatafiedHolds` and `CountsChildrenHolds`, for every finite set of rules and every input. While `rm_matafy` works,
  what the queue does not still reach is cut (`CutInv`): a node is `Pending` when its word begins with that of a queued one, and else its piece has no
  wildcard but alone, and its wildcard child is the node just below (`IsCut`). A turn takes one node; what its cuts leave is a function of the places cut, in
  whatever order the code makes them (`CutTree`, `CutIs`), and it changes nothing for a node elsewhere (`KeptCut`). The nodes made end at or just before
  a wildcard of the piece (`NewNodes`), so a node is new only where `Matafied` allows one. For the counts, `Sound` says of the lists in the middle of a letter that the states to be added are the new
  ones, once each, that a plain state has a wildcard or nothing for its parent (`Shaped`: so the climb of `rm_remove_state` is one step, `AboveIs`), and
  that each count is that of the states followed, counting those just made and not those given up (`Live`). It is inductive because a plain state still to meet the letter
  is never on the list of removals (`Met`): no state is counted out twice.

Only model-checked: the liveness properties (`Returns` of the trees among them), and
`FindsEveryMatch`: the definition it compares the matcher with is recursive in rule and input, and
what such a definition computes for every input needs induction over data.

The argument composes: `AtomicRWLock` implements `LockSpec` (proved), whose lock `Tls` uses; `DataExchanger` implements
`Exchanger` (proved), whose steps `LQueue` uses; `Tls` implements `LocalStore` (proved for one creator), on which `ErrorNumber` is built; `RBTree` keeps a
sorted, linked tree under insertion and removal and finds what is in it (proved), which is what `Hash` uses for a slot, `Tls` for a key and `RadixTree` for the branches of a node;
`RadixTree` finds the held keys, and splits nodes where they part (proved), which is what `EngineBuild` uses for its double delimiters and `RadixMata` for its rules.

## 7. Where the code and its texts disagree

With a run:

* `atomic_trywrlock` returns 0 to a thread that lost the exchange, and -1 to the one that took the lock
  (`RWLock_trywr_verdict`). `NextWithTryWr` is therefore not part of `Spec`.
* Two threads that create keys: the slot of one is written into the array that the other has freed (`Tls_create_race`).
* A split node two levels above a removed key keeps pointing into its string: `update_rt_parent` renews one level
  (`M_radix_tree.c:77`; `M_radix_tree.h:36-37` says where the pointers point; `RadixTree_live_keys`). The strings outlive the nodes in the
  unit test, and in the run `RadixTree`, so nothing is misspelt there.
* The longest match of a word that goes on behind a held key without branches misses that key: `rt_search` remembers a node only when it has branches
  (`M_radix_tree.c:201-213`; `M_radix_tree.h:70` says "longest match"). And where held keys part at the end of the word, every mode, the exact one too, returns the
  split node (`M_radix_tree.h:25-26` promises a valid one). `SearchesKeepPromise` is the header's promise and is violated; `SearchesAnswer` is what holds beside the two cases.
* The essential groups are compared by name, and a name that is out of the order of `group_order` is passed over (`normalize_engine.c:2830`); the comment at
  `ne_test/normalize_engine.cfg:47` says that they are marked by number, and line 50 has `essential_group = "2"`, which is the name of no group: the
  build is refused (`EssentialByNumber`).
* `get_tls_errno` takes the success of `M_tls_set` for a failure, frees the block that it has just filed and uses it later
  (`M_error.c:222`; `ErrorNumber`): two threads come to share a block.

In the models, without a run of their own:

* A reader that mixes `lqueue_remove_list_bycount` and `lqueue_remove` can make the count negative, pass the test for 0 and read
  through NULL (`M_lqueue.c:102`). `LQueue` and the proofs keep to one kind of removal (`Modes`). Two smaller
  ones are in the model as they are: `lqueue_remove_list` returns a tail list without counting it out, and asking for
  0 nodes removes one (`CutAt`).
* `M_tls_create` without memory returns with the exclusive lock held (`M_tls.c:128`). The `Tls` run takes that step.
* `M_tls_set` whose key is deleted between search and insertion answers success and keeps a value nobody can read or destroy.
* `M_tls_get` reads its node without the lock (`M_tls.c:186-188`): a deletion in between frees what it reads. `M_tls.h:11` and `:14` say that keys can be
  deleted while threads run. `ImplementsLocalStore` lets the reading tell anything then.
* `M_tls_set` does not ask whether it got memory for its node (`M_tls.c:218-219`); the model ends in `crashed`.
* `M_hash.h:111-112` promises that `remove_self` goes on to the next node if there is one. The flag that `end` sets is not cleared by an insertion; the cursor then
  goes back past the new node (`M_hash.c:898`). `RemoveSelfGoesToNext` of `Hash` states the promise, and TLC finds it violated; `RemoveSelfGoesOn` is what holds.
* A `set_bucket` that is refused has moved the beginning of the bucket to slot 0 (`M_hash.c:674-678`): the iterator then walks over, inserts beside and removes nodes of the buckets of other
  threads, where `M_hash.h:150-151` says that each thread manages its own. `EachManagesItsBucket` of `Hash` states that, and TLC finds it violated; `BucketIsTheLimit` is what holds.
* `M_hash.h:102` says that an insertion fails without a current node; the code inserts at the front or the end of the slot (`M_hash.c:848-869`).
* Sets are counted by comparing as much of a name as the group's has, and filled by whole names (`normalize_engine.c:2669`, 2825). Where names begin with one another, a group that a set names may also get a set
  of its own, a group that none names may get none, and a name that no group has is passed over, with what the memory held in its place. The comment at 2650 says that the flag
  marks the groups in a set: `FlagSaysNamed` of `EngineBuild` states that, and TLC finds it violated; `GroupsAsWritten` and `DelimitersAsWritten` leave such names out (`NamesApart`).
* `get_engine_size` never closes its file (2537-2583), and `read_config` leaves it open when the memory runs out (`config.c:90`, 202). `ReleasesAll` says which handles stay.
* `begin` and `end` of an iterator over trees find nothing when the first slot is empty (`M_hash.c:727`; `M_hash.h:90` promises the begin).
* `ne_arg_init` leaks both blocks when the automaton is refused (`normalize_engine.c:2599`; phase `leaked`); when the first allocations
  of `build_normalize_engine` fail, cleaning up goes through pointers that are not set (3269-3281), and `read_config` passes pieces of the pool to
  `free` (`config.c:89`): phase `crashed`. An insertion into the tree whose split node is refused goes through NULL (`M_radix_tree.c:463-464`): `crashed` too.
* `rm_match_state` means to drop a wildcard without children when a state under it enters the next one (`M_radix_mata.c:894`). It never does:
  the count includes the state that enters (`NeverDropped`; the `--` is commented out). The matches are the same (`FindsEveryMatch`), the list of states is longer.

Outside the bounds of the models:

* More sets than groups write beyond `group_array` (2681).
* `head_grps` and `tail_grps` are counted up from whatever the memory holds (2952-2971); the model keeps only that they are there.
* An empty `essential_group` leaves the buffer for the name as it was (2818), and what it holds is compared: the files of the model name one for every set.
* `M_strerror` indexes `s_errs` by whatever number it gets.
* `rm_insert_rule` hands the tree a spare node whose `wc_node` is not set (`M_radix_mata.c:768`; `rm_process_arg` sets it, 502); the matcher
  reads the `wc_node` of every split node. `RadixMata` starts them at NULL.
* `M_poolinf.h:6` calls the pool thread-safe, but its test, count and list are plain accesses (`M_poolinf.c:69`); the modules use it from one thread.
* The arguments of `memset` in `sp_free` are swapped (`M_stackpool.c:89`), so `sp_destroy` reports blocks that were freed.

Rules that clients follow in the models: keys of thread local storage come from `M_tls_create`; `M_tls_destroy` runs when no
thread is inside; an iterator's client searches and inserts in its own bucket, sets another bucket only on no node, and nobody
removes the node an iterator is on; a key is inserted into a radix tree once, and its string stays where it is.

## 8. Not modelled, and what is left

* `acsmx2.c` (3192 lines) is Snort's Aho-Corasick matcher; `EngineBuild` uses it as a thing that is made, may be refused, and is freed.
* The matching half of `normalize_engine.c` (272-2528, 3282-4672) lies between `#if 0` and `#endif`. With the tests and the vendored headers
  of pthreads these make up most of the lines below `src/`; what is compiled of `MBase` and of the builder is modelled but for the following.
* `M_radix_mata.c`, first half (`rmt_*`): the insertion and removal of `M_radix_tree.c` line for line, with elements of `1 << ele_pow` bytes for letters.
  Input given pattern by pattern, and the client's `judge`, are left out.
* `release_config` and `print_config`, which `build_normalize_engine` does not call, and the reading of characters in `config.c`.
* Reports of leaks and the high mark of `M_stackpool.c`; the single-threaded splices of `M_list.c`.
* `M_log`, `M_os_misc`, `M_utility` (output, thread ids, byte swaps), `M_asm` (instructions, taken as atomic), `MBase.c` (Windows entry point).
* Memory ordering is that of x86 with locked instructions; weaker orders are not modelled.

What is left to prove: that `RadixMata` finds each match once (`FindsEveryMatch`).
