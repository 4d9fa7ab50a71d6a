-------------------------------- MODULE Hash --------------------------------
(***************************************************************************)
(* The hash table of M_hash.c and its iterator.  A table is an array of    *)
(* ht_len slots; a slot is a circular list (HT_SLIST and HT_DLIST, which   *)
(* behave alike) or a red-black tree (HT_RBTREE) of the client's nodes.    *)
(* Here a slot is the sequence of its nodes, from slot->next on, or in the *)
(* order of the tree; the pointers are the business of RBTree.             *)
(*                                                                         *)
(* The iterator walks slot by slot through its bucket, the slots from      *)
(* bucket_begin to bucket_end - 1.  Its client inserts and searches in the *)
(* bucket that it was last granted only, gives the iterator another bucket *)
(* only when it is on no node, and nobody takes away the node that it is   *)
(* on.                                                                     *)
(***************************************************************************)
EXTENDS Integers, Sequences, FiniteSetsExt, Functions

CONSTANTS Node, NULL,
          Kinds,        \* "list", "rbtree"
          key,          \* the client's keys, natural numbers; hash_key is the identity
          ht_len,       \* not 0
          BucketSizes   \* not 0

VARIABLES hash_type,
          table,            \* the nodes of every slot
          current, current_index, flags,
          bucket_begin, bucket_end,
          granted           \* history: the bucket that attach or set_bucket
                            \* gave last, and whether it has refused one since

iter == <<current, current_index, flags>>
bucket == <<bucket_begin, bucket_end, granted>>
vars == <<hash_type, table, iter, bucket>>

Slots == 0 .. ht_len - 1
Slot(k) == k % ht_len
Dir == {"next", "prev"}

\* hash_init, M_hash_iter_construct, and attach: the bucket is the table.
Init ==
    /\ hash_type \in Kinds
    /\ table = [s \in Slots |-> <<>>]
    /\ current = NULL /\ current_index = 0 /\ flags = "invalid"
    /\ bucket_begin = 0 /\ bucket_end = ht_len
    /\ granted = [begin |-> 0, end |-> ht_len, refused |-> FALSE]

InTable == {n \in Node : n \in Range(table[Slot(key[n])])}
Place(s, n) == CHOOSE i \in DOMAIN s : s[i] = n
With(s, i, n) == SubSeq(s, 1, i) \o <<n>> \o SubSeq(s, i + 1, Len(s))
Without(s, n) ==
    LET i == Place(s, n)
    IN IF n \in Range(s) THEN SubSeq(s, 1, i - 1) \o SubSeq(s, i + 1, Len(s)) ELSE s

-----------------------------------------------------------------------------
\* The table's own operations.

\* A list takes the node behind place i; a tree where its key belongs, behind
\* its equals.
Anywhere(s, i, n) == With(s, i, n)      \* defect: the tree's order is ignored
Filed(s, i, n) ==
    With(s, IF hash_type = "list" THEN i
            ELSE Cardinality({j \in DOMAIN s : key[s[j]] <= key[n]}), n)

\* The nodes that a search may return: a list is searched from its front, a
\* tree may have any of several equals on its search path.
Hits(k) ==
    LET s == table[Slot(k)]
        same == {i \in DOMAIN s : key[s[i]] = k}
    IN IF same = {} THEN {NULL}
       ELSE IF hash_type = "list" THEN {s[Min(same)]} ELSE {s[i] : i \in same}

Insert(n) ==
    /\ n \notin InTable
    /\ table' = [table EXCEPT ![Slot(key[n])] = Filed(@, 0, n)]
    /\ UNCHANGED <<hash_type, iter, bucket>>

\* insearch inserts when the search finds nothing.
Insearch(n) == Hits(key[n]) = {NULL} /\ Insert(n)

TakeOut(n) == table' = [table EXCEPT ![Slot(key[n])] = Without(@, n)]

Remove(k) ==
    \E n \in Hits(k) \ {NULL} :
        n # current /\ TakeOut(n) /\ UNCHANGED <<hash_type, iter, bucket>>

RemoveNode(n) ==
    /\ n \in InTable /\ n # current
    /\ TakeOut(n)
    /\ UNCHANGED <<hash_type, iter, bucket>>

-----------------------------------------------------------------------------
\* Walking.  Stop is the slot behind the bucket, as seen in direction d; the
\* loops of move_next_slot and move_prev_slot look into it, and go no further
\* whatever they see there.
TableStop(d) == IF d = "next" THEN ht_len ELSE -1   \* defect: the bucket is ignored
Stop(d) == IF d = "next" THEN bucket_end ELSE bucket_begin - 1

OtherSlot(d, i) ==
    LET filled == {s \in Slots : table[s] # <<>>}
    IN IF d = "next" THEN Min({s \in filled : i < s /\ s < Stop(d)} \cup {Stop(d)})
                     ELSE Max({s \in filled : Stop(d) < s /\ s < i} \cup {Stop(d)})

FrontEdge(d, i) ==                      \* defect: a slot is always entered at its front
    IF i = Stop(d) THEN NULL ELSE table[i][1]
Edge(d, i) == IF i = Stop(d) THEN NULL
              ELSE IF d = "next" THEN table[i][1] ELSE table[i][Len(table[i])]

Onwards(d, i) == LET s == OtherSlot(d, i) IN [node |-> Edge(d, s), index |-> s]

\* The position beside node n, which is in slot i.
SlotForgotten(d, n, i) ==               \* defect: current_index is not moved
    LET p == Place(table[i], n) + (IF d = "next" THEN 1 ELSE -1)
    IN [node |-> IF p \in DOMAIN table[i] THEN table[i][p] ELSE Onwards(d, i).node, index |-> i]
Beside(d, n, i) ==
    LET p == Place(table[i], n) + (IF d = "next" THEN 1 ELSE -1)
    IN IF p \in DOMAIN table[i] THEN [node |-> table[i][p], index |-> i]
                                ELSE Onwards(d, i)

GoTo(p) == current' = p.node /\ current_index' = p.index

\* begin and end.  The first slot looked at is compared with what follows its
\* own head: for a tree that is empty this is NULL, and not the slot.
FirstPosition(d) ==
    LET i == IF d = "next" THEN bucket_begin ELSE bucket_end - 1
    IN IF table[i] # <<>> THEN [node |-> Edge(d, i), index |-> i]
       ELSE IF hash_type = "list" THEN Onwards(d, i) ELSE [node |-> NULL, index |-> i]

Begin(d) ==
    /\ GoTo(FirstPosition(d))
    /\ flags' = IF current' = NULL THEN flags
                ELSE IF d = "next" THEN "first" ELSE "last"
    /\ UNCHANGED <<hash_type, table, bucket>>

Move(d) ==
    /\ IF current # NULL THEN GoTo(Beside(d, current, current_index))
       ELSE UNCHANGED <<current, current_index>>
    /\ flags' = "invalid"
    /\ UNCHANGED <<hash_type, table, bucket>>

IsGranted(s) == granted.begin <= s /\ s < granted.end

IterSearch(k) ==
    /\ IsGranted(Slot(k))
    /\ current' \in Hits(k) /\ current_index' = Slot(k) /\ flags' = "invalid"
    /\ UNCHANGED <<hash_type, table, bucket>>

\* insert_next and insert_prev: beside the current node if that is in the
\* same slot, else at the front or the end of the slot.
IterInsert(d, n) ==
    /\ n \notin InTable /\ IsGranted(Slot(key[n]))
    /\ LET i == Slot(key[n])
           s == table[i]
           p == IF i = current_index /\ current # NULL THEN Place(s, current)
                ELSE IF d = "next" THEN 0 ELSE Len(s) + 1
       IN /\ table' = [table EXCEPT ![i] = Filed(s, IF d = "next" THEN p ELSE p - 1, n)]
          /\ GoTo([node |-> n, index |-> i])
    /\ UNCHANGED <<hash_type, flags, bucket>>

\* The cursor goes on to the next node, or back if there is none, or if it is
\* believed to be on the last one.
AlwaysBack == TRUE                      \* defect: the flag is not tested
GoesBack == flags = "last" \/ Beside("next", current, current_index).node = NULL

IterRemoveSelf ==
    /\ current # NULL
    /\ GoTo(Beside(IF GoesBack THEN "prev" ELSE "next", current, current_index))
    /\ flags' = "invalid"
    /\ TakeOut(current)
    /\ UNCHANGED <<hash_type, bucket>>

\* remove_next and remove_prev: in another slot the cursor goes there and
\* comes back, which clears its flags.
IterRemoveBeside(d) ==
    /\ current # NULL
    /\ LET p == Beside(d, current, current_index)
       IN /\ IF p.node = NULL THEN UNCHANGED table ELSE TakeOut(p.node)
          /\ flags' = IF p.index = current_index THEN flags ELSE "invalid"
    /\ UNCHANGED <<hash_type, current, current_index, bucket>>

EndOf(e) == Min({e, ht_len})

\* A bucket beyond the table is refused, but bucket_begin has been reset.
SetBucket(size, id) ==
    /\ current = NULL
    /\ \/ /\ size * id >= ht_len
          /\ bucket_begin' = 0
          /\ granted' = [granted EXCEPT !.refused = TRUE]
          /\ UNCHANGED <<iter, bucket_end>>
       \/ /\ size * id < ht_len
          /\ bucket_begin' = size * id
          /\ bucket_end' = EndOf(size * id + size)
          /\ granted' = [begin |-> bucket_begin', end |-> bucket_end', refused |-> FALSE]
          /\ flags' = "invalid" /\ current_index' = size * id
          /\ UNCHANGED current
    /\ UNCHANGED <<hash_type, table>>

-----------------------------------------------------------------------------
IterNext ==
    \/ IterRemoveSelf
    \/ \E d \in Dir : \/ Begin(d) \/ Move(d) \/ IterRemoveBeside(d)
                      \/ \E n \in Node : IterInsert(d, n)
    \/ \E n \in Node : IterSearch(key[n])

Next ==
    \/ IterNext
    \/ \E n \in Node : \/ Insert(n) \/ Insearch(n) \/ RemoveNode(n)
                       \/ Remove(key[n])
    \/ \E size \in BucketSizes, id \in 0 .. ht_len : SetBucket(size, id)

Spec == Init /\ [][Next]_vars
-----------------------------------------------------------------------------
\* Every node is in the slot of its key and there once, and the nodes of a
\* tree are in order, through insertions relative to the cursor too.
WellFiled ==
    \A s \in Slots :
        /\ \A i \in DOMAIN table[s] : Slot(key[table[s][i]]) = s
        /\ \A i, j \in DOMAIN table[s] :
              /\ table[s][i] = table[s][j] => i = j
              /\ hash_type = "rbtree" /\ i < j => key[table[s][i]] <= key[table[s][j]]

\* The cursor and its index agree: every operation finds the slot through the
\* index and the node through the pointer, and they are saved and restored
\* separately.
CursorInItsSlot ==
    current # NULL => /\ current_index \in bucket_begin .. bucket_end - 1
                      /\ current \in Range(table[current_index])

\* The nodes of the bucket in one row, and the node beside n in it.
Row == LET row[s \in bucket_begin .. bucket_end] ==
               IF s = bucket_end THEN <<>> ELSE table[s] \o row[s + 1]
       IN row[bucket_begin]
InRow(i) == IF i \in DOMAIN Row THEN Row[i] ELSE NULL
RowBeside(d, n) == InRow(Place(Row, n) + (IF d = "next" THEN 1 ELSE -1))
RowEnd(d) == InRow(IF d = "next" THEN 1 ELSE Len(Row))

\* Slots, empty slots and the edges of the bucket do not show: the iterator
\* moves along one row of all nodes of its bucket, and remove_next and
\* remove_prev take exactly the neighbour in that row.
CursorWalksRow ==
    [][\A d \in Dir :
        /\ Begin(d) => current' \in {RowEnd(d)} \cup (IF hash_type = "list" THEN {} ELSE {NULL})
        /\ Move(d) /\ current # NULL => current' = RowBeside(d, current)
        /\ IterRemoveBeside(d) => Row' = Without(Row, RowBeside(d, current))]_vars

\* remove_self leaves the cursor on the next node of the row if there is one,
\* and else on the previous one, till the row is empty.  The flag that end()
\* sets makes it go back although a node has been put behind the cursor since.
RemoveSelfGoesOn ==
    [][IterRemoveSelf =>
         current' = IF RowBeside("next", current) # NULL /\ flags # "last"
                    THEN RowBeside("next", current) ELSE RowBeside("prev", current)]_vars

\* What M_hash.h promises of it: "move cursor to next node if next node exists;
\* otherwise move cursor to prev node till container is empty".
RemoveSelfGoesToNext ==
    [][IterRemoveSelf /\ RowBeside("next", current) # NULL
        => current' = RowBeside("next", current)]_vars

\* An iterator changes no slot outside the bucket that its client was granted
\* last; if set_bucket has refused one since, no slot behind that bucket.
BucketIsTheLimit ==
    [][IterNext => \A s \in Slots : table'[s] # table[s] =>
          IsGranted(s) \/ (granted.refused /\ s < granted.end)]_vars

\* M_hash.h: each thread manages a bucket of a table.  The iterators of threads
\* that were granted buckets without a slot in common never meet.
EachManagesItsBucket ==
    [][IterNext => \A s \in Slots : table'[s] # table[s] => IsGranted(s)]_vars
=============================================================================
