---------------------------- MODULE MCContainers ----------------------------
(***************************************************************************)
(* RBTree and Hash for TLC: a behaviour uses a tree or a table.            *)
(*                                                                         *)
(* A removal goes up twice only where three levels are black, which takes  *)
(* ten nodes; three of them have equal keys.  Only the shape of a tree     *)
(* matters, so large trees hold the first nodes but one.                   *)
(*                                                                         *)
(* The table has five nodes in four slots: three meet in slot 0, two of    *)
(* them with equal keys, and slot 2 stays empty.                           *)
(***************************************************************************)
EXTENDS RBTree, TLC

CONSTANTS HashNode, HashKinds, HashKey, ht_len, BucketSizes,
          n1, n2, n3, n4, n5

\* What hash_init requires of its client, and what fits a table.
ASSUME HashParameters ==
    /\ HashKinds \subseteq {"list", "rbtree"}
    /\ ht_len \in Nat \ {0}
    /\ BucketSizes \subseteq Nat \ {0}
    /\ HashKey \in [HashNode -> Nat]
    /\ NULL \notin HashNode

VARIABLES which, hash_type, table, current, current_index, flags,
          bucket_begin, bucket_end, granted

MCNode == 1 .. 10
MCKeyings == {<<1, 2, 3, 3, 3, 4, 5, 6, 7, 8>>}
MCMaxInside == [bst |-> 4, rbt |-> 10]

Gaps == {n \in MCNode \ inside : \E m \in inside : m > n}
Small == Cardinality(inside) <= 4 /\ inside \subseteq 1 .. 6
FewTrees == Small \/ (Cardinality(Gaps) <= 1 /\ pc \notin {"free", "travel"})

MCHashNode == {n1, n2, n3, n4, n5}
MCHashKey == n1 :> 0 @@ n2 :> 4 @@ n3 :> 4 @@ n4 :> 1 @@ n5 :> 3
Hash == INSTANCE Hash WITH Node <- HashNode, Kinds <- HashKinds, key <- HashKey

hash_vars == <<hash_type, table, current, current_index, flags, bucket_begin, bucket_end,
               granted>>

\* The one that is not used is of one kind.
BothInit ==
    /\ Init /\ Hash!Init
    /\ \/ which = "tree" /\ hash_type = "list"
       \/ which = "table" /\ kind = "bst"

BothNext ==
    /\ \/ which = "tree" /\ Next /\ UNCHANGED hash_vars
       \/ which = "table" /\ Hash!Next /\ UNCHANGED vars
    /\ UNCHANGED which

BothSpec == BothInit /\ [][BothNext]_<<which, vars, hash_vars>> /\ WF_vars(Loop)
-----------------------------------------------------------------------------
\* The nodes are in their slots, the cursor is in its bucket (the iterator of
\* M_hash.c), it walks along one row of nodes, remove_self goes on to
\* a neighbour, and nothing outside the granted bucket is changed.
WellFiled == Hash!WellFiled
CursorInItsSlot == Hash!CursorInItsSlot
CursorWalksRow == Hash!CursorWalksRow
RemoveSelfGoesOn == Hash!RemoveSelfGoesOn
BucketIsTheLimit == Hash!BucketIsTheLimit

\* What M_hash.h says of remove_self and of buckets.
RemoveSelfGoesToNext == Hash!RemoveSelfGoesToNext
EachManagesItsBucket == Hash!EachManagesItsBucket
=============================================================================
