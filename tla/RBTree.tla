------------------------------- MODULE RBTree -------------------------------
(***************************************************************************)
(* The search trees of M_rbtree.c: plain binary search trees (bst_) and    *)
(* red-black trees (rbt_), linked through parent, left and right pointers  *)
(* inside the client's nodes.  A step is one call, or one turn of the loop *)
(* in which rbt_insert_node, rbt_remove_node, bst_free_all and bst_travel  *)
(* work on the tree.                                                       *)
(*                                                                         *)
(* The code has every branch twice, once for each side; here the side is a *)
(* parameter.  Keyings is the set of key assignments, Kinds says which     *)
(* kinds of tree there are; a behaviour has one of each.  MaxInside bounds *)
(* the number of nodes in a tree of each kind.                             *)
(***************************************************************************)
EXTENDS Integers, Sequences, FiniteSets

CONSTANTS Node, NULL, Kinds, Keyings, MaxInside

ASSUME KindsKnown == Kinds \subseteq {"bst", "rbt"}
ASSUME MaxInsideNat == MaxInside \in [Kinds -> Nat]
ASSUME KeyingsAreInts == Keyings \subseteq [Node -> Int]
ASSUME NullIsNoNode == NULL \notin Node
ASSUME NodesFinite == IsFiniteSet(Node)

VARIABLES kind, key,  \* the kind of tree and the keys of its nodes
          tree,       \* the root, and the fields of every node
          inside,     \* the nodes that the client has in the tree
          pc,         \* the loop that is running
          x, y, c, p, \* its local variables (p is pc in rbt_remove_node)
          seen        \* the nodes freed or visited so far

vars == <<kind, key, tree, inside, pc, x, y, c, p, seen>>

Pointer == Node \cup {NULL}
Side == {"left", "right"}
Other(d) == IF d = "left" THEN "right" ELSE "left"

\* The fields of a node outside the tree mean nothing (an insertion writes
\* them all); the model clears them.
NoKids == [d \in Side |-> NULL]
Cleared(t, n) == [t EXCEPT !.up[n] = NULL, !.kid[n] = NoKids, !.red[n] = FALSE]
Empty == [root |-> NULL, up |-> [n \in Node |-> NULL],
          kid |-> [n \in Node |-> NoKids], red |-> [n \in Node |-> FALSE]]

Init ==
    /\ kind \in Kinds /\ key \in Keyings
    /\ tree = Empty
    /\ inside = {} /\ pc = "out"
    /\ x = NULL /\ y = NULL /\ c = NULL /\ p = NULL
    /\ seen = {}

-----------------------------------------------------------------------------
\* Pointer surgery.  SideOf is "n == n->parent->left".
SideOf(t, n) == IF t.kid[t.up[n]]["left"] = n THEN "left" ELSE "right"
Red(t, n) == n # NULL /\ t.red[n]
Colour(t, S, r) == [t EXCEPT !.red = [n \in Node |-> IF n \in S THEN r ELSE t.red[n]]]
SetUp(t, n, q) == IF n = NULL THEN t ELSE [t EXCEPT !.up[n] = q]

\* What points down to n from q (its parent, or the root) points to m.
PointTo(t, q, n, m) ==
    IF q = NULL THEN [t EXCEPT !.root = m]
    ELSE [t EXCEPT !.kid[q][IF t.kid[q]["left"] = n THEN "left" ELSE "right"] = m]

\* bst_left_rotate and bst_right_rotate: n goes down on side d.
Orphan(t, n, q) == t                    \* defect: the moved child keeps its parent
Adopt(t, n, q) == SetUp(t, n, q)
Rotate(t, n, d) ==
    LET m == t.kid[n][Other(d)]
        inner == t.kid[m][d]
        linked == PointTo(t, t.up[n], n, m)
        turned == [linked EXCEPT !.up[m] = t.up[n], !.up[n] = m,
                                 !.kid[n][Other(d)] = inner, !.kid[m][d] = n]
    IN IF m = NULL THEN t ELSE Adopt(turned, inner, n)
-----------------------------------------------------------------------------
\* Where a node with key k is hung: below the last node of the search path.
\* Equal keys go right.
GoesAway(k, n) ==                       \* defect: the comparison is swapped
    IF k < key[n] THEN "right" ELSE "left"
GoesTo(k, n) == IF k < key[n] THEN "left" ELSE "right"
LastOnPath(t, k) ==
    LET down[n \in Node] == LET m == t.kid[n][GoesTo(k, n)]
                            IN IF m = NULL THEN n ELSE down[m]
    IN down[t.root]

Hung(t, n) ==
    LET q == LastOnPath(t, key[n])
        fresh == [t EXCEPT !.kid[n] = NoKids, !.red[n] = kind = "rbt"]
    IN IF t.root = NULL THEN [fresh EXCEPT !.root = n, !.up[n] = NULL]
       ELSE [fresh EXCEPT !.up[n] = q, !.kid[q][GoesTo(key[n], q)] = n]

\* bst_insert_node, and the start of rbt_insert_node: the node is red.
Insert(n) ==
    /\ pc = "out" /\ n \notin inside /\ Cardinality(inside) < MaxInside[kind]
    /\ tree' = Hung(tree, n)
    /\ inside' = inside \cup {n}
    /\ IF kind = "bst" THEN UNCHANGED <<pc, x>> ELSE pc' = "insert" /\ x' = n
    /\ UNCHANGED <<kind, key, y, c, p, seen>>

Return == pc' = "out" /\ x' = NULL /\ y' = NULL /\ c' = NULL /\ p' = NULL

\* The loop of rbt_insert_node, as long as x and its parent are both red.
Parent == tree.up[x]
Grand == tree.up[Parent]

InsertDone ==
    /\ pc = "insert" /\ ~Red(tree, Parent)
    /\ tree' = Colour(tree, {tree.root}, FALSE)
    /\ Return
    /\ UNCHANGED <<kind, key, inside, seen>>

InsertRecolour ==
    /\ pc = "insert" /\ Red(tree, Parent)
    /\ \A d \in Side : Red(tree, tree.kid[Grand][d])
    /\ tree' = Colour(Colour(tree, {tree.kid[Grand][d] : d \in Side}, FALSE), {Grand}, TRUE)
    /\ x' = Grand
    /\ UNCHANGED <<kind, key, inside, pc, y, c, p, seen>>

\* When x is the inner grandchild, its parent is rotated first.
Straightened(t, n, q, d) ==
    IF t.kid[q][Other(d)] = n THEN [t |-> Rotate(t, q, d), top |-> n]
                              ELSE [t |-> t, top |-> q]

InsertRotate ==
    /\ pc = "insert" /\ Red(tree, Parent)
    /\ \E d \in Side : ~Red(tree, tree.kid[Grand][d])
    /\ LET d == SideOf(tree, Parent)
           s == Straightened(tree, x, Parent, d)
           turned == Rotate(s.t, Grand, Other(d))
       IN tree' = Colour(Colour(turned, {s.top}, FALSE), {Grand}, TRUE)
    /\ Return
    /\ UNCHANGED <<kind, key, inside, seen>>

-----------------------------------------------------------------------------
\* bst_get_first / bst_get_last, and bst_successor / bst_predecessor:
\* NextOn(t, n, "right") is the successor.
Outermost(t, n, d) ==
    LET out[m \in Pointer] == IF m = NULL \/ t.kid[m][d] = NULL THEN m ELSE out[t.kid[m][d]]
    IN out[n]

NextOn(t, n, d) ==
    LET climb[m \in Node] == IF t.up[m] = NULL \/ t.kid[t.up[m]][Other(d)] = m
                             THEN t.up[m] ELSE climb[t.up[m]]
    IN IF t.kid[n][d] # NULL THEN Outermost(t, t.kid[n][d], Other(d)) ELSE climb[n]

\* The node that leaves its place: n, or its successor if n has two children.
Spliced(t, n) == IF \E d \in Side : t.kid[n][d] = NULL THEN n ELSE NextOn(t, n, "right")
OnlyKid(t, n) == IF t.kid[n]["left"] # NULL THEN t.kid[n]["left"] ELSE t.kid[n]["right"]

\* m takes the place of n among n's relatives.
Succeeds(t, n, m) ==
    LET kids == SetUp(SetUp(t, t.kid[n]["left"], m), t.kid[n]["right"], m)
        linked == IF t.up[n] = NULL THEN kids ELSE PointTo(kids, t.up[n], n, m)
    IN [linked EXCEPT !.up[m] = t.up[n], !.kid[m] = t.kid[n], !.red[m] = t.red[n]]

\* bst_remove_node, and rbt_remove_node up to its loop: take y out of its
\* place.  If x is the root, y is the root from now on.
SpliceOut(t, n, m) ==
    LET kid == OnlyKid(t, m)
        linked == IF t.up[m] = NULL THEN t ELSE PointTo(t, t.up[m], m, kid)
        loose == SetUp(linked, kid, t.up[m])
    IN IF t.up[n] # NULL THEN loose
       ELSE [loose EXCEPT !.root = IF n = m THEN kid ELSE m]

\* The loop is skipped when a red node went, or when its red child can be
\* coloured instead.
KeepRed(t, n) == t                      \* defect: the red child stays red
Blackened(t, n) == Colour(t, {n}, FALSE)

Remove(n) ==
    /\ pc = "out" /\ n \in inside
    /\ inside' = inside \ {n}
    /\ LET m == Spliced(tree, n)
           kid == OnlyKid(tree, m)
           t == SpliceOut(tree, n, m)
       IN /\ x' = n /\ y' = m /\ c' = kid /\ p' = tree.up[m]
          /\ \/ /\ kind = "bst" \/ t.root = NULL \/ tree.red[m]
                /\ tree' = t /\ pc' = "replace"
             \/ /\ kind = "rbt" /\ t.root # NULL /\ ~tree.red[m]
                /\ IF Red(t, kid) THEN tree' = Blackened(t, kid) /\ pc' = "replace"
                                  ELSE tree' = t /\ pc' = "remove"
    /\ UNCHANGED <<kind, key, seen>>

\* The loop of rbt_remove_node: a black node is missing on the way to c.
Missing == c # tree.root /\ p # NULL /\ ~Red(tree, c)

RemoveDone ==
    /\ pc = "remove" /\ ~Missing
    /\ tree' = Colour(tree, {c}, FALSE)
    /\ pc' = "replace"
    /\ UNCHANGED <<kind, key, inside, x, y, c, p, seen>>

\* A red sibling is rotated away first; the turn goes on with the new one.
Aligned(t, d) ==
    LET w == t.kid[p][Other(d)]
    IN IF Red(t, w) THEN Rotate(Colour(Colour(t, {w}, FALSE), {p}, TRUE), p, d) ELSE t

\* The three cases of a turn: c is on side d of p, w is its sibling.
RemoveUp(t, d, w) ==
    /\ \A e \in Side : ~Red(t, t.kid[w][e])
    /\ tree' = Colour(t, {w}, TRUE)
    /\ c' = p /\ p' = t.up[p]

RemoveTurn(t, d, w) ==
    /\ Red(t, t.kid[w][d]) /\ ~Red(t, t.kid[w][Other(d)])
    /\ tree' = Rotate(Colour(Colour(t, {t.kid[w][d]}, FALSE), {w}, TRUE), w, Other(d))
    /\ UNCHANGED <<c, p>>

RemoveLast(t, d, w) ==
    LET coloured == Colour(Colour(t, {w}, t.red[p]), {p, t.kid[w][Other(d)]}, FALSE)
    IN /\ Red(t, t.kid[w][Other(d)])
       /\ tree' = Rotate(coloured, p, d)
       /\ c' = tree'.root
       /\ UNCHANGED p

RemoveLoop ==
    /\ pc = "remove" /\ Missing
    /\ LET d == IF tree.kid[p]["left"] = c THEN "left" ELSE "right"
           t == Aligned(tree, d)
           w == t.kid[p][Other(d)]
       IN /\ w # NULL
          /\ RemoveUp(t, d, w) \/ RemoveTurn(t, d, w) \/ RemoveLast(t, d, w)
    /\ UNCHANGED <<kind, key, inside, pc, x, y, seen>>

\* "out:" y, if it is not x, takes the place of x.
Replace ==
    /\ pc = "replace"
    /\ tree' = Cleared(IF x = y THEN tree ELSE Succeeds(tree, x, y), x)
    /\ Return
    /\ UNCHANGED <<kind, key, inside, seen>>

\* rbt_replace_node: another node with the same key takes the place of n.
ReplaceNode(n, m) ==
    /\ pc = "out" /\ n \in inside /\ m \notin inside /\ key[m] = key[n]
    /\ LET t == Succeeds(tree, n, m)
       IN tree' = Cleared(IF t.root = n THEN [t EXCEPT !.root = m] ELSE t, n)
    /\ inside' = (inside \ {n}) \cup {m}
    /\ UNCHANGED <<kind, key, pc, x, y, c, p, seen>>

-----------------------------------------------------------------------------
\* bst_free_all: x is head, y is last; the parent fields of the nodes from
\* head to last become a queue.
FreeAll ==
    /\ pc = "out" /\ tree.root # NULL
    /\ pc' = "free" /\ x' = tree.root /\ y' = tree.root
    /\ seen' = {}
    /\ UNCHANGED <<kind, key, tree, inside, c, p>>

KidOn(n, d) == IF tree.kid[n][d] = NULL THEN <<>> ELSE <<tree.kid[n][d]>>
LeftOnly(n) == KidOn(n, "left")         \* defect: the right child is left out
Kids(n) == KidOn(n, "left") \o KidOn(n, "right")

FreeHead ==
    /\ pc = "free" /\ x # NULL
    /\ LET line == <<y>> \o Kids(x)
           last == line[Len(line)]
           up == [n \in Node |->
                    IF n = last THEN NULL
                    ELSE IF \E i \in 1 .. Len(line) - 1 : line[i] = n
                         THEN line[1 + CHOOSE i \in 1 .. Len(line) - 1 : line[i] = n]
                         ELSE tree.up[n]]
       IN /\ tree' = [tree EXCEPT !.up = up]
          /\ x' = up[x] /\ y' = last
    /\ seen' = seen \cup {x}
    /\ UNCHANGED <<kind, key, inside, pc, c, p>>

FreeDone ==
    /\ pc = "free" /\ x = NULL
    /\ tree' = Empty
    /\ inside' = {} /\ seen' = {}
    /\ Return
    /\ UNCHANGED <<kind, key>>

-----------------------------------------------------------------------------
\* bst_travel, which bst_get_node_count counts with: x is root.
Travel ==
    /\ pc = "out" /\ tree.root # NULL
    /\ pc' = "travel" /\ x' = tree.root
    /\ seen' = {}
    /\ UNCHANGED <<kind, key, tree, inside, y, c, p>>

\* From a node without children, up to the first that has a right child on
\* the other side of the way, and there to the right.
RightAgain(n) ==                        \* defect: where it comes from is forgotten
    LET climb[m \in Node] ==
            LET q == tree.up[m]
            IN IF q = NULL THEN NULL
               ELSE IF tree.kid[q]["right"] = NULL THEN climb[q]
               ELSE tree.kid[q]["right"]
    IN climb[n]
UpAndRight(n) ==
    LET climb[m \in Node] ==
            LET q == tree.up[m]
            IN IF q = NULL THEN NULL
               ELSE IF tree.kid[q]["right"] \in {m, NULL} THEN climb[q]
               ELSE tree.kid[q]["right"]
    IN climb[n]

Visit ==
    /\ pc = "travel" /\ x # NULL
    /\ seen' = seen \cup {x}
    /\ x' = IF Kids(x) # <<>> THEN Kids(x)[1] ELSE UpAndRight(x)
    /\ UNCHANGED <<kind, key, tree, inside, pc, y, c, p>>

TravelDone ==
    /\ pc = "travel" /\ x = NULL
    /\ seen' = {}
    /\ Return
    /\ UNCHANGED <<kind, key, tree, inside>>

-----------------------------------------------------------------------------
Loop == \/ InsertDone \/ InsertRecolour \/ InsertRotate
        \/ RemoveDone \/ RemoveLoop \/ Replace
        \/ FreeHead \/ FreeDone \/ Visit \/ TravelDone

Next == \/ Loop \/ FreeAll \/ Travel
        \/ \E n \in Node : \/ Insert(n) \/ Remove(n)
                           \/ \E m \in Node : ReplaceNode(n, m)

Spec == Init /\ [][Next]_vars

\* A call that has begun goes on.
FairSpec == Spec /\ WF_vars(Loop)
-----------------------------------------------------------------------------
TypeOK ==
    /\ kind \in Kinds /\ key \in Keyings
    /\ tree \in [root : Pointer, up : [Node -> Pointer],
                 kid : [Node -> [Side -> Pointer]], red : [Node -> BOOLEAN]]
    /\ inside \subseteq Node
    /\ pc \in {"out", "insert", "remove", "replace", "free", "travel"}
    /\ x \in Pointer /\ y \in Pointer /\ c \in Pointer /\ p \in Pointer
    /\ seen \subseteq Node

\* The nodes below n, n included; and those above it, n included.
Closure(S, Step(_)) ==
    LET grow[T \in SUBSET Node] ==
            LET U == T \cup ((UNION {Step(n) : n \in T}) \ {NULL})
            IN IF U = T THEN T ELSE grow[U]
    IN grow[S \ {NULL}]
Below(n) == Closure({n}, LAMBDA m : {tree.kid[m][d] : d \in Side})
Above(n) == Closure({n}, LAMBDA m : {tree.up[m]})

\* While a node is being removed, it is still at its place in the tree, and y
\* is not.
Removing == pc \in {"remove", "replace"}
Top == IF Removing /\ x # y /\ tree.root = y THEN x ELSE tree.root
Present == IF Removing /\ x # y THEN (inside \cup {x}) \ {y} ELSE inside

\* After every step of a call the pointers spell one tree that holds the
\* nodes of the client and no others, with parents and children in agreement.
Linked ==
    TypeOK /\ (pc # "free" =>
        /\ Below(Top) = Present
        /\ Top # NULL => tree.up[Top] = NULL
        /\ \A n \in Present, d \in Side :
              tree.kid[n][d] # NULL => tree.up[tree.kid[n][d]] = n
        /\ \A n \in Present : tree.kid[n]["left"] = NULL
                              \/ tree.kid[n]["left"] # tree.kid[n]["right"])

\* M_rbtree.h: left < node <= right (after rotations: left <= node <= right),
\* in the middle of a call too.
Sorted ==
    pc # "free" =>
        \A n \in Present : /\ \A m \in Below(tree.kid[n]["left"]) : key[m] <= key[n]
                           /\ \A m \in Below(tree.kid[n]["right"]) : key[m] >= key[n]

\* The red-black rules, outside the calls and, with the one exception that
\* the loop is about to repair, inside them: a red node has black children,
\* except for x, being inserted, below its parent, and below c, about to be
\* blackened; and every way down passes the same number of black nodes,
\* counting one more for c while one is missing there.
Blacks(n) == Cardinality({m \in Above(n) : ~tree.red[m]})
             + (IF pc = "remove" /\ c \in Above(n) THEN 1 ELSE 0)
Ends == {e \in Present \X Side : tree.kid[e[1]][e[2]] = NULL}
BlacksTo(e) == Blacks(e[1])
               + (IF pc = "remove" /\ c = NULL /\ p = e[1] THEN 1 ELSE 0)
RedBlack ==
    kind = "rbt" /\ pc # "free" =>
        /\ pc = "out" => ~Red(tree, tree.root)
        /\ \A n \in Present, d \in Side :
              Red(tree, n) /\ Red(tree, tree.kid[n][d])
                  => \/ pc = "insert" /\ tree.kid[n][d] = x
                     \/ pc = "remove" /\ n = c
        /\ Cardinality({BlacksTo(e) : e \in Ends}) <= 1

\* bst_search, bst_search_gt and bst_search_lt.  Nearest(k, "right") is
\* bst_search_gt: the node with key k or else the next one above.
Search(k) ==
    LET down[n \in Pointer] ==
            IF n = NULL \/ key[n] = k THEN n ELSE down[tree.kid[n][GoesTo(k, n)]]
    IN down[tree.root]
NearestLast(k, d) ==                    \* defect: the last node of the path
    LET down[n \in Pointer] ==
            IF n = NULL \/ key[n] = k THEN n
            ELSE LET m == down[tree.kid[n][GoesTo(k, n)]] IN IF m = NULL THEN n ELSE m
    IN down[tree.root]
Nearest(k, d) ==
    LET down[n \in Pointer] ==
            IF n = NULL \/ key[n] = k THEN n
            ELSE LET m == down[tree.kid[n][GoesTo(k, n)]]
                 IN IF m = NULL /\ GoesTo(k, n) # d THEN n ELSE m
    IN down[tree.root]

\* A search finds a node with its key, if one is there, and otherwise the
\* nearest key on the side it asks for.
Beyond(d, a, b) == IF d = "right" THEN a > b ELSE a < b
Finds(k) ==
    LET hits == {n \in inside : key[n] = k}
    IN /\ IF hits = {} THEN Search(k) = NULL ELSE Search(k) \in hits
       /\ \A d \in Side :
             LET on == {n \in inside : ~Beyond(d, k, key[n])}
                 best == {n \in on : \A m \in on : ~Beyond(d, key[n], key[m])}
             IN IF on = {} THEN Nearest(k, d) = NULL ELSE Nearest(k, d) \in best

\* Successor and predecessor walk through all nodes in order of their keys,
\* and end at the last one.
WalksInOrder(d) ==
    /\ NextOn(tree, Outermost(tree, tree.root, d), d) = NULL
    /\ \A n \in inside \ {Outermost(tree, tree.root, d)} :
          LET m == NextOn(tree, n, d)
          IN /\ m \in inside \ {n} /\ NextOn(tree, m, Other(d)) = n
             /\ \A l \in inside : ~(Beyond(d, key[l], key[n]) /\ Beyond(d, key[m], key[l]))

\* bst_search, bst_search_gt, bst_search_lt, bst_successor and bst_predecessor
\* are right wherever rotations have left equal keys.
Navigates ==
    pc = "out" => /\ \A k \in {key[n] : n \in Node} : Finds(k)
                  /\ inside # {} => \A d \in Side : WalksInOrder(d)

\* bst_free_all frees every node once, though it has cut the tree's pointers;
\* bst_travel visits every node once.
EachOnce ==
    pc \in {"free", "travel"} =>
        IF x = NULL THEN seen = inside ELSE x \in inside \ seen

\* Every call returns: the loops come to an end.
Returns == (pc # "out") ~> (pc = "out")
=============================================================================
