----------------------------- MODULE RadixTree -----------------------------
(***************************************************************************)
(* The radix tree of M_radix_tree.c, with the pools that its nodes come    *)
(* from.  A node is the client's block of one key, or a split node that    *)
(* the tree makes where keys part; the client hands the tree one spare     *)
(* split node (dummy) before a call and takes one back (extra) after it.   *)
(*                                                                         *)
(* A node has no string of its own: at points into the string of some key, *)
(* and a split node borrows from a descendant.  The strings outlive the    *)
(* nodes here, as they do in the unit test.  The block of key k is named   *)
(* k.  The branches of a node are a red-black tree (RBTree); what the code *)
(* sees of it is the node on top, which is Head(kids), and the search by   *)
(* the first letter.  Up to three letters the top is exact: it is the one  *)
(* that came first, or the middle one of three.                            *)
(***************************************************************************)
EXTENDS Words, PoolInf

CONSTANTS Key, Split, NULL, MaxHeld    \* MaxHeld bounds the keys in the tree

ASSUME KeysAreWords == Key \subseteq Seq(1..3) /\ <<>> \notin Key
ASSUME MaxHeldNat == MaxHeld \in Nat
ASSUME NodesFinite == IsFiniteSet(Key) /\ IsFiniteSet(Split)
ASSUME SplitsAreNoKeys == Split \cap Key = {} /\ NULL \notin Key \cup Split

VARIABLES tree,          \* the root, and the fields of every node
          held,          \* the keys that the client has in the tree
          dummy, extra,  \* M_rt_arg
          pool,          \* the two pools of blocks
          pc, head, last \* the loop of rt_free_all

vars == <<tree, held, dummy, extra, pool, pc, head, last>>
loop == <<pc, head, last>>

Node == Key \cup Split
Pointer == Node \cup {NULL}
NoString == [str |-> NULL, off |-> 0]
Empty == [root |-> NULL, up |-> [n \in Node |-> NULL], kids |-> [n \in Node |-> <<>>],
          at |-> [n \in Node |-> NoString], len |-> [n \in Node |-> 0]]

Init ==
    /\ tree = Empty /\ held = {}
    /\ dummy = NULL /\ extra = NULL
    /\ pool = [valid |-> NoBlocks, invalid |-> NoBlocks]
    /\ pc = "out" /\ head = NULL /\ last = NULL

\* The fields of a node outside the tree mean nothing; the model clears them.
Cleared(t, n) == [t EXCEPT !.up[n] = NULL, !.kids[n] = <<>>, !.at[n] = NoString, !.len[n] = 0]
InTree(t) == {n \in Node : t.root = n \/ t.up[n] # NULL}
Valid(n) == n \in Key
Ahead(a, d) == [a EXCEPT !.off = @ + d]
\* The letter at a pointer; 0, the end of a C string, beyond the string.
Letter(a) == IF a.off + 1 \in DOMAIN a.str THEN a.str[a.off + 1] ELSE 0
First(t, n) == Letter(t.at[n])

-----------------------------------------------------------------------------
\* Branches: what rbt_insert_node and rbt_remove_node do to the top.
Joined(t, s, c) ==
    LET all == Append(s, c)
    IN IF Len(all) < 3 THEN all
       ELSE CHOOSE r \in [1..3 -> Range(all)] :
               First(t, r[2]) > First(t, r[1]) /\ First(t, r[1]) > First(t, r[3])
Branch(t, n, letter) == LET S == {c \in Range(t.kids[n]) : First(t, c) = letter}
                        IN IF S = {} THEN NULL ELSE CHOOSE c \in S : TRUE

\* search_node: how many letters of n agree with the key from position i.
Agree(t, n, k, i) ==
    LET most == IF t.len[n] < Len(k) - i THEN t.len[n] ELSE Len(k) - i
        differ(j) == Letter(Ahead(t.at[n], j)) # k[i + j + 1]
    IN CHOOSE j \in 0..most : /\ \A h \in 0..(j - 1) : ~differ(h)
                              /\ j = most \/ differ(j)

\* A search is at node t, NULL where a branch is missing, and at letter i of the
\* key; p is the last node left below, v the last client's node among those.
\* pos letters of t agree with the key.
LastAny(n, v) == n                      \* defect: a split node counts as the client's
LastValid(n, v) == IF Valid(n) THEN n ELSE v
Start(t) == [t |-> t.root, p |-> NULL, v |-> NULL, i |-> 0]
Pos(t, k, s) == IF s.t = NULL THEN t.len[s.p] ELSE Agree(t, s.t, k, s.i)
Stops(t, k, s) == \/ s.t = NULL
                  \/ Pos(t, k, s) < t.len[s.t]
                  \/ s.i + Pos(t, k, s) = Len(k)
                  \/ t.kids[s.t] = <<>>
Down(t, k, s) == LET i == s.i + Pos(t, k, s)
                 IN [t |-> Branch(t, s.t, k[i + 1]), p |-> s.t, v |-> LastValid(s.t, s.v), i |-> i]
Turn(t, k, s) == IF Stops(t, k, s) THEN s ELSE Down(t, k, s)

\* The way down, a turn of the loop a step: each turn but the first passes a
\* letter of the key.  i is the letter behind those that agree.
Walk(t, k) ==
    LET turn[j \in 0..Len(k) + 1] ==
            IF j = 0 THEN Start(t) ELSE Turn(t, k, turn[j - 1])
        s == turn[Len(k) + 1]
    IN [t |-> s.t, p |-> s.p, v |-> s.v, pos |-> Pos(t, k, s),
        i |-> IF s.t = NULL THEN s.i ELSE s.i + Pos(t, k, s)]
Hit(t, k, w) == w.t # NULL /\ w.pos = t.len[w.t] /\ w.i = Len(k)

\* rt_search in its three modes.  A root without a string is skipped, so p is
\* never that root.
Search(t, k) ==
    LET w == Walk(t, k)
        exact == IF Hit(t, k, w) THEN w.t ELSE NULL
        skipped == w.p # NULL /\ t.at[w.p] = NoString
    IN IF t.root = NULL THEN [exact |-> NULL, longest |-> NULL, longest_ex |-> NULL]
       ELSE [exact |-> exact,
             longest |-> IF exact # NULL THEN exact ELSE w.v,
             longest_ex |-> IF exact # NULL THEN exact ELSE IF skipped THEN NULL ELSE w.p]

-----------------------------------------------------------------------------
\* update_rt_parent, update_rt_children, add_rt_node, cut_and_add_rt_node,
\* rt_replace_node and rt_init_node.
UpdateParent(t, c) ==
    LET p == t.up[c]
    IN IF p = NULL THEN [t EXCEPT !.root = c]
       ELSE IF Valid(p) \/ t.kids[p] = <<>> \/ t.at[p] = NoString THEN t
       ELSE [t EXCEPT !.at[p] = Ahead(t.at[Head(t.kids[p])], -t.len[p])]

UpdateChildren(t, c) ==
    [t EXCEPT !.up = [n \in Node |-> IF n \in Range(t.kids[c]) THEN c ELSE t.up[n]]]

AddNode(t, p, c, a, l) ==
    LET placed == [t EXCEPT !.up[c] = p, !.at[c] = a, !.len[c] = l]
    IN [placed EXCEPT !.kids[p] = Joined(placed, @, c)]

Without(t, p, c) ==
    LET i == CHOOSE j \in DOMAIN t.kids[p] : t.kids[p][j] = c
    IN [t EXCEPT !.kids[p] = RemoveAt(@, i)]

CutAndAdd(t, cut, n, a, l) ==
    LET p == t.up[cut]
    IN IF p # NULL /\ l > 0 THEN UpdateParent(AddNode(Without(t, p, cut), p, n, a, l), n)
       ELSE [t EXCEPT !.root = n, !.up[n] = NULL, !.len[n] = l,
                      !.at[n] = IF l > 0 THEN a ELSE NoString]

KeepStart(t, old, new) ==                \* defect: the pointer is not moved
    IF Valid(new) THEN t.at[new] ELSE t.at[old]
NewStart(t, old, new) ==
    IF Valid(new) THEN Ahead(t.at[new], t.len[new] - t.len[old]) ELSE t.at[old]
ReplaceNode(t, old, new) ==
    LET p == t.up[old]
        hung == IF p = NULL THEN t
                ELSE [t EXCEPT !.kids[p] = [i \in DOMAIN @ |-> IF @[i] = old THEN new ELSE @[i]]]
    IN [hung EXCEPT !.up[new] = p, !.kids[new] = t.kids[old],
                    !.at[new] = NewStart(t, old, new), !.len[new] = t.len[old]]

InitNode(t, k) == [t EXCEPT !.up[k] = NULL, !.kids[k] = <<>>,
                            !.at[k] = [str |-> k, off |-> 0], !.len[k] = Len(k)]
From(k, i) == [str |-> k, off |-> i]

-----------------------------------------------------------------------------
\* rt_alloc, rt_free, rt_process_arg and rt_free_arg.  The client calls the
\* first of these before every insertion and removal.
KindOf(n) == IF Valid(n) THEN "valid" ELSE "invalid"
Alloc(ps, kind) == [ps EXCEPT ![kind] = PiAlloc(@)]
Free(ps, n) == IF n = NULL THEN ps ELSE [ps EXCEPT ![KindOf(n)] = PiFree(@)]
UnusedSplit == CHOOSE s \in Split : s \notin InTree(tree) \cup {dummy, extra}

ProcessArg ==
    /\ pc = "out" /\ (dummy = NULL \/ extra # NULL)
    /\ dummy # NULL \/ Split \ (InTree(tree) \cup {extra}) # {}     \* bound
    /\ dummy' = IF dummy = NULL THEN UnusedSplit ELSE dummy
    /\ extra' = NULL
    /\ LET ps == IF dummy = NULL THEN Alloc(pool, "invalid") ELSE pool
       IN pool' = Free(ps, extra)
    /\ UNCHANGED <<tree, held, loop>>

FreeArg ==
    /\ pc = "out" /\ (dummy # NULL \/ extra # NULL)
    /\ dummy' = NULL /\ extra' = NULL
    /\ pool' = Free(Free(pool, dummy), extra)
    /\ UNCHANGED <<tree, held, loop>>

DestroyPool ==
    /\ pc = "out"
    /\ pool' = [kind \in DOMAIN pool |-> PiDestroy(pool[kind])]
    /\ UNCHANGED <<tree, held, dummy, extra, loop>>

Ready == pc = "out" /\ dummy # NULL /\ extra = NULL

-----------------------------------------------------------------------------
\* rt_insert_node, for a block that rt_alloc and rt_init_node have prepared,
\* where w is the way down of its key.
Stop(w) == IF w.t = NULL THEN w.p ELSE w.t
Whole(w) == w.pos = tree.len[Stop(w)]
Prepared(k) == InitNode(tree, k)

Inserted(k) ==
    /\ held' = held \cup {k}
    /\ pool' = Alloc(pool, "valid")
    /\ UNCHANGED loop

InsertFirst(k) ==
    /\ Ready /\ tree.root = NULL /\ MaxHeld > 0
    /\ tree' = [Prepared(k) EXCEPT !.root = k]
    /\ Inserted(k) /\ UNCHANGED <<dummy, extra>>

\* The client's key is there: the client frees the new block.
InsertDuplicate(k, w) ==
    /\ Hit(tree, k, w) /\ Valid(w.t)
    /\ pool' = Free(Alloc(pool, "valid"), k)
    /\ UNCHANGED <<tree, held, dummy, extra, loop>>

InsertOnSplit(k, w) ==
    /\ Hit(tree, k, w) /\ ~Valid(w.t)
    /\ LET there == UpdateParent(ReplaceNode(Prepared(k), w.t, k), k)
       IN tree' = Cleared(UpdateChildren(there, k), w.t)
    /\ extra' = w.t
    /\ Inserted(k) /\ UNCHANGED dummy

InsertBelow(k, w) ==
    /\ Whole(w) /\ w.i < Len(k)
    /\ tree' = UpdateParent(AddNode(Prepared(k), Stop(w), k, From(k, w.i), Len(k) - w.i), k)
    /\ Inserted(k) /\ UNCHANGED <<dummy, extra>>

\* The rest of the node n, which is cut after its first pos letters.
Lower(t, n, p, pos) == AddNode(t, p, n, Ahead(tree.at[n], pos), tree.len[n] - pos)

InsertAbove(k, w) ==
    /\ ~Whole(w) /\ w.i = Len(k)
    /\ LET above == CutAndAdd(Prepared(k), w.t, k, From(k, w.i - w.pos), w.pos)
       IN tree' = Lower(above, w.t, k, w.pos)
    /\ Inserted(k) /\ UNCHANGED <<dummy, extra>>

InsertSplitting(k, w) ==
    /\ ~Whole(w) /\ w.i < Len(k)
    /\ LET above == CutAndAdd(Prepared(k), w.t, dummy, tree.at[w.t], w.pos)
           both == AddNode(Lower(above, w.t, dummy, w.pos), dummy, k, From(k, w.i), Len(k) - w.i)
       IN tree' = UpdateParent(both, w.t)
    /\ dummy' = NULL
    /\ Inserted(k) /\ UNCHANGED extra

InsertFurther(k) ==
    /\ Ready /\ tree.root # NULL /\ Cardinality(held) < MaxHeld
    /\ \E w \in {Walk(tree, k)} :
         \/ InsertDuplicate(k, w) \/ InsertOnSplit(k, w)
         \/ InsertBelow(k, w) \/ InsertAbove(k, w) \/ InsertSplitting(k, w)

-----------------------------------------------------------------------------
\* rt_remove (rt_search, and rt_remove_node of the node n that it finds), after
\* which the client frees n.  It may be a split node.
Removed(k, n) ==
    /\ held' = held \ {k}
    /\ pool' = Free(pool, n)
    /\ UNCHANGED loop

RemoveMissing(n) == n = NULL /\ UNCHANGED vars

RemoveOnly(k, n) ==
    /\ n # NULL /\ tree.kids[n] = <<>> /\ tree.up[n] = NULL
    /\ tree' = [Cleared(tree, n) EXCEPT !.root = NULL]
    /\ Removed(k, n) /\ UNCHANGED <<dummy, extra>>

\* The node c takes the place of its parent p, with the letters of both.
Joins(t, c, p) == CutAndAdd(t, p, c, Ahead(t.at[c], -t.len[p]), t.len[c] + t.len[p])

RemoveLeaf(k, n) ==
    LET p == tree.up[n]
        left == Without(tree, p, n)
    IN /\ n # NULL /\ tree.kids[n] = <<>> /\ p # NULL
       /\ IF Valid(p) \/ Len(left.kids[p]) > 1
          THEN tree' = Cleared(UpdateParent(left, n), n) /\ UNCHANGED extra
          ELSE tree' = Cleared(Cleared(Joins(left, Head(left.kids[p]), p), n), p) /\ extra' = p
       /\ Removed(k, n) /\ UNCHANGED dummy

RemoveOverOne(k, n) ==
    /\ n # NULL /\ Len(tree.kids[n]) = 1
    /\ LET joined == Joins(tree, Head(tree.kids[n]), n)
           p == tree.up[n]
       IN tree' = Cleared(IF p = NULL THEN joined ELSE UpdateChildren(joined, p), n)
    /\ Removed(k, n) /\ UNCHANGED <<dummy, extra>>

RemoveOverMany(k, n) ==
    /\ n # NULL /\ Len(tree.kids[n]) > 1
    /\ LET there == UpdateChildren(ReplaceNode(tree, n, dummy), dummy)
           renewed == UpdateParent(UpdateParent(there, Head(there.kids[dummy])), dummy)
       IN tree' = Cleared(renewed, n)
    /\ dummy' = NULL
    /\ Removed(k, n) /\ UNCHANGED extra

RemoveNode(k) ==
    /\ Ready
    /\ \E n \in {Search(tree, k).exact} :
         \/ RemoveMissing(n) \/ RemoveOnly(k, n) \/ RemoveLeaf(k, n)
         \/ RemoveOverOne(k, n) \/ RemoveOverMany(k, n)

-----------------------------------------------------------------------------
\* rt_free_all_p: a queue linked through the nodes' own parent fields, one
\* turn per node.  A freed node is not to be read again: its fields are gone.
FreeAll ==
    /\ pc = "out" /\ tree.root # NULL
    /\ pc' = "free" /\ head' = tree.root /\ last' = tree.root
    /\ UNCHANGED <<tree, held, dummy, extra, pool>>

ChainedFirst(t, s, from) ==             \* defect: only the top branch is queued
    [t EXCEPT !.up = [n \in Node |-> IF n = from /\ s # <<>> THEN s[1] ELSE t.up[n]]]
Chained(t, s, from) ==
    LET line == <<from>> \o s
    IN [t EXCEPT !.up = [n \in Node |->
          IF n \in Range(line) THEN LET i == CHOOSE j \in DOMAIN line : line[j] = n
                                    IN IF i = Len(line) THEN NULL ELSE line[i + 1]
          ELSE t.up[n]]]

FreeHead ==
    /\ pc = "free" /\ head # NULL
    /\ LET linked == Chained(tree, tree.kids[head], last)
       IN /\ last' = IF tree.kids[head] = <<>> THEN last ELSE Last(tree.kids[head])
          /\ head' = linked.up[head]
          /\ tree' = Cleared(linked, head)
    /\ pool' = Free(pool, head)
    /\ UNCHANGED <<held, dummy, extra, pc>>

FreeDone ==
    /\ pc = "free" /\ head = NULL
    /\ tree' = [tree EXCEPT !.root = NULL]
    /\ held' = {} /\ pc' = "out" /\ last' = NULL
    /\ UNCHANGED <<dummy, extra, pool, head>>

Next ==
    \/ \E k \in Key : InsertFirst(k) \/ InsertFurther(k) \/ RemoveNode(k)
    \/ ProcessArg \/ FreeArg \/ DestroyPool
    \/ FreeAll \/ FreeHead \/ FreeDone

Spec == Init /\ [][Next]_vars

-----------------------------------------------------------------------------
\* Every field has its type.
TypeOK ==
    /\ tree.root \in Pointer /\ tree.up \in [Node -> Pointer]
    /\ \A n \in Node : /\ Range(tree.kids[n]) \subseteq Node
                       /\ tree.at[n].str \in Key \cup {NULL}
                       /\ tree.at[n].off \in Nat /\ tree.len[n] \in Nat
    /\ held \subseteq Key /\ {dummy, extra} \subseteq Split \cup {NULL}
    /\ pc \in {"out", "free"} /\ {head, last} \subseteq Pointer

\* Down from the root the pieces that the nodes point to spell the held keys,
\* however the split nodes borrowed them: a node points to where its parent
\* ends, in a string that agrees with the parent's up to there; siblings begin
\* with different letters; the node of a key ends where its string ends; a
\* split node parts at least two nodes; parents and children agree.  There is a
\* node for every word that Tree names and no other.
EndOf(n) == tree.at[n].off + tree.len[n]
Spelled(n) == IF tree.at[n] = NoString THEN <<>> ELSE SubSeq(tree.at[n].str, 1, EndOf(n))
SpellsKeys ==
    pc = "out" =>
      /\ InTree(tree) \cap Key = held
      /\ {Spelled(n) : n \in InTree(tree)} = Tree(held)
      /\ \A n \in InTree(tree) :
           /\ tree.at[n] # NoString => EndOf(n) <= Len(tree.at[n].str)
           /\ n = tree.root => tree.up[n] = NULL /\ tree.at[n].off = 0
           /\ n # tree.root => tree.len[n] > 0 /\ n \in Range(tree.kids[tree.up[n]])
           /\ Valid(n) => tree.at[n].str = n /\ EndOf(n) = Len(n)
           /\ ~Valid(n) => Len(tree.kids[n]) > 1
           /\ \A i, j \in DOMAIN tree.kids[n] :
                i # j => First(tree, tree.kids[n][i]) # First(tree, tree.kids[n][j])
           /\ \A c \in Range(tree.kids[n]) :
                /\ tree.up[c] = n
                /\ tree.at[c].off = EndOf(n)
                /\ IsPrefix(Spelled(n), tree.at[c].str)

\* "longest/exact: returned node must be valid, longest_ex: returned node maybe
\* invalid", and "longest match" (M_radix_tree.h:25-26, 70): the exact search
\* finds the key's node, the longest match the node of the longest held key that
\* begins the key looked for, LONGEST_EX the longest node that does.
Best(S) == IF S = {} THEN <<>> ELSE LongestOf(S)
Longest(K, k) == Best(Prefixes(k) \cap K)
Queries == UNION {UNION {{Append(w, l) : l \in 1..3} : w \in Prefixes(k)} : k \in Key}
Answer(n) == IF n = NULL THEN <<>> ELSE Spelled(n)

SearchesKeepPromise ==
    pc = "out" =>
      \A k \in Queries :
        LET found == Search(tree, k)
        IN /\ found.exact = IF k \in held THEN k ELSE NULL
           /\ found.longest \in held \cup {NULL}
           /\ Answer(found.longest) = Longest(held, k)
           /\ Answer(found.longest_ex) = Longest(Tree(held), k)

\* The searches do so but in two cases: where held keys part at the end of the
\* key, its split node is found in every mode; and a held key that begins it is
\* missed if no other held key goes on from there.  Then a longest match is too
\* short, but it is a node that begins the key.
SearchesAnswer ==
    pc = "out" =>
      LET words == Tree(held)
      IN \A k \in Queries :
           LET found == Search(tree, k)
               longest == Longest(held, k)
               split == k \in words \ held
               leaf == longest \notin {<<>>, k} /\ ~Extended(held, longest)
           IN /\ found.exact \in held <=> k \in held
              /\ Answer(found.exact) = IF k \in words THEN k ELSE <<>>
              /\ split \/ found.longest \in held \cup {NULL}
              /\ IF split \/ leaf
                 THEN {Answer(found.longest), Answer(found.longest_ex)} \subseteq Prefixes(k)
                 ELSE /\ Answer(found.longest) = longest
                      /\ Answer(found.longest_ex) = Longest(words, k)

\* No block is lost or freed twice: what a pool took from the heap is in the
\* tree, in M_rt_arg or on the pool's list.
Accounted ==
    pc = "out" =>
      /\ pool["valid"].heap = pool["valid"].nr_blocks + Cardinality(held)
      /\ pool["invalid"].heap = pool["invalid"].nr_blocks + Cardinality(InTree(tree) \cap Split)
                                + Cardinality({dummy, extra} \ {NULL})

\* M_radix_tree.h:36-37: the string key points to "a string of its wrapper
\* structure in valid node", and to "branches->skey - current_node->skey_len in
\* invalid node".  So whatever a node points to is the string of a node in the
\* tree; the client may free the strings of the others with their nodes.
KeyPointersLive ==
    pc = "out" => \A n \in InTree(tree) : tree.at[n] = NoString \/ tree.at[n].str \in held
=============================================================================
