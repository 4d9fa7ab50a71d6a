----------------------------- MODULE RadixMata -----------------------------
(***************************************************************************)
(* The matcher of M_radix_mata.c: rules with wildcards in a radix tree     *)
(* (RadixTree, with elements for letters), the cut of its nodes at the     *)
(* wildcards (rm_matafy), and rm_match, which reads the input letter by    *)
(* letter and keeps a list of states.  A node is named by the word that    *)
(* ends at it (Words); cutting a node leaves its lower part the name.      *)
(*                                                                         *)
(* As the header demands, no rule has two wildcards in a row and the input *)
(* holds no wildcard; the input is not empty, and judge is NULL.           *)
(***************************************************************************)
EXTENDS Words

CONSTANTS RuleSets, Inputs, Wild,
          NoNode    \* NULL, for a node

ASSUME RulesAreWords ==
    \A R \in RuleSets :
        /\ R # {} /\ IsFiniteSet(R)
        /\ \A r \in R : /\ r \in Seq(Int) /\ r # <<>>
                        /\ \A i \in 1..(Len(r) - 1) : <<r[i], r[i + 1]>> # <<Wild, Wild>>
ASSUME InputsAreWords == \A s \in Inputs : s \in Seq(Int \ {Wild}) /\ s # <<>>
ASSUME NoNodeIsNoWord == NoNode \notin Seq(Int)

VARIABLES rules,   \* the rules in the tree: the valid nodes
          nodes,   \* the nodes
          wc_node, \* of a node, its wildcard child
          queue,   \* of rm_matafy
          rm_pc, input, key_pos,
          states,  \* every state made since the input was given
          match    \* match_head: the states that are followed, in order

rm_vars == <<rules, nodes, wc_node, queue, rm_pc, input, key_pos, states, match>>
rm_tree == <<rules, nodes, wc_node, queue>>

\* The shortest word is the root's.
Root == CHOOSE w \in nodes : \A v \in nodes : Len(w) <= Len(v)

RmInit ==
    /\ rules \in RuleSets
    /\ nodes = Tree(rules)
    /\ wc_node = [w \in nodes |-> NoNode]
    /\ queue = <<Root>>
    /\ rm_pc = "matafy"
    /\ input = <<>> /\ key_pos = 0 /\ states = <<>> /\ match = <<>>

-----------------------------------------------------------------------------
\* The nodes as a tree.  A piece is what a node adds to its parent's word.
Up(N, w) == LET P == {v \in N : IsStrictPrefix(v, w)} IN IF P = {} THEN NoNode ELSE LongestOf(P)
Start(N, w) == IF Up(N, w) = NoNode THEN 0 ELSE Len(Up(N, w))
Piece(N, w) == SubSeq(w, Start(N, w) + 1, Len(w))
Kids(N, w) == {v \in N : Up(N, v) = w}
Branch(N, w, c) == LET K == {v \in Kids(N, w) : v[Len(w) + 1] = c}
                   IN IF K = {} THEN NoNode ELSE CHOOSE v \in K : TRUE
IsWildcard(N, w) == w # <<>> /\ Piece(N, w)[1] = Wild

\* rm_splitnode: the letters of a piece up to the end of the word v become a
\* node of their own.  A tree in the making is a record t of its nodes and
\* wildcard children.
To(w, i) == SubSeq(w, 1, i)
Split(t, v) == LET N == t.nodes \cup {v}
               IN [nodes |-> N, wc |-> [u \in N |-> IF u \in t.nodes THEN t.wc[u] ELSE NoNode]]
SetWc(t, v) == LET p == Up(t.nodes, v)
               IN IF p = NoNode THEN t ELSE [t EXCEPT !.wc[p] = v]

InnerFirst(w, i, j) ==                  \* defect: the loop ends at its first wildcard
    {k \in i..j : w[k] = Wild /\ \A h \in i..(k - 1) : w[h] # Wild}
Inner(w, i, j) == {k \in i..j : w[k] = Wild}

CutOut(t, w, k) == SetWc(Split(Split(t, To(w, k - 1)), To(w, k)), To(w, k))

\* rm_matafy_node: a wildcard in front is cut off, one at the end, and then
\* every one between.
MatafyNode(t, w) ==
    LET s == Start(t.nodes, w)
        n == Len(w)
        front == IF w[s + 1] = Wild THEN SetWc(Split(t, To(w, s + 1)), To(w, s + 1)) ELSE t
        back == IF w[n] = Wild THEN SetWc(Split(front, To(w, n - 1)), w) ELSE front
        cut[k \in 0..(n - 1)] ==
            IF k = 0 THEN back
            ELSE IF k \in Inner(w, s + 2, n - 1) THEN CutOut(cut[k - 1], w, k) ELSE cut[k - 1]
    IN IF n - s = 0 THEN t
       ELSE IF n - s = 1 THEN IF w[n] = Wild THEN SetWc(t, w) ELSE t
       ELSE cut[n - 1]

\* A turn of rm_matafy: the children of the node go to the queue, in the order
\* of their letters, before it is cut.  An empty queue is the return.
InOrder(S, i) == CHOOSE q \in [1..Cardinality(S) -> S] :
                    \A h, k \in DOMAIN q : h < k => q[h][i] < q[k][i]
Matafy ==
    /\ rm_pc = "matafy" /\ queue # <<>>
    /\ LET w == Head(queue)
           t == MatafyNode([nodes |-> nodes, wc |-> wc_node], w)
       IN /\ nodes' = t.nodes /\ wc_node' = t.wc
          /\ queue' = Tail(queue) \o InOrder(Kids(nodes, w), Len(w) + 1)
    /\ UNCHANGED <<rules, rm_pc, input, key_pos, states, match>>

MatafyDone ==
    /\ rm_pc = "matafy" /\ queue = <<>>
    /\ rm_pc' = "ready"
    /\ UNCHANGED <<rm_tree, input, key_pos, states, match>>

-----------------------------------------------------------------------------
\* The states.  While a letter is read the lists are a record a: the states
\* made so far, those to be added (the newest first) and those to be removed.
State(w, parent, pos, at) ==
    [rm_stub |-> w, parent |-> parent, pos |-> pos, enter_pos |-> at, nr_child_states |-> 0]
Added(a, s) == [a EXCEPT !.st = Append(@, s), !.add = <<Len(a.st) + 1>> \o @]
Wildcard(s) == IsWildcard(nodes, s.rm_stub)
AtEnd(s) == s.pos = Len(Piece(nodes, s.rm_stub))
Valid(s) == s.rm_stub \in rules

\* The nearest wildcard above state i; 0 is NULL.
AboveOf(st, i) ==
    LET up[j \in 0..Len(st)] == IF j = 0 THEN 0 ELSE IF Wildcard(st[j]) THEN j ELSE up[st[j].parent]
    IN up[st[i].parent]

\* rm_process_wc_child: a wildcard that the letter c may end.
ProcessWcChild(a, i, c, at) ==
    LET t == Branch(nodes, a.st[i].rm_stub, c)
    IN IF t = NoNode THEN a
       ELSE Added([a EXCEPT !.st[i].nr_child_states = @ + 1], State(t, i, 1, at))

RemoveQuietly(a, i) ==                  \* defect: the wildcard above keeps its count
    [a EXCEPT !.remove = @ \cup {i}]
RemoveState(a, i) ==
    LET p == AboveOf(a.st, i)
        b == IF p = 0 THEN a ELSE [a EXCEPT !.st[p].nr_child_states = @ - 1]
    IN [b EXCEPT !.remove = @ \cup {i}]

\* rm_match_state, of a state that is not at a wildcard: at the end of its
\* piece it enters the wildcard below, whose wildcard above may then go.
EnterWildcard(a, i, c, at) ==
    LET w == wc_node[a.st[i].rm_stub]
        p == AboveOf(a.st, i)
        over == /\ p # 0 /\ p \in Range(match) \ a.remove
                /\ a.st[p].nr_child_states = 0 /\ ~Valid(a.st[p])
        b == Added(a, State(w, i, 0, at))
        d == IF over THEN [b EXCEPT !.remove = @ \cup {p}] ELSE b
    IN IF w = NoNode THEN a ELSE ProcessWcChild(d, Len(a.st) + 1, c, at)

MoveOn(a, i, c) ==
    LET t == Branch(nodes, a.st[i].rm_stub, c)
    IN IF t = NoNode THEN RemoveState(a, i)
       ELSE [a EXCEPT !.st[i].rm_stub = t, !.st[i].pos = 1]

MatchState(a, i, c, at) ==
    LET s == a.st[i]
    IN IF Wildcard(s) THEN ProcessWcChild(a, i, c, at)
       ELSE IF AtEnd(s) THEN MoveOn(EnterWildcard(a, i, c, at), i, c)
       ELSE IF Piece(nodes, s.rm_stub)[s.pos + 1] = c THEN [a EXCEPT !.st[i].pos = @ + 1]
       ELSE RemoveState(a, i)

NothingYet == [st |-> <<>>, add |-> <<>>, remove |-> {}]

-----------------------------------------------------------------------------
\* rm_handle_insert_string, and rm_match with the first letter: a wildcard at
\* the root is entered, and the branch of the letter.
FirstWildcard == IF Root = <<>> THEN wc_node[Root] ELSE IF IsWildcard(nodes, Root) THEN Root
                 ELSE NoNode
FirstBranch(c) == IF Root = <<>> THEN Branch(nodes, Root, c) ELSE IF Root[1] = c THEN Root
                  ELSE NoNode

StartMatch(s) ==
    /\ rm_pc \in {"ready", "done"}
    /\ LET c == s[1]
           a == IF FirstWildcard = NoNode THEN NothingYet
                ELSE ProcessWcChild(Added(NothingYet, State(FirstWildcard, 0, 0, 0)), 1, c, 0)
           b == IF FirstBranch(c) = NoNode THEN a ELSE Added(a, State(FirstBranch(c), 0, 1, 0))
       IN states' = b.st /\ match' = [i \in 1..Len(b.st) |-> i]
    /\ rm_pc' = "match" /\ input' = s /\ key_pos' = 1
    /\ UNCHANGED rm_tree

\* A list of states without some of them.
Kept(s, R) ==
    LET kept[k \in 0..Len(s)] == IF k = 0 THEN <<>>
                                 ELSE IF s[k] \in R THEN kept[k - 1] ELSE Append(kept[k - 1], s[k])
    IN kept[Len(s)]

\* rm_match_char: every state on the list meets the letter; then the new ones
\* are appended and the others taken out.
MatchChar ==
    /\ rm_pc = "match" /\ key_pos < Len(input)
    /\ LET met[k \in 0..Len(match)] ==
               IF k = 0 THEN [NothingYet EXCEPT !.st = states]
               ELSE MatchState(met[k - 1], match[k], input[key_pos + 1], key_pos)
           a == met[Len(match)]
       IN /\ states' = a.st
          /\ match' = Kept(match \o a.add, a.remove)
    /\ key_pos' = key_pos + 1
    /\ UNCHANGED <<rm_tree, rm_pc, input>>

\* The end of rm_match: what remains has to be at the end of a rule; a rule
\* whose last wildcard matches nothing gets a state for it.
FinishedEarly(s) == Valid(s)            \* defect: the rest of the last piece is not asked for
Finished(s) == Valid(s) /\ (Wildcard(s) \/ AtEnd(s))
HasTail(s) == /\ ~Wildcard(s) /\ AtEnd(s)
              /\ wc_node[s.rm_stub] # NoNode /\ wc_node[s.rm_stub] \in rules
MatchEnd ==
    /\ rm_pc = "match" /\ key_pos = Len(input)
    /\ LET tail[k \in 0..Len(match)] ==
               IF k = 0 THEN [NothingYet EXCEPT !.st = states]
               ELSE IF HasTail(states[match[k]])
               THEN Added(tail[k - 1], State(wc_node[states[match[k]].rm_stub], match[k], 0, key_pos))
               ELSE tail[k - 1]
           a == tail[Len(match)]
       IN /\ states' = a.st
          /\ match' = Kept(match, {i \in Range(match) : ~Finished(states[i])}) \o a.add
    /\ rm_pc' = "done"
    /\ UNCHANGED <<rm_tree, input, key_pos>>

\* The pool of the handle is used up: rm_match returns -1.
RunOut ==
    /\ rm_pc = "match"
    /\ rm_pc' = "ready"
    /\ UNCHANGED <<rm_tree, input, key_pos, states, match>>

RmNext == \/ Matafy \/ MatafyDone \/ MatchChar \/ MatchEnd \/ RunOut
          \/ \E s \in Inputs : StartMatch(s)

RmSpec == RmInit /\ [][RmNext]_rm_vars

-----------------------------------------------------------------------------
\* rm_parse_result (the wildcards of a match, from the first to the last) and
\* rm_parse_total_result (all its segments): where they enter and leave.
Chain(i) ==
    LET up[j \in 0..Len(states)] == IF j = 0 THEN <<>> ELSE Append(up[states[j].parent], j)
    IN up[i]
Segment(line, k) ==
    [enter |-> states[line[k]].enter_pos,
     leave |-> IF k = Len(line) THEN Len(input) ELSE states[line[k + 1]].enter_pos]
TotalResult(i) == [k \in DOMAIN Chain(i) |-> Segment(Chain(i), k)]
Result(i) ==
    LET wild(k) == Wildcard(states[Chain(i)[k]])
        ks == SelectSeq([k \in DOMAIN Chain(i) |-> k], wild)
    IN [k \in DOMAIN ks |-> TotalResult(i)[ks[k]]]

\* After rm_matafy every wildcard is a node alone and its parent knows it; the
\* nodes that were cut off end just before or at a wildcard.
Matafied ==
    rm_pc # "matafy" =>
      /\ \A w \in nodes : Wild \in Range(Piece(nodes, w)) => Len(Piece(nodes, w)) = 1
      /\ \A w \in nodes : wc_node[w] = IF Append(w, Wild) \in nodes THEN Append(w, Wild) ELSE NoNode
      /\ Tree(rules) \subseteq nodes
      /\ \A w \in nodes \ Tree(rules) : Last(w) = Wild \/ Append(w, Wild) \in nodes

\* The count of a wildcard's child states, by which it may be dropped, is the
\* number of states followed that have it as the nearest wildcard above: the
\* states change in place, split and die under it over the whole input.
CountsChildren ==
    rm_pc = "match" =>
      \A i \in DOMAIN states :
        Wildcard(states[i]) =>
          states[i].nr_child_states =
            Cardinality({j \in Range(match) : ~Wildcard(states[j]) /\ AboveOf(states, j) = i})

\* What a rule with wildcards matches: the ways to give each wildcard a part
\* of the input, perhaps none of it, such that rule and input agree.
Ways(r, s) ==
    LET way[i \in 0..Len(r), j \in 0..Len(s)] ==
          IF i = Len(r) THEN IF j = Len(s) THEN {<<>>} ELSE {}
          ELSE IF r[i + 1] = Wild
          THEN UNION {{<<[enter |-> j, leave |-> l]>> \o w : w \in way[i + 1, l]} : l \in j..Len(s)}
          ELSE IF j < Len(s) /\ r[i + 1] = s[j + 1] THEN way[i + 1, j + 1] ELSE {}
    IN way[0, 0]

\* rm_match finds every rule that matches, in every way in which it does, each
\* once, and nothing else; and the segments of a match make up the input.
FindsEveryMatch ==
    rm_pc = "done" =>
      /\ {<<states[i].rm_stub, Result(i)>> : i \in Range(match)} =
         UNION {{<<r, w>> : w \in Ways(r, input)} : r \in rules}
      /\ \A i, j \in DOMAIN match :
           i # j => <<states[match[i]].rm_stub, Result(match[i])>> #
                    <<states[match[j]].rm_stub, Result(match[j])>>
      /\ \A i \in Range(match) :
           /\ TotalResult(i)[1].enter = 0
           /\ \A k \in 2..Len(TotalResult(i)) : TotalResult(i)[k].enter = TotalResult(i)[k - 1].leave
=============================================================================
