-------------------------- MODULE RadixMata_proofs --------------------------
(***************************************************************************)
(* The matcher, for every finite set of rules and every input, however     *)
(* many and however long: rm_matafy cuts the tree at every wildcard and    *)
(* nowhere else, and the counts of child states are exact while the input  *)
(* is read.                                                                *)
(*                                                                         *)
(* In order: words and trees of words; the cuts of one node, one after     *)
(* another; the queue; what a cut does to the tree; the invariant of       *)
(* rm_matafy and the first theorem; the nodes that states move to; the     *)
(* lists of states, and each change of them that the code makes; a letter  *)
(* and the list that it leaves; the invariant of rm_match and the second.  *)
(***************************************************************************)
EXTENDS RadixMata, FiniteSetTheorems, SequenceTheorems, WellFoundedInduction, TLAPS

LEMMA LeastOf ==
    ASSUME NEW T \in SUBSET Nat, T # {}
    PROVE  \E a \in T : \A b \in T : a <= b
<1> DEFINE R == OpToRel(<, Nat)
<1>1. \A a, b \in Nat : a < b => <<a, b>> \in R
  BY DEF OpToRel
<1>2. \E a \in T : \A b \in T : ~(<<b, a>> \in R)
  <2>1. IsWellFoundedOn(R, Nat)
    BY NatLessThanWellFounded
  <2> HIDE DEF R
  <2> QED
    BY <2>1, WFMin
<1> HIDE DEF R
<1>3. PICK a \in T : \A b \in T : ~(<<b, a>> \in R)
  BY <1>2, Zenon
<1>4. \A b \in T : ~(b < a)
  BY <1>1, <1>3, Zenon
<1> QED
  BY <1>4

\* The greatest of a set of numbers with a bound.
LEMMA MostOf ==
    ASSUME NEW T \in SUBSET Nat, T # {}, NEW m \in Nat, \A a \in T : a <= m
    PROVE  \E a \in T : \A b \in T : b <= a
<1> DEFINE U == {i \in Nat : \E a \in T : i = m - a}
<1>1. U \in SUBSET Nat /\ \A a \in T : m - a \in U
  OBVIOUS
<1>2. U # {}
  BY <1>1
<1> HIDE DEF U
<1>3. PICK i \in U : \A j \in U : i <= j
  BY <1>1, <1>2, LeastOf
<1>4. PICK a \in T : i = m - a
  BY <1>3 DEF U
<1>5. \A b \in T : m - a <= m - b
  BY <1>1, <1>3, <1>4
<1> QED
  BY <1>4, <1>5
-----------------------------------------------------------------------------
\* Words: one is the beginning of another.
Text == Seq(Int)
Pre(u, v) == Len(u) <= Len(v) /\ \A j \in 1 .. Len(u) : u[j] = v[j]
Under(u, v) == Pre(u, v) /\ Len(u) < Len(v)

LEMMA TextIs ==
    ASSUME NEW u \in Text
    PROVE  /\ Len(u) \in Nat /\ DOMAIN u = 1 .. Len(u) /\ \A j \in 1 .. Len(u) : u[j] \in Int
           /\ u = <<>> <=> Len(u) = 0
BY DEF Text

LEMMA TextEqual ==
    ASSUME NEW u \in Text, NEW v \in Text, Pre(u, v), Len(v) <= Len(u)
    PROVE  u = v
<1>1. Len(u) = Len(v) /\ \A j \in 1 .. Len(u) : u[j] = v[j]
  BY TextIs DEF Pre
<1> QED
  BY <1>1, SeqEqual DEF Text

LEMMA PreTrans ==
    ASSUME NEW u \in Text, NEW v \in Text, NEW w \in Text, Pre(u, v), Pre(v, w)
    PROVE  Pre(u, w)
BY TextIs DEF Pre

\* Of two beginnings of a word the shorter is one of the longer.
LEMMA PreBoth ==
    ASSUME NEW u \in Text, NEW v \in Text, NEW w \in Text, Pre(u, w), Pre(v, w), Len(u) <= Len(v)
    PROVE  Pre(u, v)
BY TextIs DEF Pre

LEMMA ToIs ==
    ASSUME NEW w \in Text, NEW i \in 0 .. Len(w)
    PROVE  /\ To(w, i) \in Text /\ Len(To(w, i)) = i /\ Pre(To(w, i), w)
           /\ \A j \in 1 .. i : To(w, i)[j] = w[j]
<1>1. i \in Nat /\ i <= Len(w) /\ \A j \in 1 .. i : w[j] \in Int
  BY TextIs
<1>2. /\ SubSeq(w, 1, i) \in Seq(Int) /\ Len(SubSeq(w, 1, i)) = i
      /\ \A j \in 1 .. i : SubSeq(w, 1, i)[j] = w[j]
  BY <1>1, SubSeqProperties DEF Text
<1> QED
  BY <1>1, <1>2 DEF Text, To, Pre

LEMMA PreTo ==
    ASSUME NEW u \in Text, NEW w \in Text, Pre(u, w)
    PROVE  u = To(w, Len(u))
<1>1. Len(u) \in 0 .. Len(w)
  BY TextIs DEF Pre
<1>2. Pre(u, To(w, Len(u)))
  BY <1>1, ToIs, TextIs DEF Pre
<1> QED
  BY <1>1, <1>2, ToIs, TextEqual, TextIs

LEMMA ToPre ==
    ASSUME NEW w \in Text, NEW i \in 0 .. Len(w), NEW j \in 0 .. i
    PROVE  Pre(To(w, j), To(w, i))
<1>1. j \in 0 .. Len(w) /\ j <= i
  BY TextIs
<1> QED
  BY <1>1, ToIs, PreBoth

LEMMA StrictIs ==
    ASSUME NEW u \in Text, NEW v \in Text
    PROVE  IsStrictPrefix(u, v) <=> Under(u, v)
<1>1. Len(u) <= Len(v) => (SubSeq(u, 1, Len(u)) = SubSeq(v, 1, Len(u)) <=> Pre(u, v))
  <2> SUFFICES ASSUME Len(u) <= Len(v)
               PROVE  SubSeq(u, 1, Len(u)) = SubSeq(v, 1, Len(u)) <=> Pre(u, v)
    OBVIOUS
  <2>1. Len(u) \in 0 .. Len(u) /\ Len(u) \in 0 .. Len(v)
    BY TextIs
  <2>2. To(u, Len(u)) = u
    BY PreTo, TextIs DEF Pre
  <2>3. To(v, Len(u)) = u <=> Pre(u, v)
    BY <2>1, ToIs, PreTo
  <2> QED
    BY <2>2, <2>3 DEF To
<1>2. Pre(u, v) => (u # v <=> Len(u) < Len(v))
  BY TextIs, TextEqual
<1> QED
  BY <1>1, <1>2, TextIs DEF IsStrictPrefix, IsPrefix, Pre, Under
-----------------------------------------------------------------------------
\* The node above a word in a set of nodes.
LEMMA UpNone ==
    ASSUME NEW N \in SUBSET Text, NEW w \in Text, \A v \in N : ~Under(v, w)
    PROVE  Up(N, w) = NoNode /\ Start(N, w) = 0
<1>1. {v \in N : IsStrictPrefix(v, w)} = {}
  BY StrictIs
<1> QED
  BY <1>1 DEF Up, Start

Above(N, w, p) == p \in N /\ Under(p, w) /\ \A v \in N : Under(v, w) => Len(v) <= Len(p)

LEMMA UpGiven ==
    ASSUME NEW N \in SUBSET Text, NEW w \in Text, NEW p, Above(N, w, p)
    PROVE  Up(N, w) = p /\ Start(N, w) = Len(p) /\ p # NoNode
<1>1. PICK P : P = {v \in N : IsStrictPrefix(v, w)}
  OBVIOUS
<1>2. p \in P /\ (\A v \in P : Len(v) <= Len(p)) /\ \A v \in P : v \in Text /\ Pre(v, w)
  BY <1>1, StrictIs DEF Above, Under
<1>3. LongestOf(P) = p
  <2>1. ASSUME NEW q \in P, \A v \in P : Len(v) <= Len(q)
        PROVE  q = p
    <3>1. Len(q) = Len(p) /\ Pre(q, p)
      BY <1>2, <2>1, TextIs, PreBoth
    <3> QED
      BY <1>2, <2>1, <3>1, TextEqual, TextIs
  <2>2. p = CHOOSE q \in P : \A v \in P : Len(v) <= Len(q)
    BY <1>2, <2>1
  <2> QED
    BY <2>2 DEF LongestOf
<1>4. p # NoNode
  BY NoNodeIsNoWord, <1>2 DEF Text
<1>5. Up(N, w) = p
  BY <1>1, <1>2, <1>3 DEF Up
<1> QED
  BY <1>4, <1>5 DEF Start

LEMMA UpIs ==
    ASSUME NEW N \in SUBSET Text, NEW w \in Text
    PROVE  \/ Up(N, w) = NoNode /\ Start(N, w) = 0 /\ \A v \in N : ~Under(v, w)
           \/ Up(N, w) # NoNode /\ Start(N, w) = Len(Up(N, w)) /\ Above(N, w, Up(N, w))
<1>1. CASE \E v \in N : Under(v, w)
  <2> DEFINE T == {i \in Nat : \E v \in N : Under(v, w) /\ i = Len(v)}
  <2>1. T \in SUBSET Nat /\ T # {} /\ \A i \in T : i <= Len(w)
    BY <1>1, TextIs DEF Under
  <2>2. Len(w) \in Nat /\ \A v \in N : Under(v, w) => Len(v) \in T
    BY TextIs
  <2>3. \A i \in T : \E v \in N : Under(v, w) /\ i = Len(v)
    OBVIOUS
  <2> HIDE DEF T
  <2>4. PICK m \in T : \A i \in T : i <= m
    BY <2>1, <2>2, MostOf
  <2>5. PICK p \in N : Under(p, w) /\ m = Len(p)
    BY <2>3
  <2>6. Above(N, w, p)
    BY <2>2, <2>4, <2>5 DEF Above
  <2> QED
    BY <2>6, UpGiven
<1> QED
  BY <1>1, UpNone

LEMMA StartIs ==
    ASSUME NEW N \in SUBSET Text, NEW w \in Text
    PROVE  /\ Start(N, w) \in 0 .. Len(w) /\ (w # <<>> => Start(N, w) < Len(w))
           /\ \A v \in N : Under(v, w) => Len(v) <= Start(N, w)
           /\ Up(N, w) = NoNode => Start(N, w) = 0
           /\ Up(N, w) # NoNode => Up(N, w) = To(w, Start(N, w)) /\ Up(N, w) \in N
<1>1. CASE Up(N, w) = NoNode
  <2>1. Start(N, w) = 0 /\ \A v \in N : ~Under(v, w)
    BY <1>1, UpIs
  <2>2. Len(w) \in Nat /\ (w # <<>> => 0 < Len(w))
    BY TextIs
  <2> QED
    BY <1>1, <2>1, <2>2
<1>2. CASE Up(N, w) # NoNode
  <2>1. Start(N, w) = Len(Up(N, w)) /\ Above(N, w, Up(N, w))
    BY <1>2, UpIs
  <2>2. Up(N, w) = To(w, Len(Up(N, w)))
    BY <2>1, PreTo DEF Above, Under
  <2> QED
    BY <1>2, <2>1, <2>2, TextIs DEF Above, Under
<1> QED
  BY <1>1, <1>2

LEMMA PieceIs ==
    ASSUME NEW N \in SUBSET Text, NEW w \in Text
    PROVE  /\ Len(Piece(N, w)) = Len(w) - Start(N, w)
           /\ Piece(N, w) \in Text
           /\ \A j \in 1 .. Len(Piece(N, w)) : Piece(N, w)[j] = w[Start(N, w) + j]
           /\ \A c : c \in Range(Piece(N, w)) <=> \E j \in Start(N, w) + 1 .. Len(w) : c = w[j]
<1>1. PICK s \in 0 .. Len(w) : s = Start(N, w)
  BY StartIs
<1>2. Len(w) \in Nat /\ \A j \in 1 .. Len(w) : w[j] \in Int
  BY TextIs
<1>3. PICK q : q = SubSeq(w, s + 1, Len(w))
  OBVIOUS
<1>4. q \in Seq(Int) /\ Len(q) = Len(w) - s /\ \A j \in 1 .. Len(q) : q[j] = w[s + j]
  BY <1>2, <1>3, SubSeqProperties DEF Text
<1>5. DOMAIN q = 1 .. Len(q)
  BY <1>4
<1>6. \A c : c \in Range(q) <=> \E j \in s + 1 .. Len(w) : c = w[j]
  <2> TAKE c
  <2>1. ASSUME NEW i \in 1 .. Len(q)
        PROVE  s + i \in s + 1 .. Len(w) /\ q[i] = w[s + i]
    BY <1>2, <1>4
  <2>2. ASSUME NEW j \in s + 1 .. Len(w)
        PROVE  j - s \in 1 .. Len(q) /\ q[j - s] = w[j]
    <3>1. j - s \in 1 .. Len(q) /\ s + (j - s) = j
      BY <1>2, <1>4
    <3> QED
      BY <1>4, <3>1
  <2>3. c \in Range(q) <=> \E i \in 1 .. Len(q) : c = q[i]
    BY <1>5 DEF Range
  <2> QED
    BY <2>1, <2>2, <2>3
<1> QED
  BY <1>1, <1>3, <1>4, <1>6 DEF Piece, Text
-----------------------------------------------------------------------------
\* Two words that part after i letters; a tree has a node wherever its words part.
Part(u, v, i) == /\ i \in Nat /\ i < Len(u) /\ i < Len(v)
                 /\ (\A j \in 1 .. i : u[j] = v[j]) /\ u[i + 1] # v[i + 1]
Closed(N) == /\ N \in SUBSET Text
             /\ \A u, v \in N : \A i \in Nat : Part(u, v, i) => To(u, i) \in N

LEMMA PartOr ==
    ASSUME NEW u \in Text, NEW v \in Text, ~Pre(u, v), ~Pre(v, u)
    PROVE  \E i \in Nat : Part(u, v, i)
<1> DEFINE T == {i \in Nat : i < Len(u) /\ i < Len(v) /\ u[i + 1] # v[i + 1]}
<1>1. Len(u) \in Nat /\ Len(v) \in Nat
  BY TextIs
<1>2. T # {}
  <2> SUFFICES ASSUME T = {} PROVE FALSE
    OBVIOUS
  <2>1. ASSUME NEW j \in Nat \ {0}, j <= Len(u), j <= Len(v)
        PROVE  u[j] = v[j]
    <3>1. j - 1 \in Nat /\ j - 1 < Len(u) /\ j - 1 < Len(v) /\ (j - 1) + 1 = j
      BY <1>1, <2>1
    <3> QED
      BY <3>1
  <2> HIDE DEF T
  <2>2. Len(u) <= Len(v) \/ Len(v) <= Len(u)
    BY <1>1
  <2>3. \A j \in 1 .. Len(u) : j \in Nat \ {0}
    BY <1>1
  <2>4. \A j \in 1 .. Len(v) : j \in Nat \ {0}
    BY <1>1
  <2>5. Len(u) <= Len(v) => Pre(u, v)
    BY <1>1, <2>1, <2>3 DEF Pre
  <2>6. Len(v) <= Len(u) => Pre(v, u)
    BY <1>1, <2>1, <2>4 DEF Pre
  <2> QED
    BY <2>2, <2>5, <2>6
<1>3. PICK i \in T : \A j \in T : i <= j
  BY <1>2, LeastOf, T \in SUBSET Nat
<1>4. ASSUME NEW j \in 1 .. i
      PROVE  u[j] = v[j]
  <2>1. j - 1 \in Nat /\ j - 1 < i /\ (j - 1) + 1 = j
    BY <1>3
  <2>2. j - 1 \notin T
    BY <1>3, <2>1
  <2>3. j - 1 < Len(u) /\ j - 1 < Len(v)
    BY <1>1, <1>3, <2>1
  <2> QED
    BY <2>1, <2>2, <2>3
<1> QED
  BY <1>3, <1>4 DEF Part

\* Words part where their beginnings part, and a beginning of both is one of
\* what they have in common.
LEMMA PartFrom ==
    ASSUME NEW u \in Text, NEW v \in Text, NEW i \in Nat, Part(u, v, i),
           NEW a \in Text, Pre(u, a), NEW b \in Text, Pre(v, b)
    PROVE  Part(a, b, i) /\ To(a, i) = To(u, i) /\ Part(v, u, i) /\ To(v, i) = To(u, i)
<1>1. /\ Len(u) \in Nat /\ Len(v) \in Nat /\ Len(a) \in Nat /\ Len(b) \in Nat
      /\ Len(u) <= Len(a) /\ Len(v) <= Len(b)
      /\ \A j \in 1 .. Len(u) : u[j] = a[j]
      /\ \A j \in 1 .. Len(v) : v[j] = b[j]
  BY TextIs DEF Pre
<1>2. /\ i < Len(u) /\ i < Len(v) /\ u[i + 1] # v[i + 1]
      /\ \A j \in 1 .. i : u[j] = v[j]
  BY DEF Part
<1>3. \A j \in 1 .. i + 1 : j \in 1 .. Len(u) /\ j \in 1 .. Len(v)
  BY <1>1, <1>2
<1>4. Part(a, b, i)
  <2>1. i + 1 \in 1 .. i + 1 /\ \A j \in 1 .. i : j \in 1 .. i + 1
    OBVIOUS
  <2>2. a[i + 1] # b[i + 1] /\ \A j \in 1 .. i : a[j] = b[j]
    BY <1>1, <1>2, <1>3, <2>1
  <2> QED
    BY <1>1, <1>2, <2>2 DEF Part
<1>5. Part(v, u, i)
  BY <1>2 DEF Part
<1>6. i \in 0 .. Len(u) /\ i \in 0 .. Len(v) /\ i \in 0 .. Len(a)
  BY <1>1, <1>2
<1>7. Pre(To(u, i), a) /\ To(u, i) \in Text /\ Len(To(u, i)) = i
  BY <1>6, ToIs, PreTrans
<1>8. To(a, i) = To(u, i)
  BY <1>7, PreTo
<1>9. Pre(To(u, i), v)
  <2>1. \A j \in 1 .. i : To(u, i)[j] = v[j]
    BY <1>2, <1>6, ToIs
  <2> QED
    BY <1>1, <1>2, <1>7, <2>1 DEF Pre
<1>10. To(v, i) = To(u, i)
  BY <1>7, <1>9, PreTo
<1> QED
  BY <1>4, <1>5, <1>8, <1>10

LEMMA TreeIs ==
    ASSUME NEW K \in SUBSET Text, K # {}, IsFiniteSet(K)
    PROVE  Closed(Tree(K)) /\ IsFiniteSet(Tree(K)) /\ Tree(K) # {} /\ K \subseteq Tree(K)
<1> DEFINE B == UNION {Prefixes(k) : k \in K}
<1>1. \A k \in K : \A x : x \in Prefixes(k) <=> \E i \in 0 .. Len(k) : x = To(k, i)
  BY DEF Prefixes, To
<1>2. \A x \in B : \E a \in K : x \in Text /\ Pre(x, a)
  <2> TAKE x \in B
  <2>1. PICK a \in K : x \in Prefixes(a)
    OBVIOUS
  <2>2. PICK i \in 0 .. Len(a) : x = To(a, i)
    BY <1>1, <2>1
  <2> QED
    BY <2>2, ToIs
<1>3. \A x \in Tree(K) : x \in Text /\ \E a \in K : Pre(x, a)
  <2> TAKE x \in Tree(K)
  <2>1. x \in K => x \in Text /\ Pre(x, x)
    BY TextIs DEF Pre
  <2>2. x \in K \/ x \in B
    BY DEF Tree
  <2> QED
    BY <1>2, <2>1, <2>2
<1>4. ASSUME NEW u \in Tree(K), NEW v \in Tree(K), NEW i \in Nat, Part(u, v, i)
      PROVE  To(u, i) \in Tree(K)
  <2>1. PICK a \in K : Pre(u, a)
    BY <1>3
  <2>2. PICK b \in K : Pre(v, b)
    BY <1>3
  <2>3. Part(a, b, i) /\ To(a, i) = To(u, i) /\ Part(b, a, i) /\ To(b, i) = To(a, i)
    <3>1. a \in Text /\ b \in Text /\ Pre(a, a) /\ Pre(b, b)
      BY TextIs DEF Pre
    <3> QED
      BY <1>3, <1>4, <2>1, <2>2, <3>1, PartFrom
  <2>4. i \in 0 .. Len(a) /\ i \in 0 .. Len(b)
    BY <2>3, TextIs DEF Part
  <2>5. PICK x : x = To(a, i)
    OBVIOUS
  <2>6. x \in Text /\ Len(x) = i /\ Under(x, a) /\ Under(x, b)
    BY <2>3, <2>4, <2>5, ToIs DEF Under, Part
  <2>7. Parts(K, x)
    <3>1. a[i + 1] # b[i + 1]
      BY <2>3 DEF Part
    <3> QED
      BY <2>6, <3>1, StrictIs DEF Parts
  <2>8. x \in B
    BY <1>1, <2>4, <2>5
  <2> QED
    BY <2>3, <2>5, <2>7, <2>8 DEF Tree
<1>5. IsFiniteSet(B)
  <2> DEFINE f == [k \in K |-> Prefixes(k)]
             F == {Prefixes(k) : k \in K}
  <2>1. f \in Surjection(K, F)
    BY DEF Surjection
  <2>2. IsFiniteSet(F)
    BY <2>1, FS_Surjection
  <2>3. \A k \in K : IsFiniteSet(Prefixes(k))
    <3> TAKE k \in K
    <3> DEFINE g == [i \in 0 .. Len(k) |-> To(k, i)]
    <3>1. g \in Surjection(0 .. Len(k), Prefixes(k))
      BY <1>1 DEF Surjection
    <3>2. IsFiniteSet(0 .. Len(k))
      BY TextIs, FS_Interval
    <3> HIDE DEF g
    <3> QED
      BY <3>1, <3>2, FS_Surjection
  <2>4. \A T \in F : IsFiniteSet(T)
    BY <2>3
  <2> HIDE DEF F
  <2>5. IsFiniteSet(UNION F)
    BY <2>2, <2>4, FS_UNION
  <2> QED
    BY <2>5 DEF F
<1>6. IsFiniteSet(Tree(K))
  <2>1. IsFiniteSet(K \cup B)
    BY <1>5, FS_Union
  <2>2. Tree(K) \in SUBSET (K \cup B)
    BY DEF Tree
  <2> HIDE DEF B
  <2> QED
    BY <2>1, <2>2, FS_Subset
<1>7. K \subseteq Tree(K)
  BY DEF Tree
<1> QED
  BY <1>3, <1>4, <1>6, <1>7 DEF Closed
-----------------------------------------------------------------------------
\* rm_matafy_node: what the cuts of a node w at the letters K make of the tree.
\* s is where its piece begins, N and c are the nodes and wildcard children.
Cuts(w, s) == {k \in s + 1 .. Len(w) : w[k] = Wild}
CutNodes(N, w, s, K) == N \cup {To(w, k) : k \in K} \cup {To(w, k - 1) : k \in {h \in K : h - 1 > s}}
CutWc(N, c, w, K, u) == IF \E k \in K : u = To(w, k - 1) THEN To(w, Len(u) + 1)
                        ELSE IF u \in N THEN c[u] ELSE NoNode
CutTree(N, c, w, s, K) ==
    [nodes |-> CutNodes(N, w, s, K),
     wc |-> [u \in CutNodes(N, w, s, K) |-> CutWc(N, c, w, K, u)]]

Within(N, w, s, M) == /\ M \in SUBSET Text /\ N \subseteq M
                      /\ \A u \in M : u \in N \/ \E i \in s + 1 .. Len(w) : u = To(w, i)

LEMMA CutNodesIs ==
    ASSUME NEW N \in SUBSET Text, NEW w \in N, NEW s \in 0 .. Len(w), NEW K \in SUBSET Cuts(w, s)
    PROVE  Within(N, w, s, CutNodes(N, w, s, K))
<1>1. Len(w) \in Nat
  BY TextIs
<1>2. \A k \in K : k \in s + 1 .. Len(w) /\ k \in 0 .. Len(w)
  BY <1>1 DEF Cuts
<1>3. \A k \in K : k - 1 > s => k - 1 \in s + 1 .. Len(w) /\ k - 1 \in 0 .. Len(w)
  BY <1>1, <1>2
<1>4. \A k \in K : To(w, k) \in Text
  BY <1>2, ToIs
<1>5. \A k \in {h \in K : h - 1 > s} : To(w, k - 1) \in Text
  BY <1>3, ToIs
<1>6. CutNodes(N, w, s, K) \in SUBSET Text
  BY <1>4, <1>5 DEF CutNodes
<1>7. \A u \in CutNodes(N, w, s, K) : u \in N \/ \E i \in s + 1 .. Len(w) : u = To(w, i)
  BY <1>2, <1>3 DEF CutNodes
<1> QED
  BY <1>6, <1>7 DEF Within, CutNodes

\* The node above the end of a cut is the one just before it, if there is one.
LEMMA UpCut ==
    ASSUME NEW N \in SUBSET Text, NEW w \in N, NEW s, s = Start(N, w),
           NEW M, Within(N, w, s, M), NEW k \in s + 1 .. Len(w), To(w, k - 1) \in M \/ k - 1 = s
    PROVE  IF To(w, k - 1) \in M THEN Up(M, To(w, k)) = To(w, k - 1) ELSE Up(M, To(w, k)) = NoNode
<1>1. s \in 0 .. Len(w) /\ Len(w) \in Nat
  BY StartIs, TextIs
<1>2. k \in Nat /\ k - 1 \in Nat /\ k - 1 \in 0 .. Len(w) /\ k \in 0 .. Len(w) /\ k - 1 \in 0 .. k
  BY <1>1
<1>3. /\ To(w, k) \in Text /\ Len(To(w, k)) = k
      /\ To(w, k - 1) \in Text /\ Len(To(w, k - 1)) = k - 1
  BY <1>2, ToIs
<1>4. M \in SUBSET Text
  BY DEF Within
<1>5. CASE To(w, k - 1) \in M
  <2>1. Under(To(w, k - 1), To(w, k))
    BY <1>2, <1>3, ToPre DEF Under
  <2>2. \A v \in M : Under(v, To(w, k)) => Len(v) <= k - 1
    BY <1>2, <1>3, <1>4, TextIs DEF Under
  <2>3. Above(M, To(w, k), To(w, k - 1))
    BY <1>3, <1>5, <2>1, <2>2 DEF Above
  <2> QED
    BY <1>3, <1>4, <1>5, <2>3, UpGiven
<1>6. CASE To(w, k - 1) \notin M
  <2>1. k - 1 = s
    BY <1>6
  <2>2. Up(N, w) = NoNode
    BY <1>6, <2>1, StartIs DEF Within
  <2>3. s = 0
    BY <2>2, StartIs
  <2>4. \A v \in M : ~Under(v, To(w, k))
    <3> SUFFICES ASSUME NEW v \in M, Under(v, To(w, k)) PROVE FALSE
      OBVIOUS
    <3>1. Len(v) = 0 /\ Len(To(w, k - 1)) = 0
      BY <1>3, <1>4, <2>1, <2>3, TextIs DEF Under
    <3>2. v = To(w, k - 1)
      BY <1>3, <1>4, <3>1, TextIs
    <3> QED
      BY <1>6, <3>2
  <2> QED
    BY <1>3, <1>4, <1>6, <2>4, UpNone
<1> QED
  BY <1>5, <1>6

\* The last step of a cut: the node above gets the new one for its wildcard
\* child.
LEMMA SetCut ==
    ASSUME NEW N \in SUBSET Text, NEW w \in N, NEW s, s = Start(N, w), NEW c,
           NEW K \in SUBSET Cuts(w, s), NEW k \in Cuts(w, s), NEW M, NEW M1,
           M = CutNodes(N, w, s, K), M1 = CutNodes(N, w, s, K \cup {k})
    PROVE  SetWc([nodes |-> M1, wc |-> [u \in M1 |-> IF u \in M THEN CutWc(N, c, w, K, u) ELSE NoNode]],
                 To(w, k)) = CutTree(N, c, w, s, K \cup {k})
<1> DEFINE f == [u \in M1 |-> IF u \in M THEN CutWc(N, c, w, K, u) ELSE NoNode]
           t == [nodes |-> M1, wc |-> f]
           L == K \cup {k}
           g == [u \in M1 |-> CutWc(N, c, w, L, u)]
<1>1. s \in 0 .. Len(w) /\ Len(w) \in Nat
  BY StartIs, TextIs
<1>2. /\ k \in s + 1 .. Len(w) /\ L \in SUBSET Cuts(w, s)
      /\ \A h \in L : h \in s + 1 .. Len(w) /\ h - 1 \in 0 .. Len(w)
  BY <1>1 DEF Cuts
<1>3. Within(N, w, s, M1) /\ Within(N, w, s, M)
  BY <1>1, <1>2, CutNodesIs
<1>4. To(w, k - 1) \in M1 \/ k - 1 = s
  <2>1. k - 1 = s \/ k - 1 > s
    BY <1>1, <1>2
  <2>2. k - 1 > s => To(w, k - 1) \in M1
    BY DEF CutNodes
  <2> QED
    BY <2>1, <2>2
<1>5. \A h \in L : Len(To(w, h - 1)) = h - 1
  BY <1>2, ToIs
\* No letters but those of K reach a node outside of M.
<1>6. ASSUME NEW h \in K, NEW u \in M1, u = To(w, h - 1)
      PROVE  u \in M
  <2>1. h - 1 = s \/ h - 1 > s
    BY <1>1, <1>2
  <2>2. h - 1 > s => u \in M
    BY <1>6 DEF CutNodes
  <2>3. ASSUME h - 1 = s
        PROVE  u \in M
    <3>1. u \in N \/ \E i \in s + 1 .. Len(w) : u = To(w, i)
      BY <1>3 DEF Within
    <3>2. \A i \in s + 1 .. Len(w) : i \in 0 .. Len(w)
      BY <1>1
    <3>3. \A i \in s + 1 .. Len(w) : Len(To(w, i)) = i
      BY <3>2, ToIs
    <3>4. Len(u) = s
      BY <1>5, <1>6, <2>3
    <3>5. u \in N
      BY <1>1, <3>1, <3>3, <3>4
    <3> QED
      BY <1>3, <3>5 DEF Within
  <2> QED
    BY <2>1, <2>2, <2>3
<1>7. ASSUME NEW u \in M1, u # To(w, k - 1)
      PROVE  f[u] = CutWc(N, c, w, L, u)
  <2>1. (\E h \in L : u = To(w, h - 1)) <=> \E h \in K : u = To(w, h - 1)
    BY <1>7
  <2>2. N \subseteq M
    BY <1>3 DEF Within
  <2>3. CASE \E h \in K : u = To(w, h - 1)
    <3>1. u \in M
      BY <1>6, <2>3
    <3> QED
      BY <2>1, <2>3, <3>1 DEF CutWc
  <2>4. CASE ~ \E h \in K : u = To(w, h - 1)
    BY <2>1, <2>2, <2>4 DEF CutWc
  <2> QED
    BY <2>3, <2>4
<1>8. CASE To(w, k - 1) \in M1
  <2>1. Up(M1, To(w, k)) = To(w, k - 1) /\ To(w, k - 1) # NoNode
    <3>1. To(w, k - 1) \in Text
      BY <1>3, <1>8 DEF Within
    <3> QED
      BY <1>2, <1>3, <1>4, <1>8, <3>1, UpCut, NoNodeIsNoWord DEF Text
  <2>2. SetWc(t, To(w, k)) = [nodes |-> M1, wc |-> [f EXCEPT ![To(w, k - 1)] = To(w, k)]]
    BY <2>1 DEF SetWc
  <2>3. [f EXCEPT ![To(w, k - 1)] = To(w, k)] = g
    <3>1. CutWc(N, c, w, L, To(w, k - 1)) = To(w, k)
      <4>1. Len(To(w, k - 1)) + 1 = k
        BY <1>1, <1>2, <1>5
      <4> QED
        BY <4>1 DEF CutWc
    <3> HIDE DEF L
    <3> QED
      BY <1>7, <1>8, <3>1
  <2> QED
    BY <2>2, <2>3 DEF CutTree
<1>9. CASE To(w, k - 1) \notin M1
  <2>1. Up(M1, To(w, k)) = NoNode
    BY <1>2, <1>3, <1>4, <1>9, UpCut
  <2>2. SetWc(t, To(w, k)) = t
    BY <2>1 DEF SetWc
  <2>3. f = g
    <3>1. \A u \in M1 : f[u] = CutWc(N, c, w, L, u)
      BY <1>7, <1>9
    <3> HIDE DEF L
    <3> QED
      BY <3>1
  <2> QED
    BY <2>2, <2>3 DEF CutTree
<1> QED
  BY <1>8, <1>9

CutWorks(N, c, w, s, K, k) ==
    /\ k - 1 > s => CutOut(CutTree(N, c, w, s, K), w, k) = CutTree(N, c, w, s, K \cup {k})
    /\ k = s + 1 => SetWc(Split(CutTree(N, c, w, s, K), To(w, k)), To(w, k)) =
                    CutTree(N, c, w, s, K \cup {k})
    /\ k = Len(w) /\ k - 1 > s => SetWc(Split(CutTree(N, c, w, s, K), To(w, k - 1)), w) =
                                  CutTree(N, c, w, s, K \cup {k})
    /\ k = Len(w) /\ k = s + 1 => SetWc(CutTree(N, c, w, s, K), w) =
                                  CutTree(N, c, w, s, K \cup {k})

LEMMA CutIs ==
    ASSUME NEW N \in SUBSET Text, NEW w \in N, NEW s, s = Start(N, w), NEW c,
           NEW K \in SUBSET Cuts(w, s), NEW k \in Cuts(w, s)
    PROVE  CutWorks(N, c, w, s, K, k)
<1> PICK t : t = CutTree(N, c, w, s, K)
  OBVIOUS
<1> PICK r : r = CutTree(N, c, w, s, K \cup {k})
  OBVIOUS
<1> DEFINE M == CutNodes(N, w, s, K)
           M1 == CutNodes(N, w, s, K \cup {k})
           f == [u \in M |-> CutWc(N, c, w, K, u)]
           f1 == [u \in M1 |-> IF u \in M THEN CutWc(N, c, w, K, u) ELSE NoNode]
           a == To(w, k - 1)
           b == To(w, k)
<1>1. s \in 0 .. Len(w) /\ Len(w) \in Nat /\ k \in s + 1 .. Len(w)
  BY StartIs, TextIs DEF Cuts
<1>2. SetWc([nodes |-> M1, wc |-> f1], b) = r
  <2> HIDE DEF M, M1
  <2> QED
    BY SetCut DEF M, M1
<1>3. t = [nodes |-> M, wc |-> f]
  BY DEF CutTree
<1>4. M1 = M \cup {b} \cup (IF k - 1 > s THEN {a} ELSE {})
  BY DEF CutNodes
<1>5. k = Len(w) => b = w /\ w \in M
  <2>1. w \in Text /\ Pre(w, w)
    BY TextIs DEF Pre
  <2>2. k = Len(w) => b = w
    BY <2>1, PreTo
  <2> QED
    BY <2>2 DEF CutNodes
<1> HIDE DEF M, M1, f, f1, a, b
<1>6. ASSUME k - 1 > s
      PROVE  CutOut(t, w, k) = r
  <2> DEFINE g == [u \in M \cup {a} |-> IF u \in M THEN f[u] ELSE NoNode]
             h == [u \in (M \cup {a}) \cup {b} |-> IF u \in M \cup {a} THEN g[u] ELSE NoNode]
  <2>1. Split(t, a) = [nodes |-> M \cup {a}, wc |-> g]
    BY <1>3 DEF Split
  <2> HIDE DEF g
  <2>2. Split(Split(t, a), b) = [nodes |-> (M \cup {a}) \cup {b}, wc |-> h]
    BY <2>1 DEF Split
  <2>3. (M \cup {a}) \cup {b} = M1
    BY <1>4, <1>6
  <2>4. \A u \in M1 : h[u] = IF u \in M THEN CutWc(N, c, w, K, u) ELSE NoNode
    BY <2>3 DEF g, f
  <2>5. h = f1
    BY <2>3, <2>4 DEF f1
  <2> HIDE DEF h
  <2> QED
    BY <1>2, <2>2, <2>3, <2>5 DEF CutOut, a, b
<1>7. ASSUME NEW x, M \cup {x} = M1
      PROVE  Split(t, x) = [nodes |-> M1, wc |-> f1]
  <2> DEFINE g == [u \in M \cup {x} |-> IF u \in M THEN f[u] ELSE NoNode]
  <2>1. Split(t, x) = [nodes |-> M \cup {x}, wc |-> g]
    BY <1>3 DEF Split
  <2>2. \A u \in M1 : g[u] = IF u \in M THEN CutWc(N, c, w, K, u) ELSE NoNode
    BY <1>7 DEF f
  <2>3. g = f1
    BY <1>7, <2>2 DEF f1
  <2> QED
    BY <1>7, <2>1, <2>3
<1>8. k = s + 1 => SetWc(Split(t, b), b) = r
  <2>1. k = s + 1 => M \cup {b} = M1
    BY <1>1, <1>4
  <2> QED
    BY <1>2, <1>7, <2>1
<1>9. k = Len(w) /\ k - 1 > s => SetWc(Split(t, a), w) = r
  <2>1. k = Len(w) /\ k - 1 > s => M \cup {a} = M1
    BY <1>4, <1>5
  <2> QED
    BY <1>2, <1>5, <1>7, <2>1
<1>10. ASSUME k = Len(w), k = s + 1
       PROVE  SetWc(t, w) = r
  <2>1. M = M1
    BY <1>1, <1>4, <1>5, <1>10
  <2>2. f = f1
    BY <2>1 DEF f, f1
  <2> QED
    BY <1>2, <1>3, <1>5, <1>10, <2>1, <2>2
<1> QED
  BY <1>6, <1>8, <1>9, <1>10 DEF a, b, CutWorks

LEMMA MatafyNodeIs ==
    ASSUME NEW N \in SUBSET Text, NEW w \in N, NEW s, s = Start(N, w),
           NEW c \in [N -> N \cup {NoNode}]
    PROVE  MatafyNode([nodes |-> N, wc |-> c], w) = CutTree(N, c, w, s, Cuts(w, s))
<1> DEFINE T(K) == CutTree(N, c, w, s, K)
           t == [nodes |-> N, wc |-> c]
<1> PICK n : n = Len(w)
  OBVIOUS
<1>1. s \in 0 .. n /\ n \in Nat
  BY StartIs, TextIs
<1>2. t = T({})
  <2>1. CutNodes(N, w, s, {}) = N
    BY DEF CutNodes
  <2>2. \A u \in N : CutWc(N, c, w, {}, u) = c[u]
    BY DEF CutWc
  <2>3. [u \in N |-> CutWc(N, c, w, {}, u)] = c
    BY <2>2
  <2> QED
    BY <2>1, <2>3 DEF CutTree
<1>3. \A k : k \in Cuts(w, s) <=> k \in s + 1 .. n /\ w[k] = Wild
  BY DEF Cuts
<1>8. ASSUME NEW K \in SUBSET Cuts(w, s), NEW k \in Cuts(w, s)
      PROVE  CutWorks(N, c, w, s, K, k)
  BY CutIs
<1> SUFFICES MatafyNode(t, w) = T(Cuts(w, s))
  OBVIOUS
<1>9. {} \in SUBSET Cuts(w, s)
  OBVIOUS
<1> HIDE DEF T
<1>4. CASE n - s = 0
  <2>1. Cuts(w, s) = {}
    BY <1>1, <1>3, <1>4
  <2>2. MatafyNode(t, w) = t
    BY <1>4 DEF MatafyNode
  <2> QED
    BY <1>2, <2>1, <2>2
<1>5. CASE n - s = 1
  <2>1. MatafyNode(t, w) = IF w[n] = Wild THEN SetWc(t, w) ELSE t
    BY <1>1, <1>5 DEF MatafyNode
  <2>2. n = s + 1 /\ n \in Nat
    BY <1>1, <1>5
  <2>3. CASE w[n] = Wild
    <3>1. n \in Cuts(w, s) /\ Cuts(w, s) = {} \cup {n}
      BY <1>1, <1>3, <2>2, <2>3
    <3>2. SetWc(t, w) = T({} \cup {n})
      BY <1>2, <1>8, <1>9, <2>2, <3>1 DEF CutWorks, T
    <3> QED
      BY <2>1, <2>3, <3>1, <3>2
  <2>4. CASE w[n] # Wild
    <3>1. Cuts(w, s) = {}
      BY <1>1, <1>3, <2>2, <2>4
    <3> QED
      BY <1>2, <2>1, <2>4, <3>1
  <2> QED
    BY <2>3, <2>4
<1>6. CASE n - s > 1
  <2>1. n > s + 1 /\ n - 1 \in Nat \ {0} /\ n - 1 > s /\ s + 1 \in s + 1 .. n /\ n \in s + 1 .. n
    BY <1>1, <1>6
  <2> DEFINE A == {k \in {s + 1} : w[k] = Wild}
             B == {k \in {n} : w[k] = Wild}
             front == IF w[s + 1] = Wild THEN SetWc(Split(t, To(w, s + 1)), To(w, s + 1)) ELSE t
             back == IF w[n] = Wild THEN SetWc(Split(front, To(w, n - 1)), w) ELSE front
             Is(f) == f = [k \in 0 .. (n - 1) |->
                             IF k = 0 THEN back
                             ELSE IF k \in Inner(w, s + 2, n - 1) THEN CutOut(f[k - 1], w, k) ELSE f[k - 1]]
             I(j) == {k \in s + 2 .. n - 1 : k <= j /\ w[k] = Wild}
             K(j) == A \cup B \cup I(j)
             g == [j \in 0 .. (n - 1) |-> T(K(j))]
  <2>2. A \subseteq Cuts(w, s) /\ B \subseteq Cuts(w, s) /\ \A j : I(j) \subseteq Cuts(w, s)
    BY <1>1, <1>3, <2>1
  <2>3. front = T(A)
    <3>1. CASE w[s + 1] = Wild
      <4>1. s + 1 \in Cuts(w, s) /\ A = {} \cup {s + 1}
        BY <1>1, <1>3, <2>1, <3>1
      <4>2. SetWc(Split(t, To(w, s + 1)), To(w, s + 1)) = T({} \cup {s + 1})
        <5>1. PICK k : k = s + 1
          OBVIOUS
        <5>2. CutWorks(N, c, w, s, {}, k)
          BY <1>8, <1>9, <4>1, <5>1
        <5>3. SetWc(Split(CutTree(N, c, w, s, {}), To(w, k)), To(w, k)) = CutTree(N, c, w, s, {} \cup {k})
          BY <2>1, <5>1, <5>2 DEF CutWorks
        <5> QED
          BY <1>2, <5>1, <5>3 DEF T
      <4> QED
        BY <3>1, <4>1, <4>2
    <3>2. CASE w[s + 1] # Wild
      BY <1>2, <3>2
    <3> QED
      BY <3>1, <3>2
  <2> HIDE DEF front
  <2>4. back = T(A \cup B)
    <3>1. CASE w[n] = Wild
      <4>1. n \in Cuts(w, s) /\ B = {n}
        BY <1>1, <1>3, <2>1, <3>1
      <4>2. A \in SUBSET Cuts(w, s)
        BY <2>2
      <4> HIDE DEF A, B
      <4>3. SetWc(Split(front, To(w, n - 1)), w) = T(A \cup {n})
        BY <1>8, <2>1, <2>3, <4>1, <4>2 DEF CutWorks, T
      <4> QED
        BY <3>1, <4>1, <4>3
    <3>2. CASE w[n] # Wild
      <4>1. B = {}
        BY <3>2
      <4> HIDE DEF A, B
      <4> QED
        BY <2>3, <3>2, <4>1
    <3> QED
      BY <3>1, <3>2
  <2> HIDE DEF back
  <2>5. ASSUME NEW j \in 1 .. n - 1
        PROVE  T(K(j)) = IF j \in Inner(w, s + 2, n - 1) THEN CutOut(T(K(j - 1)), w, j) ELSE T(K(j - 1))
    <3>1. j \in Inner(w, s + 2, n - 1) <=> j \in s + 2 .. n - 1 /\ w[j] = Wild
      BY DEF Inner
    <3>2. CASE j \in Inner(w, s + 2, n - 1)
      <4>1. j \in Cuts(w, s) /\ j - 1 > s
        BY <1>1, <1>3, <3>1, <3>2
      <4>2. I(j) = I(j - 1) \cup {j}
        BY <1>1, <3>1, <3>2
      <4>3. K(j - 1) \in SUBSET Cuts(w, s)
        BY <2>2
      <4>4. K(j) = K(j - 1) \cup {j}
        BY <4>2
      <4> HIDE DEF K
      <4> QED
        BY <1>8, <3>2, <4>1, <4>3, <4>4 DEF CutWorks, T
    <3>3. CASE j \notin Inner(w, s + 2, n - 1)
      <4>1. I(j) = I(j - 1)
        BY <1>1, <3>1, <3>3
      <4>2. K(j) = K(j - 1)
        BY <4>1
      <4> HIDE DEF K
      <4> QED
        BY <3>3, <4>2
    <3> QED
      BY <3>2, <3>3
  <2>6. K(0) = A \cup B
    <3>1. I(0) = {}
      BY <1>1
    <3> QED
      BY <3>1
  <2>7. K(n - 1) = Cuts(w, s)
    BY <1>1, <1>3, <2>1
  <2> HIDE DEF K
  <2>8. Is(g)
    <3>1. \A j \in 0 .. n - 1 : T(K(j)) = IF j = 0 THEN back
             ELSE IF j \in Inner(w, s + 2, n - 1) THEN CutOut(g[j - 1], w, j) ELSE g[j - 1]
      <4> TAKE j \in 0 .. n - 1
      <4>1. j = 0 \/ (j \in 1 .. n - 1 /\ j - 1 \in 0 .. n - 1 /\ j # 0)
        <5> HIDE DEF g
        <5> QED
          BY <1>1
      <4>2. j \in 1 .. n - 1 /\ j - 1 \in 0 .. n - 1 => g[j - 1] = T(K(j - 1))
        OBVIOUS
      <4> HIDE DEF g
      <4> QED
        BY <2>4, <2>5, <2>6, <4>1, <4>2
    <3>2. g = [j \in 0 .. n - 1 |-> IF j = 0 THEN back
             ELSE IF j \in Inner(w, s + 2, n - 1) THEN CutOut(g[j - 1], w, j) ELSE g[j - 1]]
      BY <3>1, Zenon
    <3> HIDE DEF g
    <3> QED
      BY <3>2
  <2>9. PICK f : f = CHOOSE h : Is(h)
    OBVIOUS
  <2>10. Is(f)
    <3> HIDE DEF Is
    <3> QED
      BY <2>8, <2>9, Zenon
  <2>11. \A j \in 0 .. n - 1 : f[j] = T(K(j))
    <3> DEFINE D == {j \in Nat : j \in 0 .. n - 1 /\ f[j] # T(K(j))}
    <3> SUFFICES ASSUME D # {} PROVE FALSE
      OBVIOUS
    <3>1. PICK a \in D : \A b \in D : a <= b
      BY LeastOf, D \in SUBSET Nat
    <3>2. f[a] = IF a = 0 THEN back
                 ELSE IF a \in Inner(w, s + 2, n - 1) THEN CutOut(f[a - 1], w, a) ELSE f[a - 1]
      BY <2>10, <3>1
    <3>3. a # 0
      BY <2>4, <2>6, <3>1, <3>2
    <3>4. a \in 1 .. n - 1 /\ a - 1 \in Nat /\ a - 1 \in 0 .. n - 1
      BY <1>1, <3>1, <3>3
    <3>5. f[a - 1] = T(K(a - 1))
      BY <3>1, <3>4
    <3>6. f[a] = T(K(a))
      BY <2>5, <3>2, <3>3, <3>4, <3>5
    <3> QED
      BY <3>1, <3>6
  <2>12. n - 1 \in 0 .. n - 1
    BY <2>1
  <2>13. MatafyNode(t, w) = f[n - 1]
    BY <1>1, <1>6, <2>9 DEF MatafyNode, front, back
  <2> QED
    BY <2>7, <2>11, <2>12, <2>13
<1>7. n - s = 0 \/ n - s = 1 \/ n - s > 1
  BY <1>1
<1> QED
  BY <1>4, <1>5, <1>6, <1>7
-----------------------------------------------------------------------------
\* The order in which the children of a node go to the queue.
LEMMA OrderIs ==
    ASSUME NEW S, IsFiniteSet(S), NEW i, \A x \in S : x[i] \in Int,
           \A x, y \in S : x[i] = y[i] => x = y
    PROVE  /\ InOrder(S, i) \in [1 .. Cardinality(S) -> S]
           /\ InOrder(S, i) \in Seq(S) /\ Range(InOrder(S, i)) = S
<1> PICK n : n = Cardinality(S)
  OBVIOUS
<1> DEFINE Below(x) == {y \in S : y[i] <= x[i]}
           r == [x \in S |-> Cardinality(Below(x))]
           Rising(q) == \A h, k \in DOMAIN q : h < k => q[h][i] < q[k][i]
<1>1. n \in Nat /\ IsFiniteSet(1 .. n) /\ Cardinality(1 .. n) = n
  <2>1. n \in Nat
    BY FS_CardinalityType
  <2> QED
    BY <2>1, FS_Interval
<1>2. ASSUME NEW x \in S, NEW y \in S, x[i] <= y[i]
      PROVE  /\ Cardinality(Below(x)) <= Cardinality(Below(y))
             /\ Cardinality(Below(x)) = Cardinality(Below(y)) => x = y
  <2>1. Below(x) \in SUBSET Below(y)
    BY <1>2
  <2>2. IsFiniteSet(Below(y))
    <3>1. Below(y) \in SUBSET S
      OBVIOUS
    <3> HIDE DEF Below
    <3> QED
      BY <3>1, FS_Subset
  <2>3. Below(x) = Below(y) => x = y
    <3>1. y \in Below(y)
      BY <1>2
    <3>2. y \in Below(x) => y[i] <= x[i]
      OBVIOUS
    <3>3. Below(x) = Below(y) => y[i] = x[i]
      BY <1>2, <3>1, <3>2
    <3> QED
      BY <3>3
  <2> HIDE DEF Below
  <2> QED
    BY <2>1, <2>2, <2>3, FS_Subset
<1>3. ASSUME NEW x \in S
      PROVE  Cardinality(Below(x)) \in 1 .. n
  <2>1. Below(x) \in SUBSET S /\ x \in Below(x)
    OBVIOUS
  <2> HIDE DEF Below
  <2>2. IsFiniteSet(Below(x)) /\ Cardinality(Below(x)) <= n
    BY <2>1, FS_Subset
  <2>3. Cardinality(Below(x)) \in Nat /\ Cardinality(Below(x)) # 0
    BY <2>1, <2>2, FS_CardinalityType, FS_EmptySet
  <2> QED
    BY <1>1, <2>2, <2>3
<1> HIDE DEF Below
<1>4. r \in Injection(S, 1 .. n)
  <2>1. \A x, y \in S : r[x] = r[y] => x = y
    <3> TAKE x, y \in S
    <3>1. x[i] <= y[i] \/ y[i] <= x[i]
      OBVIOUS
    <3> QED
      BY <1>2, <3>1
  <2>2. r \in [S -> 1 .. n]
    BY <1>3
  <2>3. DOMAIN r = S
    OBVIOUS
  <2> HIDE DEF r
  <2> QED
    BY <2>1, <2>2, <2>3 DEF Injection, IsInjective
<1>5. \A k \in 1 .. n : \E x \in S : r[x] = k
  <2>1. r \in Surjection(S, 1 .. n)
    <3> HIDE DEF r
    <3> QED
      BY <1>1, <1>4, FS_Injection
  <2> HIDE DEF r
  <2> QED
    BY <2>1 DEF Surjection
<1>6. \E q \in [1 .. n -> S] : Rising(q)
  <2> DEFINE q == [k \in 1 .. n |-> CHOOSE x \in S : r[x] = k]
  <2>1. \A k \in 1 .. n : q[k] \in S /\ r[q[k]] = k
    <3> HIDE DEF r
    <3> QED
      BY <1>5
  <2>2. q \in [1 .. n -> S] /\ DOMAIN q = 1 .. n
    BY <2>1
  <2> HIDE DEF q
  <2>3. ASSUME NEW h \in 1 .. n, NEW k \in 1 .. n, h < k
        PROVE  q[h][i] < q[k][i]
    <3>1. q[k][i] <= q[h][i] => r[q[k]] <= r[q[h]]
      BY <1>2, <2>1
    <3>2. q[h][i] \in Int /\ q[k][i] \in Int
      BY <2>1
    <3>3. r[q[k]] = k /\ r[q[h]] = h
      BY <2>1
    <3> HIDE DEF r
    <3> QED
      BY <1>1, <2>3, <3>1, <3>2, <3>3
  <2>4. Rising(q)
    BY <2>2, <2>3
  <2> QED
    BY <2>2, <2>4
<1>7. PICK q : q = CHOOSE x \in [1 .. n -> S] : Rising(x)
  OBVIOUS
<1>8. q \in [1 .. n -> S] /\ Rising(q)
  BY <1>6, <1>7
<1>9. q = InOrder(S, i)
  BY <1>7 DEF InOrder
<1>10. q \in Injection(1 .. n, S)
  <2>1. \A h, k \in 1 .. n : q[h] = q[k] => h = k
    <3> TAKE h, k \in 1 .. n
    <3>1. h < k \/ k < h \/ h = k
      BY <1>1
    <3>2. q[h][i] \in Int /\ q[k][i] \in Int
      BY <1>8
    <3> QED
      BY <1>8, <3>1, <3>2
  <2> QED
    BY <1>8, <2>1 DEF Injection, IsInjective
<1>11. q \in Surjection(1 .. n, S)
  BY <1>1, <1>10, FS_Injection
<1>12. Range(q) = S
  BY <1>8, <1>11 DEF Surjection, Range
<1>13. q \in Seq(S)
  BY <1>1, <1>8, IsASeq
<1> QED
  BY <1>8, <1>9, <1>12, <1>13
-----------------------------------------------------------------------------
\* The nodes below a node, and the root above them all.
LEMMA KidOnWay ==
    ASSUME NEW N \in SUBSET Text, NEW w \in N, NEW v \in N, Under(w, v)
    PROVE  \E u \in Kids(N, w) : Pre(u, v)
<1> DEFINE T == {i \in Nat : \E u \in N : Under(w, u) /\ Pre(u, v) /\ i = Len(u)}
<1>1. T \in SUBSET Nat /\ T # {}
  <2>1. Len(v) \in Nat /\ Pre(v, v)
    BY TextIs DEF Pre
  <2> QED
    BY <2>1
<1>2. PICK i \in T : \A j \in T : i <= j
  BY <1>1, LeastOf
<1>3. PICK u \in N : Under(w, u) /\ Pre(u, v) /\ i = Len(u)
  BY <1>2
<1>4. ASSUME NEW x \in N, Under(x, u)
      PROVE  Len(x) <= Len(w)
  <2>1. Len(x) \in Nat /\ Len(w) \in Nat
    BY TextIs
  <2> SUFFICES ASSUME Len(w) < Len(x) PROVE FALSE
    BY <2>1
  <2>2. Pre(x, v)
    BY <1>3, <1>4, PreTrans DEF Under
  <2>3. Under(w, x)
    BY <2>1, <2>2, PreBoth DEF Under
  <2>4. Len(x) \in T
    BY <2>1, <2>2, <2>3
  <2> QED
    BY <1>2, <1>3, <1>4, <2>1, <2>4 DEF Under
<1>5. Above(N, u, w)
  BY <1>3, <1>4 DEF Above
<1>6. u \in Kids(N, w)
  BY <1>5, UpGiven DEF Kids
<1> QED
  BY <1>3, <1>6

LEMMA KidIs ==
    ASSUME NEW N \in SUBSET Text, NEW w \in Text, NEW u \in Kids(N, w)
    PROVE  u \in N /\ Above(N, u, w) /\ Start(N, u) = Len(w) /\ Under(w, u)
<1>1. u \in N /\ Up(N, u) = w /\ w # NoNode
  BY NoNodeIsNoWord DEF Kids, Text
<1> QED
  BY <1>1, UpIs DEF Above

LEMMA KidLetters ==
    ASSUME NEW N, Closed(N), NEW w \in N, NEW x \in Kids(N, w), NEW y \in Kids(N, w),
           x[Len(w) + 1] = y[Len(w) + 1]
    PROVE  x = y
<1>1. N \in SUBSET Text
  BY DEF Closed
<1>2. /\ x \in N /\ Under(w, x) /\ \A v \in N : Under(v, x) => Len(v) <= Len(w)
      /\ y \in N /\ Under(w, y) /\ \A v \in N : Under(v, y) => Len(v) <= Len(w)
  BY <1>1, KidIs DEF Above
<1>3. Len(w) \in Nat /\ Len(x) \in Nat /\ Len(y) \in Nat
  BY <1>1, <1>2, TextIs
<1>4. Pre(x, y) => x = y
  <2>1. Pre(x, y) /\ Len(x) < Len(y) => FALSE
    BY <1>2, <1>3 DEF Under
  <2>2. Pre(x, y) /\ Len(y) <= Len(x) => x = y
    BY <1>1, <1>2, TextEqual
  <2> QED
    BY <1>3, <2>1, <2>2
<1>5. Pre(y, x) => x = y
  <2>1. Pre(y, x) /\ Len(y) < Len(x) => FALSE
    BY <1>2, <1>3 DEF Under
  <2>2. Pre(y, x) /\ Len(x) <= Len(y) => x = y
    BY <1>1, <1>2, TextEqual
  <2> QED
    BY <1>3, <2>1, <2>2
<1>6. ASSUME ~Pre(x, y), ~Pre(y, x)
      PROVE  FALSE
  <2>1. PICK i \in Nat : Part(x, y, i)
    BY <1>1, <1>2, <1>6, PartOr
  <2>2. i < Len(x) /\ i \in 0 .. Len(x) /\ To(x, i) \in N
    BY <1>2, <1>3, <2>1 DEF Closed, Part
  <2>3. i <= Len(w)
    BY <1>1, <1>2, <2>2, ToIs DEF Under
  <2>4. i + 1 \in 1 .. Len(w) \/ i = Len(w)
    BY <1>3, <2>3
  <2>5. x[i + 1] = y[i + 1]
    BY <1>2, <2>4 DEF Under, Pre
  <2> QED
    BY <2>1, <2>5 DEF Part
<1> QED
  BY <1>4, <1>5, <1>6

LEMMA ShortestIs ==
    ASSUME NEW N, Closed(N), N # {}
    PROVE  \E r \in N : \A v \in N : Len(r) <= Len(v) /\ Pre(r, v)
<1>1. N \in SUBSET Text
  BY DEF Closed
<1> DEFINE T == {i \in Nat : \E v \in N : i = Len(v)}
<1>2. T \in SUBSET Nat /\ T # {} /\ \A v \in N : Len(v) \in T
  BY <1>1, TextIs
<1>3. PICK i \in T : \A j \in T : i <= j
  BY <1>2, LeastOf
<1>4. PICK r \in N : i = Len(r)
  BY <1>3
<1>5. \A v \in N : Len(r) <= Len(v)
  BY <1>2, <1>3, <1>4
<1>6. ASSUME NEW v \in N
      PROVE  Pre(r, v)
  <2>1. Len(r) \in Nat /\ Len(v) \in Nat /\ Len(r) <= Len(v)
    BY <1>1, <1>5, TextIs
  <2>2. Pre(v, r) => Pre(r, v)
    BY <1>1, <2>1, TextEqual
  <2>3. ASSUME ~Pre(r, v), ~Pre(v, r)
        PROVE  FALSE
    <3>1. PICK j \in Nat : Part(r, v, j)
      BY <1>1, <2>3, PartOr
    <3>2. j < Len(r) /\ j \in 0 .. Len(r) /\ To(r, j) \in N
      BY <2>1, <3>1 DEF Closed, Part
    <3>3. Len(To(r, j)) = j
      BY <1>1, <3>2, ToIs
    <3> QED
      BY <1>5, <2>1, <3>2, <3>3
  <2> QED
    BY <2>2, <2>3
<1> QED
  BY <1>5, <1>6

LEMMA RootIs ==
    ASSUME Closed(nodes), nodes # {}
    PROVE  Root \in nodes /\ \A v \in nodes : Len(Root) <= Len(v) /\ Pre(Root, v)
<1>1. nodes \in SUBSET Text
  BY DEF Closed
<1>2. PICK r \in nodes : \A v \in nodes : Len(r) <= Len(v) /\ Pre(r, v)
  BY ShortestIs
<1>3. ASSUME NEW q \in nodes, \A v \in nodes : Len(q) <= Len(v)
      PROVE  q = r
  BY <1>1, <1>2, <1>3, TextEqual
<1>4. Root = r
  BY <1>2, <1>3 DEF Root
<1> QED
  BY <1>2, <1>4
-----------------------------------------------------------------------------
\* A word and a wildcard.
LEMMA AppendIs ==
    ASSUME NEW u \in Text, NEW v \in Text
    PROVE  v = Append(u, Wild) <=> Len(v) = Len(u) + 1 /\ Pre(u, v) /\ v[Len(u) + 1] = Wild
<1> DEFINE S == Int \cup {Wild}
           a == Append(u, Wild)
<1>1. u \in Seq(S) /\ v \in Seq(S) /\ Wild \in S
  BY DEF Text
<1> HIDE DEF S
<1>2. /\ a \in Seq(S) /\ Len(a) = Len(u) + 1 /\ a[Len(u) + 1] = Wild
      /\ \A i \in 1 .. Len(u) : a[i] = u[i]
  BY <1>1, AppendProperties
<1>3. Len(u) \in Nat
  BY TextIs
<1> HIDE DEF a
<1>4. v = a => Len(v) = Len(u) + 1 /\ Pre(u, v) /\ v[Len(u) + 1] = Wild
  BY <1>2, <1>3 DEF Pre
<1>5. ASSUME Len(v) = Len(u) + 1, Pre(u, v), v[Len(u) + 1] = Wild
      PROVE  v = a
  <2>1. \A i \in 1 .. Len(v) : i \in 1 .. Len(u) \/ i = Len(u) + 1
    BY <1>3, <1>5
  <2>2. \A i \in 1 .. Len(v) : v[i] = a[i]
    BY <1>2, <1>5, <2>1 DEF Pre
  <2> QED
    BY <1>1, <1>2, <1>5, <2>2, SeqEqual
<1> QED
  BY <1>4, <1>5 DEF a

LEMMA CutEnds ==
    ASSUME NEW w \in Text, NEW s \in 0 .. Len(w), NEW k \in Cuts(w, s)
    PROVE  /\ k \in s + 1 .. Len(w) /\ To(w, k) \in Text /\ To(w, k - 1) \in Text
           /\ Len(To(w, k)) = k /\ Len(To(w, k - 1)) = k - 1
           /\ To(w, k) = Append(To(w, k - 1), Wild) /\ Last(To(w, k)) = Wild
           /\ To(w, Len(To(w, k - 1)) + 1) = To(w, k)
<1>1. k \in s + 1 .. Len(w) /\ w[k] = Wild /\ Len(w) \in Nat
  BY TextIs DEF Cuts
<1>2. k \in 0 .. Len(w) /\ k - 1 \in 0 .. Len(w) /\ k - 1 \in 0 .. k /\ k \in 1 .. k /\ (k - 1) + 1 = k
  BY <1>1
<1>3. /\ To(w, k) \in Text /\ Len(To(w, k)) = k /\ To(w, k)[k] = Wild
      /\ To(w, k - 1) \in Text /\ Len(To(w, k - 1)) = k - 1 /\ Pre(To(w, k - 1), To(w, k))
  BY <1>1, <1>2, ToIs, ToPre
<1>4. To(w, k) = Append(To(w, k - 1), Wild)
  BY <1>2, <1>3, AppendIs
<1>5. Last(To(w, k)) = Wild
  BY <1>3 DEF Last
<1> QED
  BY <1>1, <1>2, <1>3, <1>4, <1>5

\* The nodes after the cut of w: those new lie on w's piece.
LEMMA NewNodes ==
    ASSUME NEW N, Closed(N), IsFiniteSet(N), NEW w \in N, NEW s, s = Start(N, w),
           NEW M, M = CutNodes(N, w, s, Cuts(w, s))
    PROVE  /\ Within(N, w, s, M) /\ Closed(M) /\ IsFiniteSet(M)
           /\ \A k \in Cuts(w, s) : To(w, k) \in M /\ (k - 1 > s => To(w, k - 1) \in M)
           /\ \A u \in M \ N : Last(u) = Wild \/ Append(u, Wild) \in M
<1>1. N \in SUBSET Text /\ w \in Text
  BY DEF Closed
<1>2. s \in 0 .. Len(w) /\ Len(w) \in Nat
  BY <1>1, StartIs, TextIs
<1>3. Within(N, w, s, M)
  BY <1>1, <1>2, CutNodesIs
<1>4. \A k \in Cuts(w, s) : To(w, k) \in M /\ (k - 1 > s => To(w, k - 1) \in M)
  BY DEF CutNodes
<1>5. \A u \in M \ N : \E k \in Cuts(w, s) : u = To(w, k) \/ u = To(w, k - 1)
  BY DEF CutNodes
<1>6. \A u \in M \ N : Last(u) = Wild \/ Append(u, Wild) \in M
  <2> TAKE u \in M \ N
  <2>1. PICK k \in Cuts(w, s) : u = To(w, k) \/ u = To(w, k - 1)
    BY <1>5
  <2>2. Last(To(w, k)) = Wild /\ Append(To(w, k - 1), Wild) = To(w, k)
    BY <1>1, <1>2, CutEnds
  <2> QED
    BY <1>4, <2>1, <2>2
<1>7. \A u \in M : u \in Text /\ \E a \in N : Pre(u, a)
  <2> TAKE u \in M
  <2>1. u \in Text
    BY <1>3 DEF Within
  <2>2. u \in N => Pre(u, u)
    BY <2>1, TextIs DEF Pre
  <2>3. ASSUME NEW i \in s + 1 .. Len(w), u = To(w, i)
        PROVE  Pre(u, w)
    <3>1. i \in 0 .. Len(w)
      BY <1>2
    <3> QED
      BY <1>1, <2>3, <3>1, ToIs
  <2> QED
    BY <1>3, <2>1, <2>2, <2>3 DEF Within
<1>8. ASSUME NEW u \in M, NEW v \in M, NEW i \in Nat, Part(u, v, i)
      PROVE  To(u, i) \in M
  <2>1. PICK a \in N : Pre(u, a)
    BY <1>7
  <2>2. PICK b \in N : Pre(v, b)
    BY <1>7
  <2>3. Part(a, b, i) /\ To(a, i) = To(u, i)
    BY <1>1, <1>7, <1>8, <2>1, <2>2, PartFrom
  <2> QED
    BY <1>3, <2>3 DEF Closed, Within
<1>9. IsFiniteSet(M)
  <2> DEFINE P == {To(w, i) : i \in s + 1 .. Len(w)}
             g == [i \in s + 1 .. Len(w) |-> To(w, i)]
  <2>1. g \in Surjection(s + 1 .. Len(w), P)
    BY DEF Surjection
  <2>2. IsFiniteSet(s + 1 .. Len(w))
    BY <1>2, FS_Interval
  <2>3. M \in SUBSET (N \cup P)
    BY <1>3 DEF Within
  <2> HIDE DEF g, P
  <2>4. IsFiniteSet(P)
    BY <2>1, <2>2, FS_Surjection
  <2>5. IsFiniteSet(N \cup P)
    BY <2>4, FS_Union
  <2> QED
    BY <2>3, <2>5, FS_Subset
<1> QED
  BY <1>3, <1>4, <1>6, <1>7, <1>8, <1>9 DEF Closed

\* The wildcard children after it.
LEMMA NewWc ==
    ASSUME NEW N, Closed(N), IsFiniteSet(N), NEW w \in N, NEW s, s = Start(N, w),
           NEW M, M = CutNodes(N, w, s, Cuts(w, s)),
           NEW c \in [N -> N \cup {NoNode}], \A u \in N : c[u] # NoNode => c[u] = Append(u, Wild),
           NEW u \in M
    PROVE  /\ CutWc(N, c, w, Cuts(w, s), u) \in M \cup {NoNode}
           /\ CutWc(N, c, w, Cuts(w, s), u) # NoNode =>
                CutWc(N, c, w, Cuts(w, s), u) = Append(u, Wild)
<1>1. N \in SUBSET Text /\ w \in Text
  BY DEF Closed
<1>2. s \in 0 .. Len(w) /\ N \subseteq M /\ \A k \in Cuts(w, s) : To(w, k) \in M
  BY <1>1, StartIs, NewNodes DEF Within
<1>3. CASE \E k \in Cuts(w, s) : u = To(w, k - 1)
  <2>1. PICK k \in Cuts(w, s) : u = To(w, k - 1)
    BY <1>3
  <2>2. To(w, Len(u) + 1) = To(w, k) /\ To(w, k) = Append(u, Wild)
    BY <1>1, <1>2, <2>1, CutEnds
  <2>3. CutWc(N, c, w, Cuts(w, s), u) = To(w, Len(u) + 1)
    BY <1>3 DEF CutWc
  <2> QED
    BY <1>2, <2>2, <2>3
<1>4. CASE ~ \E k \in Cuts(w, s) : u = To(w, k - 1)
  <2>1. CutWc(N, c, w, Cuts(w, s), u) = IF u \in N THEN c[u] ELSE NoNode
    BY <1>4 DEF CutWc
  <2> QED
    BY <1>2, <2>1
<1> QED
  BY <1>3, <1>4

\* A new node lies above a node that was there before only if w does too.
LEMMA NewBelow ==
    ASSUME NEW N, Closed(N), NEW w \in N, NEW s, s = Start(N, w),
           NEW i \in s + 1 .. Len(w), To(w, i) \notin N, NEW v \in N, Under(To(w, i), v)
    PROVE  Pre(w, v)
<1>1. N \in SUBSET Text /\ w \in Text /\ v \in Text
  BY DEF Closed
<1>2. s \in 0 .. Len(w) /\ Len(w) \in Nat /\ Len(v) \in Nat /\ \A x \in N : Under(x, w) => Len(x) <= s
  BY <1>1, StartIs, TextIs
<1>3. i \in 0 .. Len(w) /\ To(w, i) \in Text /\ Len(To(w, i)) = i /\ i < Len(v)
  BY <1>1, <1>2, ToIs DEF Under
<1>4. Pre(v, w) => v = w
  <2> SUFFICES ASSUME Pre(v, w), v # w PROVE FALSE
    OBVIOUS
  <2>1. Len(v) < Len(w)
    BY <1>1, <1>2, TextEqual
  <2> QED
    BY <1>2, <1>3, <2>1 DEF Under
<1>5. v = w => Pre(w, v)
  BY <1>1, TextIs DEF Pre
<1>6. ASSUME ~Pre(w, v), ~Pre(v, w)
      PROVE  FALSE
  <2>1. PICK j \in Nat : Part(w, v, j)
    BY <1>1, <1>6, PartOr
  <2>2. j < Len(w) /\ j \in 0 .. Len(w) /\ To(w, j) \in N
    BY <1>2, <2>1 DEF Closed, Part
  <2>3. j <= s
    BY <1>1, <1>2, <2>2, ToIs DEF Under
  <2>4. j + 1 \in 1 .. i
    BY <1>2, <2>3
  <2>5. To(w, i)[j + 1] = w[j + 1] /\ To(w, i)[j + 1] = v[j + 1]
    BY <1>1, <1>3, <2>4, ToIs DEF Under, Pre
  <2> QED
    BY <2>1, <2>5 DEF Part
<1> QED
  BY <1>4, <1>5, <1>6

LEMMA SameStart ==
    ASSUME NEW N, Closed(N), NEW w \in N, NEW s, s = Start(N, w),
           NEW M, Within(N, w, s, M), NEW v \in N, ~Pre(w, v)
    PROVE  Start(M, v) = Start(N, v) /\ Piece(M, v) = Piece(N, v) /\ Up(M, v) = Up(N, v)
<1>1. N \in SUBSET Text /\ w \in Text /\ v \in Text /\ M \in SUBSET Text /\ N \subseteq M
  BY DEF Closed, Within
<1>2. ASSUME NEW x \in M, Under(x, v)
      PROVE  x \in N
  BY <1>2, NewBelow DEF Within
<1>3. Up(M, v) = Up(N, v) /\ Start(M, v) = Start(N, v)
  <2>1. CASE Up(N, v) = NoNode
    <3>1. \A x \in M : ~Under(x, v)
      BY <1>1, <1>2, <2>1, UpIs
    <3> QED
      BY <1>1, <2>1, <3>1, UpNone, StartIs
  <2>2. CASE Up(N, v) # NoNode
    <3>1. Above(N, v, Up(N, v)) /\ Start(N, v) = Len(Up(N, v))
      BY <1>1, <2>2, UpIs
    <3>2. Above(M, v, Up(N, v))
      BY <1>1, <1>2, <3>1 DEF Above
    <3> QED
      BY <1>1, <3>1, <3>2, UpGiven
  <2> QED
    BY <2>1, <2>2
<1> QED
  BY <1>3 DEF Piece

\* A node whose wildcards are alone and known to their parents.
IsCut(N, c, v) == /\ Wild \in Range(Piece(N, v)) => Len(Piece(N, v)) = 1
                  /\ \A u \in N : v = Append(u, Wild) => c[u] = v

LEMMA CutOff ==
    ASSUME NEW N, Closed(N), IsFiniteSet(N), NEW w \in N, NEW s, s = Start(N, w),
           NEW M, M = CutNodes(N, w, s, Cuts(w, s)),
           NEW c \in [N -> N \cup {NoNode}], NEW k \in s + 1 .. Len(w), To(w, k) \in M
    PROVE  IsCut(M, [u \in M |-> CutWc(N, c, w, Cuts(w, s), u)], To(w, k))
<1> PICK v : v = To(w, k)
  OBVIOUS
<1> PICK a : a = Start(M, v)
  OBVIOUS
<1>1. N \in SUBSET Text /\ w \in Text
  BY DEF Closed
<1>2. s \in 0 .. Len(w) /\ Len(w) \in Nat
  BY <1>1, StartIs, TextIs
<1>3. /\ k \in 0 .. Len(w) /\ s \in 0 .. Len(w) /\ s \in 0 .. k /\ k - 1 \in 0 .. k
      /\ k \in Nat /\ s < k
  BY <1>2
<1>4. v \in Text /\ Len(v) = k /\ \A j \in 1 .. k : v[j] = w[j]
  BY <1>1, <1>3, ToIs
<1>5. /\ Within(N, w, s, M) /\ M \in SUBSET Text
      /\ \A h \in Cuts(w, s) : To(w, h) \in M /\ (h - 1 > s => To(w, h - 1) \in M)
  BY NewNodes DEF Within
<1>6. a \in 0 .. k /\ a < k /\ \A x \in M : Under(x, v) => Len(x) <= a
  <2>1. v # <<>>
    BY <1>3, <1>4, TextIs
  <2> QED
    BY <1>4, <1>5, <2>1, StartIs
<1>7. ASSUME NEW j \in 0 .. k, j < k, To(w, j) \in M
      PROVE  j <= a
  <2>1. j \in 0 .. Len(w)
    BY <1>3
  <2>2. Pre(To(w, j), v) /\ Len(To(w, j)) = j
    BY <1>1, <1>3, <2>1, ToIs, ToPre
  <2> QED
    BY <1>4, <1>6, <1>7, <2>2 DEF Under
<1>8. s <= a
  <2>1. CASE Up(N, w) = NoNode
    BY <1>1, <1>3, <1>6, <2>1, StartIs
  <2>2. CASE Up(N, w) # NoNode
    <3>1. To(w, s) \in M
      BY <1>1, <1>5, <2>2, StartIs DEF Within
    <3> QED
      BY <1>3, <1>7, <3>1
  <2> QED
    BY <2>1, <2>2
<1>9. ASSUME Wild \in Range(Piece(M, v))
      PROVE  Len(Piece(M, v)) = 1
  <2>7. /\ Len(Piece(M, v)) = Len(v) - a
        /\ \A x : x \in Range(Piece(M, v)) <=> \E j \in a + 1 .. Len(v) : x = v[j]
    <3>1. v \in Text /\ M \in SUBSET Text
      BY <1>4, <1>5
    <3>2. /\ Len(Piece(M, v)) = Len(v) - Start(M, v)
          /\ \A x : x \in Range(Piece(M, v)) <=> \E j \in Start(M, v) + 1 .. Len(v) : x = v[j]
      BY <3>1, PieceIs, Zenon
    <3> QED
      BY <3>2, Zenon
  <2>1. PICK j \in a + 1 .. Len(v) : Wild = v[j]
    BY <1>9, <2>7
  <2>2. j \in s + 1 .. k /\ j \in 1 .. k /\ j \in s + 1 .. Len(w) /\ j \in 0 .. k
    BY <1>2, <1>3, <1>4, <1>6, <1>8, <2>1
  <2>3. j \in Cuts(w, s)
    BY <1>4, <2>1, <2>2 DEF Cuts
  <2>4. j = k
    BY <1>5, <1>6, <1>7, <2>1, <2>2, <2>3
  <2>5. k - 1 <= a
    <3>1. k - 1 > s => To(w, k - 1) \in M
      BY <1>5, <2>3, <2>4
    <3> QED
      BY <1>3, <1>6, <1>7, <1>8, <3>1
  <2>6. Len(Piece(M, v)) = k - a
    BY <1>4, <2>7
  <2> QED
    BY <1>3, <1>6, <2>5, <2>6
<1>10. ASSUME NEW u \in M, v = Append(u, Wild)
       PROVE  CutWc(N, c, w, Cuts(w, s), u) = v
  <2>1. Len(v) = Len(u) + 1 /\ Pre(u, v) /\ v[Len(u) + 1] = Wild
    BY <1>4, <1>5, <1>10, AppendIs
  <2>2. Len(u) + 1 = k /\ Len(u) \in Nat /\ k \in 1 .. k
    BY <1>3, <1>4, <1>5, <2>1, TextIs
  <2>3. k \in Cuts(w, s)
    BY <1>4, <2>1, <2>2 DEF Cuts
  <2>4. Pre(To(w, k - 1), v) /\ Len(To(w, k - 1)) = k - 1 /\ To(w, k - 1) \in Text
    BY <1>1, <1>2, <1>3, <2>3, CutEnds, ToPre
  <2>5. u = To(w, k - 1)
    <3>1. Len(u) = Len(To(w, k - 1))
      BY <2>2, <2>4
    <3>2. Pre(u, To(w, k - 1))
      BY <1>4, <1>5, <2>1, <2>2, <2>4, PreBoth
    <3> QED
      BY <1>5, <2>2, <2>4, <3>1, <3>2, TextEqual
  <2> QED
    BY <2>2, <2>3, <2>5 DEF CutWc
<1> QED
  BY <1>9, <1>10 DEF IsCut

LEMMA KeptCut ==
    ASSUME NEW N, Closed(N), IsFiniteSet(N), NEW w \in N, NEW s, s = Start(N, w),
           NEW M, M = CutNodes(N, w, s, Cuts(w, s)),
           NEW c \in [N -> N \cup {NoNode}], NEW v \in N, ~Pre(w, v), IsCut(N, c, v)
    PROVE  IsCut(M, [u \in M |-> CutWc(N, c, w, Cuts(w, s), u)], v)
<1>1. N \in SUBSET Text /\ w \in Text /\ v \in Text
  BY DEF Closed
<1>2. s \in 0 .. Len(w) /\ Len(w) \in Nat
  BY <1>1, StartIs, TextIs
<1>3. Within(N, w, s, M) /\ M \in SUBSET Text
  BY NewNodes DEF Within
<1>4. Piece(M, v) = Piece(N, v)
  BY <1>3, SameStart
<1>5. ASSUME NEW u \in M, v = Append(u, Wild)
      PROVE  CutWc(N, c, w, Cuts(w, s), u) = v
  <2>1. CASE \E k \in Cuts(w, s) : u = To(w, k - 1)
    <3>1. PICK k \in Cuts(w, s) : u = To(w, k - 1)
      BY <2>1
    <3>3. /\ To(w, k) = Append(To(w, k - 1), Wild)
          /\ To(w, Len(To(w, k - 1)) + 1) = To(w, k)
      BY <1>1, <1>2, CutEnds
    <3>2. To(w, Len(u) + 1) = v
      BY <1>5, <3>1, <3>3
    <3> QED
      BY <2>1, <3>2 DEF CutWc
  <2>2. CASE ~ \E k \in Cuts(w, s) : u = To(w, k - 1)
    <3>1. u \in N
      <4> SUFFICES ASSUME u \notin N PROVE FALSE
        OBVIOUS
      <4>1. PICK i \in s + 1 .. Len(w) : u = To(w, i)
        BY <1>3 DEF Within
      <4>3. u \in Text /\ Len(u) \in Nat
        BY <1>3, TextIs
      <4>4. Len(v) = Len(u) + 1 /\ Pre(u, v)
        BY <1>1, <1>5, <4>3, AppendIs
      <4>2. Under(u, v)
        BY <4>3, <4>4 DEF Under
      <4> QED
        BY <4>1, <4>2, NewBelow
    <3>2. c[u] = v
      BY <1>5, <3>1 DEF IsCut
    <3> QED
      BY <2>2, <3>1, <3>2 DEF CutWc
  <2> QED
    BY <2>1, <2>2
<1> QED
  BY <1>4, <1>5 DEF IsCut
-----------------------------------------------------------------------------
\* While rm_matafy works: what the queue still has to reach, and that all else
\* is cut.
TreeInv ==
    /\ rules \in RuleSets
    /\ Closed(nodes) /\ nodes # {} /\ IsFiniteSet(nodes)
    /\ Tree(rules) \subseteq nodes
    /\ wc_node \in [nodes -> nodes \cup {NoNode}]
    /\ \A w \in nodes : wc_node[w] # NoNode => wc_node[w] = Append(w, Wild)
    /\ \A w \in nodes \ Tree(rules) : Last(w) = Wild \/ Append(w, Wild) \in nodes
Pending(v) == \E q \in Range(queue) : Pre(q, v)
CutInv ==
    /\ queue \in Seq(nodes)
    /\ \A v \in nodes : Pending(v) \/ IsCut(nodes, wc_node, v)
    /\ rm_pc # "matafy" => queue = <<>>
MataInv == TreeInv /\ CutInv

LEMMA RulesAre ==
    ASSUME NEW R \in RuleSets
    PROVE  R \in SUBSET Text /\ R # {} /\ IsFiniteSet(R) /\ \A r \in R : r # <<>>
BY RulesAreWords DEF Text

LEMMA InitMata == RmInit => MataInv
<1> SUFFICES ASSUME RmInit PROVE MataInv
  OBVIOUS
<1>1. rules \in RuleSets /\ nodes = Tree(rules)
  BY DEF RmInit
<1>2. Closed(nodes) /\ IsFiniteSet(nodes) /\ nodes # {}
  BY <1>1, RulesAre, TreeIs
<1>3. wc_node = [w \in nodes |-> NoNode]
  BY DEF RmInit
<1>4. TreeInv
  BY <1>1, <1>2, <1>3 DEF TreeInv
<1>5. queue = <<Root>> /\ rm_pc = "matafy"
  BY DEF RmInit
<1>6. Root \in nodes /\ \A v \in nodes : Pre(Root, v)
  BY <1>2, RootIs
<1>7. queue \in Seq(nodes) /\ Root \in Range(queue)
  BY <1>5, <1>6 DEF Range
<1>8. CutInv
  BY <1>5, <1>6, <1>7 DEF CutInv, Pending
<1> QED
  BY <1>4, <1>8 DEF MataInv

LEMMA BothIs ==
    ASSUME NEW p \in Seq(Text), NEW q \in Seq(Text), NEW r, r = p \o q
    PROVE  Range(r) = Range(p) \cup Range(q)
BY ConcatProperties, RangeConcatenation

LEMMA HeadIs ==
    ASSUME NEW q \in Seq(Text), q # <<>>
    PROVE  Range(q) = {Head(q)} \cup Range(Tail(q))
<1>1. Head(q) \in Text /\ Tail(q) \in Seq(Text)
  BY HeadTailProperties
<1>2. q = <<Head(q)>> \o Tail(q)
  OBVIOUS
<1>3. <<Head(q)>> \in Seq(Text) /\ Range(<<Head(q)>>) = {Head(q)}
  BY <1>1 DEF Range
<1>4. Range(q) = Range(<<Head(q)>>) \cup Range(Tail(q))
  BY <1>1, <1>2, <1>3, BothIs
<1> QED
  BY <1>1, <1>3, <1>4

\* The node at the head of the queue, its cut, and its children.
LEMMA KidsQueued ==
    ASSUME NEW N, Closed(N), IsFiniteSet(N), NEW w \in N
    PROVE  /\ InOrder(Kids(N, w), Len(w) + 1) \in Seq(N)
           /\ Range(InOrder(Kids(N, w), Len(w) + 1)) = Kids(N, w)
<1>1. N \in SUBSET Text /\ w \in Text
  BY DEF Closed
<1> PICK K : K = Kids(N, w)
  OBVIOUS
<1>2. K \in SUBSET N
  BY DEF Kids
<1>3. IsFiniteSet(K)
  BY <1>2, FS_Subset
<1>4. ASSUME NEW x \in K
      PROVE  x[Len(w) + 1] \in Int
  <2>1. Under(w, x) /\ x \in Text
    BY <1>1, <1>2, KidIs
  <2> QED
    BY <1>1, <2>1, TextIs DEF Under
<1>5. \A x, y \in K : x[Len(w) + 1] = y[Len(w) + 1] => x = y
  BY KidLetters
<1>6. InOrder(K, Len(w) + 1) \in Seq(K) /\ Range(InOrder(K, Len(w) + 1)) = K
  BY <1>3, <1>4, <1>5, OrderIs
<1>7. InOrder(K, Len(w) + 1) \in Seq(N)
  BY <1>2, <1>6, SeqMonotonic
<1> QED
  BY <1>6, <1>7

LEMMA EmptyCut ==
    ASSUME NEW N \in SUBSET Text, NEW c, NEW w \in Text, Len(w) = 0
    PROVE  IsCut(N, c, w)
<1>1. Start(N, w) \in 0 .. 0
  BY StartIs
<1>2. Wild \notin Range(Piece(N, w))
  <2>1. \A x : x \in Range(Piece(N, w)) <=> \E j \in Start(N, w) + 1 .. Len(w) : x = w[j]
    BY PieceIs
  <2> QED
    BY <1>1, <2>1
<1>3. \A u \in N : w # Append(u, Wild)
  <2> TAKE u \in N
  <2>1. u \in Text /\ Len(u) \in Nat
    BY TextIs
  <2>2. w = Append(u, Wild) => Len(w) = Len(u) + 1
    BY <2>1, AppendIs, Zenon
  <2> QED
    BY <2>1, <2>2
<1> QED
  BY <1>2, <1>3 DEF IsCut

LEMMA MatafyStep ==
    ASSUME MataInv, Matafy
    PROVE  MataInv'
<1> PICK w : w = Head(queue)
  OBVIOUS
<1> PICK N : N = nodes
  OBVIOUS
<1> PICK c : c = wc_node
  OBVIOUS
<1> PICK s : s = Start(N, w)
  OBVIOUS
<1> PICK M : M = CutNodes(N, w, s, Cuts(w, s))
  OBVIOUS
<1> PICK g : g = [u \in M |-> CutWc(N, c, w, Cuts(w, s), u)]
  OBVIOUS
<1> PICK K : K = Kids(N, w)
  OBVIOUS
<1>1. /\ queue \in Seq(N) /\ queue # <<>> /\ rm_pc = "matafy"
      /\ \A v \in N : Pending(v) \/ IsCut(N, c, v)
  BY DEF MataInv, CutInv, Matafy
<1>2. /\ Closed(N) /\ N # {} /\ IsFiniteSet(N) /\ rules \in RuleSets /\ Tree(rules) \subseteq N
      /\ c \in [N -> N \cup {NoNode}] /\ \A u \in N : c[u] # NoNode => c[u] = Append(u, Wild)
      /\ \A u \in N \ Tree(rules) : Last(u) = Wild \/ Append(u, Wild) \in N
  BY DEF MataInv, TreeInv
<1>3. w \in N /\ N \in SUBSET Text /\ Tail(queue) \in Seq(N)
  BY <1>1, <1>2, HeadTailProperties DEF Closed
<1>4. s \in 0 .. Len(w) /\ Len(w) \in Nat /\ (w # <<>> => s < Len(w))
  BY <1>3, StartIs, TextIs
<1>5. MatafyNode([nodes |-> N, wc |-> c], w) = [nodes |-> M, wc |-> g]
  <2>1. MatafyNode([nodes |-> N, wc |-> c], w) = CutTree(N, c, w, s, Cuts(w, s))
    <3>1. N \in SUBSET Text /\ w \in N /\ c \in [N -> N \cup {NoNode}] /\ s = Start(N, w)
      BY <1>2, <1>3
    <3>2. MatafyNode([nodes |-> N, wc |-> c], w) = CutTree(N, c, w, Start(N, w), Cuts(w, Start(N, w)))
      BY <3>1, MatafyNodeIs, SMTT(30)
    <3> QED
      BY <3>1, <3>2, Zenon
  <2> QED
    BY <2>1 DEF CutTree
<1>6. /\ nodes' = M /\ wc_node' = g /\ rules' = rules /\ rm_pc' = rm_pc
      /\ queue' = Tail(queue) \o InOrder(K, Len(w) + 1)
  BY <1>5 DEF Matafy
<1>7. /\ Within(N, w, s, M) /\ Closed(M) /\ IsFiniteSet(M)
      /\ \A k \in Cuts(w, s) : To(w, k) \in M /\ (k - 1 > s => To(w, k - 1) \in M)
      /\ \A u \in M \ N : Last(u) = Wild \/ Append(u, Wild) \in M
  BY <1>2, <1>3, NewNodes
<1>8. M \in SUBSET Text /\ N \subseteq M
  BY <1>7 DEF Within
<1>9. TreeInv'
  <2>1. Tree(rules) \subseteq M /\ M # {}
    BY <1>2, <1>8
  <2>2. \A u \in M : g[u] \in M \cup {NoNode} /\ (g[u] # NoNode => g[u] = Append(u, Wild))
    BY <1>2, <1>3, NewWc
  <2>3. g \in [M -> M \cup {NoNode}]
    BY <2>2
  <2>4. \A u \in M \ Tree(rules) : Last(u) = Wild \/ Append(u, Wild) \in M
    BY <1>2, <1>7, <1>8
  <2> QED
    BY <1>2, <1>6, <1>7, <2>1, <2>2, <2>3, <2>4 DEF TreeInv
<1>10. /\ queue' \in Seq(N) /\ Range(queue') = Range(Tail(queue)) \cup K
  <2>1. InOrder(K, Len(w) + 1) \in Seq(N) /\ Range(InOrder(K, Len(w) + 1)) = K
    BY <1>2, <1>3, KidsQueued
  <2>2. PICK p : p = Tail(queue)
    OBVIOUS
  <2>3. PICK q : q = InOrder(K, Len(w) + 1)
    OBVIOUS
  <2>4. p \in Seq(N) /\ q \in Seq(N) /\ queue' = p \o q
    BY <1>3, <1>6, <2>1, <2>2, <2>3
  <2>5. queue' \in Seq(N)
    BY <2>4, ConcatProperties
  <2>6. p \in Seq(Text) /\ q \in Seq(Text)
    BY <1>3, <2>4, SeqMonotonic
  <2>7. Range(queue') = Range(p) \cup Range(q)
    BY <2>4, <2>6, BothIs
  <2> QED
    BY <2>1, <2>2, <2>3, <2>5, <2>7
<1>11. Range(queue) = {w} \cup Range(Tail(queue))
  <2>1. queue \in Seq(Text)
    BY <1>1, <1>3, SeqMonotonic
  <2> QED
    BY <1>1, <2>1, HeadIs
<1>12. ASSUME NEW k \in s + 1 .. Len(w), To(w, k) \in M
       PROVE  IsCut(M, g, To(w, k))
  BY <1>2, <1>3, <1>12, CutOff
<1>13. IsCut(M, g, w)
  <2>1. CASE s < Len(w)
    <3>1. Len(w) \in s + 1 .. Len(w) /\ Pre(w, w)
      BY <1>3, <1>4, <2>1, TextIs DEF Pre
    <3>2. w = To(w, Len(w))
      BY <1>3, <3>1, PreTo
    <3> QED
      BY <1>3, <1>8, <1>12, <3>1, <3>2
  <2>2. CASE s = Len(w)
    <3>1. Len(w) = 0
      BY <1>3, <1>4, <2>2, TextIs
    <3> QED
      BY <1>3, <1>8, <3>1, EmptyCut
  <2> QED
    BY <1>4, <2>1, <2>2
<1>14. ASSUME NEW v \in M
       PROVE  (\E q \in Range(queue') : Pre(q, v)) \/ IsCut(M, g, v)
  <2>1. CASE v \notin N
    <3>1. PICK k \in s + 1 .. Len(w) : v = To(w, k)
      BY <1>7, <2>1 DEF Within
    <3> QED
      BY <1>12, <3>1
  <2>2. CASE v \in N
    <3>1. CASE Pre(w, v)
      <4>1. v = w \/ Under(w, v)
        BY <1>3, <2>2, <3>1, TextEqual, TextIs DEF Under
      <4>2. Under(w, v) => \E u \in K : Pre(u, v)
        BY <1>3, <2>2, KidOnWay
      <4> QED
        BY <1>10, <1>13, <4>1, <4>2
    <3>2. CASE ~Pre(w, v)
      <4>1. IsCut(N, c, v) => IsCut(M, g, v)
        BY <1>2, <1>3, <2>2, <3>2, KeptCut
      <4>2. Pending(v) => \E q \in Range(queue') : Pre(q, v)
        BY <1>10, <1>11, <3>2 DEF Pending
      <4> QED
        BY <1>1, <2>2, <4>1, <4>2
    <3> QED
      BY <3>1, <3>2
  <2> QED
    BY <2>1, <2>2
<1>15. CutInv'
  <2>1. queue' \in Seq(M)
    BY <1>8, <1>10, SeqMonotonic
  <2> QED
    BY <1>1, <1>6, <1>14, <2>1 DEF CutInv, Pending
<1> QED
  BY <1>9, <1>15 DEF MataInv

LEMMA MataNext ==
    ASSUME MataInv, [RmNext]_rm_vars
    PROVE  MataInv'
<1>1. ASSUME UNCHANGED rm_tree, rm_pc' # "matafy" => queue = <<>>
      PROVE  MataInv'
  BY <1>1 DEF MataInv, TreeInv, CutInv, Pending, rm_tree
<1>2. CASE Matafy
  BY <1>2, MatafyStep
<1>3. CASE MatafyDone
  BY <1>1, <1>3 DEF MatafyDone
<1>4. CASE MatchChar
  BY <1>1, <1>4 DEF MatchChar, MataInv, CutInv
<1>5. CASE MatchEnd
  BY <1>1, <1>5 DEF MatchEnd, MataInv, CutInv
<1>6. CASE RunOut
  BY <1>1, <1>6 DEF RunOut, MataInv, CutInv
<1>7. ASSUME NEW x \in Inputs, StartMatch(x)
      PROVE  MataInv'
  <2>1. rm_pc # "matafy" /\ UNCHANGED rm_tree
    BY <1>7 DEF StartMatch
  <2> QED
    BY <1>1, <2>1 DEF MataInv, CutInv
<1>8. CASE UNCHANGED rm_vars
  BY <1>1, <1>8 DEF rm_vars, rm_tree, MataInv, CutInv
<1> QED
  BY <1>2, <1>3, <1>4, <1>5, <1>6, <1>7, <1>8 DEF RmNext

\* What the invariant says once the queue is empty.
LEMMA MataIs ==
    ASSUME MataInv, rm_pc # "matafy"
    PROVE  /\ \A w \in nodes : Wild \in Range(Piece(nodes, w)) => Len(Piece(nodes, w)) = 1
           /\ \A w \in nodes : wc_node[w] = IF Append(w, Wild) \in nodes THEN Append(w, Wild) ELSE NoNode
<1>1. queue = <<>> /\ \A v \in nodes : Pending(v) \/ IsCut(nodes, wc_node, v)
  BY DEF MataInv, CutInv
<1>2. \A v \in nodes : IsCut(nodes, wc_node, v)
  <2>1. Range(queue) = {}
    BY <1>1 DEF Range
  <2> QED
    BY <1>1, <2>1 DEF Pending
<1>3. \A w \in nodes : wc_node[w] \in nodes \cup {NoNode} /\ (wc_node[w] # NoNode => wc_node[w] = Append(w, Wild))
  BY DEF MataInv, TreeInv
<1> QED
  BY <1>2, <1>3 DEF IsCut

\* rm_matafy leaves every wildcard a node of its own that its parent knows, and
\* makes no node but for a wildcard: for all rules, in whatever number, and
\* however the wildcards stand in the pieces of the tree.
THEOREM MatafiedHolds == RmSpec => []Matafied
<1>1. MataInv => Matafied
  <2> SUFFICES ASSUME MataInv, rm_pc # "matafy" PROVE Matafied
    BY DEF Matafied
  <2>1. /\ Tree(rules) \subseteq nodes
        /\ \A w \in nodes \ Tree(rules) : Last(w) = Wild \/ Append(w, Wild) \in nodes
    BY DEF MataInv, TreeInv
  <2> QED
    BY <2>1, MataIs DEF Matafied
<1>2. MataInv /\ [RmNext]_rm_vars => MataInv'
  BY MataNext
<1> QED
  BY InitMata, <1>1, <1>2, PTL DEF RmSpec
-----------------------------------------------------------------------------
\* What the matcher asks of the tree: a node's wildcard child starts with a
\* wildcard, and a branch that an input letter takes does not.
LEMMA WcIs ==
    ASSUME TreeInv, NEW u \in nodes, wc_node[u] # NoNode
    PROVE  wc_node[u] \in nodes /\ IsWildcard(nodes, wc_node[u])
<1>1. nodes \in SUBSET Text /\ wc_node[u] \in nodes /\ wc_node[u] = Append(u, Wild)
  BY DEF TreeInv, Closed
<1> PICK v : v = wc_node[u]
  OBVIOUS
<1>2. u \in Text /\ v \in Text /\ Len(u) \in Nat
  BY <1>1, TextIs
<1>3. Len(v) = Len(u) + 1 /\ Pre(u, v) /\ v[Len(u) + 1] = Wild
  BY <1>1, <1>2, AppendIs
<1>4. \A x \in nodes : Under(x, v) => Len(x) <= Len(u)
  <2> TAKE x \in nodes
  <2>1. Len(x) \in Nat
    BY <1>1, TextIs
  <2> QED
    BY <1>2, <1>3, <2>1 DEF Under
<1>5. Above(nodes, v, u)
  BY <1>2, <1>3, <1>4 DEF Above, Under
<1>6. Start(nodes, v) = Len(u)
  BY <1>1, <1>2, <1>5, UpGiven
<1>7. Len(Piece(nodes, v)) = 1 /\ Piece(nodes, v)[1] = Wild
  <2>1. /\ Len(Piece(nodes, v)) = Len(v) - Start(nodes, v)
        /\ \A j \in 1 .. Len(Piece(nodes, v)) : Piece(nodes, v)[j] = v[Start(nodes, v) + j]
    BY <1>1, <1>2, PieceIs
  <2>2. Len(Piece(nodes, v)) = 1
    BY <1>2, <1>3, <1>6, <2>1
  <2> QED
    BY <1>3, <1>6, <2>1, <2>2
<1>8. v # <<>>
  BY <1>2, <1>3
<1> QED
  BY <1>1, <1>7, <1>8 DEF IsWildcard

LEMMA BranchIs ==
    ASSUME TreeInv, NEW w \in nodes, NEW c, c # Wild, Branch(nodes, w, c) # NoNode
    PROVE  Branch(nodes, w, c) \in nodes /\ ~IsWildcard(nodes, Branch(nodes, w, c))
<1> PICK K : K = {v \in Kids(nodes, w) : v[Len(w) + 1] = c}
  OBVIOUS
<1> PICK t : t = Branch(nodes, w, c)
  OBVIOUS
<1>1. nodes \in SUBSET Text
  BY DEF TreeInv, Closed
<1>2. t \in K
  BY DEF Branch
<1>3. t \in Kids(nodes, w) /\ t[Len(w) + 1] = c
  BY <1>2
<1>4. t \in nodes /\ Start(nodes, t) = Len(w) /\ Under(w, t)
  BY <1>1, <1>3, KidIs
<1>5. Len(t) \in Nat /\ Len(w) \in Nat /\ t \in Text
  BY <1>1, <1>4, TextIs
<1>6. Piece(nodes, t)[1] = c
  <2>1. /\ Len(Piece(nodes, t)) = Len(t) - Start(nodes, t)
        /\ \A j \in 1 .. Len(Piece(nodes, t)) : Piece(nodes, t)[j] = t[Start(nodes, t) + j]
    BY <1>1, <1>5, PieceIs
  <2>2. 1 \in 1 .. Len(Piece(nodes, t))
    BY <1>4, <1>5, <2>1 DEF Under
  <2> QED
    BY <1>3, <1>4, <2>1, <2>2
<1> QED
  BY <1>4, <1>6 DEF IsWildcard

LEMMA FirstIs ==
    ASSUME TreeInv
    PROVE  /\ FirstWildcard # NoNode => FirstWildcard \in nodes /\ IsWildcard(nodes, FirstWildcard)
           /\ \A c \in Int \ {Wild} : FirstBranch(c) # NoNode =>
                FirstBranch(c) \in nodes /\ ~IsWildcard(nodes, FirstBranch(c))
<1>1. nodes \in SUBSET Text /\ Root \in nodes
  BY RootIs DEF TreeInv, Closed
<1>2. CASE Root = <<>>
  BY <1>1, <1>2, WcIs, BranchIs DEF FirstWildcard, FirstBranch
<1>3. CASE Root # <<>>
  <2>1. FirstWildcard # NoNode => FirstWildcard = Root /\ IsWildcard(nodes, Root)
    BY <1>3 DEF FirstWildcard
  <2>2. ASSUME NEW c \in Int \ {Wild}, FirstBranch(c) # NoNode
        PROVE  FirstBranch(c) \in nodes /\ ~IsWildcard(nodes, FirstBranch(c))
    <3>1. FirstBranch(c) = Root /\ Root[1] = c
      BY <1>3, <2>2 DEF FirstBranch
    <3>2. \A v \in nodes : Len(Root) <= Len(v)
      BY RootIs DEF TreeInv
    <3>3. Root \in Text /\ Len(Root) \in Nat /\ Len(Root) # 0
      BY <1>1, <1>3, TextIs
    <3>4. \A v \in nodes : ~Under(v, Root)
      <4> TAKE v \in nodes
      <4>1. Len(v) \in Nat /\ Len(Root) <= Len(v)
        BY <1>1, <3>2, TextIs
      <4> QED
        BY <3>3, <4>1 DEF Under
    <3>5. Start(nodes, Root) = 0
      BY <1>1, <3>3, <3>4, UpNone
    <3>6. /\ Len(Piece(nodes, Root)) = Len(Root) - Start(nodes, Root)
          /\ \A j \in 1 .. Len(Piece(nodes, Root)) : Piece(nodes, Root)[j] = Root[Start(nodes, Root) + j]
      BY <1>1, <3>3, PieceIs
    <3>7. Piece(nodes, Root)[1] = c
      BY <3>1, <3>3, <3>5, <3>6
    <3> QED
      BY <1>1, <2>2, <3>1, <3>7 DEF IsWildcard
  <2> QED
    BY <1>1, <2>1, <2>2
<1> QED
  BY <1>2, <1>3
-----------------------------------------------------------------------------
\* The states while a letter is read: m of them were there before it, and B are
\* those that were followed.
StateSet == [rm_stub : nodes, parent : Nat, pos : Int, enter_pos : Int, nr_child_states : Int]
StateLists == Seq(StateSet)
Indices == Seq(Nat)
IndexSets == SUBSET Nat
Lists == [st : StateLists, add : Indices, remove : IndexSets]

Live(a, m, B) == (B \cup m + 1 .. Len(a.st)) \ a.remove
Young(a, m, B, i) == {j \in Live(a, m, B) : ~Wildcard(a.st[j]) /\ a.st[j].parent = i}

\* A plain state has a wildcard for its parent, or none.
Shaped(st) == \A j \in 1 .. Len(st) :
    /\ st[j].parent < j
    /\ Wildcard(st[j]) \/ st[j].parent = 0 \/ Wildcard(st[st[j].parent])
Counted(a, m, B) == \A i \in 1 .. Len(a.st) :
    Wildcard(a.st[i]) => a.st[i].nr_child_states = Cardinality(Young(a, m, B, i))
\* Those to be added are the new ones, each once.
AddsNew(a, m) == /\ Range(a.add) = m + 1 .. Len(a.st)
                 /\ \A h, k \in 1 .. Len(a.add) : a.add[h] = a.add[k] => h = k
Sound(a, m, B) ==
    /\ a \in Lists /\ m \in Nat /\ m <= Len(a.st) /\ B \subseteq 1 .. m
    /\ a.remove \subseteq 1 .. Len(a.st)
    /\ AddsNew(a, m)
    /\ Shaped(a.st)
    /\ Counted(a, m, B)

LEMMA SoundIs ==
    ASSUME NEW a, NEW m, NEW B, Sound(a, m, B)
    PROVE  /\ a = [st |-> a.st, add |-> a.add, remove |-> a.remove]
           /\ a.st \in Seq(StateSet) /\ a.add \in Seq(Nat) /\ a.remove \in SUBSET Nat
           /\ Len(a.st) \in Nat /\ m \in Nat /\ m <= Len(a.st) /\ B \subseteq 1 .. m
           /\ \A j \in 1 .. Len(a.st) : a.st[j] \in StateSet
BY DEF Sound, Lists, StateLists, Indices, IndexSets

LEMMA YoungIs ==
    ASSUME NEW a, NEW m, NEW B, Sound(a, m, B), NEW i
    PROVE  IsFiniteSet(Young(a, m, B, i)) /\ Young(a, m, B, i) \in SUBSET (1 .. Len(a.st))
<1>1. Young(a, m, B, i) \in SUBSET (1 .. Len(a.st))
  BY SoundIs DEF Young, Live
<1>2. IsFiniteSet(1 .. Len(a.st))
  BY SoundIs, FS_Interval
<1> QED
  BY <1>1, <1>2, FS_Subset

\* What a change of the lists is.
Has(u, x, y, z) == u \in Lists /\ u.st = x /\ u.add = y /\ u.remove = z

LEMMA PutSt ==
    ASSUME NEW a \in Lists, NEW x \in StateLists
    PROVE  Has([a EXCEPT !.st = x], x, a.add, a.remove)
<1> DEFINE u == [a EXCEPT !.st = x]
<1>1. a.st \in StateLists /\ a.add \in Indices /\ a.remove \in IndexSets
  BY DEF Lists
<1>2. u.st = x /\ u.add = a.add /\ u.remove = a.remove
  BY DEF Lists
<1>3. u \in Lists
  BY <1>1 DEF Lists
<1> QED
  BY <1>2, <1>3 DEF Has

LEMMA PutBoth ==
    ASSUME NEW a \in Lists, NEW x \in StateLists, NEW y \in Indices
    PROVE  Has([a EXCEPT !.st = x, !.add = y], x, y, a.remove)
<1> DEFINE u == [a EXCEPT !.st = x, !.add = y]
<1>1. a.st \in StateLists /\ a.add \in Indices /\ a.remove \in IndexSets
  BY DEF Lists
<1>2. u.st = x /\ u.add = y /\ u.remove = a.remove
  BY DEF Lists
<1>3. u \in Lists
  BY <1>1 DEF Lists
<1> QED
  BY <1>2, <1>3 DEF Has

LEMMA PutRemove ==
    ASSUME NEW a \in Lists, NEW z \in IndexSets
    PROVE  Has([a EXCEPT !.remove = z], a.st, a.add, z)
<1> DEFINE u == [a EXCEPT !.remove = z]
<1>1. a.st \in StateLists /\ a.add \in Indices /\ a.remove \in IndexSets
  BY DEF Lists
<1>2. u.st = a.st /\ u.add = a.add /\ u.remove = z
  BY DEF Lists
<1>3. u \in Lists
  BY <1>1 DEF Lists
<1> QED
  BY <1>2, <1>3 DEF Has

\* A new state at the head of the list of those to be added.
LEMMA AddedTo ==
    ASSUME NEW a \in Lists, NEW m \in Nat, m <= Len(a.st), AddsNew(a, m),
           NEW s \in StateSet, NEW n, n = Len(a.st) + 1, NEW b, b = Added(a, s)
    PROVE  /\ b \in Lists /\ Len(b.st) = n /\ b.st[n] = s /\ b.remove = a.remove
           /\ \A j \in 1 .. Len(a.st) : b.st[j] = a.st[j]
           /\ AddsNew(b, m)
<1>1. /\ a.st \in Seq(StateSet) /\ a.add \in Seq(Nat) /\ a.remove \in SUBSET Nat
      /\ Len(a.st) \in Nat /\ m \in Nat /\ m <= Len(a.st) /\ n \in Nat
  BY DEF Lists, StateLists, Indices, IndexSets
<1>3. /\ Append(a.st, s) \in Seq(StateSet) /\ Len(Append(a.st, s)) = n /\ Append(a.st, s)[n] = s
      /\ \A j \in 1 .. Len(a.st) : Append(a.st, s)[j] = a.st[j]
  BY <1>1, AppendProperties
<1>9. PICK d : d = <<n>> \o a.add
  OBVIOUS
<1>10. PICK e : e = a.add
  OBVIOUS
<1>4. /\ d \in Seq(Nat) /\ Len(d) = Len(e) + 1 /\ d[1] = n /\ Len(e) \in Nat /\ e \in Seq(Nat)
      /\ \A k \in 1 .. Len(d) : k # 1 => d[k] = e[k - 1] /\ k - 1 \in 1 .. Len(e)
  <2>1. e \in Seq(Nat) /\ Len(e) \in Nat /\ n \in Nat
    BY <1>1, <1>10
  <2>2. d = <<n>> \o e
    BY <1>9, <1>10
  <2>3. d \in Seq(Nat) /\ Len(d) = Len(e) + 1
    BY <2>1, <2>2
  <2>4. d[1] = n
    BY <2>1, <2>2
  <2>5. \A k \in 1 .. Len(d) : k # 1 => d[k] = e[k - 1] /\ k - 1 \in 1 .. Len(e)
    <3> SUFFICES ASSUME NEW k \in 1 .. Len(d), k # 1
                 PROVE  d[k] = e[k - 1] /\ k - 1 \in 1 .. Len(e)
      OBVIOUS
    <3>1. k \in 2 .. Len(e) + 1
      BY <2>1, <2>3
    <3> QED
      BY <2>1, <2>2, <3>1
  <2> QED
    BY <2>1, <2>3, <2>4, <2>5, Zenon
<1>5. Range(e) = m + 1 .. Len(a.st) /\ \A h, k \in 1 .. Len(e) : e[h] = e[k] => h = k
  BY <1>10 DEF AddsNew
<1>6. \A k \in 1 .. Len(e) : e[k] \in m + 1 .. Len(a.st)
  <2>1. DOMAIN e = 1 .. Len(e)
    BY <1>4
  <2>2. \A k \in 1 .. Len(e) : e[k] \in Range(e)
    BY <2>1, Zenon DEF Range
  <2> QED
    BY <1>5, <2>2, Zenon
<1>7. \A h, k \in 1 .. Len(d) : d[h] = d[k] => h = k
  <2> TAKE h, k \in 1 .. Len(d)
  <2>1. h \in Nat /\ k \in Nat
    BY <1>4
  <2>2. \A i \in 1 .. Len(e) : e[i] # n
    BY <1>1, <1>6
  <2>3. \A i \in 1 .. Len(d) : i # 1 => d[i] = e[i - 1] /\ i - 1 \in 1 .. Len(e) /\ d[i] # d[1]
    BY <1>4, <2>2
  <2>4. CASE h = 1 \/ k = 1
    BY <2>3, <2>4
  <2>5. CASE h # 1 /\ k # 1
    <3>1. d[h] = d[k] => h - 1 = k - 1
      <4>1. /\ d[h] = e[h - 1] /\ h - 1 \in 1 .. Len(e)
            /\ d[k] = e[k - 1] /\ k - 1 \in 1 .. Len(e)
        BY <2>3, <2>5
      <4>2. PICK x \in 1 .. Len(e) : x = h - 1
        BY <4>1
      <4>3. PICK y \in 1 .. Len(e) : y = k - 1
        BY <4>1
      <4>4. e[x] = e[y] => x = y
        BY <1>5
      <4> QED
        BY <4>1, <4>2, <4>3, <4>4
    <3> QED
      BY <2>1, <3>1
  <2> QED
    BY <2>4, <2>5
<1>8. Range(d) = m + 1 .. n
  <2>1. \A k \in 1 .. Len(d) : d[k] \in m + 1 .. n
    <3> TAKE k \in 1 .. Len(d)
    <3>1. n \in m + 1 .. n /\ \A x \in m + 1 .. Len(a.st) : x \in m + 1 .. n
      BY <1>1
    <3>2. k # 1 => d[k] \in m + 1 .. Len(a.st)
      BY <1>4, <1>6
    <3> QED
      BY <1>4, <3>1, <3>2
  <2>2. \A x \in m + 1 .. n : \E k \in 1 .. Len(d) : d[k] = x
    <3> TAKE x \in m + 1 .. n
    <3>1. CASE x = n
      BY <1>4, <3>1
    <3>2. CASE x # n
      <4>5. x \in m + 1 .. Len(a.st)
        BY <1>1, <3>2
      <4>1. x \in Range(e) /\ DOMAIN e = 1 .. Len(e)
        BY <1>4, <1>5, <4>5
      <4>2. PICK k \in 1 .. Len(e) : e[k] = x
        BY <4>1 DEF Range
      <4>3. k + 1 \in 1 .. Len(d) /\ k + 1 # 1 /\ (k + 1) - 1 = k
        BY <1>4
      <4>4. d[k + 1] = x
        BY <1>4, <4>2, <4>3
      <4> QED
        BY <4>3, <4>4
    <3> QED
      BY <3>1, <3>2
  <2>3. DOMAIN d = 1 .. Len(d)
    BY <1>4
  <2>4. \A x : x \in Range(d) <=> \E k \in 1 .. Len(d) : d[k] = x
    BY <2>3 DEF Range
  <2>5. \A x : x \in Range(d) <=> x \in m + 1 .. n
    BY <2>1, <2>2, <2>4, Zenon
  <2> QED
    BY <2>5, Zenon
<1>2. b \in Lists /\ b.st = Append(a.st, s) /\ b.add = d /\ b.remove = a.remove
  <2>1. PICK x : x = Append(a.st, s)
    OBVIOUS
  <2>2. PICK y : y = d
    OBVIOUS
  <2>3. b = [a EXCEPT !.st = x, !.add = y]
    <3>1. a = [st |-> a.st, add |-> a.add, remove |-> a.remove]
      BY DEF Lists
    <3> QED
      BY <1>9, <2>1, <2>2, <3>1 DEF Added
  <2>4. a \in Lists /\ x \in StateLists /\ y \in Indices
    BY <1>3, <1>4, <2>1, <2>2 DEF StateLists, Indices
  <2>6. Has([a EXCEPT !.st = x, !.add = y], x, y, a.remove)
    BY <2>4, PutBoth
  <2>7. Has(b, x, y, a.remove)
    BY <2>3, <2>6, Zenon
  <2>5. b \in Lists /\ b.st = x /\ b.add = y /\ b.remove = a.remove
    BY <2>7 DEF Has
  <2> QED
    BY <2>1, <2>2, <2>5
<1> QED
  BY <1>1, <1>2, <1>3, <1>7, <1>8 DEF AddsNew

LEMMA AddedIs ==
    ASSUME NEW a, NEW m, NEW B, Sound(a, m, B), NEW s \in StateSet, NEW n, n = Len(a.st) + 1,
           NEW b, b = Added(a, s)
    PROVE  /\ b \in Lists /\ Len(b.st) = n /\ b.st[n] = s /\ b.remove = a.remove
           /\ \A j \in 1 .. Len(a.st) : b.st[j] = a.st[j]
           /\ AddsNew(b, m)
BY AddedTo DEF Sound

LEMMA AddPlain ==
    ASSUME NEW a, NEW m, NEW B, Sound(a, m, B), NEW s \in StateSet, NEW n, n = Len(a.st) + 1,
           s.nr_child_states = 0, s.parent < n, Wildcard(s) \/ s.parent = 0, NEW b, b = Added(a, s)
    PROVE  /\ Sound(b, m, B) /\ Len(b.st) = n /\ b.st[n] = s /\ b.remove = a.remove
           /\ \A j \in 1 .. Len(a.st) : b.st[j] = a.st[j]
<1>1. /\ Len(a.st) \in Nat /\ m \in Nat /\ m <= Len(a.st) /\ B \subseteq 1 .. m
      /\ a.remove \subseteq 1 .. Len(a.st) /\ Shaped(a.st) /\ Counted(a, m, B)
      /\ \A j \in 1 .. Len(a.st) : a.st[j] \in StateSet
  BY SoundIs DEF Sound
<1>2. /\ b \in Lists /\ Len(b.st) = n /\ b.st[n] = s /\ b.remove = a.remove
      /\ \A j \in 1 .. Len(a.st) : b.st[j] = a.st[j]
      /\ AddsNew(b, m)
  BY AddedIs
<1>3. n \in Nat /\ \A j \in 1 .. n : j \in 1 .. Len(a.st) \/ j = n
  BY <1>1
<1>4. ASSUME NEW j \in 1 .. n
      PROVE  /\ b.st[j].parent < j
             /\ Wildcard(b.st[j]) \/ b.st[j].parent = 0 \/ Wildcard(b.st[b.st[j].parent])
  <2>1. CASE j = n
    BY <1>2, <2>1
  <2>2. CASE j \in 1 .. Len(a.st)
    <3>1. /\ b.st[j] = a.st[j] /\ a.st[j].parent < j /\ a.st[j].parent \in Nat
          /\ Wildcard(a.st[j]) \/ a.st[j].parent = 0 \/ Wildcard(a.st[a.st[j].parent])
      BY <1>1, <1>2, <2>2 DEF Shaped, StateSet
    <3>2. a.st[j].parent # 0 => a.st[j].parent \in 1 .. Len(a.st)
      BY <1>1, <2>2, <3>1
    <3> QED
      BY <1>2, <3>1, <3>2
  <2> QED
    BY <1>3, <2>1, <2>2
<1>5. ASSUME NEW i \in 1 .. n, Wildcard(b.st[i])
      PROVE  b.st[i].nr_child_states = Cardinality(Young(b, m, B, i))
  <2>1. CASE i = n
    <3>1. \A j \in Live(b, m, B) : j \in 1 .. n
      BY <1>1, <1>2 DEF Live
    <3>2. \A j \in 1 .. n : b.st[j].parent # n
      BY <1>3, <1>4
    <3>3. Young(b, m, B, n) = {}
      BY <3>1, <3>2 DEF Young
    <3> QED
      BY <1>2, <2>1, <3>3, FS_EmptySet
  <2>2. CASE i \in 1 .. Len(a.st)
    <3>1. Live(b, m, B) = Live(a, m, B) \cup {n}
      BY <1>1, <1>2, <1>3 DEF Live
    <3>2. \A j \in Live(a, m, B) : b.st[j] = a.st[j]
      BY <1>1, <1>2 DEF Live
    <3>3. Young(b, m, B, i) = Young(a, m, B, i)
      BY <1>2, <2>2, <3>1, <3>2 DEF Young
    <3> QED
      BY <1>1, <1>2, <1>5, <2>2, <3>3 DEF Counted
  <2> QED
    BY <1>3, <2>1, <2>2
<1> QED
  BY <1>1, <1>2, <1>4, <1>5 DEF Sound, Shaped, Counted

\* A change of state i in place: its node becomes w and its count n.
Changed(a, b, i, w, n) ==
    /\ b \in Lists /\ Len(b.st) = Len(a.st) /\ b.add = a.add /\ b.remove = a.remove
    /\ \A j \in 1 .. Len(a.st) : j # i => b.st[j] = a.st[j]
    /\ b.st[i] \in StateSet /\ b.st[i].rm_stub = w /\ b.st[i].parent = a.st[i].parent
    /\ b.st[i].nr_child_states = n

LEMMA PutState ==
    ASSUME NEW a \in Lists, NEW i \in 1 .. Len(a.st), NEW r \in StateSet, r.parent = a.st[i].parent,
           NEW b, Has(b, [a.st EXCEPT ![i] = r], a.add, a.remove)
    PROVE  Changed(a, b, i, r.rm_stub, r.nr_child_states)
<1>1. a.st \in Seq(StateSet)
  BY DEF Lists, StateLists
<1>2. PICK q : q = [a.st EXCEPT ![i] = r]
  OBVIOUS
<1>3. /\ q \in Seq(StateSet) /\ Len(q) = Len(a.st) /\ q[i] = r
      /\ \A j \in 1 .. Len(a.st) : j # i => q[j] = a.st[j]
  BY <1>1, <1>2, ExceptSeq
<1>4. b \in Lists /\ b.st = q /\ b.add = a.add /\ b.remove = a.remove
  BY <1>2 DEF Has
<1> QED
  BY <1>3, <1>4 DEF Changed

LEMMA PutMore ==
    ASSUME NEW s \in StateSet
    PROVE  LET r == [s EXCEPT !.nr_child_states = @ + 1]
           IN /\ r \in StateSet /\ r.parent = s.parent /\ r.rm_stub = s.rm_stub
              /\ r.nr_child_states = s.nr_child_states + 1
<1> DEFINE r == [s EXCEPT !.nr_child_states = @ + 1]
<1>1. /\ s.rm_stub \in nodes /\ s.parent \in Nat /\ s.pos \in Int /\ s.enter_pos \in Int
      /\ s.nr_child_states \in Int
  BY DEF StateSet
<1>2. r.parent = s.parent /\ r.rm_stub = s.rm_stub /\ r.nr_child_states = s.nr_child_states + 1
  BY DEF StateSet
<1>3. r \in StateSet
  BY <1>1 DEF StateSet
<1> QED
  BY <1>2, <1>3

LEMMA PutLess ==
    ASSUME NEW s \in StateSet
    PROVE  LET r == [s EXCEPT !.nr_child_states = @ - 1]
           IN /\ r \in StateSet /\ r.parent = s.parent /\ r.rm_stub = s.rm_stub
              /\ r.nr_child_states = s.nr_child_states - 1
<1> DEFINE r == [s EXCEPT !.nr_child_states = @ - 1]
<1>1. /\ s.rm_stub \in nodes /\ s.parent \in Nat /\ s.pos \in Int /\ s.enter_pos \in Int
      /\ s.nr_child_states \in Int
  BY DEF StateSet
<1>2. r.parent = s.parent /\ r.rm_stub = s.rm_stub /\ r.nr_child_states = s.nr_child_states - 1
  BY DEF StateSet
<1>3. r \in StateSet
  BY <1>1 DEF StateSet
<1> QED
  BY <1>2, <1>3

LEMMA PutPos ==
    ASSUME NEW s \in StateSet
    PROVE  LET r == [s EXCEPT !.pos = @ + 1]
           IN /\ r \in StateSet /\ r.parent = s.parent /\ r.rm_stub = s.rm_stub
              /\ r.nr_child_states = s.nr_child_states
<1> DEFINE r == [s EXCEPT !.pos = @ + 1]
<1>1. /\ s.rm_stub \in nodes /\ s.parent \in Nat /\ s.pos \in Int /\ s.enter_pos \in Int
      /\ s.nr_child_states \in Int
  BY DEF StateSet
<1>2. r.parent = s.parent /\ r.rm_stub = s.rm_stub /\ r.nr_child_states = s.nr_child_states
  BY DEF StateSet
<1>3. r \in StateSet
  BY <1>1 DEF StateSet
<1> QED
  BY <1>2, <1>3

LEMMA PutStub ==
    ASSUME NEW s \in StateSet, NEW t \in nodes
    PROVE  LET r == [s EXCEPT !.rm_stub = t, !.pos = 1]
           IN /\ r \in StateSet /\ r.parent = s.parent /\ r.rm_stub = t
              /\ r.nr_child_states = s.nr_child_states
<1> DEFINE r == [s EXCEPT !.rm_stub = t, !.pos = 1]
<1>1. /\ s.rm_stub \in nodes /\ s.parent \in Nat /\ s.pos \in Int /\ s.enter_pos \in Int
      /\ s.nr_child_states \in Int
  BY DEF StateSet
<1>2. r.parent = s.parent /\ r.rm_stub = t /\ r.nr_child_states = s.nr_child_states
  BY DEF StateSet
<1>3. r \in StateSet
  <2> PICK I, J : I = Int /\ J = Nat
    OBVIOUS
  <2>1. StateSet = [rm_stub : nodes, parent : J, pos : I, enter_pos : I, nr_child_states : I]
    BY DEF StateSet
  <2>2. /\ s.rm_stub \in nodes /\ s.parent \in J /\ s.pos \in I /\ s.enter_pos \in I
        /\ s.nr_child_states \in I /\ 1 \in I
    BY <1>1
  <2> QED
    BY <2>1, <2>2
<1> QED
  BY <1>2, <1>3

LEMMA Putting ==
    ASSUME NEW a \in Lists, NEW i \in 1 .. Len(a.st), NEW t \in nodes
    PROVE  /\ Changed(a, [a EXCEPT !.st[i].nr_child_states = @ + 1], i,
                      a.st[i].rm_stub, a.st[i].nr_child_states + 1)
           /\ Changed(a, [a EXCEPT !.st[i].nr_child_states = @ - 1], i,
                      a.st[i].rm_stub, a.st[i].nr_child_states - 1)
           /\ Changed(a, [a EXCEPT !.st[i].pos = @ + 1], i, a.st[i].rm_stub, a.st[i].nr_child_states)
           /\ Changed(a, [a EXCEPT !.st[i].rm_stub = t, !.st[i].pos = 1], i, t, a.st[i].nr_child_states)
<1>1. a.st \in Seq(StateSet) /\ a.st[i] \in StateSet /\ i \in DOMAIN a.st
  BY DEF Lists, StateLists
<1>2. ASSUME NEW r \in StateSet, r.parent = a.st[i].parent
      PROVE  Changed(a, [a EXCEPT !.st = [a.st EXCEPT ![i] = r]], i, r.rm_stub, r.nr_child_states)
  <2>1. PICK q : q = [a.st EXCEPT ![i] = r]
    OBVIOUS
  <2>2. q \in StateLists
    BY <1>1, <2>1, ExceptSeq DEF StateLists
  <2>3. Has([a EXCEPT !.st = q], q, a.add, a.remove)
    BY <2>2, PutSt
  <2>4. Has([a EXCEPT !.st = [a.st EXCEPT ![i] = r]], [a.st EXCEPT ![i] = r], a.add, a.remove)
    BY <2>1, <2>3
  <2> QED
    BY <1>2, <2>4, PutState
<1>3. a = [st |-> a.st, add |-> a.add, remove |-> a.remove]
  BY DEF Lists
<1>4. Changed(a, [a EXCEPT !.st[i].nr_child_states = @ + 1], i,
              a.st[i].rm_stub, a.st[i].nr_child_states + 1)
  <2> DEFINE r == [a.st[i] EXCEPT !.nr_child_states = @ + 1]
  <2>2. /\ r \in StateSet /\ r.parent = a.st[i].parent /\ r.rm_stub = a.st[i].rm_stub
        /\ r.nr_child_states = a.st[i].nr_child_states + 1
    BY <1>1, PutMore
  <2>3. [a EXCEPT !.st[i].nr_child_states = @ + 1] = [a EXCEPT !.st = [a.st EXCEPT ![i] = r]]
    BY <1>1, <1>3
  <2> HIDE DEF r
  <2>4. Changed(a, [a EXCEPT !.st = [a.st EXCEPT ![i] = r]], i, r.rm_stub, r.nr_child_states)
    BY <1>2, <2>2
  <2> QED
    BY <2>2, <2>3, <2>4
<1>5. Changed(a, [a EXCEPT !.st[i].nr_child_states = @ - 1], i,
              a.st[i].rm_stub, a.st[i].nr_child_states - 1)
  <2> DEFINE r == [a.st[i] EXCEPT !.nr_child_states = @ - 1]
  <2>2. /\ r \in StateSet /\ r.parent = a.st[i].parent /\ r.rm_stub = a.st[i].rm_stub
        /\ r.nr_child_states = a.st[i].nr_child_states - 1
    BY <1>1, PutLess
  <2>3. [a EXCEPT !.st[i].nr_child_states = @ - 1] = [a EXCEPT !.st = [a.st EXCEPT ![i] = r]]
    BY <1>1, <1>3
  <2> HIDE DEF r
  <2>4. Changed(a, [a EXCEPT !.st = [a.st EXCEPT ![i] = r]], i, r.rm_stub, r.nr_child_states)
    BY <1>2, <2>2
  <2> QED
    BY <2>2, <2>3, <2>4
<1>6. Changed(a, [a EXCEPT !.st[i].pos = @ + 1], i, a.st[i].rm_stub, a.st[i].nr_child_states)
  <2> DEFINE r == [a.st[i] EXCEPT !.pos = @ + 1]
  <2>2. /\ r \in StateSet /\ r.parent = a.st[i].parent /\ r.rm_stub = a.st[i].rm_stub
        /\ r.nr_child_states = a.st[i].nr_child_states
    BY <1>1, PutPos
  <2>3. [a EXCEPT !.st[i].pos = @ + 1] = [a EXCEPT !.st = [a.st EXCEPT ![i] = r]]
    BY <1>1, <1>3
  <2> HIDE DEF r
  <2>4. Changed(a, [a EXCEPT !.st = [a.st EXCEPT ![i] = r]], i, r.rm_stub, r.nr_child_states)
    BY <1>2, <2>2
  <2> QED
    BY <2>2, <2>3, <2>4
<1>7. Changed(a, [a EXCEPT !.st[i].rm_stub = t, !.st[i].pos = 1], i, t, a.st[i].nr_child_states)
  <2> DEFINE r == [a.st[i] EXCEPT !.rm_stub = t, !.pos = 1]
  <2>2. /\ r \in StateSet /\ r.parent = a.st[i].parent /\ r.rm_stub = t
        /\ r.nr_child_states = a.st[i].nr_child_states
    BY <1>1, PutStub
  <2>3. [a EXCEPT !.st[i].rm_stub = t, !.st[i].pos = 1] = [a EXCEPT !.st = [a.st EXCEPT ![i] = r]]
    BY <1>1, <1>3
  <2> HIDE DEF r
  <2>4. Changed(a, [a EXCEPT !.st = [a.st EXCEPT ![i] = r]], i, r.rm_stub, r.nr_child_states)
    BY <1>2, <2>2
  <2> QED
    BY <2>2, <2>3, <2>4
<1> QED
  BY <1>4, <1>5, <1>6, <1>7

Follows(a, b) == /\ Len(a.st) <= Len(b.st)
                 /\ \A j \in 1 .. Len(a.st) : /\ Wildcard(b.st[j]) <=> Wildcard(a.st[j])
                                              /\ b.st[j].parent = a.st[j].parent

LEMMA ChangedIs ==
    ASSUME NEW a, NEW m, NEW B, Sound(a, m, B), NEW i \in 1 .. Len(a.st), NEW b, NEW w, NEW n,
           Changed(a, b, i, w, n), IsWildcard(nodes, w) <=> Wildcard(a.st[i])
    PROVE  /\ Follows(a, b) /\ Len(b.st) = Len(a.st) /\ b.remove = a.remove
           /\ \A x : Young(b, m, B, x) = Young(a, m, B, x)
           /\ Counted(b, m, B) => Sound(b, m, B)
<1>1. /\ b \in Lists /\ Len(b.st) = Len(a.st) /\ b.add = a.add /\ b.remove = a.remove
      /\ \A j \in 1 .. Len(a.st) : j # i => b.st[j] = a.st[j]
      /\ b.st[i].rm_stub = w /\ b.st[i].parent = a.st[i].parent
  BY DEF Changed
<1>2. /\ Len(a.st) \in Nat /\ B \subseteq 1 .. m /\ m \in Nat /\ m <= Len(a.st)
      /\ a.remove \subseteq 1 .. Len(a.st) /\ Shaped(a.st)
      /\ \A j \in 1 .. Len(a.st) : a.st[j] \in StateSet
  BY SoundIs DEF Sound
<1>3. ASSUME NEW j \in 1 .. Len(a.st)
      PROVE  (Wildcard(b.st[j]) <=> Wildcard(a.st[j])) /\ b.st[j].parent = a.st[j].parent
  <2>1. CASE j = i
    BY <1>1, <2>1 DEF Wildcard
  <2>2. CASE j # i
    BY <1>1, <2>2
  <2> QED
    BY <2>1, <2>2
<1>4. Follows(a, b)
  BY <1>1, <1>2, <1>3 DEF Follows
<1>5. ASSUME NEW x
      PROVE  Young(b, m, B, x) = Young(a, m, B, x)
  <2>1. Live(b, m, B) = Live(a, m, B) /\ \A j \in Live(a, m, B) : j \in 1 .. Len(a.st)
    BY <1>1, <1>2 DEF Live
  <2> QED
    BY <1>3, <2>1 DEF Young
<1>6. Shaped(b.st)
  <2>1. ASSUME NEW j \in 1 .. Len(a.st)
        PROVE  /\ b.st[j].parent < j
               /\ Wildcard(b.st[j]) \/ b.st[j].parent = 0 \/ Wildcard(b.st[b.st[j].parent])
    <3>1. /\ a.st[j].parent < j /\ a.st[j].parent \in Nat
          /\ Wildcard(a.st[j]) \/ a.st[j].parent = 0 \/ Wildcard(a.st[a.st[j].parent])
      BY <1>2 DEF Shaped, StateSet
    <3>2. a.st[j].parent # 0 => a.st[j].parent \in 1 .. Len(a.st)
      BY <1>2, <3>1
    <3> QED
      BY <1>3, <3>1, <3>2
  <2> QED
    BY <1>1, <2>1 DEF Shaped
<1>7. Counted(b, m, B) => Sound(b, m, B)
  <2>1. AddsNew(b, m)
    BY <1>1 DEF Sound, AddsNew
  <2> QED
    BY <1>1, <1>2, <1>6, <2>1 DEF Sound
<1> QED
  BY <1>1, <1>4, <1>5, <1>7

\* The nearest wildcard above a plain state is its parent.
LEMMA AboveIs ==
    ASSUME NEW st \in Seq(StateSet), Shaped(st), NEW i \in 1 .. Len(st), ~Wildcard(st[i])
    PROVE  AboveOf(st, i) = st[i].parent
<1> DEFINE Is(f) == f = [j \in 0 .. Len(st) |-> IF j = 0 THEN 0 ELSE IF Wildcard(st[j]) THEN j
                                                ELSE f[st[j].parent]]
           g == [j \in 0 .. Len(st) |-> IF j = 0 THEN 0 ELSE IF Wildcard(st[j]) THEN j ELSE st[j].parent]
<1>1. /\ Len(st) \in Nat
      /\ \A j \in 1 .. Len(st) : st[j].parent \in Nat /\ st[j].parent < j
  <2>1. \A j \in 1 .. Len(st) : st[j] \in StateSet
    OBVIOUS
  <2>2. \A j \in 1 .. Len(st) : st[j].parent \in Nat
    BY <2>1 DEF StateSet
  <2> QED
    BY <2>2 DEF Shaped
<1>2. ASSUME NEW j \in 1 .. Len(st), ~Wildcard(st[j])
      PROVE  /\ st[j].parent \in 0 .. Len(st)
             /\ st[j].parent = 0 \/ (st[j].parent \in 1 .. Len(st) /\ Wildcard(st[st[j].parent]))
  <2>1. st[j].parent = 0 \/ Wildcard(st[st[j].parent])
    BY <1>2 DEF Shaped
  <2> QED
    BY <1>1, <2>1
<1>3. Is(g)
  <2>1. \A j \in 0 .. Len(st) : g[j] =
            IF j = 0 THEN 0 ELSE IF Wildcard(st[j]) THEN j ELSE g[st[j].parent]
    <3> TAKE j \in 0 .. Len(st)
    <3>1. g[j] = IF j = 0 THEN 0 ELSE IF Wildcard(st[j]) THEN j ELSE st[j].parent
      OBVIOUS
    <3>2. ASSUME j # 0, ~Wildcard(st[j])
          PROVE  g[st[j].parent] = st[j].parent
      <4>1. j \in 1 .. Len(st)
        BY <1>1, <3>2
      <4> QED
        BY <1>1, <1>2, <3>2, <4>1
    <3> HIDE DEF g
    <3> QED
      BY <3>1, <3>2
  <2>2. g = [j \in 0 .. Len(st) |-> g[j]]
    OBVIOUS
  <2> HIDE DEF g
  <2> QED
    BY <2>1, <2>2, Zenon
<1>4. PICK f : f = CHOOSE h : Is(h)
  OBVIOUS
<1>5. Is(f)
  <2> HIDE DEF Is, g
  <2> QED
    BY <1>3, <1>4, Zenon
<1>6. AboveOf(st, i) = f[st[i].parent]
  BY <1>4 DEF AboveOf
<1>7. f[st[i].parent] = st[i].parent
  <2> HIDE DEF g
  <2>1. st[i].parent \in 0 .. Len(st)
    BY <1>2
  <2>2. f[st[i].parent] = IF st[i].parent = 0 THEN 0
                          ELSE IF Wildcard(st[st[i].parent]) THEN st[i].parent ELSE f[st[st[i].parent].parent]
    BY <1>5, <2>1
  <2> QED
    BY <1>2, <2>2
<1> QED
  BY <1>6, <1>7

\* A state put on the list of those to be removed; c is what became of the
\* lists a before.
LEMMA GoneIs ==
    ASSUME NEW a, NEW m, NEW B, Sound(a, m, B), NEW i \in 1 .. Len(a.st),
           NEW c \in Lists, c.add = a.add, c.remove = a.remove, Len(c.st) = Len(a.st),
           Follows(a, c), Shaped(c.st), NEW b, b = [c EXCEPT !.remove = @ \cup {i}]
    PROVE  /\ Follows(a, b) /\ b.st = c.st /\ b.remove = a.remove \cup {i}
           /\ \A x : Young(b, m, B, x) = Young(a, m, B, x) \ {i}
           /\ Counted(b, m, B) => Sound(b, m, B)
<1>1. /\ Len(a.st) \in Nat /\ B \subseteq 1 .. m /\ m \in Nat /\ m <= Len(a.st)
      /\ a.remove \subseteq 1 .. Len(a.st)
  BY SoundIs DEF Sound
<1>2. b \in Lists /\ b.st = c.st /\ b.add = c.add /\ b.remove = a.remove \cup {i}
  <2>1. PICK z : z = a.remove \cup {i}
    OBVIOUS
  <2>2. z \in IndexSets
    BY <1>1, <2>1 DEF IndexSets
  <2>3. Has([c EXCEPT !.remove = z], c.st, c.add, z)
    BY <2>2, PutRemove
  <2>4. b = [c EXCEPT !.remove = z]
    BY <2>1
  <2>5. Has(b, c.st, c.add, z)
    BY <2>3, <2>4, Zenon
  <2> QED
    BY <2>1, <2>5 DEF Has
<1>3. Follows(a, b)
  BY <1>2 DEF Follows
<1>4. ASSUME NEW x
      PROVE  Young(b, m, B, x) = Young(a, m, B, x) \ {i}
  <2>1. Live(b, m, B) = Live(a, m, B) \ {i} /\ \A j \in Live(a, m, B) : j \in 1 .. Len(a.st)
    BY <1>1, <1>2 DEF Live
  <2> QED
    BY <1>3, <2>1 DEF Young, Follows
<1>5. Counted(b, m, B) => Sound(b, m, B)
  <2>1. b.remove \subseteq 1 .. Len(b.st)
    BY <1>1, <1>2
  <2>2. AddsNew(b, m)
    BY <1>2 DEF Sound, AddsNew
  <2> QED
    BY <1>1, <1>2, <2>1, <2>2 DEF Sound
<1> QED
  BY <1>2, <1>3, <1>4, <1>5

LEMMA FollowsSelf ==
    ASSUME NEW a, NEW m, NEW B, Sound(a, m, B)
    PROVE  Follows(a, a)
BY SoundIs DEF Follows

\* A plain state that is followed no longer: the wildcard above it has one less.
LEMMA RemovedIs ==
    ASSUME NEW a, NEW m, NEW B, Sound(a, m, B), NEW i \in Live(a, m, B), i \in 1 .. Len(a.st),
           ~Wildcard(a.st[i]), NEW b, b = RemoveState(a, i)
    PROVE  /\ Sound(b, m, B) /\ Follows(a, b) /\ Len(b.st) = Len(a.st)
           /\ b.remove = a.remove \cup {i}
<1>1. /\ a.st \in Seq(StateSet) /\ Len(a.st) \in Nat /\ Shaped(a.st) /\ Counted(a, m, B)
      /\ \A j \in 1 .. Len(a.st) : a.st[j] \in StateSet
  BY SoundIs DEF Sound
<1>2. PICK p : p = a.st[i].parent
  OBVIOUS
<1>3. /\ p \in Nat /\ p < i /\ (p = 0 \/ (p \in 1 .. Len(a.st) /\ Wildcard(a.st[p])))
      /\ AboveOf(a.st, i) = p
  <2>1. p \in Nat
    BY <1>1, <1>2 DEF StateSet
  <2>2. p < i /\ (p = 0 \/ Wildcard(a.st[p]))
    BY <1>1, <1>2 DEF Shaped
  <2>3. AboveOf(a.st, i) = p
    BY <1>1, <1>2, AboveIs
  <2> QED
    BY <1>1, <2>1, <2>2, <2>3
<1>4. \A x : i \in Young(a, m, B, x) <=> x = p
  BY <1>2 DEF Young
<1>5. CASE p = 0
  <2>1. b = [a EXCEPT !.remove = @ \cup {i}]
    BY <1>3, <1>5 DEF RemoveState
  <2>2. /\ Follows(a, b) /\ b.st = a.st /\ b.remove = a.remove \cup {i}
        /\ \A x : Young(b, m, B, x) = Young(a, m, B, x) \ {i}
        /\ Counted(b, m, B) => Sound(b, m, B)
    <3>1. a \in Lists /\ Follows(a, a)
      BY FollowsSelf DEF Sound
    <3> QED
      BY <1>1, <2>1, <3>1, GoneIs
  <2>3. \A x \in 1 .. Len(a.st) : Young(b, m, B, x) = Young(a, m, B, x)
    <3> TAKE x \in 1 .. Len(a.st)
    <3>1. i \notin Young(a, m, B, x)
      BY <1>4, <1>5
    <3>2. Young(a, m, B, x) \ {i} = Young(a, m, B, x)
      BY <3>1
    <3> QED
      BY <2>2, <3>2
  <2>4. Counted(b, m, B)
    BY <1>1, <2>2, <2>3 DEF Counted
  <2> QED
    BY <2>2, <2>4
<1>6. CASE p # 0
  <2>1. PICK n : n = a.st[p].nr_child_states - 1
    OBVIOUS
  <2>2. PICK c : c = [a EXCEPT !.st[p].nr_child_states = @ - 1]
    OBVIOUS
  <2>3. b = [c EXCEPT !.remove = @ \cup {i}]
    BY <1>3, <1>6, <2>2 DEF RemoveState
  <2>4. Changed(a, c, p, a.st[p].rm_stub, n)
    <3>1. a \in Lists /\ p \in 1 .. Len(a.st) /\ a.st[p].rm_stub \in nodes
      BY <1>1, <1>3, <1>6 DEF Sound, StateSet
    <3> QED
      BY <2>1, <2>2, <3>1, Putting
  <2>5. /\ Follows(a, c) /\ Len(c.st) = Len(a.st) /\ c.remove = a.remove
        /\ \A j \in 1 .. Len(a.st) : j # p => c.st[j] = a.st[j]
        /\ c.st[p].nr_child_states = n /\ c \in Lists /\ c.add = a.add
    BY <1>3, <1>6, <2>4, ChangedIs DEF Changed, Wildcard
  <2>6. Shaped(c.st)
    <3>1. ASSUME NEW j \in 1 .. Len(a.st)
          PROVE  /\ c.st[j].parent < j
                 /\ Wildcard(c.st[j]) \/ c.st[j].parent = 0 \/ Wildcard(c.st[c.st[j].parent])
      <4>1. /\ a.st[j].parent < j /\ a.st[j].parent \in Nat
            /\ Wildcard(a.st[j]) \/ a.st[j].parent = 0 \/ Wildcard(a.st[a.st[j].parent])
        BY <1>1 DEF Shaped, StateSet
      <4>2. a.st[j].parent # 0 => a.st[j].parent \in 1 .. Len(a.st)
        BY <1>1, <4>1
      <4> QED
        BY <2>5, <4>1, <4>2 DEF Follows
    <3> QED
      BY <2>5, <3>1 DEF Shaped
  <2>7. /\ Follows(a, b) /\ b.st = c.st /\ b.remove = a.remove \cup {i}
        /\ \A x : Young(b, m, B, x) = Young(a, m, B, x) \ {i}
        /\ Counted(b, m, B) => Sound(b, m, B)
    BY <2>3, <2>5, <2>6, GoneIs
  <2>8. ASSUME NEW x \in 1 .. Len(a.st), Wildcard(b.st[x])
        PROVE  b.st[x].nr_child_states = Cardinality(Young(b, m, B, x))
    <3>1. Wildcard(a.st[x])
      BY <2>7, <2>8 DEF Follows
    <3>2. a.st[x].nr_child_states = Cardinality(Young(a, m, B, x))
      BY <1>1, <3>1 DEF Counted
    <3>3. IsFiniteSet(Young(a, m, B, x))
      BY YoungIs
    <3>4. CASE x = p
      <4>1. Cardinality(Young(a, m, B, x) \ {i}) = Cardinality(Young(a, m, B, x)) - 1
        BY <1>4, <3>3, <3>4, FS_RemoveElement
      <4> QED
        BY <2>1, <2>5, <2>7, <3>2, <3>4, <4>1
    <3>5. CASE x # p
      <4>1. Young(a, m, B, x) \ {i} = Young(a, m, B, x)
        BY <1>4, <3>5
      <4> QED
        BY <2>5, <2>7, <3>2, <3>5, <4>1
    <3> QED
      BY <3>4, <3>5
  <2>9. Counted(b, m, B)
    BY <2>5, <2>7, <2>8 DEF Counted
  <2> QED
    BY <2>5, <2>7, <2>9
<1> QED
  BY <1>5, <1>6

LEMMA WildGone ==
    ASSUME NEW a, NEW m, NEW B, Sound(a, m, B), NEW p \in 1 .. Len(a.st), Wildcard(a.st[p]),
           NEW b, b = [a EXCEPT !.remove = @ \cup {p}]
    PROVE  /\ Sound(b, m, B) /\ Follows(a, b) /\ b.st = a.st
           /\ b.remove = a.remove \cup {p}
<1>1. a \in Lists /\ Follows(a, a) /\ Shaped(a.st) /\ Counted(a, m, B)
  BY FollowsSelf DEF Sound
<1>2. /\ Follows(a, b) /\ b.st = a.st /\ b.remove = a.remove \cup {p}
      /\ \A x : Young(b, m, B, x) = Young(a, m, B, x) \ {p}
      /\ Counted(b, m, B) => Sound(b, m, B)
  BY <1>1, GoneIs
<1>3. \A x : Young(b, m, B, x) = Young(a, m, B, x)
  <2> TAKE x
  <2>1. PICK Y : Y = Young(a, m, B, x)
    OBVIOUS
  <2>2. p \notin Y
    BY <2>1 DEF Young
  <2>3. Young(b, m, B, x) = Y \ {p}
    BY <1>2, <2>1
  <2>4. Y \ {p} = Y
    BY <2>2
  <2> QED
    BY <2>1, <2>3, <2>4
<1>4. Counted(b, m, B)
  BY <1>1, <1>2, <1>3 DEF Counted
<1> QED
  BY <1>2, <1>4

\* A plain state below a wildcard, whose count goes up: c is the lists with the
\* count.
LEMMA AddBelow ==
    ASSUME NEW a, NEW m, NEW B, Sound(a, m, B), NEW i \in 1 .. Len(a.st), Wildcard(a.st[i]),
           NEW s \in StateSet, s.nr_child_states = 0, s.parent = i, ~Wildcard(s),
           NEW c, Changed(a, c, i, a.st[i].rm_stub, a.st[i].nr_child_states + 1),
           NEW b, b = Added(c, s)
    PROVE  Sound(b, m, B) /\ Follows(a, b) /\ b.remove = a.remove
<1>1. /\ Len(a.st) \in Nat /\ m \in Nat /\ m <= Len(a.st) /\ B \subseteq 1 .. m
      /\ a.remove \subseteq 1 .. Len(a.st) /\ Shaped(a.st) /\ Counted(a, m, B)
      /\ \A j \in 1 .. Len(a.st) : a.st[j] \in StateSet
      /\ AddsNew(a, m)
  BY SoundIs DEF Sound
<1>2. PICK n : n = Len(a.st) + 1
  OBVIOUS
<1>3. /\ Follows(a, c) /\ Len(c.st) = Len(a.st) /\ c.remove = a.remove /\ c.add = a.add
      /\ \A x : Young(c, m, B, x) = Young(a, m, B, x)
      /\ c \in Lists /\ \A j \in 1 .. Len(a.st) : j # i => c.st[j] = a.st[j]
      /\ c.st[i].nr_child_states = a.st[i].nr_child_states + 1
  BY ChangedIs DEF Changed, Wildcard
<1>4. /\ b \in Lists /\ Len(b.st) = n /\ b.st[n] = s /\ b.remove = a.remove
      /\ \A j \in 1 .. Len(a.st) : b.st[j] = c.st[j]
      /\ AddsNew(b, m)
  <2>1. AddsNew(c, m)
    BY <1>1, <1>3 DEF AddsNew
  <2>2. c \in Lists /\ m <= Len(c.st) /\ n = Len(c.st) + 1
    BY <1>1, <1>2, <1>3
  <2>3. /\ b \in Lists /\ Len(b.st) = n /\ b.st[n] = s /\ b.remove = c.remove
        /\ \A j \in 1 .. Len(c.st) : b.st[j] = c.st[j]
        /\ AddsNew(b, m)
    BY <1>1, <2>1, <2>2, AddedTo
  <2> QED
    BY <1>3, <2>3
<1>5. n \in Nat /\ \A j \in 1 .. n : j \in 1 .. Len(a.st) \/ j = n
  BY <1>1, <1>2
<1>6. Follows(a, b)
  <2>1. \A j \in 1 .. Len(a.st) : /\ Wildcard(c.st[j]) <=> Wildcard(a.st[j])
                                  /\ c.st[j].parent = a.st[j].parent
    BY <1>3 DEF Follows
  <2>2. Len(a.st) <= Len(b.st)
    BY <1>1, <1>2, <1>4
  <2> QED
    BY <1>4, <2>1, <2>2 DEF Follows
<1>7. ASSUME NEW j \in 1 .. n
      PROVE  /\ b.st[j].parent < j
             /\ Wildcard(b.st[j]) \/ b.st[j].parent = 0 \/ Wildcard(b.st[b.st[j].parent])
  <2>1. CASE j = n
    <3>1. b.st[j].parent = i /\ i < n
      BY <1>1, <1>2, <1>4, <2>1
    <3>2. Wildcard(b.st[i])
      BY <1>6 DEF Follows
    <3> QED
      BY <2>1, <3>1, <3>2
  <2>2. CASE j \in 1 .. Len(a.st)
    <3>1. /\ a.st[j].parent < j /\ a.st[j].parent \in Nat
          /\ Wildcard(a.st[j]) \/ a.st[j].parent = 0 \/ Wildcard(a.st[a.st[j].parent])
      BY <1>1, <2>2 DEF Shaped, StateSet
    <3>2. a.st[j].parent # 0 => a.st[j].parent \in 1 .. Len(a.st)
      BY <1>1, <2>2, <3>1
    <3> QED
      BY <1>6, <2>2, <3>1, <3>2 DEF Follows
  <2> QED
    BY <1>5, <2>1, <2>2
<1>8. ASSUME NEW x \in 1 .. n, Wildcard(b.st[x])
      PROVE  b.st[x].nr_child_states = Cardinality(Young(b, m, B, x))
  <2>1. x \in 1 .. Len(a.st) /\ Wildcard(a.st[x]) /\ x # n
    BY <1>1, <1>2, <1>4, <1>5, <1>6, <1>8 DEF Follows
  <2>2. a.st[x].nr_child_states = Cardinality(Young(a, m, B, x))
    BY <1>1, <2>1 DEF Counted
  <2>3. Live(b, m, B) = Live(a, m, B) \cup {n} /\ n \notin Live(a, m, B)
    BY <1>1, <1>2, <1>4, <1>5 DEF Live
  <2>4. \A j \in Live(a, m, B) : j \in 1 .. Len(a.st)
    BY <1>1 DEF Live
  <2>5. IsFiniteSet(Young(a, m, B, x)) /\ n \notin Young(a, m, B, x)
    <3>1. n \notin Young(a, m, B, x)
      BY <2>3 DEF Young
    <3> QED
      BY <3>1, YoungIs
  <2>6. CASE x = i
    <3>1. Young(b, m, B, x) = Young(a, m, B, x) \cup {n}
      BY <1>4, <1>6, <2>3, <2>4, <2>6 DEF Young, Follows
    <3>2. Cardinality(Young(b, m, B, x)) = Cardinality(Young(a, m, B, x)) + 1
      <4>1. PICK Y : Y = Young(a, m, B, x)
        OBVIOUS
      <4>2. IsFiniteSet(Y) /\ n \notin Y
        BY <2>5, <4>1
      <4>3. Cardinality(Y \cup {n}) = Cardinality(Y) + 1
        BY <4>2, FS_AddElement
      <4> QED
        BY <3>1, <4>1, <4>3
    <3> QED
      BY <1>3, <1>4, <2>1, <2>2, <2>6, <3>2
  <2>7. CASE x # i
    <3>1. Young(b, m, B, x) = Young(a, m, B, x)
      BY <1>4, <1>6, <2>3, <2>4, <2>7 DEF Young, Follows
    <3> QED
      BY <1>3, <1>4, <2>1, <2>2, <2>7, <3>1
  <2> QED
    BY <2>6, <2>7
<1>9. Sound(b, m, B)
  <2>1. Shaped(b.st)
    BY <1>4, <1>7 DEF Shaped
  <2>2. Counted(b, m, B)
    BY <1>4, <1>8 DEF Counted
  <2>3. m <= Len(b.st) /\ b.remove \subseteq 1 .. Len(b.st)
    BY <1>1, <1>2, <1>4
  <2> QED
    BY <1>1, <1>4, <2>1, <2>2, <2>3 DEF Sound
<1> QED
  BY <1>4, <1>6, <1>9

LEMMA FollowsOn ==
    ASSUME NEW a \in Lists, NEW b \in Lists, NEW c \in Lists, Follows(a, b), Follows(b, c)
    PROVE  Follows(a, c)
<1>1. Len(a.st) \in Nat /\ Len(b.st) \in Nat /\ Len(c.st) \in Nat
  BY DEF Lists, StateLists
<1>2. \A j \in 1 .. Len(a.st) : j \in 1 .. Len(b.st)
  BY <1>1 DEF Follows
<1> QED
  BY <1>1, <1>2 DEF Follows

LEMMA NewState ==
    ASSUME NEW w \in nodes, NEW p \in Nat, NEW pos \in Int, NEW at \in Int
    PROVE  /\ State(w, p, pos, at) \in StateSet
           /\ State(w, p, pos, at).parent = p /\ State(w, p, pos, at).rm_stub = w
           /\ State(w, p, pos, at).nr_child_states = 0
<1> PICK I, J : I = Int /\ J = Nat
  OBVIOUS
<1>1. 0 \in I /\ p \in J /\ pos \in I /\ at \in I
  OBVIOUS
<1>2. StateSet = [rm_stub : nodes, parent : J, pos : I, enter_pos : I, nr_child_states : I]
  BY DEF StateSet
<1>3. State(w, p, pos, at) \in StateSet
  BY <1>1, <1>2 DEF State
<1> QED
  BY <1>3 DEF State

\* A wildcard that the letter ends.
LEMMA WcChildIs ==
    ASSUME TreeInv, NEW a, NEW m, NEW B, Sound(a, m, B), NEW i \in 1 .. Len(a.st), Wildcard(a.st[i]),
           NEW c, c # Wild, NEW at \in Int, NEW b, b = ProcessWcChild(a, i, c, at)
    PROVE  Sound(b, m, B) /\ Follows(a, b) /\ b.remove = a.remove
<1>1. a \in Lists /\ a.st[i] \in StateSet /\ i \in Nat
  BY SoundIs DEF Sound
<1>2. PICK w : w = a.st[i].rm_stub
  OBVIOUS
<1>3. w \in nodes
  BY <1>1, <1>2 DEF StateSet
<1>4. PICK t : t = Branch(nodes, w, c)
  OBVIOUS
<1>5. CASE t = NoNode
  <2>1. b = a
    BY <1>2, <1>4, <1>5 DEF ProcessWcChild
  <2> QED
    BY <2>1, FollowsSelf
<1>6. CASE t # NoNode
  <2>1. PICK s : s = State(t, i, 1, at)
    OBVIOUS
  <2>2. PICK d : d = [a EXCEPT !.st[i].nr_child_states = @ + 1]
    OBVIOUS
  <2>3. b = Added(d, s)
    BY <1>2, <1>4, <1>6, <2>1, <2>2 DEF ProcessWcChild
  <2>4. t \in nodes /\ ~IsWildcard(nodes, t)
    BY <1>3, <1>4, <1>6, BranchIs
  <2>5. /\ s \in StateSet /\ s.parent = i /\ s.nr_child_states = 0 /\ ~Wildcard(s)
    BY <1>1, <2>1, <2>4, NewState DEF Wildcard
  <2>6. Changed(a, d, i, w, a.st[i].nr_child_states + 1)
    BY <1>1, <1>2, <1>3, <2>2, Putting
  <2> QED
    BY <1>2, <2>3, <2>5, <2>6, AddBelow
<1> QED
  BY <1>5, <1>6

\* The test by which rm_match_state drops the wildcard above a state that
\* enters another one never holds: the wildcard counts that very state.
LEMMA NeverDropped ==
    ASSUME NEW a, NEW m, NEW B, Sound(a, m, B), NEW i \in Live(a, m, B), i \in 1 .. Len(a.st),
           ~Wildcard(a.st[i]), NEW p, p = AboveOf(a.st, i), p # 0
    PROVE  a.st[p].nr_child_states > 0
<1>1. /\ a.st \in Seq(StateSet) /\ Len(a.st) \in Nat /\ Shaped(a.st) /\ Counted(a, m, B)
      /\ a.st[i] \in StateSet
  BY SoundIs DEF Sound
<1>2. p = a.st[i].parent /\ p \in Nat
  BY <1>1, AboveIs DEF StateSet
<1>3. p \in 1 .. Len(a.st) /\ Wildcard(a.st[p])
  BY <1>1, <1>2 DEF Shaped
<1>4. i \in Young(a, m, B, p)
  BY <1>2 DEF Young
<1>5. IsFiniteSet(Young(a, m, B, p))
  BY YoungIs
<1>6. Cardinality(Young(a, m, B, p)) \in Nat /\ Cardinality(Young(a, m, B, p)) # 0
  BY <1>4, <1>5, FS_CardinalityType, FS_EmptySet
<1> QED
  BY <1>1, <1>3, <1>6 DEF Counted

\* What may be removed when the plain state i meets a letter.
Loses(a, b, i) ==
    /\ a.remove \subseteq b.remove
    /\ \A j \in b.remove \ a.remove : j = i \/ (j \in 1 .. Len(a.st) /\ Wildcard(a.st[j]))

LEMMA EnterIs ==
    ASSUME TreeInv, NEW a, NEW m, NEW B, Sound(a, m, B), NEW i \in 1 .. Len(a.st), ~Wildcard(a.st[i]),
           NEW c, c # Wild, NEW at \in Int, NEW b, b = EnterWildcard(a, i, c, at)
    PROVE  /\ Sound(b, m, B) /\ Follows(a, b) /\ a.remove \subseteq b.remove
           /\ \A j \in b.remove \ a.remove : j \in 1 .. Len(a.st) /\ Wildcard(a.st[j])
<1>1. /\ a \in Lists /\ a.st[i] \in StateSet /\ i \in Nat /\ Len(a.st) \in Nat
      /\ a.st \in Seq(StateSet) /\ Shaped(a.st)
  BY SoundIs DEF Sound
<1>2. PICK u : u = a.st[i].rm_stub
  OBVIOUS
<1>3. u \in nodes
  BY <1>1, <1>2 DEF StateSet
<1>4. PICK w : w = wc_node[u]
  OBVIOUS
<1>5. PICK p : p = AboveOf(a.st, i)
  OBVIOUS
<1>6. p = 0 \/ (p \in 1 .. Len(a.st) /\ Wildcard(a.st[p]))
  <2>1. p = a.st[i].parent /\ p \in Nat
    BY <1>1, <1>5, AboveIs DEF StateSet
  <2>2. p < i /\ (p = 0 \/ Wildcard(a.st[p]))
    BY <1>1, <2>1 DEF Shaped
  <2> QED
    BY <1>1, <2>1, <2>2
<1>7. CASE w = NoNode
  <2>1. b = a
    BY <1>2, <1>4, <1>7 DEF EnterWildcard
  <2> QED
    BY <2>1, FollowsSelf
<1>8. CASE w # NoNode
  <2>1. PICK n : n = Len(a.st) + 1
    OBVIOUS
  <2>2. PICK s : s = State(w, i, 0, at)
    OBVIOUS
  <2>3. PICK e : e = Added(a, s)
    OBVIOUS
  <2> DEFINE over == /\ p # 0 /\ p \in Range(match) \ a.remove
                     /\ a.st[p].nr_child_states = 0 /\ ~Valid(a.st[p])
  <2>12. PICK d : d = IF over THEN [e EXCEPT !.remove = @ \cup {p}] ELSE e
    OBVIOUS
  <2>4. b = ProcessWcChild(d, n, c, at)
    <3>1. EnterWildcard(a, i, c, at) =
            IF w = NoNode THEN a
            ELSE ProcessWcChild(IF over THEN [e EXCEPT !.remove = @ \cup {p}] ELSE e, n, c, at)
      BY <1>2, <1>4, <1>5, <2>1, <2>2, <2>3, Zenon DEF EnterWildcard
    <3> HIDE DEF over
    <3> QED
      BY <1>8, <2>12, <3>1, Zenon
  <2>11. over => p # 0
    OBVIOUS
  <2> HIDE DEF over
  <2>5. s \in StateSet /\ s.parent = i /\ s.nr_child_states = 0 /\ Wildcard(s)
    <3>1. w \in nodes /\ IsWildcard(nodes, w)
      BY <1>3, <1>4, <1>8, WcIs
    <3> QED
      BY <1>1, <2>2, <3>1, NewState DEF Wildcard
  <2>6. /\ Sound(e, m, B) /\ Len(e.st) = n /\ e.st[n] = s /\ e.remove = a.remove
        /\ \A j \in 1 .. Len(a.st) : e.st[j] = a.st[j]
    <3>1. s.parent < n
      BY <1>1, <2>1, <2>5
    <3> QED
      BY <2>1, <2>3, <2>5, <3>1, AddPlain
  <2>7. Follows(a, e) /\ e \in Lists
    BY <1>1, <2>1, <2>6 DEF Follows, Sound
  <2>8. /\ Sound(d, m, B) /\ Follows(e, d) /\ d.st = e.st /\ a.remove \subseteq d.remove
        /\ \A j \in d.remove \ a.remove : j = p /\ p # 0
    <3>1. CASE ~over
      <4>1. d = e
        BY <2>12, <3>1
      <4> QED
        BY <2>6, <4>1, FollowsSelf
    <3>2. CASE over
      <4>1. p \in 1 .. Len(e.st) /\ Wildcard(e.st[p]) /\ d = [e EXCEPT !.remove = @ \cup {p}] /\ p # 0
        BY <1>1, <1>6, <2>1, <2>6, <2>11, <2>12, <3>2
      <4>2. Sound(d, m, B) /\ Follows(e, d) /\ d.st = e.st /\ d.remove = e.remove \cup {p}
        BY <2>6, <4>1, WildGone
      <4> QED
        BY <2>6, <4>1, <4>2
    <3> QED
      BY <3>1, <3>2
  <2>9. Sound(b, m, B) /\ Follows(d, b) /\ b.remove = d.remove
    <3>1. n \in 1 .. Len(d.st) /\ Wildcard(d.st[n])
      BY <1>1, <2>1, <2>5, <2>6, <2>8
    <3> QED
      BY <2>4, <2>8, <3>1, WcChildIs
  <2>10. Follows(a, b)
    <3>1. d \in Lists /\ b \in Lists
      BY <2>8, <2>9 DEF Sound
    <3>2. Follows(a, d)
      BY <1>1, <2>7, <2>8, <3>1, FollowsOn
    <3> QED
      BY <1>1, <2>9, <3>1, <3>2, FollowsOn
  <2> QED
    BY <1>6, <2>8, <2>9, <2>10
<1> QED
  BY <1>7, <1>8

LEMMA MoveOnIs ==
    ASSUME TreeInv, NEW a, NEW m, NEW B, Sound(a, m, B), NEW i \in 1 .. Len(a.st), ~Wildcard(a.st[i]),
           i \in Live(a, m, B), NEW c, c # Wild, NEW b, b = MoveOn(a, i, c)
    PROVE  Sound(b, m, B) /\ Follows(a, b) /\ b.remove \in {a.remove, a.remove \cup {i}}
<1>1. a \in Lists /\ a.st[i] \in StateSet /\ i \in Nat /\ Counted(a, m, B)
  BY SoundIs DEF Sound
<1>2. PICK u : u = a.st[i].rm_stub
  OBVIOUS
<1>3. u \in nodes
  BY <1>1, <1>2 DEF StateSet
<1>4. PICK t : t = Branch(nodes, u, c)
  OBVIOUS
<1>5. CASE t = NoNode
  <2>1. b = RemoveState(a, i)
    BY <1>2, <1>4, <1>5 DEF MoveOn
  <2> QED
    BY <2>1, RemovedIs
<1>6. CASE t # NoNode
  <2>1. t \in nodes /\ ~IsWildcard(nodes, t)
    BY <1>3, <1>4, <1>6, BranchIs
  <2>2. b = [a EXCEPT !.st[i].rm_stub = t, !.st[i].pos = 1]
    BY <1>2, <1>4, <1>6 DEF MoveOn
  <2>3. Changed(a, b, i, t, a.st[i].nr_child_states)
    <3>1. Changed(a, [a EXCEPT !.st[i].rm_stub = t, !.st[i].pos = 1], i, t, a.st[i].nr_child_states)
      BY <1>1, <2>1, Putting
    <3> QED
      BY <2>2, <3>1, Zenon
  <2>4. /\ Follows(a, b) /\ Len(b.st) = Len(a.st) /\ b.remove = a.remove
        /\ \A x : Young(b, m, B, x) = Young(a, m, B, x)
        /\ Counted(b, m, B) => Sound(b, m, B)
    BY <2>1, <2>3, ChangedIs
  <2>5. Counted(b, m, B)
    <3>1. \A j \in 1 .. Len(a.st) : b.st[j].nr_child_states = a.st[j].nr_child_states
      BY <2>3 DEF Changed
    <3> QED
      BY <1>1, <2>4, <3>1 DEF Counted, Follows
  <2> QED
    BY <2>4, <2>5
<1> QED
  BY <1>5, <1>6

LEMMA MatchStateIs ==
    ASSUME TreeInv, NEW a, NEW m, NEW B, Sound(a, m, B), NEW i \in 1 .. Len(a.st), i \in B,
           Wildcard(a.st[i]) \/ i \notin a.remove,
           NEW c, c # Wild, NEW at \in Int, NEW b, b = MatchState(a, i, c, at)
    PROVE  Sound(b, m, B) /\ Follows(a, b) /\ Loses(a, b, i)
<1>1. a \in Lists /\ a.st[i] \in StateSet /\ i \in Nat /\ Counted(a, m, B)
  BY SoundIs DEF Sound
<1>2. CASE Wildcard(a.st[i])
  <2>1. b = ProcessWcChild(a, i, c, at)
    BY <1>2 DEF MatchState
  <2> QED
    BY <1>2, <2>1, WcChildIs DEF Loses
<1>3. CASE ~Wildcard(a.st[i]) /\ AtEnd(a.st[i])
  <2>1. PICK d : d = EnterWildcard(a, i, c, at)
    OBVIOUS
  <2>2. b = MoveOn(d, i, c)
    BY <1>3, <2>1 DEF MatchState
  <2>3. /\ Sound(d, m, B) /\ Follows(a, d) /\ a.remove \subseteq d.remove
        /\ \A j \in d.remove \ a.remove : j \in 1 .. Len(a.st) /\ Wildcard(a.st[j])
    BY <1>3, <2>1, EnterIs
  <2>4. i \in 1 .. Len(d.st) /\ ~Wildcard(d.st[i])
    <3>1. Len(a.st) \in Nat /\ Len(d.st) \in Nat
      BY <2>3, SoundIs
    <3> QED
      BY <1>3, <2>3, <3>1 DEF Follows
  <2>5. i \in Live(d, m, B)
    BY <1>3, <2>3 DEF Live
  <2>6. Sound(b, m, B) /\ Follows(d, b) /\ b.remove \in {d.remove, d.remove \cup {i}}
    BY <2>2, <2>3, <2>4, <2>5, MoveOnIs
  <2>7. Follows(a, b)
    BY <2>3, <2>6, FollowsOn DEF Sound
  <2>8. Loses(a, b, i)
    BY <2>3, <2>6 DEF Loses
  <2> QED
    BY <2>6, <2>7, <2>8
<1>4. CASE /\ ~Wildcard(a.st[i]) /\ ~AtEnd(a.st[i])
           /\ Piece(nodes, a.st[i].rm_stub)[a.st[i].pos + 1] = c
  <2>1. b = [a EXCEPT !.st[i].pos = @ + 1]
    BY <1>4 DEF MatchState
  <2>2. Changed(a, b, i, a.st[i].rm_stub, a.st[i].nr_child_states)
    <3>1. a.st[i].rm_stub \in nodes
      BY <1>1 DEF StateSet
    <3> QED
      BY <1>1, <2>1, <3>1, Putting
  <2>3. /\ Follows(a, b) /\ Len(b.st) = Len(a.st) /\ b.remove = a.remove
        /\ \A x : Young(b, m, B, x) = Young(a, m, B, x)
        /\ Counted(b, m, B) => Sound(b, m, B)
    BY <2>2, ChangedIs DEF Wildcard
  <2>4. Counted(b, m, B)
    <3>1. \A j \in 1 .. Len(a.st) : b.st[j].nr_child_states = a.st[j].nr_child_states
      BY <2>2 DEF Changed
    <3> QED
      BY <1>1, <2>3, <3>1 DEF Counted, Follows
  <2> QED
    BY <2>3, <2>4 DEF Loses
<1>5. CASE /\ ~Wildcard(a.st[i]) /\ ~AtEnd(a.st[i])
           /\ Piece(nodes, a.st[i].rm_stub)[a.st[i].pos + 1] # c
  <2>1. b = RemoveState(a, i)
    BY <1>5 DEF MatchState
  <2>2. i \in Live(a, m, B)
    BY <1>5 DEF Live
  <2> QED
    BY <1>5, <2>1, <2>2, RemovedIs DEF Loses
<1> QED
  BY <1>2, <1>3, <1>4, <1>5
-----------------------------------------------------------------------------
\* A letter is read: the states on the list l meet it one after another, n of
\* them so far.
Followed(st) == [NothingYet EXCEPT !.st = st]
Once(l) == \A h, k \in 1 .. Len(l) : l[h] = l[k] => h = k
Meets(st, l, c, at, f, n) ==
    /\ f = [k \in 0 .. n |-> f[k]]
    /\ f[0] = Followed(st) /\ \A k \in 1 .. n : f[k] = MatchState(f[k - 1], l[k], c, at)

MatchInv ==
    rm_pc = "match" =>
      /\ key_pos \in Nat /\ input \in Seq(Int \ {Wild})
      /\ match \in Indices /\ Once(match)
      /\ Sound(Followed(states), Len(states), Range(match))

LEMMA MeetsFar ==
    ASSUME NEW st, NEW l, NEW c, NEW at, NEW n \in Nat
    PROVE  \E f : Meets(st, l, c, at, f, n)
<1> DEFINE T == {m \in Nat : ~ \E f : Meets(st, l, c, at, f, m)}
<1>1. T = {}
  <2> SUFFICES ASSUME T # {} PROVE FALSE
    OBVIOUS
  <2>1. PICK a \in T : \A b \in T : a <= b
    BY LeastOf, T \in SUBSET Nat
  <2>2. a # 0
    <3>1. Meets(st, l, c, at, [j \in 0 .. 0 |-> Followed(st)], 0)
      BY DEF Meets
    <3> QED
      BY <3>1
  <2>3. a - 1 \in Nat /\ a - 1 \notin T
    BY <2>1, <2>2
  <2>4. PICK g : Meets(st, l, c, at, g, a - 1)
    BY <2>3
  <2> DEFINE f == [j \in 0 .. a |-> IF j = a THEN MatchState(g[a - 1], l[a], c, at) ELSE g[j]]
  <2>5. a \in Nat \ {0}
    BY <2>2
  <2>6. \A j \in 0 .. a - 1 : f[j] = g[j]
    BY <2>5
  <2>7. f = [j \in 0 .. a |-> f[j]] /\ f[a] = MatchState(g[a - 1], l[a], c, at)
    BY <2>5
  <2> HIDE DEF f
  <2>8. f[0] = Followed(st)
    <3>1. g[0] = Followed(st)
      BY <2>4 DEF Meets
    <3>2. 0 \in 0 .. a - 1
      BY <2>5
    <3> QED
      BY <2>6, <3>1, <3>2
  <2>9. ASSUME NEW j \in 1 .. a
        PROVE  f[j] = MatchState(f[j - 1], l[j], c, at)
    <3>1. j - 1 \in 0 .. a - 1
      BY <2>5
    <3>2. f[j - 1] = g[j - 1]
      BY <2>6, <3>1
    <3>3. CASE j = a
      BY <2>7, <3>2, <3>3
    <3>4. CASE j # a
      <4>1. j \in 1 .. a - 1 /\ j \in 0 .. a - 1
        BY <2>5, <3>4
      <4>2. g[j] = MatchState(g[j - 1], l[j], c, at)
        BY <2>4, <4>1 DEF Meets
      <4> QED
        BY <2>6, <3>2, <4>1, <4>2
    <3> QED
      BY <3>3, <3>4
  <2>10. Meets(st, l, c, at, f, a)
    BY <2>7, <2>8, <2>9 DEF Meets
  <2> QED
    BY <2>10
<1> QED
  BY <1>1

\* What is true between two of them: no plain state that still has to meet the
\* letter has been removed.
Met(a, m, l, k) ==
    /\ Sound(a, m, Range(l))
    /\ \A h \in k + 1 .. Len(l) : l[h] \in a.remove => Wildcard(a.st[l[h]])

LEMMA NextMet ==
    ASSUME TreeInv, NEW m, NEW l \in Indices, Once(l), NEW k \in 1 .. Len(l), NEW a, Met(a, m, l, k - 1),
           NEW c, c # Wild, NEW at \in Int, NEW b, b = MatchState(a, l[k], c, at)
    PROVE  Met(b, m, l, k)
<1>1. Len(l) \in Nat /\ k \in Nat /\ l \in Seq(Nat)
  BY DEF Indices
<1>2. PICK B, i : B = Range(l) /\ i = l[k]
  OBVIOUS
<1>3. \A h \in 1 .. Len(l) : l[h] \in B
  BY <1>1, <1>2 DEF Range
<1>4. Sound(a, m, B)
  BY <1>2 DEF Met
<1>5. Len(a.st) \in Nat /\ B \subseteq 1 .. Len(a.st)
  BY <1>4, SoundIs
<1>6. i \in B /\ i \in 1 .. Len(a.st)
  BY <1>2, <1>3, <1>5
<1>7. \A h \in k .. Len(l) : l[h] \in a.remove => Wildcard(a.st[l[h]])
  <2>1. (k - 1) + 1 = k
    BY <1>1
  <2> QED
    BY <2>1 DEF Met
<1>8. Wildcard(a.st[i]) \/ i \notin a.remove
  BY <1>1, <1>2, <1>7
<1>9. Sound(b, m, B) /\ Follows(a, b) /\ Loses(a, b, i)
  BY <1>2, <1>4, <1>6, <1>8, MatchStateIs
<1>10. ASSUME NEW h \in k + 1 .. Len(l), l[h] \in b.remove
       PROVE  Wildcard(b.st[l[h]])
  <2>1. h \in k .. Len(l) /\ h \in 1 .. Len(l) /\ h # k
    BY <1>1
  <2>2. l[h] # i
    BY <1>2, <2>1 DEF Once
  <2>3. l[h] \in 1 .. Len(a.st)
    BY <1>3, <1>5, <2>1
  <2>4. Wildcard(a.st[l[h]])
    BY <1>7, <1>9, <1>10, <2>1, <2>2 DEF Loses
  <2> QED
    BY <1>9, <2>3, <2>4 DEF Follows
<1> QED
  BY <1>2, <1>9, <1>10 DEF Met

LEMMA AllMet ==
    ASSUME TreeInv, NEW l \in Indices, Once(l), NEW st, Sound(Followed(st), Len(st), Range(l)),
           NEW c, c # Wild, NEW at \in Int, NEW n \in Nat, n = Len(l), NEW f, Meets(st, l, c, at, f, n)
    PROVE  Sound(f[n], Len(st), Range(l))
<1> DEFINE D == {k \in 0 .. n : ~Met(f[k], Len(st), l, k)}
<1>1. D = {}
  <2> SUFFICES ASSUME D # {} PROVE FALSE
    OBVIOUS
  <2>1. PICK k \in D : \A j \in D : k <= j
    BY LeastOf, D \in SUBSET Nat
  <2>2. Met(Followed(st), Len(st), l, 0)
    BY DEF Met, Followed, NothingYet
  <2>3. k # 0
    BY <2>1, <2>2 DEF Meets
  <2>4. k \in 1 .. n /\ k - 1 \in 0 .. n /\ k - 1 < k
    BY <2>1, <2>3
  <2>5. Met(f[k - 1], Len(st), l, k - 1)
    BY <2>1, <2>4
  <2>6. f[k] = MatchState(f[k - 1], l[k], c, at)
    BY <2>4 DEF Meets
  <2>7. Met(f[k], Len(st), l, k)
    BY <2>4, <2>5, <2>6, NextMet
  <2> QED
    BY <2>1, <2>7
<1>2. Met(f[n], Len(st), l, n)
  BY <1>1
<1> QED
  BY <1>2 DEF Met
-----------------------------------------------------------------------------
\* The walk of Kept along the list, n states of it.
Keeps(s, R, f, n) ==
    /\ f = [k \in 0 .. n |-> f[k]]
    /\ f[0] = <<>>
    /\ \A k \in 1 .. n : f[k] = IF s[k] \in R THEN f[k - 1] ELSE Append(f[k - 1], s[k])

LEMMA KeepsFar ==
    ASSUME NEW s, NEW R, NEW n \in Nat
    PROVE  \E f : Keeps(s, R, f, n)
<1> DEFINE T == {m \in Nat : ~ \E f : Keeps(s, R, f, m)}
<1>1. T = {}
  <2> SUFFICES ASSUME T # {} PROVE FALSE
    OBVIOUS
  <2>1. PICK a \in T : \A b \in T : a <= b
    BY LeastOf, T \in SUBSET Nat
  <2>2. a # 0
    <3>1. Keeps(s, R, [j \in 0 .. 0 |-> <<>>], 0)
      BY DEF Keeps
    <3> QED
      BY <3>1
  <2>3. a - 1 \in Nat /\ a - 1 \notin T
    BY <2>1, <2>2
  <2>4. PICK g : Keeps(s, R, g, a - 1)
    BY <2>3
  <2> DEFINE e == IF s[a] \in R THEN g[a - 1] ELSE Append(g[a - 1], s[a])
             f == [j \in 0 .. a |-> IF j = a THEN e ELSE g[j]]
  <2>5. a \in Nat \ {0}
    BY <2>2
  <2> HIDE DEF e
  <2>6. \A j \in 0 .. a - 1 : f[j] = g[j]
    BY <2>5
  <2>7. f = [j \in 0 .. a |-> f[j]] /\ f[a] = e
    BY <2>5
  <2> HIDE DEF f
  <2>8. f[0] = <<>>
    <3>1. g[0] = <<>>
      BY <2>4 DEF Keeps
    <3>2. 0 \in 0 .. a - 1
      BY <2>5
    <3> QED
      BY <2>6, <3>1, <3>2
  <2>9. ASSUME NEW j \in 1 .. a
        PROVE  f[j] = IF s[j] \in R THEN f[j - 1] ELSE Append(f[j - 1], s[j])
    <3>1. j - 1 \in 0 .. a - 1
      BY <2>5
    <3>2. f[j - 1] = g[j - 1]
      BY <2>6, <3>1
    <3>3. CASE j = a
      BY <2>7, <3>2, <3>3, Zenon DEF e
    <3>4. CASE j # a
      <4>1. j \in 1 .. a - 1 /\ j \in 0 .. a - 1
        BY <2>5, <3>4
      <4>2. g[j] = IF s[j] \in R THEN g[j - 1] ELSE Append(g[j - 1], s[j])
        BY <2>4, <4>1 DEF Keeps
      <4> QED
        BY <2>6, <3>2, <4>1, <4>2
    <3> QED
      BY <3>3, <3>4
  <2>10. Keeps(s, R, f, a)
    BY <2>7, <2>8, <2>9 DEF Keeps
  <2> QED
    BY <2>10
<1> QED
  BY <1>1

Walked(q, s, R, k) == /\ q \in Indices /\ Once(q)
                      /\ \A x : x \in Range(q) <=> \E h \in 1 .. k : s[h] = x /\ x \notin R

LEMMA NextKept ==
    ASSUME NEW s \in Indices, Once(s), NEW R, NEW k \in 1 .. Len(s), NEW q, Walked(q, s, R, k - 1),
           NEW p, p = IF s[k] \in R THEN q ELSE Append(q, s[k])
    PROVE  Walked(p, s, R, k)
<1>1. /\ Len(s) \in Nat /\ k \in Nat /\ q \in Seq(Nat) /\ s[k] \in Nat /\ Len(q) \in Nat
      /\ Once(q) /\ \A x : x \in Range(q) <=> \E h \in 1 .. k - 1 : s[h] = x /\ x \notin R
  BY DEF Indices, Walked
<1>2. \A h \in 1 .. k : h \in 1 .. k - 1 \/ h = k
  BY <1>1
<1>3. \A h \in 1 .. k - 1 : h \in 1 .. k /\ s[h] # s[k]
  BY <1>1 DEF Once
<1>4. CASE s[k] \in R
  <2>1. p = q
    BY <1>4
  <2>2. \A x : x \in Range(q) <=> \E h \in 1 .. k : s[h] = x /\ x \notin R
    BY <1>1, <1>2, <1>3, <1>4
  <2> QED
    BY <1>1, <2>1, <2>2 DEF Walked, Indices
<1>5. CASE s[k] \notin R
  <2>1. p = Append(q, s[k])
    BY <1>5
  <2>2. /\ p \in Seq(Nat) /\ Len(p) = Len(q) + 1 /\ p[Len(q) + 1] = s[k]
        /\ \A j \in 1 .. Len(q) : p[j] = q[j]
    BY <1>1, <2>1, AppendProperties
  <2>3. DOMAIN p = 1 .. Len(p) /\ DOMAIN q = 1 .. Len(q)
    BY <1>1, <2>2
  <2>4. \A j \in 1 .. Len(p) : j \in 1 .. Len(q) \/ j = Len(q) + 1
    BY <1>1, <2>2
  <2>5. \A j \in 1 .. Len(q) : j \in 1 .. Len(p)
    BY <1>1, <2>2
  <2>6. Len(q) + 1 \in 1 .. Len(p)
    BY <1>1, <2>2
  <2>7. \A x : x \in Range(q) <=> \E j \in 1 .. Len(q) : q[j] = x
    BY <2>3 DEF Range
  <2>8. \A x : x \in Range(p) <=> \E j \in 1 .. Len(p) : p[j] = x
    BY <2>3 DEF Range
  <2>9. \A x : x \in Range(p) <=> x \in Range(q) \/ x = s[k]
    BY <2>2, <2>4, <2>5, <2>6, <2>7, <2>8
  <2>10. s[k] \notin Range(q)
    BY <1>1, <1>3
  <2>11. Once(p)
    <3> SUFFICES ASSUME NEW h \in 1 .. Len(p), NEW j \in 1 .. Len(p), p[h] = p[j]
                 PROVE  h = j
      BY DEF Once
    <3>1. CASE h \in 1 .. Len(q) /\ j \in 1 .. Len(q)
      BY <1>1, <2>2, <3>1 DEF Once
    <3>2. CASE h = Len(q) + 1 /\ j \in 1 .. Len(q)
      BY <2>2, <2>7, <2>10, <3>2
    <3>3. CASE h \in 1 .. Len(q) /\ j = Len(q) + 1
      BY <2>2, <2>7, <2>10, <3>3
    <3> QED
      BY <2>4, <3>1, <3>2, <3>3
  <2>12. \A x : x \in Range(p) <=> \E h \in 1 .. k : s[h] = x /\ x \notin R
    <3> TAKE x
    <3>1. k \in 1 .. k
      BY <1>1
    <3> QED
      BY <1>1, <1>2, <1>3, <1>5, <2>9, <3>1
  <2> QED
    BY <2>2, <2>11, <2>12 DEF Walked, Indices
<1> QED
  BY <1>4, <1>5

LEMMA KeptIs ==
    ASSUME NEW s \in Indices, Once(s), NEW R
    PROVE  Kept(s, R) \in Indices /\ Once(Kept(s, R)) /\ Range(Kept(s, R)) = Range(s) \ R
<1> PICK n : n = Len(s)
  OBVIOUS
<1>1. n \in Nat /\ s \in Seq(Nat)
  BY DEF Indices
<1>2. PICK g : Keeps(s, R, g, n)
  BY <1>1, KeepsFar
<1> DEFINE Is(f) == f = [k \in 0 .. Len(s) |->
                           IF k = 0 THEN <<>>
                           ELSE IF s[k] \in R THEN f[k - 1] ELSE Append(f[k - 1], s[k])]
<1>3. Is(g)
  <2>1. \A k \in 0 .. n : g[k] = IF k = 0 THEN <<>>
                                 ELSE IF s[k] \in R THEN g[k - 1] ELSE Append(g[k - 1], s[k])
    <3> TAKE k \in 0 .. n
    <3>1. k = 0 \/ k \in 1 .. n
      BY <1>1
    <3> QED
      BY <1>2, <3>1 DEF Keeps
  <2>2. g = [k \in 0 .. n |-> g[k]]
    BY <1>2 DEF Keeps
  <2>3. [k \in 0 .. n |-> g[k]] =
        [k \in 0 .. n |-> IF k = 0 THEN <<>>
                          ELSE IF s[k] \in R THEN g[k - 1] ELSE Append(g[k - 1], s[k])]
    BY <2>1, Zenon
  <2> QED
    BY <2>2, <2>3
<1>4. PICK f : f = CHOOSE h : Is(h)
  OBVIOUS
<1>5. Is(f)
  <2> HIDE DEF Is
  <2> QED
    BY <1>3, <1>4, Zenon
<1>6. Kept(s, R) = f[n]
  BY <1>4 DEF Kept
<1>7. \A k \in 0 .. n : f[k] = IF k = 0 THEN <<>>
                               ELSE IF s[k] \in R THEN f[k - 1] ELSE Append(f[k - 1], s[k])
  BY <1>5
<1> HIDE DEF Is
<1> DEFINE D == {k \in 0 .. n : ~Walked(f[k], s, R, k)}
<1>8. D = {}
  <2> SUFFICES ASSUME D # {} PROVE FALSE
    OBVIOUS
  <2>1. PICK k \in D : \A j \in D : k <= j
    BY <1>1, LeastOf, D \in SUBSET Nat
  <2>2. Walked(<<>>, s, R, 0)
    <3>1. <<>> \in Indices /\ Once(<<>>) /\ Range(<<>>) = {}
      BY DEF Indices, Once, Range
    <3> QED
      BY <3>1 DEF Walked
  <2>3. k # 0
    BY <1>1, <1>7, <2>1, <2>2
  <2>4. k \in 1 .. n /\ k - 1 \in 0 .. n /\ k - 1 < k
    BY <1>1, <2>1, <2>3
  <2>5. Walked(f[k - 1], s, R, k - 1)
    BY <2>1, <2>4
  <2>6. f[k] = IF s[k] \in R THEN f[k - 1] ELSE Append(f[k - 1], s[k])
    BY <1>7, <2>1, <2>3
  <2>7. Walked(f[k], s, R, k)
    BY <2>4, <2>5, <2>6, NextKept
  <2> QED
    BY <2>1, <2>7
<1>9. Walked(f[n], s, R, n)
  BY <1>1, <1>8
<1>10. \A x : x \in Range(s) <=> \E h \in 1 .. n : s[h] = x
  BY <1>1 DEF Range
<1> QED
  BY <1>6, <1>9, <1>10 DEF Walked
-----------------------------------------------------------------------------
LEMMA FollowedIs ==
    ASSUME NEW st \in StateLists
    PROVE  /\ Followed(st) \in Lists /\ Followed(st).st = st
           /\ Followed(st).add = <<>> /\ Followed(st).remove = {}
<1>1. NothingYet \in Lists /\ NothingYet.add = <<>> /\ NothingYet.remove = {}
  <2>1. <<>> \in StateLists /\ <<>> \in Indices /\ {} \in IndexSets
    BY DEF StateLists, Indices, IndexSets
  <2> QED
    BY <2>1 DEF NothingYet, Lists
<1>2. Has(Followed(st), st, NothingYet.add, NothingYet.remove)
  BY <1>1, PutSt DEF Followed
<1> QED
  BY <1>1, <1>2 DEF Has

\* Once the letter is read, what is left on the lists is followed.
LEMMA Settled ==
    ASSUME NEW a, NEW m, NEW B, Sound(a, m, B)
    PROVE  Sound(Followed(a.st), Len(a.st), Live(a, m, B))
<1> PICK F, n, L : F = Followed(a.st) /\ n = Len(a.st) /\ L = Live(a, m, B)
  OBVIOUS
<1>1. /\ n \in Nat /\ m \in Nat /\ m <= n /\ B \subseteq 1 .. m /\ a.st \in StateLists
      /\ Shaped(a.st) /\ Counted(a, m, B)
  BY SoundIs DEF Sound, Lists
<1>2. F \in Lists /\ F.st = a.st /\ F.add = <<>> /\ F.remove = {}
  BY <1>1, FollowedIs
<1>3. L \subseteq 1 .. n
  <2>1. \A j \in 1 .. m : j \in 1 .. n
    BY <1>1
  <2>2. \A j \in m + 1 .. n : j \in 1 .. n
    BY <1>1
  <2>3. L \subseteq B \cup m + 1 .. n
    BY DEF Live
  <2> QED
    BY <1>1, <2>1, <2>2, <2>3
<1>4. AddsNew(F, n)
  <2>1. n + 1 .. n = {}
    BY <1>1
  <2>2. Range(<<>>) = {} /\ Len(<<>>) = 0
    BY DEF Range
  <2>3. Range(F.add) = n + 1 .. Len(F.st) /\ Len(F.add) = 0
    BY <1>2, <2>1, <2>2
  <2>4. 1 .. Len(F.add) = {}
    BY <2>3
  <2> QED
    BY <2>3, <2>4 DEF AddsNew
<1>5. Live(F, n, L) = L
  <2>1. n + 1 .. n = {}
    BY <1>1
  <2> QED
    BY <1>2, <2>1 DEF Live
<1>6. \A i : Young(F, n, L, i) = Young(a, m, B, i)
  BY <1>2, <1>5 DEF Young
<1>7. Counted(F, n, L)
  BY <1>1, <1>2, <1>6 DEF Counted
<1>8. n <= Len(F.st) /\ F.remove \subseteq 1 .. Len(F.st)
  BY <1>1, <1>2
<1> QED
  BY <1>1, <1>2, <1>3, <1>4, <1>7, <1>8 DEF Sound

LEMMA JoinedIs ==
    ASSUME NEW a, NEW m, NEW l \in Indices, Once(l), Sound(a, m, Range(l))
    PROVE  /\ l \o a.add \in Indices /\ Once(l \o a.add)
           /\ Range(l \o a.add) = Range(l) \cup m + 1 .. Len(a.st)
<1> PICK e, d, B : e = a.add /\ d = l \o e /\ B = Range(l)
  OBVIOUS
<1>1. /\ l \in Seq(Nat) /\ e \in Seq(Nat) /\ m \in Nat /\ Len(a.st) \in Nat /\ B \subseteq 1 .. m
      /\ Range(e) = m + 1 .. Len(a.st) /\ Once(e)
  BY SoundIs DEF Sound, AddsNew, Once, Indices
<1>2. /\ d \in Seq(Nat) /\ Len(d) = Len(l) + Len(e) /\ Len(l) \in Nat /\ Len(e) \in Nat
      /\ \A k \in 1 .. Len(d) : d[k] = IF k <= Len(l) THEN l[k] ELSE e[k - Len(l)]
  BY <1>1
<1>3. /\ \A x : x \in B <=> \E k \in 1 .. Len(l) : l[k] = x
      /\ \A x : x \in Range(e) <=> \E k \in 1 .. Len(e) : e[k] = x
      /\ \A x : x \in Range(d) <=> \E k \in 1 .. Len(d) : d[k] = x
  <2>1. DOMAIN l = 1 .. Len(l) /\ DOMAIN e = 1 .. Len(e) /\ DOMAIN d = 1 .. Len(d)
    BY <1>1, <1>2
  <2> QED
    BY <2>1 DEF Range
<1>4. \A k \in 1 .. Len(d) : \/ k \in 1 .. Len(l) /\ d[k] = l[k]
                             \/ k - Len(l) \in 1 .. Len(e) /\ d[k] = e[k - Len(l)]
  BY <1>2
<1>5. /\ \A k \in 1 .. Len(l) : k \in 1 .. Len(d) /\ d[k] = l[k]
      /\ \A k \in 1 .. Len(e) : k + Len(l) \in 1 .. Len(d) /\ d[k + Len(l)] = e[k]
  BY <1>2
<1>6. \A x : x \in Range(d) <=> x \in B \/ x \in Range(e)
  <2> TAKE x
  <2>1. ASSUME x \in Range(d) PROVE x \in B \/ x \in Range(e)
    BY <1>3, <1>4, <2>1
  <2>2. ASSUME x \in B \/ x \in Range(e) PROVE x \in Range(d)
    BY <1>3, <1>5, <2>2
  <2> QED
    BY <2>1, <2>2
<1>7. \A x \in B : x \notin Range(e)
  BY <1>1
<1>8. Once(d)
  <2> SUFFICES ASSUME NEW h \in 1 .. Len(d), NEW k \in 1 .. Len(d), d[h] = d[k]
               PROVE  h = k
    BY DEF Once
  <2>0. h \in Nat /\ k \in Nat
    BY <1>2
  <2>1. CASE h \in 1 .. Len(l) /\ d[h] = l[h]
    <3>1. d[h] \in B
      BY <1>3, <2>1
    <3>2. k \in 1 .. Len(l) /\ d[k] = l[k]
      BY <1>3, <1>4, <1>7, <3>1
    <3> QED
      BY <2>1, <3>2 DEF Once
  <2>2. CASE h - Len(l) \in 1 .. Len(e) /\ d[h] = e[h - Len(l)]
    <3>1. d[h] \in Range(e)
      BY <1>3, <2>2
    <3>2. k - Len(l) \in 1 .. Len(e) /\ d[k] = e[k - Len(l)]
      BY <1>3, <1>4, <1>7, <3>1
    <3>3. PICK x \in 1 .. Len(e), y \in 1 .. Len(e) : x = h - Len(l) /\ y = k - Len(l)
      BY <2>2, <3>2
    <3>4. e[x] = e[y]
      BY <2>2, <3>2, <3>3
    <3>5. x = y
      BY <1>1, <3>4 DEF Once
    <3> QED
      BY <1>2, <2>0, <3>3, <3>5
  <2> QED
    BY <1>4, <2>1, <2>2
<1> QED
  BY <1>1, <1>2, <1>6, <1>8 DEF Indices

\* What a step leaves: the states and the list that follows them.
LEMMA ListLeft ==
    ASSUME NEW a, NEW m, NEW l \in Indices, Once(l), Sound(a, m, Range(l)),
           NEW q, q = Kept(l \o a.add, a.remove)
    PROVE  q \in Indices /\ Once(q) /\ Sound(Followed(a.st), Len(a.st), Range(q))
<1> PICK d, R : d = l \o a.add /\ R = a.remove
  OBVIOUS
<1>1. d \in Indices /\ Once(d) /\ Range(d) = Range(l) \cup m + 1 .. Len(a.st)
  BY JoinedIs
<1>2. q \in Indices /\ Once(q) /\ Range(q) = Range(d) \ R
  BY <1>1, KeptIs
<1>3. Range(q) = Live(a, m, Range(l))
  BY <1>1, <1>2 DEF Live
<1> QED
  BY <1>2, <1>3, Settled

LEMMA SoundOn ==
    ASSUME NEW a, NEW m, NEW B, Sound(a, m, B), nodes' = nodes
    PROVE  Sound(a, m, B)'
<1>1. a \in Lists'
  BY DEF Sound, Lists, StateLists, StateSet
<1>2. Shaped(a.st)'
  <2>1. ASSUME NEW j \in 1 .. Len(a.st)
        PROVE  Wildcard(a.st[j])' <=> Wildcard(a.st[j])
    BY DEF Wildcard
  <2>2. ASSUME NEW j \in 1 .. Len(a.st)
        PROVE  Wildcard(a.st[a.st[j].parent])' <=> Wildcard(a.st[a.st[j].parent])
    BY DEF Wildcard
  <2> QED
    BY <2>1, <2>2 DEF Sound, Shaped
<1>3. Counted(a, m, B)'
  <2>1. ASSUME NEW i \in 1 .. Len(a.st)
        PROVE  /\ Wildcard(a.st[i])' <=> Wildcard(a.st[i])
               /\ Young(a, m, B, i)' = Young(a, m, B, i)
    <3>1. \A j : Wildcard(a.st[j])' <=> Wildcard(a.st[j])
      BY DEF Wildcard
    <3> QED
      BY <3>1 DEF Young, Live
  <2> QED
    BY <2>1 DEF Sound, Counted
<1> QED
  BY <1>1, <1>2, <1>3 DEF Sound, AddsNew

\* The states that the first letter makes.
LEMMA FirstStates ==
    ASSUME TreeInv, NEW c \in Int \ {Wild},
           NEW a, a = IF FirstWildcard = NoNode THEN NothingYet
                      ELSE ProcessWcChild(Added(NothingYet, State(FirstWildcard, 0, 0, 0)), 1, c, 0),
           NEW b, b = IF FirstBranch(c) = NoNode THEN a ELSE Added(a, State(FirstBranch(c), 0, 1, 0))
    PROVE  Sound(b, 0, {}) /\ b.remove = {}
<1>1. Sound(NothingYet, 0, {}) /\ NothingYet.st = <<>> /\ NothingYet.remove = {}
  <2>1. <<>> \in StateLists /\ <<>> \in Indices /\ {} \in IndexSets
    BY DEF StateLists, Indices, IndexSets
  <2>2. /\ NothingYet \in Lists /\ NothingYet.st = <<>> /\ NothingYet.add = <<>>
        /\ NothingYet.remove = {}
    BY <2>1 DEF NothingYet, Lists
  <2>3. Len(<<>>) = 0 /\ 1 .. 0 = {} /\ Range(<<>>) = {} /\ 0 + 1 .. 0 = {}
    BY DEF Range
  <2>4. AddsNew(NothingYet, 0) /\ Shaped(<<>>) /\ Counted(NothingYet, 0, {})
    BY <2>2, <2>3 DEF AddsNew, Shaped, Counted
  <2> QED
    BY <2>2, <2>3, <2>4 DEF Sound
<1>2. PICK w, t : w = FirstWildcard /\ t = FirstBranch(c)
  OBVIOUS
<1>3. /\ w # NoNode => w \in nodes /\ IsWildcard(nodes, w)
      /\ t # NoNode => t \in nodes /\ ~IsWildcard(nodes, t)
  BY <1>2, FirstIs
<1>4. Sound(a, 0, {}) /\ a.remove = {}
  <2>1. CASE w = NoNode
    BY <1>1, <1>2, <2>1
  <2>2. CASE w # NoNode
    <3>1. PICK s, d : s = State(w, 0, 0, 0) /\ d = Added(NothingYet, s)
      OBVIOUS
    <3>2. a = ProcessWcChild(d, 1, c, 0)
      BY <1>2, <2>2, <3>1
    <3>3. s \in StateSet /\ s.parent = 0 /\ s.nr_child_states = 0 /\ Wildcard(s)
      BY <1>3, <2>2, <3>1, NewState DEF Wildcard
    <3>4. 1 = Len(NothingYet.st) + 1
      BY <1>1
    <3>5. Sound(d, 0, {}) /\ Len(d.st) = 1 /\ d.st[1] = s /\ d.remove = {}
      <4>1. PICK z, B, m, n : z = NothingYet /\ B = {} /\ m = 0 /\ n = 1
        OBVIOUS
      <4>2. s.parent < n
        BY <3>3, <4>1
      <4>3. Sound(z, m, B) /\ n = Len(z.st) + 1 /\ z.remove = {}
        BY <1>1, <3>4, <4>1
      <4>4. d = Added(z, s)
        BY <3>1, <4>1
      <4>5. Sound(d, m, B) /\ Len(d.st) = n /\ d.st[n] = s /\ d.remove = z.remove
        BY <3>3, <4>2, <4>3, <4>4, AddPlain
      <4> QED
        BY <4>1, <4>3, <4>5
    <3>6. 1 \in 1 .. Len(d.st) /\ Wildcard(d.st[1]) /\ c # Wild
      BY <3>3, <3>5
    <3> QED
      BY <3>2, <3>5, <3>6, WcChildIs
  <2> QED
    BY <2>1, <2>2
<1>5. CASE t = NoNode
  BY <1>2, <1>4, <1>5
<1>6. CASE t # NoNode
  <2>1. PICK s, n : s = State(t, 0, 1, 0) /\ n = Len(a.st) + 1
    OBVIOUS
  <2>2. b = Added(a, s)
    BY <1>2, <1>6, <2>1
  <2>3. s \in StateSet /\ s.parent = 0 /\ s.nr_child_states = 0
    BY <1>3, <1>6, <2>1, NewState
  <2>4. s.parent < n
    BY <1>4, <2>1, <2>3, SoundIs
  <2> QED
    BY <1>4, <2>1, <2>2, <2>3, <2>4, AddPlain
<1> QED
  BY <1>5, <1>6

LEMMA MatchStarts ==
    ASSUME TreeInv, NEW s \in Inputs, StartMatch(s)
    PROVE  MatchInv'
<1>1. s \in Seq(Int \ {Wild}) /\ s[1] \in Int \ {Wild}
  <2>1. s \in Seq(Int \ {Wild}) /\ s # <<>>
    BY InputsAreWords
  <2> QED
    BY <2>1
<1>2. PICK c : c = s[1]
  OBVIOUS
<1> DEFINE e == IF FirstWildcard = NoNode THEN NothingYet
                ELSE ProcessWcChild(Added(NothingYet, State(FirstWildcard, 0, 0, 0)), 1, c, 0)
           d == IF FirstBranch(c) = NoNode THEN e ELSE Added(e, State(FirstBranch(c), 0, 1, 0))
<1>3. PICK a : a = e
  OBVIOUS
<1>4. PICK b : b = d
  OBVIOUS
<1>5. /\ states' = b.st /\ match' = [i \in 1 .. Len(b.st) |-> i]
      /\ input' = s /\ key_pos' = 1 /\ nodes' = nodes
  <2>1. states' = d.st /\ match' = [i \in 1 .. Len(d.st) |-> i]
    BY <1>2 DEF StartMatch
  <2> HIDE DEF d
  <2> QED
    BY <1>4, <2>1 DEF StartMatch, rm_tree
<1>6. Sound(b, 0, {}) /\ b.remove = {}
  <2>1. b = IF FirstBranch(c) = NoNode THEN a ELSE Added(a, State(FirstBranch(c), 0, 1, 0))
    BY <1>3, <1>4
  <2>2. c \in Int \ {Wild}
    BY <1>1, <1>2
  <2> QED
    BY <1>3, <2>1, <2>2, FirstStates
<1> HIDE DEF d, e
<1>7. PICK x, q : x = b.st /\ q = [i \in 1 .. Len(b.st) |-> i]
  OBVIOUS
<1>8. Len(x) \in Nat
  BY <1>6, <1>7, SoundIs
<1>9. q \in Indices /\ Once(q) /\ Range(q) = 1 .. Len(x)
  <2>1. q \in Seq(Nat) /\ Len(q) = Len(x) /\ \A i \in 1 .. Len(q) : q[i] = i
    BY <1>7, <1>8
  <2>2. DOMAIN q = 1 .. Len(q)
    BY <2>1
  <2> QED
    BY <2>1, <2>2 DEF Indices, Once, Range
<1>10. Live(b, 0, {}) = 1 .. Len(x)
  BY <1>6, <1>7 DEF Live
<1>11. Sound(Followed(x), Len(x), Range(q))
  BY <1>6, <1>7, <1>9, <1>10, Settled
<1>12. Sound(Followed(x), Len(x), Range(q))'
  BY <1>5, <1>11, SoundOn
<1> QED
  BY <1>1, <1>5, <1>7, <1>9, <1>12 DEF MatchInv, Followed

LEMMA MatchGoesOn ==
    ASSUME TreeInv, MatchInv, MatchChar
    PROVE  MatchInv'
<1>1. /\ rm_pc = "match" /\ key_pos < Len(input) /\ key_pos \in Nat
      /\ input \in Seq(Int \ {Wild}) /\ match \in Indices /\ Once(match)
      /\ Sound(Followed(states), Len(states), Range(match))
      /\ key_pos' = key_pos + 1 /\ nodes' = nodes /\ input' = input
  BY DEF MatchChar, MatchInv, rm_tree
<1>2. PICK c : c = input[key_pos + 1]
  OBVIOUS
<1>3. c # Wild
  <2>1. key_pos + 1 \in 1 .. Len(input)
    BY <1>1
  <2>2. c \in Int \ {Wild}
    BY <1>1, <1>2, <2>1
  <2> QED
    BY <2>2
<1>4. PICK n : n = Len(match)
  OBVIOUS
<1>5. n \in Nat /\ key_pos \in Int
  BY <1>1, <1>4 DEF Indices
<1>6. PICK g : Meets(states, match, c, key_pos, g, n)
  BY <1>5, MeetsFar
<1> DEFINE Is(f) == f = [k \in 0 .. Len(match) |->
                           IF k = 0 THEN [NothingYet EXCEPT !.st = states]
                           ELSE MatchState(f[k - 1], match[k], input[key_pos + 1], key_pos)]
<1>7. Is(g)
  <2>1. \A k \in 0 .. n : g[k] = IF k = 0 THEN Followed(states)
                                 ELSE MatchState(g[k - 1], match[k], c, key_pos)
    <3> TAKE k \in 0 .. n
    <3>1. k = 0 \/ k \in 1 .. n
      BY <1>5
    <3>2. k \in 1 .. n => k # 0
      BY <1>5
    <3> QED
      BY <1>6, <3>1, <3>2 DEF Meets
  <2>2. g = [k \in 0 .. n |-> g[k]]
    BY <1>6 DEF Meets
  <2>3. [k \in 0 .. n |-> g[k]] =
        [k \in 0 .. n |-> IF k = 0 THEN Followed(states) ELSE MatchState(g[k - 1], match[k], c, key_pos)]
    BY <2>1, Zenon
  <2>4. g = [k \in 0 .. n |-> IF k = 0 THEN Followed(states)
                              ELSE MatchState(g[k - 1], match[k], c, key_pos)]
    BY <2>2, <2>3, Zenon
  <2> QED
    BY <1>2, <1>4, <2>4, Zenon DEF Followed
<1>8. PICK f : f = CHOOSE h : Is(h)
  OBVIOUS
<1>9. Is(f)
  <2> HIDE DEF Is
  <2> QED
    BY <1>7, <1>8, Zenon
<1>10. states' = f[n].st /\ match' = Kept(match \o f[n].add, f[n].remove)
  BY <1>4, <1>8 DEF MatchChar
<1>11. Meets(states, match, c, key_pos, f, n)
  <2>1. f = [k \in 0 .. n |-> IF k = 0 THEN Followed(states)
                              ELSE MatchState(f[k - 1], match[k], c, key_pos)]
    BY <1>2, <1>4, <1>9, Zenon DEF Followed
  <2> HIDE DEF Is
  <2>2. \A k \in 0 .. n : f[k] = IF k = 0 THEN Followed(states)
                                 ELSE MatchState(f[k - 1], match[k], c, key_pos)
    BY <2>1
  <2>3. f = [k \in 0 .. n |-> f[k]]
    BY <2>1
  <2>4. f[0] = Followed(states) /\ \A k \in 1 .. n : f[k] = MatchState(f[k - 1], match[k], c, key_pos)
    <3>1. 0 \in 0 .. n /\ \A k \in 1 .. n : k \in 0 .. n /\ k # 0
      BY <1>5
    <3> QED
      BY <2>2, <3>1
  <2> QED
    BY <2>3, <2>4 DEF Meets
<1> HIDE DEF Is
<1>12. Sound(f[n], Len(states), Range(match))
  BY <1>1, <1>3, <1>4, <1>5, <1>11, AllMet
<1>13. PICK a, q : a = f[n] /\ q = match'
  OBVIOUS
<1>14. PICK x : x = a.st
  OBVIOUS
<1>15. q \in Indices /\ Once(q) /\ Sound(Followed(x), Len(x), Range(q))
  BY <1>1, <1>10, <1>12, <1>13, <1>14, ListLeft
<1>16. Sound(Followed(x), Len(x), Range(q))'
  BY <1>1, <1>15, SoundOn
<1> QED
  BY <1>1, <1>10, <1>13, <1>14, <1>15, <1>16 DEF MatchInv, Followed

\* After every step the states of a match are sound.
LEMMA MatchNext ==
    ASSUME MataInv, MatchInv, [RmNext]_rm_vars
    PROVE  MatchInv'
<1>1. TreeInv
  BY DEF MataInv
<1>2. ASSUME Matafy PROVE MatchInv'
  BY <1>2 DEF Matafy, MatchInv
<1>3. ASSUME MatafyDone PROVE MatchInv'
  BY <1>3 DEF MatafyDone, MatchInv
<1>4. ASSUME MatchChar PROVE MatchInv'
  BY <1>1, <1>4, MatchGoesOn
<1>5. ASSUME MatchEnd PROVE MatchInv'
  BY <1>5 DEF MatchEnd, MatchInv
<1>6. ASSUME RunOut PROVE MatchInv'
  BY <1>6 DEF RunOut, MatchInv
<1>7. ASSUME NEW s \in Inputs, StartMatch(s) PROVE MatchInv'
  BY <1>1, <1>7, MatchStarts
<1>8. ASSUME UNCHANGED rm_vars PROVE MatchInv'
  <2>1. /\ rm_pc' = rm_pc /\ key_pos' = key_pos /\ input' = input /\ match' = match /\ states' = states
        /\ nodes' = nodes
    BY <1>8 DEF rm_vars
  <2>2. CASE rm_pc # "match"
    BY <2>1, <2>2 DEF MatchInv
  <2>3. CASE rm_pc = "match"
    <3>1. PICK a, m, B : a = Followed(states) /\ m = Len(states) /\ B = Range(match)
      OBVIOUS
    <3>2. Sound(a, m, B)'
      BY <2>1, <2>3, <3>1, SoundOn DEF MatchInv
    <3> QED
      BY <2>1, <2>3, <3>1, <3>2 DEF MatchInv, Followed
  <2> QED
    BY <2>2, <2>3
<1> QED
  BY <1>2, <1>3, <1>4, <1>5, <1>6, <1>7, <1>8 DEF RmNext

LEMMA CountsAre ==
    ASSUME MatchInv
    PROVE  CountsChildren
<1> SUFFICES ASSUME rm_pc = "match", NEW i \in DOMAIN states, Wildcard(states[i])
             PROVE  states[i].nr_child_states =
                      Cardinality({j \in Range(match) : ~Wildcard(states[j]) /\ AboveOf(states, j) = i})
  BY DEF CountsChildren
<1>1. PICK a, m, B : a = Followed(states) /\ m = Len(states) /\ B = Range(match)
  OBVIOUS
<1>2. Sound(a, m, B)
  BY <1>1 DEF MatchInv
<1>3. a.st = states /\ a.remove = {}
  BY <1>1 DEF Followed, NothingYet
<1>4. /\ states \in Seq(StateSet) /\ m \in Nat /\ B \subseteq 1 .. m /\ Shaped(states)
      /\ Counted(a, m, B)
  BY <1>2, <1>3, SoundIs DEF Sound
<1>5. Live(a, m, B) = B
  <2>1. m + 1 .. m = {}
    BY <1>4
  <2> QED
    BY <1>1, <1>3, <2>1 DEF Live
<1>6. \A j \in B : ~Wildcard(states[j]) => AboveOf(states, j) = states[j].parent
  BY <1>1, <1>4, AboveIs
<1>7. Young(a, m, B, i) = {j \in B : ~Wildcard(states[j]) /\ AboveOf(states, j) = i}
  BY <1>3, <1>5, <1>6 DEF Young
<1>8. i \in 1 .. Len(states)
  BY <1>4
<1> QED
  BY <1>1, <1>3, <1>4, <1>7, <1>8 DEF Counted

\* In every match, for every finite set of rules and every input, the count by
\* which rm_match_state drops a wildcard is the number of states followed under
\* it: CountsChildren.
THEOREM CountsChildrenHolds == RmSpec => []CountsChildren
<1>1. RmInit => MataInv /\ MatchInv
  BY InitMata DEF RmInit, MatchInv
<1>2. MataInv /\ MatchInv /\ [RmNext]_rm_vars => (MataInv /\ MatchInv)'
  BY MataNext, MatchNext
<1>3. MataInv /\ MatchInv => CountsChildren
  BY CountsAre
<1> QED
  BY <1>1, <1>2, <1>3, PTL DEF RmSpec
=============================================================================
