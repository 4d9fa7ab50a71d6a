-------------------------- MODULE RadixTree_proofs --------------------------
(***************************************************************************)
(* The radix tree, for every finite set of keys over its letters and any   *)
(* number of split nodes: between two calls the fields of the nodes        *)
(* represent a tree of words (RepIn, Trie), those of the held keys among   *)
(* them; each insertion, removal and release makes such a tree of such a   *)
(* tree, and lends or takes back the blocks that it should.                *)
(*                                                                         *)
(* In order: trees of words; the fields, and what each operator of the     *)
(* code does to them; a search; the tree of the held keys; the steps on    *)
(* trees of words that the code takes; each insertion and removal; the     *)
(* pools; rt_free_all; the invariant; the answers; the theorems.           *)
(***************************************************************************)
EXTENDS RadixTree, FiniteSetTheorems, SequenceTheorems, WellFoundedInduction, TLAPS

LEMMA LeastOf ==
    ASSUME NEW T \in SUBSET Nat, T # {}
    PROVE  \E a \in T : \A b \in T : a <= b
<1> DEFINE R == OpToRel(<, Nat)
<1>1. \A a, b \in Nat : a < b => <<a, b>> \in R
  BY DEF OpToRel
<1>2. \E a \in T : \A b \in T : ~(<<b, a>> \in R)
  <2>1. IsWellFoundedOn(R, Nat)
    BY NatLessThanWellFounded
  <2> HIDE DEF R
  <2> QED
    BY <2>1, WFMin
<1> HIDE DEF R
<1>3. PICK a \in T : \A b \in T : ~(<<b, a>> \in R)
  BY <1>2, Zenon
<1>4. \A b \in T : ~(b < a)
  BY <1>1, <1>3, Zenon
<1> QED
  BY <1>4

\* Of the members of a set one has the least measure, of a finite one one has
\* the greatest.
LEMMA Lowest ==
    ASSUME NEW S, S # {}, NEW f, \A x \in S : f[x] \in Nat
    PROVE  \E x \in S : \A y \in S : f[x] <= f[y]
<1> DEFINE T == {f[x] : x \in S}
<1>1. T \in SUBSET Nat /\ T # {}
  OBVIOUS
<1>2. PICK a \in T : \A b \in T : a <= b
  BY <1>1, LeastOf
<1> QED
  BY <1>2

LEMMA Highest ==
    ASSUME NEW S, S # {}, IsFiniteSet(S), NEW f, \A x \in S : f[x] \in Nat
    PROVE  \E x \in S : \A y \in S : f[y] <= f[x]
<1> DEFINE Over(x) == {y \in S : f[y] > f[x]}
           g == [x \in S |-> Cardinality(Over(x))]
<1>1. \A x \in S : IsFiniteSet(Over(x)) /\ Cardinality(Over(x)) \in Nat
  <2> TAKE x \in S
  <2>1. Over(x) \in SUBSET S
    OBVIOUS
  <2> QED
    BY <2>1, FS_Subset, FS_CardinalityType
<1>2. PICK x \in S : \A y \in S : Cardinality(Over(x)) <= Cardinality(Over(y))
  <2>1. \A x \in S : g[x] \in Nat /\ g[x] = Cardinality(Over(x))
    BY <1>1
  <2> HIDE DEF g, Over
  <2>2. \E x \in S : \A y \in S : g[x] <= g[y]
    BY <2>1, Lowest
  <2> QED
    BY <2>1, <2>2
<1>3. ASSUME NEW y \in S, f[y] > f[x]
      PROVE  FALSE
  <2>1. Over(y) \in SUBSET Over(x) /\ Over(y) # Over(x)
    <3>1. y \in Over(x) /\ y \notin Over(y)
      BY <1>3
    <3>2. Over(y) \in SUBSET Over(x)
      BY <1>3
    <3> QED
      BY <3>1, <3>2
  <2> HIDE DEF Over
  <2>2. Cardinality(Over(y)) <= Cardinality(Over(x)) /\ Cardinality(Over(y)) # Cardinality(Over(x))
    BY <1>1, <2>1, FS_Subset
  <2> QED
    BY <1>1, <1>2, <2>2
<1> QED
  BY <1>3
-----------------------------------------------------------------------------
\* Words: one is the beginning of another.
Word == Seq(1 .. 3)
Pre(u, v) == Len(u) <= Len(v) /\ \A j \in 1 .. Len(u) : u[j] = v[j]

LEMMA WordIs ==
    ASSUME NEW u \in Word
    PROVE  /\ Len(u) \in Nat /\ DOMAIN u = 1 .. Len(u) /\ \A j \in 1 .. Len(u) : u[j] \in 1 .. 3
           /\ u = <<>> <=> Len(u) = 0
BY DEF Word

LEMMA WordEqual ==
    ASSUME NEW u \in Word, NEW v \in Word, Pre(u, v), Len(v) <= Len(u)
    PROVE  u = v
BY SeqEqual DEF Word, Pre

LEMMA PreIs ==
    ASSUME NEW u \in Word, NEW v \in Word
    PROVE  IsPrefix(u, v) <=> Pre(u, v)
<1>1. ASSUME Len(u) <= Len(v)
      PROVE  SubSeq(u, 1, Len(u)) = SubSeq(v, 1, Len(u)) <=> Pre(u, v)
  <2>1. SubSeq(u, 1, Len(u)) = u
    BY SubSeqFull DEF Word
  <2>2. /\ SubSeq(v, 1, Len(u)) \in Word /\ Len(SubSeq(v, 1, Len(u))) = Len(u)
        /\ \A j \in 1 .. Len(u) : SubSeq(v, 1, Len(u))[j] = v[j]
    <3>1. \A j \in 1 .. Len(u) : v[j] \in 1 .. 3
      BY <1>1 DEF Word
    <3>2. Len(u) \in Nat
      BY DEF Word
    <3> QED
      BY <3>1, <3>2, SubSeqProperties DEF Word
  <2> QED
    BY <1>1, <2>1, <2>2, SeqEqual DEF Pre, Word
<1> QED
  BY <1>1 DEF IsPrefix, Pre

LEMMA CutIs ==
    ASSUME NEW v \in Word, NEW l \in 0 .. Len(v)
    PROVE  /\ SubSeq(v, 1, l) \in Word /\ Len(SubSeq(v, 1, l)) = l
           /\ \A j \in 1 .. l : SubSeq(v, 1, l)[j] = v[j]
           /\ Pre(SubSeq(v, 1, l), v)
<1>1. \A j \in 1 .. l : v[j] \in 1 .. 3
  BY DEF Word
<1>2. l \in Nat /\ l <= Len(v)
  BY DEF Word
<1> QED
  BY <1>1, <1>2, SubSeqProperties DEF Word, Pre

LEMMA PreTrans ==
    ASSUME NEW u \in Word, NEW v \in Word, NEW w \in Word, Pre(u, v), Pre(v, w)
    PROVE  Pre(u, w)
BY WordIs DEF Pre

LEMMA PreBoth ==
    ASSUME NEW u \in Word, NEW v \in Word, NEW w \in Word, Pre(u, w), Pre(v, w),
           Len(u) <= Len(v)
    PROVE  Pre(u, v)
BY WordIs DEF Pre
-----------------------------------------------------------------------------
(***************************************************************************)
(* A tree of words: nodes P with the root r, their parents and their       *)
(* words.  A word begins with the parent's, and siblings part right there. *)
(***************************************************************************)
Trie(P, r, up, W) ==
    /\ IsFiniteSet(P) /\ NULL \notin P
    /\ \A n \in P : W[n] \in Word
    /\ P # {} => r \in P /\ up[r] = NULL
    /\ \A n \in P \ {r} : up[n] \in P /\ Pre(W[up[n]], W[n]) /\ Len(W[up[n]]) < Len(W[n])
    /\ \A n, m \in P \ {r} : n # m /\ up[n] = up[m] =>
          W[n][Len(W[up[n]]) + 1] # W[m][Len(W[up[n]]) + 1]

\* The root's word begins every word.
LEMMA RootFirst ==
    ASSUME NEW P, NEW r, NEW up, NEW W, Trie(P, r, up, W), NEW n \in P
    PROVE  /\ Pre(W[r], W[n]) /\ Len(W[r]) <= Len(W[n])
           /\ n # r => Len(W[r]) < Len(W[n])
<1>1. r \in P /\ \A m \in P : W[m] \in Word /\ Len(W[m]) \in Nat
  BY WordIs DEF Trie
<1> DEFINE f == [m \in P |-> Len(W[m])]
           S == {m \in P : ~Pre(W[r], W[m])}
<1>2. \A m \in P : Pre(W[r], W[m])
  <2> SUFFICES ASSUME S # {} PROVE FALSE
    OBVIOUS
  <2>1. \A m \in S : f[m] \in Nat /\ f[m] = Len(W[m])
    BY <1>1
  <2>2. PICK m \in S : \A k \in S : f[m] <= f[k]
    <3> HIDE DEF S, f
    <3> QED
      BY <2>1, Lowest
  <2>3. m # r
    BY <1>1, WordIs DEF Pre
  <2>4. up[m] \in P /\ Pre(W[up[m]], W[m]) /\ Len(W[up[m]]) < Len(W[m])
    BY <2>3 DEF Trie
  <2>5. Pre(W[r], W[up[m]])
    BY <1>1, <2>1, <2>2, <2>4
  <2> QED
    BY <1>1, <2>4, <2>5, PreTrans
<1>3. \A m \in P : Len(W[r]) <= Len(W[m])
  BY <1>2 DEF Pre
<1>4. ASSUME n # r PROVE Len(W[r]) < Len(W[n])
  <2>1. up[n] \in P /\ Len(W[up[n]]) < Len(W[n])
    BY <1>4 DEF Trie
  <2> QED
    BY <1>1, <1>3, <2>1
<1> QED
  BY <1>2, <1>3, <1>4

\* The nodes whose words begin one word lie on one way: at the length of one of
\* them, or between its length and its parent's, there is no other.
LEMMA OneWay ==
    ASSUME NEW P, NEW r, NEW up, NEW W, Trie(P, r, up, W), NEW q \in Word,
           NEW x \in P, NEW y \in P, Pre(W[x], q), Pre(W[y], q),
           Len(W[y]) <= Len(W[x]), x # r => Len(W[up[x]]) < Len(W[y])
    PROVE  x = y
<1> DEFINE T == {n \in P : Pre(W[n], q)}
           Bad(a, b) == /\ a # b /\ Len(W[b]) <= Len(W[a])
                        /\ a # r => Len(W[up[a]]) < Len(W[b])
           S == {e \in T \X T : Bad(e[1], e[2])}
           f == [e \in S |-> Len(W[e[1]]) + Len(W[e[2]])]
<1> SUFFICES ASSUME x # y PROVE FALSE
  OBVIOUS
<1>1. \A n \in P : W[n] \in Word /\ Len(W[n]) \in Nat
  BY WordIs DEF Trie
<1>2. <<x, y>> \in S
  OBVIOUS
<1>3. \A e \in S : f[e] \in Nat /\ f[e] = Len(W[e[1]]) + Len(W[e[2]])
  <2> TAKE e \in S
  <2>1. e[1] \in P /\ e[2] \in P
    OBVIOUS
  <2>2. f[e] = Len(W[e[1]]) + Len(W[e[2]])
    OBVIOUS
  <2>3. \A i, j \in Nat : i + j \in Nat
    OBVIOUS
  <2> QED
    BY <1>1, <2>1, <2>2, <2>3, Zenon
<1>4. PICK e \in S : \A g \in S : f[e] <= f[g]
  <2> HIDE DEF S, f
  <2> QED
    BY <1>2, <1>3, Lowest
<1>5. PICK a \in T, b \in T : e = <<a, b>>
  OBVIOUS
<1>6. Bad(a, b)
  BY <1>4, <1>5
<1>7. ASSUME NEW c \in T, NEW g \in T, Bad(c, g)
      PROVE  Len(W[a]) + Len(W[b]) <= Len(W[c]) + Len(W[g])
  <2>1. <<c, g>> \in S
    BY <1>7
  <2>2. f[e] <= f[<<c, g>>]
    BY <1>4, <2>1
  <2>3. f[e] = Len(W[a]) + Len(W[b])
    BY <1>3, <1>5
  <2>4. f[<<c, g>>] = Len(W[c]) + Len(W[g])
    BY <1>3, <2>1
  <2> QED
    BY <2>2, <2>3, <2>4
<1> HIDE DEF S, f
<1>8. a \in P /\ b \in P /\ Pre(W[a], q) /\ Pre(W[b], q)
  OBVIOUS
<1>9. a # r /\ b # r
  <2>1. b # r
    <3> SUFFICES ASSUME b = r PROVE FALSE
      OBVIOUS
    <3>1. a # r
      BY <1>6
    <3>2. up[a] \in P /\ Len(W[up[a]]) < Len(W[b])
      BY <1>6, <1>8, <3>1 DEF Trie
    <3> QED
      BY <1>1, <1>8, <3>2, RootFirst
  <2>2. a # r
    BY <1>1, <1>6, <1>8, <2>1, RootFirst
  <2> QED
    BY <2>1, <2>2
<1>10. PICK u, v : u = up[a] /\ v = up[b]
  OBVIOUS
<1>11. /\ u \in P /\ Pre(W[u], W[a]) /\ Len(W[u]) < Len(W[a])
       /\ v \in P /\ Pre(W[v], W[b]) /\ Len(W[v]) < Len(W[b])
  BY <1>8, <1>9, <1>10 DEF Trie
<1>12. u \in T /\ v \in T
  BY <1>1, <1>8, <1>11, PreTrans
<1>13. /\ Len(W[u]) \in Nat /\ Len(W[v]) \in Nat /\ Len(W[a]) \in Nat /\ Len(W[b]) \in Nat
       /\ Len(W[b]) <= Len(W[a]) /\ Len(W[u]) < Len(W[b])
  BY <1>1, <1>6, <1>8, <1>9, <1>10, <1>11
<1>14. u # v
  <2> SUFFICES ASSUME u = v PROVE FALSE
    OBVIOUS
  <2>1. W[a][Len(W[u]) + 1] # W[b][Len(W[u]) + 1]
    BY <1>6, <1>8, <1>9, <1>10 DEF Trie
  <2>2. Len(W[u]) + 1 \in 1 .. Len(W[a]) /\ Len(W[u]) + 1 \in 1 .. Len(W[b])
    <3>1. \A i, j, k \in Nat : k <= j /\ i < k => i + 1 \in 1 .. j /\ i + 1 \in 1 .. k
      OBVIOUS
    <3> QED
      BY <1>13, <3>1, Zenon
  <2> QED
    BY <1>8, <2>1, <2>2 DEF Pre
<1>15. CASE Len(W[v]) < Len(W[u])
  <2>1. Bad(b, u)
    <3>1. b # u
      BY <1>13
    <3> QED
      BY <1>10, <1>13, <1>15, <3>1
  <2>2. Len(W[a]) + Len(W[b]) <= Len(W[b]) + Len(W[u])
    BY <1>7, <1>12, <2>1
  <2> QED
    BY <1>13, <2>2
<1>16. CASE Len(W[u]) < Len(W[v])
  <2>1. Bad(a, v)
    <3>1. a # v
      BY <1>11, <1>13
    <3> QED
      BY <1>10, <1>11, <1>13, <1>16, <3>1
  <2>2. Len(W[a]) + Len(W[b]) <= Len(W[a]) + Len(W[v])
    BY <1>7, <1>12, <2>1
  <2>3. \A i, j, k \in Nat : i + j <= i + k => ~(k < j)
    OBVIOUS
  <2> QED
    BY <1>11, <1>13, <2>2, <2>3, Zenon
<1>17. CASE Len(W[u]) = Len(W[v])
  <2>1. Bad(u, v)
    <3>1. ASSUME u # r PROVE Len(W[up[u]]) < Len(W[v])
      BY <1>11, <1>17, <3>1 DEF Trie
    <3> QED
      BY <1>13, <1>14, <1>17, <3>1
  <2>2. Len(W[a]) + Len(W[b]) <= Len(W[u]) + Len(W[v])
    BY <1>7, <1>12, <2>1
  <2>3. \A i, j, k, l \in Nat : i < k /\ j < l => ~(k + l <= i + j)
    OBVIOUS
  <2> QED
    BY <1>11, <1>13, <2>2, <2>3, Zenon
<1> QED
  BY <1>13, <1>15, <1>16, <1>17

\* Below a node whose word begins that of another there is a child on the way.
LEMMA OnTheWay ==
    ASSUME NEW P, NEW r, NEW up, NEW W, Trie(P, r, up, W), NEW p \in P, NEW m \in P,
           Pre(W[p], W[m]), p # m
    PROVE  \E c \in P \ {r} : up[c] = p /\ Pre(W[c], W[m])
<1> DEFINE S == {x \in P : Pre(W[x], W[m]) /\ Len(W[p]) < Len(W[x])}
           f == [x \in S |-> Len(W[x])]
<1>1. \A n \in P : W[n] \in Word /\ Len(W[n]) \in Nat
  BY WordIs DEF Trie
<1>2. m \in S
  <2>1. Pre(W[m], W[m])
    BY <1>1 DEF Pre
  <2>2. Len(W[p]) <= Len(W[m])
    BY DEF Pre
  <2>3. Len(W[p]) # Len(W[m])
    <3> SUFFICES ASSUME Len(W[p]) = Len(W[m]) PROVE FALSE
      OBVIOUS
    <3>1. p # r => Len(W[up[p]]) < Len(W[m])
      BY DEF Trie
    <3>2. p = m
      BY <1>1, <2>1, <3>1, OneWay
    <3> QED
      BY <3>2
  <2> QED
    BY <1>1, <2>1, <2>2, <2>3
<1>3. \A x \in S : f[x] \in Nat /\ f[x] = Len(W[x])
  BY <1>1
<1>4. PICK c \in S : \A x \in S : f[c] <= f[x]
  <2> HIDE DEF S, f
  <2> QED
    BY <1>2, <1>3, Lowest
<1>5. c \in P /\ Pre(W[c], W[m]) /\ Len(W[p]) < Len(W[c]) /\ \A x \in S : Len(W[c]) <= Len(W[x])
  BY <1>3, <1>4
<1>6. c # r
  BY <1>1, <1>5, RootFirst
<1>7. up[c] \in P /\ Pre(W[up[c]], W[c]) /\ Len(W[up[c]]) < Len(W[c])
  BY <1>5, <1>6 DEF Trie
<1>8. Pre(W[up[c]], W[m])
  BY <1>1, <1>5, <1>7, PreTrans
<1>9. Len(W[up[c]]) <= Len(W[p])
  <2>1. up[c] \notin S
    BY <1>1, <1>5, <1>7
  <2> QED
    BY <1>1, <1>7, <1>8, <2>1
<1>10. up[c] = p
  <2>1. ~(Len(W[up[c]]) < Len(W[p]))
    <3> SUFFICES ASSUME Len(W[up[c]]) < Len(W[p]) PROVE FALSE
      OBVIOUS
    <3>1. Len(W[p]) <= Len(W[c])
      BY <1>1, <1>5
    <3>2. c = p
      BY <1>1, <1>5, <3>1, OneWay
    <3> QED
      BY <1>1, <1>5, <3>2
  <2>2. Len(W[up[c]]) = Len(W[p])
    BY <1>1, <1>7, <1>9, <2>1
  <2>3. up[c] # r => Len(W[up[up[c]]]) < Len(W[p])
    BY <1>7, <2>2 DEF Trie
  <2>4. Len(W[p]) <= Len(W[up[c]])
    BY <1>1, <1>7, <2>2
  <2> QED
    BY <1>1, <1>7, <1>8, <2>3, <2>4, OneWay
<1> QED
  BY <1>5, <1>6, <1>10

-----------------------------------------------------------------------------
\* What the code does to the tree of words: a leaf is hung on or taken off, a
\* node comes between another and its parent or leaves that place, and a node
\* takes the place of another.
LEMMA TrieLeaf ==
    ASSUME NEW P, NEW r, NEW up, NEW W, Trie(P, r, up, W), NEW p \in P,
           NEW k, k \notin P, k # NULL, NEW w \in Word, Pre(W[p], w), Len(W[p]) < Len(w),
           \A c \in P \ {r} : up[c] = p => W[c][Len(W[p]) + 1] # w[Len(W[p]) + 1],
           NEW up2, NEW W2, \A n \in P : up2[n] = up[n] /\ W2[n] = W[n],
           up2[k] = p, W2[k] = w
    PROVE  Trie(P \cup {k}, r, up2, W2)
<1>1. IsFiniteSet(P \cup {k}) /\ r \in P /\ r # k
  BY FS_AddElement DEF Trie
<1>2. \A n \in P \ {r} : up[n] \in P
  BY DEF Trie
<1>3. ASSUME NEW n \in (P \cup {k}) \ {r}
      PROVE  /\ up2[n] \in P \cup {k} /\ Pre(W2[up2[n]], W2[n])
             /\ Len(W2[up2[n]]) < Len(W2[n])
  BY <1>1, <1>2 DEF Trie
<1>4. ASSUME NEW n \in (P \cup {k}) \ {r}, NEW m \in (P \cup {k}) \ {r}, n # m, up2[n] = up2[m]
      PROVE  W2[n][Len(W2[up2[n]]) + 1] # W2[m][Len(W2[up2[n]]) + 1]
  <2>1. CASE n # k /\ m # k
    <3>1. n \in P \ {r} /\ m \in P \ {r} /\ up[n] = up[m] /\ up[n] \in P
         /\ up2[n] = up[n] /\ W2[n] = W[n] /\ W2[m] = W[m] /\ W2[up[n]] = W[up[n]]
      BY <1>2, <1>4, <2>1
    <3>2. W[n][Len(W[up[n]]) + 1] # W[m][Len(W[up[n]]) + 1]
      BY <3>1, <1>4 DEF Trie
    <3> QED
      BY <3>1, <3>2
  <2>2. CASE n = k
    BY <1>2, <1>4, <2>2
  <2>3. CASE m = k
    BY <1>2, <1>4, <2>3
  <2> QED
    BY <2>1, <2>2, <2>3
<1> QED
  BY <1>1, <1>3, <1>4 DEF Trie

CutsOff(P, r, up, W, n, m, w, up2, W2) ==
    /\ n \in P /\ m \notin P /\ m # NULL /\ w \in Word /\ Pre(w, W[n]) /\ Len(w) < Len(W[n])
    /\ n # r => Len(W[up[n]]) < Len(w)
    /\ \A x \in P : W2[x] = W[x] /\ (x # n => up2[x] = up[x])
    /\ up2[n] = m /\ up2[m] = up[n] /\ W2[m] = w

LEMMA TrieCut ==
    ASSUME NEW P, NEW r, NEW up, NEW W, Trie(P, r, up, W), NEW n, NEW m, NEW w, NEW up2, NEW W2,
           CutsOff(P, r, up, W, n, m, w, up2, W2)
    PROVE  Trie(P \cup {m}, IF n = r THEN m ELSE r, up2, W2)
<1>0. /\ n \in P /\ m \notin P /\ m # NULL /\ w \in Word /\ Pre(w, W[n]) /\ Len(w) < Len(W[n])
      /\ n # r => Len(W[up[n]]) < Len(w)
      /\ \A x \in P : W2[x] = W[x] /\ (x # n => up2[x] = up[x])
      /\ up2[n] = m /\ up2[m] = up[n] /\ W2[m] = w
  BY DEF CutsOff
<1> USE <1>0
<1>1. PICK r2 : r2 = IF n = r THEN m ELSE r
  OBVIOUS
<1>2. IsFiniteSet(P \cup {m}) /\ r \in P /\ NULL \notin P \cup {m}
  BY FS_AddElement DEF Trie
<1>3. \A x \in P \ {r} : up[x] \in P /\ up[x] # m /\ Pre(W[up[x]], W[x]) /\ Len(W[up[x]]) < Len(W[x])
  BY DEF Trie
<1>4. \A x \in P : W[x] \in Word /\ Len(W[x]) \in Nat
  BY WordIs DEF Trie
<1>5. Len(w) \in Nat
  BY WordIs
<1>6. n # r => Pre(W[up[n]], w) /\ W[n][Len(W[up[n]]) + 1] = w[Len(W[up[n]]) + 1]
  <2> SUFFICES ASSUME n # r
               PROVE  Pre(W[up[n]], w) /\ W[n][Len(W[up[n]]) + 1] = w[Len(W[up[n]]) + 1]
    OBVIOUS
  <2>1. up[n] \in P /\ Pre(W[up[n]], W[n]) /\ Len(W[up[n]]) < Len(w) /\ Len(W[up[n]]) \in Nat
    BY <1>3, <1>4
  <2>2. Pre(W[up[n]], w)
    BY <1>4, <1>5, <2>1, PreBoth
  <2>3. Len(W[up[n]]) + 1 \in 1 .. Len(w)
    BY <1>5, <2>1
  <2> QED
    BY <2>2, <2>3 DEF Pre
<1>7. r2 \in P \cup {m} /\ up2[r2] = NULL
  BY <1>1, <1>2 DEF Trie
<1>8. ASSUME NEW x \in (P \cup {m}) \ {r2}
      PROVE  up2[x] \in P \cup {m} /\ Pre(W2[up2[x]], W2[x]) /\ Len(W2[up2[x]]) < Len(W2[x])
  <2>1. CASE x = n
    BY <2>1
  <2>2. CASE x = m
    <3>1. n # r
      BY <1>1, <1>8, <2>2
    <3> QED
      BY <1>3, <1>6, <2>2, <3>1
  <2>3. CASE x # n /\ x # m
    <3>1. x \in P \ {r}
      BY <1>1, <1>8, <2>3
    <3> QED
      BY <1>3, <2>3, <3>1
  <2> QED
    BY <2>1, <2>2, <2>3
<1>9. ASSUME NEW x \in (P \cup {m}) \ {r2}, NEW y \in (P \cup {m}) \ {r2}, x # y, up2[x] = up2[y]
      PROVE  W2[x][Len(W2[up2[x]]) + 1] # W2[y][Len(W2[up2[x]]) + 1]
  <2>1. \A e \in (P \cup {m}) \ {r2} : e # n /\ e # m => e \in P \ {r} /\ up2[e] = up[e] /\ up[e] \in P
    BY <1>1, <1>3
  <2>2. x # n /\ y # n
    <3>1. m \in (P \cup {m}) \ {r2} => up2[m] # m
      BY <1>1, <1>3
    <3> QED
      BY <1>9, <2>1, <3>1
  <2>3. CASE x # m /\ y # m
    <3>1. x \in P \ {r} /\ y \in P \ {r} /\ up[x] = up[y] /\ up[x] \in P
         /\ up2[x] = up[x] /\ W2[x] = W[x] /\ W2[y] = W[y] /\ W2[up[x]] = W[up[x]]
      BY <1>3, <1>9, <2>1, <2>2, <2>3
    <3>2. W[x][Len(W[up[x]]) + 1] # W[y][Len(W[up[x]]) + 1]
      BY <3>1, <1>9 DEF Trie
    <3> QED
      BY <3>1, <3>2
  <2>4. ASSUME NEW e \in (P \cup {m}) \ {r2}, e # m, e # n, m # r2, up2[e] = up[n]
        PROVE  w[Len(W[up[n]]) + 1] # W[e][Len(W[up[n]]) + 1] /\ up[n] \in P
    <3>1. n # r /\ e \in P \ {r} /\ up[e] = up[n] /\ up[n] \in P
      BY <1>1, <1>3, <2>1, <2>4
    <3>2. W[n][Len(W[up[n]]) + 1] # W[e][Len(W[up[n]]) + 1]
      BY <2>4, <3>1 DEF Trie
    <3> QED
      BY <1>6, <3>1, <3>2
  <2>5. CASE x = m
    <3>1. up2[y] = up[n] /\ y # m
      BY <1>9, <2>5
    <3>2. w[Len(W[up[n]]) + 1] # W[y][Len(W[up[n]]) + 1] /\ up[n] \in P
      BY <1>9, <2>2, <2>4, <2>5, <3>1
    <3> QED
      BY <1>9, <2>2, <2>5, <3>1, <3>2
  <2>6. CASE y = m
    <3>1. up2[x] = up[n] /\ x # m
      BY <1>9, <2>6
    <3>2. w[Len(W[up[n]]) + 1] # W[x][Len(W[up[n]]) + 1] /\ up[n] \in P
      BY <1>9, <2>2, <2>4, <2>6, <3>1
    <3> QED
      BY <1>9, <2>2, <2>6, <3>1, <3>2
  <2> QED
    BY <2>3, <2>5, <2>6
<1>10. \A x \in P \cup {m} : W2[x] \in Word
  BY <1>4
<1>11. Trie(P \cup {m}, r2, up2, W2)
  BY <1>2, <1>7, <1>8, <1>9, <1>10 DEF Trie
<1> QED
  BY <1>1, <1>11

LEMMA TrieDrop ==
    ASSUME NEW P, NEW r, NEW up, NEW W, Trie(P, r, up, W), NEW n \in P \ {r},
           \A x \in P \ {r} : up[x] # n,
           NEW up2, NEW W2, \A x \in P \ {n} : up2[x] = up[x] /\ W2[x] = W[x]
    PROVE  Trie(P \ {n}, r, up2, W2)
<1>1. IsFiniteSet(P \ {n})
  BY FS_RemoveElement DEF Trie
<1>2. \A x \in (P \ {n}) \ {r} : up2[x] = up[x] /\ up[x] \in P \ {n}
  BY DEF Trie
<1>3. r \in P \ {n} /\ up2[r] = NULL
  BY DEF Trie
<1>4. \A x \in (P \ {n}) \ {r} : Pre(W2[up2[x]], W2[x]) /\ Len(W2[up2[x]]) < Len(W2[x])
  BY <1>2 DEF Trie
<1>5. ASSUME NEW x \in (P \ {n}) \ {r}, NEW y \in (P \ {n}) \ {r}, x # y, up2[x] = up2[y]
      PROVE  W2[x][Len(W2[up2[x]]) + 1] # W2[y][Len(W2[up2[x]]) + 1]
  <2>1. /\ up[x] = up[y] /\ up[x] \in P \ {n} /\ up2[x] = up[x]
        /\ W2[x] = W[x] /\ W2[y] = W[y] /\ W2[up[x]] = W[up[x]]
    BY <1>2, <1>5
  <2>2. W[x][Len(W[up[x]]) + 1] # W[y][Len(W[up[x]]) + 1]
    BY <1>5, <2>1 DEF Trie
  <2> QED
    BY <2>1, <2>2
<1>6. \A x \in P \ {n} : W2[x] \in Word /\ x # NULL
  BY DEF Trie
<1> QED
  BY <1>1, <1>2, <1>3, <1>4, <1>5, <1>6 DEF Trie

Splices(P, r, up, W, n, c, up2, W2) ==
    /\ n \in P /\ c \in P \ {r} /\ up[c] = n /\ \A x \in P \ {r} : up[x] = n => x = c
    /\ \A x \in P \ {n} : W2[x] = W[x] /\ (x # c => up2[x] = up[x])
    /\ up2[c] = up[n]

LEMMA TrieSplice ==
    ASSUME NEW P, NEW r, NEW up, NEW W, Trie(P, r, up, W), NEW n, NEW c, NEW up2, NEW W2,
           Splices(P, r, up, W, n, c, up2, W2)
    PROVE  Trie(P \ {n}, IF n = r THEN c ELSE r, up2, W2)
<1>0. /\ n \in P /\ c \in P \ {r} /\ up[c] = n /\ \A x \in P \ {r} : up[x] = n => x = c
      /\ \A x \in P \ {n} : W2[x] = W[x] /\ (x # c => up2[x] = up[x])
      /\ up2[c] = up[n]
  BY DEF Splices
<1> USE <1>0
<1>1. PICK r2 : r2 = IF n = r THEN c ELSE r
  OBVIOUS
<1>2. IsFiniteSet(P \ {n}) /\ r \in P /\ NULL \notin P
  BY FS_RemoveElement DEF Trie
<1>3. \A x \in P \ {r} : up[x] \in P /\ Pre(W[up[x]], W[x]) /\ Len(W[up[x]]) < Len(W[x])
  BY DEF Trie
<1>4. \A x \in P : W[x] \in Word /\ Len(W[x]) \in Nat
  BY WordIs DEF Trie
<1>5. c # n
  BY <1>3, <1>4
<1>6. \A x \in P \ {r} : up[x] # x
  BY <1>3, <1>4
<1>7. r2 \in P \ {n} /\ up2[r2] = NULL
  BY <1>1, <1>2, <1>5 DEF Trie
<1>8. n # r => /\ up[n] \in P \ {n} /\ Pre(W[up[n]], W[c]) /\ Len(W[up[n]]) < Len(W[c])
               /\ W[n][Len(W[up[n]]) + 1] = W[c][Len(W[up[n]]) + 1]
  <2> SUFFICES ASSUME n # r
               PROVE  /\ up[n] \in P \ {n} /\ Pre(W[up[n]], W[c]) /\ Len(W[up[n]]) < Len(W[c])
                      /\ W[n][Len(W[up[n]]) + 1] = W[c][Len(W[up[n]]) + 1]
    OBVIOUS
  <2>1. /\ up[n] \in P \ {n} /\ Pre(W[up[n]], W[n]) /\ Len(W[up[n]]) < Len(W[n])
        /\ Pre(W[n], W[c]) /\ Len(W[n]) < Len(W[c])
    BY <1>3, <1>6
  <2>2. Pre(W[up[n]], W[c])
    BY <1>4, <2>1, PreTrans
  <2>3. Len(W[up[n]]) + 1 \in 1 .. Len(W[n])
    BY <1>4, <2>1
  <2>4. Len(W[up[n]]) < Len(W[c])
    BY <1>4, <2>1
  <2> QED
    BY <2>1, <2>2, <2>3, <2>4 DEF Pre
<1>9. \A x \in (P \ {n}) \ {r2} : /\ x \in P \ {r}
                                  /\ x # c => up2[x] = up[x] /\ up[x] \in P \ {n}
                                  /\ x = c => n # r
  BY <1>1, <1>3
<1>10. ASSUME NEW x \in (P \ {n}) \ {r2}
       PROVE  up2[x] \in P \ {n} /\ Pre(W2[up2[x]], W2[x]) /\ Len(W2[up2[x]]) < Len(W2[x])
  BY <1>3, <1>8, <1>9
<1>11. ASSUME NEW x \in (P \ {n}) \ {r2}, NEW y \in (P \ {n}) \ {r2}, x # y, up2[x] = up2[y]
       PROVE  W2[x][Len(W2[up2[x]]) + 1] # W2[y][Len(W2[up2[x]]) + 1]
  <2>1. CASE x # c /\ y # c
    <3>1. x \in P \ {r} /\ y \in P \ {r} /\ up[x] = up[y] /\ up[x] \in P
         /\ up2[x] = up[x] /\ W2[x] = W[x] /\ W2[y] = W[y] /\ W2[up[x]] = W[up[x]]
      BY <1>9, <1>11, <2>1
    <3>2. W[x][Len(W[up[x]]) + 1] # W[y][Len(W[up[x]]) + 1]
      BY <3>1, <1>11 DEF Trie
    <3> QED
      BY <3>1, <3>2
  <2>2. ASSUME NEW e \in (P \ {n}) \ {r2}, e # c, n # r, up2[e] = up[n]
        PROVE  W[c][Len(W[up[n]]) + 1] # W[e][Len(W[up[n]]) + 1]
    <3>1. e \in P \ {r} /\ up[e] = up[n] /\ e # n
      BY <1>9, <2>2
    <3>2. W[n][Len(W[up[n]]) + 1] # W[e][Len(W[up[n]]) + 1]
      BY <2>2, <3>1 DEF Trie
    <3> QED
      BY <1>8, <2>2, <3>2
  <2>3. CASE x = c
    <3>1. n # r /\ y # c /\ up2[y] = up[n] /\ up[n] \in P \ {n}
      BY <1>8, <1>9, <1>11, <2>3
    <3> QED
      BY <1>11, <2>2, <2>3, <3>1
  <2>4. CASE y = c
    <3>1. n # r /\ x # c /\ up2[x] = up[n] /\ up[n] \in P \ {n}
      BY <1>8, <1>9, <1>11, <2>4
    <3> QED
      BY <1>11, <2>2, <2>4, <3>1
  <2> QED
    BY <2>1, <2>3, <2>4
<1>12. Trie(P \ {n}, r2, up2, W2)
  BY <1>2, <1>4, <1>7, <1>10, <1>11 DEF Trie
<1> QED
  BY <1>1, <1>12

Swaps(P, up, W, n, m, up2, W2) ==
    /\ n \in P /\ m \notin P /\ m # NULL
    /\ \A x \in P \ {n} : W2[x] = W[x] /\ up2[x] = IF up[x] = n THEN m ELSE up[x]
    /\ up2[m] = up[n] /\ W2[m] = W[n]

LEMMA TrieSwap ==
    ASSUME NEW P, NEW r, NEW up, NEW W, Trie(P, r, up, W), NEW n, NEW m, NEW up2, NEW W2,
           Swaps(P, up, W, n, m, up2, W2)
    PROVE  Trie((P \ {n}) \cup {m}, IF n = r THEN m ELSE r, up2, W2)
<1>0. /\ n \in P /\ m \notin P /\ m # NULL
      /\ \A x \in P \ {n} : W2[x] = W[x] /\ up2[x] = IF up[x] = n THEN m ELSE up[x]
      /\ up2[m] = up[n] /\ W2[m] = W[n]
  BY DEF Swaps
<1> USE <1>0
<1>1. PICK r2 : r2 = IF n = r THEN m ELSE r
  OBVIOUS
<1>2. PICK Q : Q = (P \ {n}) \cup {m}
  OBVIOUS
<1>3. IsFiniteSet(Q) /\ r \in P /\ NULL \notin Q /\ NULL \notin P
  <2>1. IsFiniteSet(P \ {n})
    BY FS_RemoveElement DEF Trie
  <2> QED
    BY <1>2, <2>1, FS_AddElement DEF Trie
<1>4. \A x \in P \ {r} : up[x] \in P /\ Pre(W[up[x]], W[x]) /\ Len(W[up[x]]) < Len(W[x])
  BY DEF Trie
<1>5. \A x \in P : W[x] \in Word /\ Len(W[x]) \in Nat
  BY WordIs DEF Trie
<1>6. \A x \in P \ {r} : up[x] # x
  BY <1>4, <1>5
<1> DEFINE Old(x) == IF x = m THEN n ELSE x
<1>7. \A x \in Q : Old(x) \in P /\ W2[x] = W[Old(x)] /\ (x # r2 <=> Old(x) # r)
  BY <1>1, <1>2, <1>3
<1>8. \A x \in Q \ {r2} : up2[x] \in Q /\ Old(up2[x]) = up[Old(x)]
  BY <1>1, <1>2, <1>3, <1>4, <1>6, <1>7
<1>9. \A x, y \in Q : Old(x) = Old(y) => x = y
  BY <1>2
<1>10. r2 \in Q /\ up2[r2] = NULL
  <2>1. up[r] = NULL
    BY DEF Trie
  <2> QED
    BY <1>1, <1>2, <1>3, <2>1
<1> HIDE DEF Old
<1>11. \A x \in Q \ {r2} : Pre(W2[up2[x]], W2[x]) /\ Len(W2[up2[x]]) < Len(W2[x])
  BY <1>4, <1>7, <1>8
<1>12. ASSUME NEW x \in Q \ {r2}, NEW y \in Q \ {r2}, x # y, up2[x] = up2[y]
       PROVE  W2[x][Len(W2[up2[x]]) + 1] # W2[y][Len(W2[up2[x]]) + 1]
  <2>1. Old(x) \in P \ {r} /\ Old(y) \in P \ {r} /\ Old(x) # Old(y) /\ up[Old(x)] = up[Old(y)]
    BY <1>7, <1>8, <1>9, <1>12
  <2>2. W[Old(x)][Len(W[up[Old(x)]]) + 1] # W[Old(y)][Len(W[up[Old(x)]]) + 1]
    BY <2>1 DEF Trie
  <2> QED
    BY <1>7, <1>8, <2>2
<1>13. Trie(Q, r2, up2, W2)
  BY <1>3, <1>5, <1>7, <1>8, <1>10, <1>11, <1>12 DEF Trie
<1> QED
  BY <1>1, <1>2, <1>13

-----------------------------------------------------------------------------
(***************************************************************************)
(* The fields of the nodes, and the words that they stand for: W[n] is     *)
(* what the pieces from the root down to n spell.                          *)
(***************************************************************************)
Place == [str : Key \cup {NULL}, off : Int]
Trees == [root : Pointer, up : [Node -> Pointer], kids : [Node -> Seq(Node)],
          at : [Node -> Place], len : [Node -> Int]]

LEMMA Nodes ==
    /\ NULL \notin Node /\ IsFiniteSet(Node) /\ NoString \in Place /\ NoString.str = NULL
    /\ Key \subseteq Word /\ \A k \in Key : k # <<>> /\ Len(k) \in Nat /\ Len(k) > 0
    /\ Key \in SUBSET Node /\ Split \in SUBSET Node /\ Node \in SUBSET Pointer /\ NULL \in Pointer
    /\ \A n \in Node : Valid(n) <=> n \in Key
    /\ \A n \in Node : n \in Split <=> n \notin Key
    /\ \A n \in Pointer : n = NULL \/ n \in Node
<1>1. Key \subseteq Word /\ \A k \in Key : k # <<>>
  BY KeysAreWords DEF Word
<1>2. \A k \in Key : Len(k) \in Nat /\ Len(k) > 0
  BY <1>1, WordIs
<1>3. IsFiniteSet(Node)
  BY NodesFinite, FS_Union DEF Node
<1> QED
  BY <1>1, <1>2, <1>3, SplitsAreNoKeys DEF Node, Pointer, Valid, NoString, Place

\* What a node points to: l letters of a string that begins with its word w,
\* those behind its parent's b letters.  The root of keys that share no letter
\* has none.
PieceIs(a, l, b, w, n) ==
    IF w = <<>> THEN a = NoString /\ l = 0 /\ b = 0 /\ n \in Split
    ELSE /\ a.str \in Key /\ Pre(w, a.str) /\ a.off = b /\ l = Len(w) - b
         /\ n \in Key => a.str = n /\ w = n

LEMMA PieceLetter ==
    ASSUME NEW a \in Place, NEW l \in Int, NEW w \in Word, NEW b \in 0 .. Len(w), NEW n,
           PieceIs(a, l, b, w, n), NEW j \in 0 .. l - 1
    PROVE  Letter(Ahead(a, j)) = w[b + j + 1] /\ b + j + 1 \in 1 .. Len(w)
<1>1. Len(w) \in Nat /\ b \in Nat /\ j \in Nat
  BY WordIs
<1>2. w # <<>>
  BY <1>1 DEF PieceIs
<1>3. a.str \in Key /\ Pre(w, a.str) /\ a.off = b /\ l = Len(w) - b
  BY <1>2 DEF PieceIs
<1>4. a.str \in Word /\ Len(a.str) \in Nat /\ DOMAIN a.str = 1 .. Len(a.str) /\ Len(w) <= Len(a.str)
  BY <1>3, Nodes, WordIs DEF Pre
<1>5. b + j + 1 \in 1 .. Len(w) /\ b + j + 1 \in 1 .. Len(a.str)
  BY <1>1, <1>3, <1>4
<1>6. Ahead(a, j).str = a.str /\ Ahead(a, j).off = b + j
  BY <1>3 DEF Ahead, Place
<1> QED
  BY <1>3, <1>4, <1>5, <1>6 DEF Letter, Pre

LEMMA PieceFirst ==
    ASSUME NEW a \in Place, NEW l \in Int, NEW w \in Word, NEW b \in Nat, b < Len(w), NEW n,
           PieceIs(a, l, b, w, n)
    PROVE  Letter(a) = w[b + 1] /\ Letter(a) \in 1 .. 3
<1>1. Len(w) \in Nat /\ w # <<>>
  BY WordIs
<1>2. a.str \in Key /\ Pre(w, a.str) /\ a.off = b
  BY <1>1 DEF PieceIs
<1>3. a.str \in Word /\ Len(a.str) \in Nat /\ DOMAIN a.str = 1 .. Len(a.str) /\ Len(w) <= Len(a.str)
  BY <1>2, Nodes, WordIs DEF Pre
<1>4. b + 1 \in 1 .. Len(w) /\ b + 1 \in 1 .. Len(a.str)
  BY <1>1, <1>3
<1> QED
  BY <1>2, <1>3, <1>4, WordIs DEF Letter, Pre

\* A piece may be taken from the string of a node below, with the same letters.
LEMMA PieceBorrowed ==
    ASSUME NEW a \in Place, NEW l \in Int, NEW b \in Nat, NEW w \in Word, NEW n \in Split,
           w # <<>>, PieceIs(a, l, b, w, n),
           NEW e \in Place, e.str \in Key, Pre(w, e.str), e.off = Len(w)
    PROVE  Ahead(e, -l) \in Place /\ PieceIs(Ahead(e, -l), l, b, w, n)
<1>1. n \notin Key
  BY Nodes
<1>2. Len(w) \in Nat /\ l = Len(w) - b
  BY WordIs DEF PieceIs
<1>3. e.off + (-l) = b /\ e.off + (-l) \in Int
  BY <1>2
<1>4. Ahead(e, -l) = [e EXCEPT !.off = e.off + (-l)]
  BY DEF Ahead, Place
<1>5. Ahead(e, -l) \in Place /\ Ahead(e, -l).str = e.str /\ Ahead(e, -l).off = b
  BY <1>3, <1>4 DEF Place
<1> QED
  BY <1>1, <1>2, <1>5 DEF PieceIs
-----------------------------------------------------------------------------
\* A row holds each node of a set once.
Row(s, S) == /\ s \in Seq(Node)
             /\ {s[i] : i \in 1 .. Len(s)} = S
             /\ \A i, j \in 1 .. Len(s) : s[i] = s[j] => i = j

LEMMA RowIs ==
    ASSUME NEW s, NEW S, Row(s, S)
    PROVE  /\ Len(s) \in Nat /\ DOMAIN s = 1 .. Len(s) /\ Range(s) = S /\ S \in SUBSET Node
           /\ (s = <<>> <=> S = {}) /\ (s = <<>> <=> Len(s) = 0)
           /\ s # <<>> => Head(s) \in S
           /\ Len(s) = 1 => S = {Head(s)}
<1>1. Len(s) \in Nat /\ DOMAIN s = 1 .. Len(s) /\ (s = <<>> <=> Len(s) = 0)
  BY DEF Row
<1>2. Range(s) = S /\ S \in SUBSET Node
  BY <1>1 DEF Range, Row
<1>3. s = <<>> <=> S = {}
  BY <1>1 DEF Row
<1>4. s # <<>> => Head(s) = s[1] /\ 1 \in 1 .. Len(s)
  BY <1>1 DEF Row
<1>5. s # <<>> => Head(s) \in S
  BY <1>4 DEF Row
<1>6. Len(s) = 1 => S = {Head(s)}
  <2>1. 1 .. 1 = {1}
    OBVIOUS
  <2> QED
    BY <1>1, <1>4, <2>1 DEF Row
<1> QED
  BY <1>1, <1>2, <1>3, <1>5, <1>6

LEMMA RowEmpty == Row(<<>>, {})
BY DEF Row

LEMMA RemovedIs ==
    ASSUME NEW S, NEW s \in Seq(S), NEW i \in 1 .. Len(s)
    PROVE  /\ RemoveAt(s, i) \in Seq(S) /\ Len(RemoveAt(s, i)) = Len(s) - 1
           /\ \A j \in 1 .. Len(s) - 1 : RemoveAt(s, i)[j] = IF j < i THEN s[j] ELSE s[j + 1]
<1>9. PICK u : u = RemoveAt(s, i)
  OBVIOUS
<1>1. /\ Len(s) \in Nat /\ \A j \in 1 .. Len(s) : s[j] \in S
      /\ i - 1 \in Int /\ 1 \in Int /\ i + 1 \in Int /\ Len(s) \in Int
      /\ \A j \in 1 .. i - 1 : s[j] \in S
      /\ \A j \in i + 1 .. Len(s) : s[j] \in S
  OBVIOUS
<1>2. PICK a : a = SubSeq(s, 1, i - 1)
  OBVIOUS
<1>3. PICK b : b = SubSeq(s, i + 1, Len(s))
  OBVIOUS
<1>4. a \in Seq(S) /\ Len(a) = i - 1 /\ \A j \in 1 .. i - 1 : a[j] = s[j]
  <2>4. /\ SubSeq(s, 1, i - 1) \in Seq(S)
        /\ Len(SubSeq(s, 1, i - 1)) = IF 1 <= i - 1 THEN (i - 1) - 1 + 1 ELSE 0
        /\ \A j \in 1 .. (i - 1) - 1 + 1 : SubSeq(s, 1, i - 1)[j] = s[1 + j - 1]
    BY <1>1, SubSeqProperties
  <2>1. a \in Seq(S) /\ Len(a) = IF 1 <= i - 1 THEN (i - 1) - 1 + 1 ELSE 0
    BY <1>2, <2>4, Zenon
  <2>2. \A j \in 1 .. (i - 1) - 1 + 1 : a[j] = s[1 + j - 1]
    BY <1>2, <2>4, Zenon
  <2>3. ASSUME NEW j \in 1 .. i - 1 PROVE a[j] = s[j]
    <3>1. j \in 1 .. (i - 1) - 1 + 1 /\ 1 + j - 1 = j
      OBVIOUS
    <3> QED
      BY <2>2, <3>1, Zenon
  <2> QED
    BY <2>1, <2>3
<1>5. b \in Seq(S) /\ Len(b) = Len(s) - i /\ \A j \in 1 .. Len(s) - i : b[j] = s[i + j]
  <2>4. /\ SubSeq(s, i + 1, Len(s)) \in Seq(S)
        /\ Len(SubSeq(s, i + 1, Len(s))) = IF i + 1 <= Len(s) THEN Len(s) - (i + 1) + 1 ELSE 0
        /\ \A j \in 1 .. Len(s) - (i + 1) + 1 : SubSeq(s, i + 1, Len(s))[j] = s[(i + 1) + j - 1]
    BY <1>1, SubSeqProperties
  <2>1. b \in Seq(S) /\ Len(b) = IF i + 1 <= Len(s) THEN Len(s) - (i + 1) + 1 ELSE 0
    BY <1>3, <2>4, Zenon
  <2>2. \A j \in 1 .. Len(s) - (i + 1) + 1 : b[j] = s[(i + 1) + j - 1]
    BY <1>3, <2>4, Zenon
  <2>3. ASSUME NEW j \in 1 .. Len(s) - i PROVE b[j] = s[i + j]
    <3>1. j \in 1 .. Len(s) - (i + 1) + 1 /\ (i + 1) + j - 1 = i + j
      BY <1>1
    <3> QED
      BY <2>2, <3>1, Zenon
  <2> QED
    BY <1>1, <2>1, <2>3
<1>6. /\ u \in Seq(S) /\ Len(u) = Len(a) + Len(b)
      /\ \A j \in 1 .. Len(a) + Len(b) : u[j] = IF j <= Len(a) THEN a[j] ELSE b[j - Len(a)]
  <2>1. u = a \o b
    BY <1>2, <1>3, <1>9 DEF RemoveAt
  <2>2. a \in Seq(S) /\ b \in Seq(S)
    BY <1>4, <1>5
  <2>3. /\ a \o b \in Seq(S) /\ Len(a \o b) = Len(a) + Len(b)
        /\ \A j \in 1 .. Len(a) + Len(b) : (a \o b)[j] = IF j <= Len(a) THEN a[j] ELSE b[j - Len(a)]
    BY <2>2, ConcatProperties
  <2> QED
    BY <2>1, <2>3, Zenon
<1>7. Len(u) = Len(s) - 1 /\ Len(a) + Len(b) = Len(s) - 1
  BY <1>1, <1>4, <1>5, <1>6
<1>8. ASSUME NEW j \in 1 .. Len(s) - 1
      PROVE  u[j] = IF j < i THEN s[j] ELSE s[j + 1]
  <2>1. CASE j < i
    BY <1>1, <1>4, <1>6, <1>7, <2>1
  <2>2. CASE ~(j < i)
    <3>1. j - (i - 1) \in 1 .. Len(s) - i /\ i + (j - (i - 1)) = j + 1 /\ ~(j <= i - 1)
      BY <1>1, <2>2
    <3>2. u[j] = b[j - (i - 1)]
      BY <1>4, <1>6, <1>7, <3>1
    <3>3. b[j - (i - 1)] = s[j + 1]
      BY <1>5, <3>1
    <3> QED
      BY <2>2, <3>2, <3>3
  <2> QED
    BY <2>1, <2>2
<1> QED
  BY <1>6, <1>7, <1>8, <1>9

LEMMA RowAway ==
    ASSUME NEW s, NEW S, Row(s, S), NEW c \in S, NEW i \in 1 .. Len(s), s[i] = c,
           NEW u, u = RemoveAt(s, i)
    PROVE  Row(u, S \ {c}) /\ Len(u) = Len(s) - 1
<1>1. s \in Seq(Node) /\ Len(s) \in Nat /\ \A j, h \in 1 .. Len(s) : s[j] = s[h] => j = h
  BY DEF Row
<1>2. /\ u \in Seq(Node) /\ Len(u) = Len(s) - 1
      /\ \A j \in 1 .. Len(s) - 1 : u[j] = IF j < i THEN s[j] ELSE s[j + 1]
  BY <1>1, RemovedIs, Zenon
<1>3. /\ \A j \in 1 .. Len(s) : s[j] \in S
      /\ \A x \in S : \E j \in 1 .. Len(s) : s[j] = x
  BY DEF Row
<1> DEFINE at(j) == IF j < i THEN j ELSE j + 1
<1>4. \A j \in 1 .. Len(u) : at(j) \in 1 .. Len(s) /\ at(j) # i /\ u[j] = s[at(j)]
  BY <1>1, <1>2
<1>5. \A j, h \in 1 .. Len(u) : at(j) = at(h) => j = h
  BY <1>1, <1>2
<1>6. \A h \in 1 .. Len(s) : h # i => \E j \in 1 .. Len(u) : at(j) = h
  <2> TAKE h \in 1 .. Len(s)
  <2>1. h < i => h \in 1 .. Len(u) /\ at(h) = h
    BY <1>1, <1>2
  <2>2. h > i => h - 1 \in 1 .. Len(u) /\ at(h - 1) = h
    BY <1>1, <1>2
  <2> HIDE DEF at
  <2> QED
    BY <1>1, <2>1, <2>2
<1> HIDE DEF at
<1>7. {u[j] : j \in 1 .. Len(u)} = S \ {c}
  <2>1. \A j \in 1 .. Len(u) : u[j] \in S /\ u[j] # c
    BY <1>1, <1>3, <1>4
  <2>2. \A x \in S \ {c} : \E j \in 1 .. Len(u) : u[j] = x
    <3> TAKE x \in S \ {c}
    <3>1. PICK h \in 1 .. Len(s) : s[h] = x
      BY <1>3
    <3>2. h # i
      BY <3>1
    <3>3. PICK j \in 1 .. Len(u) : at(j) = h
      BY <1>6, <3>2
    <3> QED
      BY <1>4, <3>1, <3>3
  <2> QED
    BY <2>1, <2>2
<1>8. \A j, h \in 1 .. Len(u) : u[j] = u[h] => j = h
  BY <1>1, <1>4, <1>5
<1> QED
  BY <1>2, <1>7, <1>8 DEF Row

LEMMA RowOff ==
    ASSUME NEW s, NEW S, Row(s, S), NEW c \in S, NEW u,
           u = RemoveAt(s, CHOOSE j \in DOMAIN s : s[j] = c)
    PROVE  Row(u, S \ {c}) /\ Len(u) = Len(s) - 1
<1>1. PICK i : i = CHOOSE j \in DOMAIN s : s[j] = c
  OBVIOUS
<1>2. \E j \in DOMAIN s : s[j] = c
  BY DEF Row
<1>3. i \in DOMAIN s /\ s[i] = c
  BY <1>1, <1>2, Zenon
<1>4. i \in 1 .. Len(s)
  BY <1>3 DEF Row
<1>5. u = RemoveAt(s, i)
  BY <1>1
<1> QED
  BY <1>3, <1>4, <1>5, RowAway, Zenon

LEMMA RowSwap ==
    ASSUME NEW s, NEW S, Row(s, S), NEW old \in S, NEW new \in Node \ S, NEW u,
           u = [i \in DOMAIN s |-> IF s[i] = old THEN new ELSE s[i]]
    PROVE  Row(u, (S \ {old}) \cup {new}) /\ Len(u) = Len(s)
<1>1. s \in Seq(Node) /\ Len(s) \in Nat /\ DOMAIN s = 1 .. Len(s)
  BY DEF Row
<1>2. u \in Seq(Node) /\ Len(u) = Len(s) /\ \A i \in 1 .. Len(s) : u[i] = IF s[i] = old THEN new ELSE s[i]
  BY <1>1
<1>3. {u[j] : j \in 1 .. Len(u)} = (S \ {old}) \cup {new}
  <2>1. \A j \in 1 .. Len(s) : s[j] \in S
    BY DEF Row
  <2>2. \A x \in S : \E j \in 1 .. Len(s) : s[j] = x
    BY DEF Row
  <2> QED
    BY <1>2, <2>1, <2>2
<1>4. ASSUME NEW j \in 1 .. Len(u), NEW h \in 1 .. Len(u), u[j] = u[h]
      PROVE  j = h
  BY <1>1, <1>2, <1>4 DEF Row
<1> QED
  BY <1>2, <1>3, <1>4 DEF Row

LEMMA RowMore ==
    ASSUME NEW s, NEW S, Row(s, S), NEW c \in Node \ S
    PROVE  Row(Append(s, c), S \cup {c}) /\ Len(Append(s, c)) = Len(s) + 1
<1>1. s \in Seq(Node) /\ Len(s) \in Nat /\ \A j, h \in 1 .. Len(s) : s[j] = s[h] => j = h
  BY DEF Row
<1>2. /\ \A j \in 1 .. Len(s) : s[j] \in S
      /\ \A x \in S : \E j \in 1 .. Len(s) : s[j] = x
  BY DEF Row
<1>3. PICK u : u = Append(s, c)
  OBVIOUS
<1>4. /\ u \in Seq(Node) /\ Len(u) = Len(s) + 1 /\ u[Len(s) + 1] = c
      /\ \A j \in 1 .. Len(s) : u[j] = s[j]
  BY <1>1, <1>3, AppendProperties
<1>5. \A j \in 1 .. Len(u) : j \in 1 .. Len(s) \/ j = Len(s) + 1
  BY <1>1, <1>4
<1>6. \A j \in 1 .. Len(s) : j \in 1 .. Len(u)
  BY <1>1, <1>4
<1>7. Len(s) + 1 \in 1 .. Len(u)
  BY <1>1, <1>4
<1>8. {u[j] : j \in 1 .. Len(u)} = S \cup {c}
  <2>1. \A j \in 1 .. Len(u) : u[j] \in S \cup {c}
    BY <1>2, <1>4, <1>5
  <2>2. \A x \in S \cup {c} : \E j \in 1 .. Len(u) : u[j] = x
    BY <1>2, <1>4, <1>6, <1>7
  <2> QED
    BY <2>1, <2>2
<1>9. \A j, h \in 1 .. Len(u) : u[j] = u[h] => j = h
  BY <1>1, <1>2, <1>4, <1>5
<1> QED
  BY <1>3, <1>4, <1>8, <1>9 DEF Row

\* The branches of a node begin with different letters, so they are three at
\* most, and a new one makes a row with the others.
LEMMA JoinedIs ==
    ASSUME NEW t, NEW s, NEW S, Row(s, S), NEW c \in Node \ S,
           \A x \in S \cup {c} : First(t, x) \in 1 .. 3,
           \A x, y \in S \cup {c} : First(t, x) = First(t, y) => x = y
    PROVE  Row(Joined(t, s, c), S \cup {c}) /\ Len(Joined(t, s, c)) = Len(s) + 1
<1>1. PICK a : a = Append(s, c)
  OBVIOUS
<1>2. Row(a, S \cup {c}) /\ Len(a) = Len(s) + 1 /\ Len(a) \in Nat
  BY <1>1, RowMore, RowIs
<1>3. PICK f : f = [x \in S \cup {c} |-> First(t, x)]
  OBVIOUS
<1>4. \A x \in S \cup {c} : f[x] = First(t, x) /\ f[x] \in 1 .. 3
  BY <1>3
<1>5. \A x, y \in S \cup {c} : f[x] = f[y] => x = y
  BY <1>4
<1>6. \A j \in 1 .. Len(a) : a[j] \in S \cup {c}
  BY <1>2 DEF Row
<1>7. \A j, h \in 1 .. Len(a) : f[a[j]] = f[a[h]] => j = h
  <2>1. \A j, h \in 1 .. Len(a) : a[j] = a[h] => j = h
    BY <1>2 DEF Row
  <2> QED
    BY <1>5, <1>6, <2>1
<1>8. Len(a) <= 3
  <2> SUFFICES ASSUME Len(a) >= 4 PROVE FALSE
    BY <1>2
  <2>1. 1 \in 1 .. Len(a) /\ 2 \in 1 .. Len(a) /\ 3 \in 1 .. Len(a) /\ 4 \in 1 .. Len(a)
    BY <1>2
  <2>2. /\ f[a[1]] \in 1 .. 3 /\ f[a[2]] \in 1 .. 3 /\ f[a[3]] \in 1 .. 3 /\ f[a[4]] \in 1 .. 3
    BY <1>4, <1>6, <2>1, Zenon
  <2>3. /\ f[a[1]] # f[a[2]] /\ f[a[1]] # f[a[3]] /\ f[a[1]] # f[a[4]]
        /\ f[a[2]] # f[a[3]] /\ f[a[2]] # f[a[4]] /\ f[a[3]] # f[a[4]]
    BY <1>7, <2>1
  <2> QED
    BY <2>2, <2>3
<1>9. CASE Len(a) < 3
  BY <1>1, <1>2, <1>9 DEF Joined
<1>10. CASE Len(a) = 3
  <2>1. 1 \in 1 .. Len(a) /\ 2 \in 1 .. Len(a) /\ 3 \in 1 .. Len(a)
    BY <1>10
  <2>2. Range(a) = S \cup {c} /\ S \cup {c} \in SUBSET Node
    BY <1>2, RowIs
  <2>3. PICK R : R = [1 .. 3 -> S \cup {c}]
    OBVIOUS
  <2>4. PICK x, y, z : x = a[1] /\ y = a[2] /\ z = a[3]
    OBVIOUS
  <2>5. /\ x \in S \cup {c} /\ y \in S \cup {c} /\ z \in S \cup {c}
        /\ f[x] \in 1 .. 3 /\ f[y] \in 1 .. 3 /\ f[z] \in 1 .. 3
        /\ f[x] # f[y] /\ f[x] # f[z] /\ f[y] # f[z]
    BY <1>4, <1>6, <1>7, <2>1, <2>4
  <2>6. S \cup {c} = {x, y, z}
    <3>1. \A e \in S \cup {c} : \E j \in 1 .. 3 : a[j] = e
      BY <1>2, <1>10 DEF Row
    <3>2. \A j \in 1 .. 3 : j = 1 \/ j = 2 \/ j = 3
      OBVIOUS
    <3> QED
      BY <2>4, <2>5, <3>1, <3>2
  <2>7. ASSUME NEW d \in {x, y, z}, NEW e \in {x, y, z}, NEW g \in {x, y, z},
               f[e] > f[d], f[d] > f[g]
        PROVE  \E r \in R : f[r[2]] > f[r[1]] /\ f[r[1]] > f[r[3]]
    <3>1. <<d, e, g>> \in R
      BY <2>3, <2>6
    <3> QED
      BY <2>7, <3>1
  <2>8. \E r \in R : f[r[2]] > f[r[1]] /\ f[r[1]] > f[r[3]]
    BY <2>5, <2>7
  <2>9. \E r \in R : First(t, r[2]) > First(t, r[1]) /\ First(t, r[1]) > First(t, r[3])
    BY <1>4, <2>3, <2>8
  <2>10. PICK u : u = CHOOSE r \in R : First(t, r[2]) > First(t, r[1]) /\ First(t, r[1]) > First(t, r[3])
    OBVIOUS
  <2>11. u \in R /\ First(t, u[2]) > First(t, u[1]) /\ First(t, u[1]) > First(t, u[3])
    BY <2>9, <2>10, Zenon
  <2>12. u[1] \in S \cup {c} /\ u[2] \in S \cup {c} /\ u[3] \in S \cup {c}
    BY <2>3, <2>11
  <2>13. f[u[2]] > f[u[1]] /\ f[u[1]] > f[u[3]]
    BY <1>4, <2>11, <2>12
  <2>14. u[1] # u[2] /\ u[1] # u[3] /\ u[2] # u[3]
    <3>1. f[u[1]] \in 1 .. 3 /\ f[u[2]] \in 1 .. 3 /\ f[u[3]] \in 1 .. 3
      BY <1>4, <2>12
    <3> QED
      BY <2>13, <3>1
  <2>15. u \in Seq(Node) /\ Len(u) = 3
    <3>1. u \in [1 .. 3 -> Node]
      BY <2>2, <2>3, <2>11
    <3>2. u \in Seq(Node)
      <4>1. 3 \in Nat
        OBVIOUS
      <4>2. u \in UNION {[1 .. n -> Node] : n \in Nat}
        BY <3>1, <4>1
      <4> QED
        BY <4>2, SeqDef
    <3>3. Len(u) \in Nat /\ DOMAIN u = 1 .. Len(u) /\ DOMAIN u = 1 .. 3
      BY <3>1, <3>2, LenProperties
    <3>4. \A i \in Nat : 1 .. i = 1 .. 3 => i = 3
      <4> SUFFICES ASSUME NEW i \in Nat, 1 .. i = 1 .. 3 PROVE i = 3
        OBVIOUS
      <4>1. 3 \in 1 .. i /\ (i > 3 => 4 \in 1 .. i) /\ 4 \notin 1 .. 3
        OBVIOUS
      <4> QED
        BY <4>1
    <3> QED
      BY <3>2, <3>3, <3>4
  <2>16. {u[j] : j \in 1 .. Len(u)} = S \cup {c}
    <3>1. {u[j] : j \in 1 .. 3} = {u[1], u[2], u[3]}
      OBVIOUS
    <3> QED
      BY <2>6, <2>12, <2>14, <2>15, <3>1
  <2>17. \A i, j \in 1 .. Len(u) : u[i] = u[j] => i = j
    BY <2>14, <2>15
  <2>18. Joined(t, s, c) = u
    BY <1>1, <1>10, <2>2, <2>3, <2>10 DEF Joined
  <2>19. Row(u, S \cup {c})
    BY <2>15, <2>16, <2>17, Zenon DEF Row
  <2> QED
    BY <1>2, <1>10, <2>15, <2>18, <2>19
<1> QED
  BY <1>2, <1>8, <1>9, <1>10

-----------------------------------------------------------------------------
\* What each operator of the code does to the fields.
Hangs(a, w) == a.str \in Key /\ Pre(w, a.str) /\ a.off = Len(w) /\ Letter(a) \in 1 .. 3
Apart(at, S) == \A x, y \in S : Letter(at[x]) = Letter(at[y]) => x = y

LEMMA TreesAre ==
    ASSUME NEW t
    PROVE  t \in Trees => /\ t.root \in Pointer /\ t.up \in [Node -> Pointer]
                          /\ t.kids \in [Node -> Seq(Node)]
                          /\ t.at \in [Node -> Place] /\ t.len \in [Node -> Int]
BY DEF Trees

Has(u, r, U, K, A, L) ==
    u \in Trees /\ u.root = r /\ u.up = U /\ u.kids = K /\ u.at = A /\ u.len = L

LEMMA PutRoot ==
    ASSUME NEW t \in Trees, NEW x \in Pointer
    PROVE  Has([t EXCEPT !.root = x], x, t.up, t.kids, t.at, t.len)
<1> DEFINE u == [t EXCEPT !.root = x]
<1>1. t = [root |-> t.root, up |-> t.up, kids |-> t.kids, at |-> t.at, len |-> t.len]
  BY DEF Trees
<1>2. u.root = x /\ u.up = t.up /\ u.kids = t.kids /\ u.at = t.at /\ u.len = t.len
  BY <1>1
<1>3. PICK U, K, A, L : /\ U = [Node -> Pointer] /\ K = [Node -> Seq(Node)]
                        /\ A = [Node -> Place] /\ L = [Node -> Int]
  OBVIOUS
<1>4. /\ Trees = [root : Pointer, up : U, kids : K, at : A, len : L] /\ x \in Pointer
      /\ t.root \in Pointer /\ t.up \in U /\ t.kids \in K /\ t.at \in A /\ t.len \in L
  BY <1>3, TreesAre DEF Trees
<1>5. u \in Trees
  BY <1>1, <1>4
<1> QED
  BY <1>2, <1>5 DEF Has

LEMMA PutUp ==
    ASSUME NEW t \in Trees, NEW x \in [Node -> Pointer]
    PROVE  Has([t EXCEPT !.up = x], t.root, x, t.kids, t.at, t.len)
<1> DEFINE u == [t EXCEPT !.up = x]
<1>1. t = [root |-> t.root, up |-> t.up, kids |-> t.kids, at |-> t.at, len |-> t.len]
  BY DEF Trees
<1>2. u.root = t.root /\ u.up = x /\ u.kids = t.kids /\ u.at = t.at /\ u.len = t.len
  BY <1>1
<1>3. PICK U, K, A, L : /\ U = [Node -> Pointer] /\ K = [Node -> Seq(Node)]
                        /\ A = [Node -> Place] /\ L = [Node -> Int]
  OBVIOUS
<1>4. /\ Trees = [root : Pointer, up : U, kids : K, at : A, len : L] /\ x \in U
      /\ t.root \in Pointer /\ t.up \in U /\ t.kids \in K /\ t.at \in A /\ t.len \in L
  BY <1>3, TreesAre DEF Trees
<1>5. u \in Trees
  BY <1>1, <1>4
<1> QED
  BY <1>2, <1>5 DEF Has

LEMMA PutKids ==
    ASSUME NEW t \in Trees, NEW x \in [Node -> Seq(Node)]
    PROVE  Has([t EXCEPT !.kids = x], t.root, t.up, x, t.at, t.len)
<1> DEFINE u == [t EXCEPT !.kids = x]
<1>1. t = [root |-> t.root, up |-> t.up, kids |-> t.kids, at |-> t.at, len |-> t.len]
  BY DEF Trees
<1>2. u.root = t.root /\ u.up = t.up /\ u.kids = x /\ u.at = t.at /\ u.len = t.len
  BY <1>1
<1>3. PICK U, K, A, L : /\ U = [Node -> Pointer] /\ K = [Node -> Seq(Node)]
                        /\ A = [Node -> Place] /\ L = [Node -> Int]
  OBVIOUS
<1>4. /\ Trees = [root : Pointer, up : U, kids : K, at : A, len : L] /\ x \in K
      /\ t.root \in Pointer /\ t.up \in U /\ t.kids \in K /\ t.at \in A /\ t.len \in L
  BY <1>3, TreesAre DEF Trees
<1>5. u \in Trees
  BY <1>1, <1>4
<1> QED
  BY <1>2, <1>5 DEF Has

LEMMA PutAt ==
    ASSUME NEW t \in Trees, NEW x \in [Node -> Place]
    PROVE  Has([t EXCEPT !.at = x], t.root, t.up, t.kids, x, t.len)
<1> DEFINE u == [t EXCEPT !.at = x]
<1>1. t = [root |-> t.root, up |-> t.up, kids |-> t.kids, at |-> t.at, len |-> t.len]
  BY DEF Trees
<1>2. u.root = t.root /\ u.up = t.up /\ u.kids = t.kids /\ u.at = x /\ u.len = t.len
  BY <1>1
<1>3. PICK U, K, A, L : /\ U = [Node -> Pointer] /\ K = [Node -> Seq(Node)]
                        /\ A = [Node -> Place] /\ L = [Node -> Int]
  OBVIOUS
<1>4. /\ Trees = [root : Pointer, up : U, kids : K, at : A, len : L] /\ x \in A
      /\ t.root \in Pointer /\ t.up \in U /\ t.kids \in K /\ t.at \in A /\ t.len \in L
  BY <1>3, TreesAre DEF Trees
<1>5. u \in Trees
  BY <1>1, <1>4
<1> QED
  BY <1>2, <1>5 DEF Has

LEMMA PutLen ==
    ASSUME NEW t \in Trees, NEW x \in [Node -> Int]
    PROVE  Has([t EXCEPT !.len = x], t.root, t.up, t.kids, t.at, x)
<1> DEFINE u == [t EXCEPT !.len = x]
<1>1. t = [root |-> t.root, up |-> t.up, kids |-> t.kids, at |-> t.at, len |-> t.len]
  BY DEF Trees
<1>2. u.root = t.root /\ u.up = t.up /\ u.kids = t.kids /\ u.at = t.at /\ u.len = x
  BY <1>1
<1>3. PICK U, K, A, L : /\ U = [Node -> Pointer] /\ K = [Node -> Seq(Node)]
                        /\ A = [Node -> Place] /\ L = [Node -> Int]
  OBVIOUS
<1>4. /\ Trees = [root : Pointer, up : U, kids : K, at : A, len : L] /\ x \in L
      /\ t.root \in Pointer /\ t.up \in U /\ t.kids \in K /\ t.at \in A /\ t.len \in L
  BY <1>3, TreesAre DEF Trees
<1>5. u \in Trees
  BY <1>1, <1>4
<1> QED
  BY <1>2, <1>5 DEF Has

LEMMA ClearedIs ==
    ASSUME NEW t \in Trees, NEW n \in Node, NEW u, u = Cleared(t, n)
    PROVE  Has(u, t.root, [t.up EXCEPT ![n] = NULL], [t.kids EXCEPT ![n] = <<>>],
               [t.at EXCEPT ![n] = NoString], [t.len EXCEPT ![n] = 0])
<1>1. PICK U, K, A, L : /\ U = [t.up EXCEPT ![n] = NULL] /\ K = [t.kids EXCEPT ![n] = <<>>]
                        /\ A = [t.at EXCEPT ![n] = NoString] /\ L = [t.len EXCEPT ![n] = 0]
  OBVIOUS
<1>2. /\ t.up \in [Node -> Pointer] /\ t.kids \in [Node -> Seq(Node)]
      /\ t.at \in [Node -> Place] /\ t.len \in [Node -> Int]
  BY TreesAre
<1>3. U \in [Node -> Pointer] /\ K \in [Node -> Seq(Node)] /\ A \in [Node -> Place] /\ L \in [Node -> Int]
  BY <1>1, <1>2, Nodes
<1>4. PICK r, B, C, D, E : t = [root |-> r, up |-> B, kids |-> C, at |-> D, len |-> E]
  <2>1. t = [root |-> t.root, up |-> t.up, kids |-> t.kids, at |-> t.at, len |-> t.len]
    BY DEF Trees
  <2> QED
    BY <2>1
<1>5. t.root = r /\ t.up = B /\ t.kids = C /\ t.at = D /\ t.len = E
  BY <1>4
<1>6. u = [root |-> r, up |-> U, kids |-> K, at |-> A, len |-> L]
  BY <1>1, <1>4, <1>5 DEF Cleared
<1>7. r \in Pointer
  BY <1>5, TreesAre
<1>8. u \in Trees
  BY <1>3, <1>6, <1>7 DEF Trees
<1>9. u.root = r /\ u.up = U /\ u.kids = K /\ u.at = A /\ u.len = L
  BY <1>6
<1> QED
  BY <1>1, <1>5, <1>8, <1>9 DEF Has

LEMMA InitNodeIs ==
    ASSUME NEW t \in Trees, NEW k \in Key, NEW u, u = InitNode(t, k)
    PROVE  Has(u, t.root, [t.up EXCEPT ![k] = NULL], [t.kids EXCEPT ![k] = <<>>],
               [t.at EXCEPT ![k] = From(k, 0)], [t.len EXCEPT ![k] = Len(k)])
<1>1. NULL \in Pointer /\ From(k, 0) \in Place /\ <<>> \in Seq(Node) /\ Len(k) \in Int
  BY Nodes DEF Place, From
<1> QED
  BY <1>1 DEF InitNode, Trees, From, Has

Fits(t, p, c, a, S, w) ==
    /\ Row(t.kids[p], S) /\ c \notin S
    /\ \A x \in S : Hangs(t.at[x], w) /\ Letter(t.at[x]) # Letter(a)
    /\ Hangs(a, w) /\ Apart(t.at, S)
Hung(t, u, p, c, a, l, S) ==
    /\ u \in Trees /\ u.root = t.root
    /\ \A x \in Node : u.up[x] = IF x = c THEN p ELSE t.up[x]
    /\ \A x \in Node : u.at[x] = IF x = c THEN a ELSE t.at[x]
    /\ \A x \in Node : u.len[x] = IF x = c THEN l ELSE t.len[x]
    /\ \A x \in Node \ {p} : u.kids[x] = t.kids[x]
    /\ Row(u.kids[p], S \cup {c}) /\ Len(u.kids[p]) = Len(t.kids[p]) + 1

LEMMA AddNodeIs ==
    ASSUME NEW t \in Trees, NEW p \in Node, NEW c \in Node, NEW a \in Place, NEW l \in Int,
           NEW S, NEW w, Fits(t, p, c, a, S, w)
    PROVE  Hung(t, AddNode(t, p, c, a, l), p, c, a, l, S)
<1>20. PICK u : u = AddNode(t, p, c, a, l)
  OBVIOUS
<1>21. /\ Row(t.kids[p], S) /\ c \notin S /\ Hangs(a, w) /\ Apart(t.at, S)
       /\ \A x \in S : Hangs(t.at[x], w) /\ Letter(t.at[x]) # Letter(a)
  BY DEF Fits
<1>1. PICK v : v = [t EXCEPT !.up[c] = p, !.at[c] = a, !.len[c] = l]
  OBVIOUS
<1>2. /\ v \in Trees /\ v.root = t.root /\ v.kids = t.kids
      /\ v.up = [t.up EXCEPT ![c] = p]
      /\ v.at = [t.at EXCEPT ![c] = a] /\ v.len = [t.len EXCEPT ![c] = l]
  BY <1>1, Nodes DEF Trees
<1>3. S \in SUBSET Node
  BY <1>21, RowIs
<1>4. First(v, c) = Letter(a) /\ \A x \in S : First(v, x) = Letter(t.at[x])
  BY <1>2, <1>3, <1>21 DEF First, Trees
<1>5. \A x \in S \cup {c} : First(v, x) \in 1 .. 3
  BY <1>4, <1>21 DEF Hangs
<1>6. \A x, y \in S \cup {c} : First(v, x) = First(v, y) => x = y
  BY <1>4, <1>21 DEF Apart
<1>7. PICK j : j = Joined(v, t.kids[p], c)
  OBVIOUS
<1>8. Row(j, S \cup {c}) /\ Len(j) = Len(t.kids[p]) + 1 /\ j \in Seq(Node)
  <2>1. Row(j, S \cup {c}) /\ Len(j) = Len(t.kids[p]) + 1
    BY <1>5, <1>6, <1>7, <1>21, JoinedIs
  <2> QED
    BY <2>1 DEF Row
<1>9. u = [v EXCEPT !.kids[p] = j]
  BY <1>1, <1>2, <1>7, <1>20 DEF AddNode, Trees
<1>10. PICK K : K = [v.kids EXCEPT ![p] = j]
  OBVIOUS
<1>11. K \in [Node -> Seq(Node)] /\ K[p] = j /\ \A x \in Node \ {p} : K[x] = t.kids[x]
  BY <1>2, <1>8, <1>10, TreesAre
<1>12. u = [v EXCEPT !.kids = K]
  BY <1>9, <1>10
<1>13. Has(u, v.root, v.up, K, v.at, v.len)
  BY <1>2, <1>11, <1>12, PutKids
<1>14. /\ \A x \in Node : u.up[x] = IF x = c THEN p ELSE t.up[x]
       /\ \A x \in Node : u.at[x] = IF x = c THEN a ELSE t.at[x]
       /\ \A x \in Node : u.len[x] = IF x = c THEN l ELSE t.len[x]
  BY <1>2, <1>13, TreesAre DEF Has
<1>15. /\ u \in Trees /\ u.root = t.root
       /\ \A x \in Node \ {p} : u.kids[x] = t.kids[x]
       /\ Row(u.kids[p], S \cup {c}) /\ Len(u.kids[p]) = Len(t.kids[p]) + 1
  BY <1>2, <1>8, <1>11, <1>13, Zenon DEF Has
<1> QED
  BY <1>14, <1>15, <1>20 DEF Hung

Unhung(t, u, p, c, S) ==
    /\ u \in Trees /\ u.root = t.root /\ u.up = t.up /\ u.at = t.at /\ u.len = t.len
    /\ \A x \in Node \ {p} : u.kids[x] = t.kids[x]
    /\ Row(u.kids[p], S \ {c}) /\ Len(u.kids[p]) = Len(t.kids[p]) - 1

LEMMA WithoutIs ==
    ASSUME NEW t \in Trees, NEW p \in Node, NEW S, Row(t.kids[p], S), NEW c \in S
    PROVE  Unhung(t, Without(t, p, c), p, c, S)
<1>9. PICK u : u = Without(t, p, c)
  OBVIOUS
<1>1. PICK j : j = RemoveAt(t.kids[p], CHOOSE i \in DOMAIN t.kids[p] : t.kids[p][i] = c)
  OBVIOUS
<1>2. Row(j, S \ {c}) /\ Len(j) = Len(t.kids[p]) - 1
  <2>1. PICK s : s = t.kids[p]
    OBVIOUS
  <2>2. Row(s, S) /\ j = RemoveAt(s, CHOOSE i \in DOMAIN s : s[i] = c)
    BY <1>1, <2>1, Zenon
  <2>3. Row(j, S \ {c}) /\ Len(j) = Len(s) - 1
    BY <2>2, RowOff
  <2> QED
    BY <2>1, <2>3, Zenon
<1>3. j \in Seq(Node)
  BY <1>2 DEF Row
<1>4. u = [t EXCEPT !.kids[p] = j]
  BY <1>1, <1>9 DEF Without, Trees
<1>5. PICK K : K = [t.kids EXCEPT ![p] = j]
  OBVIOUS
<1>6. K \in [Node -> Seq(Node)] /\ K[p] = j /\ \A x \in Node \ {p} : K[x] = t.kids[x]
  BY <1>3, <1>5, TreesAre
<1>7. u = [t EXCEPT !.kids = K]
  BY <1>4, <1>5
<1>8. Has(u, t.root, t.up, K, t.at, t.len)
  BY <1>6, <1>7, PutKids
<1> QED
  BY <1>2, <1>6, <1>8, <1>9, Zenon DEF Has, Unhung

Parented(t, p, S, w, b) ==
    /\ Row(t.kids[p], S) /\ \A x \in S : Hangs(t.at[x], w)
    /\ PieceIs(t.at[p], t.len[p], b, w, p)

Renewed(t, u, c, p) ==
    /\ u.up = t.up /\ u.kids = t.kids /\ u.len = t.len
    /\ p = NULL => u \in Trees /\ u.root = c /\ u.at = t.at
    /\ p # NULL => /\ u.root = t.root /\ p \in Node
                   /\ \A x \in Node \ {p} : u.at[x] = t.at[x]
                   /\ \A S : \A b \in Nat, w \in Word : Parented(t, p, S, w, b)
                        => u \in Trees /\ PieceIs(u.at[p], u.len[p], b, w, p)

LEMMA UpdateParentIs ==
    ASSUME NEW t \in Trees, NEW c \in Node
    PROVE  Renewed(t, UpdateParent(t, c), c, t.up[c])
<1>3. PICK p : p = t.up[c]
  OBVIOUS
<1>4. PICK u : u = UpdateParent(t, c)
  OBVIOUS
<1>1. ASSUME p = NULL PROVE Renewed(t, u, c, p)
  <2>1. u = [t EXCEPT !.root = c]
    BY <1>1, <1>3, <1>4 DEF UpdateParent
  <2>2. c \in Pointer
    BY Nodes
  <2> QED
    BY <1>1, <2>1, <2>2, PutRoot DEF Has, Renewed
<1>2. ASSUME p # NULL PROVE Renewed(t, u, c, p)
  <2>1. p \in Node
    BY <1>2, <1>3, Nodes DEF Trees
  <2>2. CASE Valid(p) \/ t.kids[p] = <<>> \/ t.at[p] = NoString
    <3>1. u = t
      BY <1>2, <1>3, <1>4, <2>2 DEF UpdateParent
    <3> QED
      BY <1>2, <2>1, <3>1 DEF Renewed, Parented
  <2>3. CASE ~(Valid(p) \/ t.kids[p] = <<>> \/ t.at[p] = NoString)
    <3>1. PICK e : e = Ahead(t.at[Head(t.kids[p])], -t.len[p])
      OBVIOUS
    <3>2. u = [t EXCEPT !.at[p] = e]
      BY <1>2, <1>3, <1>4, <2>3, <3>1 DEF UpdateParent
    <3>3. u.up = t.up /\ u.kids = t.kids /\ u.len = t.len /\ u.root = t.root /\ u.at = [t.at EXCEPT ![p] = e]
      BY <3>2 DEF Trees
    <3>4. u.at[p] = e /\ \A x \in Node \ {p} : u.at[x] = t.at[x]
      BY <2>1, <3>3 DEF Trees
    <3>5. ASSUME NEW S, NEW b \in Nat, NEW w \in Word, Row(t.kids[p], S),
                 \A x \in S : Hangs(t.at[x], w), PieceIs(t.at[p], t.len[p], b, w, p)
          PROVE  u \in Trees /\ PieceIs(u.at[p], u.len[p], b, w, p)
      <4>1. PICK h : h = Head(t.kids[p])
        OBVIOUS
      <4>2. h \in S /\ h \in Node
        BY <2>3, <3>5, <4>1, RowIs
      <4>3. PICK d : d = t.at[h]
        OBVIOUS
      <4>4. d \in Place /\ d.str \in Key /\ Pre(w, d.str) /\ d.off = Len(w)
        BY <3>5, <4>2, <4>3 DEF Hangs, Trees
      <4>5. t.at[p] \in Place /\ t.len[p] \in Int /\ p \in Split /\ w # <<>>
        BY <2>1, <2>3, <3>5, Nodes DEF Trees, PieceIs
      <4>6. e = Ahead(d, -t.len[p])
        BY <3>1, <4>1, <4>3
      <4>7. e \in Place /\ PieceIs(e, t.len[p], b, w, p)
        BY <3>5, <4>4, <4>5, <4>6, PieceBorrowed
      <4>8. u \in Trees
        <5>1. [t.at EXCEPT ![p] = e] \in [Node -> Place]
          BY <2>1, <4>7, TreesAre
        <5> QED
          BY <3>2, <5>1, PutAt DEF Has
      <4> QED
        BY <3>3, <3>4, <4>7, <4>8
    <3> QED
      BY <1>2, <2>1, <3>3, <3>4, <3>5 DEF Renewed, Parented
  <2> QED
    BY <2>2, <2>3
<1>5. Renewed(t, u, c, p)
  BY <1>1, <1>2
<1> QED
  BY <1>3, <1>4, <1>5

Claimed(t, u, c, S) ==
    /\ u \in Trees /\ u.root = t.root /\ u.at = t.at /\ u.len = t.len /\ u.kids = t.kids
    /\ \A x \in Node : u.up[x] = IF x \in S THEN c ELSE t.up[x]

LEMMA UpdateChildrenIs ==
    ASSUME NEW t \in Trees, NEW c \in Node, NEW S, Row(t.kids[c], S)
    PROVE  Claimed(t, UpdateChildren(t, c), c, S)
<1>5. PICK u : u = UpdateChildren(t, c)
  OBVIOUS
<1>1. Range(t.kids[c]) = S /\ c \in Pointer
  BY RowIs, Nodes
<1>2. PICK U : U = [n \in Node |-> IF n \in S THEN c ELSE t.up[n]]
  OBVIOUS
<1>3. u = [t EXCEPT !.up = U]
  BY <1>1, <1>2, <1>5 DEF UpdateChildren
<1>4. U \in [Node -> Pointer] /\ \A x \in Node : U[x] = IF x \in S THEN c ELSE t.up[x]
  BY <1>1, <1>2, TreesAre
<1> QED
  <2>1. Has(u, t.root, U, t.kids, t.at, t.len)
    BY <1>3, <1>4, PutUp
  <2> QED
    BY <1>4, <1>5, <2>1, Zenon DEF Has, Claimed

Replaced(t, u, old, new, p, S) ==
    /\ u \in Trees /\ u.root = t.root
    /\ \A x \in Node : u.up[x] = IF x = new THEN p ELSE t.up[x]
    /\ \A x \in Node : u.at[x] = IF x = new THEN NewStart(t, old, new) ELSE t.at[x]
    /\ \A x \in Node : u.len[x] = IF x = new THEN t.len[old] ELSE t.len[x]
    /\ \A x \in Node : x # p /\ x # new => u.kids[x] = t.kids[x]
    /\ u.kids[new] = t.kids[old]
    /\ p # NULL => /\ Row(u.kids[p], (S \ {old}) \cup {new})
                   /\ Len(u.kids[p]) = Len(t.kids[p])

LEMMA ReplaceNodeIs ==
    ASSUME NEW t \in Trees, NEW old \in Node, NEW new \in Node, t.up[old] # new,
           NewStart(t, old, new) \in Place,
           NEW S, t.up[old] # NULL => Row(t.kids[t.up[old]], S) /\ old \in S /\ new \notin S
    PROVE  Replaced(t, ReplaceNode(t, old, new), old, new, t.up[old], S)
<1>20. PICK p : p = t.up[old]
  OBVIOUS
<1>21. PICK u : u = ReplaceNode(t, old, new)
  OBVIOUS
<1>22. p # new /\ (p # NULL => Row(t.kids[p], S) /\ old \in S /\ new \notin S)
  BY <1>20
<1>1. /\ t.root \in Pointer /\ t.up \in [Node -> Pointer] /\ t.kids \in [Node -> Seq(Node)]
      /\ t.at \in [Node -> Place] /\ t.len \in [Node -> Int]
  BY TreesAre
<1>2. p \in Pointer /\ (p # NULL => p \in Node)
  BY <1>1, <1>20, Nodes
<1>3. PICK h : h = IF p = NULL THEN t
                   ELSE [t EXCEPT !.kids[p] = [i \in DOMAIN @ |-> IF @[i] = old THEN new ELSE @[i]]]
  OBVIOUS
<1>4. /\ h \in Trees /\ h.root = t.root /\ h.up = t.up /\ h.at = t.at /\ h.len = t.len
      /\ \A x \in Node : x # p => h.kids[x] = t.kids[x]
      /\ p # NULL => Row(h.kids[p], (S \ {old}) \cup {new}) /\ Len(h.kids[p]) = Len(t.kids[p])
  <2>1. CASE p = NULL
    BY <1>3, <2>1
  <2>2. CASE p # NULL
    <3>1. PICK s : s = t.kids[p]
      OBVIOUS
    <3>2. PICK j : j = [i \in DOMAIN s |-> IF s[i] = old THEN new ELSE s[i]]
      OBVIOUS
    <3>3. Row(s, S) /\ old \in S /\ new \in Node \ S
      BY <1>22, <2>2, <3>1
    <3>4. Row(j, (S \ {old}) \cup {new}) /\ Len(j) = Len(s)
      BY <3>2, <3>3, RowSwap
    <3>5. j \in Seq(Node)
      BY <3>4 DEF Row
    <3>6. PICK K : K = [t.kids EXCEPT ![p] = j]
      OBVIOUS
    <3>7. K \in [Node -> Seq(Node)] /\ K[p] = j /\ \A x \in Node : x # p => K[x] = t.kids[x]
      BY <1>1, <1>2, <2>2, <3>5, <3>6
    <3>8. h = [t EXCEPT !.kids = K]
      BY <1>3, <2>2, <3>1, <3>2, <3>6
    <3>9. Has(h, t.root, t.up, K, t.at, t.len)
      BY <3>7, <3>8, PutKids
    <3> QED
      BY <3>1, <3>4, <3>7, <3>9, Zenon DEF Has
  <2> QED
    BY <2>1, <2>2
<1>5. PICK U, K, A, L : /\ U = [h.up EXCEPT ![new] = p] /\ K = [h.kids EXCEPT ![new] = t.kids[old]]
                        /\ A = [h.at EXCEPT ![new] = NewStart(t, old, new)]
                        /\ L = [h.len EXCEPT ![new] = t.len[old]]
  OBVIOUS
<1>6. /\ h.root \in Pointer /\ h.up \in [Node -> Pointer] /\ h.kids \in [Node -> Seq(Node)]
      /\ h.at \in [Node -> Place] /\ h.len \in [Node -> Int]
  BY <1>4, TreesAre
<1>7. /\ U \in [Node -> Pointer] /\ K \in [Node -> Seq(Node)]
      /\ A \in [Node -> Place] /\ L \in [Node -> Int]
  BY <1>1, <1>2, <1>5, <1>6
<1>8. PICK r, B, C, D, E : h = [root |-> r, up |-> B, kids |-> C, at |-> D, len |-> E]
  <2>1. h = [root |-> h.root, up |-> h.up, kids |-> h.kids, at |-> h.at, len |-> h.len]
    BY <1>4 DEF Trees
  <2> QED
    BY <2>1
<1>9. h.root = r /\ h.up = B /\ h.kids = C /\ h.at = D /\ h.len = E
  BY <1>8
<1>10. u = [h EXCEPT !.up[new] = p, !.kids[new] = t.kids[old],
                     !.at[new] = NewStart(t, old, new), !.len[new] = t.len[old]]
  BY <1>3, <1>20, <1>21 DEF ReplaceNode
<1>11. u = [root |-> r, up |-> U, kids |-> K, at |-> A, len |-> L]
  BY <1>5, <1>8, <1>9, <1>10
<1>12. u \in Trees
  BY <1>6, <1>7, <1>9, <1>11 DEF Trees
<1>13. u.root = r /\ u.up = U /\ u.kids = K /\ u.at = A /\ u.len = L
  BY <1>11
<1>14. K[new] = t.kids[old] /\ \A x \in Node : x # new => K[x] = h.kids[x]
  BY <1>5, <1>6
<1>15. u.root = t.root
  BY <1>4, <1>9, <1>13
<1>16. /\ \A x \in Node : x # p /\ x # new => u.kids[x] = t.kids[x]
       /\ u.kids[new] = t.kids[old]
  BY <1>4, <1>13, <1>14, <1>22
<1>17. p # NULL => /\ Row(u.kids[p], (S \ {old}) \cup {new})
                   /\ Len(u.kids[p]) = Len(t.kids[p])
  BY <1>2, <1>4, <1>13, <1>14, <1>22
<1>18. /\ \A x \in Node : u.up[x] = IF x = new THEN p ELSE t.up[x]
       /\ \A x \in Node : u.at[x] = IF x = new THEN NewStart(t, old, new) ELSE t.at[x]
       /\ \A x \in Node : u.len[x] = IF x = new THEN t.len[old] ELSE t.len[x]
  BY <1>1, <1>4, <1>5, <1>13
<1> QED
  BY <1>12, <1>15, <1>16, <1>17, <1>18, <1>20, <1>21 DEF Replaced

RootCut(t, u, n, a, l) ==
    /\ u \in Trees /\ u.root = n /\ u.kids = t.kids
    /\ \A x \in Node : u.up[x] = IF x = n THEN NULL ELSE t.up[x]
    /\ \A x \in Node : u.len[x] = IF x = n THEN l ELSE t.len[x]
    /\ \A x \in Node : u.at[x] = IF x = n THEN (IF l > 0 THEN a ELSE NoString) ELSE t.at[x]

LEMMA CutRootIs ==
    ASSUME NEW t \in Trees, NEW cut \in Node, NEW n \in Node, t.up[cut] = NULL,
           NEW a \in Place, NEW l \in Int
    PROVE  RootCut(t, CutAndAdd(t, cut, n, a, l), n, a, l)
<1>12. PICK u : u = CutAndAdd(t, cut, n, a, l)
  OBVIOUS
<1>1. /\ t.root \in Pointer /\ t.up \in [Node -> Pointer] /\ t.kids \in [Node -> Seq(Node)]
      /\ t.at \in [Node -> Place] /\ t.len \in [Node -> Int]
  BY TreesAre
<1>2. PICK e : e = IF l > 0 THEN a ELSE NoString
  OBVIOUS
<1>3. e \in Place /\ n \in Pointer /\ NULL \in Pointer
  BY <1>2, Nodes
<1>4. PICK U, A, L : U = [t.up EXCEPT ![n] = NULL] /\ A = [t.at EXCEPT ![n] = e] /\ L = [t.len EXCEPT ![n] = l]
  OBVIOUS
<1>5. U \in [Node -> Pointer] /\ A \in [Node -> Place] /\ L \in [Node -> Int]
  BY <1>1, <1>3, <1>4
<1>6. PICK r, B, C, D, E : t = [root |-> r, up |-> B, kids |-> C, at |-> D, len |-> E]
  <2>1. t = [root |-> t.root, up |-> t.up, kids |-> t.kids, at |-> t.at, len |-> t.len]
    BY DEF Trees
  <2> QED
    BY <2>1
<1>7. t.root = r /\ t.up = B /\ t.kids = C /\ t.at = D /\ t.len = E
  BY <1>6
<1>8. u = [t EXCEPT !.root = n, !.up[n] = NULL, !.len[n] = l, !.at[n] = e]
  BY <1>2, <1>12 DEF CutAndAdd
<1>9. u = [root |-> n, up |-> U, kids |-> C, at |-> A, len |-> L]
  BY <1>4, <1>6, <1>7, <1>8
<1>10. u \in Trees
  BY <1>1, <1>3, <1>5, <1>7, <1>9 DEF Trees
<1>11. u.root = n /\ u.up = U /\ u.kids = C /\ u.at = A /\ u.len = L
  BY <1>9
<1>13. /\ \A x \in Node : u.up[x] = IF x = n THEN NULL ELSE t.up[x]
       /\ \A x \in Node : u.len[x] = IF x = n THEN l ELSE t.len[x]
       /\ \A x \in Node : u.at[x] = IF x = n THEN e ELSE t.at[x]
  BY <1>1, <1>4, <1>11
<1> QED
  BY <1>2, <1>7, <1>10, <1>11, <1>12, <1>13 DEF RootCut

LEMMA RenewedIs ==
    ASSUME NEW t, NEW u, NEW c, NEW p, Renewed(t, u, c, p), p # NULL,
           NEW S, NEW b \in Nat, NEW w \in Word, Parented(t, p, S, w, b)
    PROVE  u \in Trees /\ PieceIs(u.at[p], u.len[p], b, w, p)
BY DEF Renewed

BelowCut(t, u, cut, n, p, a, l, S) ==
    /\ u \in Trees /\ u.root = t.root
    /\ \A x \in Node : u.up[x] = IF x = n THEN p ELSE t.up[x]
    /\ \A x \in Node : u.len[x] = IF x = n THEN l ELSE t.len[x]
    /\ \A x \in Node \ {p} : u.kids[x] = t.kids[x]
    /\ Row(u.kids[p], (S \ {cut}) \cup {n}) /\ Len(u.kids[p]) = Len(t.kids[p])
    /\ \A x \in Node \ {p} : u.at[x] = IF x = n THEN a ELSE t.at[x]

LEMMA CutBelowIs ==
    ASSUME NEW t \in Trees, NEW cut \in Node, NEW n \in Node, NEW p \in Node, p = t.up[cut],
           NEW a \in Place, NEW l \in Int, l > 0, n # p,
           NEW S, Row(t.kids[p], S), cut \in S, NEW w \in Word, NEW b \in Nat,
           PieceIs(t.at[p], t.len[p], b, w, p), n \notin S \ {cut}, Hangs(a, w),
           \A x \in S \ {cut} : Hangs(t.at[x], w) /\ Letter(t.at[x]) # Letter(a),
           Apart(t.at, S), NEW u, u = CutAndAdd(t, cut, n, a, l)
    PROVE  BelowCut(t, u, cut, n, p, a, l, S) /\ PieceIs(u.at[p], u.len[p], b, w, p)
<1>1. p # NULL
  BY Nodes
<1>2. PICK v : v = Without(t, p, cut)
  OBVIOUS
<1>3. PICK x : x = AddNode(v, p, n, a, l)
  OBVIOUS
<1>4. u = UpdateParent(x, n)
  BY <1>1, <1>2, <1>3 DEF CutAndAdd
<1>5. Unhung(t, v, p, cut, S)
  BY <1>2, WithoutIs
<1>6. PICK R : R = S \ {cut}
  OBVIOUS
<1>7. Fits(v, p, n, a, R, w) /\ v \in Trees
  BY <1>5, <1>6 DEF Fits, Unhung, Apart
<1>8. Hung(v, x, p, n, a, l, R)
  BY <1>3, <1>7, AddNodeIs
<1>9. x \in Trees /\ x.up[n] = p
  BY <1>8 DEF Hung
<1>10. Renewed(x, u, n, p)
  BY <1>4, <1>9, UpdateParentIs
<1>11. R \in SUBSET Node
  BY <1>6, RowIs
<1>12. \A e \in Node : x.at[e] = (IF e = n THEN a ELSE t.at[e])
  BY <1>5, <1>8 DEF Hung, Unhung
<1>13. x.at[p] = t.at[p] /\ x.len[p] = t.len[p]
  BY <1>5, <1>8 DEF Hung, Unhung
<1>14. Parented(x, p, R \cup {n}, w, b)
  <2>1. \A e \in R \cup {n} : Hangs(x.at[e], w)
    BY <1>6, <1>11, <1>12
  <2>2. Row(x.kids[p], R \cup {n})
    BY <1>8 DEF Hung
  <2> QED
    BY <1>13, <2>1, <2>2 DEF Parented
<1>15. u \in Trees /\ PieceIs(u.at[p], u.len[p], b, w, p)
  BY <1>1, <1>10, <1>14, RenewedIs
<1>16. Len(u.kids[p]) = Len(t.kids[p])
  <2>1. Len(t.kids[p]) \in Nat
    BY RowIs
  <2>2. Len(v.kids[p]) = Len(t.kids[p]) - 1
    BY <1>5 DEF Unhung
  <2>3. Len(x.kids[p]) = Len(v.kids[p]) + 1 /\ u.kids = x.kids
    BY <1>8, <1>10 DEF Hung, Renewed
  <2> QED
    BY <2>1, <2>2, <2>3
<1>17. /\ u.root = t.root /\ \A e \in Node : u.up[e] = IF e = n THEN p ELSE t.up[e]
       /\ \A e \in Node : u.len[e] = IF e = n THEN l ELSE t.len[e]
  BY <1>1, <1>5, <1>8, <1>10 DEF Hung, Unhung, Renewed
<1>18. /\ \A e \in Node \ {p} : u.kids[e] = t.kids[e]
       /\ Row(u.kids[p], R \cup {n})
  BY <1>1, <1>5, <1>8, <1>10 DEF Hung, Unhung, Renewed
<1>19. \A e \in Node \ {p} : u.at[e] = IF e = n THEN a ELSE t.at[e]
  BY <1>1, <1>10, <1>12 DEF Renewed
<1> QED
  BY <1>6, <1>15, <1>16, <1>17, <1>18, <1>19 DEF BelowCut

-----------------------------------------------------------------------------
\* The fields of the nodes of P make the tree of the words W with the root r: the
\* branches of a node are those that have it for a parent, and each node's
\* piece ends its word.
KidsIn(P, up, n) == {c \in P : up[c] = n}
Base(up, W, n) == IF up[n] = NULL THEN 0 ELSE Len(W[up[n]])
RepIn(t, W, P, r) ==
    /\ t \in Trees /\ W \in [Node -> Word] /\ P \in SUBSET Node
    /\ Trie(P, r, t.up, W)
    /\ \A n \in P : Row(t.kids[n], KidsIn(P, t.up, n))
    /\ \A n \in P : PieceIs(t.at[n], t.len[n], Base(t.up, W, n), W[n], n)

LEMMA InNode ==
    ASSUME NEW t, NEW W, NEW P, NEW r, RepIn(t, W, P, r), NEW n \in P
    PROVE  /\ n \in Node /\ n # NULL /\ W[n] \in Word /\ Len(W[n]) \in Nat
           /\ t.at[n] \in Place /\ t.len[n] \in Int /\ t.up[n] \in Pointer /\ r \in P
           /\ n = r <=> t.up[n] = NULL
           /\ PieceIs(t.at[n], t.len[n], Base(t.up, W, n), W[n], n)
           /\ Base(t.up, W, n) \in Nat /\ Base(t.up, W, n) <= Len(W[n])
           /\ t.len[n] = Len(W[n]) - Base(t.up, W, n)
           /\ t.up[n] = NULL => Base(t.up, W, n) = 0
           /\ W[n] = <<>> => n = r
           /\ t.up[n] # NULL =>
                 /\ t.up[n] \in P /\ t.up[n] # n
                 /\ Base(t.up, W, n) = Len(W[t.up[n]]) /\ Len(W[t.up[n]]) < Len(W[n])
                 /\ Pre(W[t.up[n]], W[n]) /\ Hangs(t.at[n], W[t.up[n]])
                 /\ Letter(t.at[n]) = W[n][Len(W[t.up[n]]) + 1]
<1>1. n \in Node /\ n # NULL
  BY Nodes DEF RepIn
<1>2. t.at[n] \in Place /\ t.len[n] \in Int /\ t.up[n] \in Pointer /\ W[n] \in Word
  BY <1>1, TreesAre DEF RepIn
<1>3. Len(W[n]) \in Nat
  BY <1>2, WordIs
<1>4. Trie(P, r, t.up, W)
  BY DEF RepIn
<1>5. r \in P /\ t.up[r] = NULL
  BY <1>4 DEF Trie
<1>6. n = r <=> t.up[n] = NULL
  BY <1>4, <1>5 DEF Trie
<1>7. PieceIs(t.at[n], t.len[n], Base(t.up, W, n), W[n], n)
  BY DEF RepIn
<1>8. ASSUME t.up[n] # NULL
      PROVE  /\ t.up[n] \in P /\ t.up[n] # n /\ Len(W[t.up[n]]) \in Nat
             /\ Base(t.up, W, n) = Len(W[t.up[n]]) /\ Len(W[t.up[n]]) < Len(W[n])
             /\ Pre(W[t.up[n]], W[n])
  <2>1. n \in P \ {r}
    BY <1>6, <1>8
  <2>2. t.up[n] \in P /\ Pre(W[t.up[n]], W[n]) /\ Len(W[t.up[n]]) < Len(W[n])
    BY <1>4, <2>1 DEF Trie
  <2>3. Len(W[t.up[n]]) \in Nat
    BY <1>4, <2>2, WordIs DEF Trie
  <2> QED
    BY <1>3, <1>8, <2>2, <2>3 DEF Base
<1>9. t.up[n] = NULL => Base(t.up, W, n) = 0
  BY DEF Base
<1>10. Base(t.up, W, n) \in Nat /\ Base(t.up, W, n) <= Len(W[n])
  BY <1>3, <1>8, <1>9
<1>11. t.len[n] = Len(W[n]) - Base(t.up, W, n)
  BY <1>2, <1>3, <1>7, WordIs DEF PieceIs
<1>12. W[n] = <<>> => n = r
  BY <1>2, <1>3, <1>6, <1>8, WordIs
<1>13. ASSUME t.up[n] # NULL
       PROVE  Hangs(t.at[n], W[t.up[n]]) /\ Letter(t.at[n]) = W[n][Len(W[t.up[n]]) + 1]
  <2>1. W[n] # <<>>
    BY <1>6, <1>12, <1>13
  <2>2. t.at[n].str \in Key /\ Pre(W[n], t.at[n].str) /\ t.at[n].off = Len(W[t.up[n]])
    BY <1>7, <1>8, <1>13, <2>1 DEF PieceIs
  <2>3. t.at[n].str \in Word /\ W[t.up[n]] \in Word
    BY <1>4, <1>8, <1>13, <2>2, Nodes DEF Trie
  <2>4. Pre(W[t.up[n]], t.at[n].str)
    BY <1>2, <1>8, <1>13, <2>2, <2>3, PreTrans
  <2>5. PICK b : b = Len(W[t.up[n]])
    OBVIOUS
  <2>6. b \in Nat /\ b < Len(W[n]) /\ PieceIs(t.at[n], t.len[n], b, W[n], n)
    BY <1>7, <1>8, <1>13, <2>5
  <2>7. Letter(t.at[n]) = W[n][b + 1] /\ Letter(t.at[n]) \in 1 .. 3
    BY <1>2, <2>6, PieceFirst
  <2> QED
    BY <2>2, <2>4, <2>5, <2>7 DEF Hangs
<1> QED
  BY <1>1, <1>2, <1>3, <1>5, <1>6, <1>7, <1>8, <1>9, <1>10, <1>11, <1>12, <1>13

LEMMA InKids ==
    ASSUME NEW t, NEW W, NEW P, NEW r, RepIn(t, W, P, r), NEW p \in P
    PROVE  /\ Row(t.kids[p], KidsIn(P, t.up, p)) /\ Apart(t.at, KidsIn(P, t.up, p))
           /\ p # NULL /\ KidsIn(P, t.up, p) \in SUBSET Node
           /\ \A x \in KidsIn(P, t.up, p) : /\ t.up[x] = p /\ x \in P /\ x # r /\ x # p
                                            /\ Hangs(t.at[x], W[p]) /\ Len(W[p]) < Len(W[x])
                                            /\ Letter(t.at[x]) = W[x][Len(W[p]) + 1]
                                            /\ Pre(W[p], W[x])
<1>1. Row(t.kids[p], KidsIn(P, t.up, p)) /\ p # NULL /\ KidsIn(P, t.up, p) \in SUBSET Node
  BY Nodes DEF RepIn, KidsIn
<1>2. \A x \in KidsIn(P, t.up, p) : t.up[x] = p /\ t.up[x] # NULL /\ x \in P
  BY <1>1 DEF KidsIn
<1>3. \A x \in KidsIn(P, t.up, p) : /\ x # r /\ x # p /\ Hangs(t.at[x], W[p])
                                    /\ Len(W[p]) < Len(W[x])
                                    /\ Letter(t.at[x]) = W[x][Len(W[p]) + 1]
                                    /\ Pre(W[p], W[x])
  BY <1>2, InNode, SMTT(20)
<1>4. ASSUME NEW x \in KidsIn(P, t.up, p), NEW y \in KidsIn(P, t.up, p), Letter(t.at[x]) = Letter(t.at[y])
      PROVE  x = y
  <2>1. x \in P \ {r} /\ y \in P \ {r} /\ t.up[x] = t.up[y] /\ t.up[x] = p
    BY <1>2, <1>3
  <2>2. Trie(P, r, t.up, W)
    BY DEF RepIn
  <2>3. x # y => W[x][Len(W[t.up[x]]) + 1] # W[y][Len(W[t.up[x]]) + 1]
    BY <2>1, <2>2 DEF Trie
  <2> QED
    BY <1>3, <1>4, <2>1, <2>3
<1> QED
  BY <1>1, <1>2, <1>3, <1>4 DEF Apart

\* The whole tree: what is not in it has neither a parent nor branches.
Kids(up, n) == {c \in Node : up[c] = n}
Clean(t, P) == \A n \in Node : n \notin P => t.up[n] = NULL /\ t.kids[n] = <<>>
Rep(t, W) == RepIn(t, W, InTree(t), t.root) /\ Clean(t, InTree(t))

LEMMA RepFrom ==
    ASSUME NEW t, NEW W, NEW P, RepIn(t, W, P, t.root), t.root \in P, Clean(t, P)
    PROVE  Rep(t, W) /\ InTree(t) = P
<1>1. \A n \in P : n # t.root => t.up[n] # NULL
  BY InNode
<1>2. P \in SUBSET Node
  BY DEF RepIn
<1>3. InTree(t) = P
  BY <1>1, <1>2 DEF InTree, Clean
<1> QED
  BY <1>3 DEF Rep

LEMMA RepNode ==
    ASSUME NEW t, NEW W, Rep(t, W), NEW n \in InTree(t)
    PROVE  /\ n \in Node /\ n # NULL /\ W[n] \in Word /\ Len(W[n]) \in Nat
           /\ t.at[n] \in Place /\ t.len[n] \in Int /\ t.up[n] \in Pointer /\ t.root \in InTree(t)
           /\ n = t.root <=> t.up[n] = NULL
           /\ PieceIs(t.at[n], t.len[n], Base(t.up, W, n), W[n], n)
           /\ Base(t.up, W, n) \in Nat /\ Base(t.up, W, n) <= Len(W[n])
           /\ t.len[n] = Len(W[n]) - Base(t.up, W, n)
           /\ t.up[n] = NULL => Base(t.up, W, n) = 0
           /\ W[n] = <<>> => n = t.root
           /\ t.up[n] # NULL =>
                 /\ t.up[n] \in InTree(t) /\ t.up[n] # n
                 /\ Base(t.up, W, n) = Len(W[t.up[n]]) /\ Len(W[t.up[n]]) < Len(W[n])
                 /\ Pre(W[t.up[n]], W[n]) /\ Hangs(t.at[n], W[t.up[n]])
                 /\ Letter(t.at[n]) = W[n][Len(W[t.up[n]]) + 1]
<1>1. PICK P, r : P = InTree(t) /\ r = t.root
  OBVIOUS
<1>2. RepIn(t, W, P, r) /\ n \in P
  BY <1>1 DEF Rep
<1> QED
  BY <1>1, <1>2, InNode

LEMMA RepKids ==
    ASSUME NEW t, NEW W, Rep(t, W), NEW p \in Node
    PROVE  /\ Row(t.kids[p], Kids(t.up, p)) /\ Apart(t.at, Kids(t.up, p))
           /\ p # NULL /\ Kids(t.up, p) \in SUBSET Node
           /\ \A x \in Kids(t.up, p) : /\ t.up[x] = p /\ x \in InTree(t) /\ x # t.root /\ x # p
                                       /\ Hangs(t.at[x], W[p]) /\ Len(W[p]) < Len(W[x])
                                       /\ Letter(t.at[x]) = W[x][Len(W[p]) + 1]
                                       /\ Pre(W[p], W[x])
           /\ p \notin InTree(t) => /\ Kids(t.up, p) = {} /\ t.kids[p] = <<>>
                                    /\ t.up[p] = NULL /\ t.root # p
<1>1. PICK P, r : P = InTree(t) /\ r = t.root
  OBVIOUS
<1>2. RepIn(t, W, P, r) /\ Clean(t, P)
  BY <1>1 DEF Rep
<1>3. p # NULL /\ Kids(t.up, p) \in SUBSET Node
  BY Nodes DEF Kids
<1>4. Kids(t.up, p) = KidsIn(P, t.up, p)
  BY <1>1, <1>3 DEF Kids, KidsIn, InTree
<1>5. CASE p \in P
  BY <1>1, <1>2, <1>3, <1>4, <1>5, InKids
<1>6. CASE p \notin P
  <2>1. Kids(t.up, p) = {}
    <3> SUFFICES ASSUME NEW x \in KidsIn(P, t.up, p) PROVE FALSE
      BY <1>4
    <3>1. x \in P /\ t.up[x] = p
      BY DEF KidsIn
    <3> QED
      BY <1>2, <1>3, <1>6, <3>1, InNode
  <2>2. t.kids[p] = <<>> /\ t.up[p] = NULL /\ t.root # p
    BY <1>1, <1>2, <1>6 DEF Clean, InTree
  <2> QED
    BY <1>1, <1>3, <1>6, <2>1, <2>2, RowEmpty DEF Apart
<1> QED
  BY <1>5, <1>6

\* search_node: the letters of the node n that the key k has too.
LEMMA FirstOf ==
    ASSUME NEW most \in Nat, NEW D
    PROVE  \E i \in 0 .. most : /\ \A h \in 0 .. (i - 1) : h \notin D
                                /\ i = most \/ i \in D
<1>1. PICK T : T = {i \in 0 .. most : i = most \/ i \in D}
  OBVIOUS
<1>2. T \in SUBSET Nat /\ most \in T
  BY <1>1
<1>3. PICK i \in T : \A h \in T : i <= h
  BY <1>2, LeastOf
<1>4. i \in 0 .. most /\ (i = most \/ i \in D)
  BY <1>1, <1>3
<1>5. \A h \in 0 .. (i - 1) : h \notin D
  <2> TAKE h \in 0 .. (i - 1)
  <2>1. h \in 0 .. most /\ ~(i <= h)
    BY <1>4
  <2> QED
    BY <1>1, <1>3, <2>1
<1> QED
  BY <1>4, <1>5

IsBase(t, W, n, b) == b = Base(t.up, W, n)
Agreed(w, l, k, b, j) ==
    /\ j \in Nat /\ j <= l /\ b + j <= Len(k) /\ b + j <= Len(w)
    /\ \A h \in b + 1 .. b + j : w[h] = k[h]
    /\ j < l /\ b + j < Len(k) => w[b + j + 1] # k[b + j + 1]

LEMMA AgreeIs ==
    ASSUME NEW t, NEW W, Rep(t, W), NEW n \in InTree(t), NEW k \in Word,
           NEW b \in Nat, IsBase(t, W, n, b), b <= Len(k)
    PROVE  Agreed(W[n], t.len[n], k, b, Agree(t, n, k, b))
<1>1. /\ W[n] \in Word /\ Len(W[n]) \in Nat /\ Len(k) \in Nat /\ b <= Len(W[n])
      /\ t.len[n] = Len(W[n]) - b /\ t.at[n] \in Place /\ t.len[n] \in Int
      /\ PieceIs(t.at[n], t.len[n], b, W[n], n)
  BY RepNode, WordIs DEF IsBase
<1>2. PICK l, a, w, j : l = t.len[n] /\ a = t.at[n] /\ w = W[n] /\ j = Agree(t, n, k, b)
  OBVIOUS
<1>3. PICK D : D = {h \in Int : Letter(Ahead(a, h)) # k[b + h + 1]}
  OBVIOUS
<1>4. PICK most : most = IF l < Len(k) - b THEN l ELSE Len(k) - b
  OBVIOUS
<1>5. l \in Nat /\ Len(w) \in Nat /\ Len(k) \in Nat /\ l = Len(w) - b /\ b <= Len(w)
  BY <1>1, <1>2
<1>6. \A h \in 0 .. l - 1 : Letter(Ahead(a, h)) = w[b + h + 1]
  <2> TAKE h \in 0 .. l - 1
  <2>1. b \in 0 .. Len(w)
    BY <1>5
  <2> QED
    BY <1>1, <1>2, <2>1, PieceLetter
<1>7. j = CHOOSE i \in 0 .. most : /\ \A h \in 0 .. (i - 1) : h \notin D
                                   /\ i = most \/ i \in D
  <2>1. \A i \in 0 .. most : i \in Int
    OBVIOUS
  <2>2. j = CHOOSE i \in 0 .. most : /\ \A h \in 0 .. (i - 1) : ~(Letter(Ahead(a, h)) # k[b + h + 1])
                                     /\ i = most \/ Letter(Ahead(a, i)) # k[b + i + 1]
    BY <1>2, <1>4 DEF Agree
  <2>3. \A i \in 0 .. most : \A h \in 0 .. (i - 1) : h \in Int
    OBVIOUS
  <2> QED
    BY <1>3, <2>1, <2>2, <2>3
<1>8. /\ j \in Nat /\ j <= l /\ b + j <= Len(k)
      /\ \A h \in Nat : h < j => h \notin D
      /\ j < l /\ b + j < Len(k) => j \in D
  <2>1. most \in Nat /\ most <= l /\ b + most <= Len(k) /\ (most < l => b + most = Len(k))
    BY <1>4, <1>5
  <2>2. \E i \in 0 .. most : /\ \A h \in 0 .. (i - 1) : h \notin D
                             /\ i = most \/ i \in D
    BY <2>1, FirstOf
  <2>3. j \in 0 .. most /\ (\A h \in 0 .. (j - 1) : h \notin D) /\ (j = most \/ j \in D)
    BY <1>7, <2>2, Zenon
  <2> QED
    BY <1>5, <2>1, <2>3
<1>9. b + j <= Len(w)
  BY <1>5, <1>8
<1>10. ASSUME NEW h \in b + 1 .. b + j
       PROVE  w[h] = k[h]
  <2>1. PICK g : g = h - b - 1
    OBVIOUS
  <2>2. g \in Nat /\ g < j /\ b + g + 1 = h
    BY <1>5, <1>8, <2>1
  <2>3. g \in 0 .. l - 1
    BY <1>5, <1>8, <2>2
  <2>4. g \notin D /\ Letter(Ahead(a, g)) = w[b + g + 1]
    BY <1>6, <1>8, <2>2, <2>3
  <2> QED
    BY <1>3, <2>2, <2>4
<1>11. ASSUME j < l, b + j < Len(k)
       PROVE  w[b + j + 1] # k[b + j + 1]
  <2>1. j \in D /\ j \in 0 .. l - 1
    BY <1>5, <1>8, <1>11
  <2> QED
    BY <1>3, <1>6, <2>1
<1> QED
  BY <1>2, <1>8, <1>9, <1>10, <1>11 DEF Agreed

LEMMA BranchIs ==
    ASSUME NEW t, NEW W, Rep(t, W), NEW n \in InTree(t), NEW l, NEW c, c = Branch(t, n, l)
    PROVE  /\ c = NULL => \A x \in Kids(t.up, n) : W[x][Len(W[n]) + 1] # l
           /\ c # NULL => c \in Kids(t.up, n) /\ W[c][Len(W[n]) + 1] = l
<1>1. n \in Node /\ NULL \notin Node
  BY Nodes, RepNode
<1>2. Range(t.kids[n]) = Kids(t.up, n) /\ Kids(t.up, n) \in SUBSET Node
  BY <1>1, RepKids, RowIs
<1>3. \A x \in Kids(t.up, n) : First(t, x) = W[x][Len(W[n]) + 1]
  BY <1>1, RepKids DEF First
<1>4. PICK S : S = {x \in Kids(t.up, n) : First(t, x) = l}
  OBVIOUS
<1>5. c = IF S = {} THEN NULL ELSE CHOOSE x \in S : TRUE
  BY <1>2, <1>4 DEF Branch
<1>6. S # {} => (CHOOSE x \in S : TRUE) \in S
  OBVIOUS
<1> QED
  BY <1>1, <1>2, <1>3, <1>4, <1>5, <1>6

-----------------------------------------------------------------------------
\* The turns of the loop of rt_search: n of them, one after another.
Steps(t, k, f, n) ==
    /\ f = [j \in 0 .. n |-> f[j]]
    /\ f[0] = Start(t) /\ \A j \in 1 .. n : f[j] = Turn(t, k, f[j - 1])
WalkEnd(t, k, s) ==
    [t |-> s.t, p |-> s.p, v |-> s.v, pos |-> Pos(t, k, s),
     i |-> IF s.t = NULL THEN s.i ELSE s.i + Pos(t, k, s)]

LEMMA StepsFar ==
    ASSUME NEW t, NEW k, NEW n \in Nat
    PROVE  \E f : Steps(t, k, f, n)
<1> DEFINE T == {m \in Nat : ~ \E f : Steps(t, k, f, m)}
<1>1. T = {}
  <2> SUFFICES ASSUME T # {} PROVE FALSE
    OBVIOUS
  <2>1. PICK a \in T : \A b \in T : a <= b
    BY LeastOf, T \in SUBSET Nat
  <2>2. a # 0
    <3>1. Steps(t, k, [j \in 0 .. 0 |-> Start(t)], 0)
      BY DEF Steps
    <3> QED
      BY <3>1
  <2>3. a - 1 \in Nat /\ a - 1 \notin T
    BY <2>1, <2>2
  <2>4. PICK g : Steps(t, k, g, a - 1)
    BY <2>3
  <2> DEFINE f == [j \in 0 .. a |-> IF j = a THEN Turn(t, k, g[a - 1]) ELSE g[j]]
  <2>5. a \in Nat \ {0}
    BY <2>2
  <2>6. \A j \in 0 .. a - 1 : f[j] = g[j]
    BY <2>5
  <2>7. f = [j \in 0 .. a |-> f[j]] /\ f[a] = Turn(t, k, g[a - 1])
    BY <2>5
  <2> HIDE DEF f
  <2>8. f[0] = Start(t)
    <3>1. g[0] = Start(t)
      BY <2>4 DEF Steps
    <3>2. 0 \in 0 .. a - 1
      BY <2>5
    <3> QED
      BY <2>6, <3>1, <3>2
  <2>9. ASSUME NEW j \in 1 .. a
        PROVE  f[j] = Turn(t, k, f[j - 1])
    <3>1. j - 1 \in 0 .. a - 1
      BY <2>5
    <3>2. f[j - 1] = g[j - 1]
      BY <2>6, <3>1
    <3>3. CASE j = a
      BY <2>7, <3>2, <3>3
    <3>4. CASE j # a
      <4>1. j \in 1 .. a - 1 /\ j \in 0 .. a - 1
        BY <2>5, <3>4
      <4>2. g[j] = Turn(t, k, g[j - 1])
        BY <2>4, <4>1 DEF Steps
      <4> QED
        BY <2>6, <3>2, <4>1, <4>2
    <3> QED
      BY <3>3, <3>4
  <2>10. Steps(t, k, f, a)
    BY <2>7, <2>8, <2>9 DEF Steps
  <2> QED
    BY <2>10
<1> QED
  BY <1>1

LEMMA WalkIs ==
    ASSUME NEW t, NEW k \in Word
    PROVE  \E f : Steps(t, k, f, Len(k) + 1) /\ Walk(t, k) = WalkEnd(t, k, f[Len(k) + 1])
<1>1. Len(k) + 1 \in Nat
  BY WordIs
<1>2. PICK g : Steps(t, k, g, Len(k) + 1)
  BY <1>1, StepsFar
<1> DEFINE Is(f) == f = [j \in 0 .. Len(k) + 1 |->
                           IF j = 0 THEN Start(t) ELSE Turn(t, k, f[j - 1])]
<1>3. Is(g)
  <2>1. PICK N : N = Len(k) + 1
    OBVIOUS
  <2>2. N \in Nat /\ Steps(t, k, g, N)
    BY <1>1, <1>2, <2>1
  <2>3. \A j \in 0 .. N : g[j] = IF j = 0 THEN Start(t) ELSE Turn(t, k, g[j - 1])
    <3> TAKE j \in 0 .. N
    <3>1. j = 0 \/ j \in 1 .. N
      BY <2>2
    <3> QED
      BY <2>2, <3>1 DEF Steps
  <2>4. g = [j \in 0 .. N |-> g[j]]
    BY <2>2 DEF Steps
  <2>5. [j \in 0 .. N |-> g[j]] = [j \in 0 .. N |-> IF j = 0 THEN Start(t) ELSE Turn(t, k, g[j - 1])]
    BY <2>3, Zenon
  <2> QED
    BY <2>1, <2>4, <2>5
<1>4. PICK f : f = CHOOSE h : Is(h)
  OBVIOUS
<1>5. Is(f)
  <2> HIDE DEF Is
  <2> QED
    BY <1>3, <1>4, Zenon
<1>6. Steps(t, k, f, Len(k) + 1)
  <2>1. PICK N : N = Len(k) + 1
    OBVIOUS
  <2>2. N \in Nat /\ f = [j \in 0 .. N |-> IF j = 0 THEN Start(t) ELSE Turn(t, k, f[j - 1])]
    BY <1>1, <1>5, <2>1
  <2>3. f = [j \in 0 .. N |-> f[j]]
    BY <2>2
  <2>4. f[0] = Start(t) /\ \A j \in 1 .. N : f[j] = Turn(t, k, f[j - 1])
    BY <2>2
  <2> QED
    BY <2>1, <2>3, <2>4 DEF Steps
<1>7. Walk(t, k) = WalkEnd(t, k, f[Len(k) + 1])
  BY <1>4 DEF Walk, WalkEnd
<1> QED
  BY <1>6, <1>7

\* Where a search stands: below the node p, whose word begins the key; t is the
\* branch that goes on with the key's next letter.  v is the node of the longest
\* key among the nodes passed.
LastKey(t, W, k, p, v) ==
    /\ v # NULL => /\ v \in InTree(t) /\ v \in Key /\ Pre(W[v], k)
                   /\ p # NULL /\ Len(W[v]) <= Len(W[p])
    /\ p # NULL => \A x \in InTree(t) : x \in Key /\ Pre(W[x], k) /\ Len(W[x]) <= Len(W[p])
                                          => v # NULL /\ Len(W[x]) <= Len(W[v])
Passed(t, W, k, p) == /\ p \in InTree(t) /\ Pre(W[p], k) /\ Len(W[p]) < Len(k)
                      /\ t.kids[p] # <<>>
NoBranch(t, W, k, p) == \A x \in Kids(t.up, p) : W[x][Len(W[p]) + 1] # k[Len(W[p]) + 1]
Good(t, W, k, s) ==
    /\ LastKey(t, W, k, s.p, s.v)
    /\ s.i \in Nat /\ s.i <= Len(k)
    /\ s.p = NULL => s.t = t.root /\ s.i = 0
    /\ s.p # NULL => Passed(t, W, k, s.p) /\ s.i = Len(W[s.p])
    /\ s.p # NULL /\ s.t = NULL => NoBranch(t, W, k, s.p)
    /\ s.p # NULL /\ s.t # NULL => /\ s.t \in Kids(t.up, s.p)
                                   /\ W[s.t][s.i + 1] = k[s.i + 1]

LEMMA GoodFirst ==
    ASSUME NEW t, NEW W, NEW k \in Word
    PROVE  Good(t, W, k, Start(t))
BY WordIs DEF Good, Start, LastKey

\* What the search has found at the node s.t.
At(t, W, k, s) ==
    /\ s.t \in InTree(t) /\ t.up[s.t] = s.p /\ s.i = Base(t.up, W, s.t)
    /\ Agreed(W[s.t], t.len[s.t], k, s.i, Pos(t, k, s))
    /\ \A h \in 1 .. s.i + Pos(t, k, s) : W[s.t][h] = k[h]
    /\ s.p # NULL => Pos(t, k, s) > 0
    /\ t.len[s.t] = Len(W[s.t]) - s.i
    /\ s.p # NULL => Len(W[s.p]) = s.i /\ Len(W[s.p]) < Len(W[s.t])

LEMMA GoodAt ==
    ASSUME NEW t, NEW W, Rep(t, W), t.root # NULL, NEW k \in Word,
           NEW s, Good(t, W, k, s), s.t # NULL
    PROVE  At(t, W, k, s)
<1>1. s.t \in InTree(t) /\ t.up[s.t] = s.p /\ s.i = Base(t.up, W, s.t)
  <2>1. CASE s.p = NULL
    <3>1. s.t = t.root /\ s.i = 0 /\ t.root \in Node
      BY <2>1, TreesAre, Nodes DEF Good, Rep, RepIn
    <3>2. s.t \in InTree(t)
      BY <3>1 DEF InTree
    <3> QED
      BY <2>1, <3>1, <3>2, RepNode
  <2>2. CASE s.p # NULL
    <3>1. s.t \in Kids(t.up, s.p) /\ s.i = Len(W[s.p]) /\ s.p \in InTree(t)
      BY <2>2 DEF Good, Passed
    <3>2. s.p \in Node
      BY <3>1 DEF InTree
    <3>3. t.up[s.t] = s.p /\ s.t \in InTree(t)
      BY <3>1, <3>2, RepKids
    <3> QED
      BY <2>2, <3>1, <3>3 DEF Base
  <2> QED
    BY <2>1, <2>2
<1>2. PICK n, p, b, j : n = s.t /\ p = s.p /\ b = s.i /\ j = Pos(t, k, s)
  OBVIOUS
<1>3. b \in Nat /\ b <= Len(k) /\ n \in InTree(t) /\ IsBase(t, W, n, b)
  BY <1>1, <1>2 DEF Good, IsBase
<1>4. j = Agree(t, n, k, b)
  BY <1>2 DEF Pos
<1>5. Agreed(W[n], t.len[n], k, b, j)
  BY <1>3, <1>4, AgreeIs
<1>6. j \in Nat /\ j <= t.len[n] /\ b + j <= Len(k) /\ b + j <= Len(W[n])
  BY <1>5 DEF Agreed
<1>7. t.len[n] = Len(W[n]) - b /\ Len(W[n]) \in Nat /\ W[n] \in Word /\ Len(k) \in Nat
  BY <1>3, RepNode, WordIs DEF IsBase
<1>8. p # NULL => /\ Pre(W[p], k) /\ Pre(W[p], W[n]) /\ b = Len(W[p]) /\ Len(W[p]) < Len(W[n])
                  /\ Len(W[p]) < Len(k) /\ W[n][b + 1] = k[b + 1]
  <2>1. ASSUME p # NULL
        PROVE /\ Pre(W[p], k) /\ b = Len(W[p]) /\ Len(W[p]) < Len(k) /\ W[n][b + 1] = k[b + 1]
              /\ n \in Kids(t.up, p) /\ p \in InTree(t)
    BY <1>2, <2>1 DEF Good, Passed
  <2>2. ASSUME p # NULL PROVE Pre(W[p], W[n]) /\ Len(W[p]) < Len(W[n])
    <3>1. p \in Node
      BY <2>1, <2>2 DEF InTree
    <3> QED
      BY <2>1, <2>2, <3>1, RepKids
  <2> QED
    BY <2>1, <2>2
<1>9. p = NULL => b = 0
  BY <1>2 DEF Good
<1>10. \A h \in 1 .. b : W[n][h] = k[h]
  <2>1. p = NULL => 1 .. b = {}
    BY <1>9
  <2>2. p # NULL => \A h \in 1 .. b : W[n][h] = W[p][h] /\ W[p][h] = k[h]
    BY <1>8 DEF Pre
  <2> QED
    BY <2>1, <2>2
<1>11. \A h \in b + 1 .. b + j : W[n][h] = k[h]
  BY <1>5 DEF Agreed
<1>12. \A h \in 1 .. b + j : W[n][h] = k[h]
  <2> TAKE h \in 1 .. b + j
  <2>1. h \in 1 .. b \/ h \in b + 1 .. b + j
    BY <1>3, <1>6
  <2> QED
    BY <1>10, <1>11, <2>1
<1>13. p # NULL => j > 0
  <2> SUFFICES ASSUME p # NULL, j = 0 PROVE FALSE
    BY <1>6
  <2>1. j < t.len[n] /\ b + j < Len(k) /\ b + j + 1 = b + 1
    <3>1. b < Len(W[n]) /\ b < Len(k)
      BY <1>8
    <3> QED
      BY <1>3, <1>7, <3>1
  <2> QED
    BY <1>5, <1>8, <2>1 DEF Agreed
<1>14. p # NULL => Len(W[p]) = b /\ Len(W[p]) < Len(W[n])
  BY <1>8
<1> QED
  BY <1>1, <1>2, <1>5, <1>7, <1>12, <1>13, <1>14 DEF At

LEMMA GoodTurn ==
    ASSUME NEW t, NEW W, Rep(t, W), t.root # NULL, NEW k \in Word,
           NEW s, Good(t, W, k, s), ~Stops(t, k, s)
    PROVE  /\ Good(t, W, k, Down(t, k, s))
           /\ Down(t, k, s).p # NULL
           /\ s.p # NULL => Down(t, k, s).i > s.i
<1>1. s.t # NULL
  BY DEF Stops
<1>2. At(t, W, k, s)
  BY <1>1, GoodAt
<1>3. PICK n, p, b, j : n = s.t /\ p = s.p /\ b = s.i /\ j = Pos(t, k, s)
  OBVIOUS
<1>4. /\ n \in InTree(t) /\ t.up[n] = p /\ Agreed(W[n], t.len[n], k, b, j)
      /\ t.len[n] = Len(W[n]) - b /\ (\A h \in 1 .. b + j : W[n][h] = k[h])
      /\ p # NULL => j > 0 /\ Len(W[p]) = b /\ Len(W[p]) < Len(W[n])
  BY <1>2, <1>3 DEF At
<1>5. b \in Nat /\ Len(W[n]) \in Nat /\ W[n] \in Word /\ Len(k) \in Nat
  BY <1>3, <1>4, RepNode, WordIs DEF Good
<1>6. ~(j < t.len[n]) /\ b + j # Len(k) /\ t.kids[n] # <<>>
  BY <1>3 DEF Stops
<1>7. j \in Nat /\ j <= t.len[n] /\ b + j <= Len(k)
  BY <1>4 DEF Agreed
<1>8. b + j = Len(W[n]) /\ Len(W[n]) < Len(k)
  <2>1. t.len[n] = Len(W[n]) - b
    BY <1>4
  <2>2. b \in Nat /\ Len(W[n]) \in Nat /\ Len(k) \in Nat
    BY <1>5
  <2>3. b + j = Len(W[n])
    BY <1>6, <1>7, <2>1, <2>2
  <2> QED
    BY <1>6, <1>7, <2>2, <2>3
<1>9. Pre(W[n], k)
  BY <1>4, <1>5, <1>8 DEF Pre
<1>10. Passed(t, W, k, n)
  BY <1>4, <1>6, <1>8, <1>9 DEF Passed
<1>11. PICK c : c = Branch(t, n, k[Len(W[n]) + 1])
  OBVIOUS
<1>12. PICK u : u = Down(t, k, s)
  OBVIOUS
<1>13. /\ u.t = c /\ u.p = n /\ u.i = Len(W[n])
       /\ u.v = IF n \in Key THEN n ELSE s.v
  BY <1>3, <1>8, <1>11, <1>12 DEF Down, LastValid, Valid
<1>14. n # NULL
  BY <1>4, RepNode
<1>15. c = NULL => NoBranch(t, W, k, n)
  <2>1. n \in InTree(t)
    BY <1>4
  <2> QED
    BY <1>11, <2>1, BranchIs, Zenon DEF NoBranch
<1>16. c # NULL => c \in Kids(t.up, n) /\ W[c][Len(W[n]) + 1] = k[Len(W[n]) + 1]
  BY <1>4, <1>11, BranchIs
<1>17. LastKey(t, W, k, n, u.v)
  <2>1. LastKey(t, W, k, p, s.v)
    BY <1>3 DEF Good
  <2>2. CASE n \in Key
    <3>1. u.v = n
      BY <1>13, <2>2
    <3>2. u.v # NULL => u.v \in InTree(t) /\ u.v \in Key /\ Pre(W[u.v], k) /\ n # NULL /\ Len(W[u.v]) <= Len(W[n])
      BY <1>4, <1>5, <1>9, <1>14, <2>2, <3>1
    <3>3. n # NULL => \A x \in InTree(t) : x \in Key /\ Pre(W[x], k) /\ Len(W[x]) <= Len(W[n])
                                          => u.v # NULL /\ Len(W[x]) <= Len(W[u.v])
      BY <1>14, <3>1
    <3> QED
      BY <3>2, <3>3 DEF LastKey
  <2>3. CASE n \notin Key
    <3>1. u.v = s.v
      BY <1>13, <2>3
    <3>2. ASSUME s.v # NULL
          PROVE  s.v \in InTree(t) /\ s.v \in Key /\ Pre(W[s.v], k) /\ Len(W[s.v]) <= Len(W[n])
      <4>1. s.v \in InTree(t) /\ s.v \in Key /\ Pre(W[s.v], k) /\ p # NULL /\ Len(W[s.v]) <= Len(W[p])
        BY <2>1, <3>2 DEF LastKey
      <4>2. Len(W[s.v]) \in Nat
        BY <4>1, RepNode
      <4> QED
        BY <1>4, <1>5, <4>1, <4>2
    <3>3. ASSUME NEW x \in InTree(t), x \in Key, Pre(W[x], k), Len(W[x]) <= Len(W[n])
          PROVE  s.v # NULL /\ Len(W[x]) <= Len(W[s.v])
      <4>1. x # n /\ Len(W[x]) \in Nat
        BY <2>3, <3>3, RepNode
      <4>2. Trie(InTree(t), t.root, t.up, W)
        BY DEF Rep, RepIn
      <4>3. n # t.root /\ ~(Len(W[t.up[n]]) < Len(W[x]))
        BY <1>4, <1>9, <3>3, <4>1, <4>2, OneWay
      <4>4. p # NULL
        BY <1>4, <4>3, RepNode
      <4>5. Len(W[x]) <= Len(W[p])
        BY <1>4, <1>5, <4>1, <4>3, <4>4
      <4> QED
        BY <2>1, <3>3, <4>4, <4>5 DEF LastKey
    <3> QED
      BY <1>14, <3>1, <3>2, <3>3 DEF LastKey
  <2> QED
    BY <2>2, <2>3
<1>18. Good(t, W, k, u)
  <2>1. u.i \in Nat /\ u.i <= Len(k)
    BY <1>5, <1>8, <1>13
  <2> QED
    BY <1>10, <1>13, <1>14, <1>15, <1>16, <1>17, <2>1 DEF Good
<1>19. s.p # NULL => u.i > s.i
  BY <1>3, <1>4, <1>13
<1> QED
  BY <1>12, <1>13, <1>14, <1>18, <1>19

Far(t, k, s, j) == Stops(t, k, s) \/ j = 0 \/ (s.p # NULL /\ s.i >= j - 1)

LEMMA GoodAll ==
    ASSUME NEW t, NEW W, Rep(t, W), t.root # NULL, NEW k \in Word,
           NEW N \in Nat, NEW f, Steps(t, k, f, N)
    PROVE  \A j \in 0 .. N : Good(t, W, k, f[j]) /\ Far(t, k, f[j], j)
<1> DEFINE Fine(j) == Good(t, W, k, f[j]) /\ Far(t, k, f[j], j)
           T == {j \in 0 .. N : ~Fine(j)}
<1> SUFFICES ASSUME T # {} PROVE FALSE
  OBVIOUS
<1>1. PICK a \in T : \A b \in T : a <= b
  BY LeastOf, T \in SUBSET Nat
<1>2. Fine(0)
  <2>1. f[0] = Start(t)
    BY DEF Steps
  <2> QED
    BY <2>1, GoodFirst DEF Far
<1>3. a \in 1 .. N /\ a - 1 \in 0 .. N /\ a - 1 \in Nat
  <2>1. a # 0 /\ a \in 0 .. N
    BY <1>1, <1>2
  <2> QED
    BY <2>1
<1>4. Fine(a - 1)
  <2>1. a - 1 \notin T
    BY <1>1, <1>3
  <2> QED
    BY <1>3, <2>1
<1>5. PICK s, u : s = f[a - 1] /\ u = f[a]
  OBVIOUS
<1>6. u = Turn(t, k, s)
  BY <1>3, <1>5 DEF Steps
<1>7. Good(t, W, k, s) /\ Far(t, k, s, a - 1)
  BY <1>4, <1>5
<1>8. CASE Stops(t, k, s)
  <2>1. u = s
    BY <1>6, <1>8 DEF Turn
  <2>2. Fine(a)
    BY <1>5, <1>7, <1>8, <2>1 DEF Far
  <2> QED
    BY <1>1, <2>2
<1>9. CASE ~Stops(t, k, s)
  <2>1. u = Down(t, k, s)
    BY <1>6, <1>9 DEF Turn
  <2>2. Good(t, W, k, u) /\ u.p # NULL /\ (s.p # NULL => u.i > s.i)
    BY <1>7, <1>9, <2>1, GoodTurn
  <2>3. u.i \in Nat /\ s.i \in Nat
    BY <1>7, <2>2 DEF Good
  <2>4. u.i >= a - 1
    <3>1. CASE a - 1 = 0
      BY <2>3, <3>1
    <3>2. CASE a - 1 # 0
      <4>1. s.p # NULL /\ s.i >= (a - 1) - 1
        BY <1>7, <1>9, <3>2 DEF Far
      <4>2. \A x, y \in Nat : \A z \in Nat : x > y /\ y >= z - 1 => x >= z
        OBVIOUS
      <4> QED
        BY <1>3, <2>2, <2>3, <4>1, <4>2
    <3> QED
      BY <3>1, <3>2
  <2>5. Fine(a)
    BY <1>5, <2>2, <2>4 DEF Far
  <2> QED
    BY <1>1, <2>5
<1> QED
  BY <1>8, <1>9

\* What the search has found, at its end.
Arrived(t, W, k, w) ==
    /\ LastKey(t, W, k, w.p, w.v)
    /\ w.p # NULL => Passed(t, W, k, w.p)
    /\ w.t = NULL => /\ w.p # NULL /\ w.pos = t.len[w.p] /\ w.i = Len(W[w.p])
                     /\ NoBranch(t, W, k, w.p)
    /\ w.t # NULL =>
          /\ w.t \in InTree(t) /\ t.up[w.t] = w.p
          /\ w.pos \in Nat /\ w.pos <= t.len[w.t]
          /\ w.i = Base(t.up, W, w.t) + w.pos /\ w.i <= Len(k) /\ w.i <= Len(W[w.t])
          /\ \A h \in 1 .. w.i : W[w.t][h] = k[h]
          /\ w.pos < t.len[w.t] /\ w.i < Len(k) => W[w.t][w.i + 1] # k[w.i + 1]
          /\ w.pos < t.len[w.t] \/ w.i = Len(k) \/ t.kids[w.t] = <<>>
          /\ w.p # NULL => w.pos > 0

LEMMA ArrivedIs ==
    ASSUME NEW t, NEW W, Rep(t, W), t.root # NULL, NEW k \in Word
    PROVE  Arrived(t, W, k, Walk(t, k))
<1>1. Len(k) \in Nat
  BY WordIs
<1>2. PICK N : N = Len(k) + 1
  OBVIOUS
<1>3. PICK f : Steps(t, k, f, N) /\ Walk(t, k) = WalkEnd(t, k, f[N])
  BY <1>2, WalkIs
<1>4. N \in Nat /\ N \in 0 .. N /\ N # 0
  BY <1>1, <1>2
<1>5. PICK s : s = f[N]
  OBVIOUS
<1>6. Good(t, W, k, s) /\ Far(t, k, s, N)
  BY <1>3, <1>4, <1>5, GoodAll
<1>7. Stops(t, k, s)
  <2>1. s.p # NULL => s.i < Len(k) /\ s.i \in Nat
    BY <1>6 DEF Good, Passed
  <2>2. ~(s.p # NULL /\ s.i >= N - 1)
    BY <1>1, <1>2, <2>1
  <2> QED
    BY <1>4, <1>6, <2>2 DEF Far
<1>8. PICK w : w = Walk(t, k)
  OBVIOUS
<1>9. w = WalkEnd(t, k, s)
  BY <1>3, <1>5, <1>8
<1>10. PICK j : j = Pos(t, k, s)
  OBVIOUS
<1>11. /\ w.t = s.t /\ w.p = s.p /\ w.v = s.v /\ w.pos = j
       /\ w.i = IF s.t = NULL THEN s.i ELSE s.i + j
  BY <1>9, <1>10 DEF WalkEnd
<1>12. LastKey(t, W, k, w.p, w.v) /\ (w.p # NULL => Passed(t, W, k, w.p))
  BY <1>6, <1>11 DEF Good
<1>13. ASSUME s.t = NULL
       PROVE  /\ s.p # NULL /\ j = t.len[s.p] /\ s.i = Len(W[s.p])
              /\ NoBranch(t, W, k, s.p)
  BY <1>6, <1>10, <1>13 DEF Good, Pos
<1>14. ASSUME s.t # NULL
       PROVE  /\ s.t \in InTree(t) /\ t.up[s.t] = s.p
              /\ j \in Nat /\ j <= t.len[s.t] /\ s.i = Base(t.up, W, s.t)
              /\ s.i + j <= Len(k) /\ s.i + j <= Len(W[s.t])
              /\ \A h \in 1 .. s.i + j : W[s.t][h] = k[h]
              /\ j < t.len[s.t] /\ s.i + j < Len(k) => W[s.t][s.i + j + 1] # k[s.i + j + 1]
              /\ j < t.len[s.t] \/ s.i + j = Len(k) \/ t.kids[s.t] = <<>>
              /\ s.p # NULL => j > 0
  <2>1. At(t, W, k, s)
    BY <1>6, <1>14, GoodAt
  <2>2. /\ s.t \in InTree(t) /\ t.up[s.t] = s.p /\ s.i = Base(t.up, W, s.t)
        /\ Agreed(W[s.t], t.len[s.t], k, s.i, j)
        /\ \A h \in 1 .. s.i + j : W[s.t][h] = k[h]
        /\ s.p # NULL => j > 0
    BY <1>10, <2>1 DEF At
  <2>3. j < t.len[s.t] \/ s.i + j = Len(k) \/ t.kids[s.t] = <<>>
    BY <1>7, <1>10, <1>14 DEF Stops
  <2>4. /\ j \in Nat /\ j <= t.len[s.t] /\ s.i + j <= Len(k) /\ s.i + j <= Len(W[s.t])
        /\ j < t.len[s.t] /\ s.i + j < Len(k) => W[s.t][s.i + j + 1] # k[s.i + j + 1]
    BY <2>2 DEF Agreed
  <2> QED
    BY <2>2, <2>3, <2>4
<1>15. Arrived(t, W, k, w)
  <2>1. CASE s.t = NULL
    BY <1>11, <1>12, <1>13, <2>1 DEF Arrived
  <2>2. CASE s.t # NULL
    BY <1>11, <1>12, <1>14, <2>2 DEF Arrived
  <2> QED
    BY <2>1, <2>2
<1> QED
  BY <1>8, <1>15

\* A search that hits stands at the node of the key; if it does not, there is none.
LEMMA HitIs ==
    ASSUME NEW t, NEW W, Rep(t, W), t.root # NULL, NEW k \in Word, NEW w, Arrived(t, W, k, w)
    PROVE  /\ Hit(t, k, w) => w.t \in InTree(t) /\ W[w.t] = k
           /\ ~Hit(t, k, w) => \A x \in InTree(t) : W[x] # k
<1>1. Len(k) \in Nat /\ Trie(InTree(t), t.root, t.up, W)
  BY WordIs DEF Rep, RepIn
<1>2. ASSUME Hit(t, k, w)
      PROVE  w.t \in InTree(t) /\ W[w.t] = k
  <2>1. /\ w.t \in InTree(t) /\ w.pos = t.len[w.t] /\ w.i = Len(k)
        /\ w.i = Base(t.up, W, w.t) + w.pos /\ \A h \in 1 .. w.i : W[w.t][h] = k[h]
    BY <1>2 DEF Hit, Arrived
  <2>2. PICK n, b : n = w.t /\ b = Base(t.up, W, w.t)
    OBVIOUS
  <2>3. /\ Len(W[n]) \in Nat /\ W[n] \in Word /\ b \in Nat /\ t.len[n] \in Int
        /\ t.len[n] = Len(W[n]) - b /\ Len(k) = b + t.len[n]
    BY <2>1, <2>2, RepNode
  <2>4. Len(W[n]) = Len(k)
    BY <2>3
  <2>5. W[n] = k
    <3>1. \A h \in 1 .. Len(k) : W[n][h] = k[h]
      BY <2>1, <2>2
    <3>2. Pre(W[n], k) /\ Len(k) <= Len(W[n])
      BY <1>1, <2>4, <3>1 DEF Pre
    <3> QED
      BY <2>3, <3>2, WordEqual
  <2> QED
    BY <2>1, <2>2, <2>5
<1>3. ASSUME ~Hit(t, k, w), NEW x \in InTree(t), W[x] = k
      PROVE  FALSE
  <2>1. Pre(k, k)
    BY <1>1 DEF Pre
  <2>2. CASE w.t = NULL
    <3>1. PICK p : p = w.p
      OBVIOUS
    <3>2. p \in InTree(t) /\ Pre(W[p], k) /\ Len(W[p]) < Len(k) /\ NoBranch(t, W, k, p)
      BY <2>2, <3>1 DEF Arrived, Passed
    <3>3. p # x /\ Pre(W[p], W[x])
      BY <1>1, <1>3, <3>2
    <3>4. PICK c \in InTree(t) \ {t.root} : t.up[c] = p /\ Pre(W[c], W[x])
      BY <1>1, <3>2, <3>3, OnTheWay
    <3>5. c \in Kids(t.up, p) /\ c \in Node
      BY <3>4 DEF Kids, InTree
    <3>6. W[c][Len(W[p]) + 1] # k[Len(W[p]) + 1]
      BY <3>2, <3>5 DEF NoBranch
    <3>7. Len(W[p]) < Len(W[c]) /\ Len(W[p]) \in Nat /\ Len(W[c]) \in Nat
      BY <1>1, <3>2, <3>4, WordIs DEF Trie
    <3>8. Len(W[p]) + 1 \in 1 .. Len(W[c])
      BY <3>7
    <3> QED
      BY <1>3, <3>4, <3>6, <3>8 DEF Pre
  <2>3. CASE w.t # NULL
    <3>1. PICK n, b, i, j : n = w.t /\ b = Base(t.up, W, w.t) /\ i = w.i /\ j = w.pos
      OBVIOUS
    <3>2. /\ n \in InTree(t) /\ t.up[n] = w.p /\ j \in Nat /\ j <= t.len[n] /\ i = b + j
          /\ i <= Len(k) /\ i <= Len(W[n])
          /\ \A h \in 1 .. i : W[n][h] = k[h]
          /\ j < t.len[n] /\ i < Len(k) => W[n][i + 1] # k[i + 1]
          /\ j < t.len[n] \/ i = Len(k) \/ t.kids[n] = <<>>
          /\ w.p # NULL => j > 0
      BY <2>3, <3>1 DEF Arrived
    <3>3. /\ Len(W[n]) \in Nat /\ W[n] \in Word /\ b \in Nat /\ t.len[n] \in Int
          /\ t.len[n] = Len(W[n]) - b /\ n \in Node
          /\ t.up[n] # NULL => /\ t.up[n] \in InTree(t) /\ b = Len(W[t.up[n]])
      BY <3>1, <3>2, RepNode, SMTT(20)
    <3>4. ~(j = t.len[n] /\ i = Len(k))
      BY <1>3, <2>3, <3>1 DEF Hit
    <3>5. ASSUME i = Len(k) PROVE FALSE
      <4>1. j < t.len[n] /\ Len(k) < Len(W[n])
        BY <3>2, <3>3, <3>4, <3>5
      <4>2. Pre(k, W[n])
        BY <3>2, <3>5 DEF Pre
      <4>3. n # t.root => Len(W[t.up[n]]) < Len(k)
        <5>1. n # t.root => t.up[n] # NULL
          BY <3>2, RepNode
        <5>2. t.up[n] # NULL => j > 0 /\ b = Len(W[t.up[n]])
          BY <3>2, <3>3
        <5> QED
          BY <3>2, <3>3, <3>5, <5>1, <5>2
      <4>4. Pre(W[n], W[n]) /\ Pre(W[x], W[n]) /\ Len(W[x]) <= Len(W[n])
        BY <1>1, <1>3, <3>3, <4>1, <4>2 DEF Pre
      <4>5. n = x
        BY <1>1, <1>3, <3>2, <3>3, <4>3, <4>4, OneWay
      <4> QED
        BY <1>1, <1>3, <4>1, <4>5
    <3>6. CASE i # Len(k) /\ j < t.len[n]
      <4>1. i < Len(k) /\ i + 1 \in 1 .. Len(W[n]) /\ W[n][i + 1] # k[i + 1] /\ Len(W[n]) > i
        BY <1>1, <3>2, <3>3, <3>6
      <4>2. CASE t.up[n] = NULL
        <5>1. n = t.root /\ Pre(W[n], W[x])
          BY <1>1, <3>2, <4>2, RepNode, RootFirst
        <5> QED
          BY <1>3, <4>1, <5>1 DEF Pre
      <4>3. CASE t.up[n] # NULL
        <5>1. PICK p : p = t.up[n]
          OBVIOUS
        <5>2. p \in InTree(t) /\ p = w.p /\ b = Len(W[p]) /\ j > 0
          BY <3>2, <3>3, <4>3, <5>1
        <5>3. Pre(W[p], k) /\ Len(W[p]) < Len(k)
          BY <4>3, <5>1, <5>2 DEF Arrived, Passed
        <5>4. p # x
          BY <1>1, <1>3, <5>3
        <5>5. PICK c \in InTree(t) \ {t.root} : t.up[c] = p /\ Pre(W[c], W[x])
          BY <1>1, <1>3, <5>2, <5>3, <5>4, OnTheWay
        <5>6. b + 1 \in 1 .. i /\ W[n][b + 1] = k[b + 1]
          <6>1. j \in Nat /\ b \in Nat /\ i = b + j /\ j > 0
             BY <3>2, <3>3, <5>2
          <6>2. b + 1 \in 1 .. i
            BY <6>1
          <6>3. \A h \in 1 .. i : W[n][h] = k[h]
            BY <3>2
          <6> QED
            BY <6>2, <6>3
        <5>7. Len(W[p]) < Len(W[c]) /\ Len(W[c]) \in Nat
          BY <1>1, <5>5, WordIs DEF Trie
        <5>8. W[c][b + 1] = k[b + 1]
          <6>1. b + 1 \in 1 .. Len(W[c])
            BY <3>3, <5>2, <5>7
          <6> QED
            BY <1>3, <5>5, <6>1 DEF Pre
        <5>9. n \in InTree(t) \ {t.root}
          BY <3>2, <4>3, RepNode
        <5>10. c = n
          <6>1. c # n => W[c][Len(W[t.up[c]]) + 1] # W[n][Len(W[t.up[c]]) + 1]
            BY <1>1, <5>1, <5>5, <5>9 DEF Trie
          <6> QED
            BY <5>2, <5>5, <5>6, <5>8, <6>1
        <5> QED
          BY <1>3, <4>1, <5>5, <5>10 DEF Pre
      <4> QED
        BY <4>2, <4>3
    <3>7. CASE i # Len(k) /\ ~(j < t.len[n])
      <4>1. i = Len(W[n]) /\ i < Len(k) /\ t.kids[n] = <<>>
        BY <1>1, <3>2, <3>3, <3>7
      <4>2. Pre(W[n], k) /\ n # x
        BY <1>1, <1>3, <3>2, <4>1 DEF Pre
      <4>3. PICK c \in InTree(t) \ {t.root} : t.up[c] = n /\ Pre(W[c], W[x])
        BY <1>1, <1>3, <3>2, <4>2, OnTheWay
      <4>4. c \in Kids(t.up, n) /\ Kids(t.up, n) = {}
        <5>1. c \in Kids(t.up, n)
          BY <4>3 DEF Kids, InTree
        <5>2. Row(t.kids[n], Kids(t.up, n))
          BY <3>3, RepKids
        <5> QED
          BY <4>1, <5>1, <5>2, RowIs
      <4> QED
        BY <4>4
    <3> QED
      BY <3>5, <3>6, <3>7
  <2> QED
    BY <2>2, <2>3
<1> QED
  BY <1>2, <1>3

-----------------------------------------------------------------------------
\* A word at which the words of two nodes part is the word of a node.
LEMMA TrieParts ==
    ASSUME NEW P, NEW r, NEW up, NEW W, Trie(P, r, up, W), NEW w \in Word,
           NEW a \in P, NEW b \in P, Pre(w, W[a]), Pre(w, W[b]),
           Len(w) < Len(W[a]), Len(w) < Len(W[b]), W[a][Len(w) + 1] # W[b][Len(w) + 1]
    PROVE  \E n \in P : W[n] = w
<1> DEFINE S == {x \in P : Pre(w, W[x])}
           f == [x \in S |-> Len(W[x])]
<1>1. \A n \in P : W[n] \in Word /\ Len(W[n]) \in Nat
  BY WordIs DEF Trie
<1>2. Len(w) \in Nat
  BY WordIs
<1>3. PICK n \in S : \A x \in S : Len(W[n]) <= Len(W[x])
  <2>1. \A x \in S : f[x] \in Nat /\ f[x] = Len(W[x])
    BY <1>1
  <2>2. S # {}
    OBVIOUS
  <2> HIDE DEF S, f
  <2>3. \E n \in S : \A x \in S : f[n] <= f[x]
    BY <2>1, <2>2, Lowest
  <2> QED
    BY <2>1, <2>3
<1>4. n \in P /\ Pre(w, W[n])
  OBVIOUS
<1> SUFFICES ASSUME W[n] # w PROVE FALSE
  BY <1>4
<1>5. Len(w) < Len(W[n])
  <2>1. Len(w) <= Len(W[n])
    BY <1>4 DEF Pre
  <2>2. Len(W[n]) <= Len(w) => W[n] = w
    BY <1>1, <1>4, WordEqual
  <2> QED
    BY <1>1, <1>2, <1>4, <2>1, <2>2
<1>6. ASSUME NEW x \in P, Pre(w, W[x]), Len(w) < Len(W[x])
      PROVE  Pre(W[n], W[x])
  <2>1. CASE n = r
    BY <2>1, RootFirst
  <2>2. CASE n # r
    <3>1. PICK p : p = up[n]
      OBVIOUS
    <3>2. p \in P /\ Pre(W[p], W[n]) /\ Len(W[p]) < Len(W[n])
      BY <1>4, <2>2, <3>1 DEF Trie
    <3>3. Len(W[p]) < Len(w)
      <4> SUFFICES ASSUME Len(w) <= Len(W[p]) PROVE FALSE
        BY <1>1, <1>2, <3>2
      <4>1. Pre(w, W[p])
        BY <1>1, <1>4, <3>2, PreBoth
      <4> QED
        BY <1>1, <1>3, <3>2, <4>1
    <3>4. Pre(W[p], w)
      BY <1>1, <1>4, <3>2, <3>3, <1>2, PreBoth
    <3>5. Pre(W[p], W[x]) /\ p # x
      BY <1>1, <1>2, <1>6, <3>2, <3>3, <3>4, PreTrans
    <3>6. PICK c \in P \ {r} : up[c] = p /\ Pre(W[c], W[x])
      BY <3>2, <3>5, OnTheWay
    <3>7. PICK i : i = Len(W[p]) + 1
      OBVIOUS
    <3>8. Len(W[p]) < Len(W[c]) /\ Len(W[c]) \in Nat /\ Len(W[p]) \in Nat
      BY <1>1, <3>2, <3>6 DEF Trie
    <3>9. i \in 1 .. Len(w) /\ i \in 1 .. Len(W[c])
      <4>1. \A l, m \in Nat : l < m => l + 1 \in 1 .. m
        OBVIOUS
      <4> QED
        BY <1>2, <3>3, <3>7, <3>8, <4>1, Zenon
    <3>10. W[c][i] = W[n][i]
      BY <1>4, <1>6, <3>6, <3>9 DEF Pre
    <3>11. c = n
      <4>1. c # n => W[c][Len(W[up[c]]) + 1] # W[n][Len(W[up[c]]) + 1]
        BY <1>4, <2>2, <3>1, <3>6 DEF Trie
      <4> QED
        BY <3>6, <3>7, <3>10, <4>1
    <3> QED
      BY <3>6, <3>11
  <2> QED
    BY <2>1, <2>2
<1>7. Pre(W[n], W[a]) /\ Pre(W[n], W[b])
  BY <1>6
<1>8. Len(w) + 1 \in 1 .. Len(W[n])
  BY <1>1, <1>2, <1>4, <1>5
<1> QED
  BY <1>7, <1>8 DEF Pre

-----------------------------------------------------------------------------
(***************************************************************************)
(* The tree between two calls: its nodes make a tree of words, those of    *)
(* the held keys among them, and a split node parts at least two.          *)
(***************************************************************************)
Sound(t, W, H) ==
    /\ Rep(t, W)
    /\ InTree(t) \cap Key = H
    /\ \A n \in InTree(t) : n \notin Key => Len(t.kids[n]) > 1

\* The word of a key's node is the key; below every node there is a key's.
LEMMA KeyWord ==
    ASSUME NEW t, NEW W, Rep(t, W), NEW n \in InTree(t), n \in Key
    PROVE  W[n] = n
<1>1. PieceIs(t.at[n], t.len[n], Base(t.up, W, n), W[n], n)
  BY RepNode
<1> QED
  BY <1>1, Nodes DEF PieceIs

LEMMA KeyBelow ==
    ASSUME NEW t, NEW W, NEW H, Sound(t, W, H), NEW n \in InTree(t)
    PROVE  \E y \in H : y \in InTree(t) /\ y \in Key /\ W[y] = y /\ Pre(W[n], W[y])
<1> DEFINE S == {x \in InTree(t) : Pre(W[n], W[x])}
           f == [x \in S |-> Len(W[x])]
<1>1. Rep(t, W) /\ IsFiniteSet(InTree(t))
  BY DEF Sound, Rep, RepIn, Trie
<1>2. \A x \in InTree(t) : W[x] \in Word /\ Len(W[x]) \in Nat /\ x \in Node
  BY <1>1, RepNode
<1>3. n \in S /\ IsFiniteSet(S)
  <2>1. Pre(W[n], W[n])
    BY <1>2 DEF Pre
  <2> QED
    BY <1>1, <2>1, FS_Subset
<1>4. PICK x \in S : \A y \in S : Len(W[y]) <= Len(W[x])
  <2>1. \A x \in S : f[x] \in Nat /\ f[x] = Len(W[x])
    BY <1>2
  <2> HIDE DEF S, f
  <2>2. \E x \in S : \A y \in S : f[y] <= f[x]
    BY <1>3, <2>1, Highest
  <2> QED
    BY <2>1, <2>2
<1>5. x \in InTree(t) /\ Pre(W[n], W[x])
  OBVIOUS
<1>6. x \in Key
  <2> SUFFICES ASSUME x \notin Key PROVE FALSE
    OBVIOUS
  <2>1. Len(t.kids[x]) > 1
    BY <1>5 DEF Sound
  <2>2. Row(t.kids[x], Kids(t.up, x))
    BY <1>1, <1>2, <1>5, RepKids
  <2>3. Kids(t.up, x) # {}
    BY <2>1, <2>2, RowIs
  <2>4. PICK c : c \in Kids(t.up, x)
    BY <2>3
  <2>5. c \in InTree(t) /\ Pre(W[x], W[c]) /\ Len(W[x]) < Len(W[c])
    BY <1>1, <1>2, <1>5, <2>4, RepKids
  <2>6. c \in S
    BY <1>2, <1>5, <2>5, PreTrans
  <2> QED
    BY <1>2, <1>4, <1>5, <2>5, <2>6
<1>7. W[x] = x
  BY <1>1, <1>5, <1>6, KeyWord
<1>8. x \in H
  BY <1>5, <1>6 DEF Sound
<1> QED
  BY <1>5, <1>6, <1>7, <1>8

-----------------------------------------------------------------------------
LEMMA PrefixIs ==
    ASSUME NEW v \in Word
    PROVE  \A u : u \in Prefixes(v) <=> u \in Word /\ Pre(u, v)
<1>1. ASSUME NEW u, u \in Prefixes(v)
      PROVE  u \in Word /\ Pre(u, v)
  BY <1>1, CutIs DEF Prefixes
<1>2. ASSUME NEW u \in Word, Pre(u, v)
      PROVE  u \in Prefixes(v)
  <2>1. PICK l : l = Len(u)
    OBVIOUS
  <2>2. l \in 0 .. Len(v) /\ l \in Nat
    BY <1>2, <2>1, WordIs DEF Pre
  <2>3. /\ SubSeq(v, 1, l) \in Word /\ Len(SubSeq(v, 1, l)) = l
        /\ \A j \in 1 .. l : SubSeq(v, 1, l)[j] = v[j]
    BY <2>2, CutIs
  <2>4. \A j \in 1 .. l : u[j] = v[j]
    BY <1>2, <2>1 DEF Pre
  <2>5. Pre(u, SubSeq(v, 1, l)) /\ Len(SubSeq(v, 1, l)) <= Len(u)
    BY <2>1, <2>2, <2>3, <2>4 DEF Pre
  <2>6. u = SubSeq(v, 1, l)
    BY <2>3, <2>5, WordEqual
  <2> QED
    BY <2>2, <2>6 DEF Prefixes
<1> QED
  BY <1>1, <1>2

LEMMA StrictIs ==
    ASSUME NEW u \in Word, NEW v \in Word
    PROVE  IsStrictPrefix(u, v) <=> Pre(u, v) /\ Len(u) < Len(v)
<1>1. Len(u) \in Nat /\ Len(v) \in Nat
  BY WordIs
<1>2. IsPrefix(u, v) <=> Pre(u, v)
  BY PreIs
<1>3. Pre(u, v) /\ u # v => Len(u) < Len(v)
  <2>1. Pre(u, v) /\ Len(v) <= Len(u) => u = v
    BY WordEqual
  <2> QED
    BY <1>1, <2>1
<1>4. Len(u) < Len(v) => u # v
  BY <1>1
<1> QED
  BY <1>2, <1>3, <1>4 DEF IsStrictPrefix

\* Two held keys go on from w with different letters.
PartAt(w, a, b) == /\ Pre(w, a) /\ Pre(w, b) /\ Len(w) < Len(a) /\ Len(w) < Len(b)
                   /\ a[Len(w) + 1] # b[Len(w) + 1]

LEMMA PartsIs ==
    ASSUME NEW H \in SUBSET Key, NEW w \in Word
    PROVE  Parts(H, w) <=> \E a, b \in H : PartAt(w, a, b)
<1>1. \A a \in H : IsStrictPrefix(w, a) <=> Pre(w, a) /\ Len(w) < Len(a)
  BY StrictIs, Nodes
<1> QED
  BY <1>1 DEF Parts, PartAt

\* The words of the nodes are those that Tree names.
LEMMA NodeOf ==
    ASSUME NEW t, NEW W, NEW H, Sound(t, W, H), NEW w \in Word
    PROVE  /\ w \in H => w \in InTree(t) /\ W[w] = w
           /\ Parts(H, w) => \E n \in InTree(t) : W[n] = w
<1>1. Rep(t, W) /\ Trie(InTree(t), t.root, t.up, W) /\ H \in SUBSET Key /\ H \in SUBSET InTree(t)
  BY DEF Sound, Rep, RepIn
<1>2. \A y \in H : y \in InTree(t) /\ W[y] = y
  BY <1>1, KeyWord
<1>3. ASSUME Parts(H, w) PROVE \E n \in InTree(t) : W[n] = w
  <2>1. PICK a, b \in H : PartAt(w, a, b)
    BY <1>1, <1>3, PartsIs
  <2>2. a \in InTree(t) /\ b \in InTree(t) /\ W[a] = a /\ W[b] = b
    BY <1>2
  <2>3. /\ Pre(w, W[a]) /\ Pre(w, W[b]) /\ Len(w) < Len(W[a]) /\ Len(w) < Len(W[b])
        /\ W[a][Len(w) + 1] # W[b][Len(w) + 1]
    BY <2>1, <2>2 DEF PartAt
  <2> QED
    BY <1>1, <2>2, <2>3, TrieParts
<1> QED
  BY <1>2, <1>3

LEMMA SplitParts ==
    ASSUME NEW t, NEW W, NEW H, Sound(t, W, H), NEW n \in InTree(t), n \notin Key
    PROVE  Parts(H, W[n])
<1>1. Rep(t, W) /\ H \in SUBSET Key /\ n \in Node /\ W[n] \in Word /\ Len(t.kids[n]) > 1
  BY RepNode DEF Sound
<1>2. Row(t.kids[n], Kids(t.up, n))
  BY <1>1, RepKids
<1>3. PICK c, d : c = t.kids[n][1] /\ d = t.kids[n][2]
  OBVIOUS
<1>4. 1 \in 1 .. Len(t.kids[n]) /\ 2 \in 1 .. Len(t.kids[n])
  BY <1>1, <1>2, RowIs
<1>5. c \in Kids(t.up, n) /\ d \in Kids(t.up, n) /\ c # d
  BY <1>2, <1>3, <1>4 DEF Row
<1>6. \A x \in Kids(t.up, n) : /\ x \in InTree(t) /\ Pre(W[n], W[x]) /\ Len(W[n]) < Len(W[x])
                               /\ Letter(t.at[x]) = W[x][Len(W[n]) + 1]
  BY <1>1, RepKids
<1>7. Letter(t.at[c]) # Letter(t.at[d])
  BY <1>1, <1>5, RepKids DEF Apart
<1>8. \A x \in Kids(t.up, n) : \E y \in H : /\ Pre(W[n], y) /\ Len(W[n]) < Len(y)
                                            /\ y[Len(W[n]) + 1] = Letter(t.at[x])
  <2> TAKE x \in Kids(t.up, n)
  <2>1. x \in InTree(t) /\ Pre(W[n], W[x]) /\ Len(W[n]) < Len(W[x])
        /\ Letter(t.at[x]) = W[x][Len(W[n]) + 1]
    BY <1>6
  <2>2. PICK y \in H : y \in Key /\ W[y] = y /\ Pre(W[x], W[y])
    BY <2>1, KeyBelow
  <2>3. y \in Word /\ W[x] \in Word /\ Pre(W[x], y) /\ Len(y) \in Nat /\ Len(W[x]) \in Nat /\ Len(W[n]) \in Nat
    BY <1>1, <2>1, <2>2, Nodes, RepNode
  <2>4. Pre(W[n], y)
    BY <1>1, <2>1, <2>3, PreTrans
  <2>5. Len(W[x]) <= Len(y)
    BY <2>3 DEF Pre
  <2>6. Len(W[n]) + 1 \in 1 .. Len(W[x])
    BY <2>1, <2>3
  <2>7. Len(W[n]) < Len(y)
    BY <2>1, <2>3, <2>5
  <2> QED
    BY <2>1, <2>3, <2>4, <2>6, <2>7 DEF Pre
<1>9. PICK y \in H : Pre(W[n], y) /\ Len(W[n]) < Len(y) /\ y[Len(W[n]) + 1] = Letter(t.at[c])
  BY <1>5, <1>8
<1>10. PICK z \in H : Pre(W[n], z) /\ Len(W[n]) < Len(z) /\ z[Len(W[n]) + 1] = Letter(t.at[d])
  BY <1>5, <1>8
<1>11. PartAt(W[n], y, z)
  BY <1>7, <1>9, <1>10 DEF PartAt
<1> QED
  BY <1>1, <1>11, PartsIs

LEMMA TreeIs ==
    ASSUME NEW t, NEW W, NEW H, Sound(t, W, H)
    PROVE  {W[n] : n \in InTree(t)} = Tree(H)
<1>1. Rep(t, W) /\ H \in SUBSET Key /\ Key \in SUBSET Word
  BY Nodes DEF Sound
<1>2. ASSUME NEW n \in InTree(t) PROVE W[n] \in Tree(H)
  <2>1. CASE n \in Key
    <3>1. W[n] = n /\ n \in H
      BY <1>1, <2>1, KeyWord DEF Sound
    <3> QED
      BY <3>1 DEF Tree
  <2>2. CASE n \notin Key
    <3>1. Parts(H, W[n]) /\ W[n] \in Word
      BY <1>1, <2>2, SplitParts, RepNode
    <3>2. PICK y \in H : y \in Key /\ W[y] = y /\ Pre(W[n], W[y])
      BY KeyBelow
    <3>3. W[n] \in Prefixes(y)
      BY <1>1, <3>1, <3>2, PrefixIs
    <3> QED
      BY <3>1, <3>3 DEF Tree
  <2> QED
    BY <2>1, <2>2
<1>3. ASSUME NEW w \in Tree(H) PROVE w \in {W[n] : n \in InTree(t)}
  <2>1. w \in H \/ (Parts(H, w) /\ \E y \in H : w \in Prefixes(y))
    BY DEF Tree
  <2>2. w \in Word
    BY <1>1, <2>1, PrefixIs
  <2> QED
    BY <2>1, <2>2, NodeOf
<1> QED
  BY <1>2, <1>3

\* A node's piece ends its word.
LEMMA SpelledIs ==
    ASSUME NEW W, Rep(tree, W), NEW n \in InTree(tree)
    PROVE  /\ Spelled(n) = W[n] /\ EndOf(n) = Len(W[n])
           /\ tree.at[n] = NoString <=> W[n] = <<>>
           /\ tree.at[n] # NoString => EndOf(n) <= Len(tree.at[n].str)
<1>1. /\ W[n] \in Word /\ Len(W[n]) \in Nat /\ tree.at[n] \in Place
      /\ PieceIs(tree.at[n], tree.len[n], Base(tree.up, W, n), W[n], n)
      /\ Base(tree.up, W, n) \in Nat
  BY RepNode
<1>2. PICK a, l, b, w : /\ a = tree.at[n] /\ l = tree.len[n] /\ b = Base(tree.up, W, n)
                        /\ w = W[n]
  OBVIOUS
<1>3. CASE w = <<>>
  <2>1. a = NoString /\ l = 0
    BY <1>1, <1>2, <1>3 DEF PieceIs
  <2>2. EndOf(n) = 0
    BY <1>2, <2>1 DEF EndOf, NoString
  <2>3. Spelled(n) = <<>>
    BY <1>2, <2>1 DEF Spelled
  <2> QED
    BY <1>2, <1>3, <2>1, <2>2, <2>3
<1>4. CASE w # <<>>
  <2>1. a.str \in Key /\ Pre(w, a.str) /\ a.off = b /\ l = Len(w) - b
    BY <1>1, <1>2, <1>4 DEF PieceIs
  <2>2. a # NoString
    BY <2>1, SplitsAreNoKeys DEF NoString
  <2>3. PICK e : e = EndOf(n)
    OBVIOUS
  <2>4. e = Len(w) /\ e \in Nat /\ w \in Word
    <3>1. e = b + (Len(w) - b)
      BY <1>2, <2>1, <2>3 DEF EndOf
    <3>2. \A x, y \in Nat : x + (y - x) = y
      OBVIOUS
    <3> QED
      BY <1>1, <1>2, <3>1, <3>2
  <2>5. PICK s : s = a.str
    OBVIOUS
  <2>6. s \in Word /\ Len(s) \in Nat /\ Pre(w, s) /\ Len(w) <= Len(s)
    BY <2>1, <2>5, Nodes DEF Pre
  <2>7. SubSeq(s, 1, e) = w
    <3>1. w \in Word /\ Pre(w, s)
      BY <1>1, <1>2, <2>6
    <3>2. e \in 0 .. Len(s)
      BY <1>1, <1>2, <2>4, <2>6
    <3>3. SubSeq(s, 1, e) \in Word /\ Len(SubSeq(s, 1, e)) = e /\ Pre(SubSeq(s, 1, e), s)
      BY <2>6, <3>2, CutIs
    <3>4. PICK v : v = SubSeq(s, 1, e)
      OBVIOUS
    <3>5. v \in Word /\ Len(v) = e /\ Pre(v, s)
      BY <3>3, <3>4
    <3>6. Len(w) <= Len(v) /\ Len(v) <= Len(w)
      BY <2>4, <3>5
    <3>7. Pre(w, v)
      BY <2>6, <3>1, <3>5, <3>6, PreBoth
    <3> QED
      BY <3>1, <3>4, <3>5, <3>6, <3>7, WordEqual
  <2>8. Spelled(n) = w
    BY <1>2, <2>2, <2>3, <2>5, <2>7 DEF Spelled
  <2> QED
    BY <1>2, <1>4, <2>2, <2>3, <2>4, <2>5, <2>6, <2>8
<1> QED
  BY <1>3, <1>4

LEMMA SpellsIs ==
    ASSUME NEW W, Sound(tree, W, held)
    PROVE  SpellsKeys
<1>1. Rep(tree, W) /\ InTree(tree) \cap Key = held
  BY DEF Sound
<1>2. {Spelled(n) : n \in InTree(tree)} = Tree(held)
  <2>1. \A n \in InTree(tree) : Spelled(n) = W[n]
    BY <1>1, SpelledIs
  <2>2. {W[n] : n \in InTree(tree)} = Tree(held)
    BY TreeIs
  <2> QED
    BY <2>1, <2>2
<1>3. ASSUME NEW n \in InTree(tree)
      PROVE  /\ tree.at[n] # NoString => EndOf(n) <= Len(tree.at[n].str)
             /\ n = tree.root => tree.up[n] = NULL /\ tree.at[n].off = 0
             /\ n # tree.root => tree.len[n] > 0 /\ n \in Range(tree.kids[tree.up[n]])
             /\ Valid(n) => tree.at[n].str = n /\ EndOf(n) = Len(n)
             /\ ~Valid(n) => Len(tree.kids[n]) > 1
             /\ \A i, j \in DOMAIN tree.kids[n] :
                  i # j => First(tree, tree.kids[n][i]) # First(tree, tree.kids[n][j])
             /\ \A c \in Range(tree.kids[n]) :
                  /\ tree.up[c] = n
                  /\ tree.at[c].off = EndOf(n)
                  /\ IsPrefix(Spelled(n), tree.at[c].str)
  <2>1. n \in Node /\ (Valid(n) <=> n \in Key)
    BY <1>1, RepNode, Nodes
  <2>2. Row(tree.kids[n], Kids(tree.up, n)) /\ DOMAIN tree.kids[n] = 1 .. Len(tree.kids[n])
        /\ Range(tree.kids[n]) = Kids(tree.up, n)
    BY <1>1, <2>1, RepKids, RowIs
  <2>3. Spelled(n) = W[n] /\ EndOf(n) = Len(W[n]) /\ W[n] \in Word
    BY <1>1, SpelledIs, RepNode
  <2>4. n = tree.root => tree.up[n] = NULL /\ tree.at[n].off = 0
    <3> SUFFICES ASSUME n = tree.root PROVE tree.up[n] = NULL /\ tree.at[n].off = 0
      OBVIOUS
    <3>1. tree.up[n] = NULL /\ Base(tree.up, W, n) = 0
      BY <1>1, RepNode
    <3>2. PieceIs(tree.at[n], tree.len[n], 0, W[n], n)
      BY <1>1, <3>1, RepNode
    <3> QED
      BY <3>1, <3>2 DEF PieceIs, NoString
  <2>5. n # tree.root => tree.len[n] > 0 /\ n \in Range(tree.kids[tree.up[n]])
    <3> SUFFICES ASSUME n # tree.root PROVE tree.len[n] > 0 /\ n \in Range(tree.kids[tree.up[n]])
      OBVIOUS
    <3>1. PICK p : p = tree.up[n]
      OBVIOUS
    <3>2. /\ tree.up[n] # NULL /\ p \in InTree(tree) /\ Len(W[p]) < Len(W[n]) /\ Len(W[n]) \in Nat
          /\ tree.len[n] = Len(W[n]) - Len(W[p])
      <4>1. tree.up[n] # NULL
        BY <1>1, RepNode
      <4>2. /\ tree.up[n] \in InTree(tree) /\ Len(W[tree.up[n]]) < Len(W[n]) /\ Len(W[n]) \in Nat
            /\ Base(tree.up, W, n) = Len(W[tree.up[n]])
        BY <1>1, <4>1, RepNode
      <4>3. tree.len[n] = Len(W[n]) - Base(tree.up, W, n)
        BY <1>1, RepNode
      <4> QED
        BY <3>1, <4>1, <4>2, <4>3
    <3>3. Len(W[p]) \in Nat /\ p \in Node
      BY <1>1, <3>2, RepNode
    <3>4. n \in Kids(tree.up, p)
      BY <2>1, <3>1 DEF Kids
    <3>5. Row(tree.kids[p], Kids(tree.up, p))
      BY <1>1, <3>3, RepKids
    <3>6. n \in Range(tree.kids[p])
      BY <3>4, <3>5, RowIs
    <3>7. \A x, y \in Nat : x < y => y - x > 0
      OBVIOUS
    <3>8. tree.len[n] > 0
      BY <3>2, <3>3, <3>7
    <3> QED
      BY <3>1, <3>6, <3>8
  <2>6. Valid(n) => tree.at[n].str = n /\ EndOf(n) = Len(n)
    <3> SUFFICES ASSUME n \in Key PROVE tree.at[n].str = n /\ EndOf(n) = Len(n)
      BY <2>1
    <3>1. W[n] = n
      BY <1>1, KeyWord
    <3>2. PieceIs(tree.at[n], tree.len[n], Base(tree.up, W, n), W[n], n)
      BY <1>1, RepNode
    <3> QED
      BY <2>3, <3>1, <3>2, Nodes DEF PieceIs
  <2>7. ~Valid(n) => Len(tree.kids[n]) > 1
    BY <2>1 DEF Sound
  <2>8. ASSUME NEW i \in DOMAIN tree.kids[n], NEW j \in DOMAIN tree.kids[n], i # j
        PROVE  First(tree, tree.kids[n][i]) # First(tree, tree.kids[n][j])
    <3>1. PICK x, y : x = tree.kids[n][i] /\ y = tree.kids[n][j]
      OBVIOUS
    <3>2. x \in Kids(tree.up, n) /\ y \in Kids(tree.up, n) /\ x # y
      BY <2>2, <2>8, <3>1 DEF Row
    <3>3. Apart(tree.at, Kids(tree.up, n))
      BY <1>1, <2>1, RepKids
    <3> QED
      BY <3>1, <3>2, <3>3 DEF Apart, First
  <2>9. ASSUME NEW c \in Range(tree.kids[n])
        PROVE  tree.up[c] = n /\ tree.at[c].off = EndOf(n) /\ IsPrefix(Spelled(n), tree.at[c].str)
    <3>1. tree.up[c] = n /\ Hangs(tree.at[c], W[n])
      BY <1>1, <2>1, <2>2, RepKids
    <3>2. tree.at[c].str \in Word /\ Pre(W[n], tree.at[c].str) /\ tree.at[c].off = Len(W[n])
      BY <3>1, Nodes DEF Hangs
    <3> QED
      BY <2>3, <3>1, <3>2, PreIs
  <2>10. tree.at[n] # NoString => EndOf(n) <= Len(tree.at[n].str)
    BY <1>1, SpelledIs
  <2> QED
    BY <2>4, <2>5, <2>6, <2>7, <2>8, <2>9, <2>10
<1> QED
  BY <1>1, <1>2, <1>3 DEF SpellsKeys

-----------------------------------------------------------------------------
(***************************************************************************)
(* What the operators of the code do to the tree of words.                 *)
(***************************************************************************)
\* A node's base stays where its parent and the parent's word stay.
LEMMA SameBase ==
    ASSUME NEW t, NEW W, NEW P, NEW r, RepIn(t, W, P, r), NEW n \in P, NEW U, NEW V,
           U[n] = t.up[n], \A x \in P : V[x] = W[x]
    PROVE  Base(U, V, n) = Base(t.up, W, n)
<1>1. t.up[n] # NULL => t.up[n] \in P
  BY InNode
<1> QED
  BY <1>1 DEF Base

\* Nothing but what lies outside P may change.
LEMMA InSame ==
    ASSUME NEW t, NEW W, NEW P, NEW r, RepIn(t, W, P, r), NEW u \in Trees, NEW V \in [Node -> Word],
           \A x \in P : /\ V[x] = W[x] /\ u.up[x] = t.up[x] /\ u.kids[x] = t.kids[x]
                        /\ u.len[x] = t.len[x]
                        /\ PieceIs(u.at[x], u.len[x], Base(t.up, W, x), W[x], x)
    PROVE  RepIn(u, V, P, r)
<1>1. P \in SUBSET Node /\ Trie(P, r, t.up, W)
  BY DEF RepIn
<1>2. \A n \in P : KidsIn(P, u.up, n) = KidsIn(P, t.up, n)
  BY DEF KidsIn
<1>3. \A n \in P : Row(u.kids[n], KidsIn(P, u.up, n))
  BY <1>2 DEF RepIn
<1>4. \A n \in P : Base(u.up, V, n) = Base(t.up, W, n)
  BY SameBase
<1>5. \A n \in P : PieceIs(u.at[n], u.len[n], Base(u.up, V, n), V[n], n)
  BY <1>4
<1>6. r \in P => u.up[r] = t.up[r]
  OBVIOUS
<1>7. \A n \in P \ {r} : t.up[n] \in P
  BY <1>1 DEF Trie
<1>8. Trie(P, r, u.up, V)
  <2>1. /\ IsFiniteSet(P) /\ NULL \notin P
        /\ \A n \in P : V[n] \in Word
        /\ P # {} => r \in P /\ u.up[r] = NULL
    BY <1>1 DEF Trie
  <2>2. \A n \in P \ {r} : u.up[n] = t.up[n] /\ V[n] = W[n] /\ V[u.up[n]] = W[t.up[n]]
    BY <1>7
  <2>3. \A n \in P \ {r} : u.up[n] \in P /\ Pre(V[u.up[n]], V[n]) /\ Len(V[u.up[n]]) < Len(V[n])
    BY <1>1, <1>7, <2>2 DEF Trie
  <2>4. ASSUME NEW n \in P \ {r}, NEW m \in P \ {r}, n # m, u.up[n] = u.up[m]
        PROVE  V[n][Len(V[u.up[n]]) + 1] # V[m][Len(V[u.up[n]]) + 1]
    <3>1. t.up[n] = t.up[m]
      BY <2>2, <2>4
    <3>2. W[n][Len(W[t.up[n]]) + 1] # W[m][Len(W[t.up[n]]) + 1]
      BY <1>1, <2>4, <3>1 DEF Trie
    <3> QED
      BY <2>2, <3>2
  <2> QED
    BY <2>1, <2>3, <2>4 DEF Trie
<1> QED
  BY <1>1, <1>3, <1>5, <1>8 DEF RepIn

\* The fields of the nodes outside P are cleared, or set for a node to come.
LEMMA ClearIn ==
    ASSUME NEW t, NEW W, NEW P, NEW r, RepIn(t, W, P, r), NEW n \in Node, n \notin P
    PROVE  RepIn(Cleared(t, n), W, P, r)
<1>1. t \in Trees /\ W \in [Node -> Word] /\ P \in SUBSET Node
  BY DEF RepIn
<1>2. PICK u : u = Cleared(t, n)
  OBVIOUS
<1>3. Has(u, t.root, [t.up EXCEPT ![n] = NULL], [t.kids EXCEPT ![n] = <<>>],
          [t.at EXCEPT ![n] = NoString], [t.len EXCEPT ![n] = 0])
  BY <1>1, <1>2, ClearedIs
<1>4. u \in Trees
  BY <1>3 DEF Has
<1>5. \A x \in P : u.up[x] = t.up[x] /\ u.kids[x] = t.kids[x] /\ u.len[x] = t.len[x] /\ u.at[x] = t.at[x]
  BY <1>1, <1>3, TreesAre DEF Has
<1>6. \A x \in P : PieceIs(u.at[x], u.len[x], Base(t.up, W, x), W[x], x)
  BY <1>5, InNode
<1> QED
  BY <1>1, <1>2, <1>4, <1>5, <1>6, InSame

\* update_rt_parent keeps what the tree spells.
LEMMA RenewIn ==
    ASSUME NEW t, NEW W, NEW P, NEW r, RepIn(t, W, P, r), NEW c \in Node, t.up[c] \in P
    PROVE  RepIn(UpdateParent(t, c), W, P, r)
<1>1. t \in Trees /\ W \in [Node -> Word] /\ P \in SUBSET Node
  BY DEF RepIn
<1>2. PICK u, p : u = UpdateParent(t, c) /\ p = t.up[c]
  OBVIOUS
<1>3. p \in P /\ p # NULL /\ W[p] \in Word /\ Base(t.up, W, p) \in Nat
  BY <1>2, InNode
<1>4. Renewed(t, u, c, p)
  BY <1>1, <1>2, UpdateParentIs
<1>5. PICK b, S : b = Base(t.up, W, p) /\ S = KidsIn(P, t.up, p)
  OBVIOUS
<1>6. Parented(t, p, S, W[p], b)
  BY <1>3, <1>5, InKids, InNode DEF Parented
<1>7. u \in Trees /\ PieceIs(u.at[p], u.len[p], b, W[p], p)
  BY <1>3, <1>4, <1>5, <1>6, RenewedIs
<1>8. /\ u.up = t.up /\ u.kids = t.kids /\ u.len = t.len
      /\ \A x \in Node \ {p} : u.at[x] = t.at[x]
  BY <1>3, <1>4 DEF Renewed
<1>9. \A x \in P : PieceIs(u.at[x], u.len[x], Base(t.up, W, x), W[x], x)
  <2> TAKE x \in P
  <2>1. CASE x = p
    BY <1>5, <1>7, <2>1
  <2>2. CASE x # p
    <3>1. u.at[x] = t.at[x] /\ u.len[x] = t.len[x]
      BY <1>1, <1>8, <2>2
    <3> QED
      BY <3>1, InNode
  <2> QED
    BY <2>1, <2>2
<1>10. \A x \in P : u.up[x] = t.up[x] /\ u.kids[x] = t.kids[x] /\ u.len[x] = t.len[x]
  BY <1>8
<1> QED
  BY <1>1, <1>2, <1>7, <1>9, <1>10, InSame

\* add_rt_node: a leaf c for the word w.
AddsTo(t, W, P, p, c, a, l, w) ==
    /\ Pre(W[p], w) /\ Len(W[p]) < Len(w) /\ PieceIs(a, l, Len(W[p]), w, c)
    /\ \A x \in KidsIn(P, t.up, p) : W[x][Len(W[p]) + 1] # w[Len(W[p]) + 1]
    /\ t.kids[c] = <<>>

LEMMA AddFits ==
    ASSUME NEW t, NEW W, NEW P, NEW r, RepIn(t, W, P, r), NEW p \in P, NEW c, c \notin P,
           NEW a \in Place, NEW l \in Int, NEW w \in Word, AddsTo(t, W, P, p, c, a, l, w)
    PROVE  Fits(t, p, c, a, KidsIn(P, t.up, p), W[p])
<1>1. Pre(W[p], w) /\ Len(W[p]) < Len(w) /\ PieceIs(a, l, Len(W[p]), w, c)
      /\ \A x \in KidsIn(P, t.up, p) : W[x][Len(W[p]) + 1] # w[Len(W[p]) + 1]
  BY DEF AddsTo
<1>2. W[p] \in Word /\ Len(W[p]) \in Nat
  BY InNode
<1>3. PICK b : b = Len(W[p])
  OBVIOUS
<1>4. Letter(a) = w[b + 1] /\ Letter(a) \in 1 .. 3
  <2>1. b \in Nat /\ b < Len(w) /\ PieceIs(a, l, b, w, c)
    BY <1>1, <1>2, <1>3
  <2> QED
    BY <2>1, PieceFirst
<1>5. w # <<>>
  BY <1>1, <1>2, WordIs
<1>6. a.str \in Key /\ Pre(w, a.str) /\ a.off = Len(W[p])
  BY <1>1, <1>5 DEF PieceIs
<1>7. Pre(W[p], a.str)
  BY <1>1, <1>2, <1>6, Nodes, PreTrans
<1>8. Hangs(a, W[p])
  BY <1>4, <1>6, <1>7 DEF Hangs
<1>9. \A x \in KidsIn(P, t.up, p) : Hangs(t.at[x], W[p]) /\ Letter(t.at[x]) # Letter(a)
  BY <1>1, <1>3, <1>4, InKids
<1>10. c \notin KidsIn(P, t.up, p)
  BY DEF KidsIn
<1>11. Row(t.kids[p], KidsIn(P, t.up, p)) /\ Apart(t.at, KidsIn(P, t.up, p))
  BY InKids
<1> QED
  BY <1>8, <1>9, <1>10, <1>11 DEF Fits

LEMMA AddIn ==
    ASSUME NEW t, NEW W, NEW P, NEW r, RepIn(t, W, P, r), NEW p \in P, NEW c \in Node, c \notin P,
           NEW a \in Place, NEW l \in Int, NEW w \in Word, AddsTo(t, W, P, p, c, a, l, w)
    PROVE  /\ RepIn(AddNode(t, p, c, a, l), [W EXCEPT ![c] = w], P \cup {c}, r)
           /\ Hung(t, AddNode(t, p, c, a, l), p, c, a, l, KidsIn(P, t.up, p))
<1>1. t \in Trees /\ W \in [Node -> Word] /\ P \in SUBSET Node /\ Trie(P, r, t.up, W) /\ p \in Node
  BY DEF RepIn
<1>2. PICK S : S = KidsIn(P, t.up, p)
  OBVIOUS
<1>3. Fits(t, p, c, a, S, W[p])
  BY <1>2, AddFits
<1>4. PICK u : u = AddNode(t, p, c, a, l)
  OBVIOUS
<1>5. Hung(t, u, p, c, a, l, S)
  BY <1>1, <1>3, <1>4, AddNodeIs
<1>6. PICK V : V = [W EXCEPT ![c] = w]
  OBVIOUS
<1>7. V \in [Node -> Word] /\ V[c] = w /\ \A x \in P : V[x] = W[x]
  BY <1>1, <1>6
<1>8. /\ u \in Trees /\ u.root = t.root
      /\ u.up[c] = p /\ u.at[c] = a /\ u.len[c] = l
      /\ \A x \in P : u.up[x] = t.up[x] /\ u.at[x] = t.at[x] /\ u.len[x] = t.len[x]
      /\ \A x \in Node \ {p} : u.kids[x] = t.kids[x]
      /\ Row(u.kids[p], S \cup {c})
  BY <1>1, <1>5 DEF Hung
<1>9. Trie(P \cup {c}, r, u.up, V)
  <2>1. \A x \in P \ {r} : t.up[x] = p => W[x][Len(W[p]) + 1] # w[Len(W[p]) + 1]
    BY DEF AddsTo, KidsIn
  <2>2. Pre(W[p], w) /\ Len(W[p]) < Len(w)
    BY DEF AddsTo
  <2>3. c # NULL /\ \A n \in P : u.up[n] = t.up[n] /\ V[n] = W[n]
    BY <1>7, <1>8, Nodes
  <2> QED
    BY <1>1, <1>7, <1>8, <2>1, <2>2, <2>3, TrieLeaf, SMTT(20)
<1>10. \A n \in P : t.up[n] # c
  BY InNode, Nodes
<1>11. \A n \in P \cup {c} : Row(u.kids[n], KidsIn(P \cup {c}, u.up, n))
  <2> TAKE n \in P \cup {c}
  <2>1. CASE n = p
    <3>1. KidsIn(P \cup {c}, u.up, n) = S \cup {c}
      BY <1>2, <1>8, <2>1 DEF KidsIn
    <3> QED
      BY <1>8, <2>1, <3>1
  <2>2. CASE n = c
    <3>1. KidsIn(P \cup {c}, u.up, n) = {}
      BY <1>8, <1>10, <2>2 DEF KidsIn
    <3>2. u.kids[n] = <<>>
      BY <1>8, <2>2 DEF AddsTo
    <3> QED
      BY <3>1, <3>2, RowEmpty
  <2>3. CASE n # p /\ n # c
    <3>1. KidsIn(P \cup {c}, u.up, n) = KidsIn(P, t.up, n)
      BY <1>8, <2>3 DEF KidsIn
    <3>2. u.kids[n] = t.kids[n] /\ n \in P
      BY <1>1, <1>8, <2>3
    <3> QED
      BY <3>1, <3>2 DEF RepIn
  <2> QED
    BY <2>1, <2>2, <2>3
<1>12. \A n \in P \cup {c} : PieceIs(u.at[n], u.len[n], Base(u.up, V, n), V[n], n)
  <2> TAKE n \in P \cup {c}
  <2>1. CASE n = c
    <3>1. Base(u.up, V, n) = Len(W[p])
      BY <1>1, <1>7, <1>8, <2>1, Nodes DEF Base
    <3> QED
      BY <1>7, <1>8, <2>1, <3>1 DEF AddsTo
  <2>2. CASE n \in P
    <3>1. Base(u.up, V, n) = Base(t.up, W, n)
      BY <1>7, <1>8, <2>2, SameBase
    <3>2. PieceIs(t.at[n], t.len[n], Base(t.up, W, n), W[n], n)
      BY <2>2, InNode
    <3> QED
      BY <1>7, <1>8, <2>2, <3>1, <3>2
  <2> QED
    BY <2>1, <2>2
<1>13. RepIn(u, V, P \cup {c}, r)
  BY <1>1, <1>7, <1>8, <1>9, <1>11, <1>12 DEF RepIn
<1> QED
  BY <1>2, <1>4, <1>5, <1>6, <1>13

\* rbt_remove_node: the leaf n is taken from its parent.
LEMMA DropIn ==
    ASSUME NEW t, NEW W, NEW P, NEW r, RepIn(t, W, P, r), NEW n \in P, t.up[n] # NULL,
           t.kids[n] = <<>>
    PROVE  /\ RepIn(Without(t, t.up[n], n), W, P \ {n}, r)
           /\ Unhung(t, Without(t, t.up[n], n), t.up[n], n, KidsIn(P, t.up, t.up[n]))
           /\ t.up[n] \in P \ {n}
<1>1. t \in Trees /\ W \in [Node -> Word] /\ P \in SUBSET Node /\ Trie(P, r, t.up, W)
  BY DEF RepIn
<1>2. PICK p : p = t.up[n]
  OBVIOUS
<1>3. p \in P \ {n} /\ n # r /\ p \in Node
  BY <1>1, <1>2, InNode
<1>4. PICK S : S = KidsIn(P, t.up, p)
  OBVIOUS
<1>5. Row(t.kids[p], S) /\ n \in S
  <2>1. Row(t.kids[p], S)
    BY <1>3, <1>4, InKids
  <2>2. n \in S
    BY <1>2, <1>4 DEF KidsIn
  <2> QED
    BY <2>1, <2>2
<1>6. PICK u : u = Without(t, p, n)
  OBVIOUS
<1>7. Unhung(t, u, p, n, S)
  BY <1>1, <1>3, <1>5, <1>6, WithoutIs
<1>8. /\ u \in Trees /\ u.root = t.root /\ u.up = t.up /\ u.at = t.at /\ u.len = t.len
      /\ \A x \in Node \ {p} : u.kids[x] = t.kids[x]
      /\ Row(u.kids[p], S \ {n})
  BY <1>7 DEF Unhung
<1>9. \A x \in P : t.up[x] # n
  <2>1. Row(t.kids[n], KidsIn(P, t.up, n))
    BY InKids
  <2>2. KidsIn(P, t.up, n) = {}
    BY <2>1, RowIs
  <2> QED
    BY <2>2 DEF KidsIn
<1>10. Trie(P \ {n}, r, u.up, W)
  BY <1>1, <1>3, <1>8, <1>9, TrieDrop
<1>11. \A x \in P \ {n} : Row(u.kids[x], KidsIn(P \ {n}, u.up, x))
  <2> TAKE x \in P \ {n}
  <2>1. CASE x = p
    <3>1. KidsIn(P \ {n}, u.up, x) = S \ {n}
      BY <1>4, <1>8, <2>1 DEF KidsIn
    <3> QED
      BY <1>8, <2>1, <3>1
  <2>2. CASE x # p
    <3>1. KidsIn(P \ {n}, u.up, x) = KidsIn(P, t.up, x)
      BY <1>2, <1>8, <2>2 DEF KidsIn
    <3>2. u.kids[x] = t.kids[x]
      BY <1>1, <1>8, <2>2
    <3> QED
      BY <3>1, <3>2 DEF RepIn
  <2> QED
    BY <2>1, <2>2
<1>12. \A x \in P \ {n} : PieceIs(u.at[x], u.len[x], Base(u.up, W, x), W[x], x)
  BY <1>8 DEF RepIn
<1>13. RepIn(u, W, P \ {n}, r)
  BY <1>1, <1>8, <1>10, <1>11, <1>12 DEF RepIn
<1> QED
  BY <1>2, <1>3, <1>4, <1>6, <1>7, <1>13

\* cut_and_add_rt_node: the node m takes the place of n below its parent, with
\* the word w, which goes on from the parent's word as n's does.
Cuts(t, W, P, n, m, a, l, w) ==
    /\ PieceIs(IF l > 0 THEN a ELSE NoString, l, Base(t.up, W, n), w, m)
    /\ t.up[n] # NULL =>
         /\ Pre(W[t.up[n]], w) /\ Len(W[t.up[n]]) < Len(w)
         /\ w[Len(W[t.up[n]]) + 1] = W[n][Len(W[t.up[n]]) + 1]
         /\ m # t.up[n] /\ (m # n => m \notin KidsIn(P, t.up, t.up[n]))
CutDone(t, u, W, P, n, m, l, w) ==
    /\ u \in Trees
    /\ u.root = IF t.up[n] = NULL THEN m ELSE t.root
    /\ \A x \in Node : u.up[x] = IF x = m THEN t.up[n] ELSE t.up[x]
    /\ \A x \in Node : x # t.up[n] => u.kids[x] = t.kids[x]
    /\ t.up[n] # NULL => /\ Row(u.kids[t.up[n]], (KidsIn(P, t.up, t.up[n]) \ {n}) \cup {m})
                         /\ Len(u.kids[t.up[n]]) = Len(t.kids[t.up[n]])
    /\ \A x \in P : x # m => PieceIs(u.at[x], u.len[x], Base(t.up, W, x), W[x], x)
    /\ PieceIs(u.at[m], u.len[m], Base(t.up, W, n), w, m)

LEMMA CutStep ==
    ASSUME NEW t, NEW W, NEW P, NEW r, RepIn(t, W, P, r), NEW n \in P, NEW m \in Node, m # n,
           NEW a \in Place, NEW l \in Int, NEW w \in Word, Cuts(t, W, P, n, m, a, l, w)
    PROVE  CutDone(t, CutAndAdd(t, n, m, a, l), W, P, n, m, l, w)
<1>1. t \in Trees /\ W \in [Node -> Word] /\ P \in SUBSET Node /\ n \in Node
  BY DEF RepIn
<1>2. PICK u, p, b : u = CutAndAdd(t, n, m, a, l) /\ p = t.up[n] /\ b = Base(t.up, W, n)
  OBVIOUS
<1>3. b \in Nat /\ p \in Pointer
  BY <1>2, InNode
<1>4. PieceIs(IF l > 0 THEN a ELSE NoString, l, b, w, m)
  BY <1>2 DEF Cuts
<1>5. \A x \in P : PieceIs(t.at[x], t.len[x], Base(t.up, W, x), W[x], x)
  BY InNode
<1>6. ASSUME p = NULL PROVE CutDone(t, u, W, P, n, m, l, w)
  <2>1. RootCut(t, u, m, a, l)
    BY <1>1, <1>2, <1>6, CutRootIs
  <2>2. /\ u \in Trees /\ u.root = m /\ u.kids = t.kids
        /\ \A x \in Node : u.up[x] = IF x = m THEN NULL ELSE t.up[x]
        /\ u.len[m] = l /\ u.at[m] = IF l > 0 THEN a ELSE NoString
        /\ \A x \in Node : x # m => u.len[x] = t.len[x] /\ u.at[x] = t.at[x]
    BY <2>1 DEF RootCut
  <2>3. \A x \in P : x # m => PieceIs(u.at[x], u.len[x], Base(t.up, W, x), W[x], x)
    BY <1>1, <1>5, <2>2
  <2>4. PieceIs(u.at[m], u.len[m], b, w, m)
    BY <1>4, <2>2
  <2> QED
    BY <1>2, <1>6, <2>2, <2>3, <2>4 DEF CutDone
<1>7. ASSUME p # NULL PROVE CutDone(t, u, W, P, n, m, l, w)
  <2>1. /\ p \in P /\ b = Len(W[p]) /\ W[p] \in Word /\ Letter(t.at[n]) = W[n][b + 1]
    BY <1>2, <1>7, InNode, SMTT(20)
  <2>2. /\ Pre(W[p], w) /\ b < Len(w) /\ w[b + 1] = W[n][b + 1]
        /\ m # p /\ m \notin KidsIn(P, t.up, p)
    BY <1>2, <1>7, <2>1 DEF Cuts
  <2>3. w # <<>> /\ Len(w) \in Nat
    BY <1>3, <2>2, WordIs
  <2>4. l > 0 /\ PieceIs(a, l, b, w, m)
    <3>1. l = Len(w) - b
      BY <1>4, <2>3 DEF PieceIs
    <3>2. l > 0
      BY <1>3, <2>2, <2>3, <3>1
    <3> QED
      BY <1>4, <3>2
  <2>5. Letter(a) = w[b + 1] /\ Letter(a) \in 1 .. 3
    BY <1>3, <2>2, <2>4, PieceFirst
  <2>6. Hangs(a, W[p])
    <3>1. a.str \in Key /\ Pre(w, a.str) /\ a.off = b
      BY <2>3, <2>4 DEF PieceIs
    <3>2. Pre(W[p], a.str)
      BY <2>1, <2>2, <3>1, Nodes, PreTrans
    <3> QED
      BY <2>1, <2>5, <3>1, <3>2 DEF Hangs
  <2>7. PICK S : S = KidsIn(P, t.up, p)
    OBVIOUS
  <2>8. n \in S /\ m \notin S
    BY <1>2, <2>2, <2>7 DEF KidsIn
  <2>9. Row(t.kids[p], S) /\ Apart(t.at, S) /\ \A x \in S : Hangs(t.at[x], W[p])
    BY <2>1, <2>7, InKids
  <2>10. Letter(t.at[n]) = Letter(a)
    BY <2>1, <2>2, <2>5
  <2>11. \A x \in S \ {n} : Letter(t.at[x]) # Letter(a)
    BY <2>8, <2>9, <2>10 DEF Apart
  <2>12. PICK d : d = Base(t.up, W, p)
    OBVIOUS
  <2>13. d \in Nat /\ PieceIs(t.at[p], t.len[p], d, W[p], p) /\ p \in Node
    BY <2>1, <2>12, InNode
  <2>14. BelowCut(t, u, n, m, p, a, l, S) /\ PieceIs(u.at[p], u.len[p], d, W[p], p)
    <3>1. m \notin S \ {n} /\ \A x \in S \ {n} : Hangs(t.at[x], W[p]) /\ Letter(t.at[x]) # Letter(a)
      BY <2>8, <2>9, <2>11
    <3> QED
      BY <1>1, <1>2, <2>1, <2>2, <2>4, <2>6, <2>8, <2>9, <2>13, <3>1, CutBelowIs
  <2>15. /\ u \in Trees /\ u.root = t.root
         /\ \A x \in Node : u.up[x] = IF x = m THEN p ELSE t.up[x]
         /\ \A x \in Node : x # p => u.kids[x] = t.kids[x]
         /\ Row(u.kids[p], (S \ {n}) \cup {m}) /\ Len(u.kids[p]) = Len(t.kids[p])
         /\ u.at[m] = a /\ u.len[m] = l
         /\ \A x \in Node : x # p /\ x # m => u.at[x] = t.at[x] /\ u.len[x] = t.len[x]
    BY <2>2, <2>14 DEF BelowCut
  <2>16. \A x \in P : x # m => PieceIs(u.at[x], u.len[x], Base(t.up, W, x), W[x], x)
    <3> TAKE x \in P
    <3>1. x = p => PieceIs(u.at[x], u.len[x], Base(t.up, W, x), W[x], x)
      BY <2>12, <2>14
    <3>2. x # p /\ x # m => PieceIs(u.at[x], u.len[x], Base(t.up, W, x), W[x], x)
      BY <1>1, <1>5, <2>15
    <3> QED
      BY <3>1, <3>2
  <2>17. PieceIs(u.at[m], u.len[m], b, w, m)
    BY <2>4, <2>15
  <2> QED
    BY <1>2, <1>7, <2>7, <2>15, <2>16, <2>17 DEF CutDone
<1>8. CutDone(t, u, W, P, n, m, l, w)
  BY <1>6, <1>7
<1> QED
  BY <1>2, <1>8

\* A node m comes between n and its parent: it takes the place of n, which is
\* hung below it with the rest of its piece.
Between(t, u, n, m) ==
    /\ u.root = IF t.up[n] = NULL THEN m ELSE t.root
    /\ \A x \in Node : u.up[x] = IF x = n THEN m ELSE IF x = m THEN t.up[n] ELSE t.up[x]
    /\ \A x \in Node : x # m /\ x # t.up[n] => u.kids[x] = t.kids[x]
    /\ t.up[n] # NULL => Len(u.kids[t.up[n]]) = Len(t.kids[t.up[n]])
    /\ Row(u.kids[m], {n}) /\ Len(u.kids[m]) = 1
ComesIn(t, v, W, P, r, n, m, w) ==
    /\ RepIn(v, [W EXCEPT ![m] = w], P \cup {m}, IF n = r THEN m ELSE r)
    /\ Between(t, v, n, m)

LEMMA CutIn ==
    ASSUME NEW t, NEW W, NEW P, NEW r, RepIn(t, W, P, r), NEW n \in P, NEW m \in Node, m \notin P,
           NEW a \in Place, NEW l \in Int, NEW w \in Word, Cuts(t, W, P, n, m, a, l, w),
           Pre(w, W[n]), Len(w) < Len(W[n]), t.kids[m] = <<>>,
           NEW v, v = AddNode(CutAndAdd(t, n, m, a, l), m, n, Ahead(t.at[n], l), t.len[n] - l)
    PROVE  ComesIn(t, v, W, P, r, n, m, w)
<1>0. PICK u : u = v
  OBVIOUS
<1>1. t \in Trees /\ W \in [Node -> Word] /\ P \in SUBSET Node /\ Trie(P, r, t.up, W) /\ n \in Node
  BY DEF RepIn
<1>2. PICK c, p, b, e, d : /\ c = CutAndAdd(t, n, m, a, l) /\ p = t.up[n] /\ b = Base(t.up, W, n)
                           /\ e = Ahead(t.at[n], l) /\ d = t.len[n] - l
  OBVIOUS
<1>3. u = AddNode(c, m, n, e, d)
  BY <1>0, <1>2
<1>4. /\ b \in Nat /\ b <= Len(W[n]) /\ p \in Pointer /\ (n = r <=> p = NULL) /\ n # NULL
      /\ t.len[n] = Len(W[n]) - b /\ t.at[n] \in Place /\ W[n] \in Word /\ Len(W[n]) \in Nat
      /\ PieceIs(t.at[n], t.len[n], b, W[n], n)
      /\ (p # NULL => p \in P /\ p # n /\ W[p] \in Word /\ b = Len(W[p]))
  BY <1>2, InNode
<1>5. m # n /\ m # NULL /\ Len(w) \in Nat /\ p # m
  <2>1. m # NULL /\ Len(w) \in Nat
    BY Nodes, WordIs
  <2> QED
    BY <1>4, <2>1
<1>6. CutDone(t, c, W, P, n, m, l, w)
  BY <1>2, <1>5, CutStep
<1>7. /\ c \in Trees /\ c.root = (IF p = NULL THEN m ELSE t.root)
      /\ \A x \in Node : c.up[x] = IF x = m THEN p ELSE t.up[x]
      /\ \A x \in Node : x # p => c.kids[x] = t.kids[x]
      /\ p # NULL => /\ Row(c.kids[p], (KidsIn(P, t.up, p) \ {n}) \cup {m})
                     /\ Len(c.kids[p]) = Len(t.kids[p])
      /\ \A x \in P : x # m => PieceIs(c.at[x], c.len[x], Base(t.up, W, x), W[x], x)
      /\ PieceIs(c.at[m], c.len[m], b, w, m)
  BY <1>2, <1>6 DEF CutDone
<1>8. l = Len(w) - b
  <2>1. PieceIs(IF l > 0 THEN a ELSE NoString, l, b, w, m)
    BY <1>2 DEF Cuts
  <2>2. w = <<>> <=> Len(w) = 0
    BY WordIs
  <2> QED
    BY <1>4, <1>5, <2>1, <2>2 DEF PieceIs
<1>9. PieceIs(e, d, Len(w), W[n], n) /\ e \in Place /\ d \in Int
  <2>1. W[n] # <<>>
    BY <1>4, <1>5, WordIs
  <2>2. /\ t.at[n].str \in Key /\ Pre(W[n], t.at[n].str) /\ t.at[n].off = b
        /\ n \in Key => t.at[n].str = n /\ W[n] = n
    BY <1>4, <2>1 DEF PieceIs
  <2>3. e = [str |-> t.at[n].str, off |-> b + l]
    BY <1>2, <1>4, <2>2 DEF Ahead, Place
  <2>4. b + l = Len(w) /\ d = Len(W[n]) - Len(w)
    <3>1. \A i, j, q \in Nat : i + (j - i) = j /\ (q - i) - (j - i) = q - j
      OBVIOUS
    <3>2. d = (Len(W[n]) - b) - (Len(w) - b)
      BY <1>2, <1>4, <1>8
    <3> QED
      BY <1>4, <1>5, <1>8, <3>1, <3>2, Zenon
  <2>5. e.str = t.at[n].str /\ e.off = Len(w)
    BY <2>3, <2>4
  <2>6. e \in Place /\ d \in Int
    BY <1>4, <1>5, <2>2, <2>3, <2>4 DEF Place
  <2> QED
    BY <2>1, <2>2, <2>4, <2>5, <2>6 DEF PieceIs
<1>10. Hangs(e, w)
  <2>1. W[n] # <<>>
    BY <1>4, <1>5, WordIs
  <2>2. e.str \in Key /\ Pre(W[n], e.str) /\ e.off = Len(w)
    BY <1>9, <2>1 DEF PieceIs
  <2>3. Pre(w, e.str)
    BY <1>4, <2>2, Nodes, PreTrans
  <2>4. Letter(e) \in 1 .. 3
    BY <1>4, <1>5, <1>9, PieceFirst
  <2> QED
    BY <2>2, <2>3, <2>4 DEF Hangs
<1>11. Fits(c, m, n, e, {}, w)
  <2>1. c.kids[m] = <<>>
    BY <1>5, <1>7
  <2>2. Row(c.kids[m], {})
    BY <2>1, RowEmpty
  <2>3. Apart(c.at, {})
    BY DEF Apart
  <2> QED
    BY <1>10, <2>2, <2>3 DEF Fits
<1>12. Hung(c, u, m, n, e, d, {})
  BY <1>1, <1>3, <1>7, <1>9, <1>11, AddNodeIs
<1>13. /\ u \in Trees /\ u.root = (IF p = NULL THEN m ELSE t.root)
       /\ \A x \in Node : u.up[x] = IF x = n THEN m ELSE IF x = m THEN p ELSE t.up[x]
       /\ u.at[n] = e /\ u.len[n] = d
       /\ \A x \in Node : x # n => u.at[x] = c.at[x] /\ u.len[x] = c.len[x]
       /\ \A x \in Node : x # m => u.kids[x] = c.kids[x]
  BY <1>1, <1>5, <1>7, <1>12 DEF Hung
<1>14. Row(u.kids[m], {n}) /\ Len(u.kids[m]) = 1
  <2>1. Row(u.kids[m], {} \cup {n}) /\ Len(u.kids[m]) = Len(c.kids[m]) + 1
    BY <1>12 DEF Hung
  <2>2. Len(c.kids[m]) = 0
    <3>1. c.kids[m] = <<>>
      BY <1>5, <1>7
    <3> QED
      BY <3>1
  <2>3. {} \cup {n} = {n}
    OBVIOUS
  <2> QED
    BY <2>1, <2>2, <2>3
<1>15. Between(t, u, n, m)
  <2>1. \A x \in Node : x # m /\ x # p => u.kids[x] = t.kids[x]
    BY <1>7, <1>13
  <2>2. p # NULL => Len(u.kids[p]) = Len(t.kids[p])
    BY <1>1, <1>4, <1>5, <1>7, <1>13
  <2> QED
    BY <1>2, <1>13, <1>14, <2>1, <2>2 DEF Between
<1>16. PICK V : V = [W EXCEPT ![m] = w]
  OBVIOUS
<1>17. V \in [Node -> Word] /\ V[m] = w /\ \A x \in P : V[x] = W[x]
  BY <1>1, <1>16
<1>18. Trie(P \cup {m}, IF n = r THEN m ELSE r, u.up, V)
  <2>1. n # r => Len(W[t.up[n]]) < Len(w)
    BY <1>2, <1>4 DEF Cuts
  <2>2. \A x \in P : V[x] = W[x] /\ (x # n => u.up[x] = t.up[x])
    BY <1>1, <1>13, <1>17
  <2>3. u.up[n] = m /\ u.up[m] = t.up[n]
    BY <1>1, <1>2, <1>5, <1>13
  <2>4. Trie(P, r, t.up, W) /\ m # NULL /\ V[m] = w
    BY <1>1, <1>5, <1>17
  <2>5. CutsOff(P, r, t.up, W, n, m, w, u.up, V)
    BY <2>1, <2>2, <2>3, <2>4 DEF CutsOff
  <2> QED
    BY <2>4, <2>5, TrieCut
<1>19. \A x \in P : t.up[x] # m
  BY <1>5, InNode
<1>20. \A x \in P \cup {m} : Row(u.kids[x], KidsIn(P \cup {m}, u.up, x))
  <2> TAKE x \in P \cup {m}
  <2>1. CASE x = m
    <3>1. KidsIn(P \cup {m}, u.up, x) = {n}
      BY <1>1, <1>5, <1>13, <1>19, <2>1 DEF KidsIn
    <3> QED
      BY <1>14, <2>1, <3>1
  <2>2. CASE x = p
    <3>1. KidsIn(P \cup {m}, u.up, x) = (KidsIn(P, t.up, p) \ {n}) \cup {m}
      BY <1>1, <1>5, <1>13, <2>2 DEF KidsIn
    <3>2. u.kids[x] = c.kids[p] /\ p # NULL
      <4>1. x \in P /\ x # m /\ p \in Node
        BY <1>1, <1>5, <2>2
      <4> QED
        BY <1>13, <2>2, <4>1, Nodes
    <3> QED
      BY <1>7, <3>1, <3>2
  <2>3. CASE x # m /\ x # p
    <3>1. KidsIn(P \cup {m}, u.up, x) = KidsIn(P, t.up, x)
      BY <1>1, <1>2, <1>5, <1>13, <2>3 DEF KidsIn
    <3>2. u.kids[x] = t.kids[x] /\ x \in P
      BY <1>1, <1>7, <1>13, <2>3
    <3> QED
      BY <3>1, <3>2 DEF RepIn
  <2> QED
    BY <2>1, <2>2, <2>3
<1>21. \A x \in P \cup {m} : PieceIs(u.at[x], u.len[x], Base(u.up, V, x), V[x], x)
  <2> TAKE x \in P \cup {m}
  <2>1. CASE x = n
    <3>1. Base(u.up, V, x) = Len(w)
      BY <1>1, <1>5, <1>13, <1>17, <2>1 DEF Base
    <3> QED
      BY <1>9, <1>13, <1>17, <2>1, <3>1
  <2>2. CASE x = m
    <3>1. Base(u.up, V, x) = b
      <4>1. u.up[m] = t.up[n]
        BY <1>2, <1>5, <1>13
      <4>2. t.up[n] # NULL => V[t.up[n]] = W[t.up[n]]
        BY <1>2, <1>4, <1>17
      <4> QED
        BY <1>2, <2>2, <4>1, <4>2 DEF Base
    <3>2. u.at[x] = c.at[m] /\ u.len[x] = c.len[m] /\ V[x] = w
      BY <1>5, <1>13, <1>17, <2>2
    <3> QED
      BY <1>7, <2>2, <3>1, <3>2
  <2>3. CASE x # n /\ x # m
    <3>1. Base(u.up, V, x) = Base(t.up, W, x)
      <4>1. x \in P /\ u.up[x] = t.up[x]
        BY <1>1, <1>13, <2>3
      <4> QED
        BY <1>17, <4>1, SameBase
    <3>2. u.at[x] = c.at[x] /\ u.len[x] = c.len[x] /\ x \in P /\ V[x] = W[x]
      BY <1>1, <1>13, <1>17, <2>3
    <3> QED
      BY <1>7, <2>3, <3>1, <3>2
  <2> QED
    BY <2>1, <2>2, <2>3
<1>22. P \cup {m} \in SUBSET Node
  BY <1>1
<1>23. RepIn(u, V, P \cup {m}, IF n = r THEN m ELSE r)
  BY <1>13, <1>17, <1>18, <1>20, <1>21, <1>22 DEF RepIn
<1> QED
  BY <1>0, <1>15, <1>16, <1>23 DEF ComesIn

\* The only node below n takes its place, with the letters of both.
Spliced(t, u, n, c) ==
    /\ u.root = IF t.up[n] = NULL THEN c ELSE t.root
    /\ \A x \in Node : u.up[x] = IF x = c THEN t.up[n] ELSE t.up[x]
    /\ \A x \in Node : x # t.up[n] => u.kids[x] = t.kids[x]
    /\ t.up[n] # NULL => Len(u.kids[t.up[n]]) = Len(t.kids[t.up[n]])
OnlyKid(t, P, n, c) == n \in P /\ c = Head(t.kids[n]) /\ Len(t.kids[n]) = 1
Alone(t, W, P, r, n, c) ==
    /\ n \in P /\ c \in P /\ c \in Node /\ c # n /\ c # r /\ t.up[c] = n
    /\ KidsIn(P, t.up, n) = {c}
    /\ Pre(W[n], W[c]) /\ Len(W[n]) < Len(W[c]) /\ W[c] # <<>>

LEMMA OnlyIs ==
    ASSUME NEW t, NEW W, NEW P, NEW r, RepIn(t, W, P, r), NEW n, NEW c, OnlyKid(t, P, n, c)
    PROVE  Alone(t, W, P, r, n, c)
<1>1. n \in P /\ c = Head(t.kids[n]) /\ Len(t.kids[n]) = 1
  BY DEF OnlyKid
<1>2. Row(t.kids[n], KidsIn(P, t.up, n))
  BY <1>1, InKids
<1>3. KidsIn(P, t.up, n) = {c}
  BY <1>1, <1>2, RowIs
<1>4. c \in KidsIn(P, t.up, n)
  BY <1>3
<1>5. /\ t.up[c] = n /\ c \in P /\ c # r /\ c # n /\ Len(W[n]) < Len(W[c]) /\ Pre(W[n], W[c])
      /\ KidsIn(P, t.up, n) \in SUBSET Node
  BY <1>1, <1>4, InKids
<1>6. W[c] # <<>>
  <2>1. W[c] \in Word /\ W[n] \in Word
    BY <1>1, <1>5, InNode
  <2> QED
    BY <1>5, <2>1, WordIs
<1> QED
  BY <1>1, <1>3, <1>4, <1>5, <1>6 DEF Alone

LEMMA JoinedPiece ==
    ASSUME NEW t, NEW W, NEW P, NEW r, RepIn(t, W, P, r), NEW n, NEW c, OnlyKid(t, P, n, c),
           NEW a, NEW l, a = Ahead(t.at[c], -t.len[n]), l = t.len[c] + t.len[n]
    PROVE  /\ a \in Place /\ l \in Int /\ l > 0
           /\ PieceIs(a, l, Base(t.up, W, n), W[c], c)
<1>1. /\ n \in P /\ c \in P /\ t.up[c] = n /\ W[c] # <<>> /\ Len(W[n]) < Len(W[c])
  <2>1. Alone(t, W, P, r, n, c)
    BY OnlyIs
  <2> QED
    BY <2>1 DEF Alone
<1>2. PICK b : b = Base(t.up, W, n)
  OBVIOUS
<1>3. /\ b \in Nat /\ b <= Len(W[n]) /\ t.len[n] = Len(W[n]) - b /\ Len(W[n]) \in Nat /\ n # NULL
  BY <1>1, <1>2, InNode
<1>4. /\ t.at[c] \in Place /\ Len(W[c]) \in Nat /\ Base(t.up, W, c) = Len(W[n])
      /\ PieceIs(t.at[c], t.len[c], Base(t.up, W, c), W[c], c)
  <2>1. t.up[c] # NULL
    BY <1>1, <1>3
  <2> QED
    BY <1>1, <2>1, InNode, SMTT(20)
<1>5. /\ t.at[c].str \in Key /\ Pre(W[c], t.at[c].str) /\ t.at[c].off = Len(W[n])
      /\ t.len[c] = Len(W[c]) - Len(W[n])
      /\ c \in Key => t.at[c].str = c /\ W[c] = c
  BY <1>1, <1>4 DEF PieceIs
<1>6. a = [str |-> t.at[c].str, off |-> Len(W[n]) + (-t.len[n])]
  BY <1>4, <1>5 DEF Ahead, Place
<1>7. Len(W[n]) + (-t.len[n]) = b /\ l = Len(W[c]) - b /\ l \in Int /\ l > 0
  <2>1. \A i, j, q \in Nat : i + (-(i - q)) = q /\ (j - i) + (i - q) = j - q
    OBVIOUS
  <2>2. \A i, j, q \in Nat : q <= i /\ i < j => j - q \in Int /\ j - q > 0
    OBVIOUS
  <2>3. l = (Len(W[c]) - Len(W[n])) + (Len(W[n]) - b)
    BY <1>3, <1>5
  <2>4. l = Len(W[c]) - b
    BY <1>3, <1>4, <2>1, <2>3, Zenon
  <2>5. Len(W[n]) + (-t.len[n]) = b
    <3>1. Len(W[n]) + (-t.len[n]) = Len(W[n]) + (-(Len(W[n]) - b))
      BY <1>3, Zenon
    <3>2. Len(W[n]) + (-(Len(W[n]) - b)) = b
      BY <1>3, <2>1, Zenon
    <3> QED
      BY <3>1, <3>2, Zenon
  <2> QED
    BY <1>1, <1>3, <1>4, <2>2, <2>4, <2>5, Zenon
<1>8. a.str = t.at[c].str /\ a.off = b /\ a \in Place
  <2>1. a = [str |-> t.at[c].str, off |-> b]
    BY <1>6, <1>7, Zenon
  <2> QED
    BY <1>3, <1>5, <2>1 DEF Place
<1>9. PieceIs(a, l, b, W[c], c)
  BY <1>1, <1>5, <1>7, <1>8 DEF PieceIs
<1> QED
  BY <1>2, <1>7, <1>8, <1>9
GoesOut(t, v, W, P, r, n, c) ==
    RepIn(v, W, P \ {n}, IF n = r THEN c ELSE r) /\ Spliced(t, v, n, c)

LEMMA SpliceIn ==
    ASSUME NEW t, NEW W, NEW P, NEW r, RepIn(t, W, P, r), NEW n, NEW c, OnlyKid(t, P, n, c),
           NEW v, v = CutAndAdd(t, n, c, Ahead(t.at[c], -t.len[n]), t.len[c] + t.len[n])
    PROVE  GoesOut(t, v, W, P, r, n, c)
<1>1. t \in Trees /\ W \in [Node -> Word] /\ P \in SUBSET Node /\ Trie(P, r, t.up, W)
  BY DEF RepIn
<1>0. PICK u : u = v
  OBVIOUS
<1>2. PICK p, a, l : /\ p = t.up[n]
                     /\ a = Ahead(t.at[c], -t.len[n]) /\ l = t.len[c] + t.len[n]
  OBVIOUS
<1>3. u = CutAndAdd(t, n, c, a, l)
  BY <1>0, <1>2
<1>4. a \in Place /\ l \in Int /\ l > 0 /\ PieceIs(a, l, Base(t.up, W, n), W[c], c)
  BY <1>2, JoinedPiece
<1>5. /\ n \in P /\ c \in P /\ c \in Node /\ c # n /\ c # r /\ t.up[c] = n
      /\ KidsIn(P, t.up, n) = {c}
      /\ Pre(W[n], W[c]) /\ Len(W[n]) < Len(W[c])
  <2>1. Alone(t, W, P, r, n, c)
    BY OnlyIs
  <2> QED
    BY <2>1 DEF Alone
<1>6. /\ p \in Pointer /\ (n = r <=> p = NULL) /\ n # NULL /\ W[n] \in Word /\ Len(W[n]) \in Nat
      /\ W[c] \in Word /\ Len(W[c]) \in Nat
  BY <1>2, <1>5, InNode
<1>7. p # NULL => /\ p \in P /\ p # n /\ Pre(W[p], W[n]) /\ Len(W[p]) < Len(W[n])
                  /\ W[p] \in Word /\ Len(W[p]) \in Nat
  <2>1. p # NULL => p \in P /\ p # n /\ Pre(W[p], W[n]) /\ Len(W[p]) < Len(W[n])
    BY <1>2, <1>5, InNode
  <2> QED
    BY <2>1, InNode
<1>8. p # NULL => /\ Pre(W[p], W[c]) /\ Len(W[p]) < Len(W[c])
                  /\ W[c][Len(W[p]) + 1] = W[n][Len(W[p]) + 1]
                  /\ c # p /\ c \notin KidsIn(P, t.up, p)
  <2> SUFFICES ASSUME p # NULL
               PROVE  /\ Pre(W[p], W[c]) /\ Len(W[p]) < Len(W[c])
                      /\ W[c][Len(W[p]) + 1] = W[n][Len(W[p]) + 1]
                      /\ c # p /\ c \notin KidsIn(P, t.up, p)
    OBVIOUS
  <2>1. Pre(W[p], W[c])
    BY <1>5, <1>6, <1>7, PreTrans
  <2>2. Len(W[p]) < Len(W[c]) /\ Len(W[p]) + 1 \in 1 .. Len(W[n])
    BY <1>5, <1>6, <1>7
  <2>3. W[c][Len(W[p]) + 1] = W[n][Len(W[p]) + 1]
    BY <1>5, <2>2 DEF Pre
  <2>4. c # p
    BY <1>6, <1>7, <2>2
  <2>5. c \notin KidsIn(P, t.up, p)
    BY <1>5, <1>7 DEF KidsIn
  <2> QED
    BY <2>1, <2>2, <2>3, <2>4, <2>5
<1>9. Cuts(t, W, P, n, c, a, l, W[c])
  BY <1>2, <1>4, <1>8 DEF Cuts
<1>10. CutDone(t, u, W, P, n, c, l, W[c])
  BY <1>3, <1>4, <1>5, <1>6, <1>9, CutStep
<1>11. /\ u \in Trees /\ u.root = (IF p = NULL THEN c ELSE t.root)
       /\ \A x \in Node : u.up[x] = IF x = c THEN p ELSE t.up[x]
       /\ \A x \in Node : x # p => u.kids[x] = t.kids[x]
       /\ p # NULL => /\ Row(u.kids[p], (KidsIn(P, t.up, p) \ {n}) \cup {c})
                      /\ Len(u.kids[p]) = Len(t.kids[p])
       /\ \A x \in P : x # c => PieceIs(u.at[x], u.len[x], Base(t.up, W, x), W[x], x)
       /\ PieceIs(u.at[c], u.len[c], Base(t.up, W, n), W[c], c)
  BY <1>2, <1>10 DEF CutDone
<1>12. Trie(P \ {n}, IF n = r THEN c ELSE r, u.up, W)
  <2>1. \A x \in P \ {r} : t.up[x] = n => x = c
    BY <1>5 DEF KidsIn
  <2>2. \A x \in P \ {n} : W[x] = W[x] /\ (x # c => u.up[x] = t.up[x])
    BY <1>1, <1>11
  <2>3. u.up[c] = t.up[n] /\ c \in P \ {r}
    BY <1>2, <1>5, <1>11
  <2>4. Splices(P, r, t.up, W, n, c, u.up, W)
    BY <1>5, <2>1, <2>2, <2>3 DEF Splices
  <2> QED
    BY <1>1, <2>4, TrieSplice
<1>13. \A x \in P \ {n} : Row(u.kids[x], KidsIn(P \ {n}, u.up, x))
  <2> TAKE x \in P \ {n}
  <2>1. CASE x = p
    <3>1. KidsIn(P \ {n}, u.up, x) = (KidsIn(P, t.up, p) \ {n}) \cup {c}
      BY <1>1, <1>5, <1>11, <2>1 DEF KidsIn
    <3>2. p # NULL
      BY <1>1, <2>1, Nodes
    <3> QED
      BY <1>11, <2>1, <3>1, <3>2
  <2>2. CASE x # p
    <3>1. KidsIn(P \ {n}, u.up, x) = KidsIn(P, t.up, x)
      BY <1>1, <1>2, <1>5, <1>11, <2>2 DEF KidsIn
    <3>2. u.kids[x] = t.kids[x]
      BY <1>1, <1>11, <2>2
    <3> QED
      BY <3>1, <3>2 DEF RepIn
  <2> QED
    BY <2>1, <2>2
<1>14. \A x \in P \ {n} : PieceIs(u.at[x], u.len[x], Base(u.up, W, x), W[x], x)
  <2> TAKE x \in P \ {n}
  <2>1. CASE x = c
    <3>1. Base(u.up, W, x) = Base(t.up, W, n)
      BY <1>2, <1>5, <1>11, <2>1 DEF Base
    <3> QED
      BY <1>11, <2>1, <3>1
  <2>2. CASE x # c
    <3>1. u.up[x] = t.up[x]
      BY <1>1, <1>11, <2>2
    <3>2. Base(u.up, W, x) = Base(t.up, W, x)
      BY <3>1 DEF Base
    <3> QED
      BY <1>11, <2>2, <3>2
  <2> QED
    BY <2>1, <2>2
<1>15. RepIn(u, W, P \ {n}, IF n = r THEN c ELSE r)
  <2>1. P \ {n} \in SUBSET Node
    BY <1>1
  <2>2. PICK q : q = IF n = r THEN c ELSE r
    OBVIOUS
  <2>3. Trie(P \ {n}, q, u.up, W) /\ u \in Trees /\ W \in [Node -> Word]
    BY <1>1, <1>11, <1>12, <2>2
  <2>4. RepIn(u, W, P \ {n}, q)
    BY <1>13, <1>14, <2>1, <2>3 DEF RepIn
  <2> QED
    BY <2>2, <2>4
<1>16. Spliced(t, u, n, c)
  BY <1>2, <1>11 DEF Spliced
<1> QED
  BY <1>0, <1>15, <1>16 DEF GoesOut

\* The node m takes the place of n, with its word and its branches.
SwapDone(t, u, W, P, n, m) ==
    /\ u \in Trees
    /\ u.up[m] = t.up[n]
    /\ \A x \in P \ {n} : u.up[x] = IF t.up[x] = n THEN m ELSE t.up[x]
    /\ \A x \in P \ {n} : x # t.up[n] => u.kids[x] = t.kids[x]
    /\ u.kids[m] = t.kids[n]
    /\ t.up[n] # NULL => Row(u.kids[t.up[n]], (KidsIn(P, t.up, t.up[n]) \ {n}) \cup {m})
    /\ \A x \in P \ {n} : PieceIs(u.at[x], u.len[x], Base(t.up, W, x), W[x], x)
    /\ PieceIs(u.at[m], u.len[m], Base(t.up, W, n), W[n], m)
Takes(u, W, P, r, n, m) ==
    RepIn(u, [W EXCEPT ![m] = W[n]], (P \ {n}) \cup {m}, IF n = r THEN m ELSE r)

LEMMA SwapIn ==
    ASSUME NEW t, NEW W, NEW P, NEW r, RepIn(t, W, P, r), NEW n \in P, NEW m \in Node, m \notin P,
           NEW u, SwapDone(t, u, W, P, n, m)
    PROVE  Takes(u, W, P, r, n, m)
<1>1. t \in Trees /\ W \in [Node -> Word] /\ P \in SUBSET Node /\ Trie(P, r, t.up, W) /\ n \in Node
  BY DEF RepIn
<1>2. PICK p, w, b, Q, q : /\ p = t.up[n] /\ w = W[n] /\ b = Base(t.up, W, n)
                           /\ Q = (P \ {n}) \cup {m} /\ q = IF n = r THEN m ELSE r
  OBVIOUS
<1>3. /\ u \in Trees
      /\ u.up[m] = p
      /\ \A x \in P \ {n} : u.up[x] = IF t.up[x] = n THEN m ELSE t.up[x]
      /\ \A x \in P \ {n} : x # p => u.kids[x] = t.kids[x]
      /\ u.kids[m] = t.kids[n]
      /\ p # NULL => Row(u.kids[p], (KidsIn(P, t.up, p) \ {n}) \cup {m})
      /\ \A x \in P \ {n} : PieceIs(u.at[x], u.len[x], Base(t.up, W, x), W[x], x)
      /\ PieceIs(u.at[m], u.len[m], b, w, m)
  BY <1>2 DEF SwapDone
<1>4. /\ w \in Word /\ p \in Pointer /\ n # NULL /\ m # NULL /\ m # n
      /\ p # NULL => p \in P /\ p # n
  <2>1. m # NULL /\ m # n
    BY Nodes
  <2> QED
    BY <1>2, <2>1, InNode
<1>5. PICK V : V = [W EXCEPT ![m] = W[n]]
  OBVIOUS
<1>6. V \in [Node -> Word] /\ V[m] = w /\ \A x \in P : V[x] = W[x]
  BY <1>1, <1>2, <1>4, <1>5
<1>7. Trie(Q, q, u.up, V)
  <2>1. Swaps(P, t.up, W, n, m, u.up, V)
    BY <1>2, <1>3, <1>4, <1>6 DEF Swaps
  <2> QED
    BY <1>1, <1>2, <2>1, TrieSwap
<1>8. \A x \in P : t.up[x] # m /\ (t.up[x] = NULL \/ t.up[x] \in P)
  BY <1>4, InNode
<1>9. \A x \in Q : x # m => x \in P \ {n}
  BY <1>2
<1>10. \A x \in Q : Row(u.kids[x], KidsIn(Q, u.up, x))
  <2> TAKE x \in Q
  <2>1. CASE x = m
    <3>1. KidsIn(Q, u.up, x) = KidsIn(P, t.up, n)
      <4>1. \A y : y \in Q /\ u.up[y] = m <=> y \in P /\ t.up[y] = n
        BY <1>2, <1>3, <1>4, <1>8
      <4> QED
        BY <2>1, <4>1 DEF KidsIn
    <3>2. Row(t.kids[n], KidsIn(P, t.up, n))
      BY InKids
    <3> QED
      BY <1>3, <2>1, <3>1, <3>2
  <2>2. CASE x # m /\ x = p
    <3>1. KidsIn(Q, u.up, x) = (KidsIn(P, t.up, p) \ {n}) \cup {m}
      <4>1. \A y : y \in Q /\ u.up[y] = p <=> (y \in P /\ t.up[y] = p /\ y # n) \/ y = m
        BY <1>2, <1>3, <1>4, <1>8, <2>2
      <4> QED
        BY <2>2, <4>1 DEF KidsIn
    <3>2. p # NULL
      BY <1>1, <1>9, <2>2, Nodes
    <3> QED
      BY <1>3, <2>2, <3>1, <3>2
  <2>3. CASE x # m /\ x # p
    <3>1. KidsIn(Q, u.up, x) = KidsIn(P, t.up, x)
      <4>1. \A y : y \in Q /\ u.up[y] = x <=> y \in P /\ t.up[y] = x
        BY <1>2, <1>3, <1>4, <1>8, <1>9, <2>3
      <4> QED
        BY <4>1 DEF KidsIn
    <3>2. u.kids[x] = t.kids[x] /\ x \in P
      BY <1>3, <1>9, <2>3
    <3>3. Row(t.kids[x], KidsIn(P, t.up, x))
      BY <3>2, InKids
    <3> QED
      BY <3>1, <3>2, <3>3
  <2> QED
    BY <2>1, <2>2, <2>3
<1>11. \A x \in Q : PieceIs(u.at[x], u.len[x], Base(u.up, V, x), V[x], x)
  <2> TAKE x \in Q
  <2>1. CASE x = m
    <3>1. p # NULL => V[p] = W[p]
      BY <1>4, <1>6
    <3>2. Base(u.up, V, x) = b
      BY <1>2, <1>3, <2>1, <3>1 DEF Base
    <3> QED
      BY <1>3, <1>6, <2>1, <3>2
  <2>2. CASE x # m
    <3>1. x \in P \ {n} /\ V[x] = W[x]
      BY <1>6, <1>9, <2>2
    <3>2. /\ t.up[x] = n => u.up[x] = m /\ V[m] = W[n]
          /\ t.up[x] # n => u.up[x] = t.up[x]
      BY <1>2, <1>3, <1>6, <3>1
    <3>3. t.up[x] # NULL => V[t.up[x]] = W[t.up[x]]
      BY <1>6, <1>8, <3>1
    <3>4. Base(u.up, V, x) = Base(t.up, W, x)
      BY <1>4, <3>2, <3>3 DEF Base
    <3> QED
      BY <1>3, <3>1, <3>4
  <2> QED
    BY <2>1, <2>2
<1>12. RepIn(u, V, Q, q)
  <2>1. Q \in SUBSET Node
    BY <1>1, <1>2
  <2> QED
    BY <1>3, <1>6, <1>7, <1>10, <1>11, <2>1 DEF RepIn
<1> QED
  BY <1>2, <1>5, <1>12 DEF Takes

LEMMA PieceMoved ==
    ASSUME NEW a, NEW l, NEW b, NEW w, NEW n, PieceIs(a, l, b, w, n), NEW m \in Split
    PROVE  PieceIs(a, l, b, w, m)
<1>1. m \notin Key
  BY SplitsAreNoKeys
<1> QED
  BY <1>1 DEF PieceIs

-----------------------------------------------------------------------------
(***************************************************************************)
(* What each insertion and removal makes of the tree.                      *)
(***************************************************************************)
\* The tree t has the nodes Q, and H are the held keys.
Becomes(t, H, Q) == \E W : Sound(t, W, H) /\ InTree(t) = Q

LEMMA SoundFrom ==
    ASSUME NEW u, NEW V, NEW Q, NEW r, RepIn(u, V, Q, r), r = u.root, Q # {}, Clean(u, Q),
           \A n \in Q : n \notin Key => Len(u.kids[n]) > 1
    PROVE  Becomes(u, Q \cap Key, Q)
<1>1. u.root \in Q
  BY DEF RepIn, Trie
<1>2. Rep(u, V) /\ InTree(u) = Q
  BY <1>1, RepFrom
<1>3. Sound(u, V, Q \cap Key)
  BY <1>2 DEF Sound
<1> QED
  BY <1>2, <1>3 DEF Becomes

\* The tree without a node, and with its first.
LEMMA NoneLeft ==
    ASSUME NEW t \in Trees, t.root = NULL, Clean(t, {})
    PROVE  Becomes(t, {}, {})
<1>1. PICK W : W = [n \in Node |-> <<>>]
  OBVIOUS
<1>2. W \in [Node -> Word]
  BY <1>1 DEF Word
<1>3. InTree(t) = {}
  BY Nodes DEF InTree, Clean
<1>4. Trie({}, NULL, t.up, W)
  BY FS_EmptySet DEF Trie
<1>5. RepIn(t, W, {}, NULL)
  BY <1>2, <1>4 DEF RepIn
<1>6. Sound(t, W, {})
  BY <1>3, <1>5 DEF Sound, Rep
<1> QED
  BY <1>3, <1>6 DEF Becomes

LEMMA EmptyIs ==
    ASSUME NEW t, NEW W, NEW H, Sound(t, W, H), t.root = NULL
    PROVE  t \in Trees /\ H = {} /\ InTree(t) = {} /\ Clean(t, {})
<1>1. RepIn(t, W, InTree(t), t.root) /\ Clean(t, InTree(t)) /\ InTree(t) \cap Key = H
  BY DEF Sound, Rep
<1>2. t \in Trees /\ Trie(InTree(t), t.root, t.up, W)
  BY <1>1 DEF RepIn
<1>3. InTree(t) = {}
  BY <1>2 DEF Trie
<1> QED
  BY <1>1, <1>2, <1>3

LEMMA FirstNode ==
    ASSUME NEW t, NEW W, NEW H, Sound(t, W, H), t.root = NULL, NEW k \in Key,
           NEW v, v = [InitNode(t, k) EXCEPT !.root = k]
    PROVE  Becomes(v, {k}, {k}) /\ H = {} /\ InTree(t) = {}
<1>1. t \in Trees /\ H = {} /\ InTree(t) = {} /\ Clean(t, {})
  BY EmptyIs
<1>2. PICK c : c = InitNode(t, k)
  OBVIOUS
<1>3. Has(c, t.root, [t.up EXCEPT ![k] = NULL], [t.kids EXCEPT ![k] = <<>>],
          [t.at EXCEPT ![k] = From(k, 0)], [t.len EXCEPT ![k] = Len(k)])
  BY <1>1, <1>2, InitNodeIs
<1>4. c \in Trees /\ k \in Node /\ k \in Pointer
  BY <1>3, Nodes DEF Has
<1>5. PICK u : u = v
  OBVIOUS
<1>6. Has(u, k, c.up, c.kids, c.at, c.len)
  BY <1>2, <1>4, <1>5, PutRoot
<1>7. t.up \in [Node -> Pointer] /\ t.kids \in [Node -> Seq(Node)] /\ t.at \in [Node -> Place]
      /\ t.len \in [Node -> Int]
  BY <1>1, TreesAre
<1>8. /\ u \in Trees /\ u.root = k
      /\ u.up = [t.up EXCEPT ![k] = NULL] /\ u.kids = [t.kids EXCEPT ![k] = <<>>]
      /\ u.at = [t.at EXCEPT ![k] = From(k, 0)] /\ u.len = [t.len EXCEPT ![k] = Len(k)]
  BY <1>3, <1>6 DEF Has
<1>9. /\ u.up[k] = NULL /\ u.kids[k] = <<>> /\ u.at[k] = From(k, 0) /\ u.len[k] = Len(k)
      /\ \A x \in Node : x # k => u.up[x] = t.up[x] /\ u.kids[x] = t.kids[x]
  BY <1>4, <1>7, <1>8
<1>10. PICK V : V = [W EXCEPT ![k] = k]
  OBVIOUS
<1>11. V \in [Node -> Word] /\ V[k] = k /\ k \in Word /\ k # <<>> /\ Len(k) \in Nat
  <2>1. W \in [Node -> Word]
    BY DEF Sound, Rep, RepIn
  <2> QED
    BY <1>4, <1>10, <2>1, Nodes
<1>12. Trie({k}, k, u.up, V)
  <2>1. IsFiniteSet({k}) /\ k # NULL
    BY <1>4, FS_Singleton, Nodes
  <2> QED
    BY <1>9, <1>11, <2>1 DEF Trie
<1>13. PieceIs(u.at[k], u.len[k], Base(u.up, V, k), V[k], k)
  <2>1. Base(u.up, V, k) = 0
    BY <1>9 DEF Base
  <2>2. u.at[k].str = k /\ u.at[k].off = 0
    BY <1>9 DEF From
  <2>3. Pre(k, k) /\ Len(k) = Len(k) - 0
    BY <1>11 DEF Pre
  <2> QED
    BY <1>9, <1>11, <2>1, <2>2, <2>3 DEF PieceIs
<1>14. Row(u.kids[k], KidsIn({k}, u.up, k))
  <2>1. KidsIn({k}, u.up, k) = {}
    BY <1>4, <1>9, Nodes DEF KidsIn
  <2> QED
    BY <1>9, <2>1, RowEmpty
<1>15. RepIn(u, V, {k}, k)
  BY <1>4, <1>8, <1>11, <1>12, <1>13, <1>14 DEF RepIn
<1>16. Clean(u, {k})
  BY <1>1, <1>9 DEF Clean
<1>17. Becomes(u, {k} \cap Key, {k})
  BY <1>8, <1>15, <1>16, SoundFrom
<1>18. {k} \cap Key = {k}
  OBVIOUS
<1> QED
  BY <1>1, <1>5, <1>17, <1>18

\* rt_init_node: the new node, not in the tree yet.
Prepares(t, u, k) ==
    /\ u \in Trees /\ u.root = t.root /\ u.up = t.up /\ u.kids = t.kids /\ InTree(u) = InTree(t)
    /\ u.at[k] = From(k, 0) /\ u.len[k] = Len(k)
    /\ \A x \in Node : x # k => u.at[x] = t.at[x] /\ u.len[x] = t.len[x]

LEMMA PreparedIs ==
    ASSUME NEW t, NEW W, Rep(t, W), NEW k \in Key, k \notin InTree(t), NEW v, v = InitNode(t, k)
    PROVE  Rep(v, W) /\ Prepares(t, v, k)
<1>1. RepIn(t, W, InTree(t), t.root) /\ Clean(t, InTree(t))
  BY DEF Rep
<1>2. t \in Trees /\ W \in [Node -> Word] /\ k \in Node /\ InTree(t) \in SUBSET Node
  BY <1>1, Nodes DEF RepIn
<1>3. PICK u : u = v
  OBVIOUS
<1>4. Has(u, t.root, [t.up EXCEPT ![k] = NULL], [t.kids EXCEPT ![k] = <<>>],
          [t.at EXCEPT ![k] = From(k, 0)], [t.len EXCEPT ![k] = Len(k)])
  BY <1>2, <1>3, InitNodeIs
<1>5. t.up \in [Node -> Pointer] /\ t.kids \in [Node -> Seq(Node)] /\ t.at \in [Node -> Place]
      /\ t.len \in [Node -> Int]
  BY <1>2, TreesAre
<1>6. t.up[k] = NULL /\ t.kids[k] = <<>>
  BY <1>1, <1>2 DEF Clean
<1>7. u.up = t.up /\ u.kids = t.kids /\ u.root = t.root /\ u \in Trees
  <2>1. \A f \in [Node -> Pointer] : f[k] = NULL => [f EXCEPT ![k] = NULL] = f
    BY <1>2
  <2>2. \A f \in [Node -> Seq(Node)] : f[k] = <<>> => [f EXCEPT ![k] = <<>>] = f
    BY <1>2
  <2>3. /\ u.up = [t.up EXCEPT ![k] = NULL] /\ u.kids = [t.kids EXCEPT ![k] = <<>>]
        /\ u.root = t.root /\ u \in Trees
    BY <1>4 DEF Has
  <2>4. [t.up EXCEPT ![k] = NULL] = t.up
    BY <1>5, <1>6, <2>1
  <2>5. [t.kids EXCEPT ![k] = <<>>] = t.kids
    BY <1>5, <1>6, <2>2
  <2> QED
    BY <2>3, <2>4, <2>5
<1>8. /\ u.at[k] = From(k, 0) /\ u.len[k] = Len(k)
      /\ \A x \in Node : x # k => u.at[x] = t.at[x] /\ u.len[x] = t.len[x]
  BY <1>2, <1>4, <1>5 DEF Has
<1>9. InTree(u) = InTree(t)
  BY <1>7 DEF InTree
<1>10. RepIn(u, W, InTree(t), t.root)
  <2>1. \A x \in InTree(t) : PieceIs(u.at[x], u.len[x], Base(t.up, W, x), W[x], x)
    <3> TAKE x \in InTree(t)
    <3>1. u.at[x] = t.at[x] /\ u.len[x] = t.len[x]
      BY <1>2, <1>8
    <3>2. PieceIs(t.at[x], t.len[x], Base(t.up, W, x), W[x], x)
      BY <1>1, InNode
    <3> QED
      BY <3>1, <3>2
  <2> QED
    BY <1>1, <1>7, <2>1 DEF RepIn
<1>11. Clean(u, InTree(u))
  BY <1>1, <1>7, <1>9 DEF Clean
<1>12. Rep(u, W)
  BY <1>7, <1>9, <1>10, <1>11 DEF Rep
<1> QED
  BY <1>3, <1>7, <1>8, <1>9, <1>12 DEF Prepares

\* rt_insert_node where the search has read what it could of the key: below the
\* node where it stopped.
LEMMA NotHere ==
    ASSUME NEW t, NEW W, Rep(t, W), t.root # NULL, NEW k \in Key, NEW w, Arrived(t, W, k, w),
           ~Hit(t, k, w)
    PROVE  k \notin InTree(t)
<1>1. k \in Word
  BY Nodes
<1>2. \A x \in InTree(t) : W[x] # k
  BY <1>1, HitIs
<1> QED
  BY <1>2, KeyWord

StopsBelow(t, W, k, w, p) ==
    /\ p \in InTree(t) /\ Pre(W[p], k) /\ Len(W[p]) < Len(k) /\ w.i = Len(W[p])
    /\ NoBranch(t, W, k, p)

LEMMA StopIs ==
    ASSUME NEW t, NEW W, Rep(t, W), NEW k \in Word, NEW w, Arrived(t, W, k, w),
           w.pos = t.len[Stop(w)], w.i < Len(k)
    PROVE  StopsBelow(t, W, k, w, Stop(w))
<1>1. CASE w.t = NULL
  <2>1. w.p # NULL /\ w.i = Len(W[w.p]) /\ NoBranch(t, W, k, w.p) /\ Passed(t, W, k, w.p)
    BY <1>1 DEF Arrived
  <2> QED
    BY <1>1, <2>1 DEF StopsBelow, Passed, Stop
<1>2. CASE w.t # NULL
  <2>1. PICK n : n = w.t
    OBVIOUS
  <2>2. /\ n \in InTree(t) /\ w.i = Base(t.up, W, n) + w.pos /\ w.i <= Len(k)
        /\ \A h \in 1 .. w.i : W[n][h] = k[h]
        /\ w.pos < t.len[n] \/ w.i = Len(k) \/ t.kids[n] = <<>>
        /\ w.pos = t.len[n]
    BY <1>2, <2>1 DEF Arrived, Stop
  <2>3. /\ n \in Node /\ t.len[n] = Len(W[n]) - Base(t.up, W, n) /\ Len(W[n]) \in Nat
        /\ Base(t.up, W, n) \in Nat
    BY <2>2, RepNode
  <2>4. Len(k) \in Nat
    BY WordIs
  <2>5. w.i = Len(W[n])
    <3>1. \A i, j \in Nat : i + (j - i) = j
      OBVIOUS
    <3>2. w.i = Base(t.up, W, n) + (Len(W[n]) - Base(t.up, W, n))
      BY <2>2, <2>3
    <3> QED
      BY <2>3, <3>1, <3>2, Zenon
  <2>6. t.kids[n] = <<>>
    <3>1. ~(t.len[n] < t.len[n]) /\ Len(k) # Len(W[n])
      BY <2>3, <2>4, <2>5
    <3> QED
      BY <2>2, <2>5, <3>1
  <2>7. Kids(t.up, n) = {}
    <3>1. Row(t.kids[n], Kids(t.up, n))
      BY <2>3, RepKids
    <3> QED
      BY <2>6, <3>1, RowIs
  <2>8. Pre(W[n], k) /\ Len(W[n]) < Len(k)
    BY <2>2, <2>3, <2>4, <2>5 DEF Pre
  <2>9. NoBranch(t, W, k, n)
    BY <2>7 DEF NoBranch
  <2> QED
    BY <1>2, <2>1, <2>2, <2>5, <2>8, <2>9 DEF StopsBelow, Stop
<1> QED
  BY <1>1, <1>2

\* add_rt_node of a prepared node.
LEMMA LeafBecomes ==
    ASSUME NEW t, NEW W, NEW H, Sound(t, W, H), NEW k \in Key, k \notin InTree(t), NEW p, NEW w,
           StopsBelow(t, W, k, w, p),
           NEW v, v = UpdateParent(AddNode(InitNode(t, k), p, k, From(k, w.i), Len(k) - w.i), k)
    PROVE  Becomes(v, H \cup {k}, InTree(t) \cup {k})
<1>1. PICK s, P, a, l : /\ s = InitNode(t, k) /\ P = InTree(t) /\ a = From(k, w.i) /\ l = Len(k) - w.i
  OBVIOUS
<1>2. Rep(t, W) /\ P \cap Key = H /\ \A n \in P : n \notin Key => Len(t.kids[n]) > 1
  BY <1>1 DEF Sound
<1>3. Rep(s, W) /\ Prepares(t, s, k)
  BY <1>1, <1>2, PreparedIs
<1>4. s \in Trees /\ s.root = t.root /\ s.up = t.up /\ s.kids = t.kids /\ InTree(s) = P
  BY <1>1, <1>3 DEF Prepares
<1>5. RepIn(s, W, P, s.root) /\ Clean(s, P)
  BY <1>3, <1>4 DEF Rep
<1>6. /\ p \in P /\ Pre(W[p], k) /\ Len(W[p]) < Len(k) /\ w.i = Len(W[p])
      /\ NoBranch(t, W, k, p)
  BY <1>1 DEF StopsBelow
<1>7. /\ P \in SUBSET Node /\ k \in Node /\ k \in Word /\ k # <<>> /\ Len(k) \in Nat /\ k \notin P
      /\ p \in Node
  BY <1>1, <1>5, <1>6, Nodes DEF RepIn
<1>8. Len(W[p]) \in Nat /\ p # NULL
  BY <1>5, <1>6, InNode
<1>9. a \in Place /\ l \in Int /\ a.str = k /\ a.off = Len(W[p]) /\ l = Len(k) - Len(W[p])
  BY <1>1, <1>6, <1>7, <1>8 DEF From, Place
<1>10. AddsTo(s, W, P, p, k, a, l, k)
  <2>1. PieceIs(a, l, Len(W[p]), k, k)
    <3>1. Pre(k, k)
      BY <1>7 DEF Pre
    <3> QED
      BY <1>7, <1>9, <3>1 DEF PieceIs
  <2>2. \A x \in KidsIn(P, s.up, p) : W[x][Len(W[p]) + 1] # k[Len(W[p]) + 1]
    BY <1>4, <1>6, <1>7 DEF NoBranch, Kids, KidsIn
  <2>3. s.kids[k] = <<>>
    BY <1>5, <1>7 DEF Clean
  <2> QED
    BY <1>6, <2>1, <2>2, <2>3 DEF AddsTo
<1>11. PICK x, V : x = AddNode(s, p, k, a, l) /\ V = [W EXCEPT ![k] = k]
  OBVIOUS
<1>12. RepIn(x, V, P \cup {k}, s.root) /\ Hung(s, x, p, k, a, l, KidsIn(P, s.up, p))
  BY <1>5, <1>6, <1>7, <1>9, <1>10, <1>11, AddIn
<1>13. /\ x \in Trees /\ x.root = s.root
       /\ \A y \in Node : x.up[y] = IF y = k THEN p ELSE s.up[y]
       /\ \A y \in Node : y # p => x.kids[y] = s.kids[y]
       /\ Len(x.kids[p]) = Len(s.kids[p]) + 1
  BY <1>12 DEF Hung
<1>14. PICK u : u = v
  OBVIOUS
<1>15. u = UpdateParent(x, k)
  BY <1>1, <1>11, <1>14
<1>16. x.up[k] = p
  BY <1>7, <1>13
<1>17. RepIn(u, V, P \cup {k}, s.root)
  BY <1>6, <1>7, <1>12, <1>15, <1>16, RenewIn
<1>18. u.up = x.up /\ u.kids = x.kids /\ u.root = s.root
  <2>1. Renewed(x, u, k, p)
    BY <1>7, <1>13, <1>15, <1>16, UpdateParentIs
  <2> QED
    BY <1>8, <1>13, <2>1 DEF Renewed
<1>19. Clean(u, P \cup {k})
  BY <1>5, <1>6, <1>13, <1>18 DEF Clean
<1>20. \A n \in P \cup {k} : n \notin Key => Len(u.kids[n]) > 1
  <2> SUFFICES ASSUME NEW n \in P, n \notin Key
               PROVE  Len(u.kids[n]) > 1
    OBVIOUS
  <2>1. Len(t.kids[n]) > 1
    BY <1>2
  <2>2. CASE n = p
    <3>1. Row(t.kids[p], Kids(t.up, p))
      BY <1>2, <1>7, RepKids
    <3>2. Len(t.kids[p]) \in Nat
      BY <3>1, RowIs
    <3>3. Len(u.kids[n]) = Len(t.kids[p]) + 1
      BY <1>4, <1>13, <1>18, <2>2
    <3> QED
      BY <2>1, <2>2, <3>2, <3>3
  <2>3. CASE n # p
    BY <1>4, <1>7, <1>13, <1>18, <2>1, <2>3
  <2> QED
    BY <2>2, <2>3
<1>21. Becomes(u, (P \cup {k}) \cap Key, P \cup {k})
  <2>1. P \cup {k} # {}
    OBVIOUS
  <2> QED
    BY <1>17, <1>18, <1>19, <1>20, <2>1, SoundFrom
<1>22. (P \cup {k}) \cap Key = H \cup {k}
  BY <1>2
<1> QED
  BY <1>1, <1>14, <1>21, <1>22

\* Where the search stops inside the piece of the node n: i letters of the key
\* agree, pos of them in the piece.
StopsIn(t, W, k, w, n) ==
    /\ n \in InTree(t) /\ w.pos \in Nat /\ w.pos < t.len[n] /\ w.i = Base(t.up, W, n) + w.pos
    /\ w.i \in Nat /\ w.i <= Len(k) /\ w.i < Len(W[n])
    /\ \A h \in 1 .. w.i : W[n][h] = k[h]
    /\ w.i < Len(k) => W[n][w.i + 1] # k[w.i + 1]
    /\ t.up[n] # NULL => w.pos > 0

LEMMA InsideIs ==
    ASSUME NEW t, NEW W, Rep(t, W), NEW k \in Word, NEW w, Arrived(t, W, k, w),
           w.pos # t.len[Stop(w)]
    PROVE  StopsIn(t, W, k, w, w.t)
<1>1. w.t # NULL
  BY DEF Arrived, Stop
<1>2. PICK n, b : n = w.t /\ b = Base(t.up, W, n)
  OBVIOUS
<1>3. /\ n \in InTree(t) /\ t.up[n] = w.p /\ w.pos \in Nat /\ w.pos <= t.len[n]
      /\ w.i = b + w.pos /\ w.i <= Len(k) /\ w.i <= Len(W[n])
      /\ \A h \in 1 .. w.i : W[n][h] = k[h]
      /\ w.pos < t.len[n] /\ w.i < Len(k) => W[n][w.i + 1] # k[w.i + 1]
      /\ w.p # NULL => w.pos > 0
  BY <1>1, <1>2 DEF Arrived
<1>4. /\ t.len[n] = Len(W[n]) - b /\ Len(W[n]) \in Nat /\ b \in Nat
  BY <1>2, <1>3, RepNode
<1>5. w.pos # t.len[n]
  BY <1>1, <1>2 DEF Stop
<1>6. w.pos < t.len[n] /\ w.i \in Nat /\ w.i < Len(W[n])
  <2>1. \A i, j, q \in Nat : q <= j - i /\ q # j - i => q < j - i /\ i + q \in Nat /\ i + q < j
    OBVIOUS
  <2>2. w.pos <= Len(W[n]) - b /\ w.pos # Len(W[n]) - b
    BY <1>3, <1>4, <1>5
  <2>3. w.pos < Len(W[n]) - b /\ b + w.pos \in Nat /\ b + w.pos < Len(W[n])
    BY <1>3, <1>4, <2>1, <2>2
  <2> QED
    BY <1>3, <1>4, <2>3, Zenon
<1> QED
  BY <1>2, <1>3, <1>6 DEF StopsIn

\* The word w of the first i letters comes between the words of n and its parent.
Halfway(t, W, P, n, i, w) ==
    /\ w \in Word /\ Len(w) = i /\ Pre(w, W[n]) /\ Len(w) < Len(W[n])
    /\ t.up[n] # NULL =>
         /\ Pre(W[t.up[n]], w) /\ Len(W[t.up[n]]) < Len(w)
         /\ w[Len(W[t.up[n]]) + 1] = W[n][Len(W[t.up[n]]) + 1]

LEMMA HalfwayIs ==
    ASSUME NEW t, NEW W, Rep(t, W), NEW k \in Word, NEW w, NEW n, StopsIn(t, W, k, w, n),
           NEW q \in Word, Len(q) = w.i, Pre(q, k)
    PROVE  Halfway(t, W, InTree(t), n, w.i, q)
<1>1. PICK i, b, P : i = w.i /\ b = Base(t.up, W, n) /\ P = InTree(t)
  OBVIOUS
<1>2. /\ n \in P /\ w.pos \in Nat /\ i = b + w.pos /\ i \in Nat /\ i < Len(W[n])
      /\ \A h \in 1 .. i : W[n][h] = k[h]
      /\ t.up[n] # NULL => w.pos > 0
  BY <1>1 DEF StopsIn
<1>3. /\ n \in Node /\ W[n] \in Word /\ Len(W[n]) \in Nat /\ b \in Nat
      /\ t.up[n] # NULL => /\ t.up[n] \in P /\ b = Len(W[t.up[n]])
                           /\ Pre(W[t.up[n]], W[n])
  BY <1>1, <1>2, RepNode
<1>4. Len(q) = i /\ \A h \in 1 .. i : q[h] = W[n][h]
  BY <1>1, <1>2 DEF Pre
<1>5. Pre(q, W[n]) /\ Len(q) < Len(W[n])
  BY <1>2, <1>3, <1>4 DEF Pre
<1>6. ASSUME t.up[n] # NULL
      PROVE  /\ Pre(W[t.up[n]], q) /\ Len(W[t.up[n]]) < Len(q)
             /\ q[Len(W[t.up[n]]) + 1] = W[n][Len(W[t.up[n]]) + 1]
  <2>1. b < i /\ b + 1 \in 1 .. i
    BY <1>2, <1>3, <1>6
  <2>2. W[t.up[n]] \in Word /\ b = Len(W[t.up[n]]) /\ Pre(W[t.up[n]], W[n])
    <3>1. t.up[n] \in P
      BY <1>3, <1>6
    <3>2. W[t.up[n]] \in Word
      BY <1>1, <3>1, RepNode
    <3> QED
      BY <1>3, <1>6, <3>2
  <2>3. Len(W[t.up[n]]) <= Len(q)
    BY <1>2, <1>3, <1>4, <2>1, <2>2
  <2>4. Pre(W[t.up[n]], q)
    BY <1>3, <1>5, <2>2, <2>3, PreBoth
  <2>5. q[b + 1] = W[n][b + 1]
    BY <1>4, <2>1
  <2> QED
    BY <1>4, <2>1, <2>2, <2>4, <2>5
<1> QED
  BY <1>1, <1>4, <1>5, <1>6 DEF Halfway

\* rt_insert_node of a key that ends there: its node comes above n.
LEMMA AboveBecomes ==
    ASSUME NEW t, NEW W, NEW H, Sound(t, W, H), NEW k \in Key, k \notin InTree(t), NEW w, NEW n,
           StopsIn(t, W, k, w, n), w.i = Len(k),
           NEW v, v = AddNode(CutAndAdd(InitNode(t, k), n, k, From(k, w.i - w.pos), w.pos), k, n,
                              Ahead(t.at[n], w.pos), t.len[n] - w.pos)
    PROVE  Becomes(v, H \cup {k}, InTree(t) \cup {k})
<1>1. PICK s, P, a, l, b : /\ s = InitNode(t, k) /\ P = InTree(t) /\ a = From(k, w.i - w.pos)
                           /\ l = w.pos /\ b = Base(t.up, W, n)
  OBVIOUS
<1>2. Rep(t, W) /\ P \cap Key = H /\ \A x \in P : x \notin Key => Len(t.kids[x]) > 1
  BY <1>1 DEF Sound
<1>3. Rep(s, W) /\ Prepares(t, s, k)
  BY <1>1, <1>2, PreparedIs
<1>4. /\ s \in Trees /\ s.root = t.root /\ s.up = t.up /\ s.kids = t.kids /\ InTree(s) = P
      /\ \A x \in Node : x # k => s.at[x] = t.at[x] /\ s.len[x] = t.len[x]
  BY <1>1, <1>3 DEF Prepares
<1>5. RepIn(s, W, P, s.root) /\ Clean(s, P)
  BY <1>3, <1>4 DEF Rep
<1>6. n \in P /\ l \in Nat /\ w.i = b + l /\ w.i \in Nat /\ (t.up[n] # NULL => l > 0)
  BY <1>1 DEF StopsIn
<1>7. /\ P \in SUBSET Node /\ k \in Node /\ k \in Word /\ k # <<>> /\ Len(k) \in Nat /\ k \notin P
      /\ n \in Node /\ Len(k) > 0
  BY <1>1, <1>5, <1>6, Nodes DEF RepIn
<1>8. b \in Nat /\ (t.up[n] = NULL => b = 0) /\ (n = t.root <=> t.up[n] = NULL)
      /\ (t.up[n] # NULL => t.up[n] \in P)
  BY <1>1, <1>2, <1>6, RepNode
<1>9. l > 0
  BY <1>6, <1>7, <1>8
<1>10. a \in Place /\ l \in Int /\ a.str = k /\ a.off = b /\ l = Len(k) - b
  <2>1. w.i - w.pos = b /\ l = Len(k) - b
    BY <1>1, <1>6, <1>8
  <2> QED
    BY <1>1, <1>6, <1>7, <1>8, <2>1 DEF From, Place
<1>11. Pre(k, k)
  BY <1>7 DEF Pre
<1>12. Halfway(t, W, P, n, w.i, k)
  BY <1>1, <1>2, <1>7, <1>11, HalfwayIs
<1>13. Cuts(s, W, P, n, k, a, l, k)
  <2>1. PieceIs(a, l, b, k, k)
    BY <1>7, <1>10, <1>11 DEF PieceIs
  <2>2. PieceIs(IF l > 0 THEN a ELSE NoString, l, b, k, k)
    BY <1>9, <2>1
  <2>3. \A x : k \notin KidsIn(P, s.up, x)
    BY <1>7 DEF KidsIn
  <2>4. s.up[n] # NULL =>
          /\ Pre(W[s.up[n]], k) /\ Len(W[s.up[n]]) < Len(k)
          /\ k[Len(W[s.up[n]]) + 1] = W[n][Len(W[s.up[n]]) + 1]
          /\ k # s.up[n]
    BY <1>4, <1>7, <1>8, <1>12 DEF Halfway
  <2> QED
    BY <1>1, <1>4, <2>2, <2>3, <2>4 DEF Cuts
<1>14. PICK u : u = v
  OBVIOUS
<1>15. u = AddNode(CutAndAdd(s, n, k, a, l), k, n, Ahead(s.at[n], l), s.len[n] - l)
  BY <1>1, <1>4, <1>6, <1>7, <1>14
<1>16. PICK V, r : V = [W EXCEPT ![k] = k] /\ r = IF n = s.root THEN k ELSE s.root
  OBVIOUS
<1>17. RepIn(u, V, P \cup {k}, r) /\ Between(s, u, n, k)
  <2>1. Pre(k, W[n]) /\ Len(k) < Len(W[n])
    BY <1>12 DEF Halfway
  <2>2. s.kids[k] = <<>>
    BY <1>5, <1>7 DEF Clean
  <2>3. ComesIn(s, u, W, P, s.root, n, k, k)
    BY <1>5, <1>6, <1>7, <1>10, <1>13, <1>15, <2>1, <2>2, CutIn
  <2> QED
    BY <1>16, <2>3 DEF ComesIn
<1>18. /\ u.root = r
       /\ \A x \in Node : u.up[x] = IF x = n THEN k ELSE IF x = k THEN t.up[n] ELSE t.up[x]
       /\ \A x \in Node : x # k /\ x # t.up[n] => u.kids[x] = t.kids[x]
       /\ t.up[n] # NULL => Len(u.kids[t.up[n]]) = Len(t.kids[t.up[n]])
  BY <1>4, <1>8, <1>16, <1>17 DEF Between
<1>19. Clean(u, P \cup {k})
  <2>1. \A x \in Node : x \notin P \cup {k} => u.up[x] = t.up[x] /\ u.kids[x] = t.kids[x]
    BY <1>6, <1>8, <1>18, Nodes
  <2> QED
    BY <1>4, <1>5, <2>1 DEF Clean
<1>20. \A x \in P \cup {k} : x \notin Key => Len(u.kids[x]) > 1
  <2> SUFFICES ASSUME NEW x \in P, x \notin Key
               PROVE  Len(u.kids[x]) > 1
    OBVIOUS
  <2>1. Len(t.kids[x]) > 1 /\ x \in Node /\ x # k /\ x # NULL
    BY <1>2, <1>7, Nodes
  <2> QED
    BY <1>18, <2>1
<1>21. Becomes(u, (P \cup {k}) \cap Key, P \cup {k})
  <2>1. P \cup {k} # {}
    OBVIOUS
  <2> QED
    BY <1>17, <1>18, <1>19, <1>20, <2>1, SoundFrom
<1>22. (P \cup {k}) \cap Key = H \cup {k}
  BY <1>2
<1> QED
  BY <1>1, <1>14, <1>21, <1>22

\* rt_insert_node of a key that goes on: the spare split node d comes above n
\* and has the new node for its second branch.
SplitsAt(t, low, W, P, n, d, q) ==
    /\ ComesIn(t, low, W, P, t.root, n, d, q)
    /\ Clean(t, P) /\ n \in P /\ d \in Node /\ d \notin P

LEMMA SplitStep ==
    ASSUME NEW t, NEW W, Rep(t, W), NEW k \in Word, NEW w, NEW n, StopsIn(t, W, k, w, n),
           NEW d \in Split, d \notin InTree(t), NEW q \in Word, Len(q) = w.i, Pre(q, k),
           NEW v, v = AddNode(CutAndAdd(t, n, d, t.at[n], w.pos), d, n,
                              Ahead(t.at[n], w.pos), t.len[n] - w.pos)
    PROVE  SplitsAt(t, v, W, InTree(t), n, d, q)
<1>1. PICK P, a, l, b : P = InTree(t) /\ a = t.at[n] /\ l = w.pos /\ b = Base(t.up, W, n)
  OBVIOUS
<1>2. RepIn(t, W, P, t.root) /\ Clean(t, P)
  BY <1>1 DEF Rep
<1>3. n \in P /\ l \in Nat /\ l < t.len[n] /\ w.i = b + l /\ w.i \in Nat /\ (t.up[n] # NULL => l > 0)
  BY <1>1 DEF StopsIn
<1>4. /\ b \in Nat /\ (t.up[n] = NULL => b = 0) /\ a \in Place /\ W[n] \in Word
      /\ PieceIs(a, t.len[n], b, W[n], n) /\ t.len[n] = Len(W[n]) - b
      /\ (t.up[n] # NULL => t.up[n] \in P)
  BY <1>1, <1>3, RepNode
<1>5. /\ P \in SUBSET Node /\ d \in Node /\ d \notin P /\ d \notin Key
  BY <1>1, <1>2, SplitsAreNoKeys, Nodes DEF RepIn
<1>6. Halfway(t, W, P, n, w.i, q)
  BY <1>1, HalfwayIs
<1>7. Pre(q, W[n]) /\ Len(q) < Len(W[n])
  BY <1>6 DEF Halfway
<1>8. W[n] # <<>> /\ Len(q) \in Nat
  BY <1>4, <1>7, WordIs
<1>9. a.str \in Key /\ Pre(W[n], a.str) /\ a.off = b
  BY <1>4, <1>8 DEF PieceIs
<1>10. Pre(q, a.str)
  BY <1>4, <1>7, <1>9, Nodes, PreTrans
<1>11. PieceIs(IF l > 0 THEN a ELSE NoString, l, b, q, d)
  <2>1. q = <<>> <=> Len(q) = 0
    BY WordIs
  <2>2. l = Len(q) - b /\ l \in Int
    BY <1>3, <1>4
  <2>3. CASE q = <<>>
    <3>1. b = 0 /\ l = 0
      BY <1>3, <1>4, <2>1, <2>3
    <3>2. (IF l > 0 THEN a ELSE NoString) = NoString
      BY <3>1
    <3> QED
      BY <2>3, <3>1, <3>2 DEF PieceIs
  <2>4. CASE q # <<>>
    <3>1. l > 0
      BY <1>3, <1>4, <2>1, <2>4
    <3>2. PieceIs(a, l, b, q, d)
      BY <1>5, <1>9, <1>10, <2>2, <2>4 DEF PieceIs
    <3> QED
      BY <3>1, <3>2
  <2> QED
    BY <2>3, <2>4
<1>12. Cuts(t, W, P, n, d, a, l, q)
  <2>1. \A x : d \notin KidsIn(P, t.up, x)
    BY <1>5 DEF KidsIn
  <2>2. t.up[n] # NULL =>
          /\ Pre(W[t.up[n]], q) /\ Len(W[t.up[n]]) < Len(q)
          /\ q[Len(W[t.up[n]]) + 1] = W[n][Len(W[t.up[n]]) + 1]
          /\ d # t.up[n]
    BY <1>4, <1>5, <1>6 DEF Halfway
  <2> QED
    BY <1>1, <1>11, <2>1, <2>2 DEF Cuts
<1>13. t.kids[d] = <<>>
  BY <1>2, <1>5 DEF Clean
<1>14. PICK u : u = v
  OBVIOUS
<1>15. u = AddNode(CutAndAdd(t, n, d, a, l), d, n, Ahead(t.at[n], l), t.len[n] - l)
  BY <1>1, <1>14
<1>16. l \in Int
  BY <1>3
<1>17. ComesIn(t, u, W, P, t.root, n, d, q)
  BY <1>2, <1>3, <1>4, <1>5, <1>7, <1>12, <1>13, <1>15, <1>16, CutIn
<1> QED
  BY <1>1, <1>2, <1>3, <1>5, <1>14, <1>17 DEF SplitsAt

LEMMA SplittingBecomes ==
    ASSUME NEW t, NEW W, NEW H, Sound(t, W, H), NEW k \in Key, k \notin InTree(t), NEW w, NEW n,
           StopsIn(t, W, k, w, n), w.i < Len(k), NEW d \in Split, d \notin InTree(t),
           NEW low, low = AddNode(CutAndAdd(InitNode(t, k), n, d, t.at[n], w.pos), d, n,
                                  Ahead(t.at[n], w.pos), t.len[n] - w.pos),
           NEW v, v = UpdateParent(AddNode(low, d, k, From(k, w.i), Len(k) - w.i), n)
    PROVE  Becomes(v, H \cup {k}, (InTree(t) \cup {d}) \cup {k})
<1>1. PICK s, P, a, l, i : /\ s = InitNode(t, k) /\ P = InTree(t) /\ a = From(k, w.i)
                           /\ l = Len(k) - w.i /\ i = w.i
  OBVIOUS
<1>2. Rep(t, W) /\ P \cap Key = H /\ \A x \in P : x \notin Key => Len(t.kids[x]) > 1
  BY <1>1 DEF Sound
<1>3. Rep(s, W) /\ Prepares(t, s, k)
  BY <1>1, <1>2, PreparedIs
<1>4. /\ s \in Trees /\ s.root = t.root /\ s.up = t.up /\ s.kids = t.kids /\ InTree(s) = P
      /\ \A x \in Node : x # k => s.at[x] = t.at[x] /\ s.len[x] = t.len[x]
  BY <1>1, <1>3 DEF Prepares
<1>5. /\ n \in P /\ i \in Nat /\ i < Len(W[n]) /\ (i < Len(k) => W[n][i + 1] # k[i + 1])
  BY <1>1 DEF StopsIn
<1>6. /\ P \in SUBSET Node /\ k \in Node /\ k \in Word /\ k # <<>> /\ Len(k) \in Nat /\ k \notin P
      /\ n \in Node /\ n # k /\ d \in Node /\ d \notin Key /\ d # k /\ d \notin P /\ d # NULL
  <2>1. P \in SUBSET Node
    BY <1>1, <1>2 DEF Rep, RepIn
  <2> QED
    BY <1>1, <1>5, <2>1, Nodes, SplitsAreNoKeys
<1>7. PICK q : q = SubSeq(k, 1, i)
  OBVIOUS
<1>8. q \in Word /\ Len(q) = i /\ Pre(q, k)
  <2>1. i \in 0 .. Len(k)
    BY <1>1, <1>5, <1>6
  <2> QED
    BY <1>6, <1>7, <2>1, CutIs
<1>9. PICK y : y = low
  OBVIOUS
<1>10. SplitsAt(s, y, W, P, n, d, q)
  <2>1. StopsIn(s, W, k, w, n)
    <3>1. s.len[n] = t.len[n]
      BY <1>4, <1>6
    <3> QED
      BY <1>1, <1>4, <3>1 DEF StopsIn
  <2>2. y = AddNode(CutAndAdd(s, n, d, s.at[n], w.pos), d, n, Ahead(s.at[n], w.pos), s.len[n] - w.pos)
    BY <1>1, <1>4, <1>6, <1>9
  <2>3. d \notin InTree(s) /\ Len(q) = w.i
    BY <1>1, <1>4, <1>8
  <2>4. SplitsAt(s, y, W, InTree(s), n, d, q)
    BY <1>3, <1>6, <1>8, <2>1, <2>2, <2>3, SplitStep
  <2> QED
    BY <1>4, <2>4
<1>11. PICK V, r, Q : V = [W EXCEPT ![d] = q] /\ r = (IF n = s.root THEN d ELSE s.root) /\ Q = P \cup {d}
  OBVIOUS
<1>12. RepIn(y, V, Q, r) /\ Between(s, y, n, d) /\ Clean(s, P)
  BY <1>10, <1>11 DEF SplitsAt, ComesIn
<1>13. (n = s.root <=> s.up[n] = NULL) /\ (s.up[n] # NULL => s.up[n] \in P)
  BY <1>3, <1>4, <1>5, RepNode
<1>14. /\ y.root = r
       /\ \A x \in Node : y.up[x] = IF x = n THEN d ELSE IF x = d THEN t.up[n] ELSE t.up[x]
       /\ \A x \in Node : x # d /\ x # t.up[n] => y.kids[x] = t.kids[x]
       /\ t.up[n] # NULL => Len(y.kids[t.up[n]]) = Len(t.kids[t.up[n]])
       /\ Row(y.kids[d], {n}) /\ Len(y.kids[d]) = 1
  BY <1>4, <1>11, <1>12, <1>13 DEF Between
<1>15. V \in [Node -> Word] /\ V[d] = q /\ V[n] = W[n]
  <2>1. W \in [Node -> Word]
    BY <1>2 DEF Rep, RepIn
  <2> QED
    BY <1>5, <1>6, <1>8, <1>11, <2>1
<1>16. KidsIn(Q, y.up, d) = {n}
  <2>1. d \in Q
    BY <1>11
  <2>2. Row(y.kids[d], KidsIn(Q, y.up, d))
    BY <1>12, <2>1, InKids
  <2>3. Range(y.kids[d]) = KidsIn(Q, y.up, d)
    BY <2>2, RowIs
  <2>4. Range(y.kids[d]) = {n}
    BY <1>14, RowIs
  <2> QED
    BY <2>3, <2>4
<1>17. a \in Place /\ l \in Int /\ a.str = k /\ a.off = i /\ l = Len(k) - i
  BY <1>1, <1>5, <1>6 DEF From, Place
<1>18. AddsTo(y, V, Q, d, k, a, l, k)
  <2>1. PieceIs(a, l, Len(V[d]), k, k)
    <3>1. Pre(k, k)
      BY <1>6 DEF Pre
    <3> QED
      BY <1>6, <1>8, <1>15, <1>17, <3>1 DEF PieceIs
  <2>2. \A x \in KidsIn(Q, y.up, d) : V[x][Len(V[d]) + 1] # k[Len(V[d]) + 1]
    BY <1>1, <1>5, <1>8, <1>15, <1>16
  <2>3. y.kids[k] = <<>>
    <3>1. t.kids[k] = <<>> /\ k # t.up[n]
      <4>1. k # t.up[n]
        BY <1>4, <1>6, <1>13, Nodes
      <4> QED
        BY <1>4, <1>6, <1>12, <4>1 DEF Clean
    <3> QED
      BY <1>6, <1>14, <3>1
  <2>4. Pre(V[d], k) /\ Len(V[d]) < Len(k)
    BY <1>1, <1>8, <1>15
  <2> QED
    BY <2>1, <2>2, <2>3, <2>4 DEF AddsTo
<1>19. PICK x, X : x = AddNode(y, d, k, a, l) /\ X = [V EXCEPT ![k] = k]
  OBVIOUS
<1>20. RepIn(x, X, Q \cup {k}, r) /\ Hung(y, x, d, k, a, l, {n})
  <2>1. d \in Q /\ k \notin Q
    BY <1>6, <1>11
  <2>2. RepIn(x, X, Q \cup {k}, r) /\ Hung(y, x, d, k, a, l, KidsIn(Q, y.up, d))
    BY <1>6, <1>12, <1>17, <1>18, <1>19, <2>1, AddIn
  <2> QED
    BY <1>16, <2>2
<1>21. /\ x \in Trees /\ x.root = r
       /\ \A z \in Node : x.up[z] = IF z = k THEN d ELSE y.up[z]
       /\ \A z \in Node : z # d => x.kids[z] = y.kids[z]
       /\ Len(x.kids[d]) = 2
  BY <1>14, <1>20 DEF Hung
<1>22. PICK u : u = v
  OBVIOUS
<1>23. u = UpdateParent(x, n)
  BY <1>1, <1>9, <1>19, <1>22
<1>24. x.up[n] = d
  BY <1>6, <1>14, <1>21
<1>25. RepIn(u, X, Q \cup {k}, r)
  <2>1. x.up[n] \in Q \cup {k}
    BY <1>11, <1>24
  <2> QED
    BY <1>6, <1>20, <1>23, <2>1, RenewIn
<1>26. u.up = x.up /\ u.kids = x.kids /\ u.root = r
  <2>1. Renewed(x, u, n, d)
    BY <1>6, <1>21, <1>23, <1>24, UpdateParentIs
  <2> QED
    BY <1>6, <1>21, <2>1 DEF Renewed
<1>27. Clean(u, Q \cup {k})
  <2>1. ASSUME NEW z \in Node, z \notin Q \cup {k} PROVE u.up[z] = t.up[z] /\ u.kids[z] = t.kids[z]
    <3>1. z # d /\ z # k /\ z \notin P /\ z # n /\ z # t.up[n]
      BY <1>4, <1>5, <1>11, <1>13, <2>1, Nodes
    <3> QED
      BY <1>14, <1>21, <1>26, <3>1
  <2>2. \A z \in Node : z \notin Q \cup {k} => t.up[z] = NULL /\ t.kids[z] = <<>>
    BY <1>4, <1>11, <1>12 DEF Clean
  <2> QED
    BY <2>1, <2>2 DEF Clean
<1>28. \A z \in Q \cup {k} : z \notin Key => Len(u.kids[z]) > 1
  <2> SUFFICES ASSUME NEW z \in Q, z \notin Key
               PROVE  Len(u.kids[z]) > 1
    OBVIOUS
  <2>1. CASE z = d
    <3>1. u.kids[z] = x.kids[d]
      BY <1>26, <2>1
    <3>2. Len(x.kids[d]) = 2
      BY <1>21
    <3>3. Len(u.kids[z]) = 2
      BY <3>1, <3>2
    <3> QED
      BY <3>3
  <2>2. CASE z # d
    <3>1. z \in P /\ Len(t.kids[z]) > 1 /\ z \in Node /\ z # NULL
      BY <1>2, <1>6, <1>11, <2>2, Nodes
    <3>2. u.kids[z] = y.kids[z]
      BY <1>21, <1>26, <2>2, <3>1
    <3> QED
      BY <1>14, <2>2, <3>1, <3>2
  <2> QED
    BY <2>1, <2>2
<1>29. Becomes(u, (Q \cup {k}) \cap Key, Q \cup {k})
  <2>1. Q \cup {k} # {}
    OBVIOUS
  <2> QED
    BY <1>25, <1>26, <1>27, <1>28, <2>1, SoundFrom
<1>30. (Q \cup {k}) \cap Key = H \cup {k}
  BY <1>2, <1>6, <1>11
<1> QED
  BY <1>1, <1>11, <1>22, <1>29, <1>30

\* A node that has left the tree is cleared.
Wiped(x, u, n) == /\ u.root = x.root /\ u.up[n] = NULL /\ u.kids[n] = <<>>
                  /\ \A y \in Node : y # n => u.up[y] = x.up[y] /\ u.kids[y] = x.kids[y]

LEMMA WipedIs ==
    ASSUME NEW x \in Trees, NEW n \in Node
    PROVE  Wiped(x, Cleared(x, n), n)
<1>1. PICK u : u = Cleared(x, n)
  OBVIOUS
<1>2. Has(u, x.root, [x.up EXCEPT ![n] = NULL], [x.kids EXCEPT ![n] = <<>>],
          [x.at EXCEPT ![n] = NoString], [x.len EXCEPT ![n] = 0])
  BY <1>1, ClearedIs
<1>3. x.up \in [Node -> Pointer] /\ x.kids \in [Node -> Seq(Node)]
  BY TreesAre
<1>4. u.root = x.root /\ u.up = [x.up EXCEPT ![n] = NULL] /\ u.kids = [x.kids EXCEPT ![n] = <<>>]
  BY <1>2 DEF Has
<1>5. Wiped(x, u, n)
  BY <1>3, <1>4 DEF Wiped
<1> QED
  BY <1>1, <1>5

LEMMA ClearedOut ==
    ASSUME NEW x, NEW V, NEW Q, NEW r, RepIn(x, V, Q, r), r = x.root, Q # {},
           NEW n \in Node, n \notin Q, Clean(x, Q \cup {n}),
           \A y \in Q : y \notin Key => Len(x.kids[y]) > 1
    PROVE  Becomes(Cleared(x, n), Q \cap Key, Q)
<1>1. PICK u : u = Cleared(x, n)
  OBVIOUS
<1>2. x \in Trees /\ Q \in SUBSET Node
  BY DEF RepIn
<1>3. RepIn(u, V, Q, r)
  BY <1>1, ClearIn
<1>4. Wiped(x, u, n)
  BY <1>1, <1>2, WipedIs
<1>5. u.root = r
  BY <1>4 DEF Wiped
<1>6. Clean(u, Q)
  BY <1>4 DEF Wiped, Clean
<1>7. \A y \in Q : u.kids[y] = x.kids[y]
  BY <1>2, <1>4 DEF Wiped
<1>8. \A y \in Q : y \notin Key => Len(u.kids[y]) > 1
  BY <1>7
<1>9. Becomes(u, Q \cap Key, Q)
  BY <1>3, <1>5, <1>6, <1>8, SoundFrom
<1> QED
  BY <1>1, <1>9

\* Two nodes have different words.
LEMMA OneNode ==
    ASSUME NEW t, NEW W, Rep(t, W), NEW x \in InTree(t), NEW y \in InTree(t), W[x] = W[y]
    PROVE  x = y
<1>1. /\ Trie(InTree(t), t.root, t.up, W)
      /\ \A n \in InTree(t) : W[n] \in Word
  BY DEF Rep, RepIn, Trie
<1>2. /\ Len(W[x]) \in Nat /\ (x = t.root <=> t.up[x] = NULL)
      /\ t.up[x] # NULL => Len(W[t.up[x]]) < Len(W[x])
  BY RepNode
<1>3. W[x] \in Word
  BY <1>1
<1>4. Pre(W[x], W[x])
  BY <1>2 DEF Pre
<1>5. Pre(W[y], W[x]) /\ Len(W[y]) <= Len(W[x]) /\ (x # t.root => Len(W[t.up[x]]) < Len(W[y]))
  BY <1>2, <1>4
<1> QED
  BY <1>1, <1>3, <1>4, <1>5, OneWay

\* rt_insert_node of a key at whose end there is the split node n: its node
\* takes the place of n.
NewPlace(t, u, n, k, p, S, b) ==
    /\ Replaced(t, u, n, k, p, S)
    /\ u.at[k] = From(k, b) /\ u.len[k] = t.len[n]

LEMMA NewPlaceIs ==
    ASSUME NEW t, NEW W, Rep(t, W), NEW n \in InTree(t), NEW k \in Key, k \notin InTree(t),
           W[n] = k, t.at[k] = From(k, 0), t.len[k] = Len(k),
           NEW v, v = ReplaceNode(t, n, k)
    PROVE  NewPlace(t, v, n, k, t.up[n], KidsIn(InTree(t), t.up, t.up[n]), Base(t.up, W, n))
<1>1. PICK P, p, b, S : /\ P = InTree(t) /\ p = t.up[n] /\ b = Base(t.up, W, n)
                        /\ S = KidsIn(P, t.up, p)
  OBVIOUS
<1>2. RepIn(t, W, P, t.root) /\ n \in P /\ k \notin P
  BY <1>1 DEF Rep
<1>3. /\ b \in Nat /\ t.len[n] = Len(k) - b /\ n \in Node /\ n # k /\ t \in Trees
      /\ (p # NULL => p \in P /\ p # k)
  BY <1>1, <1>2, RepNode DEF RepIn
<1>4. k \in Node /\ Valid(k) /\ Len(k) \in Nat /\ P \in SUBSET Node
  BY <1>2, Nodes DEF RepIn
<1>5. NewStart(t, n, k) = From(k, b)
  <2>1. Len(k) - t.len[n] = b
    BY <1>3, <1>4
  <2>2. Ahead(From(k, 0), b) = From(k, b)
    BY <1>3 DEF Ahead, From
  <2>3. NewStart(t, n, k) = Ahead(t.at[k], t.len[k] - t.len[n])
    BY <1>4 DEF NewStart
  <2> QED
    BY <2>1, <2>2, <2>3
<1>6. From(k, b) \in Place
  BY <1>3 DEF From, Place
<1>7. p # NULL => Row(t.kids[p], S) /\ n \in S /\ k \notin S
  <2>1. p # NULL => Row(t.kids[p], S)
    BY <1>1, <1>2, <1>3, InKids
  <2>2. n \in S /\ k \notin S
    BY <1>1, <1>2 DEF KidsIn
  <2> QED
    BY <2>1, <2>2
<1>8. p # k
  BY <1>3, <1>4, Nodes
<1>9. Replaced(t, v, n, k, p, S)
  BY <1>1, <1>3, <1>4, <1>5, <1>6, <1>7, <1>8, ReplaceNodeIs
<1>10. v.at[k] = From(k, b) /\ v.len[k] = t.len[n]
  BY <1>4, <1>5, <1>9 DEF Replaced
<1> QED
  BY <1>1, <1>9, <1>10 DEF NewPlace

LEMMA PieceHangs ==
    ASSUME NEW a \in Place, NEW l \in Int, NEW u \in Word, NEW w \in Word, NEW n,
           Pre(u, w), Len(u) < Len(w), PieceIs(a, l, Len(u), w, n)
    PROVE  Hangs(a, u)
<1>1. PICK b : b = Len(u)
  OBVIOUS
<1>2. b \in Nat /\ b < Len(w) /\ PieceIs(a, l, b, w, n) /\ Len(w) \in Nat
  BY <1>1, WordIs
<1>3. Letter(a) \in 1 .. 3
  BY <1>2, PieceFirst
<1>4. w # <<>>
  BY <1>2, WordIs
<1>5. a.str \in Key /\ Pre(w, a.str) /\ a.off = Len(u)
  BY <1>4 DEF PieceIs
<1>6. Pre(u, a.str)
  BY <1>5, Nodes, PreTrans
<1> QED
  BY <1>3, <1>5, <1>6 DEF Hangs

\* What rt_replace_node and update_rt_parent make of the fields, where k comes
\* for the split node n.
OnSplit(t, u, W, P, n, k) ==
    /\ SwapDone(t, u, W, P, n, k)
    /\ u.root = IF t.up[n] = NULL THEN k ELSE t.root
    /\ \A x \in Node : x # k /\ t.up[x] # n => u.up[x] = t.up[x]
    /\ \A x \in Node : x # k /\ x # t.up[n] => u.kids[x] = t.kids[x]
    /\ t.up[n] # NULL => Len(u.kids[t.up[n]]) = Len(t.kids[t.up[n]])

LEMMA OnSplitStep ==
    ASSUME NEW t, NEW W, Rep(t, W), NEW n \in InTree(t), NEW k \in Key, k \notin InTree(t),
           W[n] = k, t.at[k] = From(k, 0), t.len[k] = Len(k),
           NEW v, v = UpdateChildren(UpdateParent(ReplaceNode(t, n, k), k), k)
    PROVE  OnSplit(t, v, W, InTree(t), n, k)
<1>1. PICK P, p, b, S, K : /\ P = InTree(t) /\ p = t.up[n] /\ b = Base(t.up, W, n)
                           /\ S = KidsIn(P, t.up, p) /\ K = KidsIn(P, t.up, n)
  OBVIOUS
<1>2. RepIn(t, W, P, t.root) /\ Clean(t, P) /\ n \in P /\ k \notin P
  BY <1>1 DEF Rep
<1>3. /\ b \in Nat /\ t.len[n] = Len(k) - b /\ n \in Node /\ n # k /\ n # NULL
      /\ (p # NULL => p \in P /\ p # k /\ p # n /\ b = Len(W[p]) /\ b < Len(k) /\ Pre(W[p], k))
      /\ b <= Len(k)
  BY <1>1, <1>2, RepNode
<1>4. k \in Node /\ P \in SUBSET Node /\ k # <<>> /\ k \in Word /\ Len(k) \in Nat /\ k # NULL
  BY <1>2, Nodes DEF RepIn
<1>5. PICK x : x = ReplaceNode(t, n, k)
  OBVIOUS
<1>6. NewPlace(t, x, n, k, p, S, b)
  <2>1. NewPlace(t, x, n, k, t.up[n], KidsIn(InTree(t), t.up, t.up[n]), Base(t.up, W, n))
    BY <1>5, NewPlaceIs
  <2> QED
    BY <1>1, <2>1
<1>7. /\ x \in Trees /\ x.root = t.root
      /\ \A y \in Node : x.up[y] = IF y = k THEN p ELSE t.up[y]
      /\ x.at[k] = From(k, b) /\ x.len[k] = Len(k) - b
      /\ \A y \in Node : y # k => x.at[y] = t.at[y] /\ x.len[y] = t.len[y]
      /\ \A y \in Node : y # p /\ y # k => x.kids[y] = t.kids[y]
      /\ x.kids[k] = t.kids[n]
      /\ p # NULL => Row(x.kids[p], (S \ {n}) \cup {k}) /\ Len(x.kids[p]) = Len(t.kids[p])
  BY <1>3, <1>6 DEF NewPlace, Replaced
<1>8. PICK y : y = UpdateParent(x, k)
  OBVIOUS
<1>9. Renewed(x, y, k, p)
  <2>1. x.up[k] = p
    BY <1>4, <1>7
  <2> QED
    BY <1>4, <1>7, <1>8, <2>1, UpdateParentIs
<1>10. From(k, b) \in Place /\ PieceIs(From(k, b), Len(k) - b, b, k, k)
  <2>1. From(k, b).str = k /\ From(k, b).off = b /\ From(k, b) \in Place
    BY <1>3 DEF From, Place
  <2>2. Pre(k, k)
    BY <1>4 DEF Pre
  <2> QED
    BY <1>4, <2>1, <2>2 DEF PieceIs
<1>11. /\ y \in Trees /\ y.root = (IF p = NULL THEN k ELSE t.root)
       /\ y.up = x.up /\ y.kids = x.kids /\ y.len = x.len
       /\ \A z \in Node : z # p => y.at[z] = x.at[z]
       /\ p # NULL => PieceIs(y.at[p], y.len[p], Base(t.up, W, p), W[p], p)
  <2>1. CASE p = NULL
    BY <1>7, <1>9, <2>1 DEF Renewed
  <2>2. CASE p # NULL
    <3>1. PICK e : e = Base(t.up, W, p)
      OBVIOUS
    <3>2. /\ e \in Nat /\ W[p] \in Word /\ p \in Node
          /\ PieceIs(t.at[p], t.len[p], e, W[p], p)
      BY <1>2, <1>3, <2>2, <3>1, InNode
    <3>3. PICK X : X = (S \ {n}) \cup {k}
      OBVIOUS
    <3>4. Parented(x, p, X, W[p], e)
      <4>1. \A z \in S : Hangs(t.at[z], W[p]) /\ z \in Node /\ z \in P
        BY <1>1, <1>2, <1>3, <2>2, InKids
      <4>2. Hangs(From(k, b), W[p])
        <5>1. Len(k) - b \in Int
          BY <1>3, <1>4
        <5> QED
          BY <1>3, <1>4, <1>10, <2>2, <3>2, <5>1, PieceHangs
      <4>3. \A z \in X : Hangs(x.at[z], W[p])
        BY <1>2, <1>7, <3>3, <4>1, <4>2
      <4>4. PieceIs(x.at[p], x.len[p], e, W[p], p)
        BY <1>3, <1>7, <2>2, <3>2
      <4> QED
        BY <1>7, <2>2, <3>3, <4>3, <4>4 DEF Parented
    <3>5. y \in Trees /\ PieceIs(y.at[p], y.len[p], e, W[p], p)
      BY <1>9, <2>2, <3>2, <3>4, RenewedIs
    <3> QED
      BY <1>7, <1>9, <2>2, <3>1, <3>5 DEF Renewed
  <2> QED
    BY <2>1, <2>2
<1>12. PICK u : u = v
  OBVIOUS
<1>13. Row(y.kids[k], K)
  <2>1. Row(t.kids[n], K)
    BY <1>1, <1>2, InKids
  <2> QED
    BY <1>7, <1>11, <2>1
<1>14. Claimed(y, u, k, K)
  <2>1. u = UpdateChildren(y, k)
    BY <1>5, <1>8, <1>12
  <2> QED
    BY <1>4, <1>11, <1>13, <2>1, UpdateChildrenIs
<1>15. /\ u \in Trees /\ u.root = y.root /\ u.at = y.at /\ u.len = x.len /\ u.kids = x.kids
       /\ \A z \in Node : u.up[z] = IF z \in K THEN k ELSE x.up[z]
  BY <1>11, <1>14 DEF Claimed
<1>16. \A z \in Node : z \in K <=> t.up[z] = n
  BY <1>1, <1>2, <1>3, <1>4 DEF KidsIn, Clean
<1>17. k \notin K /\ t.up[k] # n
  BY <1>1, <1>2, <1>4, <1>16 DEF KidsIn
<1>18. SwapDone(t, u, W, P, n, k)
  <2>1. u.up[k] = p
    BY <1>4, <1>7, <1>15, <1>17
  <2>2. \A z \in P \ {n} : u.up[z] = IF t.up[z] = n THEN k ELSE t.up[z]
    BY <1>2, <1>4, <1>7, <1>15, <1>16
  <2>3. \A z \in P \ {n} : z # p => u.kids[z] = t.kids[z]
    BY <1>2, <1>4, <1>7, <1>15
  <2>4. u.kids[k] = t.kids[n] /\ (p # NULL => Row(u.kids[p], (S \ {n}) \cup {k}))
    BY <1>7, <1>15
  <2>5. ASSUME NEW z \in P \ {n} PROVE PieceIs(u.at[z], u.len[z], Base(t.up, W, z), W[z], z)
    <3>1. CASE z = p
      <4>1. p # NULL
        BY <1>4, <2>5, <3>1, Nodes
      <4>2. u.at[z] = y.at[p] /\ u.len[z] = y.len[p]
        BY <1>11, <1>15, <3>1
      <4> QED
        BY <1>11, <3>1, <4>1, <4>2
    <3>2. CASE z # p
      <4>1. z \in Node /\ z # k
        BY <1>2, <1>4, <2>5
      <4>2. u.at[z] = t.at[z] /\ u.len[z] = t.len[z]
        BY <1>7, <1>11, <1>15, <3>2, <4>1
      <4>3. PieceIs(t.at[z], t.len[z], Base(t.up, W, z), W[z], z)
        BY <1>2, InNode
      <4> QED
        BY <4>2, <4>3
    <3> QED
      BY <3>1, <3>2
  <2>6. PieceIs(u.at[k], u.len[k], b, W[n], k)
    <3>1. k # p
      BY <1>3, <1>4
    <3>2. u.at[k] = From(k, b) /\ u.len[k] = Len(k) - b
      BY <1>4, <1>7, <1>11, <1>15, <3>1
    <3> QED
      BY <1>10, <3>2
  <2> QED
    BY <1>1, <1>15, <2>1, <2>2, <2>3, <2>4, <2>5, <2>6 DEF SwapDone
<1>19. /\ u.root = IF t.up[n] = NULL THEN k ELSE t.root
       /\ \A z \in Node : z # k /\ t.up[z] # n => u.up[z] = t.up[z]
       /\ \A z \in Node : z # k /\ z # t.up[n] => u.kids[z] = t.kids[z]
       /\ t.up[n] # NULL => Len(u.kids[t.up[n]]) = Len(t.kids[t.up[n]])
  <2>1. u.root = IF p = NULL THEN k ELSE t.root
    BY <1>11, <1>15
  <2>2. \A z \in Node : z # k /\ t.up[z] # n => u.up[z] = t.up[z]
    BY <1>7, <1>15, <1>16
  <2>3. \A z \in Node : z # k /\ z # p => u.kids[z] = t.kids[z]
    BY <1>7, <1>15
  <2>4. p # NULL => Len(u.kids[p]) = Len(t.kids[p])
    BY <1>7, <1>15
  <2> QED
    BY <1>1, <2>1, <2>2, <2>3, <2>4
<1> QED
  BY <1>1, <1>12, <1>18, <1>19 DEF OnSplit

LEMMA OnSplitBecomes ==
    ASSUME NEW t, NEW W, NEW H, Sound(t, W, H), NEW n \in InTree(t), n \notin Key,
           NEW k \in Key, W[n] = k,
           NEW v, v = Cleared(UpdateChildren(UpdateParent(ReplaceNode(InitNode(t, k), n, k), k), k), n)
    PROVE  Becomes(v, H \cup {k}, (InTree(t) \ {n}) \cup {k}) /\ k \notin InTree(t)
<1>1. PICK s, P : s = InitNode(t, k) /\ P = InTree(t)
  OBVIOUS
<1>2. Rep(t, W) /\ P \cap Key = H /\ \A x \in P : x \notin Key => Len(t.kids[x]) > 1
  BY <1>1 DEF Sound
<1>3. k \notin P
  <2>1. SUFFICES ASSUME k \in P PROVE FALSE
    OBVIOUS
  <2>2. W[k] = k
    BY <1>1, <1>2, <2>1, KeyWord
  <2>3. k = n
    BY <1>1, <1>2, <2>1, <2>2, OneNode
  <2> QED
    BY <2>3
<1>4. Rep(s, W) /\ Prepares(t, s, k)
  BY <1>1, <1>2, <1>3, PreparedIs
<1>5. /\ s.root = t.root /\ s.up = t.up /\ s.kids = t.kids /\ InTree(s) = P
      /\ s.at[k] = From(k, 0) /\ s.len[k] = Len(k)
  BY <1>1, <1>4 DEF Prepares
<1>6. RepIn(s, W, P, s.root) /\ Clean(s, P)
  BY <1>4, <1>5 DEF Rep
<1>7. PICK u : u = UpdateChildren(UpdateParent(ReplaceNode(s, n, k), k), k)
  OBVIOUS
<1>8. n \in P /\ P \in SUBSET Node /\ n \in Node /\ k \in Node /\ n # k
  BY <1>1, <1>6, Nodes DEF RepIn
<1>9. OnSplit(s, u, W, P, n, k)
  <2>1. n \in InTree(s) /\ k \notin InTree(s)
    BY <1>3, <1>5, <1>8
  <2>2. OnSplit(s, u, W, InTree(s), n, k)
    BY <1>4, <1>5, <1>7, <2>1, OnSplitStep
  <2> QED
    BY <1>5, <2>2
<1>10. /\ SwapDone(s, u, W, P, n, k)
       /\ u.root = (IF t.up[n] = NULL THEN k ELSE t.root)
       /\ \A x \in Node : x # k /\ t.up[x] # n => u.up[x] = t.up[x]
       /\ \A x \in Node : x # k /\ x # t.up[n] => u.kids[x] = t.kids[x]
       /\ t.up[n] # NULL => Len(u.kids[t.up[n]]) = Len(t.kids[t.up[n]])
  BY <1>5, <1>9 DEF OnSplit
<1>11. PICK Q, r, V : /\ Q = (P \ {n}) \cup {k} /\ r = (IF n = s.root THEN k ELSE s.root)
                      /\ V = [W EXCEPT ![k] = W[n]]
  OBVIOUS
<1>12. RepIn(u, V, Q, r)
  <2>1. Takes(u, W, P, s.root, n, k)
    BY <1>3, <1>6, <1>8, <1>10, SwapIn
  <2> QED
    BY <1>11, <2>1 DEF Takes
<1>13. u.root = r /\ (t.up[n] # NULL => t.up[n] \in P)
  <2>1. (n = t.root <=> t.up[n] = NULL) /\ (t.up[n] # NULL => t.up[n] \in P)
    BY <1>1, <1>2, RepNode
  <2> QED
    BY <1>5, <1>10, <1>11, <2>1
<1>14. Clean(u, Q \cup {n})
  <2>1. \A x \in Node : x \notin Q \cup {n} => t.up[x] = NULL /\ t.kids[x] = <<>> /\ x # k /\ x \notin P
    BY <1>5, <1>6, <1>11 DEF Clean
  <2>2. NULL # n
    BY <1>8, Nodes
  <2>3. \A x \in Node : x \notin Q \cup {n} => u.up[x] = NULL
    BY <1>10, <2>1, <2>2
  <2>4. \A x \in Node : x \notin Q \cup {n} => u.kids[x] = <<>>
    BY <1>10, <1>13, <2>1, Nodes
  <2> QED
    BY <2>3, <2>4 DEF Clean
<1>15. \A x \in Q : x \notin Key => Len(u.kids[x]) > 1
  <2> SUFFICES ASSUME NEW x \in P, x \notin Key PROVE Len(u.kids[x]) > 1
    BY <1>11
  <2>1. Len(t.kids[x]) > 1 /\ x \in Node /\ x # k /\ x # NULL
    BY <1>2, <1>8, Nodes
  <2> QED
    BY <1>10, <2>1
<1>16. Becomes(v, Q \cap Key, Q)
  <2>1. v = Cleared(u, n) /\ Q # {} /\ n \notin Q
    BY <1>1, <1>7, <1>8, <1>11
  <2> QED
    BY <1>8, <1>12, <1>13, <1>14, <1>15, <2>1, ClearedOut
<1>17. Q \cap Key = H \cup {k}
  BY <1>2, <1>8, <1>11
<1> QED
  BY <1>1, <1>3, <1>11, <1>16, <1>17

-----------------------------------------------------------------------------
\* rt_remove_node of the only node.
LEMMA OnlyBecomes ==
    ASSUME NEW t, NEW W, NEW H, Sound(t, W, H), NEW n \in InTree(t), t.up[n] = NULL, t.kids[n] = <<>>,
           NEW v, v = [Cleared(t, n) EXCEPT !.root = NULL]
    PROVE  Becomes(v, {}, {}) /\ InTree(t) = {n}
<1>1. Rep(t, W) /\ Trie(InTree(t), t.root, t.up, W) /\ t \in Trees /\ Clean(t, InTree(t))
  BY DEF Sound, Rep, RepIn
<1>2. n \in Node /\ n = t.root
  BY <1>1, RepNode
<1>3. \A x \in InTree(t) : t.up[x] # n
  <2>1. Row(t.kids[n], Kids(t.up, n))
    BY <1>1, <1>2, RepKids
  <2>2. Kids(t.up, n) = {}
    BY <2>1, RowIs
  <2> QED
    BY <2>2 DEF Kids, InTree
<1>4. InTree(t) = {n}
  <2>1. SUFFICES ASSUME NEW m \in InTree(t), m # n PROVE FALSE
    OBVIOUS
  <2>2. Pre(W[n], W[m])
    BY <1>1, <1>2, RootFirst
  <2>3. \E c \in InTree(t) \ {t.root} : t.up[c] = n /\ Pre(W[c], W[m])
    BY <1>1, <2>1, <2>2, OnTheWay
  <2> QED
    BY <1>3, <2>3
<1>5. PICK x : x = Cleared(t, n)
  OBVIOUS
<1>6. Wiped(t, x, n) /\ x \in Trees
  BY <1>1, <1>2, <1>5, WipedIs, ClearedIs DEF Has
<1>7. Clean(x, {})
  BY <1>1, <1>4, <1>6 DEF Clean, Wiped
<1>8. PICK u : u = v
  OBVIOUS
<1>9. Has(u, NULL, x.up, x.kids, x.at, x.len)
  BY <1>5, <1>6, <1>8, PutRoot, Nodes
<1>10. u \in Trees /\ u.root = NULL /\ u.up = x.up /\ u.kids = x.kids
  BY <1>9 DEF Has
<1>11. Clean(u, {})
  BY <1>7, <1>10 DEF Clean
<1>12. Becomes(u, {}, {})
  BY <1>10, <1>11, NoneLeft
<1> QED
  BY <1>4, <1>8, <1>12

\* A leaf whose parent stays.
LEMMA LeafGone ==
    ASSUME NEW t, NEW W, NEW H, Sound(t, W, H), NEW n \in InTree(t), t.up[n] # NULL,
           t.kids[n] = <<>>, NEW left, left = Without(t, t.up[n], n),
           t.up[n] \in Key \/ Len(left.kids[t.up[n]]) > 1,
           NEW v, v = Cleared(UpdateParent(left, n), n)
    PROVE  Becomes(v, H \ {n}, InTree(t) \ {n})
<1>1. PICK P, p, Q : P = InTree(t) /\ p = t.up[n] /\ Q = P \ {n}
  OBVIOUS
<1>2. /\ Rep(t, W) /\ P \cap Key = H /\ \A x \in P : x \notin Key => Len(t.kids[x]) > 1
      /\ RepIn(t, W, P, t.root) /\ Clean(t, P) /\ n \in P
  BY <1>1 DEF Sound, Rep
<1>3. n \in Node /\ P \in SUBSET Node
  BY <1>2 DEF RepIn
<1>4. PICK x : x = left
  OBVIOUS
<1>5. RepIn(x, W, Q, t.root) /\ Unhung(t, x, p, n, KidsIn(P, t.up, p)) /\ p \in Q
  <2>1. x = Without(t, t.up[n], n)
    BY <1>4
  <2> QED
    BY <1>1, <1>2, <2>1, DropIn
<1>6. /\ x \in Trees /\ x.root = t.root /\ x.up = t.up
      /\ \A y \in Node \ {p} : x.kids[y] = t.kids[y]
  BY <1>5 DEF Unhung
<1>7. PICK u : u = UpdateParent(x, n)
  OBVIOUS
<1>8. RepIn(u, W, Q, t.root)
  <2>1. x.up[n] \in Q
    BY <1>1, <1>5, <1>6
  <2> QED
    BY <1>3, <1>5, <1>7, <2>1, RenewIn
<1>9. u.up = t.up /\ u.kids = x.kids /\ u.root = t.root
  <2>1. Renewed(x, u, n, x.up[n]) /\ x.up[n] # NULL
    BY <1>3, <1>6, <1>7, UpdateParentIs
  <2> QED
    BY <1>6, <2>1 DEF Renewed
<1>10. Clean(u, Q \cup {n})
  <2>1. p \in P
    BY <1>1, <1>5
  <2> QED
    BY <1>1, <1>2, <1>6, <1>9, <2>1 DEF Clean
<1>11. \A y \in Q : y \notin Key => Len(u.kids[y]) > 1
  BY <1>1, <1>2, <1>3, <1>4, <1>6, <1>9
<1>12. Becomes(v, Q \cap Key, Q)
  <2>1. v = Cleared(u, n) /\ n \notin Q /\ Q # {}
    BY <1>1, <1>4, <1>5, <1>7
  <2> QED
    BY <1>3, <1>8, <1>9, <1>10, <1>11, <2>1, ClearedOut
<1>13. Q \cap Key = H \ {n}
  BY <1>1, <1>2
<1> QED
  BY <1>1, <1>12, <1>13

\* A leaf, and its parent, a split node with one other branch, which is joined.
LEMMA LeafAndParentGone ==
    ASSUME NEW t, NEW W, NEW H, Sound(t, W, H), NEW n \in InTree(t), t.up[n] # NULL,
           t.kids[n] = <<>>, NEW left, left = Without(t, t.up[n], n),
           t.up[n] \notin Key, ~(Len(left.kids[t.up[n]]) > 1),
           NEW v, v = Cleared(Cleared(Joins(left, Head(left.kids[t.up[n]]), t.up[n]), n), t.up[n])
    PROVE  Becomes(v, H \ {n}, (InTree(t) \ {n}) \ {t.up[n]}) /\ t.up[n] \in InTree(t) \ {n}
<1>1. PICK P, p, Q : P = InTree(t) /\ p = t.up[n] /\ Q = P \ {n}
  OBVIOUS
<1>2. /\ Rep(t, W) /\ P \cap Key = H /\ \A x \in P : x \notin Key => Len(t.kids[x]) > 1
      /\ RepIn(t, W, P, t.root) /\ Clean(t, P) /\ n \in P
  BY <1>1 DEF Sound, Rep
<1>3. n \in Node /\ P \in SUBSET Node
  BY <1>2 DEF RepIn
<1>4. PICK x : x = left
  OBVIOUS
<1>5. RepIn(x, W, Q, t.root) /\ Unhung(t, x, p, n, KidsIn(P, t.up, p)) /\ p \in Q
  <2>1. x = Without(t, t.up[n], n)
    BY <1>4
  <2> QED
    BY <1>1, <1>2, <2>1, DropIn
<1>6. /\ x \in Trees /\ x.root = t.root /\ x.up = t.up
      /\ \A y \in Node \ {p} : x.kids[y] = t.kids[y]
      /\ Len(x.kids[p]) = Len(t.kids[p]) - 1
  BY <1>5 DEF Unhung
<1>7. Len(x.kids[p]) = 1
  <2>1. Row(t.kids[p], KidsIn(P, t.up, p)) /\ p \in P
    BY <1>1, <1>2, <1>5, InKids
  <2>2. Len(t.kids[p]) \in Nat /\ Len(t.kids[p]) > 1
    BY <1>1, <1>2, <2>1, RowIs
  <2>3. ~(Len(x.kids[p]) > 1)
    BY <1>1, <1>4
  <2>4. \A i \in Nat : i > 1 /\ ~(i - 1 > 1) => i - 1 = 1
    OBVIOUS
  <2>5. Len(x.kids[p]) = Len(t.kids[p]) - 1
    BY <1>6
  <2> QED
    BY <2>2, <2>3, <2>4, <2>5, Zenon
<1>8. PICK c : c = Head(x.kids[p])
  OBVIOUS
<1>j. PICK j : j = Joins(x, c, p)
  OBVIOUS
<1>9. OnlyKid(x, Q, p, c)
  BY <1>5, <1>7, <1>8 DEF OnlyKid
<1>10. c \in Q /\ c # p
  <2>1. Alone(x, W, Q, t.root, p, c)
    BY <1>5, <1>9, OnlyIs
  <2> QED
    BY <2>1 DEF Alone
<1>11. GoesOut(x, j, W, Q, t.root, p, c)
  <2>1. j = CutAndAdd(x, p, c, Ahead(x.at[c], -x.len[p]), x.len[c] + x.len[p])
    BY <1>j, Zenon DEF Joins
  <2> QED
    BY <1>5, <1>9, <2>1, SpliceIn
<1>12. PICK R, r : R = Q \ {p} /\ r = IF p = t.root THEN c ELSE t.root
  OBVIOUS
<1>13. RepIn(j, W, R, r) /\ Spliced(x, j, p, c)
  BY <1>11, <1>12 DEF GoesOut
<1>14. (p = t.root <=> t.up[p] = NULL) /\ (t.up[p] # NULL => t.up[p] \in P /\ t.up[p] # p) /\ p \in Node
  BY <1>1, <1>2, <1>5, RepNode
<1>15. /\ j.root = r
       /\ \A y \in Node : j.up[y] = IF y = c THEN t.up[p] ELSE t.up[y]
       /\ \A y \in Node : y # t.up[p] => j.kids[y] = x.kids[y]
       /\ t.up[p] # NULL => Len(j.kids[t.up[p]]) = Len(x.kids[t.up[p]])
  BY <1>6, <1>12, <1>13, <1>14 DEF Spliced
<1>16. PICK u : u = Cleared(j, n)
  OBVIOUS
<1>17. RepIn(u, W, R, r) /\ Wiped(j, u, n)
  <2>1. n \notin R /\ j \in Trees
    BY <1>1, <1>12, <1>13 DEF RepIn
  <2> QED
    BY <1>3, <1>13, <1>16, <2>1, ClearIn, WipedIs
<1>18. u.root = r /\ \A y \in Node : y # n => u.up[y] = j.up[y] /\ u.kids[y] = j.kids[y]
  BY <1>15, <1>17 DEF Wiped
<1>19. Clean(u, R \cup {p})
  <2>1. ASSUME NEW y \in Node, y \notin P PROVE u.up[y] = NULL /\ u.kids[y] = <<>>
    <3>1. y # n /\ y # c /\ y # t.up[p] /\ y # p /\ t.up[y] = NULL /\ t.kids[y] = <<>>
      BY <1>1, <1>2, <1>5, <1>10, <1>14, <2>1, Nodes DEF Clean
    <3> QED
      BY <1>6, <1>15, <1>18, <2>1, <3>1
  <2>2. u.up[n] = NULL /\ u.kids[n] = <<>>
    BY <1>17 DEF Wiped
  <2> QED
    BY <1>1, <1>12, <2>1, <2>2 DEF Clean
<1>20. \A y \in R : y \notin Key => Len(u.kids[y]) > 1
  <2> SUFFICES ASSUME NEW y \in R, y \notin Key PROVE Len(u.kids[y]) > 1
    OBVIOUS
  <2>1. /\ y \in Node /\ y # n /\ y # p /\ y \in P /\ y # NULL
        /\ Len(t.kids[y]) > 1 /\ x.kids[y] = t.kids[y]
    BY <1>1, <1>2, <1>3, <1>6, <1>12, Nodes
  <2> QED
    BY <1>15, <1>18, <2>1
<1>21. Becomes(v, R \cap Key, R)
  <2>1. v = Cleared(u, p) /\ p \notin R /\ R # {}
    BY <1>1, <1>4, <1>8, <1>j, <1>10, <1>12, <1>16
  <2> QED
    BY <1>14, <1>17, <1>18, <1>19, <1>20, <2>1, ClearedOut
<1>22. R \cap Key = H \ {n}
  BY <1>1, <1>2, <1>12
<1> QED
  BY <1>1, <1>5, <1>12, <1>21, <1>22

\* A node with one branch, which is joined.
LEMMA OverOneGone ==
    ASSUME NEW t, NEW W, NEW H, Sound(t, W, H), NEW n \in InTree(t), Len(t.kids[n]) = 1,
           NEW j, j = Joins(t, Head(t.kids[n]), n),
           NEW v, v = Cleared(IF t.up[n] = NULL THEN j ELSE UpdateChildren(j, t.up[n]), n)
    PROVE  Becomes(v, H \ {n}, InTree(t) \ {n}) /\ n \in Key
<1>1. PICK P, p, Q : P = InTree(t) /\ p = t.up[n] /\ Q = P \ {n}
  OBVIOUS
<1>2. /\ Rep(t, W) /\ P \cap Key = H /\ \A x \in P : x \notin Key => Len(t.kids[x]) > 1
      /\ RepIn(t, W, P, t.root) /\ Clean(t, P) /\ n \in P
  BY <1>1 DEF Sound, Rep
<1>3. /\ n \in Node /\ P \in SUBSET Node /\ (n = t.root <=> p = NULL)
      /\ (p # NULL => p \in Q /\ p \in Node)
  <2>1. n \in Node /\ P \in SUBSET Node
    BY <1>2 DEF RepIn
  <2>2. (n = t.root <=> p = NULL) /\ (p # NULL => p \in P /\ p # n)
    BY <1>1, <1>2, RepNode
  <2> QED
    BY <1>1, <2>1, <2>2
<1>4. n \in Key
  <2>1. ~(1 > 1)
    OBVIOUS
  <2> QED
    BY <1>1, <1>2, <2>1
<1>5. PICK c : c = Head(t.kids[n])
  OBVIOUS
<1>6. PICK x : x = j
  OBVIOUS
<1>7. OnlyKid(t, P, n, c)
  BY <1>2, <1>5 DEF OnlyKid
<1>8. c \in Q
  <2>1. Alone(t, W, P, t.root, n, c)
    BY <1>2, <1>7, OnlyIs
  <2> QED
    BY <1>1, <2>1 DEF Alone
<1>9. GoesOut(t, x, W, P, t.root, n, c)
  <2>1. x = Joins(t, c, n)
    BY <1>5, <1>6
  <2>2. x = CutAndAdd(t, n, c, Ahead(t.at[c], -t.len[n]), t.len[c] + t.len[n])
    BY <2>1, Zenon DEF Joins
  <2> QED
    BY <1>2, <1>7, <2>2, SpliceIn
<1>10. PICK r : r = IF n = t.root THEN c ELSE t.root
  OBVIOUS
<1>11. RepIn(x, W, Q, r) /\ Spliced(t, x, n, c)
  BY <1>1, <1>9, <1>10 DEF GoesOut
<1>12. /\ x.root = r
       /\ \A y \in Node : x.up[y] = IF y = c THEN p ELSE t.up[y]
       /\ \A y \in Node : y # p => x.kids[y] = t.kids[y]
       /\ p # NULL => Len(x.kids[p]) = Len(t.kids[p])
  BY <1>1, <1>3, <1>10, <1>11 DEF Spliced
<1>13. PICK u : u = IF p = NULL THEN x ELSE UpdateChildren(x, p)
  OBVIOUS
<1>14. /\ RepIn(u, W, Q, r) /\ u.root = r /\ u.kids = x.kids
       /\ \A y \in Node : u.up[y] = x.up[y]
  <2>1. CASE p = NULL
    BY <1>11, <1>12, <1>13, <2>1
  <2>2. CASE p # NULL
    <3>1. PICK K : K = KidsIn(Q, x.up, p)
      OBVIOUS
    <3>2. Row(x.kids[p], K) /\ \A y \in K : x.up[y] = p
      BY <1>3, <1>11, <2>2, <3>1, InKids
    <3>3. x \in Trees /\ W \in [Node -> Word] /\ Q \in SUBSET Node
      BY <1>11 DEF RepIn
    <3>4. Claimed(x, u, p, K)
      BY <1>3, <1>13, <2>2, <3>2, <3>3, UpdateChildrenIs
    <3>5. /\ u \in Trees /\ u.root = x.root /\ u.at = x.at /\ u.len = x.len /\ u.kids = x.kids
          /\ \A y \in Node : u.up[y] = x.up[y]
      BY <3>2, <3>4 DEF Claimed
    <3>6. \A y \in Q : /\ W[y] = W[y] /\ u.up[y] = x.up[y] /\ u.kids[y] = x.kids[y]
                       /\ u.len[y] = x.len[y]
                       /\ PieceIs(u.at[y], u.len[y], Base(x.up, W, y), W[y], y)
      <4> TAKE y \in Q
      <4>1. PieceIs(x.at[y], x.len[y], Base(x.up, W, y), W[y], y)
        BY <1>11, InNode
      <4> QED
        BY <3>3, <3>5, <4>1
    <3>7. RepIn(u, W, Q, r)
      BY <1>11, <3>3, <3>5, <3>6, InSame
    <3> QED
      BY <1>12, <3>5, <3>7
  <2> QED
    BY <2>1, <2>2
<1>15. Clean(u, Q \cup {n})
  <2>1. ASSUME NEW y \in Node, y \notin P PROVE u.up[y] = NULL /\ u.kids[y] = <<>>
    <3>1. y # c /\ y # p /\ t.up[y] = NULL /\ t.kids[y] = <<>>
      BY <1>1, <1>2, <1>3, <1>8, <2>1, Nodes DEF Clean
    <3> QED
      BY <1>12, <1>14, <2>1, <3>1
  <2> QED
    BY <1>1, <2>1 DEF Clean
<1>16. \A y \in Q : y \notin Key => Len(u.kids[y]) > 1
  <2> SUFFICES ASSUME NEW y \in Q, y \notin Key PROVE Len(u.kids[y]) > 1
    OBVIOUS
  <2>1. y \in Node /\ y # NULL /\ Len(t.kids[y]) > 1
    BY <1>1, <1>2, <1>3, Nodes
  <2> QED
    BY <1>12, <1>14, <2>1
<1>17. Becomes(v, Q \cap Key, Q)
  <2>1. v = Cleared(u, n) /\ n \notin Q /\ Q # {}
    BY <1>1, <1>6, <1>8, <1>13
  <2> QED
    BY <1>3, <1>14, <1>15, <1>16, <2>1, ClearedOut
<1>18. Q \cap Key = H \ {n}
  BY <1>1, <1>2
<1> QED
  BY <1>1, <1>4, <1>17, <1>18

\* A node with more branches: the spare split node d takes its place.
LEMMA OverManyStep ==
    ASSUME NEW t, NEW W, Rep(t, W), NEW n \in InTree(t), NEW d \in Split, d \notin InTree(t),
           NEW v, v = UpdateChildren(ReplaceNode(t, n, d), d)
    PROVE  /\ SwapDone(t, v, W, InTree(t), n, d)
           /\ v.root = t.root
           /\ \A x \in Node : x # d /\ t.up[x] # n => v.up[x] = t.up[x]
           /\ \A x \in Node : x # d /\ x # t.up[n] => v.kids[x] = t.kids[x]
           /\ t.up[n] # NULL => Len(v.kids[t.up[n]]) = Len(t.kids[t.up[n]])
<1>1. PICK P, p, b, S, K : /\ P = InTree(t) /\ p = t.up[n] /\ b = Base(t.up, W, n)
                           /\ S = KidsIn(P, t.up, p) /\ K = KidsIn(P, t.up, n)
  OBVIOUS
<1>2. RepIn(t, W, P, t.root) /\ Clean(t, P) /\ n \in P /\ d \notin P /\ t \in Trees
  BY <1>1 DEF Rep, RepIn
<1>3. /\ n \in Node /\ n # NULL /\ t.at[n] \in Place /\ PieceIs(t.at[n], t.len[n], b, W[n], n)
      /\ (p # NULL => p \in P /\ p # n)
  BY <1>1, <1>2, RepNode
<1>4. d \in Node /\ P \in SUBSET Node /\ d # NULL /\ ~Valid(d) /\ p # d
  BY <1>2, <1>3, Nodes, SplitsAreNoKeys DEF RepIn
<1>5. PICK x : x = ReplaceNode(t, n, d)
  OBVIOUS
<1>6. NewStart(t, n, d) = t.at[n]
  BY <1>4 DEF NewStart
<1>7. Replaced(t, x, n, d, p, S)
  <2>1. p # NULL => Row(t.kids[p], S)
    BY <1>1, <1>2, <1>3, InKids
  <2>2. n \in S /\ d \notin S
    BY <1>1, <1>2 DEF KidsIn
  <2> QED
    BY <1>1, <1>2, <1>3, <1>4, <1>5, <1>6, <2>1, <2>2, ReplaceNodeIs
<1>8. /\ x \in Trees /\ x.root = t.root
      /\ \A y \in Node : x.up[y] = IF y = d THEN p ELSE t.up[y]
      /\ x.at[d] = t.at[n] /\ x.len[d] = t.len[n]
      /\ \A y \in Node : y # d => x.at[y] = t.at[y] /\ x.len[y] = t.len[y]
      /\ \A y \in Node : y # p /\ y # d => x.kids[y] = t.kids[y]
      /\ x.kids[d] = t.kids[n]
      /\ p # NULL => Row(x.kids[p], (S \ {n}) \cup {d}) /\ Len(x.kids[p]) = Len(t.kids[p])
  BY <1>4, <1>6, <1>7 DEF Replaced
<1>9. Row(x.kids[d], K)
  <2>1. Row(t.kids[n], K)
    BY <1>1, <1>2, InKids
  <2> QED
    BY <1>8, <2>1
<1>10. PICK u : u = v
  OBVIOUS
<1>11. Claimed(x, u, d, K)
  <2>1. u = UpdateChildren(x, d)
    BY <1>5, <1>10
  <2> QED
    BY <1>4, <1>8, <1>9, <2>1, UpdateChildrenIs
<1>12. /\ u \in Trees /\ u.root = t.root /\ u.at = x.at /\ u.len = x.len /\ u.kids = x.kids
       /\ \A z \in Node : u.up[z] = IF z \in K THEN d ELSE x.up[z]
  BY <1>8, <1>11 DEF Claimed
<1>13. \A z \in Node : z \in K <=> t.up[z] = n
  BY <1>1, <1>2, <1>3 DEF KidsIn, Clean
<1>14. d \notin K /\ t.up[d] # n
  BY <1>1, <1>2, <1>4, <1>13 DEF KidsIn
<1>15. SwapDone(t, u, W, P, n, d)
  <2>1. u.up[d] = p
    BY <1>4, <1>8, <1>12, <1>14
  <2>2. \A z \in P \ {n} : u.up[z] = IF t.up[z] = n THEN d ELSE t.up[z]
    BY <1>2, <1>4, <1>8, <1>12, <1>13
  <2>3. \A z \in P \ {n} : z # p => u.kids[z] = t.kids[z]
    BY <1>2, <1>4, <1>8, <1>12
  <2>4. u.kids[d] = t.kids[n] /\ (p # NULL => Row(u.kids[p], (S \ {n}) \cup {d}))
    BY <1>8, <1>12
  <2>5. ASSUME NEW z \in P \ {n} PROVE PieceIs(u.at[z], u.len[z], Base(t.up, W, z), W[z], z)
    <3>1. z \in Node /\ z # d
      BY <1>2, <1>4, <2>5
    <3>2. u.at[z] = t.at[z] /\ u.len[z] = t.len[z]
      BY <1>8, <1>12, <3>1
    <3>3. PieceIs(t.at[z], t.len[z], Base(t.up, W, z), W[z], z)
      BY <1>2, InNode
    <3> QED
      BY <3>2, <3>3
  <2>6. PieceIs(u.at[d], u.len[d], b, W[n], d)
    <3>1. PieceIs(t.at[n], t.len[n], b, W[n], d)
      BY <1>3, PieceMoved
    <3> QED
      BY <1>8, <1>12, <3>1
  <2> QED
    BY <1>1, <1>12, <2>1, <2>2, <2>3, <2>4, <2>5, <2>6 DEF SwapDone
<1>16. /\ \A z \in Node : z # d /\ t.up[z] # n => u.up[z] = t.up[z]
       /\ \A z \in Node : z # d /\ z # p => u.kids[z] = t.kids[z]
       /\ p # NULL => Len(u.kids[p]) = Len(t.kids[p])
  BY <1>8, <1>12, <1>13
<1> QED
  BY <1>1, <1>10, <1>12, <1>15, <1>16

LEMMA OverManyGone ==
    ASSUME NEW t, NEW W, NEW H, Sound(t, W, H), NEW n \in InTree(t), Len(t.kids[n]) > 1,
           NEW d \in Split, d \notin InTree(t),
           NEW there, there = UpdateChildren(ReplaceNode(t, n, d), d),
           NEW v, v = Cleared(UpdateParent(UpdateParent(there, Head(there.kids[d])), d), n)
    PROVE  Becomes(v, H \ {n}, (InTree(t) \ {n}) \cup {d})
<1>1. PICK P, p : P = InTree(t) /\ p = t.up[n]
  OBVIOUS
<1>2. /\ Rep(t, W) /\ P \cap Key = H /\ \A x \in P : x \notin Key => Len(t.kids[x]) > 1
      /\ RepIn(t, W, P, t.root) /\ Clean(t, P) /\ n \in P /\ d \notin P
  BY <1>1 DEF Sound, Rep
<1>3. /\ n \in Node /\ n # NULL /\ P \in SUBSET Node /\ (n = t.root <=> p = NULL)
      /\ (p # NULL => p \in P /\ p # n) /\ p \in Pointer
  <2>1. P \in SUBSET Node
    BY <1>2 DEF RepIn
  <2> QED
    BY <1>1, <1>2, <2>1, RepNode
<1>4. d \in Node /\ d # NULL /\ d \notin Key /\ d # n
  BY <1>2, Nodes, SplitsAreNoKeys
<1>5. PICK u : u = there
  OBVIOUS
<1>6. /\ SwapDone(t, u, W, P, n, d)
      /\ u.root = t.root
      /\ \A x \in Node : x # d /\ t.up[x] # n => u.up[x] = t.up[x]
      /\ \A x \in Node : x # d /\ x # p => u.kids[x] = t.kids[x]
      /\ p # NULL => Len(u.kids[p]) = Len(t.kids[p])
  BY <1>1, <1>2, <1>5, OverManyStep
<1>7. PICK Q, r, V : /\ Q = (P \ {n}) \cup {d} /\ r = (IF n = t.root THEN d ELSE t.root)
                     /\ V = [W EXCEPT ![d] = W[n]]
  OBVIOUS
<1>8. RepIn(u, V, Q, r)
  <2>1. Takes(u, W, P, t.root, n, d)
    BY <1>2, <1>4, <1>6, SwapIn
  <2> QED
    BY <1>7, <2>1 DEF Takes
<1>9. u.up[d] = p /\ u.kids[d] = t.kids[n] /\ u \in Trees
  BY <1>1, <1>6 DEF SwapDone
<1>10. PICK c : c = Head(u.kids[d])
  OBVIOUS
<1>11. u.up[c] = d /\ c \in Node
  <2>1. d \in Q
    BY <1>7
  <2>2. /\ Row(u.kids[d], KidsIn(Q, u.up, d)) /\ KidsIn(Q, u.up, d) \in SUBSET Node
        /\ \A x \in KidsIn(Q, u.up, d) : u.up[x] = d
    BY <1>8, <2>1, InKids
  <2>3. u.kids[d] # <<>>
    BY <1>9
  <2>4. c \in KidsIn(Q, u.up, d)
    BY <1>10, <2>2, <2>3, RowIs
  <2> QED
    BY <2>2, <2>4
<1>12. PICK x : x = UpdateParent(u, c)
  OBVIOUS
<1>13. RepIn(x, V, Q, r) /\ x \in Trees
  <2>1. u.up[c] \in Q
    BY <1>7, <1>11
  <2>2. RepIn(x, V, Q, r)
    BY <1>8, <1>11, <1>12, <2>1, RenewIn
  <2> QED
    BY <2>2 DEF RepIn
<1>14. x.up = u.up /\ x.kids = u.kids /\ x.root = u.root
  <2>1. Renewed(u, x, c, d)
    BY <1>9, <1>11, <1>12, UpdateParentIs
  <2> QED
    BY <1>4, <2>1 DEF Renewed
<1>15. PICK y : y = UpdateParent(x, d)
  OBVIOUS
<1>16. Renewed(x, y, d, p)
  <2>1. x.up[d] = p
    BY <1>9, <1>14
  <2> QED
    BY <1>4, <1>13, <1>15, <2>1, UpdateParentIs
<1>17. RepIn(y, V, Q, r) /\ y.up = u.up /\ y.kids = u.kids /\ y.root = r
  <2>1. CASE p = NULL
    <3>1. /\ y \in Trees /\ y.root = d /\ y.at = x.at /\ y.up = x.up /\ y.kids = x.kids
          /\ y.len = x.len
      BY <1>16, <2>1 DEF Renewed
    <3>2. V \in [Node -> Word]
      BY <1>8 DEF RepIn
    <3>3. \A z \in Q : /\ V[z] = V[z] /\ y.up[z] = x.up[z] /\ y.kids[z] = x.kids[z]
                       /\ y.len[z] = x.len[z]
                       /\ PieceIs(y.at[z], y.len[z], Base(x.up, V, z), V[z], z)
      <4> TAKE z \in Q
      <4>1. PieceIs(x.at[z], x.len[z], Base(x.up, V, z), V[z], z)
        BY <1>13, InNode
      <4> QED
        BY <3>1, <4>1
    <3>4. RepIn(y, V, Q, r)
      BY <1>13, <3>1, <3>2, <3>3, InSame
    <3> QED
      BY <1>3, <1>7, <1>14, <2>1, <3>1, <3>4
  <2>2. CASE p # NULL
    <3>1. x.up[d] \in Q
      BY <1>3, <1>7, <1>9, <1>14, <2>2
    <3>2. RepIn(y, V, Q, r)
      BY <1>4, <1>13, <1>15, <3>1, RenewIn
    <3>3. y.up = x.up /\ y.kids = x.kids /\ y.root = x.root
      BY <1>16, <2>2 DEF Renewed
    <3> QED
      BY <1>3, <1>6, <1>7, <1>14, <2>2, <3>2, <3>3
  <2> QED
    BY <2>1, <2>2
<1>18. Clean(y, Q \cup {n})
  <2>1. ASSUME NEW z \in Node, z \notin Q \cup {n} PROVE y.up[z] = NULL /\ y.kids[z] = <<>>
    <3>1. z # d /\ z # p /\ t.up[z] = NULL /\ t.kids[z] = <<>>
      BY <1>2, <1>3, <1>7, <2>1, Nodes DEF Clean
    <3> QED
      BY <1>3, <1>6, <1>17, <2>1, <3>1
  <2> QED
    BY <2>1 DEF Clean
<1>19. \A z \in Q : z \notin Key => Len(y.kids[z]) > 1
  <2>1. ASSUME NEW z \in P, z # n, z \notin Key PROVE Len(y.kids[z]) > 1
    <3>1. z \in Node /\ z # NULL /\ z # d /\ Len(t.kids[z]) > 1
      BY <1>2, <1>3, <2>1, Nodes
    <3> QED
      BY <1>6, <1>17, <3>1
  <2>2. Len(y.kids[d]) > 1
    BY <1>9, <1>17
  <2> QED
    BY <1>7, <2>1, <2>2
<1>20. Becomes(v, Q \cap Key, Q)
  <2>1. v = Cleared(y, n)
    BY <1>5, <1>10, <1>12, <1>15
  <2>2. n \notin Q /\ Q # {}
    BY <1>4, <1>7
  <2> QED
    BY <1>3, <1>17, <1>18, <1>19, <2>1, <2>2, ClearedOut
<1>21. Q \cap Key = H \ {n}
  BY <1>2, <1>4, <1>7
<1> QED
  BY <1>1, <1>7, <1>20, <1>21

(***************************************************************************)
(* The pools.                                                              *)
(***************************************************************************)
\* A pool from which c blocks are taken: the others of the heap are on its list.
Lends(p, c) == /\ p \in [nr_blocks : Nat, heap : Int]
               /\ p.heap = p.nr_blocks + c
\* The blocks of the nodes B are taken from the two pools.
Counted(ps, B) == /\ ps \in [valid : [nr_blocks : Nat, heap : Int], invalid : [nr_blocks : Nat, heap : Int]]
                  /\ Lends(ps.valid, Cardinality(B \cap Key))
                  /\ Lends(ps.invalid, Cardinality(B \cap Split))

LEMMA LendsMore ==
    ASSUME NEW p, NEW c \in Nat, Lends(p, c)
    PROVE  Lends(PiAlloc(p), c + 1)
  BY MaxBlocksNat DEF Lends, PiAlloc

LEMMA LendsLess ==
    ASSUME NEW p, NEW c \in Nat, Lends(p, c + 1)
    PROVE  Lends(PiFree(p), c)
  BY MaxBlocksNat DEF Lends, PiFree

LEMMA LendsAlone ==
    ASSUME NEW p, NEW c \in Nat, Lends(p, c)
    PROVE  Lends(PiDestroy(p), c)
  BY MaxBlocksNat DEF Lends, PiDestroy

LEMMA OneMore ==
    ASSUME NEW B \in SUBSET Node, NEW n \in Node, n \notin B, NEW S, n \in S
    PROVE  /\ Cardinality(B \cap S) \in Nat
           /\ Cardinality((B \cup {n}) \cap S) = Cardinality(B \cap S) + 1
<1>1. IsFiniteSet(B \cap S)
  <2>1. IsFiniteSet(B)
    BY Nodes, FS_Subset
  <2> QED
    BY <2>1, FS_Intersection
<1>2. (B \cup {n}) \cap S = (B \cap S) \cup {n} /\ n \notin B \cap S
  OBVIOUS
<1> QED
  BY <1>1, <1>2, FS_AddElement, FS_CardinalityType

LEMMA CountMore ==
    ASSUME NEW ps, NEW B \in SUBSET Node, Counted(ps, B), NEW n \in Node, n \notin B
    PROVE  Counted(Alloc(ps, KindOf(n)), B \cup {n})
<1>1. CASE n \in Key
  <2>1. KindOf(n) = "valid" /\ n \notin Split
    BY <1>1, Nodes DEF KindOf
  <2>2. /\ Cardinality(B \cap Key) \in Nat
        /\ Cardinality((B \cup {n}) \cap Key) = Cardinality(B \cap Key) + 1
    BY <1>1, OneMore
  <2>3. (B \cup {n}) \cap Split = B \cap Split
    BY <2>1
  <2>4. Lends(PiAlloc(ps.valid), Cardinality((B \cup {n}) \cap Key))
    BY <2>2, LendsMore DEF Counted
  <2>5. Alloc(ps, KindOf(n)) = [ps EXCEPT !.valid = PiAlloc(ps.valid)]
    BY <2>1 DEF Alloc
  <2> QED
    BY <2>3, <2>4, <2>5 DEF Counted, Lends
<1>2. CASE n \notin Key
  <2>1. KindOf(n) = "invalid" /\ n \in Split
    BY <1>2, Nodes DEF KindOf
  <2>2. /\ Cardinality(B \cap Split) \in Nat
        /\ Cardinality((B \cup {n}) \cap Split) = Cardinality(B \cap Split) + 1
    BY <2>1, OneMore
  <2>3. (B \cup {n}) \cap Key = B \cap Key
    BY <1>2
  <2>4. Lends(PiAlloc(ps.invalid), Cardinality((B \cup {n}) \cap Split))
    BY <2>2, LendsMore DEF Counted
  <2>5. Alloc(ps, KindOf(n)) = [ps EXCEPT !.invalid = PiAlloc(ps.invalid)]
    BY <2>1 DEF Alloc
  <2> QED
    BY <2>3, <2>4, <2>5 DEF Counted, Lends
<1> QED
  BY <1>1, <1>2

LEMMA CountLess ==
    ASSUME NEW ps, NEW B \in SUBSET Node, Counted(ps, B), NEW n \in B
    PROVE  Counted(Free(ps, n), B \ {n})
<1> DEFINE R == B \ {n}
<1>1. R \in SUBSET Node /\ n \notin R /\ n \in Node /\ B = R \cup {n} /\ n # NULL
  BY Nodes
<1> HIDE DEF R
<1>2. CASE n \in Key
  <2>1. KindOf(n) = "valid" /\ n \notin Split
    BY <1>1, <1>2, Nodes DEF KindOf
  <2>2. /\ Cardinality(R \cap Key) \in Nat
        /\ Cardinality(B \cap Key) = Cardinality(R \cap Key) + 1
    BY <1>1, <1>2, OneMore
  <2>3. B \cap Split = R \cap Split
    BY <1>1, <2>1
  <2>4. Lends(PiFree(ps.valid), Cardinality(R \cap Key))
    BY <2>2, LendsLess DEF Counted
  <2>5. Free(ps, n) = [ps EXCEPT !.valid = PiFree(ps.valid)]
    BY <1>1, <2>1 DEF Free
  <2>6. Counted(Free(ps, n), R)
    BY <2>3, <2>4, <2>5 DEF Counted, Lends
  <2> QED
    BY <2>6 DEF R
<1>3. CASE n \notin Key
  <2>1. KindOf(n) = "invalid" /\ n \in Split
    BY <1>1, <1>3, Nodes DEF KindOf
  <2>2. /\ Cardinality(R \cap Split) \in Nat
        /\ Cardinality(B \cap Split) = Cardinality(R \cap Split) + 1
    BY <1>1, <2>1, OneMore
  <2>3. B \cap Key = R \cap Key
    BY <1>1, <1>3
  <2>4. Lends(PiFree(ps.invalid), Cardinality(R \cap Split))
    BY <2>2, LendsLess DEF Counted
  <2>5. Free(ps, n) = [ps EXCEPT !.invalid = PiFree(ps.invalid)]
    BY <1>1, <2>1 DEF Free
  <2>6. Counted(Free(ps, n), R)
    BY <2>3, <2>4, <2>5 DEF Counted, Lends
  <2> QED
    BY <2>6 DEF R
<1> QED
  BY <1>2, <1>3

LEMMA CountAlone ==
    ASSUME NEW ps, NEW B \in SUBSET Node, Counted(ps, B)
    PROVE  Counted([kind \in DOMAIN ps |-> PiDestroy(ps[kind])], B)
<1>1. IsFiniteSet(B \cap Key) /\ IsFiniteSet(B \cap Split)
  <2>1. IsFiniteSet(B)
    BY Nodes, FS_Subset
  <2> QED
    BY <2>1, FS_Intersection
<1>2. Cardinality(B \cap Key) \in Nat /\ Cardinality(B \cap Split) \in Nat
  BY <1>1, FS_CardinalityType
<1>3. /\ Lends(PiDestroy(ps.valid), Cardinality(B \cap Key))
      /\ Lends(PiDestroy(ps.invalid), Cardinality(B \cap Split))
  BY <1>2, LendsAlone DEF Counted
<1>4. [kind \in DOMAIN ps |-> PiDestroy(ps[kind])]
        = [valid |-> PiDestroy(ps.valid), invalid |-> PiDestroy(ps.invalid)]
  BY DEF Counted
<1> QED
  BY <1>3, <1>4 DEF Counted, Lends

(***************************************************************************)
(* Between two calls: the tree is sound, the spare nodes are not in it,    *)
(* and the pools lend what is in the tree or spare.                        *)
(***************************************************************************)
Spares(d, e) == {d, e} \ {NULL}
SparesFit(Q, d, e) == /\ d \in Split \cup {NULL} /\ e \in Split \cup {NULL}
                      /\ d = e => d = NULL
                      /\ d \notin Q /\ e \notin Q
Out(t, H, d, e, ps) == /\ Becomes(t, H, InTree(t))
                       /\ SparesFit(InTree(t), d, e)
                       /\ Counted(ps, InTree(t) \cup Spares(d, e))

LEMMA OutNodes ==
    ASSUME NEW t, NEW H, NEW d, NEW e, NEW ps, Out(t, H, d, e, ps)
    PROVE  InTree(t) \cup Spares(d, e) \in SUBSET Node
  BY Nodes DEF Out, SparesFit, Spares, InTree

LEMMA OutMore ==
    ASSUME NEW t, NEW H, NEW d, NEW e, NEW ps, Out(t, H, d, e, ps),
           NEW v, NEW G, NEW Q, Becomes(v, G, Q), NEW d2, NEW e2, SparesFit(Q, d2, e2),
           NEW n \in Node, n \notin InTree(t) \cup Spares(d, e),
           Q \cup Spares(d2, e2) = (InTree(t) \cup Spares(d, e)) \cup {n}
    PROVE  Out(v, G, d2, e2, Alloc(ps, KindOf(n)))
<1>1. Q = InTree(v)
  BY DEF Becomes
<1>2. Counted(Alloc(ps, KindOf(n)), (InTree(t) \cup Spares(d, e)) \cup {n})
  BY OutNodes, CountMore DEF Out
<1> QED
  BY <1>1, <1>2 DEF Out

LEMMA OutLess ==
    ASSUME NEW t, NEW H, NEW d, NEW e, NEW ps, Out(t, H, d, e, ps),
           NEW v, NEW G, NEW Q, Becomes(v, G, Q), NEW d2, NEW e2, SparesFit(Q, d2, e2),
           NEW n \in InTree(t) \cup Spares(d, e),
           Q \cup Spares(d2, e2) = (InTree(t) \cup Spares(d, e)) \ {n}
    PROVE  Out(v, G, d2, e2, Free(ps, n))
<1>1. Q = InTree(v)
  BY DEF Becomes
<1>2. Counted(Free(ps, n), (InTree(t) \cup Spares(d, e)) \ {n})
  BY OutNodes, CountLess DEF Out
<1> QED
  BY <1>1, <1>2 DEF Out

LEMMA OutSame ==
    ASSUME NEW t, NEW H, NEW d, NEW e, NEW ps, Out(t, H, d, e, ps)
    PROVE  Becomes(t, H, InTree(t)) /\ SparesFit(InTree(t), d, e)
  BY DEF Out

LEMMA FreeNone ==
    ASSUME NEW ps
    PROVE  Free(ps, NULL) = ps
  BY DEF Free

\* A spare node is freed, or a new one is allocated.
LEMMA DummyGone ==
    ASSUME NEW t, NEW H, NEW d, NEW e, NEW ps, Out(t, H, d, e, ps)
    PROVE  Out(t, H, NULL, e, Free(ps, d))
<1>1. CASE d = NULL
  BY <1>1, FreeNone
<1>2. CASE d # NULL
  <2>1. Becomes(t, H, InTree(t)) /\ SparesFit(InTree(t), d, e)
    BY OutSame
  <2>2. NULL \notin InTree(t)
    BY Nodes DEF InTree
  <2>3. SparesFit(InTree(t), NULL, e)
    BY <2>1, <2>2 DEF SparesFit
  <2>4. d \in InTree(t) \cup Spares(d, e)
    BY <1>2 DEF Spares
  <2>5. InTree(t) \cup Spares(NULL, e) = (InTree(t) \cup Spares(d, e)) \ {d}
    BY <1>2, <2>1 DEF Spares, SparesFit
  <2> QED
    BY <2>1, <2>3, <2>4, <2>5, OutLess
<1> QED
  BY <1>1, <1>2

LEMMA ExtraGone ==
    ASSUME NEW t, NEW H, NEW d, NEW e, NEW ps, Out(t, H, d, e, ps)
    PROVE  Out(t, H, d, NULL, Free(ps, e))
<1>1. CASE e = NULL
  BY <1>1, FreeNone
<1>2. CASE e # NULL
  <2>1. Becomes(t, H, InTree(t)) /\ SparesFit(InTree(t), d, e)
    BY OutSame
  <2>2. NULL \notin InTree(t)
    BY Nodes DEF InTree
  <2>3. SparesFit(InTree(t), d, NULL)
    BY <2>1, <2>2 DEF SparesFit
  <2>4. e \in InTree(t) \cup Spares(d, e)
    BY <1>2 DEF Spares
  <2>5. InTree(t) \cup Spares(d, NULL) = (InTree(t) \cup Spares(d, e)) \ {e}
    BY <1>2, <2>1 DEF Spares, SparesFit
  <2> QED
    BY <2>1, <2>3, <2>4, <2>5, OutLess
<1> QED
  BY <1>1, <1>2

LEMMA DummyComes ==
    ASSUME NEW t, NEW H, NEW e, NEW ps, Out(t, H, NULL, e, ps),
           NEW d \in Split, d \notin InTree(t), d # e
    PROVE  Out(t, H, d, e, Alloc(ps, "invalid"))
<1>1. Becomes(t, H, InTree(t)) /\ SparesFit(InTree(t), NULL, e)
  BY OutSame
<1>2. SparesFit(InTree(t), d, e)
  BY <1>1 DEF SparesFit
<1>3. d \in Node /\ d # NULL /\ KindOf(d) = "invalid"
  BY Nodes DEF KindOf
<1>4. d \notin InTree(t) \cup Spares(NULL, e)
  BY DEF Spares
<1>5. InTree(t) \cup Spares(d, e) = (InTree(t) \cup Spares(NULL, e)) \cup {d}
  BY <1>3 DEF Spares
<1>6. Out(t, H, d, e, Alloc(ps, KindOf(d)))
  BY <1>1, <1>2, <1>3, <1>4, <1>5, OutMore
<1> QED
  BY <1>3, <1>6

LEMMA PoolsDestroyed ==
    ASSUME NEW t, NEW H, NEW d, NEW e, NEW ps, Out(t, H, d, e, ps)
    PROVE  Out(t, H, d, e, [kind \in DOMAIN ps |-> PiDestroy(ps[kind])])
<1>1. Counted([kind \in DOMAIN ps |-> PiDestroy(ps[kind])], InTree(t) \cup Spares(d, e))
  BY OutNodes, CountAlone DEF Out
<1> QED
  BY <1>1 DEF Out

Idle == Out(tree, held, dummy, extra, pool)

\* rt_process_arg, rt_free_arg and the freeing of what the pools keep.
LEMMA ArgSteps ==
    ASSUME Idle, ProcessArg \/ FreeArg \/ DestroyPool
    PROVE  Idle'
<1>1. CASE ProcessArg
  <2>1. PICK ps : ps = IF dummy = NULL THEN Alloc(pool, "invalid") ELSE pool
    OBVIOUS
  <2>2. Out(tree, held, dummy', extra, ps)
    <3>1. CASE dummy = NULL
      <4>1. \E s \in Split : s \notin InTree(tree) \cup {dummy, extra}
        BY <1>1, <3>1, Nodes DEF ProcessArg
      <4>2. UnusedSplit \in Split /\ UnusedSplit \notin InTree(tree) \cup {dummy, extra}
        BY <4>1, Zenon DEF UnusedSplit
      <4>3. dummy' = UnusedSplit /\ ps = Alloc(pool, "invalid")
        BY <1>1, <2>1, <3>1 DEF ProcessArg
      <4>4. Out(tree, held, NULL, extra, pool)
        BY <3>1 DEF Idle
      <4> QED
        BY <4>2, <4>3, <4>4, DummyComes
    <3>2. CASE dummy # NULL
      BY <1>1, <2>1, <3>2 DEF ProcessArg, Idle
    <3> QED
      BY <3>1, <3>2
  <2>3. Out(tree, held, dummy', NULL, Free(ps, extra))
    BY <2>2, ExtraGone
  <2>4. pool' = Free(ps, extra) /\ extra' = NULL /\ tree' = tree /\ held' = held
    BY <1>1, <2>1 DEF ProcessArg
  <2> QED
    BY <2>3, <2>4 DEF Idle
<1>2. CASE FreeArg
  <2>1. Out(tree, held, NULL, NULL, Free(Free(pool, dummy), extra))
    BY DummyGone, ExtraGone DEF Idle
  <2>2. /\ pool' = Free(Free(pool, dummy), extra) /\ dummy' = NULL /\ extra' = NULL
        /\ tree' = tree /\ held' = held
    BY <1>2 DEF FreeArg
  <2> QED
    BY <2>1, <2>2 DEF Idle
<1>3. CASE DestroyPool
  <2>1. Out(tree, held, dummy, extra, [kind \in DOMAIN pool |-> PiDestroy(pool[kind])])
    BY PoolsDestroyed DEF Idle
  <2>2. /\ pool' = [kind \in DOMAIN pool |-> PiDestroy(pool[kind])]
        /\ tree' = tree /\ held' = held /\ dummy' = dummy /\ extra' = extra
    BY <1>3 DEF DestroyPool
  <2> QED
    BY <2>1, <2>2 DEF Idle
<1> QED
  BY <1>1, <1>2, <1>3

\* The block of a key that is not in the tree is not in use.
LEMMA NewKey ==
    ASSUME Idle, NEW k \in Key, k \notin InTree(tree)
    PROVE  /\ k \in Node /\ KindOf(k) = "valid"
           /\ k \notin InTree(tree) \cup Spares(dummy, extra)
  BY Nodes DEF Idle, Out, SparesFit, Spares, KindOf

\* An insertion that uses none of the spare nodes.
LEMMA InsertedPlainly ==
    ASSUME Idle, NEW k \in Key, k \notin InTree(tree), NEW v,
           Becomes(v, held \cup {k}, InTree(tree) \cup {k}),
           tree' = v, Inserted(k), UNCHANGED <<dummy, extra>>
    PROVE  Idle'
<1>1. /\ Becomes(tree, held, InTree(tree)) /\ SparesFit(InTree(tree), dummy, extra)
      /\ Out(tree, held, dummy, extra, pool)
  BY OutSame DEF Idle
<1>2. SparesFit(InTree(tree) \cup {k}, dummy, extra)
  BY <1>1, Nodes DEF SparesFit
<1>3. (InTree(tree) \cup {k}) \cup Spares(dummy, extra)
        = (InTree(tree) \cup Spares(dummy, extra)) \cup {k}
  OBVIOUS
<1>4. Out(v, held \cup {k}, dummy, extra, Alloc(pool, KindOf(k)))
  BY <1>1, <1>2, <1>3, NewKey, OutMore
<1>5. pool' = Alloc(pool, KindOf(k)) /\ held' = held \cup {k} /\ dummy' = dummy /\ extra' = extra
  BY NewKey DEF Inserted
<1> QED
  BY <1>4, <1>5 DEF Idle

LEMMA InsertFirstStep ==
    ASSUME Idle, NEW k \in Key, InsertFirst(k)
    PROVE  Idle'
<1>1. PICK W : Sound(tree, W, held)
  BY DEF Idle, Out, Becomes
<1>2. tree.root = NULL /\ Inserted(k) /\ UNCHANGED <<dummy, extra>>
      /\ tree' = [InitNode(tree, k) EXCEPT !.root = k]
  BY DEF InsertFirst, Prepared
<1>3. PICK v : v = [InitNode(tree, k) EXCEPT !.root = k]
  OBVIOUS
<1>4. Becomes(v, {k}, {k}) /\ held = {} /\ InTree(tree) = {}
  BY <1>1, <1>2, <1>3, FirstNode
<1>5. Becomes(v, held \cup {k}, InTree(tree) \cup {k}) /\ k \notin InTree(tree)
  BY <1>4
<1>6. tree' = v
  BY <1>2, <1>3
<1> QED
  BY <1>2, <1>5, <1>6, InsertedPlainly

\* The block of a key that is in the tree is freed again.
LEMMA DuplicateStep ==
    ASSUME Idle, NEW k \in Key, NEW W, Sound(tree, W, held), NEW w,
           Arrived(tree, W, k, w), tree.root # NULL, InsertDuplicate(k, w)
    PROVE  /\ UNCHANGED <<tree, held, dummy, extra>> /\ Idle'
           /\ k \in held
<1>1. UNCHANGED <<tree, held, dummy, extra>> /\ pool' = Free(Alloc(pool, "valid"), k)
  BY DEF InsertDuplicate
<1>2. k \in held
  <2>1. k \in Word /\ Rep(tree, W) /\ Hit(tree, k, w) /\ Valid(w.t)
    BY Nodes DEF Sound, InsertDuplicate
  <2>2. w.t \in InTree(tree) /\ W[w.t] = k
    BY <2>1, HitIs
  <2>3. w.t \in Key
    BY <2>1 DEF Valid
  <2>4. W[w.t] = w.t
    BY <2>1, <2>2, <2>3, KeyWord
  <2> QED
    BY <2>2, <2>3, <2>4 DEF Sound
<1>3. Counted(pool', InTree(tree) \cup Spares(dummy, extra))
  <2>1. PICK p : p = Alloc(pool, "valid")
    OBVIOUS
  <2>2. PICK B : B = InTree(tree) \cup Spares(dummy, extra)
    OBVIOUS
  <2>3. B \in SUBSET Node /\ Counted(pool, B) /\ KindOf(k) = "valid" /\ k \in Key /\ k # NULL
    BY <2>2, OutNodes, Nodes DEF Idle, Out, KindOf
  <2>4. IsFiniteSet(B \cap Key) /\ Cardinality(B \cap Key) \in Nat
    <3>1. IsFiniteSet(B)
      BY <2>3, Nodes, FS_Subset
    <3>2. IsFiniteSet(B \cap Key)
      BY <3>1, FS_Intersection
    <3> QED
      BY <3>2, FS_CardinalityType
  <2>5. Lends(PiFree(PiAlloc(pool.valid)), Cardinality(B \cap Key))
    <3>1. Lends(pool.valid, Cardinality(B \cap Key))
      BY <2>3 DEF Counted
    <3>2. Lends(PiAlloc(pool.valid), Cardinality(B \cap Key) + 1)
      BY <2>4, <3>1, LendsMore
    <3> QED
      BY <2>4, <3>2, LendsLess
  <2>6. p = [pool EXCEPT !.valid = PiAlloc(pool.valid)]
    BY <2>1 DEF Alloc
  <2>7. pool' = [p EXCEPT !.valid = PiFree(p.valid)]
    BY <1>1, <2>1, <2>3 DEF Free
  <2>8. pool \in [valid : [nr_blocks : Nat, heap : Int], invalid : [nr_blocks : Nat, heap : Int]]
    BY <2>3 DEF Counted
  <2>9. pool' = [pool EXCEPT !.valid = PiFree(PiAlloc(pool.valid))]
    BY <2>6, <2>7, <2>8
  <2>10. Counted(pool', B)
    BY <2>3, <2>5, <2>8, <2>9 DEF Counted, Lends
  <2> QED
    BY <2>2, <2>10
<1> QED
  BY <1>1, <1>2, <1>3 DEF Idle, Out

LEMMA OnSplitStepped ==
    ASSUME Idle, Ready, NEW k \in Key, NEW W, Sound(tree, W, held), NEW w,
           Arrived(tree, W, k, w), tree.root # NULL, InsertOnSplit(k, w)
    PROVE  Idle'
<1>1. PICK n : n = w.t
  OBVIOUS
<1>2. n \in InTree(tree) /\ W[n] = k /\ n \notin Key
  <2>1. k \in Word /\ Rep(tree, W) /\ Hit(tree, k, w) /\ ~Valid(w.t)
    BY Nodes DEF Sound, InsertOnSplit
  <2> QED
    BY <1>1, <2>1, HitIs DEF Valid
<1>3. PICK v : v = Cleared(UpdateChildren(UpdateParent(ReplaceNode(InitNode(tree, k), n, k), k), k), n)
  OBVIOUS
<1>4. tree' = v /\ extra' = n /\ Inserted(k) /\ dummy' = dummy
  BY <1>1, <1>3 DEF InsertOnSplit, Prepared
<1>5. Becomes(v, held \cup {k}, (InTree(tree) \ {n}) \cup {k}) /\ k \notin InTree(tree)
  BY <1>2, <1>3, OnSplitBecomes
<1>6. dummy # NULL /\ extra = NULL
  BY DEF Ready
<1>7. Out(tree, held, dummy, extra, pool) /\ SparesFit(InTree(tree), dummy, extra)
  BY OutSame DEF Idle
<1>8. n \in Node /\ n \in Split /\ n # NULL /\ n # k
  BY <1>2, Nodes DEF InTree
<1>9. SparesFit((InTree(tree) \ {n}) \cup {k}, dummy, n)
  BY <1>2, <1>6, <1>7, <1>8, Nodes DEF SparesFit
<1>10. ((InTree(tree) \ {n}) \cup {k}) \cup Spares(dummy, n)
         = (InTree(tree) \cup Spares(dummy, extra)) \cup {k}
  BY <1>2, <1>6, <1>8 DEF Spares
<1>11. Out(v, held \cup {k}, dummy, n, Alloc(pool, KindOf(k)))
  BY <1>5, <1>7, <1>9, <1>10, NewKey, OutMore
<1>12. pool' = Alloc(pool, KindOf(k)) /\ held' = held \cup {k}
  BY <1>4, <1>5, NewKey DEF Inserted
<1> QED
  BY <1>4, <1>11, <1>12 DEF Idle

LEMMA BelowStep ==
    ASSUME Idle, NEW k \in Key, NEW W, Sound(tree, W, held), NEW w,
           Arrived(tree, W, k, w), tree.root # NULL, InsertBelow(k, w)
    PROVE  Idle'
<1>1. PICK v : v = UpdateParent(AddNode(InitNode(tree, k), Stop(w), k, From(k, w.i), Len(k) - w.i), k)
  OBVIOUS
<1>2. tree' = v /\ Inserted(k) /\ UNCHANGED <<dummy, extra>>
      /\ w.pos = tree.len[Stop(w)] /\ w.i < Len(k)
  BY <1>1 DEF InsertBelow, Prepared, Whole
<1>3. k \in Word /\ Rep(tree, W)
  BY Nodes DEF Sound
<1>4. StopsBelow(tree, W, k, w, Stop(w))
  BY <1>2, <1>3, StopIs
<1>5. ~Hit(tree, k, w)
  <2>1. w.i < Len(k) /\ Len(k) \in Nat
    BY <1>2, Nodes
  <2> QED
    BY <2>1 DEF Hit
<1>6. k \notin InTree(tree)
  BY <1>3, <1>5, NotHere
<1>7. Becomes(v, held \cup {k}, InTree(tree) \cup {k})
  BY <1>1, <1>4, <1>6, LeafBecomes
<1> QED
  BY <1>2, <1>6, <1>7, InsertedPlainly

\* Where the search stops inside a piece.
LEMMA StopsInside ==
    ASSUME NEW k \in Key, NEW W, Rep(tree, W), NEW w,
           Arrived(tree, W, k, w), tree.root # NULL, ~Whole(w)
    PROVE  StopsIn(tree, W, k, w, w.t) /\ k \notin InTree(tree)
<1>1. w.pos # tree.len[Stop(w)] /\ k \in Word
  BY Nodes DEF Whole
<1>2. ~Hit(tree, k, w)
  BY <1>1 DEF Hit, Stop
<1> QED
  BY <1>1, <1>2, InsideIs, NotHere

LEMMA AboveStep ==
    ASSUME Idle, NEW k \in Key, NEW W, Sound(tree, W, held), NEW w,
           Arrived(tree, W, k, w), tree.root # NULL, InsertAbove(k, w)
    PROVE  Idle'
<1>1. PICK n : n = w.t
  OBVIOUS
<1>2. PICK v : v = AddNode(CutAndAdd(InitNode(tree, k), n, k, From(k, w.i - w.pos), w.pos), k, n,
                           Ahead(tree.at[n], w.pos), tree.len[n] - w.pos)
  OBVIOUS
<1>3. tree' = v /\ Inserted(k) /\ UNCHANGED <<dummy, extra>> /\ ~Whole(w) /\ w.i = Len(k)
  BY <1>1, <1>2 DEF InsertAbove, Prepared, Lower
<1>4. StopsIn(tree, W, k, w, n) /\ k \notin InTree(tree)
  BY <1>1, <1>3, StopsInside DEF Sound
<1>5. Becomes(v, held \cup {k}, InTree(tree) \cup {k})
  BY <1>2, <1>3, <1>4, AboveBecomes
<1> QED
  BY <1>3, <1>4, <1>5, InsertedPlainly

LEMMA SplittingStep ==
    ASSUME Idle, Ready, NEW k \in Key, NEW W, Sound(tree, W, held), NEW w,
           Arrived(tree, W, k, w), tree.root # NULL, InsertSplitting(k, w)
    PROVE  Idle'
<1>1. PICK n : n = w.t
  OBVIOUS
<1>2. PICK low : low = AddNode(CutAndAdd(InitNode(tree, k), n, dummy, tree.at[n], w.pos), dummy, n,
                               Ahead(tree.at[n], w.pos), tree.len[n] - w.pos)
  OBVIOUS
<1>3. PICK v : v = UpdateParent(AddNode(low, dummy, k, From(k, w.i), Len(k) - w.i), n)
  OBVIOUS
<1>4. tree' = v /\ Inserted(k) /\ dummy' = NULL /\ extra' = extra /\ ~Whole(w) /\ w.i < Len(k)
  BY <1>1, <1>2, <1>3 DEF InsertSplitting, Prepared, Lower
<1>5. StopsIn(tree, W, k, w, n) /\ k \notin InTree(tree)
  BY <1>1, <1>4, StopsInside DEF Sound
<1>6. Out(tree, held, dummy, extra, pool) /\ SparesFit(InTree(tree), dummy, extra)
  BY OutSame DEF Idle
<1>7. dummy # NULL /\ extra = NULL
  BY DEF Ready
<1>8. dummy \in Split /\ dummy \notin InTree(tree) /\ dummy \in Node
  BY <1>6, <1>7, Nodes DEF SparesFit
<1>9. Becomes(v, held \cup {k}, (InTree(tree) \cup {dummy}) \cup {k})
  BY <1>2, <1>3, <1>4, <1>5, <1>8, SplittingBecomes
<1>10. NULL \notin InTree(tree) \cup {dummy} \cup {k}
  BY <1>8, Nodes DEF InTree
<1>11. SparesFit((InTree(tree) \cup {dummy}) \cup {k}, NULL, extra)
  BY <1>7, <1>10 DEF SparesFit
<1>12. ((InTree(tree) \cup {dummy}) \cup {k}) \cup Spares(NULL, extra)
         = (InTree(tree) \cup Spares(dummy, extra)) \cup {k}
  BY <1>7 DEF Spares
<1>13. Out(v, held \cup {k}, NULL, extra, Alloc(pool, KindOf(k)))
  BY <1>5, <1>6, <1>9, <1>11, <1>12, NewKey, OutMore
<1>14. pool' = Alloc(pool, KindOf(k)) /\ held' = held \cup {k}
  BY <1>4, <1>5, NewKey DEF Inserted
<1> QED
  BY <1>4, <1>13, <1>14 DEF Idle

LEMMA InsertStep ==
    ASSUME Idle, NEW k \in Key, InsertFirst(k) \/ InsertFurther(k)
    PROVE  Idle'
<1>1. CASE InsertFirst(k)
  BY <1>1, InsertFirstStep
<1>2. CASE InsertFurther(k)
  <2>1. PICK W : Sound(tree, W, held)
    BY DEF Idle, Out, Becomes
  <2>2. PICK w : w = Walk(tree, k)
    OBVIOUS
  <2>3. tree.root # NULL /\ Ready
    BY <1>2 DEF InsertFurther
  <2>4. Arrived(tree, W, k, w)
    BY <2>1, <2>2, <2>3, ArrivedIs, Nodes DEF Sound
  <2>5. \/ InsertDuplicate(k, w) \/ InsertOnSplit(k, w)
        \/ InsertBelow(k, w) \/ InsertAbove(k, w) \/ InsertSplitting(k, w)
    BY <1>2, <2>2 DEF InsertFurther
  <2> QED
    BY <2>1, <2>3, <2>4, <2>5, DuplicateStep, OnSplitStepped, BelowStep, AboveStep, SplittingStep
<1> QED
  BY <1>1, <1>2

\* The node that rt_remove finds is that of the key; where it is a split node,
\* the client does not hold the key.
LEMMA FoundIs ==
    ASSUME Idle, NEW k \in Key, NEW W, Sound(tree, W, held), NEW n, n = Search(tree, k).exact, n # NULL
    PROVE  n \in InTree(tree) /\ n \in Node /\ held \ {n} = held \ {k}
<1>1. PICK w : w = Walk(tree, k)
  OBVIOUS
<1>2. Search(tree, k).exact = IF tree.root = NULL THEN NULL ELSE IF Hit(tree, k, w) THEN w.t ELSE NULL
  <2>1. CASE tree.root = NULL
    BY <2>1 DEF Search
  <2>2. CASE tree.root # NULL
    BY <1>1, <2>2 DEF Search
  <2> QED
    BY <2>1, <2>2
<1>3. tree.root # NULL /\ Hit(tree, k, w) /\ n = w.t
  BY <1>2
<1>4. Rep(tree, W) /\ k \in Word /\ InTree(tree) \cap Key = held
  BY Nodes DEF Sound
<1>5. Arrived(tree, W, k, w)
  BY <1>1, <1>3, <1>4, ArrivedIs
<1>6. n \in InTree(tree) /\ W[n] = k
  BY <1>3, <1>4, <1>5, HitIs
<1>7. CASE n \in Key
  <2>1. n = k
    BY <1>4, <1>6, <1>7, KeyWord
  <2> QED
    BY <1>6, <2>1 DEF InTree
<1>8. CASE n \notin Key
  <2>1. k \notin InTree(tree)
    <3>1. SUFFICES ASSUME k \in InTree(tree) PROVE FALSE
      OBVIOUS
    <3>2. W[k] = k
      BY <1>4, <3>1, KeyWord
    <3>3. n = k
      BY <1>4, <1>6, <3>1, <3>2, OneNode
    <3> QED
      BY <1>8, <3>3
  <2> QED
    BY <1>4, <1>6, <1>8, <2>1 DEF InTree
<1> QED
  BY <1>7, <1>8

\* A removal of the node n that leaves the nodes Q and the spare nodes d and e.
LEMMA RemovedTo ==
    ASSUME Idle, NEW k, NEW n \in InTree(tree), held \ {n} = held \ {k}, Removed(k, n),
           NEW Q, NEW v, Becomes(v, held \ {n}, Q), tree' = v, SparesFit(Q, dummy', extra'),
           Q \cup Spares(dummy', extra') = (InTree(tree) \cup Spares(dummy, extra)) \ {n}
    PROVE  Idle'
<1>1. PICK d, e : d = dummy' /\ e = extra'
  OBVIOUS
<1>2. /\ Out(tree, held, dummy, extra, pool) /\ SparesFit(Q, d, e)
      /\ n \in InTree(tree) \cup Spares(dummy, extra)
      /\ Q \cup Spares(d, e) = (InTree(tree) \cup Spares(dummy, extra)) \ {n}
  BY <1>1 DEF Idle
<1>3. Out(v, held \ {n}, d, e, Free(pool, n))
  BY <1>2, OutLess
<1>4. pool' = Free(pool, n) /\ held' = held \ {n}
  BY DEF Removed
<1> QED
  BY <1>1, <1>3, <1>4 DEF Idle

LEMMA IdleNodes ==
    ASSUME Idle
    PROVE  /\ SparesFit(InTree(tree), dummy, extra)
           /\ NULL \notin InTree(tree) /\ InTree(tree) \in SUBSET Node
           /\ Ready => dummy \in Split /\ dummy \in Node /\ dummy \notin InTree(tree)
                       /\ extra = NULL /\ Spares(dummy, extra) = {dummy}
<1>1. SparesFit(InTree(tree), dummy, extra)
  BY OutSame DEF Idle
<1>2. NULL \notin InTree(tree) /\ InTree(tree) \in SUBSET Node
  BY Nodes DEF InTree
<1>3. ASSUME Ready
      PROVE  dummy \in Split /\ dummy \in Node /\ dummy \notin InTree(tree)
             /\ extra = NULL /\ Spares(dummy, extra) = {dummy}
  <2>1. dummy # NULL /\ extra = NULL
    BY <1>3 DEF Ready
  <2> QED
    BY <1>1, <2>1, Nodes DEF SparesFit, Spares
<1> QED
  BY <1>1, <1>2, <1>3

LEMMA OnlyStep ==
    ASSUME Idle, Ready, NEW k \in Key, NEW W, Sound(tree, W, held), NEW n \in InTree(tree),
           held \ {n} = held \ {k}, RemoveOnly(k, n)
    PROVE  Idle'
<1>1. PICK v : v = [Cleared(tree, n) EXCEPT !.root = NULL]
  OBVIOUS
<1>2. /\ tree' = v /\ Removed(k, n) /\ dummy' = dummy /\ extra' = extra
      /\ tree.kids[n] = <<>> /\ tree.up[n] = NULL
  BY <1>1 DEF RemoveOnly
<1>3. Becomes(v, {}, {}) /\ InTree(tree) = {n}
  BY <1>1, <1>2, OnlyBecomes
<1>4. held \ {n} = {}
  BY <1>3 DEF Sound
<1>5. SparesFit({}, dummy', extra')
  BY <1>2, IdleNodes DEF SparesFit
<1>6. {} \cup Spares(dummy', extra') = (InTree(tree) \cup Spares(dummy, extra)) \ {n}
  BY <1>2, <1>3, IdleNodes
<1>7. Becomes(v, held \ {n}, {})
  BY <1>3, <1>4
<1> QED
  BY <1>2, <1>5, <1>6, <1>7, RemovedTo

LEMMA LeafStep ==
    ASSUME Idle, Ready, NEW k \in Key, NEW W, Sound(tree, W, held), NEW n \in InTree(tree),
           held \ {n} = held \ {k}, RemoveLeaf(k, n)
    PROVE  Idle'
<1>1. PICK p : p = tree.up[n]
  OBVIOUS
<1>2. PICK left : left = Without(tree, tree.up[n], n)
  OBVIOUS
<1>3. Removed(k, n) /\ dummy' = dummy /\ tree.kids[n] = <<>> /\ tree.up[n] # NULL
  BY DEF RemoveLeaf
<1>4. CASE p \in Key \/ Len(left.kids[p]) > 1
  <2>1. PICK v : v = Cleared(UpdateParent(left, n), n)
    OBVIOUS
  <2>2. tree' = v /\ extra' = extra
    BY <1>1, <1>2, <1>4, <2>1 DEF RemoveLeaf, Valid
  <2>3. Becomes(v, held \ {n}, InTree(tree) \ {n})
    <3>1. tree.up[n] \in Key \/ Len(left.kids[tree.up[n]]) > 1
      BY <1>1, <1>4
    <3> QED
      BY <1>2, <1>3, <2>1, <3>1, LeafGone
  <2>4. SparesFit(InTree(tree) \ {n}, dummy', extra')
    BY <1>3, <2>2, IdleNodes DEF SparesFit
  <2>5. (InTree(tree) \ {n}) \cup Spares(dummy', extra')
          = (InTree(tree) \cup Spares(dummy, extra)) \ {n}
    BY <1>3, <2>2, IdleNodes
  <2> QED
    BY <1>3, <2>2, <2>3, <2>4, <2>5, RemovedTo
<1>5. CASE ~(p \in Key \/ Len(left.kids[p]) > 1)
  <2>1. PICK v : v = Cleared(Cleared(Joins(left, Head(left.kids[tree.up[n]]), tree.up[n]), n), tree.up[n])
    OBVIOUS
  <2>2. tree' = v /\ extra' = p
    BY <1>1, <1>2, <1>5, <2>1 DEF RemoveLeaf, Valid
  <2>3. /\ Becomes(v, held \ {n}, (InTree(tree) \ {n}) \ {tree.up[n]})
        /\ tree.up[n] \in InTree(tree) \ {n}
    <3>1. tree.up[n] \notin Key /\ ~(Len(left.kids[tree.up[n]]) > 1)
      BY <1>1, <1>5
    <3> QED
      BY <1>2, <1>3, <2>1, <3>1, LeafAndParentGone
  <2>4. p \in InTree(tree) \ {n} /\ p \in Split /\ p # NULL /\ p # dummy
    BY <1>1, <1>5, <2>3, IdleNodes, Nodes
  <2>5. SparesFit((InTree(tree) \ {n}) \ {p}, dummy', extra')
    BY <1>3, <2>2, <2>4, IdleNodes DEF SparesFit
  <2>6. ((InTree(tree) \ {n}) \ {p}) \cup Spares(dummy', extra')
          = (InTree(tree) \cup Spares(dummy, extra)) \ {n}
    <3>1. Spares(dummy', extra') = {dummy, p}
      BY <1>3, <2>2, <2>4, IdleNodes, Nodes DEF Spares
    <3> QED
      BY <2>4, <3>1, IdleNodes
  <2>7. Becomes(v, held \ {n}, (InTree(tree) \ {n}) \ {p})
    BY <1>1, <2>3
  <2> QED
    BY <1>3, <2>2, <2>5, <2>6, <2>7, RemovedTo
<1> QED
  BY <1>4, <1>5

LEMMA OverOneStep ==
    ASSUME Idle, Ready, NEW k \in Key, NEW W, Sound(tree, W, held), NEW n \in InTree(tree),
           held \ {n} = held \ {k}, RemoveOverOne(k, n)
    PROVE  Idle'
<1>1. PICK j : j = Joins(tree, Head(tree.kids[n]), n)
  OBVIOUS
<1>2. PICK v : v = Cleared(IF tree.up[n] = NULL THEN j ELSE UpdateChildren(j, tree.up[n]), n)
  OBVIOUS
<1>3. Removed(k, n) /\ dummy' = dummy /\ extra' = extra /\ Len(tree.kids[n]) = 1 /\ tree' = v
  BY <1>1, <1>2 DEF RemoveOverOne
<1>4. Becomes(v, held \ {n}, InTree(tree) \ {n})
  BY <1>1, <1>2, <1>3, OverOneGone
<1>5. SparesFit(InTree(tree) \ {n}, dummy', extra')
  BY <1>3, IdleNodes DEF SparesFit
<1>6. (InTree(tree) \ {n}) \cup Spares(dummy', extra')
        = (InTree(tree) \cup Spares(dummy, extra)) \ {n}
  BY <1>3, IdleNodes
<1> QED
  BY <1>3, <1>4, <1>5, <1>6, RemovedTo

LEMMA OverManyDone ==
    ASSUME Idle, Ready, NEW k \in Key, NEW W, Sound(tree, W, held), NEW n \in InTree(tree),
           held \ {n} = held \ {k}, RemoveOverMany(k, n)
    PROVE  Idle'
<1>1. PICK there : there = UpdateChildren(ReplaceNode(tree, n, dummy), dummy)
  OBVIOUS
<1>2. PICK v : v = Cleared(UpdateParent(UpdateParent(there, Head(there.kids[dummy])), dummy), n)
  OBVIOUS
<1>3. Removed(k, n) /\ dummy' = NULL /\ extra' = extra /\ Len(tree.kids[n]) > 1 /\ tree' = v
  BY <1>1, <1>2 DEF RemoveOverMany
<1>4. Becomes(v, held \ {n}, (InTree(tree) \ {n}) \cup {dummy})
  BY <1>1, <1>2, <1>3, IdleNodes, OverManyGone
<1>5. SparesFit((InTree(tree) \ {n}) \cup {dummy}, dummy', extra')
  BY <1>3, IdleNodes, Nodes DEF SparesFit
<1>6. ((InTree(tree) \ {n}) \cup {dummy}) \cup Spares(dummy', extra')
        = (InTree(tree) \cup Spares(dummy, extra)) \ {n}
  <2>1. Spares(dummy', extra') = {}
    BY <1>3, IdleNodes DEF Spares
  <2> QED
    BY <2>1, IdleNodes
<1> QED
  BY <1>3, <1>4, <1>5, <1>6, RemovedTo

LEMMA RemoveStep ==
    ASSUME Idle, NEW k \in Key, RemoveNode(k)
    PROVE  Idle'
<1>1. PICK W : Sound(tree, W, held)
  BY DEF Idle, Out, Becomes
<1>2. PICK n : n = Search(tree, k).exact
  OBVIOUS
<1>3. /\ Ready
      /\ \/ RemoveMissing(n) \/ RemoveOnly(k, n) \/ RemoveLeaf(k, n)
         \/ RemoveOverOne(k, n) \/ RemoveOverMany(k, n)
  BY <1>2 DEF RemoveNode
<1>4. CASE RemoveMissing(n)
  BY <1>4 DEF RemoveMissing, vars, Idle
<1>5. CASE n # NULL
  <2>1. n \in InTree(tree) /\ held \ {n} = held \ {k}
    BY <1>1, <1>2, <1>5, FoundIs
  <2> QED
    BY <1>1, <1>3, <1>5, <2>1, OnlyStep, LeafStep, OverOneStep, OverManyDone DEF RemoveMissing
<1> QED
  BY <1>3, <1>4, <1>5 DEF RemoveOnly, RemoveLeaf, RemoveOverOne, RemoveOverMany

(***************************************************************************)
(* rt_free_all: the queue q of the nodes that the loop has met, of which   *)
(* those before its place h are freed.  A node is met when its parent is   *)
(* freed, so at the end, where all that are met are freed, none is left.   *)
(***************************************************************************)
Links(up, q, h) == \A j \in h .. Len(q) : up[q[j]] = IF j < Len(q) THEN q[j + 1] ELSE NULL
Met(t0, W, q, h, P, G, F) ==
    /\ Rep(t0, W) /\ P = InTree(t0) /\ t0.root \in P
    /\ Row(q, G) /\ G \in SUBSET P /\ h \in 1 .. Len(q) + 1
    /\ F = {q[j] : j \in 1 .. h - 1}
    /\ t0.root \in G
    /\ \A y \in P \ {t0.root} : y \in G <=> t0.up[y] \in F
Queued(t, t0, q, h, P, F, hd, la) ==
    /\ t \in Trees /\ Links(t.up, q, h)
    /\ hd = IF h <= Len(q) THEN q[h] ELSE NULL
    /\ h <= Len(q) => la = q[Len(q)]
    /\ \A y \in P \ F : t.kids[y] = t0.kids[y]
    /\ \A y \in Node : y \notin P \ F => t.up[y] = NULL /\ t.kids[y] = <<>>
Freeing(t, hd, la, U) ==
    \E t0, W, q, h, P, G, F : /\ Met(t0, W, q, h, P, G, F)
                              /\ Queued(t, t0, q, h, P, F, hd, la)
                              /\ U = P \ F

LEMMA FreeStarts ==
    ASSUME NEW t, NEW W, Rep(t, W), t.root # NULL
    PROVE  Freeing(t, t.root, t.root, InTree(t))
<1>1. PICK r, q, P : r = t.root /\ q = <<r>> /\ P = InTree(t)
  OBVIOUS
<1>2. r \in Node /\ r \in P /\ t \in Trees /\ P \in SUBSET Node /\ t.up[r] = NULL /\ r # NULL
  <2>1. t \in Trees
    BY DEF Rep, RepIn
  <2>2. r \in Node
    BY <1>1, <2>1, Nodes, TreesAre
  <2>3. r \in InTree(t)
    BY <1>1, <2>2 DEF InTree
  <2> QED
    BY <1>1, <2>1, <2>2, <2>3, RepNode DEF InTree
<1>3. Len(q) = 1 /\ q[1] = r /\ q \in Seq(Node)
  BY <1>1, <1>2
<1>4. Row(q, {r})
  BY <1>3 DEF Row
<1>5. Met(t, W, q, 1, P, {r}, {})
  <2>1. {q[j] : j \in 1 .. 1 - 1} = {}
    OBVIOUS
  <2>2. 1 \in 1 .. Len(q) + 1
    BY <1>3
  <2> QED
    BY <1>1, <1>2, <1>4, <2>1, <2>2 DEF Met
<1>6. Queued(t, t, q, 1, P, {}, r, r)
  <2>1. Links(t.up, q, 1)
    BY <1>2, <1>3 DEF Links
  <2>2. \A y \in Node : y \notin P => t.up[y] = NULL /\ t.kids[y] = <<>>
    BY <1>1 DEF Rep, Clean
  <2> QED
    BY <1>2, <1>3, <2>1, <2>2 DEF Queued
<1>7. P = P \ {}
  OBVIOUS
<1>8. Freeing(t, r, r, P)
  BY <1>5, <1>6, <1>7 DEF Freeing
<1> QED
  BY <1>1, <1>8

\* A node is met before its children are, so all have been met.
LEMMA AllMet ==
    ASSUME NEW t0, NEW W, NEW q, NEW h, NEW P, NEW G, NEW F, Met(t0, W, q, h, P, G, F), F = G
    PROVE  P = G
<1>1. SUFFICES ASSUME P \ G # {} PROVE FALSE
  BY DEF Met
<1>2. Rep(t0, W) /\ P = InTree(t0) /\ \A y \in P \ {t0.root} : y \in G <=> t0.up[y] \in G
  BY DEF Met
<1>3. \A x \in P \ G : x \in P /\ x # t0.root /\ Len(W[x]) \in Nat
  BY <1>2, RepNode DEF Met
<1>4. PICK x \in P \ G : \A y \in P \ G : Len(W[x]) <= Len(W[y])
  <2>1. PICK f : f = [y \in P \ G |-> Len(W[y])]
    OBVIOUS
  <2>2. \A y \in P \ G : f[y] \in Nat
    BY <1>3, <2>1
  <2>3. \E x \in P \ G : \A y \in P \ G : f[x] <= f[y]
    BY <1>1, <2>2, Lowest
  <2> QED
    BY <2>1, <2>3
<1>5. t0.up[x] \notin G
  BY <1>2, <1>3
<1>6. x \in InTree(t0) /\ x # t0.root
  BY <1>2, <1>3
<1>7. t0.up[x] # NULL /\ t0.up[x] \in InTree(t0) /\ Len(W[t0.up[x]]) < Len(W[x])
  BY <1>2, <1>6, RepNode
<1>8. t0.up[x] \in P \ G
  BY <1>2, <1>5, <1>7
<1>9. Len(W[x]) <= Len(W[t0.up[x]]) /\ Len(W[t0.up[x]]) \in Nat /\ Len(W[x]) \in Nat
  BY <1>3, <1>4, <1>8
<1> QED
  BY <1>7, <1>9

LEMMA FreeEnds ==
    ASSUME NEW t, NEW la, NEW U, Freeing(t, NULL, la, U), NEW v, v = [t EXCEPT !.root = NULL]
    PROVE  Becomes(v, {}, {}) /\ U = {}
<1>1. PICK t0, W, q, h, P, G, F : /\ Met(t0, W, q, h, P, G, F)
                                  /\ Queued(t, t0, q, h, P, F, NULL, la)
                                  /\ U = P \ F
  BY DEF Freeing
<1>2. Row(q, G) /\ h \in 1 .. Len(q) + 1 /\ F = {q[j] : j \in 1 .. h - 1} /\ G \in SUBSET P
  BY <1>1 DEF Met
<1>3. Len(q) \in Nat
  BY <1>2, RowIs
<1>4. h = Len(q) + 1
  <2>1. SUFFICES ASSUME h <= Len(q) PROVE FALSE
    BY <1>2, <1>3
  <2>2. q[h] = NULL
    BY <1>1, <2>1 DEF Queued
  <2>3. q[h] \in Node
    BY <1>2, <1>3, <2>1 DEF Row
  <2> QED
    BY <2>2, <2>3, Nodes
<1>5. F = G
  <2>1. h - 1 = Len(q)
    BY <1>3, <1>4
  <2> QED
    BY <1>2, <2>1 DEF Row
<1>6. P = G
  BY <1>1, <1>5, AllMet
<1>7. t \in Trees /\ \A y \in Node : t.up[y] = NULL /\ t.kids[y] = <<>>
  BY <1>1, <1>5, <1>6 DEF Queued
<1>8. PICK u : u = v
  OBVIOUS
<1>9. Has(u, NULL, t.up, t.kids, t.at, t.len)
  BY <1>7, <1>8, PutRoot, Nodes
<1>10. u \in Trees /\ u.root = NULL /\ u.up = t.up /\ u.kids = t.kids
  BY <1>9 DEF Has
<1>11. Clean(u, {})
  BY <1>7, <1>10 DEF Clean
<1>12. Becomes(u, {}, {})
  BY <1>10, <1>11, NoneLeft
<1> QED
  BY <1>1, <1>5, <1>6, <1>8, <1>12

\* The queue's links: the branches s are put behind its last node.
Chains(t, u, s, from) ==
    /\ u \in Trees /\ u.kids = t.kids /\ u.root = t.root
    /\ u.up[from] = IF s = <<>> THEN NULL ELSE s[1]
    /\ \A i \in 1 .. Len(s) : u.up[s[i]] = IF i < Len(s) THEN s[i + 1] ELSE NULL
    /\ \A y \in Node : y # from /\ y \notin Range(s) => u.up[y] = t.up[y]

Lined(line, s, C, from) ==
    /\ Len(line) = Len(s) + 1 /\ DOMAIN line = 1 .. Len(s) + 1 /\ Len(s) \in Nat
    /\ line[1] = from /\ \A i \in 1 .. Len(s) : line[i + 1] = s[i]
    /\ \A i \in 1 .. Len(s) + 1 : line[i] \in Node
    /\ \A i, j \in 1 .. Len(s) + 1 : line[i] = line[j] => i = j
    /\ Range(line) = C \cup {from}

LEMMA LineIs ==
    ASSUME NEW s, NEW C, Row(s, C), NEW from \in Node, from \notin C, NEW line, line = <<from>> \o s
    PROVE  Lined(line, s, C, from)
<1>1. Len(s) \in Nat /\ s \in Seq(Node)
  BY RowIs DEF Row
<1>2. /\ Len(line) = Len(s) + 1 /\ DOMAIN line = 1 .. Len(s) + 1
      /\ line[1] = from /\ \A i \in 1 .. Len(s) : line[i + 1] = s[i]
  BY <1>1
<1>3. \A i \in 1 .. Len(s) : s[i] \in C /\ s[i] \in Node
  BY <1>1 DEF Row
<1>4. \A i \in 1 .. Len(s) + 1 : i = 1 \/ (i - 1 \in 1 .. Len(s) /\ line[i] = s[i - 1])
  <2>1. TAKE i \in 1 .. Len(s) + 1
  <2>2. CASE i # 1
    <3>1. i - 1 \in 1 .. Len(s) /\ (i - 1) + 1 = i
      BY <1>1, <2>2
    <3> QED
      BY <1>2, <3>1
  <2> QED
    BY <2>2
<1>5. \A i \in 1 .. Len(s) + 1 : line[i] \in Node
  BY <1>2, <1>3, <1>4
<1>6. \A i, j \in 1 .. Len(s) + 1 : line[i] = line[j] => i = j
  <2>1. TAKE i, j \in 1 .. Len(s) + 1
  <2>2. HAVE line[i] = line[j]
  <2>3. CASE i = 1 \/ j = 1
    BY <1>2, <1>3, <1>4, <2>2, <2>3
  <2>4. CASE i # 1 /\ j # 1
    <3>1. i - 1 \in 1 .. Len(s) /\ j - 1 \in 1 .. Len(s) /\ s[i - 1] = s[j - 1]
      BY <1>4, <2>2, <2>4
    <3>2. i - 1 = j - 1
      BY <3>1 DEF Row
    <3> QED
      BY <1>1, <3>2
  <2> QED
    BY <2>3, <2>4
<1>7. Range(line) = C \cup {from}
  <2>1. Range(line) = {line[i] : i \in 1 .. Len(s) + 1}
    BY <1>2 DEF Range
  <2>2. \A i \in 1 .. Len(s) + 1 : line[i] \in C \cup {from}
    BY <1>2, <1>3, <1>4
  <2>3. ASSUME NEW y \in C PROVE \E i \in 1 .. Len(s) + 1 : line[i] = y
    <3>1. PICK i \in 1 .. Len(s) : s[i] = y
      BY DEF Row
    <3>2. i + 1 \in 1 .. Len(s) + 1 /\ line[i + 1] = y
      BY <1>1, <1>2, <3>1
    <3> QED
      BY <3>2
  <2>4. 1 \in 1 .. Len(s) + 1
    BY <1>1
  <2> QED
    BY <1>2, <2>1, <2>2, <2>3, <2>4
<1> QED
  BY <1>1, <1>2, <1>5, <1>6, <1>7 DEF Lined

Spot(line, n) == CHOOSE j \in DOMAIN line : line[j] = n

LEMMA ChainedIs ==
    ASSUME NEW t \in Trees, NEW s, NEW C, Row(s, C), NEW from \in Node, from \notin C,
           NEW u, u = Chained(t, s, from)
    PROVE  Chains(t, u, s, from)
<1>1. PICK line : line = <<from>> \o s
  OBVIOUS
<1>2. PICK m : m = Len(line)
  OBVIOUS
<1>3. /\ m = Len(s) + 1 /\ DOMAIN line = 1 .. m /\ Len(s) \in Nat
      /\ line[1] = from /\ \A i \in 1 .. Len(s) : line[i + 1] = s[i]
      /\ \A i \in 1 .. m : line[i] \in Node
      /\ \A i, j \in 1 .. m : line[i] = line[j] => i = j
      /\ Range(line) = C \cup {from}
  <2>1. Lined(line, s, C, from)
    BY <1>1, LineIs
  <2> QED
    BY <1>2, <2>1 DEF Lined
<1>4. PICK U : U = [n \in Node |->
          IF n \in Range(line) THEN IF Spot(line, n) = Len(line) THEN NULL
                                    ELSE line[Spot(line, n) + 1]
          ELSE t.up[n]]
  OBVIOUS
<1>5. u = [t EXCEPT !.up = U]
  BY <1>1, <1>4 DEF Chained, Spot
<1>6. ASSUME NEW i \in 1 .. m
      PROVE  U[line[i]] = (IF i = m THEN NULL ELSE line[i + 1]) /\ U[line[i]] \in Pointer
  <2>1. line[i] \in Node /\ line[i] \in Range(line)
    BY <1>3 DEF Range
  <2>2. Spot(line, line[i]) = i
    BY <1>3 DEF Spot
  <2>3. U[line[i]] = IF i = m THEN NULL ELSE line[i + 1]
    BY <1>2, <1>4, <2>1, <2>2
  <2>4. i # m => i + 1 \in 1 .. m
    BY <1>3
  <2> QED
    BY <1>3, <2>3, <2>4, Nodes
<1>7. \A y \in Node : y \notin C \cup {from} => U[y] = t.up[y]
  BY <1>3, <1>4
<1>8. U \in [Node -> Pointer]
  <2>1. ASSUME NEW y \in Node PROVE U[y] \in Pointer
    <3>1. CASE y \in Range(line)
      <4>1. PICK i \in 1 .. m : line[i] = y
        BY <1>3, <3>1 DEF Range
      <4> QED
        BY <1>6, <4>1
    <3>2. CASE y \notin Range(line)
      BY <1>3, <1>7, <3>2, TreesAre
    <3> QED
      BY <3>1, <3>2
  <2>2. U = [y \in Node |-> U[y]]
    BY <1>4
  <2> QED
    BY <2>1, <2>2
<1>9. u \in Trees /\ u.root = t.root /\ u.up = U /\ u.kids = t.kids
  BY <1>5, <1>8, PutUp DEF Has
<1>10. U[from] = IF s = <<>> THEN NULL ELSE s[1]
  <2>1. 1 \in 1 .. m /\ (s = <<>> <=> m = 1)
    BY <1>3, RowIs
  <2>2. m # 1 => line[1 + 1] = s[1]
    <3>1. m # 1 => 1 \in 1 .. Len(s)
      BY <1>3
    <3> QED
      BY <1>3, <3>1
  <2>3. U[line[1]] = IF 1 = m THEN NULL ELSE line[1 + 1]
    BY <1>6, <2>1
  <2> QED
    BY <1>3, <2>1, <2>2, <2>3
<1>11. ASSUME NEW i \in 1 .. Len(s) PROVE U[s[i]] = IF i < Len(s) THEN s[i + 1] ELSE NULL
  <2>1. i + 1 \in 1 .. m /\ line[i + 1] = s[i] /\ (i + 1 = m <=> ~(i < Len(s)))
    BY <1>3
  <2>2. U[s[i]] = IF i + 1 = m THEN NULL ELSE line[(i + 1) + 1]
    BY <1>6, <2>1
  <2>3. i < Len(s) => line[(i + 1) + 1] = s[i + 1]
    <3>1. i < Len(s) => i + 1 \in 1 .. Len(s)
      BY <1>3
    <3> QED
      BY <1>3, <3>1
  <2> QED
    BY <2>1, <2>2, <2>3
<1>12. Range(s) = C
  BY RowIs
<1> QED
  BY <1>7, <1>9, <1>10, <1>11, <1>12 DEF Chains

\* Two rows, one behind the other.
Behind(r, q, s) == /\ Len(q) \in Nat /\ Len(s) \in Nat /\ Len(r) = Len(q) + Len(s)
                   /\ \A i \in 1 .. Len(q) : r[i] = q[i]
                   /\ \A i \in 1 .. Len(s) : r[Len(q) + i] = s[i]

LEMMA RowBoth ==
    ASSUME NEW q, NEW G, Row(q, G), NEW s, NEW C, Row(s, C), \A y \in C : y \notin G,
           NEW r, r = q \o s
    PROVE  Behind(r, q, s) /\ Row(r, G \cup C)
<1>1. Len(q) \in Nat /\ Len(s) \in Nat /\ q \in Seq(Node) /\ s \in Seq(Node)
  BY RowIs DEF Row
<1>2. r \in Seq(Node) /\ Behind(r, q, s)
  BY <1>1 DEF Behind
<1>3. PICK m, n : m = Len(q) /\ n = Len(s)
  OBVIOUS
<1>4. /\ m \in Nat /\ n \in Nat /\ Len(r) = m + n
      /\ \A i \in 1 .. m : r[i] = q[i] /\ q[i] \in G
      /\ \A i \in 1 .. n : r[m + i] = s[i] /\ s[i] \in C
      /\ \A i, j \in 1 .. m : q[i] = q[j] => i = j
      /\ \A i, j \in 1 .. n : s[i] = s[j] => i = j
      /\ \A y \in G : \E i \in 1 .. m : q[i] = y
      /\ \A y \in C : \E i \in 1 .. n : s[i] = y
  BY <1>1, <1>2, <1>3 DEF Behind, Row
<1>5. \A i \in 1 .. m + n : \/ i \in 1 .. m /\ r[i] \in G
                            \/ i \notin 1 .. m /\ i - m \in 1 .. n /\ r[i] = s[i - m] /\ r[i] \in C
  <2>1. TAKE i \in 1 .. m + n
  <2>2. CASE ~(i <= m)
    <3>1. i - m \in 1 .. n /\ m + (i - m) = i
      BY <1>4, <2>2
    <3>2. r[i] = s[i - m] /\ r[i] \in C
      BY <1>4, <3>1
    <3> QED
      BY <1>4, <2>2, <3>1, <3>2
  <2>3. CASE i <= m
    <3>1. i \in 1 .. m
      BY <1>4, <2>3
    <3> QED
      BY <1>4, <3>1
  <2> QED
    BY <1>4, <2>2, <2>3
<1>6. \A i, j \in 1 .. m + n : r[i] = r[j] => i = j
  <2>1. TAKE i, j \in 1 .. m + n
  <2>2. HAVE r[i] = r[j]
  <2>3. CASE i \in 1 .. m /\ j \in 1 .. m
    BY <1>4, <2>2, <2>3
  <2>4. CASE i \in 1 .. m /\ j \notin 1 .. m
    BY <1>5, <2>2, <2>4
  <2>5. CASE i \notin 1 .. m /\ j \in 1 .. m
    BY <1>5, <2>2, <2>5
  <2>6. CASE i \notin 1 .. m /\ j \notin 1 .. m
    <3>1. i - m \in 1 .. n /\ j - m \in 1 .. n /\ s[i - m] = s[j - m]
      BY <1>5, <2>2, <2>6
    <3>2. i - m = j - m
      BY <1>4, <3>1
    <3> QED
      BY <1>4, <3>2
  <2> QED
    BY <2>3, <2>4, <2>5, <2>6
<1>7. {r[i] : i \in 1 .. m + n} = G \cup C
  <2>1. \A i \in 1 .. m + n : r[i] \in G \cup C
    BY <1>5
  <2>2. ASSUME NEW y \in G \cup C PROVE \E i \in 1 .. m + n : r[i] = y
    <3>1. CASE y \in G
      <4>1. PICK i \in 1 .. m : q[i] = y
        BY <1>4, <3>1
      <4>2. i \in 1 .. m + n /\ r[i] = y
        BY <1>4, <4>1
      <4> QED
        BY <4>2
    <3>2. CASE y \in C
      <4>1. PICK i \in 1 .. n : s[i] = y
        BY <1>4, <3>2
      <4>2. m + i \in 1 .. m + n /\ r[m + i] = y
        BY <1>4, <4>1
      <4> QED
        BY <4>2
    <3> QED
      BY <3>1, <3>2
  <2> QED
    BY <2>1, <2>2
<1>8. Row(r, G \cup C)
  BY <1>2, <1>4, <1>6, <1>7 DEF Row
<1> QED
  BY <1>2, <1>8

LEMMA LinksOn ==
    ASSUME NEW t, NEW u, NEW q, NEW G, Row(q, G), NEW s, NEW C, Row(s, C), \A y \in C : y \notin G,
           NEW h \in 1 .. Len(q), Links(t.up, q, h), NEW from, from = q[Len(q)],
           Chains(t, u, s, from), NEW r, Behind(r, q, s)
    PROVE  Links(u.up, r, h)
<1>1. PICK m, n, U : m = Len(q) /\ n = Len(s) /\ U = u.up
  OBVIOUS
<1>2. /\ m \in Nat /\ n \in Nat /\ Len(r) = m + n /\ h \in Nat /\ h >= 1 /\ h <= m
      /\ \A i \in 1 .. m : r[i] = q[i] /\ q[i] \in G /\ q[i] \in Node
      /\ \A i \in 1 .. n : r[m + i] = s[i]
      /\ \A i, j \in 1 .. m : q[i] = q[j] => i = j
      /\ Range(s) = C /\ (s = <<>> <=> n = 0)
  <2>1. Range(s) = C /\ (s = <<>> <=> Len(s) = 0)
    BY RowIs
  <2>2. /\ Len(q) \in Nat /\ Len(s) \in Nat /\ Len(r) = Len(q) + Len(s)
        /\ \A i \in 1 .. Len(q) : r[i] = q[i]
        /\ \A i \in 1 .. Len(s) : r[Len(q) + i] = s[i]
    BY DEF Behind
  <2>3. \A i \in 1 .. Len(q) : q[i] \in G /\ q[i] \in Node
    BY DEF Row
  <2>4. \A i, j \in 1 .. Len(q) : q[i] = q[j] => i = j
    BY DEF Row
  <2>5. h \in Nat /\ h >= 1 /\ h <= Len(q)
    BY <2>2
  <2> QED
    BY <1>1, <2>1, <2>2, <2>3, <2>4, <2>5
<1>3. /\ U[q[m]] = IF n = 0 THEN NULL ELSE s[1]
      /\ \A i \in 1 .. n : U[s[i]] = IF i < n THEN s[i + 1] ELSE NULL
      /\ \A y \in Node : y # q[m] /\ y \notin C => U[y] = t.up[y]
  BY <1>1, <1>2 DEF Chains
<1>4. SUFFICES ASSUME NEW j \in h .. m + n
               PROVE  U[r[j]] = IF j < m + n THEN r[j + 1] ELSE NULL
  BY <1>1, <1>2 DEF Links
<1>5. CASE j < m
  <2>1. j \in 1 .. m /\ j + 1 \in 1 .. m /\ m \in 1 .. m /\ j # m /\ j < m + n /\ j \in h .. m
    BY <1>2, <1>5
  <2>2. q[j] # q[m] /\ q[j] \notin C /\ q[j] \in Node
    BY <1>2, <2>1
  <2>3. t.up[q[j]] = q[j + 1]
    BY <1>1, <1>5, <2>1 DEF Links
  <2>4. r[j] = q[j] /\ r[j + 1] = q[j + 1]
    BY <1>2, <2>1
  <2> QED
    BY <1>3, <2>1, <2>2, <2>3, <2>4
<1>6. CASE j = m
  <2>1. m \in 1 .. m /\ (n # 0 => 1 \in 1 .. n /\ m < m + n) /\ (n = 0 => ~(m < m + n))
    BY <1>2
  <2>2. r[m] = q[m] /\ (n # 0 => r[m + 1] = s[1])
    BY <1>2, <2>1
  <2> QED
    BY <1>3, <1>6, <2>1, <2>2
<1>7. CASE j > m
  <2>1. PICK i \in 1 .. n : j = m + i
    <3>1. j - m \in 1 .. n /\ j = m + (j - m)
      BY <1>2, <1>7
    <3> QED
      BY <3>1
  <2>2. (j < m + n <=> i < n) /\ (i < n => i + 1 \in 1 .. n) /\ j + 1 = m + (i + 1)
    BY <1>2, <2>1
  <2>3. r[j] = s[i] /\ (i < n => r[j + 1] = s[i + 1])
    BY <1>2, <2>1, <2>2
  <2> QED
    BY <1>3, <2>2, <2>3
<1> QED
  BY <1>2, <1>5, <1>6, <1>7

\* One turn of the loop.
LEMMA FreeTurn ==
    ASSUME NEW t, NEW hd, NEW la, NEW U, Freeing(t, hd, la, U), hd # NULL,
           NEW u, u = Chained(t, t.kids[hd], la), NEW b, b = u.up[hd],
           NEW lb, lb = IF t.kids[hd] = <<>> THEN la ELSE Last(t.kids[hd])
    PROVE  hd \in U /\ Freeing(Cleared(u, hd), b, lb, U \ {hd})
<1>1. PICK t0, W, q, h, P, G, F : /\ Met(t0, W, q, h, P, G, F)
                                  /\ Queued(t, t0, q, h, P, F, hd, la)
                                  /\ U = P \ F
  BY DEF Freeing
<1>2. /\ Rep(t0, W) /\ P = InTree(t0) /\ t0.root \in P
      /\ Row(q, G) /\ G \in SUBSET P /\ h \in 1 .. Len(q) + 1
      /\ F = {q[j] : j \in 1 .. h - 1}
      /\ t0.root \in G
      /\ \A y \in P \ {t0.root} : y \in G <=> t0.up[y] \in F
  BY <1>1 DEF Met
<1>3. Len(q) \in Nat
  BY <1>2, RowIs
<1>4. h \in 1 .. Len(q) /\ hd = q[h] /\ la = q[Len(q)] /\ Len(q) \in 1 .. Len(q)
  <2>1. h <= Len(q)
    BY <1>1 DEF Queued
  <2>2. h \in 1 .. Len(q) /\ Len(q) \in 1 .. Len(q)
    BY <1>2, <1>3, <2>1
  <2> QED
    BY <1>1, <2>1, <2>2 DEF Queued
<1>5. \A i, j \in 1 .. Len(q) : q[i] = q[j] => i = j
  BY <1>2 DEF Row
<1>6. \A i \in 1 .. Len(q) : q[i] \in G
  BY <1>2 DEF Row
<1>7. F \in SUBSET G /\ hd \in G /\ hd \notin F /\ la \in G /\ la \notin F
  <2>1. \A j \in 1 .. h - 1 : j \in 1 .. Len(q) /\ j # h /\ j # Len(q)
    BY <1>3, <1>4
  <2> QED
    BY <1>2, <1>4, <1>5, <1>6, <2>1
<1>8. P \in SUBSET Node
  BY <1>2 DEF InTree
<1>9. PICK s, C : s = t.kids[hd] /\ C = Kids(t0.up, hd)
  OBVIOUS
<1>10. Row(s, C) /\ (\A y \in C : y \in P /\ y # t0.root /\ t0.up[y] = hd)
       /\ \A y \in P : t0.up[y] = hd => y \in C
  <2>1. s = t0.kids[hd] /\ hd \in Node
    BY <1>1, <1>2, <1>7, <1>8, <1>9 DEF Queued
  <2>2. Row(t0.kids[hd], Kids(t0.up, hd))
        /\ \A x \in Kids(t0.up, hd) : t0.up[x] = hd /\ x \in InTree(t0) /\ x # t0.root
    BY <1>2, <2>1, RepKids
  <2> QED
    BY <1>2, <1>8, <1>9, <2>1, <2>2 DEF Kids
<1>11. \A y \in C : y \notin G
  BY <1>2, <1>7, <1>10
<1>12. t \in Trees /\ la \in Node /\ hd \in Node /\ la \notin C
  BY <1>1, <1>2, <1>7, <1>8, <1>11 DEF Queued
<1>13. Chains(t, u, s, la)
  <2>1. u = Chained(t, s, la)
    BY <1>9
  <2> QED
    BY <1>10, <1>12, <2>1, ChainedIs
<1>14. PICK r : r = q \o s
  OBVIOUS
<1>15. Behind(r, q, s) /\ Row(r, G \cup C)
  BY <1>2, <1>10, <1>11, <1>14, RowBoth
<1>16. Links(u.up, r, h)
  <2>1. Links(t.up, q, h)
    BY <1>1 DEF Queued
  <2> QED
    BY <1>2, <1>4, <1>10, <1>11, <1>13, <1>15, <2>1, LinksOn
<1>17. PICK m, n : m = Len(q) /\ n = Len(s)
  OBVIOUS
<1>18. /\ m \in Nat /\ n \in Nat /\ Len(r) = m + n /\ h \in Nat /\ h >= 1 /\ h <= m
       /\ \A i \in 1 .. m : r[i] = q[i]
       /\ \A i \in 1 .. n : r[m + i] = s[i]
  BY <1>4, <1>15, <1>17 DEF Behind
<1>19. Met(t0, W, r, h + 1, P, G \cup C, F \cup {hd})
  <2>1. h + 1 \in 1 .. Len(r) + 1
    BY <1>18
  <2>2. F \cup {hd} = {r[j] : j \in 1 .. (h + 1) - 1}
    <3>1. (h + 1) - 1 = h /\ \A j \in 1 .. h : (j = h \/ j \in 1 .. h - 1) /\ r[j] = q[j]
      BY <1>18
    <3>2. h \in 1 .. h /\ \A j \in 1 .. h - 1 : j \in 1 .. h
      BY <1>18
    <3> QED
      BY <1>2, <1>4, <3>1, <3>2
  <2>3. \A y \in P \ {t0.root} : y \in G \cup C <=> t0.up[y] \in F \cup {hd}
    BY <1>2, <1>10
  <2> QED
    BY <1>2, <1>10, <1>15, <2>1, <2>2, <2>3 DEF Met
<1>20. PICK x : x = Cleared(u, hd)
  OBVIOUS
<1>21. x \in Trees /\ Wiped(u, x, hd)
  <2>1. u \in Trees
    BY <1>13 DEF Chains
  <2> QED
    BY <1>12, <1>20, <2>1, ClearedIs, WipedIs DEF Has
<1>22. Queued(x, t0, r, h + 1, P, F \cup {hd}, b, lb)
  <2>1. Links(x.up, r, h + 1)
    <3>1. SUFFICES ASSUME NEW j \in h + 1 .. Len(r)
                   PROVE  x.up[r[j]] = IF j < Len(r) THEN r[j + 1] ELSE NULL
      BY DEF Links
    <3>2. j \in 1 .. Len(r) /\ h \in 1 .. Len(r) /\ j # h /\ j \in h .. Len(r)
      BY <1>18
    <3>3. r[j] # hd /\ r[j] \in Node
      <4>1. r[h] = hd
        BY <1>4, <1>18
      <4> QED
        BY <1>15, <3>2, <4>1 DEF Row
    <3>4. u.up[r[j]] = IF j < Len(r) THEN r[j + 1] ELSE NULL
      BY <1>16, <3>2 DEF Links
    <3> QED
      BY <1>21, <3>3, <3>4 DEF Wiped
  <2>2. b = IF h + 1 <= Len(r) THEN r[h + 1] ELSE NULL
    <3>1. h \in h .. Len(r) /\ (h < Len(r) <=> h + 1 <= Len(r)) /\ r[h] = hd
      BY <1>4, <1>18
    <3> QED
      BY <1>16, <3>1 DEF Links
  <2>3. h + 1 <= Len(r) => lb = r[Len(r)]
    <3>1. CASE s = <<>>
      <4>1. lb = la /\ n = 0
        BY <1>9, <1>10, <1>17, <3>1, RowIs
      <4>2. Len(r) = m /\ m \in 1 .. m
        BY <1>18, <4>1
      <4> QED
        BY <1>4, <1>17, <1>18, <4>1, <4>2
    <3>2. CASE s # <<>>
      <4>1. n # 0 /\ lb = s[n]
        BY <1>9, <1>10, <1>17, <3>2, RowIs DEF Last
      <4>2. n \in 1 .. n
        BY <1>18, <4>1
      <4> QED
        BY <1>18, <4>1, <4>2
    <3> QED
      BY <3>1, <3>2
  <2>4. \A y \in P \ (F \cup {hd}) : x.kids[y] = t0.kids[y]
    <3>1. u.kids = t.kids
      BY <1>13 DEF Chains
    <3>2. \A y \in P \ F : t.kids[y] = t0.kids[y]
      BY <1>1 DEF Queued
    <3> QED
      BY <1>8, <1>21, <3>1, <3>2 DEF Wiped
  <2>5. \A y \in Node : y \notin P \ (F \cup {hd}) => x.up[y] = NULL /\ x.kids[y] = <<>>
    <3>1. TAKE y \in Node
    <3>2. HAVE y \notin P \ (F \cup {hd})
    <3>3. CASE y = hd
      BY <1>21, <3>3 DEF Wiped
    <3>4. CASE y # hd
      <4>1. y \notin P \ F
        BY <3>2, <3>4
      <4>2. t.up[y] = NULL /\ t.kids[y] = <<>>
        BY <1>1, <4>1 DEF Queued
      <4>3. y # la /\ y \notin Range(s)
        <5>1. Range(s) = C
          BY <1>10, RowIs
        <5> QED
          BY <1>2, <1>7, <1>10, <1>11, <4>1, <5>1
      <4>4. u.up[y] = NULL /\ u.kids[y] = <<>>
        BY <1>13, <4>2, <4>3 DEF Chains
      <4> QED
        BY <1>21, <3>4, <4>4 DEF Wiped
    <3> QED
      BY <3>3, <3>4
  <2> QED
    BY <1>21, <2>1, <2>2, <2>3, <2>4, <2>5 DEF Queued
<1>23. U \ {hd} = P \ (F \cup {hd}) /\ hd \in U
  BY <1>1, <1>2, <1>7
<1>24. Freeing(x, b, lb, U \ {hd})
  BY <1>19, <1>22, <1>23 DEF Freeing
<1> QED
  BY <1>20, <1>23, <1>24

(***************************************************************************)
(* The inductive invariant.                                                *)
(***************************************************************************)
\* Within rt_free_all, the nodes U are not freed yet.
Emptying(U) == /\ Freeing(tree, head, last, U) /\ U \in SUBSET Node
               /\ SparesFit(U, dummy, extra)
               /\ Counted(pool, U \cup Spares(dummy, extra))
IInv == /\ pc \in {"out", "free"}
        /\ pc = "out" => Idle
        /\ pc = "free" => \E U : Emptying(U)

LEMMA InitIdle ==
    ASSUME Init
    PROVE  IInv
<1>1. Empty \in Trees /\ Empty.root = NULL /\ Clean(Empty, {})
  BY Nodes DEF Empty, Trees, Clean
<1>2. Becomes(Empty, {}, {})
  BY <1>1, NoneLeft
<1>3. InTree(Empty) = {}
  BY <1>2 DEF Becomes
<1>4. SparesFit({}, NULL, NULL)
  BY DEF SparesFit
<1>5. Counted(pool, {} \cup Spares(NULL, NULL))
  <2>1. {} \cup Spares(NULL, NULL) = {}
    BY DEF Spares
  <2>2. Cardinality({} \cap Key) = 0 /\ Cardinality({} \cap Split) = 0
    BY FS_EmptySet
  <2>3. pool = [valid |-> NoBlocks, invalid |-> NoBlocks]
    BY DEF Init
  <2>4. PICK z : z = [nr_blocks |-> 0, heap |-> 0]
    OBVIOUS
  <2>5. z \in [nr_blocks : Nat, heap : Int] /\ Lends(z, 0)
    BY <2>4 DEF Lends
  <2>6. pool = [valid |-> z, invalid |-> z]
    BY <2>3, <2>4 DEF NoBlocks
  <2>7. /\ pool \in [valid : [nr_blocks : Nat, heap : Int], invalid : [nr_blocks : Nat, heap : Int]]
        /\ Lends(pool.valid, 0) /\ Lends(pool.invalid, 0)
    BY <2>5, <2>6
  <2>8. Counted(pool, {})
    BY <2>2, <2>7 DEF Counted
  <2> QED
    BY <2>1, <2>8
<1>6. Out(Empty, {}, NULL, NULL, pool)
  BY <1>2, <1>3, <1>4, <1>5 DEF Out
<1> QED
  BY <1>6 DEF Init, IInv, Idle

LEMMA FreeAllStep ==
    ASSUME Idle, FreeAll
    PROVE  \E U : Emptying(U)'
<1>1. PICK W : Sound(tree, W, held)
  BY DEF Idle, Out, Becomes
<1>2. PICK U : U = InTree(tree)
  OBVIOUS
<1>3. Freeing(tree, tree.root, tree.root, U)
  BY <1>1, <1>2, FreeStarts DEF Sound, FreeAll
<1>4. SparesFit(U, dummy, extra) /\ Counted(pool, U \cup Spares(dummy, extra)) /\ U \in SUBSET Node
  BY <1>2 DEF Idle, Out, InTree
<1>5. tree' = tree /\ head' = tree.root /\ last' = tree.root /\ dummy' = dummy /\ extra' = extra
      /\ pool' = pool
  BY DEF FreeAll
<1>6. Emptying(U)'
  BY <1>3, <1>4, <1>5 DEF Emptying
<1> QED
  BY <1>6

LEMMA FreeHeadStep ==
    ASSUME NEW U, Emptying(U), FreeHead
    PROVE  \E R : Emptying(R)'
<1>1. PICK R : R = U \ {head}
  OBVIOUS
<1>2. PICK u : u = Chained(tree, tree.kids[head], last)
  OBVIOUS
<1>3. PICK b : b = u.up[head]
  OBVIOUS
<1>4. PICK lb : lb = IF tree.kids[head] = <<>> THEN last ELSE Last(tree.kids[head])
  OBVIOUS
<1>5. /\ head # NULL /\ tree' = Cleared(u, head) /\ head' = b /\ last' = lb
      /\ pool' = Free(pool, head) /\ dummy' = dummy /\ extra' = extra
  BY <1>2, <1>3, <1>4 DEF FreeHead
<1>6. Freeing(tree, head, last, U)
  BY DEF Emptying
<1>7. head \in U /\ Freeing(Cleared(u, head), b, lb, U \ {head})
  BY <1>2, <1>3, <1>4, <1>5, <1>6, FreeTurn
<1>8. PICK B : B = U \cup Spares(dummy, extra)
  OBVIOUS
<1>9. B \in SUBSET Node /\ Counted(pool, B) /\ head \in B
  BY <1>7, <1>8, Nodes DEF Emptying, SparesFit, Spares
<1>10. Counted(Free(pool, head), B \ {head})
  BY <1>9, CountLess
<1>11. B \ {head} = R \cup Spares(dummy, extra)
  BY <1>1, <1>7, <1>8 DEF Emptying, SparesFit, Spares
<1>12. SparesFit(R, dummy, extra) /\ R \in SUBSET Node
  BY <1>1 DEF Emptying, SparesFit
<1>13. Freeing(Cleared(u, head), b, lb, R)
  BY <1>1, <1>7
<1>14. Freeing(tree', head', last', R) /\ SparesFit(R, dummy', extra')
       /\ Counted(pool', R \cup Spares(dummy', extra'))
  BY <1>5, <1>10, <1>11, <1>12, <1>13
<1>15. Emptying(R)'
  BY <1>12, <1>14 DEF Emptying
<1> QED
  BY <1>15

LEMMA FreeDoneStep ==
    ASSUME NEW U, Emptying(U), FreeDone
    PROVE  Idle'
<1>1. PICK v : v = [tree EXCEPT !.root = NULL]
  OBVIOUS
<1>2. head = NULL /\ tree' = v /\ held' = {} /\ dummy' = dummy /\ extra' = extra /\ pool' = pool
  BY <1>1 DEF FreeDone
<1>3. Becomes(v, {}, {}) /\ U = {}
  BY <1>1, <1>2, FreeEnds DEF Emptying
<1>4. InTree(v) = {}
  BY <1>3 DEF Becomes
<1>5. SparesFit({}, dummy, extra) /\ Counted(pool, {} \cup Spares(dummy, extra))
  BY <1>3 DEF Emptying
<1>6. Out(v, {}, dummy, extra, pool)
  BY <1>3, <1>4, <1>5 DEF Out
<1> QED
  BY <1>2, <1>6 DEF Idle

LEMMA StepKeeps ==
    ASSUME IInv, [Next]_vars
    PROVE  IInv'
<1>1. ASSUME NEW k \in Key, InsertFirst(k) \/ InsertFurther(k)
      PROVE  IInv'
  <2>1. pc = "out" /\ pc' = "out"
    BY <1>1 DEF InsertFirst, InsertFurther, Ready, Inserted, InsertDuplicate, InsertOnSplit,
       InsertBelow, InsertAbove, InsertSplitting, loop
  <2>2. Idle'
    BY <1>1, <2>1, InsertStep DEF IInv
  <2> QED
    BY <2>1, <2>2 DEF IInv
<1>2. ASSUME NEW k \in Key, RemoveNode(k)
      PROVE  IInv'
  <2>1. pc = "out" /\ pc' = "out"
    BY <1>2 DEF RemoveNode, Ready, Removed, RemoveMissing, RemoveOnly, RemoveLeaf,
       RemoveOverOne, RemoveOverMany, loop, vars
  <2>2. Idle'
    BY <1>2, <2>1, RemoveStep DEF IInv
  <2> QED
    BY <2>1, <2>2 DEF IInv
<1>3. CASE ProcessArg \/ FreeArg \/ DestroyPool
  <2>1. pc = "out" /\ pc' = "out"
    BY <1>3 DEF ProcessArg, FreeArg, DestroyPool, loop
  <2>2. Idle'
    BY <1>3, <2>1, ArgSteps DEF IInv
  <2> QED
    BY <2>1, <2>2 DEF IInv
<1>4. CASE FreeAll
  <2>1. pc = "out" /\ pc' = "free"
    BY <1>4 DEF FreeAll
  <2>2. \E U : Emptying(U)'
    BY <1>4, <2>1, FreeAllStep DEF IInv
  <2> QED
    BY <2>1, <2>2 DEF IInv
<1>5. CASE FreeHead
  <2>1. pc = "free" /\ pc' = "free"
    BY <1>5 DEF FreeHead
  <2>2. PICK U : Emptying(U)
    BY <2>1 DEF IInv
  <2>3. \E R : Emptying(R)'
    BY <1>5, <2>2, FreeHeadStep
  <2> QED
    BY <2>1, <2>3 DEF IInv
<1>6. CASE FreeDone
  <2>1. pc = "free" /\ pc' = "out"
    BY <1>6 DEF FreeDone
  <2>2. PICK U : Emptying(U)
    BY <2>1 DEF IInv
  <2>3. Idle'
    BY <1>6, <2>2, FreeDoneStep
  <2> QED
    BY <2>1, <2>3 DEF IInv
<1>7. CASE UNCHANGED vars
  BY <1>7 DEF vars, IInv, Idle, Emptying
<1> QED
  BY <1>1, <1>2, <1>3, <1>4, <1>5, <1>6, <1>7 DEF Next

(***************************************************************************)
(* What the three searches find.                                           *)
(***************************************************************************)
\* A held key goes on from a node exactly where there are branches.
LEMMA GoesOn ==
    ASSUME NEW t, NEW W, NEW H, Sound(t, W, H), NEW n \in InTree(t), t.kids[n] # <<>>
    PROVE  \E y \in H : y \in Word /\ Pre(W[n], y) /\ Len(W[n]) < Len(y)
<1>1. Rep(t, W)
  BY DEF Sound
<1>2. n \in Node /\ W[n] \in Word
  BY <1>1, RepNode
<1>3. Row(t.kids[n], Kids(t.up, n))
  BY <1>1, <1>2, RepKids
<1>4. PICK c \in Kids(t.up, n) : TRUE
  BY <1>3, RowIs
<1>5. c \in InTree(t) /\ Len(W[n]) < Len(W[c]) /\ Pre(W[n], W[c])
  BY <1>1, <1>2, RepKids
<1>6. PICK y \in H : y \in InTree(t) /\ y \in Key /\ W[y] = y /\ Pre(W[c], W[y])
  BY <1>5, KeyBelow
<1>7. W[c] \in Word /\ W[y] \in Word
  BY <1>1, <1>5, <1>6, RepNode
<1>8. Pre(W[n], W[y])
  BY <1>2, <1>5, <1>6, <1>7, PreTrans
<1>9. Len(W[c]) <= Len(W[y]) /\ Len(W[n]) \in Nat /\ Len(W[c]) \in Nat /\ Len(W[y]) \in Nat
  BY <1>2, <1>6, <1>7, WordIs DEF Pre
<1>10. Len(W[n]) < Len(W[y])
  BY <1>5, <1>9
<1> QED
  BY <1>6, <1>7, <1>8, <1>10

LEMMA LeafEnds ==
    ASSUME NEW t, NEW W, NEW H, Sound(t, W, H), NEW n \in InTree(t), NEW y \in InTree(t),
           Pre(W[n], W[y]), n # y
    PROVE  t.kids[n] # <<>>
<1>1. Rep(t, W) /\ Trie(InTree(t), t.root, t.up, W)
  BY DEF Sound, Rep, RepIn
<1>2. \E c \in InTree(t) \ {t.root} : t.up[c] = n /\ Pre(W[c], W[y])
  BY <1>1, OnTheWay
<1>3. n \in Node
  BY <1>1, RepNode
<1>4. Kids(t.up, n) # {}
  BY <1>2 DEF Kids, InTree
<1>5. Row(t.kids[n], Kids(t.up, n))
  BY <1>1, <1>3, RepKids
<1> QED
  BY <1>4, <1>5, RowIs

\* The search does not stop above a node on its way.
LEMMA NotOver ==
    ASSUME NEW t, NEW W, NEW H, Sound(t, W, H), NEW k \in Word, NEW w, Arrived(t, W, k, w), w.t # NULL,
           NEW x \in InTree(t), t.kids[x] # <<>>, Pre(W[x], k), Len(W[x]) < Len(k)
    PROVE  ~Pre(W[w.t], W[x])
<1>1. SUFFICES ASSUME Pre(W[w.t], W[x]) PROVE FALSE
  OBVIOUS
<1>2. PICK n : n = w.t
  OBVIOUS
<1>3. Rep(t, W)
  BY DEF Sound
<1>4. /\ n \in InTree(t) /\ w.pos \in Nat /\ w.pos <= t.len[n]
      /\ w.i = Base(t.up, W, n) + w.pos /\ w.i <= Len(k) /\ w.i <= Len(W[n])
      /\ w.pos < t.len[n] /\ w.i < Len(k) => W[n][w.i + 1] # k[w.i + 1]
      /\ w.pos < t.len[n] \/ w.i = Len(k) \/ t.kids[n] = <<>>
  BY <1>2 DEF Arrived
<1>5. /\ W[n] \in Word /\ Len(W[n]) \in Nat /\ Base(t.up, W, n) \in Nat
      /\ t.len[n] = Len(W[n]) - Base(t.up, W, n)
  BY <1>3, <1>4, RepNode
<1>6. W[x] \in Word /\ Len(W[x]) \in Nat /\ Len(k) \in Nat
  BY <1>3, RepNode, WordIs
<1>7. Pre(W[n], k)
  BY <1>1, <1>2, <1>5, <1>6, PreTrans
<1>8. Len(W[n]) <= Len(W[x]) /\ Len(W[n]) < Len(k)
  BY <1>1, <1>2, <1>5, <1>6 DEF Pre
<1>9. w.i # Len(k)
  BY <1>4, <1>5, <1>6, <1>8
<1>10. CASE w.pos < t.len[n]
  <2>1. w.i < Len(k) /\ w.i + 1 \in 1 .. Len(W[n])
    <3>1. \A b, j, m, h \in Nat : j < m - b /\ m < h => b + j < h /\ (b + j) + 1 \in 1 .. m
      OBVIOUS
    <3>2. w.pos < Len(W[n]) - Base(t.up, W, n)
      BY <1>5, <1>10, Zenon
    <3>3. /\ Base(t.up, W, n) + w.pos < Len(k)
          /\ (Base(t.up, W, n) + w.pos) + 1 \in 1 .. Len(W[n])
      BY <1>4, <1>5, <1>6, <1>8, <3>1, <3>2, Zenon
    <3> QED
      BY <1>4, <3>3, Zenon
  <2>2. W[n][w.i + 1] = k[w.i + 1]
    BY <1>7, <2>1 DEF Pre
  <2> QED
    BY <1>4, <1>10, <2>1, <2>2
<1>11. CASE t.kids[n] = <<>>
  <2>1. n = x
    BY <1>1, <1>2, <1>4, <1>11, LeafEnds
  <2> QED
    BY <1>11, <2>1
<1> QED
  BY <1>4, <1>9, <1>10, <1>11

\* The search passes every node on its way that a held key goes on from.
LEMMA Deepest ==
    ASSUME NEW t, NEW W, NEW H, Sound(t, W, H), t.root # NULL, NEW k \in Word,
           NEW w, Arrived(t, W, k, w),
           NEW x \in InTree(t), t.kids[x] # <<>>, Pre(W[x], k), Len(W[x]) < Len(k)
    PROVE  w.p # NULL /\ Len(W[x]) <= Len(W[w.p])
<1>1. Rep(t, W) /\ Trie(InTree(t), t.root, t.up, W)
  BY DEF Sound, Rep, RepIn
<1>2. W[x] \in Word /\ Len(W[x]) \in Nat
  BY <1>1, RepNode
<1>3. w.p # NULL
  <2>1. SUFFICES ASSUME w.p = NULL PROVE FALSE
    OBVIOUS
  <2>2. w.t # NULL /\ w.t \in InTree(t) /\ t.up[w.t] = NULL
    BY <2>1 DEF Arrived
  <2>3. w.t = t.root
    BY <1>1, <2>2, RepNode
  <2>4. Pre(W[w.t], W[x])
    BY <1>1, <2>3, RootFirst
  <2> QED
    BY <2>2, <2>4, NotOver
<1>4. PICK p : p = w.p
  OBVIOUS
<1>5. p \in InTree(t) /\ Pre(W[p], k) /\ p # NULL
  BY <1>3, <1>4 DEF Arrived, Passed
<1>6. W[p] \in Word /\ Len(W[p]) \in Nat
  BY <1>1, <1>5, RepNode
<1>7. SUFFICES ASSUME Len(W[p]) < Len(W[x]) PROVE FALSE
  BY <1>2, <1>3, <1>4, <1>6
<1>8. Pre(W[p], W[x])
  BY <1>2, <1>5, <1>6, <1>7, PreBoth
<1>9. PICK c \in InTree(t) \ {t.root} : t.up[c] = p /\ Pre(W[c], W[x])
  <2>1. p # x
    BY <1>2, <1>7
  <2> QED
    BY <1>1, <1>5, <1>8, <2>1, OnTheWay
<1>10. c \in Node /\ W[c] \in Word /\ Len(W[c]) \in Nat /\ Len(W[p]) < Len(W[c]) /\ c \in Kids(t.up, p)
  BY <1>1, <1>5, <1>9, RepNode DEF Kids
<1>11. Pre(W[c], k)
  BY <1>2, <1>9, <1>10, PreTrans
<1>12. W[c][Len(W[p]) + 1] = k[Len(W[p]) + 1]
  <2>1. Len(W[p]) + 1 \in 1 .. Len(W[c])
    BY <1>6, <1>10
  <2> QED
    BY <1>11, <2>1 DEF Pre
<1>13. CASE w.t = NULL
  <2>1. NoBranch(t, W, k, p)
    BY <1>4, <1>13 DEF Arrived
  <2> QED
    BY <1>10, <1>12, <2>1 DEF NoBranch
<1>14. CASE w.t # NULL
  <2>1. PICK n : n = w.t
    OBVIOUS
  <2>2. /\ n \in InTree(t) /\ t.up[n] = p /\ w.pos \in Nat /\ w.pos > 0
        /\ w.i = Base(t.up, W, n) + w.pos
        /\ \A h \in 1 .. w.i : W[n][h] = k[h]
    BY <1>4, <1>5, <1>14, <2>1 DEF Arrived
  <2>3. Base(t.up, W, n) = Len(W[p]) /\ n # t.root
    BY <1>1, <1>5, <2>2, RepNode
  <2>4. W[n][Len(W[p]) + 1] = k[Len(W[p]) + 1]
    <3>1. Len(W[p]) + 1 \in 1 .. w.i
      BY <1>6, <2>2, <2>3
    <3> QED
      BY <2>2, <3>1
  <2>5. \A y, z \in InTree(t) \ {t.root} : y # z /\ t.up[y] = t.up[z] =>
           W[y][Len(W[t.up[y]]) + 1] # W[z][Len(W[t.up[y]]) + 1]
    BY <1>1 DEF Trie
  <2>6. n = c
    <3>1. n \in InTree(t) \ {t.root}
      BY <2>2, <2>3
    <3>2. n # c => W[n][Len(W[p]) + 1] # W[c][Len(W[p]) + 1]
      BY <1>9, <2>2, <2>5, <3>1
    <3> QED
      BY <1>12, <2>4, <3>2
  <2> QED
    BY <1>9, <1>14, <2>1, <2>6, NotOver
<1> QED
  BY <1>13, <1>14

\* The words below k, and no key itself, that begin k and some held key.
Inner(k) == {w \in Prefixes(k) \ {k, <<>>} :
               Extended(held, w) /\ (w \in held \/ Parts(held, w))}
IsInner(k, u) == /\ u \in Word /\ Pre(u, k) /\ Len(u) < Len(k) /\ u # <<>>
                 /\ \E y \in held : Pre(u, y) /\ Len(u) < Len(y)
                 /\ u \in held \/ Parts(held, u)

LEMMA InnerIs ==
    ASSUME NEW k \in Word, held \in SUBSET Key, NEW u
    PROVE  u \in Inner(k) <=> IsInner(k, u)
<1>1. u \in Prefixes(k) <=> u \in Word /\ Pre(u, k)
  BY PrefixIs
<1>2. ASSUME u \in Word, Pre(u, k) PROVE u # k <=> Len(u) < Len(k)
  <2>1. Len(u) \in Nat /\ Len(k) \in Nat /\ Len(u) <= Len(k)
    BY <1>2, WordIs DEF Pre
  <2>2. u # k => ~(Len(k) <= Len(u))
    BY <1>2, WordEqual
  <2>3. ~(Len(k) <= Len(u)) <=> Len(u) < Len(k)
    BY <2>1
  <2>4. Len(u) < Len(k) => u # k
    BY <2>1
  <2> QED
    BY <2>2, <2>3, <2>4
<1>3. ASSUME u \in Word PROVE Extended(held, u) <=> \E y \in held : Pre(u, y) /\ Len(u) < Len(y)
  <2>1. \A y \in held : y \in Word
    BY Nodes
  <2>2. \A y \in held : IsStrictPrefix(u, y) <=> Pre(u, y) /\ Len(u) < Len(y)
    BY <1>3, <2>1, StrictIs
  <2> QED
    BY <2>2 DEF Extended
<1>4. u \in Inner(k) <=> /\ u \in Prefixes(k) /\ u # k /\ u # <<>>
                         /\ Extended(held, u) /\ (u \in held \/ Parts(held, u))
  BY DEF Inner
<1> QED
  BY <1>1, <1>2, <1>3, <1>4 DEF IsInner

LEMMA InnerNode ==
    ASSUME NEW W, Sound(tree, W, held), NEW k \in Word, NEW u, IsInner(k, u)
    PROVE  \E x \in InTree(tree) : W[x] = u /\ tree.kids[x] # <<>>
<1>1. Rep(tree, W) /\ held = InTree(tree) \cap Key
  BY DEF Sound
<1>2. u \in Word
  BY DEF IsInner
<1>3. PICK x \in InTree(tree) : W[x] = u
  BY <1>2, NodeOf DEF IsInner
<1>4. PICK y \in held : Pre(u, y) /\ Len(u) < Len(y)
  BY DEF IsInner
<1>5. y \in InTree(tree) /\ W[y] = y /\ y \in Word
  BY <1>1, <1>4, KeyWord, Nodes
<1>6. x # y
  <2>1. Len(u) \in Nat /\ Len(y) \in Nat
    BY <1>2, <1>5, WordIs
  <2>2. u # y
    BY <1>4, <2>1
  <2> QED
    BY <1>3, <1>5, <2>2
<1>7. Pre(W[x], W[y])
  BY <1>3, <1>4, <1>5
<1>8. tree.kids[x] # <<>>
  BY <1>3, <1>5, <1>6, <1>7, LeafEnds
<1> QED
  BY <1>3, <1>8

LEMMA NodeInner ==
    ASSUME NEW W, Sound(tree, W, held), NEW k \in Word, NEW x \in InTree(tree), tree.kids[x] # <<>>,
           Pre(W[x], k), Len(W[x]) < Len(k), W[x] # <<>>
    PROVE  IsInner(k, W[x])
<1>1. Rep(tree, W) /\ held = InTree(tree) \cap Key
  BY DEF Sound
<1>2. W[x] \in Word
  BY <1>1, RepNode
<1>3. \E y \in held : Pre(W[x], y) /\ Len(W[x]) < Len(y)
  BY GoesOn
<1>4. W[x] \in held \/ Parts(held, W[x])
  <2>1. CASE x \in Key
    BY <1>1, <2>1, KeyWord
  <2>2. CASE x \notin Key
    BY <2>2, SplitParts
  <2> QED
    BY <2>1, <2>2
<1> QED
  BY <1>2, <1>3, <1>4 DEF IsInner

\* Of words that all begin one word there is one longest.
LEMMA BestIs ==
    ASSUME NEW k \in Word, NEW S, NEW v \in S,
           \A u \in S : u \in Word /\ Pre(u, k) /\ Len(u) <= Len(v)
    PROVE  Best(S) = v
<1>1. S # {}
  OBVIOUS
<1>2. \A u \in S : (\A z \in S : Len(z) <= Len(u)) => u = v
  <2>1. TAKE u \in S
  <2>2. HAVE \A z \in S : Len(z) <= Len(u)
  <2>3. Len(v) <= Len(u) /\ Len(u) <= Len(v) /\ u \in Word /\ v \in Word /\ Pre(u, k) /\ Pre(v, k)
    BY <2>2
  <2>4. Pre(u, v)
    BY <2>3, PreBoth
  <2> QED
    BY <2>3, <2>4, WordEqual
<1>3. LongestOf(S) = v
  <2>1. \E u \in S : \A z \in S : Len(z) <= Len(u)
    OBVIOUS
  <2> QED
    BY <1>2, <2>1, Zenon DEF LongestOf
<1> QED
  BY <1>1, <1>3 DEF Best

\* The search for a word that ends at no node.
LEMMA NoneIs ==
    ASSUME NEW W, Sound(tree, W, held), tree.root # NULL, NEW k \in Word,
           NEW w, Arrived(tree, W, k, w)
    PROVE  /\ Answer(w.v) = Best(Inner(k) \cap held)
           /\ Answer(IF w.p # NULL /\ tree.at[w.p] = NoString THEN NULL ELSE w.p) = Best(Inner(k))
<1>1. PICK p, v : p = w.p /\ v = w.v
  OBVIOUS
<1>2. Rep(tree, W) /\ held = InTree(tree) \cap Key /\ held \in SUBSET Key
  BY DEF Sound
<1>3. PICK S : S = Inner(k)
  OBVIOUS
<1>4. \A u : u \in S <=> IsInner(k, u)
  BY <1>2, <1>3, InnerIs
<1>5. \A u \in S : /\ u \in Word /\ Pre(u, k) /\ u # <<>> /\ Len(u) \in Nat
                   /\ p # NULL /\ Len(u) <= Len(W[p])
  <2>1. TAKE u \in S
  <2>2. IsInner(k, u)
    BY <1>4
  <2>3. u \in Word /\ Pre(u, k) /\ u # <<>> /\ Len(u) < Len(k)
    BY <2>2 DEF IsInner
  <2>4. PICK x \in InTree(tree) : W[x] = u /\ tree.kids[x] # <<>>
    BY <2>2, InnerNode
  <2>5. w.p # NULL /\ Len(W[x]) <= Len(W[w.p])
    BY <2>3, <2>4, Deepest
  <2> QED
    BY <1>1, <2>3, <2>4, <2>5, WordIs
<1>6. LastKey(tree, W, k, p, v) /\ (p # NULL => Passed(tree, W, k, p))
  BY <1>1 DEF Arrived
<1>7. Answer(v) = Best(S \cap held)
  <2>1. CASE v = NULL
    <3>1. SUFFICES ASSUME NEW u \in S, u \in held PROVE FALSE
      BY <2>1 DEF Answer, Best
    <3>2. u \in InTree(tree) /\ u \in Key /\ W[u] = u
      BY <1>2, <3>1, KeyWord
    <3> QED
      BY <1>5, <1>6, <2>1, <3>1, <3>2 DEF LastKey
  <2>2. CASE v # NULL
    <3>1. v \in InTree(tree) /\ v \in Key /\ Pre(W[v], k) /\ p # NULL /\ Len(W[v]) <= Len(W[p])
      BY <1>6, <2>2 DEF LastKey
    <3>2. W[v] = v /\ v \in held /\ v \in Word /\ Len(v) \in Nat /\ v # <<>>
      BY <1>2, <3>1, KeyWord, Nodes
    <3>3. /\ p \in InTree(tree) /\ Pre(W[p], k) /\ Len(W[p]) < Len(k) /\ tree.kids[p] # <<>>
          /\ W[p] \in Word /\ Len(W[p]) \in Nat
      BY <1>2, <1>6, <3>1, RepNode DEF Passed
    <3>4. tree.kids[v] # <<>>
      <4>1. CASE v = p
        BY <3>3, <4>1
      <4>2. CASE v # p
        <5>1. Pre(W[v], W[p])
          BY <3>1, <3>2, <3>3, PreBoth
        <5> QED
          BY <3>1, <3>3, <4>2, <5>1, LeafEnds
      <4> QED
        BY <4>1, <4>2
    <3>5. Len(W[v]) < Len(k)
      <4>1. Len(k) \in Nat /\ Len(W[v]) \in Nat
        BY <3>2, WordIs
      <4> QED
        BY <3>1, <3>3, <4>1
    <3>6. v \in S
      <4>1. IsInner(k, W[v])
        BY <3>1, <3>2, <3>4, <3>5, NodeInner
      <4> QED
        BY <1>4, <3>2, <4>1
    <3>7. \A u \in S \cap held : Len(u) <= Len(v)
      <4>1. TAKE u \in S \cap held
      <4>2. u \in InTree(tree) /\ u \in Key /\ W[u] = u
        BY <1>2, KeyWord
      <4> QED
        BY <1>5, <1>6, <3>2, <4>2 DEF LastKey
    <3>8. Best(S \cap held) = v
      <4>1. v \in S \cap held /\ \A u \in S \cap held : u \in Word /\ Pre(u, k) /\ Len(u) <= Len(v)
        BY <1>5, <3>2, <3>6, <3>7
      <4> QED
        BY <4>1, BestIs
    <3>9. Spelled(v) = W[v]
      BY <1>2, <3>1, SpelledIs
    <3> QED
      BY <2>2, <3>2, <3>8, <3>9 DEF Answer
  <2> QED
    BY <2>1, <2>2
<1>8. Answer(IF p # NULL /\ tree.at[p] = NoString THEN NULL ELSE p) = Best(S)
  <2>1. CASE p = NULL
    <3>1. S = {}
      BY <1>5, <2>1
    <3> QED
      BY <2>1, <3>1 DEF Answer, Best
  <2>2. CASE p # NULL /\ tree.at[p] = NoString
    <3>1. p \in InTree(tree)
      BY <1>6, <2>2 DEF Passed
    <3>2. W[p] = <<>>
      BY <1>2, <2>2, <3>1, SpelledIs
    <3>3. S = {}
      <4>1. SUFFICES ASSUME NEW u \in S PROVE FALSE
        OBVIOUS
      <4>2. Len(u) <= 0 /\ Len(u) \in Nat /\ u \in Word /\ u # <<>>
        BY <1>5, <3>2
      <4> QED
        BY <4>2, WordIs
    <3> QED
      BY <2>2, <3>3 DEF Answer, Best
  <2>3. CASE p # NULL /\ tree.at[p] # NoString
    <3>1. p \in InTree(tree) /\ Pre(W[p], k) /\ Len(W[p]) < Len(k) /\ tree.kids[p] # <<>>
      BY <1>6, <2>3 DEF Passed
    <3>2. W[p] # <<>> /\ Spelled(p) = W[p]
      BY <1>2, <2>3, <3>1, SpelledIs
    <3>3. W[p] \in S
      BY <1>4, <3>1, <3>2, NodeInner
    <3>4. Best(S) = W[p]
      BY <1>5, <3>3, BestIs
    <3> QED
      BY <2>3, <3>2, <3>4 DEF Answer
  <2> QED
    BY <2>1, <2>2, <2>3
<1> QED
  BY <1>1, <1>3, <1>7, <1>8

LEMMA QueryIs ==
    ASSUME NEW k \in Queries
    PROVE  k \in Word
<1>1. PICK y \in Key : \E w \in Prefixes(y) : \E l \in 1 .. 3 : k = Append(w, l)
  BY DEF Queries
<1>2. PICK w \in Prefixes(y) : \E l \in 1 .. 3 : k = Append(w, l)
  BY <1>1
<1>3. y \in Word
  BY Nodes
<1>4. w \in Word
  BY <1>3, PrefixIs
<1> QED
  BY <1>2, <1>4 DEF Word

\* rt_search of a word finds its node; there is one exactly where the word is a
\* held key or held keys part at its end.
LEMMA ExactIs ==
    ASSUME NEW W, Sound(tree, W, held), tree.root # NULL, NEW k \in Word,
           NEW w, Arrived(tree, W, k, w)
    PROVE  /\ Hit(tree, k, w) <=> k \in held \/ Parts(held, k)
           /\ Hit(tree, k, w) => w.t # NULL /\ Answer(w.t) = k
           /\ Hit(tree, k, w) => (w.t \in held <=> k \in held)
<1>1. Rep(tree, W) /\ held = InTree(tree) \cap Key
  BY DEF Sound
<1>2. CASE Hit(tree, k, w)
  <2>1. w.t \in InTree(tree) /\ W[w.t] = k
    BY <1>1, <1>2, HitIs
  <2>2. k \in held \/ Parts(held, k)
    <3>1. CASE w.t \in Key
      BY <1>1, <2>1, <3>1, KeyWord
    <3>2. CASE w.t \notin Key
      BY <2>1, <3>2, SplitParts
    <3> QED
      BY <3>1, <3>2
  <2>3. w.t # NULL
    BY <1>2 DEF Hit
  <2>4. Answer(w.t) = k
    BY <1>1, <2>1, <2>3, SpelledIs DEF Answer
  <2>5. w.t \in held => w.t = k
    BY <1>1, <2>1, KeyWord
  <2>6. ASSUME k \in held PROVE w.t = k
    <3>1. k \in InTree(tree) /\ W[k] = k
      BY <2>6, NodeOf
    <3> QED
      BY <1>1, <2>1, <3>1, OneNode
  <2> QED
    BY <1>2, <2>2, <2>3, <2>4, <2>5, <2>6
<1>3. CASE ~Hit(tree, k, w)
  <2>1. \A x \in InTree(tree) : W[x] # k
    BY <1>1, <1>3, HitIs
  <2>2. ~(k \in held \/ Parts(held, k))
    BY <2>1, NodeOf
  <2> QED
    BY <1>3, <2>2
<1> QED
  BY <1>2, <1>3

LEMMA NoneHeld ==
    ASSUME held = {}, NEW k \in Word
    PROVE  ~(k \in held \/ Parts(held, k)) /\ Inner(k) = {}
  BY DEF Parts, Inner, Extended

\* What the three searches find, exactly.
There(k) == k \in held \/ Parts(held, k)
Finds(found, k) ==
    /\ Answer(found.exact) = IF There(k) THEN k ELSE <<>>
    /\ found.exact \in held <=> k \in held
    /\ Answer(found.longest) = IF There(k) THEN k ELSE Best(Inner(k) \cap held)
    /\ found.longest \in held \cup {NULL} \/ (k \notin held /\ Parts(held, k))
    /\ Answer(found.longest_ex) = IF There(k) THEN k ELSE Best(Inner(k))

LEMMA FindsWhat ==
    ASSUME NEW W, Sound(tree, W, held), NEW k \in Word, NEW found, found = Search(tree, k)
    PROVE  Finds(found, k)
<1>1. NULL \notin held /\ held = InTree(tree) \cap Key
  BY SplitsAreNoKeys DEF Sound
<1>4. Answer(NULL) = <<>> /\ Best({}) = <<>>
  BY DEF Answer, Best
<1>5. CASE tree.root = NULL
  <2>1. held = {}
    BY <1>5, EmptyIs
  <2>2. found = [exact |-> NULL, longest |-> NULL, longest_ex |-> NULL]
    BY <1>5 DEF Search
  <2>3. ~(k \in held \/ Parts(held, k)) /\ Inner(k) = {}
    BY <2>1, NoneHeld
  <2>4. Inner(k) \cap held = {}
    BY <2>3
  <2>5. found.exact = NULL /\ found.longest = NULL /\ found.longest_ex = NULL
    BY <2>2
  <2> QED
    BY <1>1, <1>4, <2>3, <2>4, <2>5 DEF Finds, There
<1>6. CASE tree.root # NULL
  <2>1. PICK w : w = Walk(tree, k)
    OBVIOUS
  <2>2. Arrived(tree, W, k, w)
    BY <1>6, <2>1, ArrivedIs DEF Sound
  <2>3. PICK e : e = IF Hit(tree, k, w) THEN w.t ELSE NULL
    OBVIOUS
  <2>4. PICK x : x = IF w.p # NULL /\ tree.at[w.p] = NoString THEN NULL ELSE w.p
    OBVIOUS
  <2>5. found = [exact |-> e,
                 longest |-> IF e # NULL THEN e ELSE w.v,
                 longest_ex |-> IF e # NULL THEN e ELSE x]
    BY <1>6, <2>1, <2>3, <2>4 DEF Search
  <2>6. /\ found.exact = e
        /\ found.longest = IF e # NULL THEN e ELSE w.v
        /\ found.longest_ex = IF e # NULL THEN e ELSE x
    BY <2>5
  <2>7. /\ Hit(tree, k, w) <=> k \in held \/ Parts(held, k)
        /\ Hit(tree, k, w) => w.t # NULL /\ Answer(w.t) = k
        /\ Hit(tree, k, w) => (w.t \in held <=> k \in held)
    BY <1>6, <2>2, ExactIs
  <2>8. CASE Hit(tree, k, w)
    <3>1. e = w.t /\ e # NULL /\ Answer(e) = k /\ (k \in held \/ Parts(held, k))
      BY <2>3, <2>7, <2>8
    <3>2. Answer(found.exact) = k /\ Answer(found.longest) = k /\ Answer(found.longest_ex) = k
      BY <2>6, <3>1
    <3>3. found.exact \in held <=> k \in held
      BY <2>6, <2>7, <2>8, <3>1
    <3>4. found.longest = found.exact
      BY <2>6, <3>1
    <3> QED
      BY <3>1, <3>2, <3>3, <3>4 DEF Finds, There
  <2>9. CASE ~Hit(tree, k, w)
    <3>1. e = NULL /\ ~(k \in held \/ Parts(held, k))
      BY <2>3, <2>7, <2>9
    <3>2. /\ Answer(w.v) = Best(Inner(k) \cap held)
          /\ Answer(x) = Best(Inner(k))
      <4>1. /\ Answer(w.v) = Best(Inner(k) \cap held)
            /\ Answer(IF w.p # NULL /\ tree.at[w.p] = NoString THEN NULL ELSE w.p) = Best(Inner(k))
        BY <1>6, <2>2, NoneIs
      <4> QED
        BY <2>4, <4>1
    <3>3. /\ Answer(found.exact) = <<>> /\ Answer(found.longest) = Best(Inner(k) \cap held)
          /\ Answer(found.longest_ex) = Best(Inner(k))
      BY <1>4, <2>6, <3>1, <3>2
    <3>4. found.exact = NULL /\ found.longest = w.v
      BY <2>6, <3>1
    <3>5. w.v \in held \cup {NULL}
      BY <1>1, <2>2 DEF Arrived, LastKey
    <3> QED
      BY <1>1, <3>1, <3>3, <3>4, <3>5 DEF Finds, There
  <2> QED
    BY <2>8, <2>9
<1> QED
  BY <1>5, <1>6

\* The longest held key that begins a word is one of the words below it, unless
\* it is the word itself or a leaf; so is the longest word at which held keys part.
Short(K, k) == Prefixes(k) \cap K
Leaf(k) == Best(Short(held, k)) \notin {<<>>, k} /\ ~Extended(held, Best(Short(held, k)))

LEMMA BestShort ==
    ASSUME NEW k \in Word, NEW K, Short(K, k) # {}
    PROVE  /\ Best(Short(K, k)) \in Short(K, k)
           /\ \A u \in Short(K, k) : /\ u \in Word /\ Pre(u, k)
                                     /\ Len(u) <= Len(Best(Short(K, k)))
<1> DEFINE f == [u \in Short(K, k) |-> Len(k) - Len(u)]
<1>1. \A u \in Short(K, k) : u \in Word /\ Pre(u, k) /\ Len(u) \in Nat /\ Len(u) <= Len(k)
  BY PrefixIs, WordIs DEF Short, Pre
<1>2. Len(k) \in Nat
  BY WordIs
<1>3. PICK v \in Short(K, k) : \A u \in Short(K, k) : f[v] <= f[u]
  <2>1. \A u \in Short(K, k) : f[u] \in Nat
    BY <1>1, <1>2
  <2> HIDE DEF f
  <2> QED
    BY <2>1, Lowest
<1>4. \A u \in Short(K, k) : Len(u) <= Len(v)
  <2> TAKE u \in Short(K, k)
  <2>1. Len(k) - Len(v) <= Len(k) - Len(u)
    BY <1>3
  <2> QED
    BY <1>1, <1>2, <2>1
<1>5. Best(Short(K, k)) = v
  BY <1>1, <1>4, BestIs
<1> QED
  BY <1>1, <1>4, <1>5

\* The words of the tree are the held keys and the words at which they part.
LEMMA WordOf ==
    ASSUME held \in SUBSET Key, NEW u \in Word
    PROVE  u \in Tree(held) <=> u \in held \/ Parts(held, u)
<1>1. ASSUME Parts(held, u) PROVE \E y \in held : u \in Prefixes(y)
  <2>1. PICK y \in held : IsStrictPrefix(u, y)
    BY <1>1 DEF Parts
  <2>2. y \in Word
    BY Nodes
  <2> QED
    BY <2>1, <2>2, StrictIs, PrefixIs
<1> QED
  BY <1>1 DEF Tree

LEMMA LongestHeld ==
    ASSUME held \in SUBSET Key, NEW k \in Word, ~There(k), ~Leaf(k)
    PROVE  Best(Inner(k) \cap held) = Best(Short(held, k))
<1>1. PICK S, I : S = Short(held, k) /\ I = Inner(k) \cap held
  OBVIOUS
<1>2. I \subseteq S
  BY <1>1 DEF Inner, Short
<1>3. CASE S = {}
  BY <1>1, <1>2, <1>3
<1>4. CASE S # {}
  <2>1. PICK b : b = Best(S)
    OBVIOUS
  <2>2. b \in S /\ \A u \in S : u \in Word /\ Pre(u, k) /\ Len(u) <= Len(b)
    BY <1>1, <1>4, <2>1, BestShort
  <2>3. b \in held /\ b \in Prefixes(k) /\ b # <<>> /\ b # k
    BY <1>1, <2>2, Nodes DEF Short, There
  <2>4. Extended(held, b)
    BY <1>1, <2>1, <2>3 DEF Leaf
  <2>5. b \in I
    BY <1>1, <2>3, <2>4 DEF Inner
  <2>6. \A u \in I : u \in Word /\ Pre(u, k) /\ Len(u) <= Len(b)
    BY <1>2, <2>2
  <2>7. Best(I) = b
    BY <2>5, <2>6, BestIs
  <2> QED
    BY <1>1, <2>1, <2>7
<1> QED
  BY <1>3, <1>4

LEMMA LongestWord ==
    ASSUME held \in SUBSET Key, NEW k \in Word, ~There(k), ~Leaf(k)
    PROVE  Best(Inner(k)) = Best(Short(Tree(held), k))
<1>1. PICK S, I : S = Short(Tree(held), k) /\ I = Inner(k)
  OBVIOUS
<1>2. \A u \in Prefixes(k) : u \in Word
  BY PrefixIs
<1>3. \A u \in S : /\ u \in Prefixes(k) /\ u \in Word
                   /\ u \in held \/ Parts(held, u)
  BY <1>1, <1>2, WordOf DEF Short
<1>4. I \subseteq S
  BY <1>1, <1>2, WordOf DEF Inner, Short
<1>5. \A u \in I : u # <<>>
  BY <1>1 DEF Inner
<1>6. CASE S = {}
  BY <1>1, <1>4, <1>6
<1>7. CASE S # {}
  <2>1. PICK b : b = Best(S)
    OBVIOUS
  <2>2. b \in S /\ \A u \in S : u \in Word /\ Pre(u, k) /\ Len(u) <= Len(b)
    BY <1>1, <1>7, <2>1, BestShort
  <2>3. CASE b = <<>>
    <3>1. \A u \in S : Len(u) \in Nat /\ Len(u) <= 0
      BY <2>2, <2>3, WordIs
    <3>2. \A u \in S : u = <<>>
      BY <2>2, <3>1, WordIs
    <3>3. I = {}
      BY <1>4, <1>5, <3>2
    <3>4. Best(I) = <<>>
      BY <3>3 DEF Best
    <3> QED
      BY <1>1, <2>1, <2>3, <3>4
  <2>4. CASE b # <<>>
    <3>1. b # k
      BY <1>3, <2>2 DEF There
    <3>2. Extended(held, b)
      <4>1. CASE b \in held
        <5>1. b \in Short(held, k)
          BY <1>3, <2>2, <4>1 DEF Short
        <5>2. \A u \in Short(held, k) : u \in Word /\ Pre(u, k) /\ Len(u) <= Len(b)
          BY <1>1, <1>2, <2>2, WordOf DEF Short
        <5>3. Best(Short(held, k)) = b
          BY <5>1, <5>2, BestIs
        <5> QED
          BY <2>4, <3>1, <5>3 DEF Leaf
      <4>2. CASE Parts(held, b)
        BY <4>2 DEF Parts, Extended
      <4> QED
        BY <1>3, <2>2, <4>1, <4>2
    <3>3. b \in I
      BY <1>1, <1>3, <2>2, <2>4, <3>1, <3>2 DEF Inner
    <3>4. Best(I) = b
      BY <1>4, <2>2, <3>3, BestIs
    <3> QED
      BY <1>1, <2>1, <3>4
  <2> QED
    BY <2>3, <2>4
<1> QED
  BY <1>6, <1>7

\* What a search finds when it finds nothing at the key itself begins the key.
LEMMA BestBegins ==
    ASSUME NEW k \in Word, NEW S, S \subseteq Inner(k)
    PROVE  Best(S) \in Prefixes(k)
<1>1. \A u \in S : u \in Prefixes(k)
  BY DEF Inner
<1>2. Short(S, k) = S
  BY <1>1 DEF Short
<1>3. CASE S = {}
  <2>1. Best(S) = <<>>
    BY <1>3 DEF Best
  <2>2. <<>> \in Word /\ Pre(<<>>, k)
    BY WordIs DEF Word, Pre
  <2> QED
    BY <2>1, <2>2, PrefixIs
<1>4. CASE S # {}
  BY <1>1, <1>2, <1>4, BestShort
<1> QED
  BY <1>3, <1>4

\* A key's own word is the longest that begins it.
LEMMA BestOwn ==
    ASSUME NEW k \in Word, NEW K, k \in K
    PROVE  Best(Short(K, k)) = k
<1>1. Len(k) \in Nat /\ Pre(k, k)
  BY WordIs DEF Pre
<1>2. k \in Short(K, k)
  BY <1>1, PrefixIs DEF Short
<1>3. \A u \in Short(K, k) : u \in Word /\ Pre(u, k) /\ Len(u) <= Len(k)
  BY PrefixIs DEF Short, Pre
<1> QED
  BY <1>2, <1>3, BestIs

LEMMA SearchesIs ==
    ASSUME NEW W, Sound(tree, W, held)
    PROVE  SearchesAnswer
<1> DEFINE Right(k, found, words, longest) ==
             /\ found.exact \in held <=> k \in held
             /\ Answer(found.exact) = IF k \in words THEN k ELSE <<>>
             /\ k \in words \ held \/ found.longest \in held \cup {NULL}
             /\ IF \/ k \in words \ held
                   \/ longest \notin {<<>>, k} /\ ~Extended(held, longest)
                THEN {Answer(found.longest), Answer(found.longest_ex)} \subseteq Prefixes(k)
                ELSE /\ Answer(found.longest) = longest
                     /\ Answer(found.longest_ex) = Longest(words, k)
<1>1. SUFFICES ASSUME NEW k \in Queries
               PROVE  Right(k, Search(tree, k), Tree(held), Longest(held, k))
  BY Zenon DEF SearchesAnswer
<1>2. k \in Word /\ held \in SUBSET Key
  BY QueryIs DEF Sound
<1>3. PICK found : found = Search(tree, k)
  OBVIOUS
<1>4. PICK words : words = Tree(held)
  OBVIOUS
<1>5. PICK longest : longest = Longest(held, k)
  OBVIOUS
<1>6. Finds(found, k)
  BY <1>2, <1>3, FindsWhat
<1>7. /\ k \in words <=> There(k)
      /\ held \subseteq words
  BY <1>2, <1>4, WordOf DEF There, Tree
<1>8. /\ longest = Best(Short(held, k))
      /\ Longest(words, k) = Best(Short(words, k))
  BY <1>5 DEF Longest, Short
<1>9. Leaf(k) <=> longest \notin {<<>>, k} /\ ~Extended(held, longest)
  BY <1>8 DEF Leaf
<1>10. CASE k \in held
  <2>1. longest = k /\ Longest(words, k) = k
    BY <1>2, <1>7, <1>8, <1>10, BestOwn
  <2> QED
    BY <1>3, <1>4, <1>5, <1>6, <1>7, <1>10, <2>1 DEF Finds
<1>11. CASE k \notin held /\ There(k)
  <2>1. k \in Prefixes(k)
    BY <1>2, WordIs, PrefixIs DEF Pre
  <2> QED
    BY <1>3, <1>4, <1>5, <1>6, <1>7, <1>11, <2>1 DEF Finds
<1>12. CASE ~There(k)
  <2>1. k \notin words /\ k \notin held
    BY <1>7, <1>12
  <2>2. /\ Answer(found.longest) = Best(Inner(k) \cap held)
        /\ Answer(found.longest_ex) = Best(Inner(k))
        /\ Answer(found.exact) = <<>> /\ (found.exact \in held <=> k \in held)
        /\ found.longest \in held \cup {NULL}
    BY <1>6, <1>12 DEF Finds, There
  <2>3. {Answer(found.longest), Answer(found.longest_ex)} \subseteq Prefixes(k)
    BY <1>2, <2>2, BestBegins
  <2>4. ~Leaf(k) => /\ Answer(found.longest) = longest
                    /\ Answer(found.longest_ex) = Longest(words, k)
    BY <1>2, <1>4, <1>8, <1>12, <2>2, LongestHeld, LongestWord
  <2> QED
    BY <1>3, <1>4, <1>5, <1>9, <2>1, <2>2, <2>3, <2>4
<1> QED
  BY <1>10, <1>11, <1>12

\* What the pools lend is held by the client, in the tree or spare.
LEMMA AccountedIs ==
    ASSUME Idle
    PROVE  Accounted
<1>1. PICK P, S, B : P = InTree(tree) /\ S = Spares(dummy, extra) /\ B = P \cup S
  OBVIOUS
<1>2. PICK W : Sound(tree, W, held)
  BY DEF Idle, Out, Becomes
<1>3. held = P \cap Key /\ Counted(pool, B) /\ SparesFit(P, dummy, extra) /\ B \in SUBSET Node
  BY <1>1, <1>2, OutNodes DEF Idle, Out, Sound
<1>4. S \in SUBSET Split /\ S \cap P = {}
  BY <1>1, <1>3 DEF SparesFit, Spares
<1>5. B \cap Key = held
  BY <1>1, <1>3, <1>4, Nodes
<1>6. B \cap Split = (P \cap Split) \cup S
  BY <1>1, <1>4
<1>7. IsFiniteSet(P \cap Split) /\ IsFiniteSet(S) /\ IsFiniteSet((P \cap Split) \cap S)
  <2>1. (P \cap Split) \in SUBSET Node /\ S \in SUBSET Node /\ (P \cap Split) \cap S \in SUBSET Node
    BY <1>1, <1>3
  <2> QED
    BY <2>1, Nodes, FS_Subset
<1>8. Cardinality((P \cap Split) \cup S) = Cardinality(P \cap Split) + Cardinality(S)
  <2>1. (P \cap Split) \cap S = {}
    BY <1>4
  <2>2. Cardinality((P \cap Split) \cup S)
          = Cardinality(P \cap Split) + Cardinality(S) - Cardinality((P \cap Split) \cap S)
    BY <1>7, FS_Union
  <2>3. Cardinality((P \cap Split) \cap S) = 0
    BY <2>1, FS_EmptySet
  <2>4. Cardinality(P \cap Split) \in Nat /\ Cardinality(S) \in Nat
    BY <1>7, FS_CardinalityType
  <2> QED
    BY <2>2, <2>3, <2>4
<1>9. /\ pool.valid.heap = pool.valid.nr_blocks + Cardinality(held)
      /\ pool.invalid.heap = pool.invalid.nr_blocks + (Cardinality(P \cap Split) + Cardinality(S))
      /\ pool.invalid.nr_blocks \in Nat
  BY <1>3, <1>5, <1>6, <1>8 DEF Counted, Lends
<1>10. Cardinality(P \cap Split) \in Nat /\ Cardinality(S) \in Nat
  BY <1>7, FS_CardinalityType
<1>11. \A n, a, b \in Nat : n + (a + b) = n + a + b
  OBVIOUS
<1>12. pool.invalid.heap = pool.invalid.nr_blocks + Cardinality(P \cap Split) + Cardinality(S)
  BY <1>9, <1>10, <1>11
<1> QED
  BY <1>1, <1>9, <1>12 DEF Accounted, Spares

(***************************************************************************)
(* The results.                                                            *)
(***************************************************************************)
\* Every call keeps the inductive invariant: between two calls the fields of
\* the nodes represent a tree of the held keys' words, and the pools lend what is
\* in use; within rt_free_all, the queue will reach every node not freed yet.
THEOREM Invariance == Spec => []IInv
<1>1. Init => IInv
  BY InitIdle
<1>2. IInv /\ [Next]_vars => IInv'
  BY StepKeeps
<1> QED
  BY <1>1, <1>2, PTL DEF Spec

\* After any calls of rt_insert_node, rt_remove and rt_free_all, the pieces that
\* the nodes point to spell the held keys, on whatever strings the split nodes
\* borrow.
THEOREM KeysSpelled == Spec => []SpellsKeys
<1>1. IInv => SpellsKeys
  <2>1. ASSUME IInv, pc = "out" PROVE SpellsKeys
    <3>1. PICK W : Sound(tree, W, held)
      BY <2>1 DEF IInv, Idle, Out, Becomes
    <3> QED
      BY <3>1, SpellsIs
  <2>2. pc # "out" => SpellsKeys
    BY DEF SpellsKeys
  <2> QED
    BY <2>1, <2>2
<1> QED
  BY <1>1, Invariance, PTL

\* rt_search in each of its three modes finds what M_radix_tree.h promises but
\* for the two cases that SearchesAnswer names.
THEOREM SearchesRight == Spec => []SearchesAnswer
<1>1. IInv => SearchesAnswer
  <2>1. ASSUME IInv, pc = "out" PROVE SearchesAnswer
    <3>1. PICK W : Sound(tree, W, held)
      BY <2>1 DEF IInv, Idle, Out, Becomes
    <3> QED
      BY <3>1, SearchesIs
  <2>2. pc # "out" => SearchesAnswer
    BY DEF SearchesAnswer
  <2> QED
    BY <2>1, <2>2
<1> QED
  BY <1>1, Invariance, PTL

\* No block is lost and none is freed twice by rt_free, rt_process_arg,
\* rt_free_arg and rt_free_all.
THEOREM BlocksAccounted == Spec => []Accounted
<1>1. IInv => Accounted
  <2>1. ASSUME IInv, pc = "out" PROVE Accounted
    BY <2>1, AccountedIs DEF IInv
  <2>2. pc # "out" => Accounted
    BY DEF Accounted
  <2> QED
    BY <2>1, <2>2
<1> QED
  BY <1>1, Invariance, PTL
=============================================================================
