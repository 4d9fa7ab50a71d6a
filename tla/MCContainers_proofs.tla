------------------------- MODULE MCContainers_proofs -------------------------
(***************************************************************************)
(* The hash table and its iterator, for every table, every set of nodes,   *)
(* all keys and all bucket sizes; then the walks through the trees: the    *)
(* searches, successor and predecessor find what the order of the keys     *)
(* says (Navigates), and bst_travel and bst_free_all come to every node    *)
(* once (EachOnce), on what RBTree_proofs says of shape and order.         *)
(***************************************************************************)
EXTENDS MCContainers, RBTree_proofs, SequenceTheorems

LEMMA Least ==
    ASSUME NEW T \in SUBSET Nat, T # {}
    PROVE  \E a \in T : \A b \in T : a <= b
<1> DEFINE R == OpToRel(<, Nat)
<1>1. \A a, b \in Nat : a < b => <<a, b>> \in R
  BY DEF OpToRel
<1>2. \E a \in T : \A b \in T : ~(<<b, a>> \in R)
  <2>1. IsWellFoundedOn(R, Nat)
    BY NatLessThanWellFounded
  <2> HIDE DEF R
  <2> QED
    BY <2>1, WFMin
<1> HIDE DEF R
<1>3. PICK a \in T : \A b \in T : ~(<<b, a>> \in R)
  BY <1>2, Zenon
<1>4. \A b \in T : ~(b < a)
  BY <1>1, <1>3, Zenon
<1> QED
  BY <1>4

\* Where the second element of a sequence is when one is put before it.
LEMMA SecondBehindOne ==
    ASSUME NEW S, NEW s \in Seq(S), Len(s) = 1, NEW r \in Seq(S), Len(r) = 2
    PROVE  (s \o r)[3] = r[2]
<1>1. 3 \in 1 .. Len(s) + Len(r) /\ ~(3 <= Len(s)) /\ 3 - Len(s) = 2
  OBVIOUS
<1>2. (s \o r)[3] = IF 3 <= Len(s) THEN s[3] ELSE r[3 - Len(s)]
  BY <1>1, ConcatProperties, Zenon
<1> QED
  BY <1>1, <1>2, Zenon

\* The least and the greatest of a set of integers with a bound.
LEMMA MinOf ==
    ASSUME NEW S \in SUBSET Int, S # {}, NEW lo \in Int, \A a \in S : lo <= a
    PROVE  Hash!Min(S) \in S /\ \A a \in S : Hash!Min(S) <= a
<1> DEFINE T == {k \in Nat : lo + k \in S}
<1>1. \A a \in S : a - lo \in T
  OBVIOUS
<1>2. PICK b \in T : \A e \in T : b <= e
  BY <1>1, Least, T \in SUBSET Nat, T # {}
<1>3. PICK a \in S : a = lo + b
  OBVIOUS
<1>4. \A e \in S : a <= e
  BY <1>1, <1>2, <1>3
<1> HIDE DEF T
<1> QED
  BY <1>4 DEF Hash!Min

LEMMA MaxOf ==
    ASSUME NEW S \in SUBSET Int, S # {}, NEW hi \in Int, \A a \in S : a <= hi
    PROVE  Hash!Max(S) \in S /\ \A a \in S : a <= Hash!Max(S)
<1> DEFINE T == {k \in Nat : hi - k \in S}
<1>1. \A a \in S : hi - a \in T
  OBVIOUS
<1>2. PICK b \in T : \A e \in T : b <= e
  BY <1>1, Least, T \in SUBSET Nat, T # {}
<1>3. PICK a \in S : a = hi - b
  OBVIOUS
<1>4. \A e \in S : a >= e
  BY <1>1, <1>2, <1>3
<1>5. Hash!Max(S) \in S /\ \A e \in S : Hash!Max(S) >= e
  <2> HIDE DEF T
  <2> QED
    BY <1>4 DEF Hash!Max
<1> QED
  BY <1>5
-----------------------------------------------------------------------------
LEMMA SlotOf ==
    /\ \A n \in HashNode : Hash!Slot(HashKey[n]) \in Hash!Slots
    /\ \A i \in Hash!Slots : Hash!Slot(i) = i
BY HashParameters DEF Hash!Slot, Hash!Slots

LEMMA WithElements ==
    ASSUME NEW S, NEW s \in Seq(S), NEW i \in 0 .. Len(s), NEW n \in S
    PROVE  /\ Hash!With(s, i, n) \in Seq(S)
           /\ Len(Hash!With(s, i, n)) = Len(s) + 1
           /\ \A j \in 1 .. Len(s) + 1 :
                 Hash!With(s, i, n)[j] = IF j <= i THEN s[j] ELSE IF j = i + 1 THEN n ELSE s[j - 1]
<1> DEFINE a == SubSeq(s, 1, i)
           b == SubSeq(s, i + 1, Len(s))
           an == a \o <<n>>
<1>1. a \in Seq(S) /\ Len(a) = i /\ \A j \in 1 .. i : a[j] = s[j]
  BY SubSeqProperties, ElementOfSeq
<1>2. b \in Seq(S) /\ Len(b) = Len(s) - i /\ \A j \in 1 .. Len(s) - i : b[j] = s[i + j]
  BY SubSeqProperties, ElementOfSeq
<1>3. <<n>> \in Seq(S) /\ Len(<<n>>) = 1 /\ <<n>>[1] = n
  OBVIOUS
<1> HIDE DEF a, b
<1>4. an \in Seq(S) /\ Len(an) = i + 1 /\ (\A j \in 1 .. i : an[j] = s[j]) /\ an[i + 1] = n
  BY <1>1, <1>3, ConcatProperties
<1>5. Hash!With(s, i, n) = an \o b
  BY DEF Hash!With, a, b
<1> HIDE DEF an
<1>6. an \o b \in Seq(S) /\ Len(an \o b) = Len(s) + 1
  BY <1>2, <1>4, ConcatProperties
<1>7. ASSUME NEW j \in 1 .. Len(s) + 1
      PROVE  (an \o b)[j] = IF j <= i THEN s[j] ELSE IF j = i + 1 THEN n ELSE s[j - 1]
  <2>1. (an \o b)[j] = IF j <= i + 1 THEN an[j] ELSE b[j - (i + 1)]
    BY <1>2, <1>4, ConcatProperties
  <2>2. CASE j <= i + 1
    BY <1>4, <2>1, <2>2
  <2>3. CASE j > i + 1
    <3>1. j - (i + 1) \in 1 .. Len(s) - i /\ i + (j - (i + 1)) = j - 1
      BY <2>3
    <3> QED
      BY <1>2, <2>1, <2>3, <3>1
  <2>4. j <= i + 1 \/ j > i + 1
    OBVIOUS
  <2> QED
    BY <2>2, <2>3, <2>4
<1> QED
  BY <1>5, <1>6, <1>7

LEMMA PlaceOf ==
    ASSUME NEW S, NEW s \in Seq(S), NEW n, n \in Hash!Range(s)
    PROVE  Hash!Place(s, n) \in 1 .. Len(s) /\ s[Hash!Place(s, n)] = n
BY DEF Hash!Place, Hash!Range

LEMMA WithoutElements ==
    ASSUME NEW S, NEW s \in Seq(S), NEW n, n \in Hash!Range(s),
           NEW q, q = Hash!Place(s, n)
    PROVE  /\ Hash!Without(s, n) \in Seq(S)
           /\ Len(Hash!Without(s, n)) = Len(s) - 1
           /\ \A j \in 1 .. Len(s) - 1 :
                 Hash!Without(s, n)[j] = IF j < q THEN s[j] ELSE s[j + 1]
<1> DEFINE a == SubSeq(s, 1, q - 1)
           b == SubSeq(s, q + 1, Len(s))
<1>1. q \in 1 .. Len(s)
  BY PlaceOf
<1>2. a \in Seq(S) /\ Len(a) = q - 1 /\ \A j \in 1 .. q - 1 : a[j] = s[j]
  BY <1>1, SubSeqProperties, ElementOfSeq
<1>3. b \in Seq(S) /\ Len(b) = Len(s) - q /\ \A j \in 1 .. Len(s) - q : b[j] = s[q + j]
  BY <1>1, SubSeqProperties, ElementOfSeq
<1>4. Hash!Without(s, n) = a \o b
  BY DEF Hash!Without
<1> HIDE DEF a, b
<1>5. a \o b \in Seq(S) /\ Len(a \o b) = Len(s) - 1
  BY <1>1, <1>2, <1>3, ConcatProperties
<1>6. ASSUME NEW j \in 1 .. Len(s) - 1
      PROVE  (a \o b)[j] = IF j < q THEN s[j] ELSE s[j + 1]
  <2>1. (a \o b)[j] = IF j <= q - 1 THEN a[j] ELSE b[j - (q - 1)]
    BY <1>1, <1>2, <1>3, ConcatProperties, SMTT(20)
  <2>2. CASE j < q
    BY <1>1, <1>2, <2>1, <2>2
  <2>3. CASE j >= q
    <3>1. j - (q - 1) \in 1 .. Len(s) - q /\ q + (j - (q - 1)) = j + 1
      BY <1>1, <2>3
    <3> QED
      BY <1>1, <1>3, <2>1, <2>3, <3>1, SMTT(20)
  <2>4. j < q \/ j >= q
    BY <1>1
  <2> QED
    BY <2>2, <2>3, <2>4
<1> QED
  BY <1>4, <1>5, <1>6
-----------------------------------------------------------------------------
\* From one end of an interval of integers to the other.
LEMMA Down ==
    ASSUME NEW b \in Int, NEW e \in Int, NEW T, e \in T,
           \A s \in b .. e - 1 : s + 1 \in T => s \in T
    PROVE  b .. e \subseteq T
<1> SUFFICES ASSUME (b .. e) \ T # {} PROVE FALSE
  OBVIOUS
<1> DEFINE S == (b .. e) \ T
<1>1. S \in SUBSET Int /\ S # {} /\ \A s \in S : s <= e
  OBVIOUS
<1>2. PICK s \in S : \A t \in S : t <= s
  BY <1>1, MaxOf
<1>3. s \in b .. e - 1 /\ s + 1 \in b .. e /\ ~(s + 1 <= s)
  BY <1>2
<1> QED
  BY <1>2, <1>3

LEMMA Up ==
    ASSUME NEW b \in Int, NEW e \in Int, NEW T, b \in T,
           \A s \in b .. e - 1 : s \in T => s + 1 \in T
    PROVE  b .. e \subseteq T
<1> SUFFICES ASSUME (b .. e) \ T # {} PROVE FALSE
  OBVIOUS
<1> DEFINE S == (b .. e) \ T
<1>1. S \in SUBSET Int /\ S # {} /\ \A s \in S : b <= s
  OBVIOUS
<1>2. PICK s \in S : \A t \in S : s <= t
  BY <1>1, MinOf
<1>3. s - 1 \in b .. e - 1 /\ (s - 1) + 1 = s /\ ~(s <= s - 1)
  BY <1>2
<1> QED
  BY <1>2, <1>3

\* The function that Row is the first value of.
OnRow(f, tab, b, e) == [s \in b .. e |-> IF s = e THEN <<>> ELSE tab[s] \o f[s + 1]]
RowFcn(tab, b, e) == CHOOSE f : f = OnRow(f, tab, b, e)

LEMMA RowIsFcn == Hash!Row = RowFcn(table, bucket_begin, bucket_end)[bucket_begin]
BY DEF Hash!Row, RowFcn, OnRow

\* What its values are.
IsRow(f, tab, b, e, S) ==
    /\ f \in [b .. e -> Seq(S)]
    /\ f[e] = <<>>
    /\ \A s \in b .. e - 1 : f[s] = tab[s] \o f[s + 1]

LEMMA RowExtends ==
    ASSUME NEW S, NEW s \in Int, NEW e \in Int, s < e, NEW tab, tab[s] \in Seq(S),
           NEW f, IsRow(f, tab, s + 1, e, S)
    PROVE  \E g : IsRow(g, tab, s, e, S)
<1>1. PICK w : w = tab[s] \o f[s + 1]
  OBVIOUS
<1>2. s + 1 \in s + 1 .. e /\ s + 1 <= e /\ e \in s + 1 .. e
  OBVIOUS
<1>3. w \in Seq(S)
  BY <1>1, <1>2, ConcatProperties DEF IsRow
<1>4. PICK g : g = [t \in s .. e |-> IF t = s THEN w ELSE f[t]]
  OBVIOUS
<1>5. g \in [s .. e -> Seq(S)]
  BY <1>3, <1>4 DEF IsRow
<1>6. g[s] = w /\ \A t \in s + 1 .. e : g[t] = f[t]
  BY <1>4
<1>7. ASSUME NEW t \in s .. e - 1 PROVE g[t] = tab[t] \o g[t + 1]
  <2>1. CASE t = s
    BY <1>1, <1>2, <1>6, <2>1
  <2>2. CASE t # s
    <3>1. t \in s + 1 .. e - 1 /\ t \in s + 1 .. e /\ t + 1 \in s + 1 .. e
      BY <2>2
    <3> QED
      BY <1>6, <3>1 DEF IsRow
  <2> QED
    BY <2>1, <2>2
<1> QED
  BY <1>2, <1>5, <1>6, <1>7 DEF IsRow

LEMMA RowExists ==
    ASSUME NEW S, NEW b \in Int, NEW e \in Int, b <= e,
           NEW tab, \A s \in b .. e - 1 : tab[s] \in Seq(S)
    PROVE  \E f : IsRow(f, tab, b, e, S)
<1> DEFINE T == {s \in b .. e : \E f : IsRow(f, tab, s, e, S)}
<1>1. e \in T
  <2>1. PICK f : f = [s \in e .. e |-> <<>>]
    OBVIOUS
  <2>2. f \in [e .. e -> Seq(S)] /\ f[e] = <<>> /\ e .. e - 1 = {}
    BY <2>1, EmptySeq
  <2>3. IsRow(f, tab, e, e, S)
    BY <2>2 DEF IsRow
  <2> QED
    BY <2>3
<1>2. ASSUME NEW s \in b .. e - 1, s + 1 \in T
      PROVE  s \in T
  BY <1>2, RowExtends
<1> HIDE DEF T
<1>3. b .. e \subseteq T
  BY <1>1, <1>2, Down
<1> QED
  BY <1>3 DEF T

LEMMA RowFcnIs ==
    ASSUME NEW S, NEW b \in Int, NEW e \in Int, b <= e,
           NEW tab, \A s \in b .. e - 1 : tab[s] \in Seq(S)
    PROVE  IsRow(RowFcn(tab, b, e), tab, b, e, S)
<1>1. PICK f : IsRow(f, tab, b, e, S)
  BY RowExists
<1>2. DOMAIN f = b .. e /\ f = [s \in b .. e |-> f[s]] /\ e \in b .. e
  BY <1>1 DEF IsRow
<1>3. \A s \in b .. e : f[s] = IF s = e THEN <<>> ELSE tab[s] \o f[s + 1]
  <2>1. \A s \in b .. e : s = e \/ s \in b .. e - 1
    OBVIOUS
  <2> QED
    BY <1>1, <2>1 DEF IsRow
<1>4. f = OnRow(f, tab, b, e)
  BY <1>2, <1>3, Zenon DEF OnRow
<1>5. ASSUME NEW g, g = OnRow(g, tab, b, e)
      PROVE  g = f
  <2>1. DOMAIN g = b .. e /\ g = [s \in b .. e |-> g[s]]
    BY <1>5, Zenon DEF OnRow
  <2>2. \A s \in b .. e : g[s] = IF s = e THEN <<>> ELSE tab[s] \o g[s + 1]
    BY <1>5, Zenon DEF OnRow
  <2> DEFINE T == {s \in b .. e : g[s] = f[s]}
  <2>3. e \in T
    BY <1>2, <1>3, <2>2, Zenon
  <2>4. ASSUME NEW s \in b .. e - 1, s + 1 \in T PROVE s \in T
    <3>1. s \in b .. e /\ s # e
      OBVIOUS
    <3>2. g[s] = tab[s] \o g[s + 1] /\ f[s] = tab[s] \o f[s + 1]
      BY <1>3, <2>2, <3>1, Zenon
    <3> QED
      BY <2>4, <3>1, <3>2, Zenon
  <2> HIDE DEF T
  <2>5. b .. e \subseteq T
    BY <2>3, <2>4, Down
  <2>6. \A s \in b .. e : g[s] = f[s]
    BY <2>5 DEF T
  <2> QED
    BY <1>2, <2>1, <2>6, Zenon
<1>6. RowFcn(tab, b, e) = f
  BY <1>4, <1>5, Zenon DEF RowFcn
<1> QED
  BY <1>1, <1>6

\* The ends of a sequence in two parts, and where its elements come from.
Joined(w, s, t) ==
    /\ w \in Seq(HashNode)
    /\ s = <<>> => w = t
    /\ t = <<>> => w = s
    /\ s # <<>> => w # <<>> /\ w[1] = s[1]
    /\ t # <<>> => w # <<>> /\ w[Len(w)] = t[Len(t)]
    /\ \A j \in DOMAIN w : w[j] \in Hash!Range(s) \/ w[j] \in Hash!Range(t)

LEMMA TwoParts ==
    ASSUME NEW s \in Seq(HashNode), NEW t \in Seq(HashNode)
    PROVE  Joined(s \o t, s, t)
<1> PICK w : w = s \o t
  OBVIOUS
<1>1. /\ w \in Seq(HashNode) /\ Len(w) = Len(s) + Len(t)
      /\ \A i \in 1 .. Len(s) + Len(t) : w[i] = IF i <= Len(s) THEN s[i] ELSE t[i - Len(s)]
  BY ConcatProperties
<1>2. /\ Len(s) \in Nat /\ Len(t) \in Nat /\ DOMAIN s = 1 .. Len(s) /\ DOMAIN t = 1 .. Len(t)
      /\ DOMAIN w = 1 .. Len(s) + Len(t)
  BY <1>1
<1>3. (s = <<>> => w = t) /\ (t = <<>> => w = s)
  BY ConcatEmptySeq
<1>4. ASSUME s # <<>> PROVE w # <<>> /\ w[1] = s[1]
  BY <1>1, <1>2, <1>4, EmptySeq
<1>5. ASSUME t # <<>> PROVE w # <<>> /\ w[Len(w)] = t[Len(t)]
  <2>1. Len(t) > 0
    BY <1>2, <1>5, EmptySeq
  <2>2. Len(w) \in 1 .. Len(s) + Len(t) /\ ~(Len(w) <= Len(s)) /\ Len(w) - Len(s) = Len(t)
    BY <1>1, <1>2, <2>1
  <2>3. w[Len(w)] = t[Len(t)]
    BY <1>1, <2>2
  <2>4. w # <<>>
    BY <1>1, <2>2, EmptySeq
  <2> QED
    BY <2>3, <2>4
<1>6. ASSUME NEW j \in DOMAIN w
      PROVE  w[j] \in Hash!Range(s) \/ w[j] \in Hash!Range(t)
  <2>1. CASE j <= Len(s)
    <3>1. j \in DOMAIN s /\ w[j] = s[j]
      BY <1>1, <1>2, <2>1
    <3> QED
      BY <3>1 DEF Hash!Range
  <2>2. CASE j > Len(s)
    <3>1. j - Len(s) \in DOMAIN t /\ w[j] = t[j - Len(s)]
      BY <1>1, <1>2, <2>2
    <3> QED
      BY <3>1 DEF Hash!Range
  <2>3. j <= Len(s) \/ j > Len(s)
    BY <1>2
  <2> QED
    BY <2>1, <2>2, <2>3
<1> QED
  BY <1>1, <1>3, <1>4, <1>5, <1>6, Zenon DEF Joined

LEMMA JoinAnywhere ==
    ASSUME NEW s \in Seq(HashNode), NEW t \in Seq(HashNode), NEW u \in Seq(HashNode)
    PROVE  s \o (t \o u) = (s \o t) \o u
BY ConcatAssociative, SMTT(20)

\* Slots that hold nodes of theirs.
SlotsHold(tab, b, e) ==
    \A t \in b .. e - 1 : /\ tab[t] \in Seq(HashNode)
                          /\ \A n \in Hash!Range(tab[t]) : Hash!Slot(HashKey[n]) = t

\* What is left of a row from slot s on.
Behind(z, tab, s, e) ==
    /\ z \in Seq(HashNode)
    /\ (\A t \in s .. e - 1 : tab[t] = <<>>) => z = <<>>
    /\ \A g \in s .. e - 1 : tab[g] # <<>> /\ (\A t \in s .. g - 1 : tab[t] = <<>>)
                               => z # <<>> /\ z[1] = tab[g][1]
    /\ \A n \in Hash!Range(z) : Hash!Slot(HashKey[n]) >= s

LEMMA RestStep ==
    ASSUME NEW b \in Int, NEW e \in Int, NEW s \in b .. e - 1,
           NEW tab, SlotsHold(tab, b, e), NEW r, IsRow(r, tab, b, e, HashNode),
           Behind(r[s + 1], tab, s + 1, e)
    PROVE  Behind(r[s], tab, s, e)
<1>1. tab[s] \in Seq(HashNode) /\ r[s + 1] \in Seq(HashNode) /\ r[s] = tab[s] \o r[s + 1]
  BY DEF SlotsHold, IsRow, Behind
<1>2. PICK w, u, v : w = r[s] /\ u = tab[s] /\ v = r[s + 1]
  OBVIOUS
<1>3. u \in Seq(HashNode) /\ v \in Seq(HashNode) /\ w = u \o v
  BY <1>1, <1>2
<1>4. Joined(w, u, v)
  BY <1>3, TwoParts
<1>5. ASSUME \A t \in s .. e - 1 : tab[t] = <<>> PROVE w = <<>>
  <2>1. u = <<>> /\ \A t \in s + 1 .. e - 1 : tab[t] = <<>>
    BY <1>2, <1>5
  <2>2. v = <<>>
    BY <1>2, <2>1 DEF Behind
  <2> QED
    BY <1>4, <2>1, <2>2 DEF Joined
<1>6. ASSUME NEW g \in s .. e - 1, tab[g] # <<>>, \A t \in s .. g - 1 : tab[t] = <<>>
      PROVE  w # <<>> /\ w[1] = tab[g][1]
  <2>1. CASE g = s
    BY <1>2, <1>4, <1>6, <2>1 DEF Joined
  <2>2. CASE g # s
    <3>1. g \in s + 1 .. e - 1 /\ s \in s .. g - 1 /\ \A t \in s + 1 .. g - 1 : t \in s .. g - 1
      BY <2>2
    <3>2. tab[s] = <<>> /\ \A t \in s + 1 .. g - 1 : tab[t] = <<>>
      BY <1>6, <3>1
    <3>3. v # <<>> /\ v[1] = tab[g][1]
      BY <1>2, <1>6, <3>1, <3>2 DEF Behind
    <3> QED
      BY <1>2, <1>4, <3>2, <3>3 DEF Joined
  <2> QED
    BY <2>1, <2>2
<1>7. ASSUME NEW n \in Hash!Range(w) PROVE Hash!Slot(HashKey[n]) >= s
  <2>1. n \in Hash!Range(u) \/ n \in Hash!Range(v)
    BY <1>4 DEF Hash!Range, Joined
  <2>2. CASE n \in Hash!Range(u)
    BY <1>2, <2>2 DEF SlotsHold
  <2>3. CASE n \in Hash!Range(v)
    <3>1. Hash!Slot(HashKey[n]) >= s + 1
      BY <1>2, <2>3 DEF Behind
    <3>2. n \in HashNode
      BY <1>3, <2>3 DEF Hash!Range
    <3>3. Hash!Slot(HashKey[n]) \in Int
      BY <3>2, SlotOf DEF Hash!Slots
    <3> QED
      BY <3>1, <3>3
  <2> QED
    BY <2>1, <2>2, <2>3
<1> QED
  BY <1>2, <1>4, <1>5, <1>6, <1>7, Zenon DEF Behind, Joined

LEMMA RestOfRow ==
    ASSUME NEW b \in Int, NEW e \in Int, b <= e, NEW tab, SlotsHold(tab, b, e),
           NEW r, IsRow(r, tab, b, e, HashNode)
    PROVE  \A s \in b .. e : Behind(r[s], tab, s, e)
<1> DEFINE T == {s \in b .. e : Behind(r[s], tab, s, e)}
<1>1. Behind(r[e], tab, e, e)
  <2>1. r[e] = <<>> /\ r[e] \in Seq(HashNode) /\ e .. e - 1 = {}
    BY DEF IsRow
  <2>2. Hash!Range(r[e]) = {}
    BY <2>1 DEF Hash!Range
  <2> QED
    BY <2>1, <2>2 DEF Behind
<1>2. e \in T
  BY <1>1
<1>3. ASSUME NEW s \in b .. e - 1, s + 1 \in T PROVE s \in T
  <2>1. Behind(r[s + 1], tab, s + 1, e) /\ s \in b .. e
    BY <1>3
  <2>2. Behind(r[s], tab, s, e)
    BY <2>1, RestStep
  <2> QED
    BY <2>1, <2>2
<1> HIDE DEF T
<1>4. b .. e \subseteq T
  BY <1>2, <1>3, Down
<1> QED
  BY <1>4 DEF T

\* What comes before slot i.
Before(a, tab, b, i) ==
    /\ a \in Seq(HashNode)
    /\ (\A t \in b .. i - 1 : tab[t] = <<>>) => a = <<>>
    /\ \A g \in b .. i - 1 : tab[g] # <<>> /\ (\A t \in g + 1 .. i - 1 : tab[t] = <<>>)
                               => a # <<>> /\ a[Len(a)] = tab[g][Len(tab[g])]
    /\ \A n \in Hash!Range(a) : Hash!Slot(HashKey[n]) < i

LEMMA BeforeStep ==
    ASSUME NEW b \in Int, NEW e \in Int, NEW i \in b .. e - 1,
           NEW tab, SlotsHold(tab, b, e), NEW a, Before(a, tab, b, i),
           NEW w, w = a \o tab[i]
    PROVE  Before(w, tab, b, i + 1)
<1>1. PICK u : u = tab[i]
  OBVIOUS
<1>2. u \in Seq(HashNode) /\ a \in Seq(HashNode) /\ w = a \o u /\ (i + 1) - 1 = i
  BY <1>1 DEF SlotsHold, Before
<1>3. Joined(w, a, u)
  BY <1>2, TwoParts
<1>4. ASSUME \A t \in b .. i : tab[t] = <<>> PROVE w = <<>>
  <2>1. u = <<>> /\ \A t \in b .. i - 1 : tab[t] = <<>>
    BY <1>1, <1>4
  <2> QED
    BY <1>3, <2>1 DEF Before, Joined
<1>5. ASSUME NEW g \in b .. i, tab[g] # <<>>, \A t \in g + 1 .. i : tab[t] = <<>>
      PROVE  w # <<>> /\ w[Len(w)] = tab[g][Len(tab[g])]
  <2>1. CASE g = i
    BY <1>1, <1>3, <1>5, <2>1 DEF Joined
  <2>2. CASE g # i
    <3>1. g \in b .. i - 1 /\ i \in g + 1 .. i /\ \A t \in g + 1 .. i - 1 : t \in g + 1 .. i
      BY <2>2
    <3>2. tab[i] = <<>> /\ \A t \in g + 1 .. i - 1 : tab[t] = <<>>
      BY <1>5, <3>1
    <3>3. a # <<>> /\ a[Len(a)] = tab[g][Len(tab[g])]
      BY <1>5, <3>1, <3>2 DEF Before
    <3> QED
      BY <1>1, <1>3, <3>2, <3>3 DEF Joined
  <2> QED
    BY <2>1, <2>2
<1>6. ASSUME NEW n \in Hash!Range(w) PROVE Hash!Slot(HashKey[n]) < i + 1
  <2>1. n \in Hash!Range(a) \/ n \in Hash!Range(u)
    BY <1>3 DEF Hash!Range, Joined
  <2>2. CASE n \in Hash!Range(u)
    BY <1>1, <2>2 DEF SlotsHold
  <2>3. CASE n \in Hash!Range(a)
    <3>1. Hash!Slot(HashKey[n]) < i
      BY <2>3 DEF Before
    <3>2. n \in HashNode
      BY <1>2, <2>3 DEF Hash!Range
    <3>3. Hash!Slot(HashKey[n]) \in Int
      BY <3>2, SlotOf DEF Hash!Slots
    <3> QED
      BY <3>1, <3>3
  <2> QED
    BY <2>1, <2>2, <2>3
<1> QED
  BY <1>2, <1>3, <1>4, <1>5, <1>6, Zenon DEF Before, Joined

SameBefore(tab, b, k, r, r2) ==
    \E a : Before(a, tab, b, k) /\ r[b] = a \o r[k] /\ r2[b] = a \o r2[k]
Agree(tab, tab2, lo, hi) == \A t \in lo .. hi : tab2[t] = tab[t]

\* Two tables that differ in slot k at most have the same row before it.
LEMMA BeforeInRow ==
    ASSUME NEW b \in Int, NEW e \in Int, NEW k \in b .. e,
           NEW tab, SlotsHold(tab, b, e), NEW r, IsRow(r, tab, b, e, HashNode),
           NEW tab2, Agree(tab, tab2, b, k - 1),
           NEW r2, IsRow(r2, tab2, b, e, HashNode)
    PROVE  SameBefore(tab, b, k, r, r2)
<1> DEFINE P(i) == SameBefore(tab, b, i, r, r2)
           T == {i \in b .. k : P(i)}
<1>1. P(b)
  <2>1. Before(<<>>, tab, b, b)
    <3>1. b .. b - 1 = {} /\ Hash!Range(<<>>) = {} /\ <<>> \in Seq(HashNode)
      BY DEF Hash!Range
    <3> QED
      BY <3>1 DEF Before
  <2>2. r[b] \in Seq(HashNode) /\ r2[b] \in Seq(HashNode)
    BY DEF IsRow
  <2>3. r[b] = <<>> \o r[b] /\ r2[b] = <<>> \o r2[b]
    BY <2>2, ConcatEmptySeq
  <2> QED
    BY <2>1, <2>3 DEF SameBefore
<1>2. ASSUME NEW i \in b .. k - 1, P(i) PROVE P(i + 1)
  <2>1. PICK a : Before(a, tab, b, i) /\ r[b] = a \o r[i] /\ r2[b] = a \o r2[i]
    BY <1>2 DEF SameBefore
  <2>2. PICK w : w = a \o tab[i]
    OBVIOUS
  <2>3. i \in b .. e - 1 /\ i + 1 \in b .. e
    OBVIOUS
  <2>4. Before(w, tab, b, i + 1)
    BY <2>1, <2>2, <2>3, BeforeStep
  <2>5. /\ a \in Seq(HashNode) /\ tab[i] \in Seq(HashNode)
        /\ r[i + 1] \in Seq(HashNode) /\ r2[i + 1] \in Seq(HashNode)
    BY <2>1, <2>3 DEF Before, SlotsHold, IsRow
  <2>6. r[i] = tab[i] \o r[i + 1] /\ r2[i] = tab[i] \o r2[i + 1]
    BY <2>3 DEF IsRow, Agree
  <2>7. r[b] = w \o r[i + 1] /\ r2[b] = w \o r2[i + 1]
    <3>2. /\ a \o (tab[i] \o r[i + 1]) = (a \o tab[i]) \o r[i + 1]
          /\ a \o (tab[i] \o r2[i + 1]) = (a \o tab[i]) \o r2[i + 1]
      BY <2>5, JoinAnywhere, ZenonT(30)
    <3> QED
      BY <2>1, <2>2, <2>6, <3>2
  <2> QED
    BY <2>4, <2>7 DEF SameBefore
<1>3. b \in T /\ \A i \in b .. k - 1 : i \in T => i + 1 \in T
  <2>1. b \in b .. k /\ \A i \in b .. k - 1 : i + 1 \in b .. k
    OBVIOUS
  <2> HIDE DEF P
  <2> QED
    BY <1>1, <1>2, <2>1
<1> HIDE DEF T
<1>4. b .. k \subseteq T
  BY <1>3, Up
<1>5. k \in b .. k
  OBVIOUS
<1> QED
  BY <1>4, <1>5 DEF T

\* ... and the same row behind it.
LEMMA SameBehind ==
    ASSUME NEW b \in Int, NEW e \in Int, NEW k \in b .. e - 1,
           NEW tab, NEW r, IsRow(r, tab, b, e, HashNode),
           NEW tab2, Agree(tab, tab2, k + 1, e - 1),
           NEW r2, IsRow(r2, tab2, b, e, HashNode)
    PROVE  r2[k + 1] = r[k + 1]
<1> DEFINE T == {i \in k + 1 .. e : r2[i] = r[i]}
<1>1. e \in T
  BY DEF IsRow
<1>2. ASSUME NEW s \in k + 1 .. e - 1, s + 1 \in T PROVE s \in T
  <2>1. s \in b .. e - 1 /\ s \in k + 1 .. e
    OBVIOUS
  <2>2. r[s] = tab[s] \o r[s + 1] /\ r2[s] = tab2[s] \o r2[s + 1]
    BY <2>1 DEF IsRow
  <2> QED
    BY <1>2, <2>1, <2>2 DEF Agree
<1> HIDE DEF T
<1>3. k + 1 .. e \subseteq T
  BY <1>1, <1>2, Down
<1>4. k + 1 \in k + 1 .. e
  OBVIOUS
<1> QED
  BY <1>3, <1>4 DEF T

\* The row around slot k; only that slot tells the rows of tab and tab2 apart.
SameBut(tab, tab2, b, e, k) == \A t \in b .. e - 1 : t # k => tab2[t] = tab[t]
SameAround(tab, tab2, b, e, k) ==
    \E a, z : /\ Before(a, tab, b, k) /\ Behind(z, tab, k + 1, e)
              /\ RowFcn(tab, b, e)[b] = (a \o tab[k]) \o z
              /\ RowFcn(tab2, b, e)[b] = (a \o tab2[k]) \o z

LEMMA RowAroundSlot ==
    ASSUME NEW b \in Int, NEW e \in Int, NEW k \in b .. e - 1,
           NEW tab, SlotsHold(tab, b, e),
           NEW tab2, tab2[k] \in Seq(HashNode), SameBut(tab, tab2, b, e, k)
    PROVE  SameAround(tab, tab2, b, e, k)
<1>1. PICK r, r2 : r = RowFcn(tab, b, e) /\ r2 = RowFcn(tab2, b, e)
  OBVIOUS
<1>2. b <= e /\ k \in b .. e /\ k + 1 \in b .. e
  OBVIOUS
<1>3. /\ \A t \in b .. e - 1 : tab[t] \in Seq(HashNode)
      /\ \A t \in b .. e - 1 : tab2[t] \in Seq(HashNode)
  BY DEF SlotsHold, SameBut
<1>4. IsRow(r, tab, b, e, HashNode)
  BY <1>1, <1>2, <1>3, RowFcnIs
<1>5. IsRow(r2, tab2, b, e, HashNode)
  BY <1>1, <1>2, <1>3, RowFcnIs
<1>6. Agree(tab, tab2, b, k - 1)
  BY DEF Agree, SameBut
<1>7. PICK a : Before(a, tab, b, k) /\ r[b] = a \o r[k] /\ r2[b] = a \o r2[k]
  <2>1. SameBefore(tab, b, k, r, r2)
    BY <1>2, <1>4, <1>5, <1>6, BeforeInRow
  <2> QED
    BY <2>1 DEF SameBefore
<1>8. Agree(tab, tab2, k + 1, e - 1)
  BY DEF Agree, SameBut
<1>9. PICK z : z = r[k + 1] /\ z = r2[k + 1]
  BY <1>4, <1>5, <1>8, SameBehind
<1>10. Behind(z, tab, k + 1, e)
  BY <1>2, <1>4, <1>9, RestOfRow
<1>11. r[k] = tab[k] \o z /\ r2[k] = tab2[k] \o z
  BY <1>4, <1>5, <1>9 DEF IsRow
<1>12. a \in Seq(HashNode) /\ tab[k] \in Seq(HashNode) /\ z \in Seq(HashNode)
  BY <1>3, <1>7, <1>10 DEF Before, Behind
<1>13. r[b] = (a \o tab[k]) \o z
  <2>1. a \o (tab[k] \o z) = (a \o tab[k]) \o z
    BY <1>12, JoinAnywhere
  <2> QED
    BY <1>7, <1>11, <2>1
<1>14. r2[b] = (a \o tab2[k]) \o z
  <2>1. a \o (tab2[k] \o z) = (a \o tab2[k]) \o z
    BY <1>12, JoinAnywhere
  <2> QED
    BY <1>7, <1>11, <2>1
<1> QED
  BY <1>1, <1>7, <1>10, <1>13, <1>14 DEF SameAround

\* The places of a row in three parts.
Parts(row, a, s, z) ==
    /\ a \in Seq(HashNode) /\ s \in Seq(HashNode) /\ z \in Seq(HashNode)
    /\ row \in Seq(HashNode) /\ DOMAIN row = 1 .. Len(a) + Len(s) + Len(z)
    /\ Len(row) = Len(a) + Len(s) + Len(z)
    /\ \A j \in 1 .. Len(a) : row[j] = a[j]
    /\ \A j \in 1 .. Len(s) : row[Len(a) + j] = s[j]
    /\ \A j \in 1 .. Len(z) : row[Len(a) + Len(s) + j] = z[j]

LEMMA ThreeParts ==
    ASSUME NEW a \in Seq(HashNode), NEW s \in Seq(HashNode), NEW z \in Seq(HashNode)
    PROVE  Parts((a \o s) \o z, a, s, z)
<1>1. PICK u, w : u = a \o s /\ w = u \o z
  OBVIOUS
<1>2. /\ u \in Seq(HashNode) /\ Len(u) = Len(a) + Len(s)
      /\ \A i \in 1 .. Len(a) + Len(s) : u[i] = IF i <= Len(a) THEN a[i] ELSE s[i - Len(a)]
  BY <1>1, ConcatProperties
<1>3. /\ w \in Seq(HashNode) /\ Len(w) = Len(u) + Len(z)
      /\ \A i \in 1 .. Len(u) + Len(z) : w[i] = IF i <= Len(u) THEN u[i] ELSE z[i - Len(u)]
  BY <1>1, <1>2, ConcatProperties
<1>4. Len(a) \in Nat /\ Len(s) \in Nat /\ Len(z) \in Nat /\ DOMAIN w = 1 .. Len(w)
  BY <1>3
<1>5. ASSUME NEW j \in 1 .. Len(a) PROVE w[j] = a[j]
  BY <1>2, <1>3, <1>4
<1>6. ASSUME NEW j \in 1 .. Len(s) PROVE w[Len(a) + j] = s[j]
  <2>1. /\ Len(a) + j \in 1 .. Len(a) + Len(s) /\ ~(Len(a) + j <= Len(a))
        /\ (Len(a) + j) - Len(a) = j
    BY <1>4
  <2>2. u[Len(a) + j] = s[j]
    BY <1>2, <2>1
  <2>3. Len(a) + j \in 1 .. Len(u) + Len(z) /\ Len(a) + j <= Len(u)
    BY <1>2, <1>4, <2>1
  <2> QED
    BY <1>3, <2>2, <2>3
<1>7. ASSUME NEW j \in 1 .. Len(z) PROVE w[Len(a) + Len(s) + j] = z[j]
  <2>1. /\ Len(a) + Len(s) + j \in 1 .. Len(u) + Len(z) /\ ~(Len(a) + Len(s) + j <= Len(u))
        /\ (Len(a) + Len(s) + j) - Len(u) = j
    BY <1>2, <1>4
  <2> QED
    BY <1>3, <2>1
<1>8. DOMAIN w = 1 .. Len(a) + Len(s) + Len(z) /\ Len(w) = Len(a) + Len(s) + Len(z)
  BY <1>2, <1>3, <1>4
<1> QED
  BY <1>1, <1>3, <1>5, <1>6, <1>7, <1>8 DEF Parts

LEMMA WhichPart ==
    ASSUME NEW row, NEW a, NEW s, NEW z, Parts(row, a, s, z), NEW j \in DOMAIN row
    PROVE  \/ j \in 1 .. Len(a) /\ row[j] = a[j]
           \/ j - Len(a) \in 1 .. Len(s) /\ row[j] = s[j - Len(a)]
           \/ j - (Len(a) + Len(s)) \in 1 .. Len(z) /\ row[j] = z[j - (Len(a) + Len(s))]
<1>1. Len(a) \in Nat /\ Len(s) \in Nat /\ Len(z) \in Nat /\ j \in Int
      /\ j \in 1 .. Len(a) + Len(s) + Len(z)
  BY DEF Parts
<1>2. CASE j <= Len(a)
  BY <1>1, <1>2 DEF Parts
<1>3. CASE Len(a) < j /\ j <= Len(a) + Len(s)
  <2>1. PICK l \in 1 .. Len(s) : l = j - Len(a) /\ j = Len(a) + l
    BY <1>1, <1>3
  <2> QED
    BY <2>1 DEF Parts
<1>4. CASE Len(a) + Len(s) < j
  <2>1. PICK l \in 1 .. Len(z) : l = j - (Len(a) + Len(s)) /\ j = Len(a) + Len(s) + l
    BY <1>1, <1>4
  <2> QED
    BY <2>1 DEF Parts
<1> QED
  BY <1>1, <1>2, <1>3, <1>4

\* A node of the middle part that is there once, and in no other part.
LEMMA PlaceInRow ==
    ASSUME NEW row, NEW a, NEW s, NEW z, Parts(row, a, s, z),
           NEW n, n \in Hash!Range(s), n \notin Hash!Range(a), n \notin Hash!Range(z),
           \A i, j \in DOMAIN s : s[i] = s[j] => i = j
    PROVE  /\ Hash!Place(row, n) = Len(a) + Hash!Place(s, n) /\ n \in Hash!Range(row)
           /\ Hash!Place(s, n) \in 1 .. Len(s) /\ s[Hash!Place(s, n)] = n
<1>1. /\ a \in Seq(HashNode) /\ s \in Seq(HashNode) /\ z \in Seq(HashNode)
      /\ DOMAIN row = 1 .. Len(a) + Len(s) + Len(z)
      /\ DOMAIN a = 1 .. Len(a) /\ DOMAIN s = 1 .. Len(s) /\ DOMAIN z = 1 .. Len(z)
      /\ Len(a) \in Nat /\ Len(s) \in Nat /\ Len(z) \in Nat
  BY DEF Parts
<1>2. PICK q \in 1 .. Len(s) : q = Hash!Place(s, n) /\ s[q] = n
  BY <1>1, PlaceOf
<1>3. Len(a) + q \in DOMAIN row /\ row[Len(a) + q] = n
  BY <1>1, <1>2 DEF Parts
<1>4. PICK at \in DOMAIN row : at = Hash!Place(row, n) /\ row[at] = n
  BY <1>3 DEF Hash!Place
<1>5. at = Len(a) + q
  <2>1. ~(at \in 1 .. Len(a) /\ row[at] = a[at])
    BY <1>1, <1>4 DEF Hash!Range
  <2>2. ~(at - (Len(a) + Len(s)) \in 1 .. Len(z) /\ row[at] = z[at - (Len(a) + Len(s))])
    BY <1>1, <1>4 DEF Hash!Range
  <2>3. at - Len(a) \in 1 .. Len(s) /\ row[at] = s[at - Len(a)]
    BY <2>1, <2>2, WhichPart
  <2>4. at - Len(a) = q
    BY <1>1, <1>2, <1>4, <2>3
  <2>5. at \in Int /\ q \in Int
    BY <1>1
  <2>6. \A l, m, w \in Int : l - m = w => l = m + w
    OBVIOUS
  <2> QED
    BY <1>1, <2>4, <2>5, <2>6, Len(a) \in Int
<1>6. n \in Hash!Range(row)
  BY <1>3 DEF Hash!Range
<1> QED
  BY <1>2, <1>4, <1>5, <1>6
-----------------------------------------------------------------------------
\* What WellFiled says of the nodes s of slot k.
SlotOK(s, k) ==
    /\ \A i \in DOMAIN s : Hash!Slot(HashKey[s[i]]) = k
    /\ \A i, j \in DOMAIN s : s[i] = s[j] => i = j
    /\ hash_type = "rbtree" =>
          \A i, j \in DOMAIN s : i < j => HashKey[s[i]] <= HashKey[s[j]]

\* The nodes of a tree with a key up to k are the first ones.
LEMMA UpTo ==
    ASSUME NEW s \in Seq(HashNode), NEW k \in Nat,
           \A i, j \in DOMAIN s : i < j => HashKey[s[i]] <= HashKey[s[j]],
           NEW J, J = {j \in DOMAIN s : HashKey[s[j]] <= k}
    PROVE  /\ Hash!Cardinality(J) \in 0 .. Len(s)
           /\ \A j \in 1 .. Len(s) : j <= Hash!Cardinality(J) <=> HashKey[s[j]] <= k
<1> DEFINE m == Hash!Cardinality(J)
<1>1. m = Cardinality(J)
  BY DEF Hash!Cardinality, Cardinality
<1>2. DOMAIN s = 1 .. Len(s) /\ Len(s) \in Nat /\ \A j \in 1 .. Len(s) : HashKey[s[j]] \in Nat
  BY HashParameters
<1>5. J \subseteq 1 .. Len(s) /\ \A j \in 1 .. Len(s) : j \in J <=> HashKey[s[j]] <= k
  BY <1>2
<1> HIDE DEF m
<1> SUFFICES m \in 0 .. Len(s) /\ \A j \in 1 .. Len(s) : j <= m <=> HashKey[s[j]] <= k
  BY DEF m
<1>3. CASE J = {}
  <2>1. Cardinality(J) = 0
    BY <1>3, FS_EmptySet
  <2>2. \A j \in 1 .. Len(s) : ~(HashKey[s[j]] <= k)
    BY <1>3, <1>5
  <2>3. m = 0
    BY <1>1, <2>1
  <2> QED
    BY <1>2, <2>2, <2>3
<1>4. CASE J # {}
  <2> DEFINE g == Hash!Max(J)
  <2>1. J \in SUBSET Int /\ (\A j \in J : j <= Len(s)) /\ Len(s) \in Int
    BY <1>2, <1>5
  <2>2. g \in J /\ \A j \in J : j <= g
    BY <1>4, <2>1, MaxOf
  <2> HIDE DEF g
  <2>3. J = 1 .. g
    <3>1. ASSUME NEW j \in 1 .. g PROVE j \in J
      <4>1. j \in DOMAIN s /\ g \in DOMAIN s /\ (j = g \/ j < g) /\ HashKey[s[g]] <= k
        BY <1>2, <1>5, <2>2
      <4>2. HashKey[s[j]] <= HashKey[s[g]]
        BY <1>2, <4>1
      <4> QED
        BY <1>2, <1>5, <4>1, <4>2
    <3>2. ASSUME NEW j \in J PROVE j \in 1 .. g
      BY <1>5, <2>2
    <3> QED
      BY <3>1, <3>2, Zenon
  <2>4. g \in 1 .. Len(s) /\ Cardinality(1 .. g) = g
    BY <1>2, <1>5, <2>2, FS_Interval
  <2>5. m = g
    BY <1>1, <2>3, <2>4
  <2> QED
    BY <1>2, <1>5, <2>3, <2>4, <2>5
<1> QED
  BY <1>3, <1>4

\* Wherever a node is filed, its slot stays as WellFiled says.
LEMMA FiledOK ==
    ASSUME hash_type \in {"list", "rbtree"},
           NEW k, NEW s \in Seq(HashNode), SlotOK(s, k), NEW i \in 0 .. Len(s),
           NEW n \in HashNode, n \notin Hash!Range(s), Hash!Slot(HashKey[n]) = k,
           NEW f, f = Hash!Filed(s, i, n)
    PROVE  /\ f \in Seq(HashNode)
           /\ SlotOK(f, k)
           /\ Hash!Range(f) = Hash!Range(s) \cup {n}
<1> DEFINE m == Hash!Cardinality({j \in DOMAIN s : HashKey[s[j]] <= HashKey[n]})
<1>2. ASSUME hash_type = "rbtree"
      PROVE  m \in 0 .. Len(s) /\ \A j \in 1 .. Len(s) : j <= m <=> HashKey[s[j]] <= HashKey[n]
  BY <1>2, UpTo, HashParameters DEF SlotOK
<1>3. DOMAIN s = 1 .. Len(s) /\ Len(s) \in Nat /\ \A j \in 1 .. Len(s) : s[j] \in HashNode /\ HashKey[s[j]] \in Nat
  BY HashParameters
<1> HIDE DEF m
<1>4. PICK at \in 0 .. Len(s) : at = IF hash_type = "list" THEN i ELSE m
  BY <1>2
<1>1. f = Hash!With(s, at, n)
  BY <1>4 DEF Hash!Filed, m
<1>5. /\ f \in Seq(HashNode) /\ DOMAIN f = 1 .. Len(s) + 1
      /\ \A j \in 1 .. Len(s) + 1 :
            f[j] = IF j <= at THEN s[j] ELSE IF j = at + 1 THEN n ELSE s[j - 1]
  <2>1. f \in Seq(HashNode) /\ Len(f) = Len(s) + 1
    BY <1>1, <1>4, WithElements
  <2>2. DOMAIN f = 1 .. Len(f)
    BY <2>1, LenProperties
  <2>3. \A j \in 1 .. Len(s) + 1 :
            f[j] = IF j <= at THEN s[j] ELSE IF j = at + 1 THEN n ELSE s[j - 1]
    <3>1. \A a \in 0 .. Len(s) : \A j \in 1 .. Len(s) + 1 : Hash!With(s, a, n)[j] =
                    IF j <= a THEN s[j] ELSE IF j = a + 1 THEN n ELSE s[j - 1]
      BY WithElements
    <3> QED
      BY <1>1, <3>1
  <2> QED
    BY <2>1, <2>2, <2>3
<1>6. \A j \in 1 .. Len(s) : s[j] # n
  BY <1>3 DEF Hash!Range
<1>7. ASSUME NEW j \in DOMAIN f
      PROVE  Hash!Slot(HashKey[f[j]]) = k
  <2>1. CASE j <= at
    BY <1>3, <1>4, <1>5, <2>1 DEF SlotOK
  <2>2. CASE j = at + 1
    BY <1>3, <1>4, <1>5, <2>2 DEF SlotOK
  <2>3. CASE j > at + 1
    <3>1. j - 1 \in DOMAIN s /\ f[j] = s[j - 1]
      BY <1>3, <1>4, <1>5, <2>3
    <3> QED
      BY <3>1 DEF SlotOK
  <2> QED
    BY <1>3, <1>4, <1>5, <2>1, <2>2, <2>3
<1>8. ASSUME NEW j \in DOMAIN f, NEW l \in DOMAIN f, j < l
      PROVE  f[j] # f[l] /\ (hash_type = "rbtree" => HashKey[f[j]] <= HashKey[f[l]])
  <2>1. CASE j = at + 1
    <3>1. l - 1 \in 1 .. Len(s) /\ f[l] = s[l - 1] /\ f[j] = n /\ ~(l - 1 <= at)
      BY <1>3, <1>4, <1>5, <1>8, <2>1
    <3>2. ASSUME hash_type = "rbtree" PROVE HashKey[n] <= HashKey[s[l - 1]]
      <4>1. at = m
        BY <1>4, <3>2
      <4>2. ~(HashKey[s[l - 1]] <= HashKey[n])
        BY <1>2, <3>1, <3>2, <4>1
      <4> QED
        BY <1>3, <3>1, <4>2, HashParameters
    <3> QED
      BY <1>6, <3>1, <3>2
  <2>2. CASE l = at + 1
    <3>1. j \in 1 .. Len(s) /\ f[j] = s[j] /\ f[l] = n /\ j <= at
      BY <1>3, <1>4, <1>5, <1>8, <2>2
    <3>2. ASSUME hash_type = "rbtree" PROVE HashKey[s[j]] <= HashKey[n]
      <4>1. at = m
        BY <1>4, <3>2
      <4> QED
        BY <1>2, <3>1, <3>2, <4>1
    <3> QED
      BY <1>6, <3>1, <3>2
  <2>3. CASE j # at + 1 /\ l # at + 1
    <3>1. PICK a \in DOMAIN s, b \in DOMAIN s : a < b /\ f[j] = s[a] /\ f[l] = s[b]
      <4> DEFINE a == IF j <= at THEN j ELSE j - 1
                 b == IF l <= at THEN l ELSE l - 1
      <4>1. j \in 1 .. Len(s) + 1 /\ l \in 1 .. Len(s) + 1
        BY <1>5
      <4>3. a \in 1 .. Len(s) /\ b \in 1 .. Len(s) /\ a < b
        BY <1>3, <1>8, <2>3, <4>1
      <4>2. f[j] = s[a] /\ f[l] = s[b]
        BY <1>3, <1>4, <1>5, <1>8, <2>3
      <4> HIDE DEF a, b
      <4> QED
        BY <1>3, <4>3, <4>2
    <3>2. s[a] # s[b]
      BY <1>3, <3>1 DEF SlotOK
    <3> QED
      BY <3>1, <3>2 DEF SlotOK
  <2> QED
    BY <2>1, <2>2, <2>3
<1>9. SlotOK(f, k)
  <2>1. \A j, l \in DOMAIN f : j < l \/ l < j \/ j = l
    BY <1>3, <1>5
  <2> QED
    BY <1>7, <1>8, <2>1 DEF SlotOK
<1>10. Hash!Range(f) = Hash!Range(s) \cup {n}
  <2>1. ASSUME NEW j \in DOMAIN f PROVE f[j] \in Hash!Range(s) \cup {n}
    <3>1. j <= at \/ j = at + 1 \/ (j > at + 1 /\ j - 1 \in DOMAIN s)
      BY <1>3, <1>4, <1>5
    <3> QED
      BY <1>3, <1>4, <1>5, <3>1 DEF Hash!Range
  <2>2. n \in Hash!Range(f)
    <3>1. at + 1 \in DOMAIN f /\ f[at + 1] = n
      BY <1>3, <1>4, <1>5, SMTT(20)
    <3> QED
      BY <3>1 DEF Hash!Range
  <2>3. ASSUME NEW j \in DOMAIN s PROVE s[j] \in Hash!Range(f)
    <3>1. CASE j <= at
      <4>1. j \in DOMAIN f /\ f[j] = s[j]
        BY <1>3, <1>4, <1>5, <3>1
      <4> QED
        BY <4>1 DEF Hash!Range
    <3>2. CASE ~(j <= at)
      <4>1. j + 1 \in DOMAIN f /\ f[j + 1] = s[(j + 1) - 1] /\ (j + 1) - 1 = j
        BY <1>3, <1>4, <1>5, <3>2
      <4> QED
        BY <4>1 DEF Hash!Range
    <3> QED
      BY <3>1, <3>2
  <2> QED
    BY <2>1, <2>2, <2>3 DEF Hash!Range
<1> QED
  BY <1>5, <1>9, <1>10

\* Taking a node out leaves the others of its slot, in their order.
LEMMA WithoutOK ==
    ASSUME NEW k, NEW s \in Seq(HashNode), SlotOK(s, k), NEW n,
           NEW w, w = Hash!Without(s, n)
    PROVE  /\ w \in Seq(HashNode)
           /\ SlotOK(w, k)
           /\ Hash!Range(w) = Hash!Range(s) \ {n}
<1>1. CASE n \notin Hash!Range(s)
  BY <1>1 DEF Hash!Without
<1>2. CASE n \in Hash!Range(s)
  <2> DEFINE q == Hash!Place(s, n)
             at(j) == IF j < q THEN j ELSE j + 1
  <2>1. q \in 1 .. Len(s) /\ s[q] = n
    BY <1>2, PlaceOf
  <2>2. DOMAIN s = 1 .. Len(s) /\ Len(s) \in Nat
    OBVIOUS
  <2>3. w \in Seq(HashNode) /\ DOMAIN w = 1 .. Len(s) - 1
        /\ \A j \in 1 .. Len(s) - 1 : w[j] = IF j < q THEN s[j] ELSE s[j + 1]
    BY <1>2, WithoutElements
  <2> HIDE DEF q
  <2>4. \A j \in DOMAIN w : at(j) \in DOMAIN s /\ at(j) # q /\ w[j] = s[at(j)]
    BY <2>1, <2>2, <2>3
  <2>5. \A j, l \in DOMAIN w : j < l => at(j) < at(l)
    BY <2>1, <2>2, <2>3
  <2>6. \A j \in DOMAIN s : j # q => \E l \in DOMAIN w : at(l) = j
    <3> SUFFICES ASSUME NEW j \in DOMAIN s, j # q PROVE \E l \in DOMAIN w : at(l) = j
      OBVIOUS
    <3>1. CASE j < q
      <4>1. j \in DOMAIN w /\ at(j) = j
        BY <2>1, <2>2, <2>3, <3>1
      <4> QED
        BY <4>1
    <3>2. CASE j > q
      <4>1. j - 1 \in DOMAIN w /\ at(j - 1) = j
        BY <2>1, <2>2, <2>3, <3>2
      <4> QED
        BY <4>1
    <3> QED
      BY <2>1, <2>2, <3>1, <3>2
  <2>7. \A j, l \in DOMAIN w : j < l \/ l < j \/ j = l
    BY <2>2, <2>3
  <2>8. \A j, l \in DOMAIN w : j < l => at(j) # at(l)
    BY <2>2, <2>4, <2>5
  <2> HIDE DEF at
  <2>9. SlotOK(w, k)
    BY <2>4, <2>5, <2>7, <2>8 DEF SlotOK
  <2>10. Hash!Range(w) = Hash!Range(s) \ {n}
    <3>1. \A j \in DOMAIN w : w[j] \in Hash!Range(s) /\ w[j] # n
      BY <2>1, <2>2, <2>4 DEF SlotOK, Hash!Range
    <3>2. \A j \in DOMAIN s : s[j] # n => \E l \in DOMAIN w : w[l] = s[j]
      BY <2>1, <2>4, <2>6
    <3> QED
      BY <3>1, <3>2 DEF Hash!Range
  <2> QED
    BY <2>3, <2>9, <2>10
<1> QED
  BY <1>1, <1>2
-----------------------------------------------------------------------------
\* The bucket of the iterator is the one that was granted, or, when another has
\* been refused since, everything below its end.
GrantedOK(g, begin, end) ==
    /\ g.begin \in Nat /\ g.end = end /\ g.refused \in BOOLEAN
    /\ begin = IF g.refused THEN 0 ELSE g.begin

\* The bucket is a part of the table that is not empty.
HashTyped ==
    /\ hash_type \in {"list", "rbtree"}
    /\ table \in [Hash!Slots -> Seq(HashNode)]
    /\ current \in HashNode \cup {NULL}
    /\ current_index \in Int
    /\ bucket_begin \in Nat /\ bucket_end \in Nat
    /\ bucket_begin < bucket_end /\ bucket_end <= ht_len
    /\ GrantedOK(granted, bucket_begin, bucket_end)

Bucket == bucket_begin .. bucket_end - 1

HashInv ==
    /\ HashTyped
    /\ \A k \in Hash!Slots : SlotOK(table[k], k)
    /\ current # NULL => /\ current_index \in Bucket
                         /\ current \in Hash!Range(table[current_index])

LEMMA BucketInTable ==
    ASSUME HashTyped
    PROVE  Bucket \subseteq Hash!Slots /\ Bucket \in SUBSET Nat
BY HashParameters DEF HashTyped, Bucket, Hash!Slots

\* move_next_slot and move_prev_slot stop at the first slot that is not empty,
\* and never beyond the slot behind the bucket.
LEMMA NextSlot ==
    ASSUME HashTyped, NEW i \in Bucket, NEW s, s = Hash!OtherSlot("next", i)
    PROVE  /\ s \in i + 1 .. bucket_end
           /\ s # bucket_end => s \in Bucket /\ table[s] # <<>>
           /\ \A t \in i + 1 .. s - 1 : table[t] = <<>>
<1> DEFINE S == {t \in {u \in Hash!Slots : table[u] # <<>>} : i < t /\ t < Hash!Stop("next")}
                   \cup {Hash!Stop("next")}
<1>1. Hash!Stop("next") = bucket_end
  BY DEF Hash!Stop
<1>2. Bucket = bucket_begin .. bucket_end - 1 /\ bucket_begin \in Nat /\ bucket_end \in Nat
  BY DEF Bucket, HashTyped
<1>3. bucket_end \in S /\ \A t \in S : t \in i + 1 .. bucket_end /\ (t # bucket_end => table[t] # <<>>)
  BY <1>1, <1>2 DEF Hash!Slots
<1>4. \A t \in i + 1 .. bucket_end - 1 : table[t] # <<>> => t \in S
  BY <1>1, <1>2, HashParameters DEF Hash!Slots, HashTyped
<1>5. s = Hash!Min(S)
  BY DEF Hash!OtherSlot
<1> HIDE DEF S
<1>6. s \in S /\ \A t \in S : s <= t
  <2>1. S \in SUBSET Int /\ S # {} /\ \A t \in S : i <= t
    BY <1>2, <1>3
  <2>2. i \in Int
    BY <1>2
  <2>3. Hash!Min(S) \in S /\ \A t \in S : Hash!Min(S) <= t
    BY <2>1, <2>2, MinOf
  <2> QED
    BY <1>5, <2>3, Zenon
<1>7. s \in i + 1 .. bucket_end /\ (s # bucket_end => table[s] # <<>>)
  BY <1>3, <1>6
<1>8. s # bucket_end => s \in Bucket
  BY <1>2, <1>7
<1>9. ASSUME NEW t \in i + 1 .. s - 1
      PROVE  table[t] = <<>>
  <2>1. t \in i + 1 .. bucket_end - 1 /\ ~(s <= t)
    BY <1>2, <1>7
  <2> QED
    BY <1>4, <1>6, <2>1
<1> QED
  BY <1>7, <1>8, <1>9

LEMMA PrevSlot ==
    ASSUME HashTyped, NEW i \in Bucket, NEW s, s = Hash!OtherSlot("prev", i)
    PROVE  /\ s \in bucket_begin - 1 .. i - 1
           /\ s # bucket_begin - 1 => s \in Bucket /\ table[s] # <<>>
           /\ \A t \in s + 1 .. i - 1 : table[t] = <<>>
<1> DEFINE S == {t \in {u \in Hash!Slots : table[u] # <<>>} : Hash!Stop("prev") < t /\ t < i}
                   \cup {Hash!Stop("prev")}
<1>1. Hash!Stop("prev") = bucket_begin - 1
  BY DEF Hash!Stop
<1>2. Bucket = bucket_begin .. bucket_end - 1 /\ bucket_begin \in Nat /\ bucket_end \in Nat
  BY DEF Bucket, HashTyped
<1>3. /\ bucket_begin - 1 \in S
      /\ \A t \in S : t \in bucket_begin - 1 .. i - 1 /\ (t # bucket_begin - 1 => table[t] # <<>>)
  BY <1>1, <1>2 DEF Hash!Slots
<1>4. \A t \in bucket_begin .. i - 1 : table[t] # <<>> => t \in S
  BY <1>1, <1>2, HashParameters DEF Hash!Slots, HashTyped
<1>5. s = Hash!Max(S)
  BY DEF Hash!OtherSlot
<1> HIDE DEF S
<1>6. s \in S /\ \A t \in S : t <= s
  <2>1. S \in SUBSET Int /\ S # {} /\ i \in Int /\ \A t \in S : t <= i
    BY <1>2, <1>3
  <2> QED
    BY <1>2, <1>5, <2>1, MaxOf
<1>7. s \in bucket_begin - 1 .. i - 1 /\ (s # bucket_begin - 1 => table[s] # <<>>)
  BY <1>3, <1>6
<1>8. s # bucket_begin - 1 => s \in Bucket
  BY <1>2, <1>7
<1>9. ASSUME NEW t \in s + 1 .. i - 1
      PROVE  table[t] = <<>>
  <2>1. t \in bucket_begin .. i - 1 /\ ~(t <= s)
    BY <1>2, <1>7
  <2> QED
    BY <1>4, <1>6, <2>1
<1> QED
  BY <1>7, <1>8, <1>9

\* A position of the iterator: on no node, or on a node of the bucket.
Position(q) ==
    /\ q.index \in Int
    /\ q.node # NULL => /\ q.index \in Bucket
                        /\ q.node \in HashNode
                        /\ q.node \in Hash!Range(table[q.index])

LEMMA OnwardsPosition ==
    ASSUME HashTyped, NEW i \in Bucket, NEW d \in Hash!Dir, NEW q, q = Hash!Onwards(d, i)
    PROVE  Position(q) /\ q.index # i
<1> DEFINE s == Hash!OtherSlot(d, i)
<1>1. q.index = s /\ q.node = Hash!Edge(d, s)
  BY DEF Hash!Onwards
<1>2. s \in Int /\ s # i /\ (s # Hash!Stop(d) => s \in Bucket /\ table[s] # <<>>)
  <2>1. bucket_begin \in Int /\ bucket_end \in Int /\ i \in Int
    BY BucketInTable DEF HashTyped
  <2>2. CASE d = "next"
    BY <2>1, <2>2, NextSlot DEF Hash!Stop
  <2>3. CASE d = "prev"
    BY <2>1, <2>3, PrevSlot DEF Hash!Stop
  <2> QED
    BY <2>2, <2>3 DEF Hash!Dir
<1> HIDE DEF s
<1>3. CASE s = Hash!Stop(d)
  BY <1>1, <1>2, <1>3 DEF Hash!Edge, Position
<1>4. CASE s # Hash!Stop(d)
  <2>1. table[s] \in Seq(HashNode) /\ table[s] # <<>>
    BY <1>2, <1>4, BucketInTable DEF HashTyped
  <2>2. 1 \in DOMAIN table[s] /\ Len(table[s]) \in DOMAIN table[s]
    BY <2>1
  <2>3. PICK j \in DOMAIN table[s] : q.node = table[s][j]
    BY <1>1, <1>4, <2>2 DEF Hash!Edge
  <2> QED
    BY <1>1, <1>2, <1>4, <2>1, <2>3 DEF Position, Hash!Range
<1> QED
  BY <1>3, <1>4

LEMMA BesidePosition ==
    ASSUME HashInv, NEW i \in Bucket, NEW d \in Hash!Dir,
           NEW n, n \in Hash!Range(table[i]), NEW q, q = Hash!Beside(d, n, i)
    PROVE  Position(q) /\ q.node # n
<1> DEFINE s == table[i]
           at == Hash!Place(s, n) + (IF d = "next" THEN 1 ELSE -1)
<1>1. s \in Seq(HashNode) /\ SlotOK(s, i) /\ HashTyped /\ i \in Int
  BY BucketInTable DEF HashInv, HashTyped
<1>2. Hash!Place(s, n) \in 1 .. Len(s) /\ s[Hash!Place(s, n)] = n
  BY <1>1, PlaceOf
<1>3. CASE at \in DOMAIN s
  <2>1. q.node = s[at] /\ q.index = i
    BY <1>3 DEF Hash!Beside
  <2>2. at # Hash!Place(s, n) /\ Hash!Place(s, n) \in DOMAIN s
    BY <1>1, <1>2
  <2>3. s[at] # n
    BY <1>1, <1>2, <1>3, <2>2 DEF SlotOK
  <2> QED
    BY <1>1, <1>3, <2>1, <2>3 DEF Position, Hash!Range
<1>4. CASE at \notin DOMAIN s
  <2>1. q = Hash!Onwards(d, i)
    BY <1>4 DEF Hash!Beside
  <2>2. Position(q) /\ q.index # i
    BY <1>1, <2>1, OnwardsPosition
  <2>3. q.node # n
    <3> SUFFICES ASSUME q.node = n PROVE FALSE
      OBVIOUS
    <3>1. n \in HashNode /\ n # NULL /\ Hash!Slot(HashKey[n]) = i
      <4>1. PICK j \in DOMAIN s : n = s[j]
        BY <1>1, <1>2
      <4> QED
        BY <1>1, <4>1, HashParameters DEF SlotOK
    <3>2. q.index \in Bucket /\ n \in Hash!Range(table[q.index])
      BY <2>2, <3>1 DEF Position
    <3>3. SlotOK(table[q.index], q.index)
      BY <1>1, <3>2, BucketInTable DEF HashInv
    <3>4. Hash!Slot(HashKey[n]) = q.index
      BY <3>2, <3>3 DEF SlotOK, Hash!Range
    <3> QED
      BY <2>2, <3>1, <3>4
  <2> QED
    BY <2>2, <2>3
<1> QED
  BY <1>3, <1>4
-----------------------------------------------------------------------------
\* What a call does to the table.
TableOK ==
    /\ hash_type \in {"list", "rbtree"}
    /\ table \in [Hash!Slots -> Seq(HashNode)]
    /\ \A k \in Hash!Slots : SlotOK(table[k], k)

Keeps(n) ==                     \* every node but n stays in its slot
    \A k \in Hash!Slots : \A m \in Hash!Range(table[k]) \ {n} : m \in Hash!Range(table'[k])

ChangesOnly(k) == \A t \in Hash!Slots \ {k} : table'[t] = table[t]

LEMMA SlotStaysOK ==
    ASSUME hash_type' = hash_type, NEW s, NEW k
    PROVE  SlotOK(s, k)' <=> SlotOK(s, k)
BY DEF SlotOK

LEMMA SlotChanges ==
    ASSUME TableOK, hash_type' = hash_type, NEW k \in Hash!Slots,
           NEW w \in Seq(HashNode), SlotOK(w, k), table' = [table EXCEPT ![k] = w]
    PROVE  TableOK' /\ table'[k] = w /\ ChangesOnly(k)
<1>1. table' \in [Hash!Slots -> Seq(HashNode)] /\ table'[k] = w /\ ChangesOnly(k)
  BY DEF TableOK, ChangesOnly
<1>2. ASSUME NEW t \in Hash!Slots PROVE SlotOK(table[t], t)'
  <2>1. PICK s : s = table'[t]
    OBVIOUS
  <2>2. SlotOK(s, t)
    BY <1>1, <2>1 DEF TableOK, ChangesOnly
  <2>3. SlotOK(s, t)'
    BY <2>2, SlotStaysOK
  <2> QED
    BY <2>1, <2>3 DEF SlotOK
<1> QED
  BY <1>1, <1>2 DEF TableOK

LEMMA TakenOut ==
    ASSUME TableOK, hash_type' = hash_type, NEW n \in HashNode, Hash!TakeOut(n)
    PROVE  TableOK' /\ Keeps(n) /\ ChangesOnly(Hash!Slot(HashKey[n]))
<1>1. PICK k \in Hash!Slots : k = Hash!Slot(HashKey[n])
  BY SlotOf
<1>2. PICK w : w = Hash!Without(table[k], n)
  OBVIOUS
<1>3. table[k] \in Seq(HashNode) /\ SlotOK(table[k], k)
  BY DEF TableOK
<1>4. w \in Seq(HashNode) /\ SlotOK(w, k) /\ Hash!Range(w) = Hash!Range(table[k]) \ {n}
  BY <1>2, <1>3, WithoutOK
<1>5. table' = [table EXCEPT ![k] = w]
  BY <1>1, <1>2 DEF Hash!TakeOut
<1>6. TableOK' /\ table'[k] = w /\ ChangesOnly(k)
  BY <1>4, <1>5, SlotChanges
<1>7. Keeps(n)
  <2>1. ASSUME NEW t \in Hash!Slots, NEW m \in Hash!Range(table[t]) \ {n}
        PROVE  m \in Hash!Range(table'[t])
    <3>1. CASE t = k
      BY <1>4, <1>6, <2>1, <3>1
    <3>2. CASE t # k
      BY <1>6, <2>1, <3>2 DEF ChangesOnly
    <3> QED
      BY <3>1, <3>2
  <2> QED
    BY <2>1 DEF Keeps
<1> QED
  BY <1>1, <1>6, <1>7

LEMMA PutIn ==
    ASSUME TableOK, hash_type' = hash_type, NEW n \in HashNode, n \notin Hash!InTable,
           NEW k, k = Hash!Slot(HashKey[n]), NEW i \in 0 .. Len(table[k]),
           table' = [table EXCEPT ![k] = Hash!Filed(table[k], i, n)]
    PROVE  TableOK' /\ Keeps(NULL) /\ ChangesOnly(k) /\ n \in Hash!Range(table'[k])
<1>1. k \in Hash!Slots
  BY SlotOf
<1>2. PICK w : w = Hash!Filed(table[k], i, n)
  OBVIOUS
<1>3. table[k] \in Seq(HashNode) /\ SlotOK(table[k], k) /\ hash_type \in {"list", "rbtree"}
  BY <1>1 DEF TableOK
<1>4. n \notin Hash!Range(table[k])
  BY DEF Hash!InTable
<1>5. w \in Seq(HashNode) /\ SlotOK(w, k) /\ Hash!Range(w) = Hash!Range(table[k]) \cup {n}
  BY <1>2, <1>3, <1>4, FiledOK
<1>6. TableOK' /\ table'[k] = w /\ ChangesOnly(k)
  BY <1>1, <1>2, <1>5, SlotChanges
<1>7. Keeps(NULL)
  <2>1. ASSUME NEW t \in Hash!Slots, NEW m \in Hash!Range(table[t])
        PROVE  m \in Hash!Range(table'[t])
    <3>1. CASE t = k
      BY <1>5, <1>6, <2>1, <3>1
    <3>2. CASE t # k
      BY <1>6, <2>1, <3>2 DEF ChangesOnly
    <3> QED
      BY <3>1, <3>2
  <2> QED
    BY <2>1 DEF Keeps
<1> QED
  BY <1>5, <1>6, <1>7
-----------------------------------------------------------------------------
\* The invariant, in the two parts that a call changes.
BucketOK ==
    /\ bucket_begin \in Nat /\ bucket_end \in Nat
    /\ bucket_begin < bucket_end /\ bucket_end <= ht_len
    /\ GrantedOK(granted, bucket_begin, bucket_end)

Here == [node |-> current, index |-> current_index]

LEMMA HashInvParts ==
    HashInv <=> /\ TableOK /\ BucketOK
                /\ current \in HashNode \cup {NULL}
                /\ Position(Here)
<1>1. ASSUME HashInv
      PROVE  /\ TableOK /\ BucketOK
             /\ current \in HashNode \cup {NULL}
             /\ Position(Here)
  BY <1>1 DEF HashInv, HashTyped, TableOK, BucketOK, Position, Here
<1>2. ASSUME TableOK, BucketOK, current \in HashNode \cup {NULL}, Position(Here)
      PROVE  HashInv
  BY <1>2 DEF HashInv, HashTyped, TableOK, BucketOK, Position, Here
<1> QED
  BY <1>1, <1>2

LEMMA HashInvPartsPrime ==
    ASSUME TableOK', BucketOK', (current \in HashNode \cup {NULL})', Position(Here)'
    PROVE  HashInv'
BY DEF HashInv, HashTyped, TableOK, BucketOK, Position, Here

\* A call that leaves the cursor alone, or gives it a position, and takes away
\* no node that the cursor is on.
LEMMA CursorStays ==
    ASSUME HashInv, TableOK', UNCHANGED Hash!bucket, UNCHANGED <<current, current_index>>,
           NEW n, Keeps(n), n # current \/ n = NULL
    PROVE  HashInv'
<1>1. BucketOK' /\ (current \in HashNode \cup {NULL})' /\ Bucket' = Bucket
  BY HashInvParts DEF BucketOK, Bucket, Hash!bucket
<1>2. Position(Here)'
  <2>1. current_index' \in Int
    BY DEF HashInv, HashTyped
  <2>2. ASSUME current # NULL
        PROVE  current_index \in Bucket /\ current \in HashNode /\ current \in Hash!Range(table'[current_index])
    <3>1. current_index \in Bucket /\ current \in HashNode /\ current \in Hash!Range(table[current_index])
      BY <2>2 DEF HashInv, HashTyped
    <3>2. current_index \in Hash!Slots /\ n # current
      BY <2>2, <3>1, BucketInTable DEF HashInv
    <3> QED
      BY <3>1, <3>2 DEF Keeps
  <2> QED
    BY <1>1, <2>1, <2>2 DEF Position, Here, Hash!Range
<1> QED
  BY <1>1, <1>2, HashInvPartsPrime

\* A call that moves the cursor to a position q, and leaves the node there.
LEMMA CursorMoves ==
    ASSUME HashInv, TableOK', UNCHANGED Hash!bucket,
           NEW q, Position(q), q.node \in HashNode \cup {NULL}, Hash!GoTo(q),
           NEW n, Keeps(n), n # q.node \/ n = NULL
    PROVE  HashInv'
<1>1. BucketOK' /\ Bucket' = Bucket
  BY HashInvParts DEF BucketOK, Bucket, Hash!bucket
<1>2. current' = q.node /\ current_index' = q.index
  BY DEF Hash!GoTo
<1>3. Position(Here)'
  <2>1. current_index' \in Int
    BY <1>2 DEF Position
  <2>2. ASSUME q.node # NULL
        PROVE  q.index \in Bucket /\ q.node \in HashNode /\ q.node \in Hash!Range(table'[q.index])
    <3>1. q.index \in Bucket /\ q.node \in HashNode /\ q.node \in Hash!Range(table[q.index])
      BY <2>2 DEF Position
    <3>2. q.index \in Hash!Slots /\ n # q.node
      BY <2>2, <3>1, BucketInTable DEF HashInv
    <3> QED
      BY <3>1, <3>2 DEF Keeps
  <2> QED
    BY <1>1, <1>2, <2>1, <2>2 DEF Position, Here, Hash!Range
<1> QED
  BY <1>1, <1>2, <1>3, HashInvPartsPrime

\* What leaves the table alone keeps all its nodes.
LEMMA TableStays ==
    ASSUME HashInv, UNCHANGED <<hash_type, table>>
    PROVE  TableOK' /\ Keeps(NULL) /\ \A k : ChangesOnly(k)
BY HashInvParts DEF TableOK, SlotOK, Keeps, ChangesOnly

\* A node of the table: it is in the slot of its key, and in no other.
LEMMA NodeOfTable ==
    ASSUME HashInv, NEW k \in Hash!Slots, NEW n \in Hash!Range(table[k])
    PROVE  n \in HashNode /\ n # NULL /\ k = Hash!Slot(HashKey[n])
<1>1. table[k] \in Seq(HashNode) /\ SlotOK(table[k], k)
  BY HashInvParts DEF TableOK
<1>2. PICK i \in DOMAIN table[k] : n = table[k][i]
  BY DEF Hash!Range
<1> QED
  BY <1>1, <1>2, HashParameters DEF SlotOK

LEMMA CursorInBucket ==
    ASSUME HashInv, current # NULL
    PROVE  /\ current_index \in Bucket /\ current_index \in Hash!Slots
           /\ current \in HashNode /\ current \in Hash!Range(table[current_index])
           /\ current_index = Hash!Slot(HashKey[current])
<1>1. current_index \in Bucket /\ current \in Hash!Range(table[current_index])
  BY DEF HashInv
<1>2. current_index \in Hash!Slots
  BY <1>1, BucketInTable DEF HashInv
<1> QED
  BY <1>1, <1>2, NodeOfTable
-----------------------------------------------------------------------------
LEMMA HashInit == Hash!Init => HashInv
<1> SUFFICES ASSUME Hash!Init PROVE HashInv
  OBVIOUS
<1>1. hash_type \in {"list", "rbtree"} /\ current = NULL /\ current_index = 0
      /\ bucket_begin = 0 /\ bucket_end = ht_len
      /\ GrantedOK(granted, bucket_begin, bucket_end)
  BY HashParameters DEF Hash!Init, GrantedOK
<1>2. table \in [Hash!Slots -> Seq(HashNode)] /\ \A k \in Hash!Slots : table[k] = <<>>
  BY EmptySeq DEF Hash!Init
<1>3. \A k \in Hash!Slots : SlotOK(table[k], k)
  BY <1>2 DEF SlotOK
<1> QED
  BY <1>1, <1>2, <1>3, HashParameters DEF HashInv, HashTyped

LEMMA InsertStep ==
    ASSUME HashInv, NEW n \in HashNode, Hash!Insert(n)
    PROVE  HashInv'
<1>1. PICK k : k = Hash!Slot(HashKey[n])
  OBVIOUS
<1>2. k \in Hash!Slots /\ TableOK
  BY <1>1, SlotOf, HashInvParts
<1>3. 0 \in 0 .. Len(table[k])
  BY <1>2 DEF TableOK
<1>4. hash_type' = hash_type /\ n \notin Hash!InTable
      /\ table' = [table EXCEPT ![k] = Hash!Filed(table[k], 0, n)]
  BY <1>1 DEF Hash!Insert
<1>5. TableOK' /\ Keeps(NULL)
  BY <1>1, <1>2, <1>3, <1>4, PutIn
<1> QED
  BY <1>5, CursorStays DEF Hash!Insert, Hash!iter

LEMMA RemoveStep ==
    ASSUME HashInv, NEW n \in HashNode, n # current, Hash!TakeOut(n),
           UNCHANGED <<hash_type, Hash!iter, Hash!bucket>>
    PROVE  HashInv'
<1>1. TableOK' /\ Keeps(n)
  BY TakenOut, HashInvParts
<1> QED
  BY <1>1, CursorStays DEF Hash!iter

\* What a search may return.
LEMMA HitsInSlot ==
    ASSUME HashInv, NEW n \in HashNode, NEW h \in Hash!Hits(HashKey[n]), h # NULL
    PROVE  /\ h \in HashNode
           /\ h \in Hash!Range(table[Hash!Slot(HashKey[n])])
           /\ Hash!Slot(HashKey[h]) = Hash!Slot(HashKey[n])
<1>1. PICK k \in Hash!Slots : k = Hash!Slot(HashKey[n])
  BY SlotOf
<1> DEFINE same == {i \in DOMAIN table[k] : HashKey[table[k][i]] = HashKey[n]}
<1>2. DOMAIN table[k] = 1 .. Len(table[k]) /\ Len(table[k]) \in Nat
  BY HashInvParts DEF TableOK
<1>3. PICK i \in same : h = table[k][i]
  <2>1. CASE hash_type # "list"
    BY <1>1, <2>1 DEF Hash!Hits
  <2>2. CASE hash_type = "list"
    <3>1. same # {} /\ h = table[k][Hash!Min(same)]
      BY <1>1, <2>2 DEF Hash!Hits
    <3>2. same \in SUBSET Int /\ \A a \in same : 0 <= a
      BY <1>2
    <3>3. Hash!Min(same) \in same
      BY <3>1, <3>2, MinOf
    <3> QED
      BY <3>1, <3>3
  <2> QED
    BY <2>1, <2>2
<1>4. h \in Hash!Range(table[k])
  BY <1>3 DEF Hash!Range
<1> QED
  BY <1>1, <1>4, NodeOfTable

LEMMA FirstIsPosition ==
    ASSUME HashInv, NEW d \in Hash!Dir, NEW q, q = Hash!FirstPosition(d)
    PROVE  Position(q) /\ q.node \in HashNode \cup {NULL}
<1> DEFINE i == IF d = "next" THEN bucket_begin ELSE bucket_end - 1
<1>1. HashTyped /\ i \in Bucket /\ i \in Int
  BY DEF HashInv, HashTyped, Bucket
<1>2. i # Hash!Stop(d)
  BY <1>1 DEF Hash!Stop, HashTyped
<1>3. q = IF table[i] # <<>> THEN [node |-> Hash!Edge(d, i), index |-> i]
          ELSE IF hash_type = "list" THEN Hash!Onwards(d, i) ELSE [node |-> NULL, index |-> i]
  BY DEF Hash!FirstPosition
<1> HIDE DEF i
<1>4. CASE table[i] # <<>>
  <2>1. table[i] \in Seq(HashNode)
    BY <1>1, BucketInTable DEF HashTyped
  <2>2. 1 \in DOMAIN table[i] /\ Len(table[i]) \in DOMAIN table[i]
    BY <1>4, <2>1
  <2>3. PICK j \in DOMAIN table[i] : Hash!Edge(d, i) = table[i][j]
    BY <1>2, <2>2 DEF Hash!Edge
  <2>4. q.node = table[i][j] /\ q.index = i
    BY <1>3, <1>4, <2>3
  <2> QED
    BY <1>1, <2>1, <2>3, <2>4 DEF Position, Hash!Range
<1>5. CASE table[i] = <<>> /\ hash_type = "list"
  <2>1. q = Hash!Onwards(d, i)
    BY <1>3, <1>5
  <2>2. Position(q)
    BY <1>1, <2>1, OnwardsPosition
  <2> QED
    BY <2>2 DEF Position
<1>6. CASE table[i] = <<>> /\ hash_type # "list"
  BY <1>1, <1>3, <1>6 DEF Position
<1> QED
  BY <1>4, <1>5, <1>6

LEMMA BeginStep ==
    ASSUME HashInv, NEW d \in Hash!Dir, Hash!Begin(d)
    PROVE  HashInv'
<1>1. PICK q : q = Hash!FirstPosition(d)
  OBVIOUS
<1>2. Position(q) /\ q.node \in HashNode \cup {NULL}
  BY <1>1, FirstIsPosition
<1>3. TableOK' /\ Keeps(NULL)
  BY TableStays DEF Hash!Begin
<1>4. Hash!GoTo(q) /\ UNCHANGED Hash!bucket
  BY <1>1 DEF Hash!Begin
<1> QED
  BY <1>2, <1>3, <1>4, CursorMoves

LEMMA MoveStep ==
    ASSUME HashInv, NEW d \in Hash!Dir, Hash!Move(d)
    PROVE  HashInv'
<1>1. TableOK' /\ Keeps(NULL) /\ UNCHANGED Hash!bucket
  BY TableStays DEF Hash!Move
<1>2. CASE current = NULL
  BY <1>1, <1>2, CursorStays DEF Hash!Move
<1>3. CASE current # NULL
  <2>1. PICK q : q = Hash!Beside(d, current, current_index)
    OBVIOUS
  <2>2. PICK n, i : n = current /\ i = current_index
    OBVIOUS
  <2>3. Position(q)
    BY <1>3, <2>1, <2>2, CursorInBucket, BesidePosition
  <2>4. Hash!GoTo(q)
    BY <1>3, <2>1 DEF Hash!Move
  <2>5. q.node \in HashNode \cup {NULL}
    BY <2>3 DEF Position
  <2> QED
    BY <1>1, <2>3, <2>4, <2>5, CursorMoves
<1> QED
  BY <1>2, <1>3

\* What is granted is in the bucket.
LEMMA GrantedInBucket ==
    ASSUME HashInv, NEW k \in Int, Hash!IsGranted(k)
    PROVE  k \in Bucket
<1>1. /\ GrantedOK(granted, bucket_begin, bucket_end)
      /\ bucket_begin \in Int /\ bucket_end \in Int
  BY DEF HashInv, HashTyped
<1>2. granted.begin <= k /\ k < granted.end
  BY DEF Hash!IsGranted
<1>3. bucket_begin <= k /\ k < bucket_end
  BY <1>1, <1>2 DEF GrantedOK
<1> QED
  BY <1>1, <1>3 DEF Bucket

\* And the bucket is granted, but for what lies before it after a refusal.
LEMMA BucketGranted ==
    ASSUME HashInv, NEW k \in Bucket
    PROVE  Hash!IsGranted(k) \/ (granted.refused /\ k < granted.end)
<1>1. /\ GrantedOK(granted, bucket_begin, bucket_end)
      /\ bucket_begin \in Int /\ bucket_end \in Int
  BY DEF HashInv, HashTyped
<1>2. k \in Int /\ bucket_begin <= k /\ k < bucket_end
  BY <1>1 DEF Bucket
<1> QED
  BY <1>1, <1>2 DEF GrantedOK, Hash!IsGranted

LEMMA IterSearchStep ==
    ASSUME HashInv, NEW n \in HashNode, Hash!IterSearch(HashKey[n])
    PROVE  HashInv'
<1>1. PICK h \in Hash!Hits(HashKey[n]) : h = current'
  BY DEF Hash!IterSearch
<1>2. PICK q : q = [node |-> h, index |-> Hash!Slot(HashKey[n])]
  OBVIOUS
<1>3. q.index \in Bucket
  <2>1. Hash!Slot(HashKey[n]) \in Int
    BY SlotOf DEF Hash!Slots
  <2>2. Hash!IsGranted(Hash!Slot(HashKey[n]))
    BY DEF Hash!IterSearch
  <2> QED
    BY <1>2, <2>1, <2>2, GrantedInBucket
<1>4. Position(q)
  <2>1. q.node # NULL => q.node \in HashNode /\ q.node \in Hash!Range(table[q.index])
    BY <1>1, <1>2, HitsInSlot
  <2>2. q.index \in Int
    BY <1>3, BucketInTable DEF HashInv
  <2> QED
    BY <1>3, <2>1, <2>2 DEF Position
<1>5. q.node \in HashNode \cup {NULL}
  BY <1>4 DEF Position
<1>6. TableOK' /\ Keeps(NULL) /\ UNCHANGED Hash!bucket /\ Hash!GoTo(q)
  BY <1>1, <1>2, TableStays DEF Hash!IterSearch, Hash!GoTo
<1> QED
  BY <1>4, <1>5, <1>6, CursorMoves

\* Inserting beside the cursor: the place is one of the slot, and what is
\* inserted is in the bucket.
LEMMA IterInsertPut ==
    ASSUME HashInv, NEW d \in Hash!Dir, NEW n \in HashNode, Hash!IterInsert(d, n),
           NEW k, k = Hash!Slot(HashKey[n])
    PROVE  /\ k \in Bucket
           /\ TableOK' /\ Keeps(NULL) /\ ChangesOnly(k) /\ n \in Hash!Range(table'[k])
           /\ UNCHANGED Hash!bucket /\ current' = n /\ current_index' = k
<1>1. k \in Hash!Slots /\ k \in Int /\ Hash!IsGranted(k)
  BY SlotOf DEF Hash!Slots, Hash!IterInsert
<1>2. k \in Bucket
  BY <1>1, GrantedInBucket
<1>3. TableOK /\ table[k] \in Seq(HashNode) /\ Len(table[k]) \in Nat
  BY <1>1, HashInvParts DEF TableOK
<1> DEFINE at == IF k = current_index /\ current # NULL THEN Hash!Place(table[k], current)
                 ELSE IF d = "next" THEN 0 ELSE Len(table[k]) + 1
<1>4. at \in Int /\ (IF d = "next" THEN at ELSE at - 1) \in 0 .. Len(table[k])
  <2>1. CASE k = current_index /\ current # NULL
    <3>1. current \in Hash!Range(table[k])
      BY <2>1, CursorInBucket
    <3>2. at \in 1 .. Len(table[k])
      BY <1>3, <2>1, <3>1, PlaceOf
    <3> QED
      BY <1>3, <3>2
  <2>2. CASE ~(k = current_index /\ current # NULL)
    BY <1>3, <2>2
  <2> QED
    BY <2>1, <2>2
<1>5. PICK i \in 0 .. Len(table[k]) : i = IF d = "next" THEN at ELSE at - 1
  BY <1>4
<1>6. /\ table' = [table EXCEPT ![k] = Hash!Filed(table[k], i, n)]
      /\ hash_type' = hash_type /\ n \notin Hash!InTable
      /\ UNCHANGED Hash!bucket /\ current' = n /\ current_index' = k
  BY <1>5 DEF Hash!IterInsert, Hash!GoTo
<1>7. TableOK' /\ Keeps(NULL) /\ ChangesOnly(k) /\ n \in Hash!Range(table'[k])
  BY <1>3, <1>6, PutIn
<1> QED
  BY <1>2, <1>6, <1>7

LEMMA IterInsertStep ==
    ASSUME HashInv, NEW d \in Hash!Dir, NEW n \in HashNode, Hash!IterInsert(d, n)
    PROVE  HashInv'
<1>1. PICK k : k = Hash!Slot(HashKey[n])
  OBVIOUS
<1>2. /\ k \in Bucket
      /\ TableOK' /\ n \in Hash!Range(table'[k])
      /\ UNCHANGED Hash!bucket /\ current' = n /\ current_index' = k
  BY <1>1, IterInsertPut
<1>3. BucketOK' /\ Bucket' = Bucket /\ k \in Int
  BY <1>2, HashInvParts, BucketInTable DEF BucketOK, Bucket, Hash!bucket, HashInv
<1>4. Position(Here)'
  BY <1>2, <1>3 DEF Position, Here, Hash!Range
<1> QED
  BY <1>2, <1>3, <1>4, HashInvPartsPrime

LEMMA IterRemoveSelfStep ==
    ASSUME HashInv, Hash!IterRemoveSelf
    PROVE  /\ HashInv'
           /\ current_index \in Bucket /\ ChangesOnly(current_index)
<1>1. PICK n, i : n = current /\ i = current_index
  OBVIOUS
<1>2. /\ i \in Bucket /\ i \in Hash!Slots /\ n \in HashNode
      /\ n \in Hash!Range(table[i]) /\ i = Hash!Slot(HashKey[n])
  BY <1>1, CursorInBucket DEF Hash!IterRemoveSelf
<1>3. PICK d \in Hash!Dir : Hash!GoTo(Hash!Beside(d, n, i))
  BY <1>1 DEF Hash!IterRemoveSelf, Hash!Dir
<1>4. PICK q : q = Hash!Beside(d, n, i)
  OBVIOUS
<1>5. Position(q) /\ q.node # n
  BY <1>2, <1>4, BesidePosition
<1>6. q.node \in HashNode \cup {NULL}
  BY <1>5 DEF Position
<1>7. Hash!GoTo(q) /\ Hash!TakeOut(n) /\ hash_type' = hash_type /\ UNCHANGED Hash!bucket
  BY <1>1, <1>3, <1>4 DEF Hash!IterRemoveSelf
<1>8. TableOK' /\ Keeps(n) /\ ChangesOnly(i)
  BY <1>2, <1>7, TakenOut, HashInvParts
<1> QED
  BY <1>1, <1>2, <1>5, <1>6, <1>7, <1>8, CursorMoves

LEMMA IterRemoveBesideStep ==
    ASSUME HashInv, NEW d \in Hash!Dir, Hash!IterRemoveBeside(d)
    PROVE  HashInv' /\ \E k \in Bucket : ChangesOnly(k)
<1>1. PICK n, i : n = current /\ i = current_index
  OBVIOUS
<1>2. i \in Bucket /\ n \in HashNode /\ n \in Hash!Range(table[i])
  BY <1>1, CursorInBucket DEF Hash!IterRemoveBeside
<1>3. PICK q : q = Hash!Beside(d, n, i)
  OBVIOUS
<1>4. Position(q) /\ q.node # n
  BY <1>2, <1>3, BesidePosition
<1>5. /\ IF q.node = NULL THEN UNCHANGED table ELSE Hash!TakeOut(q.node)
      /\ UNCHANGED <<hash_type, current, current_index, Hash!bucket>>
  BY <1>1, <1>3 DEF Hash!IterRemoveBeside
<1>6. CASE q.node = NULL
  <2>1. TableOK' /\ Keeps(NULL) /\ ChangesOnly(i)
    BY <1>5, <1>6, TableStays
  <2> QED
    BY <1>2, <1>5, <2>1, CursorStays
<1>7. CASE q.node # NULL
  <2>1. /\ q.index \in Bucket /\ q.node \in HashNode /\ q.node # current
        /\ q.index = Hash!Slot(HashKey[q.node])
    <3>1. q.index \in Bucket /\ q.node \in Hash!Range(table[q.index])
      BY <1>4, <1>7 DEF Position
    <3>2. q.index \in Hash!Slots
      BY <3>1, BucketInTable DEF HashInv
    <3> QED
      BY <1>1, <1>4, <3>1, <3>2, NodeOfTable
  <2>2. TableOK' /\ Keeps(q.node) /\ ChangesOnly(q.index)
    BY <1>5, <1>7, <2>1, TakenOut, HashInvParts
  <2> QED
    BY <1>5, <2>1, <2>2, CursorStays
<1> QED
  BY <1>6, <1>7

LEMMA SetBucketStep ==
    ASSUME HashInv, NEW size \in BucketSizes, NEW id \in 0 .. ht_len, Hash!SetBucket(size, id)
    PROVE  HashInv'
<1>1. size \in Nat \ {0} /\ id \in Nat /\ ht_len \in Nat \ {0}
  BY HashParameters
<1>2. PICK b \in Nat : b = size * id
  BY <1>1
<1>3. current = NULL /\ current' = NULL /\ UNCHANGED <<hash_type, table>>
  BY DEF Hash!SetBucket, Hash!iter
<1>4. TableOK'
  BY <1>3, TableStays
<1>5. BucketOK' /\ current_index' \in Int
  <2>1. BucketOK /\ current_index \in Int
    BY HashInvParts DEF HashInv, HashTyped
  <2>2. CASE b >= ht_len
    <3>1. /\ bucket_begin' = 0 /\ bucket_end' = bucket_end /\ current_index' = current_index
          /\ granted' = [granted EXCEPT !.refused = TRUE]
      BY <1>1, <1>2, <2>2 DEF Hash!SetBucket, Hash!iter
    <3>2. GrantedOK(granted', 0, bucket_end)
      BY <2>1, <3>1 DEF BucketOK, GrantedOK
    <3> QED
      BY <1>1, <2>1, <3>1, <3>2 DEF BucketOK
  <2>3. CASE ~(b >= ht_len)
    <3>1. PICK S : S = {b + size, ht_len}
      OBVIOUS
    <3>2. S \in SUBSET Int /\ S # {} /\ \A a \in S : 0 <= a
      BY <1>1, <3>1
    <3>3. Hash!Min(S) \in S /\ \A a \in S : Hash!Min(S) <= a
      BY <3>2, MinOf
    <3>4. /\ bucket_begin' = b /\ bucket_end' = Hash!Min(S) /\ current_index' = b
          /\ granted' = [begin |-> bucket_begin', end |-> bucket_end', refused |-> FALSE]
      BY <1>1, <1>2, <2>3, <3>1 DEF Hash!SetBucket, Hash!EndOf
    <3>5. GrantedOK(granted', bucket_begin', bucket_end')
      BY <3>4 DEF GrantedOK
    <3> QED
      BY <1>1, <2>3, <3>1, <3>3, <3>4, <3>5 DEF BucketOK
  <2> QED
    BY <2>2, <2>3
<1>6. Position(Here)'
  BY <1>3, <1>5 DEF Position, Here
<1> QED
  BY <1>3, <1>4, <1>5, <1>6, HashInvPartsPrime
-----------------------------------------------------------------------------
\* Taking a node out of the middle part takes it out of the row.
LEMMA WithoutInRow ==
    ASSUME NEW row, NEW a, NEW s, NEW z, Parts(row, a, s, z),
           NEW n, n \in Hash!Range(s), n \notin Hash!Range(a), n \notin Hash!Range(z),
           \A i, j \in DOMAIN s : s[i] = s[j] => i = j,
           NEW row2, Parts(row2, a, Hash!Without(s, n), z)
    PROVE  row2 = Hash!Without(row, n)
<1>1. PICK La, Ls, Lz \in Nat : La = Len(a) /\ Ls = Len(s) /\ Lz = Len(z)
  BY DEF Parts
<1>2. PICK q : q = Hash!Place(s, n)
  OBVIOUS
<1>3. /\ q \in 1 .. Ls /\ n \in Hash!Range(row) /\ Hash!Place(row, n) = La + q
  BY <1>1, <1>2, PlaceInRow
<1>4. PICK w, v : w = Hash!Without(s, n) /\ v = Hash!Without(row, n)
  OBVIOUS
<1>5. /\ Len(w) = Ls - 1
      /\ \A j \in 1 .. Ls - 1 : w[j] = IF j < q THEN s[j] ELSE s[j + 1]
  BY <1>1, <1>2, <1>4, WithoutElements DEF Parts
<1>6. row \in Seq(HashNode) /\ Len(row) = La + Ls + Lz
  BY <1>1 DEF Parts
<1>7. /\ v \in Seq(HashNode) /\ Len(v) = La + Ls + Lz - 1
      /\ \A j \in 1 .. La + Ls + Lz - 1 : v[j] = IF j < La + q THEN row[j] ELSE row[j + 1]
  BY <1>3, <1>4, <1>6, WithoutElements
<1>8. /\ row2 \in Seq(HashNode) /\ DOMAIN row2 = 1 .. La + Ls + Lz - 1
      /\ Len(row2) = La + Ls + Lz - 1
  BY <1>1, <1>4, <1>5 DEF Parts
<1>9. /\ \A j \in 1 .. La : row[j] = a[j]
      /\ \A j \in 1 .. Ls : row[La + j] = s[j]
      /\ \A j \in 1 .. Lz : row[La + Ls + j] = z[j]
  BY <1>1 DEF Parts
<1>10. ASSUME NEW j \in 1 .. La + Ls + Lz - 1
       PROVE  row2[j] = v[j]
  <2>1. \/ j \in 1 .. La /\ row2[j] = a[j]
        \/ j - La \in 1 .. Ls - 1 /\ row2[j] = w[j - La]
        \/ j - (La + (Ls - 1)) \in 1 .. Lz /\ row2[j] = z[j - (La + (Ls - 1))]
    <3>1. j \in DOMAIN row2 /\ Parts(row2, a, w, z)
      BY <1>4, <1>8
    <3> QED
      BY <1>1, <1>5, <3>1, WhichPart
  <2>2. CASE j \in 1 .. La /\ row2[j] = a[j]
    <3>1. row2[j] = row[j]
      BY <1>9, <2>2
    <3>2. j < La + q
      BY <1>3, <2>2
    <3>3. v[j] = IF j < La + q THEN row[j] ELSE row[j + 1]
      BY <1>7
    <3> QED
      BY <3>1, <3>2, <3>3
  <2>3. CASE j - La \in 1 .. Ls - 1 /\ row2[j] = w[j - La]
    <3>1. PICK l \in 1 .. Ls - 1 : l = j - La /\ j = La + l /\ j + 1 = La + (l + 1)
      BY <2>3
    <3>2. row[La + l] = s[l] /\ row[La + (l + 1)] = s[l + 1]
      BY <1>9, <3>1
    <3>3. l < q <=> j < La + q
      BY <1>3, <3>1
    <3>4. w[l] = IF l < q THEN s[l] ELSE s[l + 1]
      BY <1>5
    <3>5. v[j] = IF j < La + q THEN row[j] ELSE row[j + 1]
      BY <1>7
    <3> QED
      BY <2>3, <3>1, <3>2, <3>3, <3>4, <3>5
  <2>4. CASE j - (La + (Ls - 1)) \in 1 .. Lz /\ row2[j] = z[j - (La + (Ls - 1))]
    <3>1. PICK l \in 1 .. Lz : l = j - (La + (Ls - 1)) /\ j + 1 = La + Ls + l
      BY <2>4
    <3>2. row[j + 1] = z[l]
      BY <1>9, <3>1
    <3>3. ~(j < La + q)
      BY <1>3, <3>1
    <3> QED
      BY <1>7, <2>4, <3>1, <3>2, <3>3
  <2> QED
    BY <2>1, <2>2, <2>3, <2>4
<1>11. Len(row2) = Len(v) /\ \A j \in 1 .. Len(row2) : row2[j] = v[j]
  BY <1>7, <1>8, <1>10
<1>12. row2 = v
  BY <1>7, <1>8, <1>11, SeqEqual
<1> QED
  BY <1>4, <1>12

\* The row of the bucket, around slot i.
Around(row, a, z, i) ==
    /\ Before(a, table, bucket_begin, i) /\ Behind(z, table, i + 1, bucket_end)
    /\ Parts(row, a, table[i], z)

LEMMA BucketHolds ==
    ASSUME HashInv
    PROVE  SlotsHold(table, bucket_begin, bucket_end)
<1>1. ASSUME NEW t \in Bucket
      PROVE  /\ table[t] \in Seq(HashNode)
             /\ \A n \in Hash!Range(table[t]) : Hash!Slot(HashKey[n]) = t
  <2>1. t \in Hash!Slots
    BY BucketInTable DEF HashInv
  <2> QED
    BY <2>1, NodeOfTable DEF HashInv, HashTyped
<1> QED
  BY <1>1 DEF SlotsHold, Bucket

LEMMA RowAround ==
    ASSUME HashInv, NEW i \in Bucket
    PROVE  \E a, z : Around(Hash!Row, a, z, i)
<1>1. PICK tab, b, e : tab = table /\ b = bucket_begin /\ e = bucket_end
  OBVIOUS
<1>2. b \in Int /\ e \in Int /\ i \in b .. e - 1 /\ SlotsHold(tab, b, e)
  BY <1>1, BucketHolds DEF HashInv, HashTyped, Bucket
<1>3. tab[i] \in Seq(HashNode)
  BY <1>2 DEF SlotsHold
<1>4. PICK a, z : /\ Before(a, tab, b, i) /\ Behind(z, tab, i + 1, e)
                  /\ RowFcn(tab, b, e)[b] = (a \o tab[i]) \o z
  <2>1. SameBut(tab, tab, b, e, i)
    BY DEF SameBut
  <2>2. SameAround(tab, tab, b, e, i)
    BY <1>2, <1>3, <2>1, RowAroundSlot
  <2> QED
    BY <2>2 DEF SameAround
<1>5. Hash!Row = (a \o tab[i]) \o z
  BY <1>1, <1>4, RowIsFcn
<1>6. a \in Seq(HashNode) /\ z \in Seq(HashNode)
  BY <1>4 DEF Before, Behind
<1>7. Parts((a \o tab[i]) \o z, a, tab[i], z)
  BY <1>3, <1>6, ThreeParts
<1> QED
  BY <1>1, <1>4, <1>5, <1>7 DEF Around

\* What the loops over slots find is the neighbour in the row.
LEMMA OnwardsInRow ==
    ASSUME HashInv, NEW i \in Bucket, NEW a, NEW z, Around(Hash!Row, a, z, i)
    PROVE  /\ Hash!Onwards("next", i).node = IF z = <<>> THEN NULL ELSE z[1]
           /\ Hash!Onwards("prev", i).node = IF a = <<>> THEN NULL ELSE a[Len(a)]
<1>1. bucket_begin \in Int /\ bucket_end \in Int /\ i \in Int /\ i \in bucket_begin .. bucket_end - 1
  BY DEF HashInv, HashTyped, Bucket
<1>2. HashTyped
  BY DEF HashInv
<1>3. Hash!Onwards("next", i).node = IF z = <<>> THEN NULL ELSE z[1]
  <2>1. PICK t : t = Hash!OtherSlot("next", i)
    OBVIOUS
  <2>2. /\ t \in i + 1 .. bucket_end
        /\ t # bucket_end => table[t] # <<>>
        /\ \A u \in i + 1 .. t - 1 : table[u] = <<>>
    BY <1>2, <2>1, NextSlot
  <2>3. Hash!Onwards("next", i).node = IF t = bucket_end THEN NULL ELSE table[t][1]
    BY <2>1 DEF Hash!Onwards, Hash!Edge, Hash!Stop
  <2>4. CASE t = bucket_end
    <3>1. z = <<>>
      BY <2>2, <2>4 DEF Around, Behind
    <3> QED
      BY <2>3, <2>4, <3>1
  <2>5. CASE t # bucket_end
    <3>1. t \in i + 1 .. bucket_end - 1
      BY <1>1, <2>2, <2>5
    <3>2. z # <<>> /\ z[1] = table[t][1]
      BY <2>2, <2>5, <3>1 DEF Around, Behind
    <3> QED
      BY <2>3, <2>5, <3>2
  <2> QED
    BY <2>4, <2>5
<1>4. Hash!Onwards("prev", i).node = IF a = <<>> THEN NULL ELSE a[Len(a)]
  <2>1. PICK t : t = Hash!OtherSlot("prev", i)
    OBVIOUS
  <2>2. /\ t \in bucket_begin - 1 .. i - 1
        /\ t # bucket_begin - 1 => table[t] # <<>>
        /\ \A u \in t + 1 .. i - 1 : table[u] = <<>>
    BY <1>2, <2>1, PrevSlot
  <2>3. Hash!Onwards("prev", i).node =
           IF t = bucket_begin - 1 THEN NULL ELSE table[t][Len(table[t])]
    BY <2>1 DEF Hash!Onwards, Hash!Edge, Hash!Stop
  <2>4. CASE t = bucket_begin - 1
    <3>1. \A u \in bucket_begin .. i - 1 : table[u] = <<>>
      BY <1>1, <2>2, <2>4
    <3>2. a = <<>>
      BY <3>1 DEF Around, Before
    <3> QED
      BY <2>3, <2>4, <3>2
  <2>5. CASE t # bucket_begin - 1
    <3>1. t \in bucket_begin .. i - 1
      BY <1>1, <2>2, <2>5
    <3>2. a # <<>> /\ a[Len(a)] = table[t][Len(table[t])]
      BY <2>2, <2>5, <3>1 DEF Around, Before
    <3> QED
      BY <2>3, <2>5, <3>2
  <2> QED
    BY <2>4, <2>5
<1> QED
  BY <1>3, <1>4

\* The neighbours of a place in the middle part.
InSeq(s, i) == IF i \in DOMAIN s THEN s[i] ELSE NULL
FirstOf(z) == IF z = <<>> THEN NULL ELSE z[1]
LastOf(a) == IF a = <<>> THEN NULL ELSE a[Len(a)]

LEMMA BesidePlace ==
    ASSUME NEW row, NEW a, NEW s, NEW z, Parts(row, a, s, z), NEW q \in 1 .. Len(s)
    PROVE  /\ InSeq(row, (Len(a) + q) + 1) = IF q + 1 \in DOMAIN s THEN s[q + 1] ELSE FirstOf(z)
           /\ InSeq(row, (Len(a) + q) + -1) = IF q + -1 \in DOMAIN s THEN s[q + -1] ELSE LastOf(a)
<1>1. PICK La, Ls, Lz \in Nat : La = Len(a) /\ Ls = Len(s) /\ Lz = Len(z)
  BY DEF Parts
<1>2. /\ DOMAIN row = 1 .. La + Ls + Lz /\ DOMAIN s = 1 .. Ls /\ q \in 1 .. Ls
      /\ (a = <<>> <=> La = 0) /\ (z = <<>> <=> Lz = 0)
  BY <1>1, EmptySeq DEF Parts
<1>3. /\ \A j \in 1 .. La : row[j] = a[j]
      /\ \A j \in 1 .. Ls : row[La + j] = s[j]
      /\ \A j \in 1 .. Lz : row[La + Ls + j] = z[j]
  BY <1>1 DEF Parts
<1>4. InSeq(row, (La + q) + 1) = IF q + 1 \in DOMAIN s THEN s[q + 1] ELSE FirstOf(z)
  <2>1. CASE q + 1 \in 1 .. Ls
    <3>1. (La + q) + 1 = La + (q + 1) /\ (La + q) + 1 \in DOMAIN row
      BY <1>2, <2>1
    <3>2. row[(La + q) + 1] = s[q + 1]
      BY <1>3, <2>1, <3>1
    <3> QED
      BY <1>2, <2>1, <3>1, <3>2 DEF InSeq
  <2>2. CASE q + 1 \notin 1 .. Ls
    <3>1. q = Ls /\ (La + q) + 1 = La + Ls + 1
      BY <1>2, <2>2
    <3>2. CASE Lz = 0
      <4>1. (La + q) + 1 \notin DOMAIN row
        BY <1>2, <3>1, <3>2
      <4> QED
        BY <1>2, <2>2, <3>2, <4>1 DEF InSeq, FirstOf
    <3>3. CASE Lz # 0
      <4>1. 1 \in 1 .. Lz /\ (La + q) + 1 \in DOMAIN row
        BY <1>2, <3>1, <3>3
      <4>2. row[(La + q) + 1] = z[1]
        BY <1>3, <3>1, <4>1
      <4> QED
        BY <1>2, <2>2, <3>3, <4>1, <4>2 DEF InSeq, FirstOf
    <3> QED
      BY <3>2, <3>3
  <2> QED
    BY <2>1, <2>2
<1>5. InSeq(row, (La + q) + -1) = IF q + -1 \in DOMAIN s THEN s[q + -1] ELSE LastOf(a)
  <2>1. CASE q + -1 \in 1 .. Ls
    <3>1. (La + q) + -1 = La + (q + -1) /\ (La + q) + -1 \in DOMAIN row
      BY <1>2, <2>1
    <3>2. row[(La + q) + -1] = s[q + -1]
      BY <1>3, <2>1, <3>1
    <3> QED
      BY <1>2, <2>1, <3>1, <3>2 DEF InSeq
  <2>2. CASE q + -1 \notin 1 .. Ls
    <3>1. q = 1 /\ (La + q) + -1 = La
      BY <1>2, <2>2
    <3>2. CASE La = 0
      <4>1. (La + q) + -1 \notin DOMAIN row
        BY <1>2, <3>1, <3>2
      <4> QED
        BY <1>2, <2>2, <3>2, <4>1 DEF InSeq, LastOf
    <3>3. CASE La # 0
      <4>1. La \in 1 .. La /\ La \in DOMAIN row
        BY <1>2, <3>3
      <4>2. row[La] = a[La]
        BY <1>3, <4>1
      <4> QED
        BY <1>1, <1>2, <2>2, <3>1, <3>3, <4>1, <4>2 DEF InSeq, LastOf
    <3> QED
      BY <3>2, <3>3
  <2> QED
    BY <2>1, <2>2
<1> QED
  BY <1>1, <1>4, <1>5

\* A node of slot i is in no other part of the row, and once in its own.
OnlyThere(n, a, s, z) ==
    /\ n \in Hash!Range(s) /\ n \notin Hash!Range(a) /\ n \notin Hash!Range(z)
    /\ \A i, j \in DOMAIN s : s[i] = s[j] => i = j

LEMMA InOnePart ==
    ASSUME HashInv, NEW i \in Bucket, NEW a, NEW z, Around(Hash!Row, a, z, i),
           NEW n, n \in Hash!Range(table[i])
    PROVE  OnlyThere(n, a, table[i], z)
<1>1. i \in Hash!Slots /\ i \in Int
  BY BucketInTable DEF HashInv
<1>2. Hash!Slot(HashKey[n]) = i
  BY <1>1, NodeOfTable
<1>3. n \notin Hash!Range(a)
  BY <1>1, <1>2 DEF Around, Before
<1>4. n \notin Hash!Range(z)
  BY <1>1, <1>2 DEF Around, Behind
<1>5. SlotOK(table[i], i)
  BY <1>1 DEF HashInv
<1> QED
  BY <1>3, <1>4, <1>5 DEF OnlyThere, SlotOK

\* The position beside a node is the neighbour in the row.
LEMMA BesideInRow ==
    ASSUME HashInv, NEW i \in Bucket, NEW d \in Hash!Dir, NEW n, n \in Hash!Range(table[i])
    PROVE  Hash!Beside(d, n, i).node = Hash!RowBeside(d, n)
<1>1. PICK row, s : row = Hash!Row /\ s = table[i]
  OBVIOUS
<1>2. PICK a, z : Around(Hash!Row, a, z, i)
  BY RowAround
<1>3. Parts(row, a, s, z)
  BY <1>1, <1>2 DEF Around
<1>4. OnlyThere(n, a, s, z)
  BY <1>1, <1>2, InOnePart
<1>5. PICK q : q = Hash!Place(s, n)
  OBVIOUS
<1>6. Hash!Place(row, n) = Len(a) + q /\ q \in 1 .. Len(s)
  BY <1>3, <1>4, <1>5, PlaceInRow DEF OnlyThere
<1>7. /\ Hash!Onwards("next", i).node = FirstOf(z)
      /\ Hash!Onwards("prev", i).node = LastOf(a)
  BY <1>2, OnwardsInRow DEF FirstOf, LastOf
<1>8. /\ InSeq(row, (Len(a) + q) + 1) = IF q + 1 \in DOMAIN s THEN s[q + 1] ELSE FirstOf(z)
      /\ InSeq(row, (Len(a) + q) + -1) = IF q + -1 \in DOMAIN s THEN s[q + -1] ELSE LastOf(a)
  BY <1>3, <1>6, BesidePlace
<1>9. CASE d = "next"
  <2>1. Hash!RowBeside(d, n) = InSeq(row, (Len(a) + q) + 1)
    BY <1>1, <1>6, <1>9 DEF Hash!RowBeside, Hash!InRow, InSeq
  <2>2. Hash!Beside(d, n, i).node = IF q + 1 \in DOMAIN s THEN s[q + 1] ELSE Hash!Onwards("next", i).node
    BY <1>1, <1>5, <1>9 DEF Hash!Beside
  <2> QED
    BY <1>7, <1>8, <2>1, <2>2
<1>10. CASE d = "prev"
  <2>1. Hash!RowBeside(d, n) = InSeq(row, (Len(a) + q) + -1)
    BY <1>1, <1>6, <1>10 DEF Hash!RowBeside, Hash!InRow, InSeq
  <2>2. Hash!Beside(d, n, i).node = IF q + -1 \in DOMAIN s THEN s[q + -1] ELSE Hash!Onwards("prev", i).node
    BY <1>1, <1>5, <1>10 DEF Hash!Beside
  <2> QED
    BY <1>7, <1>8, <2>1, <2>2
<1> QED
  BY <1>9, <1>10 DEF Hash!Dir

\* The ends of a row.
LEMMA EndPlaces ==
    ASSUME NEW row, NEW a, NEW s, NEW z, Parts(row, a, s, z)
    PROVE  /\ a = <<>> => InSeq(row, 1) = IF s # <<>> THEN s[1] ELSE FirstOf(z)
           /\ z = <<>> => InSeq(row, Len(row)) = IF s # <<>> THEN s[Len(s)] ELSE LastOf(a)
<1>1. PICK La, Ls, Lz \in Nat : La = Len(a) /\ Ls = Len(s) /\ Lz = Len(z)
  BY DEF Parts
<1>2. /\ DOMAIN row = 1 .. La + Ls + Lz /\ Len(row) = La + Ls + Lz
      /\ (a = <<>> <=> La = 0) /\ (s = <<>> <=> Ls = 0) /\ (z = <<>> <=> Lz = 0)
  BY <1>1, EmptySeq DEF Parts
<1>3. /\ \A j \in 1 .. La : row[j] = a[j]
      /\ \A j \in 1 .. Ls : row[La + j] = s[j]
      /\ \A j \in 1 .. Lz : row[La + Ls + j] = z[j]
  BY <1>1 DEF Parts
<1>4. ASSUME a = <<>>
      PROVE  InSeq(row, 1) = IF s # <<>> THEN s[1] ELSE FirstOf(z)
  <2>1. La = 0
    BY <1>2, <1>4
  <2>2. CASE Ls # 0
    <3>1. 1 \in 1 .. Ls /\ La + 1 = 1 /\ 1 \in DOMAIN row
      BY <1>2, <2>1, <2>2
    <3>2. row[1] = s[1]
      BY <1>3, <3>1
    <3> QED
      BY <1>2, <2>2, <3>1, <3>2 DEF InSeq
  <2>3. CASE Ls = 0 /\ Lz # 0
    <3>1. 1 \in 1 .. Lz /\ La + Ls + 1 = 1 /\ 1 \in DOMAIN row
      BY <1>2, <2>1, <2>3
    <3>2. row[1] = z[1]
      BY <1>3, <3>1
    <3> QED
      BY <1>2, <2>3, <3>1, <3>2 DEF InSeq, FirstOf
  <2>4. CASE Ls = 0 /\ Lz = 0
    <3>1. 1 \notin DOMAIN row
      BY <1>2, <2>1, <2>4
    <3> QED
      BY <1>2, <2>4, <3>1 DEF InSeq, FirstOf
  <2> QED
    BY <2>2, <2>3, <2>4
<1>5. ASSUME z = <<>>
      PROVE  InSeq(row, Len(row)) = IF s # <<>> THEN s[Len(s)] ELSE LastOf(a)
  <2>1. Lz = 0 /\ Len(row) = La + Ls
    BY <1>2, <1>5
  <2>2. CASE Ls # 0
    <3>1. Ls \in 1 .. Ls /\ La + Ls \in DOMAIN row
      BY <1>2, <2>1, <2>2
    <3>2. row[La + Ls] = s[Ls]
      BY <1>3, <3>1
    <3> QED
      BY <1>1, <1>2, <2>1, <2>2, <3>1, <3>2 DEF InSeq
  <2>3. CASE Ls = 0 /\ La # 0
    <3>1. La \in 1 .. La /\ La + Ls = La /\ La \in DOMAIN row
      BY <1>2, <2>1, <2>3
    <3>2. row[La] = a[La]
      BY <1>3, <3>1
    <3> QED
      BY <1>1, <1>2, <2>1, <2>3, <3>1, <3>2 DEF InSeq, LastOf
  <2>4. CASE Ls = 0 /\ La = 0
    <3>1. Len(row) \notin DOMAIN row
      BY <1>2, <2>1, <2>4
    <3> QED
      BY <1>2, <2>4, <3>1 DEF InSeq, LastOf
  <2> QED
    BY <2>2, <2>3, <2>4
<1> QED
  BY <1>4, <1>5

\* begin and end find the end of the row, unless the first slot they look
\* into is an empty tree.
LEMMA FirstInRow ==
    ASSUME HashInv, NEW d \in Hash!Dir
    PROVE  Hash!FirstPosition(d).node \in
               {Hash!RowEnd(d)} \cup (IF hash_type = "list" THEN {} ELSE {NULL})
<1>1. PICK i : i = IF d = "next" THEN bucket_begin ELSE bucket_end - 1
  OBVIOUS
<1>2. HashTyped /\ i \in Bucket /\ i \in Int /\ bucket_begin \in Int /\ bucket_end \in Int
  BY <1>1 DEF HashInv, HashTyped, Bucket
<1>3. i # Hash!Stop(d)
  BY <1>1, <1>2 DEF Hash!Stop, HashTyped
<1>4. PICK row, s : row = Hash!Row /\ s = table[i]
  OBVIOUS
<1>5. PICK a, z : Around(Hash!Row, a, z, i)
  BY <1>2, RowAround
<1>6. Parts(row, a, s, z)
  BY <1>4, <1>5 DEF Around
<1>7. /\ Hash!Onwards("next", i).node = FirstOf(z)
      /\ Hash!Onwards("prev", i).node = LastOf(a)
  BY <1>2, <1>5, OnwardsInRow DEF FirstOf, LastOf
<1>8. /\ a = <<>> => InSeq(row, 1) = IF s # <<>> THEN s[1] ELSE FirstOf(z)
      /\ z = <<>> => InSeq(row, Len(row)) = IF s # <<>> THEN s[Len(s)] ELSE LastOf(a)
  BY <1>6, EndPlaces
<1>9. Hash!FirstPosition(d) =
         IF table[i] # <<>> THEN [node |-> Hash!Edge(d, i), index |-> i]
         ELSE IF hash_type = "list" THEN Hash!Onwards(d, i) ELSE [node |-> NULL, index |-> i]
  BY <1>1 DEF Hash!FirstPosition
<1>10. CASE d = "next"
  <2>1. a = <<>>
    <3>1. bucket_begin .. i - 1 = {}
      BY <1>1, <1>2, <1>10
    <3> QED
      BY <1>5, <3>1 DEF Around, Before
  <2>2. Hash!RowEnd(d) = InSeq(row, 1)
    BY <1>4, <1>10 DEF Hash!RowEnd, Hash!InRow, InSeq
  <2>3. Hash!Edge(d, i) = s[1]
    BY <1>3, <1>4, <1>10 DEF Hash!Edge
  <2> QED
    BY <1>4, <1>7, <1>8, <1>9, <1>10, <2>1, <2>2, <2>3
<1>11. CASE d = "prev"
  <2>1. z = <<>>
    <3>1. i + 1 .. bucket_end - 1 = {}
      BY <1>1, <1>2, <1>11
    <3> QED
      BY <1>5, <3>1 DEF Around, Behind
  <2>2. Hash!RowEnd(d) = InSeq(row, Len(row))
    BY <1>4, <1>11 DEF Hash!RowEnd, Hash!InRow, InSeq
  <2>3. Hash!Edge(d, i) = s[Len(s)]
    BY <1>3, <1>4, <1>11 DEF Hash!Edge
  <2> QED
    BY <1>4, <1>7, <1>8, <1>9, <1>11, <2>1, <2>2, <2>3
<1> QED
  BY <1>10, <1>11 DEF Hash!Dir

\* Taking a node out of a slot of the bucket takes it out of the row.
LEMMA TakenFromRow ==
    ASSUME HashInv, NEW i \in Bucket, NEW n, n \in Hash!Range(table[i]),
           Hash!TakeOut(n), UNCHANGED Hash!bucket
    PROVE  Hash!Row' = Hash!Without(Hash!Row, n)
<1>1. PICK tab, tab2, b, e :
          tab = table /\ tab2 = table' /\ b = bucket_begin /\ e = bucket_end
  OBVIOUS
<1>2. i \in Hash!Slots /\ HashTyped
  BY BucketInTable DEF HashInv
<1>3. /\ table' = [table EXCEPT ![i] = Hash!Without(table[i], n)]
      /\ tab[i] \in Seq(HashNode) /\ i = Hash!Slot(HashKey[n])
  BY <1>1, <1>2, NodeOfTable DEF Hash!TakeOut, HashTyped
<1>4. tab2[i] = Hash!Without(tab[i], n) /\ SameBut(tab, tab2, b, e, i)
  BY <1>1, <1>2, <1>3 DEF SameBut, HashTyped
<1>5. tab2[i] \in Seq(HashNode)
  BY <1>1, <1>3, <1>4, WithoutElements
<1>6. b \in Int /\ e \in Int /\ i \in b .. e - 1 /\ SlotsHold(tab, b, e)
  BY <1>1, BucketHolds DEF HashInv, HashTyped, Bucket
<1>7. SameAround(tab, tab2, b, e, i)
  BY <1>4, <1>5, <1>6, RowAroundSlot
<1>8. PICK a, z : /\ Before(a, tab, b, i) /\ Behind(z, tab, i + 1, e)
                  /\ RowFcn(tab, b, e)[b] = (a \o tab[i]) \o z
                  /\ RowFcn(tab2, b, e)[b] = (a \o tab2[i]) \o z
  BY <1>7 DEF SameAround
<1>9. PICK row, row2 : row = Hash!Row /\ row2 = Hash!Row'
  OBVIOUS
<1>10. row = (a \o tab[i]) \o z
  BY <1>1, <1>8, <1>9, RowIsFcn
<1>11. row2 = (a \o tab2[i]) \o z
  <2>1. bucket_begin' = b /\ bucket_end' = e /\ table' = tab2
    BY <1>1 DEF Hash!bucket
  <2>2. row2 = RowFcn(tab2, b, e)[b]
    BY <1>9, <2>1 DEF Hash!Row, RowFcn, OnRow
  <2> QED
    BY <1>8, <2>2
<1>12. a \in Seq(HashNode) /\ z \in Seq(HashNode)
  BY <1>8 DEF Before, Behind
<1>13. Parts(row, a, tab[i], z) /\ Parts(row2, a, tab2[i], z)
  BY <1>3, <1>5, <1>10, <1>11, <1>12, ThreeParts
<1>14. OnlyThere(n, a, tab[i], z)
  <2>1. Around(Hash!Row, a, z, i)
    BY <1>1, <1>8, <1>9, <1>13 DEF Around
  <2> QED
    BY <1>1, <2>1, InOnePart
<1>15. Parts(row2, a, Hash!Without(tab[i], n), z)
  BY <1>4, <1>13
<1>16. row2 = Hash!Without(row, n)
  BY <1>13, <1>14, <1>15, WithoutInRow DEF OnlyThere
<1> QED
  BY <1>9, <1>16

LEMMA NullNotInRow ==
    ASSUME HashInv
    PROVE  Hash!Without(Hash!Row, NULL) = Hash!Row
<1>1. bucket_begin \in Bucket
  BY DEF HashInv, HashTyped, Bucket
<1>2. PICK a, z : Around(Hash!Row, a, z, bucket_begin)
  BY <1>1, RowAround
<1>3. Hash!Row \in Seq(HashNode)
  BY <1>2 DEF Around, Parts
<1>4. NULL \notin Hash!Range(Hash!Row)
  BY <1>3, HashParameters DEF Hash!Range
<1> QED
  BY <1>4 DEF Hash!Without
-----------------------------------------------------------------------------
LEMMA HashStays ==
    ASSUME HashInv, UNCHANGED hash_vars
    PROVE  HashInv'
<1>1. TableOK' /\ Keeps(NULL)
  BY TableStays DEF hash_vars
<1> QED
  BY <1>1, CursorStays DEF hash_vars, Hash!bucket

LEMMA IterSteps ==
    ASSUME HashInv, Hash!IterNext
    PROVE  HashInv'
<1>1. CASE Hash!IterRemoveSelf
  BY <1>1, IterRemoveSelfStep
<1>2. ASSUME NEW d \in Hash!Dir, Hash!Begin(d) \/ Hash!Move(d) \/ Hash!IterRemoveBeside(d)
      PROVE  HashInv'
  BY <1>2, BeginStep, MoveStep, IterRemoveBesideStep
<1>3. ASSUME NEW d \in Hash!Dir, NEW n \in HashNode, Hash!IterInsert(d, n)
      PROVE  HashInv'
  BY <1>3, IterInsertStep
<1>4. ASSUME NEW n \in HashNode, Hash!IterSearch(HashKey[n])
      PROVE  HashInv'
  BY <1>4, IterSearchStep
<1> QED
  BY <1>1, <1>2, <1>3, <1>4 DEF Hash!IterNext

LEMMA HashSteps ==
    ASSUME HashInv, [Hash!Next]_hash_vars
    PROVE  HashInv'
<1>1. ASSUME NEW n \in HashNode, Hash!Insert(n) \/ Hash!Insearch(n)
      PROVE  HashInv'
  BY <1>1, InsertStep DEF Hash!Insearch
<1>2. ASSUME NEW n \in HashNode, Hash!RemoveNode(n)
      PROVE  HashInv'
  BY <1>2, RemoveStep DEF Hash!RemoveNode
<1>3. ASSUME NEW n \in HashNode, Hash!Remove(HashKey[n])
      PROVE  HashInv'
  <2>1. PICK h \in Hash!Hits(HashKey[n]) \ {NULL} :
            /\ h # current /\ Hash!TakeOut(h)
            /\ UNCHANGED <<hash_type, Hash!iter, Hash!bucket>>
    BY <1>3 DEF Hash!Remove
  <2>2. h \in HashNode
    BY HitsInSlot
  <2> QED
    BY <2>1, <2>2, RemoveStep
<1>4. ASSUME NEW size \in BucketSizes, NEW id \in 0 .. ht_len, Hash!SetBucket(size, id)
      PROVE  HashInv'
  BY <1>4, SetBucketStep
<1>5. CASE UNCHANGED hash_vars
  BY <1>5, HashStays
<1> QED
  BY <1>1, <1>2, <1>3, <1>4, <1>5, IterSteps DEF Hash!Next

BothStep == [BothNext]_<<which, vars, hash_vars>>

LEMMA HashInBoth == BothStep => [Hash!Next]_hash_vars
BY DEF BothStep, BothNext

\* The invariant of the table and its iterator holds when a behaviour uses
\* trees or a table.
THEOREM HashInvariance == BothSpec => []HashInv
<1>1. BothInit => HashInv
  BY HashInit DEF BothInit
<1>2. HashInv /\ BothStep => HashInv'
  BY HashInBoth, HashSteps
<1> QED
  BY <1>1, <1>2, PTL DEF BothSpec, BothStep

\* Every node is in the slot of its key, there once, and in the order of a
\* tree, whatever is inserted, searched, walked over and removed.
THEOREM NodesAreFiled == BothSpec => []WellFiled
<1>1. HashInv => WellFiled
  BY DEF HashInv, SlotOK, WellFiled, Hash!WellFiled
<1> QED
  BY <1>1, HashInvariance, PTL

\* The cursor of the iterator stays on a node of the bucket, which is in the
\* slot that its index says.
THEOREM CursorIsInItsSlot == BothSpec => []CursorInItsSlot
<1>1. HashInv => CursorInItsSlot
  <2> SUFFICES ASSUME HashInv, current # NULL
               PROVE  /\ current_index \in bucket_begin .. bucket_end - 1
                      /\ current \in Hash!Range(table[current_index])
    BY DEF CursorInItsSlot, Hash!CursorInItsSlot
  <2> QED
    BY CursorInBucket DEF Bucket
<1> QED
  BY <1>1, HashInvariance, PTL

\* An iterator changes no slot outside the bucket that its client was granted
\* last, and if set_bucket has refused one since, none behind that bucket.
THEOREM BucketsAreApart == BothSpec => BucketIsTheLimit
<1>1. ASSUME HashInv, Hash!IterNext
      PROVE  \A s \in Hash!Slots \ Bucket : table'[s] = table[s]
  <2>1. ASSUME NEW k \in Bucket, ChangesOnly(k)
        PROVE  \A s \in Hash!Slots \ Bucket : table'[s] = table[s]
    BY <2>1 DEF ChangesOnly
  <2>2. CASE UNCHANGED table
    BY <2>2
  <2>3. CASE Hash!IterRemoveSelf
    BY <1>1, <2>1, <2>3, IterRemoveSelfStep
  <2>4. ASSUME NEW d \in Hash!Dir, Hash!IterRemoveBeside(d)
        PROVE  \A s \in Hash!Slots \ Bucket : table'[s] = table[s]
    BY <1>1, <2>1, <2>4, IterRemoveBesideStep
  <2>5. ASSUME NEW d \in Hash!Dir, NEW n \in HashNode, Hash!IterInsert(d, n)
        PROVE  \A s \in Hash!Slots \ Bucket : table'[s] = table[s]
    <3>1. PICK k : k = Hash!Slot(HashKey[n])
      OBVIOUS
    <3>2. k \in Bucket /\ ChangesOnly(k)
      BY <1>1, <2>5, <3>1, IterInsertPut
    <3> QED
      BY <2>1, <3>2
  <2> QED
    BY <1>1, <2>2, <2>3, <2>4, <2>5 DEF Hash!IterNext, Hash!Begin, Hash!Move, Hash!IterSearch
<1>2. ASSUME HashInv, Hash!IterNext, NEW s \in Hash!Slots, table'[s] # table[s]
      PROVE  Hash!IsGranted(s) \/ (granted.refused /\ s < granted.end)
  BY <1>1, <1>2, BucketGranted
<1>3. HashInv /\ BothStep =>
         [Hash!IterNext => \A s \in Hash!Slots : table'[s] # table[s] =>
             Hash!IsGranted(s) \/ (granted.refused /\ s < granted.end)]_(Hash!vars)
  BY <1>2
<1> QED
  BY <1>3, HashInvariance, PTL
  DEF BothSpec, BothStep, BucketIsTheLimit, Hash!BucketIsTheLimit

\* Slots, empty slots and the edges of the bucket do not show to the client
\* of the iterator: begin and end go to the ends of the row of all nodes of
\* the bucket, next and prev to the neighbour in it, and remove_next and
\* remove_prev take that neighbour out of it and leave the rest as it was.
THEOREM IteratorWalksTheRow == BothSpec => CursorWalksRow
<1>1. ASSUME HashInv, NEW d \in Hash!Dir, Hash!Begin(d)
      PROVE  current' \in {Hash!RowEnd(d)} \cup (IF hash_type = "list" THEN {} ELSE {NULL})
  BY <1>1, FirstInRow DEF Hash!Begin, Hash!GoTo
<1>2. ASSUME HashInv, NEW d \in Hash!Dir, Hash!Move(d), current # NULL
      PROVE  current' = Hash!RowBeside(d, current)
  <2>1. current' = Hash!Beside(d, current, current_index).node
    BY <1>2 DEF Hash!Move, Hash!GoTo
  <2>2. current_index \in Bucket /\ current \in Hash!Range(table[current_index])
    BY <1>2, CursorInBucket
  <2> QED
    BY <1>2, <2>1, <2>2, BesideInRow
<1>3. ASSUME HashInv, NEW d \in Hash!Dir, Hash!IterRemoveBeside(d)
      PROVE  Hash!Row' = Hash!Without(Hash!Row, Hash!RowBeside(d, current))
  <2>1. current_index \in Bucket /\ current \in Hash!Range(table[current_index])
    BY <1>3, CursorInBucket DEF Hash!IterRemoveBeside
  <2>2. PICK q : q = Hash!Beside(d, current, current_index)
    OBVIOUS
  <2>3. q.node = Hash!RowBeside(d, current)
    BY <1>3, <2>1, <2>2, BesideInRow
  <2>4. Position(q)
    BY <1>3, <2>1, <2>2, BesidePosition
  <2>5. UNCHANGED Hash!bucket
    BY <1>3 DEF Hash!IterRemoveBeside
  <2>6. CASE q.node = NULL
    <3>1. UNCHANGED <<table, bucket_begin, bucket_end>>
      BY <1>3, <2>2, <2>5, <2>6 DEF Hash!IterRemoveBeside, Hash!bucket
    <3>2. Hash!Row' = Hash!Row
      BY <3>1 DEF Hash!Row
    <3> QED
      BY <1>3, <2>3, <2>6, <3>2, NullNotInRow
  <2>7. CASE q.node # NULL
    <3>1. Hash!TakeOut(q.node)
      BY <1>3, <2>2, <2>7 DEF Hash!IterRemoveBeside
    <3>2. q.index \in Bucket /\ q.node \in Hash!Range(table[q.index])
      BY <2>4, <2>7 DEF Position
    <3>3. Hash!Row' = Hash!Without(Hash!Row, q.node)
      BY <1>3, <2>5, <3>1, <3>2, TakenFromRow
    <3> QED
      BY <2>3, <3>3
  <2> QED
    BY <2>6, <2>7
<1>4. HashInv /\ BothStep =>
      [\A d \in Hash!Dir :
        /\ Hash!Begin(d) => current' \in {Hash!RowEnd(d)} \cup (IF hash_type = "list" THEN {} ELSE {NULL})
        /\ Hash!Move(d) /\ current # NULL => current' = Hash!RowBeside(d, current)
        /\ Hash!IterRemoveBeside(d) => Hash!Row' = Hash!Without(Hash!Row, Hash!RowBeside(d, current))]_(Hash!vars)
  BY <1>1, <1>2, <1>3
<1> QED
  BY <1>4, HashInvariance, PTL
  DEF BothSpec, BothStep, CursorWalksRow, Hash!CursorWalksRow

\* remove_self: the cursor goes to the next node of the row, if there is one
\* and the flag of end() is not up, and to the previous one otherwise.
THEOREM RemovalGoesOn == BothSpec => RemoveSelfGoesOn
<1>1. ASSUME HashInv, Hash!IterRemoveSelf
      PROVE  current' = IF Hash!RowBeside("next", current) # NULL /\ flags # "last"
                        THEN Hash!RowBeside("next", current) ELSE Hash!RowBeside("prev", current)
  <2>1. current_index \in Bucket /\ current \in Hash!Range(table[current_index])
    BY <1>1, CursorInBucket DEF Hash!IterRemoveSelf
  <2>2. /\ Hash!Beside("next", current, current_index).node = Hash!RowBeside("next", current)
        /\ Hash!Beside("prev", current, current_index).node = Hash!RowBeside("prev", current)
    BY <1>1, <2>1, BesideInRow DEF Hash!Dir
  <2>3. CASE Hash!GoesBack
    <3>1. Hash!RowBeside("next", current) = NULL \/ flags = "last"
      BY <2>2, <2>3 DEF Hash!GoesBack
    <3>2. current' = Hash!Beside("prev", current, current_index).node
      BY <1>1, <2>3 DEF Hash!IterRemoveSelf, Hash!GoTo
    <3> QED
      BY <2>2, <3>1, <3>2
  <2>4. CASE ~Hash!GoesBack
    <3>1. Hash!RowBeside("next", current) # NULL /\ flags # "last"
      BY <2>2, <2>4 DEF Hash!GoesBack
    <3>2. current' = Hash!Beside("next", current, current_index).node
      BY <1>1, <2>4 DEF Hash!IterRemoveSelf, Hash!GoTo
    <3> QED
      BY <2>2, <3>1, <3>2
  <2> QED
    BY <2>3, <2>4
<1>2. HashInv /\ BothStep =>
      [Hash!IterRemoveSelf =>
         current' = IF Hash!RowBeside("next", current) # NULL /\ flags # "last"
                    THEN Hash!RowBeside("next", current)
                    ELSE Hash!RowBeside("prev", current)]_(Hash!vars)
  BY <1>1
<1> QED
  BY <1>2, HashInvariance, PTL
  DEF BothSpec, BothStep, RemoveSelfGoesOn, Hash!RemoveSelfGoesOn
-----------------------------------------------------------------------------

\* What is below a node: itself, and what is below its children.
LEMMA UnderParts ==
    ASSUME NEW up, NEW kid \in KIDS, NEW r, NEW P, Shape(up, kid, r, P), NEW n \in P
    PROVE  /\ n \in Under(kid, n) /\ Under(kid, n) \in SUBSET P
           /\ \A e : e \in Under(kid, n) <=> e = n \/ \E d \in Side : e \in Under(kid, kid[n][d])
<1>1. /\ P \in SUBSET Node /\ n \in Node /\ n \in Pointer /\ n # NULL
      /\ \A d \in Side : kid[n][d] \in Pointer
  BY NullIsNoNode DEF Shape, Pointer, KIDS
<1>2. n \in Under(kid, n) /\ Closed(kid, Under(kid, n)) /\ Under(kid, n) \in SUBSET P
  <2>1. Under(kid, n) \in SUBSET Node /\ n \in Under(kid, n) /\ Closed(kid, Under(kid, n))
    BY <1>1, UnderIs DEF KIDS
  <2>2. Closed(kid, P)
    BY DEF Shape, Closed
  <2> QED
    BY <1>1, <2>1, <2>2, UnderIs DEF KIDS
<1>3. ASSUME NEW d \in Side
      PROVE  /\ Under(kid, kid[n][d]) \subseteq Under(kid, n)
             /\ kid[n][d] # NULL => kid[n][d] \in Under(kid, kid[n][d])
             /\ Closed(kid, Under(kid, kid[n][d]))
  <2>1. CASE kid[n][d] = NULL
    BY <2>1, UnderNull DEF Closed
  <2>2. CASE kid[n][d] # NULL
    BY <1>1, <2>2, UnderKid, UnderIs DEF KIDS
  <2> QED
    BY <2>1, <2>2
<1>4. PICK C \in SUBSET Node : C = {e \in P : e = n \/ \E d \in Side : e \in Under(kid, kid[n][d])}
  BY <1>1
<1>5. Closed(kid, C)
  <2>1. ASSUME NEW e \in C, NEW s \in Side, kid[e][s] # NULL
        PROVE  kid[e][s] \in C
    <3>1. kid[e][s] \in P
      BY <1>4, <2>1 DEF Shape
    <3>2. CASE e = n
      BY <1>3, <1>4, <2>1, <3>1, <3>2
    <3>3. CASE e # n
      <4>1. PICK d \in Side : e \in Under(kid, kid[n][d])
        BY <1>4, <3>3
      <4>2. kid[e][s] \in Under(kid, kid[n][d])
        BY <1>3, <2>1, <4>1 DEF Closed
      <4> QED
        BY <1>4, <3>1, <4>2
    <3> QED
      BY <3>2, <3>3
  <2> QED
    BY <2>1 DEF Closed
<1>6. Under(kid, n) \subseteq C
  <2>1. n \in C
    BY <1>4
  <2> QED
    BY <1>1, <1>5, <2>1, UnderIs DEF KIDS
<1> QED
  BY <1>2, <1>3, <1>4, <1>6

\* A function that looks at what it finds further on has values, too.
Fallback(f, D, stop, v, w, step) ==
    f = [n \in D |-> IF n \in stop THEN v[n]
                     ELSE IF f[step[n]] = NULL THEN w[n] ELSE f[step[n]]]

LEMMA FallbackIs ==
    ASSUME NEW D, IsFiniteSet(D), NEW stop, NEW v, NEW w, NEW step,
           \A n \in D : n \in stop \/ step[n] \in D, LeadsOut(D, stop, step)
    PROVE  \E f : Fallback(f, D, stop, v, w, step)
<1> DEFINE Val(g, a) == IF a \in stop THEN v[a] ELSE IF g[step[a]] = NULL THEN w[a] ELSE g[step[a]]
           Part(A, g) == \A a \in A : /\ a \in stop \/ step[a] \in A
                                     /\ g[a] = Val(g, a)
           F == {A \in SUBSET D : \E g : Part(A, g)}
<1>1. F \in SUBSET SUBSET D /\ {} \in F
  OBVIOUS
<1>2. PICK A \in F : \A B \in F : A \subseteq B => B = A
  <2> HIDE DEF F
  <2> QED
    BY <1>1, Maximal
<1>3. PICK g : Part(A, g)
  OBVIOUS
<1>4. A = D
  <2> SUFFICES ASSUME D \ A # {} PROVE FALSE
    OBVIOUS
  <2>1. PICK s \in D \ A : s \in stop \/ step[s] \in A
    BY DEF LeadsOut
  <2>2. PICK h : h = [a \in A \cup {s} |-> IF a = s THEN Val(g, s) ELSE g[a]]
    OBVIOUS
  <2>3. h[s] = Val(g, s) /\ \A a \in A : h[a] = g[a]
    BY <2>2
  <2>4. Part(A \cup {s}, h)
    BY <1>3, <2>1, <2>3
  <2>5. A \cup {s} \in F
    BY <2>4
  <2> QED
    BY <1>2, <2>5
<1>5. PICK f : f = [n \in D |-> g[n]]
  OBVIOUS
<1>6. \A n \in D : g[n] = Val(f, n)
  BY <1>3, <1>4, <1>5
<1>7. f = [n \in D |-> Val(f, n)]
  BY <1>5, <1>6
<1> QED
  BY <1>7 DEF Fallback
-----------------------------------------------------------------------------
\* The searches: what a node sends its way, and what is returned when there is
\* nothing that way (Search: nothing; Nearest: the node, if it is on the side d).
Seeks(f, kid, k, w) ==
    f = [n \in Pointer |-> IF n = NULL \/ key[n] = k THEN n
                           ELSE IF f[kid[n][GoesTo(k, n)]] = NULL THEN w[n]
                           ELSE f[kid[n][GoesTo(k, n)]]]

LEMMA SeeksIs ==
    ASSUME NEW up, NEW kid \in KIDS, NEW r, NEW P, Shape(up, kid, r, P),
           \A n \in Node : n \notin P => \A d \in Side : kid[n][d] = NULL,
           NEW k, NEW w
    PROVE  \E f : Seeks(f, kid, k, w)
<1>1. IsFiniteSet(Pointer)
  BY NodesFinite, FS_AddElement DEF Pointer
<1>2. PICK stop : stop = {m \in Pointer : m = NULL \/ key[m] = k}
  OBVIOUS
<1>3. PICK v : v = [m \in Pointer |-> m]
  OBVIOUS
<1>4. PICK step : step = [m \in Pointer |-> kid[m][GoesTo(k, m)]]
  OBVIOUS
<1>5. \A n \in Node : GoesTo(k, n) \in Side /\ kid[n][GoesTo(k, n)] \in Pointer
  <2>1. \A n \in Node : GoesTo(k, n) \in Side
    BY DEF GoesTo, Side
  <2> QED
    BY <2>1 DEF KIDS
<1>6. \A n \in Pointer : n \in stop \/ step[n] \in Pointer
  BY <1>2, <1>4, <1>5 DEF Pointer
<1>7. LeadsOut(Pointer, stop, step)
  <2> SUFFICES ASSUME NEW S \in SUBSET Pointer, S # {}
               PROVE  \E s \in S : s \in stop \/ step[s] \notin S
    BY DEF LeadsOut
  <2>1. CASE NULL \in S
    BY <1>2, <2>1
  <2>2. CASE NULL \notin S /\ S \in SUBSET P
    <3>1. PICK n \in S : \A d \in Side : kid[n][d] \notin S
      BY <2>2, DownOut
    <3>2. n \in Node /\ step[n] = kid[n][GoesTo(k, n)]
      BY <1>4, <2>2 DEF Pointer
    <3> QED
      BY <1>5, <3>1, <3>2
  <2>3. CASE NULL \notin S /\ S \notin SUBSET P
    <3>1. PICK n \in S : n \notin P
      BY <2>3
    <3>2. n \in Node
      BY <2>3, <3>1 DEF Pointer
    <3>3. step[n] = NULL
      BY <1>4, <1>5, <3>1, <3>2
    <3> QED
      BY <2>3, <3>3
  <2> QED
    BY <2>1, <2>2, <2>3
<1>8. PICK f : Fallback(f, Pointer, stop, v, w, step)
  BY <1>1, <1>6, <1>7, FallbackIs
<1>9. f = [n \in Pointer |-> IF n \in stop THEN v[n]
                             ELSE IF f[step[n]] = NULL THEN w[n] ELSE f[step[n]]]
  BY <1>8 DEF Fallback
<1>10. ASSUME NEW m \in Pointer
       PROVE  (IF m \in stop THEN v[m] ELSE IF f[step[m]] = NULL THEN w[m] ELSE f[step[m]])
               = IF m = NULL \/ key[m] = k THEN m
                 ELSE IF f[kid[m][GoesTo(k, m)]] = NULL THEN w[m] ELSE f[kid[m][GoesTo(k, m)]]
  BY <1>2, <1>3, <1>4
<1>11. f = [m \in Pointer |-> IF m = NULL \/ key[m] = k THEN m
                              ELSE IF f[kid[m][GoesTo(k, m)]] = NULL THEN w[m]
                              ELSE f[kid[m][GoesTo(k, m)]]]
  BY <1>9, <1>10
<1> QED
  BY <1>11 DEF Seeks

\* The keys below the child that the search does not go to, and the node's own.
Parted(kid, P, k, n, s) ==
    /\ s \in Side /\ Other(s) \in Side
    /\ Beyond(s, k, key[n])
    /\ \A e \in Under(kid, kid[n][Other(s)]) : e \in P /\ ~Beyond(s, key[e], key[n])
    /\ \A e \in Under(kid, n) :
         e \in Under(kid, kid[n][s]) \/ e = n \/ e \in Under(kid, kid[n][Other(s)])
    /\ Under(kid, kid[n][s]) \in SUBSET Under(kid, n) /\ n \in Under(kid, n)

LEMMA Passed ==
    ASSUME NEW up, NEW kid \in KIDS, NEW r, NEW P, Shape(up, kid, r, P),
           key \in [Node -> Int], Ordered(kid, P, key), NEW k \in Int,
           NEW n \in P, key[n] # k, NEW s, s = GoesTo(k, n)
    PROVE  Parted(kid, P, k, n, s)
<1>1. s \in Side /\ Other(s) \in Side
  <2>1. s \in Side
    BY DEF GoesTo, Side
  <2> QED
    BY <2>1, Sides
<1>2. P \in SUBSET Node /\ key[n] \in Int
  BY DEF Shape
<1>3. Beyond(s, k, key[n])
  BY <1>2 DEF Beyond, GoesTo
<1>4. /\ n \in Under(kid, n) /\ Under(kid, n) \in SUBSET P
      /\ \A e : e \in Under(kid, n) <=> e = n \/ \E d \in Side : e \in Under(kid, kid[n][d])
  BY UnderParts
<1>5. ASSUME NEW e \in Under(kid, kid[n][Other(s)])
      PROVE  e \in P /\ ~Beyond(s, key[e], key[n])
  <2>1. e \in P
    BY <1>1, <1>4
  <2>2. Fits(Other(s), key[e], key[n])
    BY <1>1 DEF Ordered
  <2>3. key[e] \in Int
    BY <1>2, <2>1
  <2> QED
    BY <1>1, <1>2, <2>1, <2>2, <2>3 DEF Fits, Beyond, Other, Side
<1>6. \A d \in Side : d = s \/ d = Other(s)
  BY <1>1, Sides
<1> QED
  BY <1>1, <1>3, <1>4, <1>5, <1>6 DEF Parted
-----------------------------------------------------------------------------
LEMMA BeyondIs ==
    /\ \A a \in Int, d \in Side : ~Beyond(d, a, a)
    /\ \A a, b \in Int, d \in Side : Beyond(Other(d), a, b) <=> Beyond(d, b, a)
    /\ \A a, b \in Int, d \in Side : Beyond(d, a, b) => ~Beyond(d, b, a)
    /\ \A a, b \in Int, d \in Side : a = b \/ Beyond(d, a, b) \/ Beyond(d, b, a)
    /\ \A a, b, e \in Int, d \in Side : Beyond(d, a, b) /\ ~Beyond(d, e, b) => Beyond(d, a, e)
    /\ \A a, b, e \in Int, d \in Side : ~Beyond(d, a, b) /\ ~Beyond(d, b, e) => ~Beyond(d, a, e)
BY DEF Beyond, Side, Other

\* What f returns below n: a node with the key, or NULL if there is none.
SearchOk(z, kid, k, n) ==
    \/ z = NULL /\ \A e \in Under(kid, n) : key[e] # k
    \/ z \in Under(kid, n) /\ key[z] = k

LEMMA SearchesBelow ==
    ASSUME NEW up, NEW kid \in KIDS, NEW r, NEW P, Shape(up, kid, r, P),
           key \in [Node -> Int], Ordered(kid, P, key), NEW k \in Int,
           NEW w, \A n \in Node : w[n] = NULL, NEW f, Seeks(f, kid, k, w)
    PROVE  \A n \in P : SearchOk(f[n], kid, k, n)
<1>1. PICK S \in SUBSET P : S = {n \in P : ~SearchOk(f[n], kid, k, n)}
  OBVIOUS
<1> SUFFICES ASSUME S # {} PROVE FALSE
  BY <1>1
<1>2. PICK n \in S : \A d \in Side : kid[n][d] \notin S
  BY DownOut
<1>3. /\ n \in P /\ n \in Node /\ n \in Pointer /\ n # NULL /\ ~SearchOk(f[n], kid, k, n)
      /\ P \in SUBSET Node /\ NULL \notin P /\ key[n] \in Int
      /\ \A d \in Side : kid[n][d] # NULL => kid[n][d] \in P
  BY <1>1, <1>2, NullIsNoNode DEF Shape, Pointer
<1>4. PICK s : s = GoesTo(k, n)
  OBVIOUS
<1>5. f[n] = IF key[n] = k THEN n ELSE IF f[kid[n][s]] = NULL THEN NULL ELSE f[kid[n][s]]
  BY <1>3, <1>4 DEF Seeks
<1>6. n \in Under(kid, n)
  BY <1>3, UnderParts
<1>7. key[n] # k
  BY <1>3, <1>5, <1>6 DEF SearchOk
<1>8. /\ s \in Side /\ Other(s) \in Side
      /\ Beyond(s, k, key[n])
      /\ \A e \in Under(kid, kid[n][Other(s)]) : e \in P /\ ~Beyond(s, key[e], key[n])
      /\ \A e \in Under(kid, n) :
           e \in Under(kid, kid[n][s]) \/ e = n \/ e \in Under(kid, kid[n][Other(s)])
      /\ Under(kid, kid[n][s]) \in SUBSET Under(kid, n)
  <2>1. Parted(kid, P, k, n, s)
    BY <1>3, <1>4, <1>7, Passed
  <2> QED
    BY <2>1 DEF Parted
<1>9. f[n] = f[kid[n][s]]
  BY <1>5, <1>7
<1>10. SearchOk(f[kid[n][s]], kid, k, kid[n][s])
  <2>1. CASE kid[n][s] = NULL
    <3>1. f[NULL] = NULL
      BY DEF Seeks, Pointer
    <3> QED
      BY <2>1, <3>1, UnderNull DEF SearchOk
  <2>2. CASE kid[n][s] # NULL
    BY <1>1, <1>2, <1>3, <1>8, <2>2
  <2> QED
    BY <2>1, <2>2
<1>11. \A e \in Under(kid, kid[n][Other(s)]) : key[e] # k
  BY <1>3, <1>8
<1>12. SearchOk(f[n], kid, k, n)
  <2>1. CASE f[n] = NULL /\ \A e \in Under(kid, kid[n][s]) : key[e] # k
    BY <1>7, <1>8, <1>11, <2>1 DEF SearchOk
  <2>2. CASE f[n] \in Under(kid, kid[n][s]) /\ key[f[n]] = k
    BY <1>8, <2>2 DEF SearchOk
  <2> QED
    BY <1>9, <1>10, <2>1, <2>2 DEF SearchOk
<1> QED
  BY <1>3, <1>12

\* What f returns below n: the nearest node on side d of the key, the key
\* included, or NULL if there is none.
NearestOk(z, kid, k, d, n) ==
    \/ z = NULL /\ \A e \in Under(kid, n) : Beyond(d, k, key[e])
    \/ /\ z \in Under(kid, n) /\ ~Beyond(d, k, key[z])
       /\ \A e \in Under(kid, n) : Beyond(d, k, key[e]) \/ ~Beyond(d, key[z], key[e])

LEMMA NearestBelow ==
    ASSUME NEW up, NEW kid \in KIDS, NEW r, NEW P, Shape(up, kid, r, P),
           key \in [Node -> Int], Ordered(kid, P, key), NEW k \in Int, NEW d \in Side,
           NEW w, \A n \in Node : w[n] = IF GoesTo(k, n) # d THEN n ELSE NULL,
           NEW f, Seeks(f, kid, k, w)
    PROVE  \A n \in P : NearestOk(f[n], kid, k, d, n)
<1>1. PICK S \in SUBSET P : S = {n \in P : ~NearestOk(f[n], kid, k, d, n)}
  OBVIOUS
<1> SUFFICES ASSUME S # {} PROVE FALSE
  BY <1>1
<1>2. PICK n \in S : \A b \in Side : kid[n][b] \notin S
  BY DownOut
<1>3. /\ n \in P /\ n \in Node /\ n \in Pointer /\ n # NULL /\ ~NearestOk(f[n], kid, k, d, n)
      /\ P \in SUBSET Node /\ NULL \notin P /\ key[n] \in Int
      /\ \A b \in Side : kid[n][b] # NULL => kid[n][b] \in P
  BY <1>1, <1>2, NullIsNoNode DEF Shape, Pointer
<1>4. PICK s : s = GoesTo(k, n)
  OBVIOUS
<1>5. f[n] = IF key[n] = k THEN n
             ELSE IF f[kid[n][s]] = NULL THEN (IF s # d THEN n ELSE NULL) ELSE f[kid[n][s]]
  BY <1>3, <1>4 DEF Seeks
<1>6. n \in Under(kid, n) /\ Under(kid, n) \in SUBSET P /\ \A e \in P : key[e] \in Int
  BY <1>3, UnderParts
<1>7. key[n] # k
  <2> SUFFICES ASSUME key[n] = k PROVE FALSE
    OBVIOUS
  <2>1. f[n] = n /\ ~Beyond(d, k, key[n])
    BY <1>3, <1>5, BeyondIs
  <2>2. NearestOk(f[n], kid, k, d, n)
    BY <1>6, <2>1 DEF NearestOk
  <2> QED
    BY <1>3, <2>2
<1>8. /\ s \in Side /\ Other(s) \in Side
      /\ Beyond(s, k, key[n])
      /\ \A e \in Under(kid, kid[n][Other(s)]) : e \in P /\ ~Beyond(s, key[e], key[n])
      /\ \A e \in Under(kid, n) :
           e \in Under(kid, kid[n][s]) \/ e = n \/ e \in Under(kid, kid[n][Other(s)])
      /\ Under(kid, kid[n][s]) \in SUBSET Under(kid, n)
  <2>1. Parted(kid, P, k, n, s)
    BY <1>3, <1>4, <1>7, Passed
  <2> QED
    BY <2>1 DEF Parted
<1>9. PICK z : z = f[kid[n][s]]
  OBVIOUS
<1>10. NearestOk(f[kid[n][s]], kid, k, d, kid[n][s])
  <2>1. CASE kid[n][s] = NULL
    <3>1. f[NULL] = NULL
      BY DEF Seeks, Pointer
    <3> QED
      BY <2>1, <3>1, UnderNull DEF NearestOk
  <2>2. CASE kid[n][s] # NULL
    BY <1>1, <1>2, <1>3, <1>8, <2>2
  <2> QED
    BY <2>1, <2>2
<1>11. \/ z = NULL /\ \A e \in Under(kid, kid[n][s]) : Beyond(d, k, key[e])
       \/ /\ z \in Under(kid, kid[n][s]) /\ ~Beyond(d, k, key[z])
          /\ \A e \in Under(kid, kid[n][s]) : Beyond(d, k, key[e]) \/ ~Beyond(d, key[z], key[e])
  BY <1>9, <1>10 DEF NearestOk
<1>12. CASE s = d
  <2>1. Beyond(d, k, key[n])
    BY <1>8, <1>12
  <2>2. \A e \in Under(kid, kid[n][Other(s)]) : Beyond(d, k, key[e])
    BY <1>3, <1>6, <1>8, <1>12, BeyondIs
  <2>3. f[n] = z
    BY <1>5, <1>7, <1>9, <1>12
  <2>4. NearestOk(f[n], kid, k, d, n)
    BY <1>8, <1>11, <2>1, <2>2, <2>3 DEF NearestOk
  <2> QED
    BY <1>3, <2>4
<1>13. CASE s # d
  <2>1. d = Other(s) /\ Other(d) = s
    BY <1>8, <1>13, Sides
  <2>2. ~Beyond(d, k, key[n])
    BY <1>3, <1>8, <2>1, BeyondIs
  <2>3. \A e \in Under(kid, kid[n][Other(s)]) : ~Beyond(d, key[n], key[e])
    BY <1>3, <1>6, <1>8, <2>1, BeyondIs
  <2>4. CASE z = NULL
    <3>1. \A e \in Under(kid, kid[n][s]) : Beyond(d, k, key[e])
      BY <1>3, <1>6, <1>8, <1>11, <2>4
    <3>2. f[n] = n
      BY <1>5, <1>7, <1>9, <1>13, <2>4
    <3>3. \A e \in Under(kid, n) : Beyond(d, k, key[e]) \/ ~Beyond(d, key[n], key[e])
      BY <1>3, <1>8, <2>3, <3>1, BeyondIs
    <3>4. NearestOk(f[n], kid, k, d, n)
      BY <1>6, <2>2, <3>2, <3>3 DEF NearestOk
    <3> QED
      BY <1>3, <3>4
  <2>5. CASE z # NULL
    <3>1. f[n] = z /\ z \in Under(kid, kid[n][s]) /\ z \in P /\ key[z] \in Int
      BY <1>5, <1>6, <1>7, <1>8, <1>9, <1>11, <2>5
    <3>2. ~Beyond(d, key[z], key[n])
      <4>1. Fits(s, key[z], key[n])
        BY <1>3, <1>8, <3>1 DEF Ordered
      <4> QED
        BY <1>3, <1>8, <2>1, <3>1, <4>1 DEF Fits, Beyond, Side, Other
    <3>3. \A e \in Under(kid, kid[n][Other(s)]) : ~Beyond(d, key[z], key[e])
      BY <1>3, <1>6, <1>8, <2>3, <3>1, <3>2, BeyondIs
    <3>4. \A e \in Under(kid, n) : Beyond(d, k, key[e]) \/ ~Beyond(d, key[z], key[e])
      BY <1>8, <1>11, <2>5, <3>2, <3>3
    <3>5. NearestOk(f[n], kid, k, d, n)
      BY <1>8, <1>11, <2>5, <3>1, <3>4 DEF NearestOk
    <3> QED
      BY <1>3, <3>5
  <2> QED
    BY <2>4, <2>5
<1> QED
  BY <1>12, <1>13
-----------------------------------------------------------------------------
Searches(f, kid, k) ==
    f = [n \in Pointer |-> IF n = NULL \/ key[n] = k THEN n ELSE f[kid[n][GoesTo(k, n)]]]
Nears(f, kid, k, d) ==
    f = [n \in Pointer |->
            IF n = NULL \/ key[n] = k THEN n
            ELSE LET m == f[kid[n][GoesTo(k, n)]]
                 IN IF m = NULL /\ GoesTo(k, n) # d THEN n ELSE m]

\* Search and Nearest are such functions, from the root.
LEMMA SearchIs ==
    ASSUME IInv, pc = "out", NEW k \in Int
    PROVE  SearchOk(Search(k), tree.kid, k, tree.root)
<1>1. Sound(tree, tree.root, inside, {key})
  BY AtRest
<1>2. PICK kid \in KIDS : kid = tree.kid
  BY <1>1, Fields DEF Sound
<1>3. PICK r \in Pointer : r = tree.root
  BY <1>1 DEF Sound
<1>4. /\ Shape(tree.up, kid, r, inside) /\ inside \in SUBSET Node
      /\ key \in [Node -> Int] /\ Ordered(kid, inside, key)
      /\ r # NULL => r \in inside
  BY <1>1, <1>2, <1>3 DEF Sound, Shape
<1>5. \A n \in Node : n \notin inside => \A d \in Side : kid[n][d] = NULL
  BY <1>2, NullIsNoNode DEF IInv, Clean, Loops, NoKids
<1>6. PICK w : w = [n \in Pointer |-> NULL]
  OBVIOUS
<1>7. \A g : Seeks(g, kid, k, w) <=> Searches(g, kid, k)
  <2> TAKE g
  <2>1. \A n \in Pointer : (IF n = NULL \/ key[n] = k THEN n
                            ELSE IF g[kid[n][GoesTo(k, n)]] = NULL THEN w[n] ELSE g[kid[n][GoesTo(k, n)]])
                           = (IF n = NULL \/ key[n] = k THEN n ELSE g[kid[n][GoesTo(k, n)]])
    BY <1>6
  <2>2. [n \in Pointer |-> IF n = NULL \/ key[n] = k THEN n
                           ELSE IF g[kid[n][GoesTo(k, n)]] = NULL THEN w[n] ELSE g[kid[n][GoesTo(k, n)]]]
         = [n \in Pointer |-> IF n = NULL \/ key[n] = k THEN n ELSE g[kid[n][GoesTo(k, n)]]]
    BY <2>1, Zenon
  <2> QED
    BY <2>2, Zenon DEF Seeks, Searches
<1>8. PICK f : f = CHOOSE g : Searches(g, kid, k)
  OBVIOUS
<1>9. Seeks(f, kid, k, w)
  <2>1. \E g : Seeks(g, kid, k, w)
    BY <1>4, <1>5, SeeksIs
  <2> QED
    BY <1>7, <1>8, <2>1, Zenon
<1>10. Search(k) = f[r]
  BY <1>2, <1>3, <1>8 DEF Search, Searches
<1>11. CASE r = NULL
  <2>1. f[r] = NULL
    BY <1>9, <1>11 DEF Seeks, Pointer
  <2> QED
    BY <1>2, <1>3, <1>10, <1>11, <2>1, UnderNull DEF SearchOk
<1>12. CASE r # NULL
  <2>1. \A n \in Node : w[n] = NULL
    BY <1>6 DEF Pointer
  <2>2. \A n \in inside : SearchOk(f[n], kid, k, n)
    BY <1>4, <1>9, <2>1, SearchesBelow
  <2>3. SearchOk(f[r], kid, k, r)
    BY <1>4, <1>12, <2>2
  <2> QED
    BY <1>2, <1>3, <1>10, <1>12, <2>3 DEF SearchOk
<1> QED
  BY <1>11, <1>12
-----------------------------------------------------------------------------
LEMMA NearestIs ==
    ASSUME IInv, pc = "out", NEW k \in Int, NEW d \in Side
    PROVE  NearestOk(Nearest(k, d), tree.kid, k, d, tree.root)
<1>1. Sound(tree, tree.root, inside, {key})
  BY AtRest
<1>2. PICK kid \in KIDS : kid = tree.kid
  BY <1>1, Fields DEF Sound
<1>3. PICK r \in Pointer : r = tree.root
  BY <1>1 DEF Sound
<1>4. /\ Shape(tree.up, kid, r, inside) /\ inside \in SUBSET Node
      /\ key \in [Node -> Int] /\ Ordered(kid, inside, key)
      /\ r # NULL => r \in inside
  BY <1>1, <1>2, <1>3 DEF Sound, Shape
<1>5. \A n \in Node : n \notin inside => \A b \in Side : kid[n][b] = NULL
  BY <1>2, NullIsNoNode DEF IInv, Clean, Loops, NoKids
<1>6. PICK w : w = [n \in Pointer |-> IF GoesTo(k, n) # d THEN n ELSE NULL]
  OBVIOUS
<1>7. \A g : Seeks(g, kid, k, w) <=> Nears(g, kid, k, d)
  <2> TAKE g
  <2>1. \A n \in Pointer : (IF n = NULL \/ key[n] = k THEN n
                            ELSE IF g[kid[n][GoesTo(k, n)]] = NULL THEN w[n] ELSE g[kid[n][GoesTo(k, n)]])
                           = (IF n = NULL \/ key[n] = k THEN n
                              ELSE IF g[kid[n][GoesTo(k, n)]] = NULL /\ GoesTo(k, n) # d THEN n
                              ELSE g[kid[n][GoesTo(k, n)]])
    BY <1>6
  <2>2. [n \in Pointer |-> IF n = NULL \/ key[n] = k THEN n
                           ELSE IF g[kid[n][GoesTo(k, n)]] = NULL THEN w[n] ELSE g[kid[n][GoesTo(k, n)]]]
         = [n \in Pointer |-> IF n = NULL \/ key[n] = k THEN n
                              ELSE IF g[kid[n][GoesTo(k, n)]] = NULL /\ GoesTo(k, n) # d THEN n
                              ELSE g[kid[n][GoesTo(k, n)]]]
    BY <2>1, Zenon
  <2> QED
    BY <2>2, Zenon DEF Seeks, Nears
<1>8. PICK f : f = CHOOSE g : Nears(g, kid, k, d)
  OBVIOUS
<1>9. Seeks(f, kid, k, w)
  <2>1. \E g : Seeks(g, kid, k, w)
    BY <1>4, <1>5, SeeksIs
  <2> QED
    BY <1>7, <1>8, <2>1, Zenon
<1>10. Nearest(k, d) = f[r]
  BY <1>2, <1>3, <1>8 DEF Nearest, Nears
<1>11. CASE r = NULL
  <2>1. f[r] = NULL
    BY <1>9, <1>11 DEF Seeks, Pointer
  <2> QED
    BY <1>2, <1>3, <1>10, <1>11, <2>1, UnderNull DEF NearestOk
<1>12. CASE r # NULL
  <2>1. \A n \in Node : w[n] = IF GoesTo(k, n) # d THEN n ELSE NULL
    BY <1>6 DEF Pointer
  <2>2. \A n \in inside : NearestOk(f[n], kid, k, d, n)
    BY <1>4, <1>9, <2>1, NearestBelow
  <2>3. NearestOk(f[r], kid, k, d, r)
    BY <1>4, <1>12, <2>2
  <2> QED
    BY <1>2, <1>3, <1>10, <1>12, <2>3 DEF NearestOk
<1> QED
  BY <1>11, <1>12

LEMMA FindsIs ==
    ASSUME IInv, pc = "out", NEW k \in Int
    PROVE  Finds(k)
<1>1. Sound(tree, tree.root, inside, {key})
  BY AtRest
<1>2. Under(tree.kid, tree.root) = inside /\ NULL \notin inside
  <2>1. tree.kid \in KIDS /\ Shape(tree.up, tree.kid, tree.root, inside) /\ tree.root \in Pointer
    BY <1>1, Fields DEF Sound
  <2>2. Under(tree.kid, tree.root) = inside
    BY <2>1, UnderRoot
  <2>3. inside \in SUBSET Node
    BY <2>1 DEF Shape
  <2> QED
    BY <2>2, <2>3, NullIsNoNode
<1>3. IF {n \in inside : key[n] = k} = {} THEN Search(k) = NULL
                                         ELSE Search(k) \in {n \in inside : key[n] = k}
  <2>1. SearchOk(Search(k), tree.kid, k, tree.root)
    BY SearchIs
  <2>2. PICK z : z = Search(k)
    OBVIOUS
  <2>3. \/ z = NULL /\ \A e \in inside : key[e] # k
        \/ z \in inside /\ key[z] = k
    BY <1>2, <2>1, <2>2 DEF SearchOk
  <2>4. IF {n \in inside : key[n] = k} = {} THEN z = NULL ELSE z \in {n \in inside : key[n] = k}
    BY <2>3
  <2> QED
    BY <2>2, <2>4
<1>4. ASSUME NEW d \in Side,
             NEW on, on = {n \in inside : ~Beyond(d, k, key[n])},
             NEW best, best = {n \in on : \A m \in on : ~Beyond(d, key[n], key[m])}
      PROVE  IF on = {} THEN Nearest(k, d) = NULL ELSE Nearest(k, d) \in best
  <2>1. NearestOk(Nearest(k, d), tree.kid, k, d, tree.root)
    BY NearestIs
  <2>2. PICK z : z = Nearest(k, d)
    OBVIOUS
  <2>3. \/ z = NULL /\ \A e \in inside : Beyond(d, k, key[e])
        \/ /\ z \in inside /\ ~Beyond(d, k, key[z])
           /\ \A e \in inside : Beyond(d, k, key[e]) \/ ~Beyond(d, key[z], key[e])
    BY <1>2, <2>1, <2>2 DEF NearestOk
  <2>4. IF on = {} THEN z = NULL ELSE z \in best
    BY <1>4, <2>3
  <2> QED
    BY <2>2, <2>4
<1>5. \A d \in Side :
         LET on == {n \in inside : ~Beyond(d, k, key[n])}
             best == {n \in on : \A m \in on : ~Beyond(d, key[n], key[m])}
         IN IF on = {} THEN Nearest(k, d) = NULL ELSE Nearest(k, d) \in best
  BY <1>4
<1> QED
  BY <1>3, <1>5, Zenon DEF Finds
-----------------------------------------------------------------------------
\* The way straight down on side d from s, and its end.
Straight(d) == [n \in Node |-> d]

LEMMA OutermostRoute ==
    ASSUME IInv, pc = "out", NEW s \in inside, NEW d \in Side
    PROVE  \E R : Route(tree.up, tree.kid, inside, Straight(d), s, Outermost(tree, s, d), R)
<1>1. Sound(tree, tree.root, inside, {key})
  BY AtRest
<1>2. PICK up \in UPS : up = tree.up
  BY <1>1, Fields DEF Sound
<1>3. PICK kid \in KIDS : kid = tree.kid
  BY <1>1, Fields DEF Sound
<1>4. PICK r : r = tree.root
  OBVIOUS
<1>5. Shape(up, kid, r, inside) /\ inside \in SUBSET Node
  BY <1>1, <1>2, <1>3, <1>4 DEF Sound, Shape
<1>6. \A n \in Node : n \notin inside => \A b \in Side : kid[n][b] = NULL
  BY <1>3, NullIsNoNode DEF IInv, Clean, Loops, NoKids
<1>7. PICK dir : dir = Straight(d)
  OBVIOUS
<1>8. dir \in [Node -> Side] /\ \A e \in Node : dir[e] = d
  BY <1>7 DEF Straight
<1>9. PICK m : m = (CHOOSE f : Dives(f, Pointer, kid, dir))[s]
  OBVIOUS
<1>10. PICK R : Route(up, kid, inside, dir, s, m, R)
  BY <1>5, <1>6, <1>8, <1>9, DiveRoute
<1>11. Outermost(tree, s, d) = m
  <2>1. ASSUME NEW f
        PROVE  Dives(f, Pointer, kid, dir) <=> Outs(f, kid, d)
    <3>1. \A n \in Pointer : (IF n = NULL \/ kid[n][dir[n]] = NULL THEN n ELSE f[kid[n][dir[n]]])
                             = (IF n = NULL \/ kid[n][d] = NULL THEN n ELSE f[kid[n][d]])
      BY <1>8 DEF Pointer
    <3>2. [n \in Pointer |-> IF n = NULL \/ kid[n][dir[n]] = NULL THEN n ELSE f[kid[n][dir[n]]]]
           = [n \in Pointer |-> IF n = NULL \/ kid[n][d] = NULL THEN n ELSE f[kid[n][d]]]
      BY <3>1, Zenon
    <3> QED
      BY <3>2, Zenon DEF Dives, Outs
  <2>2. Outermost(tree, s, d) = (CHOOSE f : Outs(f, kid, d))[s]
    BY <1>3 DEF Outermost, Outs
  <2> QED
    BY <1>9, <2>1, <2>2, Zenon
<1> QED
  BY <1>2, <1>3, <1>7, <1>10, <1>11

\* A way straight down has one end.
LEMMA RouteUnique ==
    ASSUME NEW up, NEW kid \in KIDS, NEW r, NEW P, Shape(up, kid, r, P),
           NEW dir \in [Node -> Side], NEW s, NEW m, NEW R, Route(up, kid, P, dir, s, m, R),
           NEW n, NEW Q, Route(up, kid, P, dir, s, n, Q)
    PROVE  m = n
<1>1. PICK S \in SUBSET P : S = R \ Q
  BY DEF Route
<1>2. ASSUME S # {} PROVE FALSE
  <2>1. PICK e \in S : up[e] \notin S
    BY <1>2 DEF Shape
  <2>2. e # s /\ e \in R /\ e \notin Q
    BY <1>1 DEF Route
  <2>3. up[e] \in R /\ kid[up[e]][dir[up[e]]] = e
    BY <2>2 DEF Route
  <2>4. up[e] \in Q
    BY <1>1, <2>1, <2>3
  <2>5. e # NULL
    BY <2>2, NullIsNoNode DEF Route, Shape
  <2>6. up[e] # n => kid[up[e]][dir[up[e]]] \in Q
    BY <2>4 DEF Route
  <2>7. up[e] = n => kid[up[e]][dir[up[e]]] = NULL
    BY DEF Route
  <2> QED
    BY <2>2, <2>3, <2>5, <2>6, <2>7
<1>3. m \in Q
  BY <1>1, <1>2 DEF Route
<1>4. m # n => kid[m][dir[m]] \in Q
  BY <1>3 DEF Route
<1>5. NULL \notin Q
  BY NullIsNoNode DEF Route, Shape
<1> QED
  BY <1>4, <1>5 DEF Route
-----------------------------------------------------------------------------
\* The climb of NextOn: up as long as it comes from side d.
ClimbsOn(f, up, kid, d) ==
    f = [m \in Node |-> IF up[m] = NULL \/ kid[up[m]][Other(d)] = m
                        THEN up[m] ELSE f[up[m]]]

LEMMA ClimbOnIs ==
    ASSUME NEW up \in UPS, NEW kid \in KIDS, NEW r, NEW P, Shape(up, kid, r, P),
           \A n \in Node : n \notin P => up[n] = NULL, NEW d \in Side
    PROVE  \E f : ClimbsOn(f, up, kid, d)
<1>1. \A m \in Node : up[m] \in Pointer
  BY DEF UPS
<1>2. PICK stop : stop = {m \in Node : up[m] = NULL \/ kid[up[m]][Other(d)] = m}
  OBVIOUS
<1>3. \A n \in Node : n \in stop \/ up[n] \in Node
  BY <1>1, <1>2 DEF Pointer
<1>4. LeadsOut(Node, stop, up)
  <2> SUFFICES ASSUME NEW S \in SUBSET Node, S # {}
               PROVE  \E s \in S : s \in stop \/ up[s] \notin S
    BY DEF LeadsOut
  <2>1. CASE S \in SUBSET P
    BY <2>1 DEF Shape
  <2>2. CASE S \notin SUBSET P
    BY <1>2, <2>2
  <2> QED
    BY <2>1, <2>2
<1>5. PICK f : Line(f, Node, stop, up, up)
  BY <1>3, <1>4, NodesFinite, LineIs
<1>6. f = [n \in Node |-> IF n \in stop THEN up[n] ELSE f[up[n]]]
  BY <1>5 DEF Line
<1>7. ASSUME NEW m \in Node
      PROVE  (IF m \in stop THEN up[m] ELSE f[up[m]])
              = IF up[m] = NULL \/ kid[up[m]][Other(d)] = m THEN up[m] ELSE f[up[m]]
  BY <1>2
<1>8. f = [m \in Node |-> IF up[m] = NULL \/ kid[up[m]][Other(d)] = m
                          THEN up[m] ELSE f[up[m]]]
  BY <1>6, <1>7
<1> QED
  BY <1>8 DEF ClimbsOn

\* Where the climb ends is the parent of a node s from which the way straight
\* down leads back to where it began.
LeadsBack(up, kid, P, d, n, m, s, R) ==
    /\ s \in P /\ up[s] = m /\ Route(up, kid, P, Straight(d), s, n, R)
    /\ m # NULL => m \in P /\ kid[m][Other(d)] = s

LEMMA ClimbRoute ==
    ASSUME NEW up, NEW kid \in KIDS, NEW r, NEW P, Shape(up, kid, r, P),
           NEW d \in Side, NEW f, ClimbsOn(f, up, kid, d), NEW n \in P, kid[n][d] = NULL
    PROVE  \E s, R : LeadsBack(up, kid, P, d, n, f[n], s, R)
<1>1. /\ P \in SUBSET Node /\ NULL \notin P /\ NULL \notin Node
      /\ \A e \in P : \A b \in Side : kid[e][b] # NULL => kid[e][b] \in P /\ up[kid[e][b]] = e
      /\ \A e \in P : e # r => up[e] \in P /\ \E b \in Side : kid[up[e]][b] = e
      /\ r # NULL => r \in P /\ up[r] = NULL
      /\ r = NULL => P = {}
      /\ \A S \in SUBSET P : S # {} => \E e \in S : up[e] \notin S
  BY NullIsNoNode DEF Shape
<1>2. \A e \in P : up[e] # NULL => up[e] \in P /\ \E b \in Side : kid[up[e]][b] = e
  BY <1>1
<1>3. \A e \in P : f[e] = IF up[e] = NULL \/ kid[up[e]][Other(d)] = e THEN up[e] ELSE f[up[e]]
  BY <1>1 DEF ClimbsOn
<1> DEFINE Stops(e) == up[e] = NULL \/ kid[up[e]][Other(d)] = e
           Goes(C) == n \in C /\ \A a \in C : Stops(a) \/ up[a] \in C
           F == {C \in SUBSET P : Goes(C)}
<1>4. PICK R \in F : \A C \in F : C \subseteq R => C = R
  <2>1. F \in SUBSET SUBSET P /\ P \in F
    BY <1>2
  <2>2. IsFiniteSet(P)
    BY <1>1, NodesFinite, FS_Subset
  <2> HIDE DEF F
  <2> QED
    BY <2>1, <2>2, Minimal
<1>5. R \in SUBSET P /\ n \in R /\ \A a \in R : Stops(a) \/ up[a] \in R
  OBVIOUS
<1>6. \A e \in P : \A b \in Side : b = d \/ b = Other(d)
  BY Sides
<1>7. ASSUME NEW a \in R, a # n
      PROVE  kid[a][d] \in R /\ ~Stops(kid[a][d])
  <2>1. PICK b \in R : up[b] = a /\ ~Stops(b)
    <3> SUFFICES ASSUME ~(\E b \in R : up[b] = a /\ ~Stops(b)) PROVE FALSE
      OBVIOUS
    <3>1. Goes(R \ {a})
      BY <1>5, <1>7
    <3>2. R \ {a} \in F
      BY <1>5, <3>1
    <3> QED
      BY <1>4, <3>2
  <2>2. PICK e \in Side : kid[a][e] = b
    BY <1>1, <1>2, <1>5, <2>1
  <2>3. e = d
    BY <1>5, <1>6, <2>1, <2>2
  <2> QED
    BY <2>1, <2>2, <2>3
<1>8. \A a \in R : f[a] = f[n]
  <2>1. PICK C \in SUBSET P : C = {a \in R : f[a] = f[n]}
    BY <1>5
  <2>2. Goes(C)
    BY <1>3, <1>5, <2>1
  <2>3. C \in F /\ C \subseteq R
    BY <2>1, <2>2
  <2>4. C = R
    BY <1>4, <2>3
  <2> QED
    BY <2>1, <2>4
<1>9. PICK s \in R : up[s] \notin R
  BY <1>1, <1>5
<1>10. Stops(s) /\ f[n] = up[s]
  BY <1>3, <1>5, <1>8, <1>9
<1>11. \A a \in R : Stops(a) => a = s
  <2> SUFFICES ASSUME NEW a \in R, Stops(a) PROVE a = s
    OBVIOUS
  <2>1. up[a] = up[s]
    BY <1>3, <1>5, <1>8, <1>10
  <2>2. CASE up[s] = NULL
    BY <1>1, <1>5, <2>1, <2>2
  <2>3. CASE up[s] # NULL
    BY <1>10, <2>1, <2>3
  <2> QED
    BY <2>2, <2>3
<1>12. \A a \in R : a # s => up[a] \in R /\ kid[up[a]][d] = a
  <2> SUFFICES ASSUME NEW a \in R, a # s PROVE up[a] \in R /\ kid[up[a]][d] = a
    OBVIOUS
  <2>1. ~Stops(a) /\ up[a] \in R
    BY <1>5, <1>11
  <2>2. PICK b \in Side : kid[up[a]][b] = a
    BY <1>2, <1>5, <2>1
  <2>3. b = d
    BY <1>5, <1>6, <2>1, <2>2
  <2> QED
    BY <2>1, <2>2, <2>3
<1>13. \A e \in P : Straight(d)[e] = d
  BY <1>1 DEF Straight
<1>14. Route(up, kid, P, Straight(d), s, n, R)
  BY <1>5, <1>7, <1>12, <1>13 DEF Route
<1>15. up[s] # NULL => up[s] \in P /\ kid[up[s]][Other(d)] = s
  BY <1>2, <1>5, <1>10
<1>16. LeadsBack(up, kid, P, d, n, f[n], s, R)
  BY <1>5, <1>10, <1>14, <1>15 DEF LeadsBack
<1> QED
  BY <1>16

LeadsFrom(up, kid, P, d, m, n) ==
    /\ m \in P /\ kid[m][Other(d)] # NULL
    /\ \E R : Route(up, kid, P, Straight(d), kid[m][Other(d)], n, R)

\* The climb from the end of a way straight down, when it begins below m on
\* the other side, is m.
LEMMA ClimbBack ==
    ASSUME NEW up, NEW kid \in KIDS, NEW r, NEW P, Shape(up, kid, r, P),
           NEW d \in Side, NEW f, ClimbsOn(f, up, kid, d),
           NEW m, NEW n, LeadsFrom(up, kid, P, d, m, n)
    PROVE  f[n] = m
<1>0. PICK s, R : /\ m \in P /\ s = kid[m][Other(d)] /\ s # NULL
                  /\ Route(up, kid, P, Straight(d), s, n, R)
  BY DEF LeadsFrom
<1>1. /\ P \in SUBSET Node /\ NULL \notin P
      /\ \A e \in P : \A b \in Side : kid[e][b] # NULL => kid[e][b] # kid[e][Other(b)] /\ up[kid[e][b]] = e
      /\ \A S \in SUBSET P : S # {} => \E e \in S : up[e] \notin S
      /\ Other(d) \in Side /\ Other(Other(d)) = d
  BY NullIsNoNode, Sides DEF Shape
<1>2. \A e \in P : f[e] = IF up[e] = NULL \/ kid[up[e]][Other(d)] = e THEN up[e] ELSE f[up[e]]
  BY <1>1 DEF ClimbsOn
<1>3. /\ R \in SUBSET P /\ n \in R /\ s \in R
      /\ \A a \in R : a # s => up[a] \in R /\ kid[up[a]][d] = a
  BY <1>0, <1>1 DEF Route, Straight
<1>4. PICK S \in SUBSET P : S = {a \in R : f[a] # m}
  BY <1>3
<1>5. ASSUME S # {} PROVE FALSE
  <2>1. PICK a \in S : up[a] \notin S
    BY <1>1, <1>5
  <2>2. a \in R /\ a \in P /\ f[a] # m
    BY <1>4, <2>1
  <2>3. f[s] = m
    BY <1>0, <1>1, <1>2, <1>3
  <2>4. a # s /\ up[a] \in R /\ kid[up[a]][d] = a
    BY <1>3, <2>2, <2>3
  <2>5. up[a] \in P /\ up[a] # NULL /\ a # NULL
    BY <1>1, <1>3, <2>2, <2>4
  <2>6. kid[up[a]][Other(d)] # a
    BY <1>1, <2>4, <2>5
  <2>7. f[a] = f[up[a]]
    BY <1>2, <2>2, <2>5, <2>6
  <2> QED
    BY <1>4, <2>1, <2>2, <2>4, <2>7
<1> QED
  BY <1>3, <1>4, <1>5
-----------------------------------------------------------------------------
\* m is at the end of the way from n to side d and then straight down.
Follows(t, P, n, m, d) ==
    /\ m \in P /\ t.kid[n][d] # NULL
    /\ \E R : Route(t.up, t.kid, P, Straight(Other(d)), t.kid[n][d], m, R)

LEMMA NextOnIs ==
    ASSUME IInv, pc = "out", NEW n \in inside, NEW d \in Side, NEW m, m = NextOn(tree, n, d)
    PROVE  /\ tree.kid[n][d] # NULL => Follows(tree, inside, n, m, d)
           /\ tree.kid[n][d] = NULL => \E s, R : LeadsBack(tree.up, tree.kid, inside, d, n, m, s, R)
           /\ tree.kid[n][d] = NULL => \E f : m = f[n] /\ ClimbsOn(f, tree.up, tree.kid, d)
<1>1. Sound(tree, tree.root, inside, {key})
  BY AtRest
<1>2. PICK up \in UPS : up = tree.up
  BY <1>1, Fields DEF Sound
<1>3. PICK kid \in KIDS : kid = tree.kid
  BY <1>1, Fields DEF Sound
<1>4. Shape(up, kid, tree.root, inside) /\ inside \in SUBSET Node
  BY <1>1, <1>2, <1>3 DEF Sound, Shape
<1>5. ASSUME kid[n][d] # NULL PROVE Follows(tree, inside, n, m, d)
  <2>1. PICK s \in inside : s = kid[n][d]
    BY <1>4, <1>5 DEF Shape
  <2>2. Other(d) \in Side
    BY Sides
  <2>3. m = Outermost(tree, s, Other(d))
    BY <1>3, <1>5, <2>1 DEF NextOn
  <2>4. PICK R : Route(tree.up, tree.kid, inside, Straight(Other(d)), s, m, R)
    BY <2>1, <2>2, <2>3, OutermostRoute
  <2>5. m \in inside
    BY <2>4 DEF Route
  <2> QED
    BY <1>3, <1>5, <2>1, <2>4, <2>5 DEF Follows
<1>6. ASSUME kid[n][d] = NULL
      PROVE  /\ \E s, R : LeadsBack(up, kid, inside, d, n, m, s, R)
             /\ \E f : m = f[n] /\ ClimbsOn(f, up, kid, d)
  <2>1. \A e \in Node : e \notin inside => up[e] = NULL
    BY <1>2, NullIsNoNode DEF IInv, Clean, Loops
  <2>2. \E f : ClimbsOn(f, up, kid, d)
    BY <1>4, <2>1, ClimbOnIs
  <2>3. PICK f : f = CHOOSE g : ClimbsOn(g, up, kid, d)
    OBVIOUS
  <2>4. ClimbsOn(f, up, kid, d)
    BY <2>2, <2>3, Zenon
  <2>5. m = f[n]
    BY <1>2, <1>3, <1>6, <2>3 DEF NextOn, ClimbsOn
  <2>6. \E s, R : LeadsBack(up, kid, inside, d, n, f[n], s, R)
    BY <1>4, <1>6, <2>4, ClimbRoute
  <2> QED
    BY <2>4, <2>5, <2>6
<1> QED
  BY <1>2, <1>3, <1>5, <1>6

\* Nodes that are not below n are all on one side of what is.
LEMMA Apart ==
    ASSUME NEW up, NEW kid \in KIDS, NEW r, NEW P, Shape(up, kid, r, P),
           NEW k \in [Node -> Int], Ordered(kid, P, k), NEW n \in P, NEW l \in P, l \notin Under(kid, n)
    PROVE  \E b \in Side : \A e \in Under(kid, n) : Fits(b, k[e], k[l])
<1>1. P \in SUBSET Node /\ NULL \notin P /\ r # NULL /\ r \in Pointer /\ Under(kid, r) = P /\ r \in P
  <2>1. P \in SUBSET Node /\ r # NULL /\ r \in P
    BY DEF Shape
  <2>2. r \in Pointer /\ NULL \notin P
    BY <2>1, NullIsNoNode DEF Pointer
  <2> QED
    BY <2>1, <2>2, UnderRoot
<1>2. PICK S \in SUBSET P : S = {a \in P : n \in Under(kid, a) /\ l \in Under(kid, a)}
  OBVIOUS
<1>3. PICK a \in S : \A b \in Side : kid[a][b] \notin S
  <2>1. r \in S
    BY <1>1, <1>2
  <2> QED
    BY <2>1, DownOut
<1>4. a \in P /\ n \in Under(kid, a) /\ l \in Under(kid, a) /\ a # n
  BY <1>2, <1>3
<1>5. \A e : e \in Under(kid, a) <=> e = a \/ \E d \in Side : e \in Under(kid, kid[a][d])
  BY <1>4, UnderParts
<1>6. PICK b \in Side : n \in Under(kid, kid[a][b])
  BY <1>4, <1>5
<1>7. kid[a][b] # NULL
  BY <1>6, UnderNull
<1>8. kid[a][b] \in P
  BY <1>4, <1>7 DEF Shape
<1>9. l \notin Under(kid, kid[a][b])
  BY <1>2, <1>3, <1>6, <1>8
<1>10. Other(b) \in Side /\ \A d \in Side : d = b \/ d = Other(b)
  BY Sides
<1>11. Under(kid, n) \subseteq Under(kid, kid[a][b]) /\ Under(kid, kid[a][b]) \subseteq P
  <2>1. Under(kid, kid[a][b]) \in SUBSET P
    BY <1>8, UnderParts
  <2>2. kid[a][b] \in Pointer /\ n \in Pointer /\ n # NULL
    BY <1>1, <1>8 DEF Pointer
  <2>3. Closed(kid, Under(kid, kid[a][b]))
    BY <2>2, UnderIs DEF KIDS
  <2>4. PICK C \in SUBSET Node : C = Under(kid, kid[a][b])
    BY <1>1, <2>1
  <2>5. n \in C /\ Closed(kid, C)
    BY <1>6, <2>3, <2>4
  <2>6. Under(kid, n) \subseteq C
    BY <2>2, <2>5, UnderIs DEF KIDS
  <2> QED
    BY <2>1, <2>4, <2>6
<1>12. \A e \in Under(kid, n) : Fits(b, k[e], k[a]) /\ k[e] \in Int
  BY <1>1, <1>4, <1>11 DEF Ordered
<1>13. k[a] \in Int /\ k[l] \in Int
  BY <1>1, <1>4
<1>14. Fits(b, k[a], k[l])
  <2>1. CASE l = a
    BY <1>13, <2>1, FitsIs
  <2>2. CASE l # a
    <3>1. l \in Under(kid, kid[a][Other(b)])
      BY <1>4, <1>5, <1>9, <1>10, <2>2
    <3>2. Fits(Other(b), k[l], k[a])
      BY <1>4, <1>10, <3>1 DEF Ordered
    <3> QED
      BY <1>13, <3>2, FitsIs
  <2> QED
    BY <2>1, <2>2
<1>15. \A e \in Under(kid, n) : Fits(b, k[e], k[l])
  BY <1>12, <1>13, <1>14, FitsIs
<1> QED
  BY <1>15

Adjacent(P, n, m, d) ==
    \A l \in P : ~(Beyond(d, key[l], key[n]) /\ Beyond(d, key[m], key[l]))

\* Of two nodes of which one follows the other, each is the next one of the other.
LEMMA FollowsIs ==
    ASSUME IInv, pc = "out", NEW n \in inside, NEW d \in Side, NEW m, Follows(tree, inside, n, m, d)
    PROVE  /\ m \in inside /\ m # n /\ NextOn(tree, n, d) = m /\ NextOn(tree, m, Other(d)) = n
           /\ Adjacent(inside, n, m, d)
<1>1. Sound(tree, tree.root, inside, {key})
  BY AtRest
<1>2. PICK up \in UPS : up = tree.up
  BY <1>1, Fields DEF Sound
<1>3. PICK kid \in KIDS : kid = tree.kid
  BY <1>1, Fields DEF Sound
<1>4. PICK r : r = tree.root
  OBVIOUS
<1>5. /\ Shape(up, kid, r, inside) /\ inside \in SUBSET Node
      /\ key \in [Node -> Int] /\ Ordered(kid, inside, key)
  BY <1>1, <1>2, <1>3, <1>4 DEF Sound, Shape
<1>6. PICK s \in inside : s = kid[n][d] /\ s # NULL
  BY <1>3, <1>5 DEF Follows, Shape
<1>7. PICK R : Route(up, kid, inside, Straight(Other(d)), s, m, R)
  BY <1>2, <1>3, <1>6 DEF Follows
<1>8. Other(d) \in Side /\ Other(Other(d)) = d
  BY Sides
<1>9. PICK dir : dir = Straight(Other(d)) /\ dir \in [Node -> Side] /\ \A e \in Node : dir[e] = Other(d)
  <2>1. PICK dir : dir = Straight(Other(d))
    OBVIOUS
  <2>2. dir \in [Node -> Side] /\ \A e \in Node : dir[e] = Other(d)
    BY <1>8, <2>1 DEF Straight
  <2> QED
    BY <2>1, <2>2
<1>10. m \in inside /\ m \in Under(kid, s)
  <2>1. s \in R /\ m \in inside
    BY <1>7 DEF Route
  <2> QED
    BY <1>5, <1>7, <1>9, <2>1, RouteEnd
<1>11. m # n
  BY <1>5, <1>6, <1>10, NotUnderKid
<1>12. NextOn(tree, n, d) = m
  <2>1. PICK z : z = NextOn(tree, n, d)
    OBVIOUS
  <2>2. Follows(tree, inside, n, z, d)
    BY <1>3, <1>6, <2>1, NextOnIs
  <2>3. PICK Q : Route(up, kid, inside, Straight(Other(d)), s, z, Q)
    BY <1>2, <1>3, <1>6, <2>2 DEF Follows
  <2>4. z = m
    BY <1>5, <1>7, <1>9, <2>3, RouteUnique
  <2> QED
    BY <2>1, <2>4
<1>13. NextOn(tree, m, Other(d)) = n
  <2>1. kid[m][Other(d)] = NULL
    BY <1>5, <1>7, <1>9, <1>10 DEF Route
  <2>2. PICK z : z = NextOn(tree, m, Other(d))
    OBVIOUS
  <2>3. PICK f : z = f[m] /\ ClimbsOn(f, up, kid, Other(d))
    BY <1>2, <1>3, <1>8, <1>10, <2>1, <2>2, NextOnIs
  <2>4. PICK o \in Side : o = Other(d) /\ Other(o) = d
    BY <1>8
  <2>5. f[m] = n
    <3>1. ClimbsOn(f, up, kid, o)
      BY <2>3, <2>4
    <3>2. LeadsFrom(up, kid, inside, o, n, m)
      BY <1>6, <1>7, <2>4 DEF LeadsFrom
    <3> QED
      BY <1>5, <3>1, <3>2, ClimbBack
  <2> QED
    BY <2>2, <2>3, <2>5
<1>14. ASSUME NEW l \in inside, Beyond(d, key[l], key[n]), Beyond(d, key[m], key[l])
       PROVE  FALSE
  <2>1. key[l] \in Int /\ key[n] \in Int /\ key[m] \in Int
    BY <1>5, <1>10
  <2>2. \A e : e \in Under(kid, n) <=> e = n \/ \E b \in Side : e \in Under(kid, kid[n][b])
    BY <1>5, UnderParts
  <2>3. CASE l \in Under(kid, s)
    <3>1. Fits(Other(d), key[m], key[l])
      BY <1>5, <1>7, <1>8, <1>9, <2>3, RouteOutermost
    <3> QED
      BY <1>14, <2>1, <3>1 DEF Fits, Beyond, Other, Side
  <2>4. CASE l = n
    BY <1>14, <2>1, <2>4, BeyondIs
  <2>5. CASE l \in Under(kid, kid[n][Other(d)])
    <3>1. Fits(Other(d), key[l], key[n])
      BY <1>5, <1>8, <2>5 DEF Ordered
    <3> QED
      BY <1>14, <2>1, <3>1 DEF Fits, Beyond, Other, Side
  <2>6. CASE l \notin Under(kid, n)
    <3>1. PICK b \in Side : \A e \in Under(kid, n) : Fits(b, key[e], key[l])
      BY <1>5, <2>6, Apart
    <3>2. n \in Under(kid, n) /\ m \in Under(kid, n)
      BY <1>6, <1>10, <2>2
    <3>3. Fits(b, key[n], key[l]) /\ Fits(b, key[m], key[l])
      BY <3>1, <3>2
    <3> QED
      BY <1>14, <2>1, <3>3 DEF Fits, Beyond, Side
  <2>7. \A b \in Side : b = d \/ b = Other(d)
    BY Sides
  <2> QED
    BY <1>6, <2>2, <2>3, <2>4, <2>5, <2>6, <2>7
<1>15. Adjacent(inside, n, m, d)
  BY <1>14 DEF Adjacent
<1> QED
  BY <1>10, <1>11, <1>12, <1>13, <1>15
-----------------------------------------------------------------------------
LeadsWithin(up, kid, r, P, dir, z) ==
    kid \in KIDS /\ dir \in [Node -> Side] /\ Shape(up, kid, r, P) /\ \E Q : Route(up, kid, P, dir, r, z, Q)

LEMMA TurnIs ==
    ASSUME NEW up, NEW kid, NEW r, NEW P, NEW dir, NEW z, LeadsWithin(up, kid, r, P, dir, z),
           NEW a \in P, NEW d \in Side, z \in Under(kid, kid[a][d])
    PROVE  dir[a] = d
<1>1. PICK Q : Route(up, kid, P, dir, r, z, Q)
  BY DEF LeadsWithin
<1>2. kid \in KIDS /\ dir \in [Node -> Side] /\ Shape(up, kid, r, P)
  BY DEF LeadsWithin
<1> QED
  BY <1>1, <1>2, RouteSides

\* The next node, where there is one, and where there is none.
LEMMA NextIs ==
    ASSUME IInv, pc = "out", NEW n \in inside, NEW d \in Side, NEW m, m = NextOn(tree, n, d)
    PROVE  /\ m # NULL => /\ m \in inside /\ m # n /\ NextOn(tree, m, Other(d)) = n
                          /\ Adjacent(inside, n, m, d)
           /\ m = NULL <=> n = Outermost(tree, tree.root, d)
<1>1. Sound(tree, tree.root, inside, {key})
  BY AtRest
<1>2. PICK up \in UPS : up = tree.up
  BY <1>1, Fields DEF Sound
<1>3. PICK kid \in KIDS : kid = tree.kid
  BY <1>1, Fields DEF Sound
<1>4. PICK r \in inside : r = tree.root
  BY <1>1 DEF Sound, Shape
<1>5. /\ Shape(up, kid, r, inside) /\ inside \in SUBSET Node /\ NULL \notin inside
      /\ key \in [Node -> Int]
  BY <1>1, <1>2, <1>3, <1>4, NullIsNoNode DEF Sound, Shape
<1>6. PICK o \in Side : o = Other(d) /\ Other(o) = d /\ o # d
  BY Sides
<1>7. PICK z : z = Outermost(tree, r, d)
  OBVIOUS
<1>8. PICK Q : Route(up, kid, inside, Straight(d), r, z, Q)
  BY <1>2, <1>3, <1>7, OutermostRoute
<1>9. PICK dir : dir = Straight(d) /\ dir \in [Node -> Side] /\ \A e \in Node : dir[e] = d
  <2>1. PICK dir : dir = Straight(d)
    OBVIOUS
  <2>2. dir \in [Node -> Side] /\ \A e \in Node : dir[e] = d
    BY <2>1 DEF Straight
  <2> QED
    BY <2>1, <2>2
<1>10. z \in inside /\ kid[z][d] = NULL
  BY <1>5, <1>8, <1>9 DEF Route
<1>11. CASE kid[n][d] # NULL
  <2>1. Follows(tree, inside, n, m, d)
    BY <1>3, <1>11, NextOnIs
  <2>2. /\ m \in inside /\ m # n /\ NextOn(tree, m, Other(d)) = n
        /\ Adjacent(inside, n, m, d)
    BY <2>1, FollowsIs
  <2> QED
    BY <1>4, <1>5, <1>7, <1>10, <1>11, <2>2
<1>12. CASE kid[n][d] = NULL
  <2>1. PICK s, R : LeadsBack(up, kid, inside, d, n, m, s, R)
    BY <1>2, <1>3, <1>12, NextOnIs
  <2>2. /\ s \in inside /\ up[s] = m /\ Route(up, kid, inside, Straight(d), s, n, R)
        /\ m # NULL => m \in inside /\ kid[m][o] = s
    BY <1>6, <2>1 DEF LeadsBack
  <2>3. ASSUME m # NULL
        PROVE  /\ m \in inside /\ m # n /\ NextOn(tree, m, Other(d)) = n
               /\ Adjacent(inside, n, m, d) /\ n # z
    <3>1. Follows(tree, inside, m, n, o)
      BY <1>2, <1>3, <1>5, <1>6, <2>2, <2>3 DEF Follows
    <3>2. m \in inside /\ n # m /\ NextOn(tree, m, o) = n /\ Adjacent(inside, m, n, o)
      BY <2>2, <2>3, <3>1, FollowsIs
    <3>3. Adjacent(inside, n, m, d)
      <4>1. \A l \in inside : key[l] \in Int /\ key[n] \in Int /\ key[m] \in Int
        BY <1>5, <3>2
      <4> QED
        BY <1>6, <3>2, <4>1, BeyondIs DEF Adjacent
    <3>4. ASSUME n = z PROVE FALSE
      <4>1. s \in R
        BY <2>2 DEF Route
      <4>2. n \in Under(kid, s)
        BY <1>5, <1>9, <2>2, <4>1, RouteEnd
      <4>3. z \in Under(kid, kid[m][o])
        BY <2>2, <2>3, <3>4, <4>2
      <4>4. dir[m] = o
        <5>1. m \in inside /\ o \in Side /\ dir \in [Node -> Side]
          BY <1>6, <1>9, <3>2, <2>2, <2>3
        <5>2. Route(up, kid, inside, dir, r, z, Q)
          BY <1>8, <1>9
        <5>3. Shape(up, kid, r, inside)
          BY <1>5
        <5> QED
          <6>1. LeadsWithin(up, kid, r, inside, dir, z)
            BY <5>1, <5>2, <5>3 DEF LeadsWithin
          <6> QED
            BY <6>1, <4>3, <5>1, TurnIs
      <4> QED
        BY <1>5, <1>6, <1>9, <3>2, <4>4
    <3> QED
      BY <1>6, <3>2, <3>3, <3>4
  <2>4. ASSUME m = NULL PROVE n = z
    <3>1. s = r
      <4>1. \A e \in inside : e # r => up[e] \in inside
        BY <1>5 DEF Shape
      <4> QED
        BY <1>5, <2>2, <2>4, <4>1
    <3> QED
      BY <1>5, <1>8, <1>9, <2>2, <3>1, RouteUnique
  <2> QED
    BY <1>4, <1>7, <2>3, <2>4
<1> QED
  BY <1>11, <1>12

LEMMA WalksIs ==
    ASSUME IInv, pc = "out", inside # {}, NEW d \in Side
    PROVE  WalksInOrder(d)
<1>1. PICK z : z = Outermost(tree, tree.root, d)
  OBVIOUS
<1>2. z \in inside
  <2>1. Sound(tree, tree.root, inside, {key})
    BY AtRest
  <2>2. tree.root \in inside
    BY <2>1 DEF Sound, Shape
  <2> QED
    BY <1>1, <2>2, OutermostIs
<1>3. NextOn(tree, z, d) = NULL
  BY <1>1, <1>2, NextIs
<1>4. ASSUME NEW n \in inside \ {z}, NEW m, m = NextOn(tree, n, d)
      PROVE  /\ m \in inside \ {n} /\ NextOn(tree, m, Other(d)) = n
             /\ \A l \in inside : ~(Beyond(d, key[l], key[n]) /\ Beyond(d, key[m], key[l]))
  <2>1. m # NULL
    BY <1>1, <1>4, NextIs
  <2>2. m \in inside /\ m # n /\ NextOn(tree, m, Other(d)) = n /\ Adjacent(inside, n, m, d)
    BY <1>4, <2>1, NextIs
  <2> QED
    BY <2>2 DEF Adjacent
<1> QED
  BY <1>1, <1>3, <1>4 DEF WalksInOrder

\* Whatever nodes and keys there are, and wherever rotations have left equal
\* keys, outside the calls a search finds its key, or the nearest one on its
\* side, if there is one, and successor and predecessor walk through all nodes
\* in order, each back to where the other came from.
THEOREM TreeIsNavigable == Spec => []Navigates
<1>1. ASSUME IInv, pc = "out", NEW n \in Node PROVE Finds(key[n])
  <2>1. key[n] \in Int
    BY <1>1, TypeIs DEF IInv
  <2> QED
    BY <1>1, <2>1, FindsIs
<1>2. IInv => Navigates
  BY <1>1, WalksIs DEF Navigates
<1> QED
  BY <1>2, Inductive, PTL
-----------------------------------------------------------------------------
\* What is below a child of a is that child and what has its parent there.
LEMMA UnderVia ==
    ASSUME NEW up, NEW kid \in KIDS, NEW r, NEW P, Shape(up, kid, r, P),
           NEW m \in P, up[m] \in P, NEW a \in P, NEW d \in Side
    PROVE  m \in Under(kid, kid[a][d]) <=>
               (a = up[m] /\ m = kid[a][d]) \/ up[m] \in Under(kid, kid[a][d])
<1>1. PICK q \in P : q = up[m] /\ \E b \in Side : kid[q][b] = m
  <2>1. m # r
    BY NullIsNoNode DEF Shape
  <2> QED
    BY <2>1 DEF Shape
<1>2. /\ P \in SUBSET Node /\ NULL \notin P
      /\ kid[a][d] # NULL => kid[a][d] \in P /\ up[kid[a][d]] = a
  BY NullIsNoNode DEF Shape
<1>3. CASE kid[a][d] = NULL
  BY <1>1, <1>2, <1>3, UnderNull
<1>4. CASE kid[a][d] # NULL
  <2>1. PICK k \in P : k = kid[a][d] /\ up[k] = a /\ k \in Pointer /\ k # NULL
    BY <1>2, <1>4 DEF Pointer
  <2>2. k \in Under(kid, k) /\ Closed(kid, Under(kid, k))
    BY <2>1, UnderIs DEF KIDS
  <2>3. m \in Under(kid, k) /\ m # k => q \in Under(kid, k)
    BY <1>1, <2>1, UpUnder
  <2>4. q \in Under(kid, k) => m \in Under(kid, k)
    BY <1>1, <1>2, <2>2 DEF Closed
  <2> QED
    BY <1>1, <2>1, <2>2, <2>3, <2>4
<1> QED
  BY <1>3, <1>4

\* Nothing is below both children of a node.
LEMMA UnderApart ==
    ASSUME NEW up, NEW kid \in KIDS, NEW r, NEW P, Shape(up, kid, r, P), NEW a \in P
    PROVE  \A e : ~(e \in Under(kid, kid[a]["left"]) /\ e \in Under(kid, kid[a]["right"]))
<1>1. PICK i : i = kid[a]["left"]
  OBVIOUS
<1>2. PICK j : j = kid[a]["right"]
  OBVIOUS
<1>3. CASE i = NULL \/ j = NULL
  BY <1>1, <1>2, <1>3, UnderNull
<1>4. CASE i # NULL /\ j # NULL
  <2>1. /\ i \in P /\ up[i] = a /\ j \in P /\ up[j] = a /\ i # j
    <3>1. "left" \in Side /\ Other("left") = "right" /\ "right" \in Side
      BY DEF Side, Other
    <3> QED
      BY <1>1, <1>2, <1>4, <3>1 DEF Shape
  <2>2. a \notin Under(kid, i) /\ a \notin Under(kid, j)
    BY <1>1, <1>2, <1>4, NotUnderKid DEF Side
  <2>3. PICK S : S = {e \in P : e \in Under(kid, i) /\ e \in Under(kid, j)}
    OBVIOUS
  <2>4. ASSUME S # {} PROVE FALSE
    <3>1. PICK e \in S : up[e] \notin S
      BY <2>3, <2>4 DEF Shape
    <3>2. e \in P /\ e \in Under(kid, i) /\ e \in Under(kid, j)
      BY <2>3, <3>1
    <3>3. e # i => up[e] \in Under(kid, i) /\ e \in P
      BY <2>1, <3>2, UpUnder
    <3>4. e # j => up[e] \in Under(kid, j) /\ e \in P
      BY <2>1, <3>2, UpUnder
    <3>5. e # i /\ e # j
      BY <2>1, <2>2, <3>3, <3>4
    <3>6. Under(kid, i) \in SUBSET P
      BY <2>1, UnderParts
    <3> QED
      BY <2>3, <3>1, <3>3, <3>4, <3>5, <3>6
  <2>5. Under(kid, i) \in SUBSET P
    BY <2>1, UnderParts
  <2> QED
    BY <1>1, <1>2, <2>3, <2>4, <2>5
<1> QED
  BY <1>3, <1>4
-----------------------------------------------------------------------------
\* What bst_travel has not come to yet when it is at m: what is below m, and
\* what is on the right of a node that m is on the left of.
After(kid, P, m) ==
    {e \in P : \E a \in P : m \in Under(kid, kid[a]["left"]) /\ e \in Under(kid, kid[a]["right"])}
Rest(kid, P, m) == IF m = NULL THEN {} ELSE Under(kid, m) \cup After(kid, P, m)

LEMMA AfterKid ==
    ASSUME NEW up, NEW kid \in KIDS, NEW r, NEW P, Shape(up, kid, r, P),
           NEW m \in P, up[m] \in P
    PROVE  /\ m = kid[up[m]]["right"] => After(kid, P, m) = After(kid, P, up[m])
           /\ m = kid[up[m]]["left"] =>
                 After(kid, P, m) = After(kid, P, up[m]) \cup Under(kid, kid[up[m]]["right"])
<1>1. PICK q \in P : q = up[m]
  OBVIOUS
<1>2. \A a \in P : m \in Under(kid, kid[a]["left"]) <=>
          (a = q /\ m = kid[a]["left"]) \/ q \in Under(kid, kid[a]["left"])
  <2>1. "left" \in Side
    BY DEF Side
  <2> QED
    BY <1>1, <2>1, UnderVia
<1>3. m # NULL
  BY NullIsNoNode DEF Shape
<1>4. Under(kid, kid[q]["right"]) \in SUBSET P
  <2>1. "right" \in Side
    BY DEF Side
  <2>2. Under(kid, q) \in SUBSET P /\ \A e : e \in Under(kid, kid[q]["right"]) => e \in Under(kid, q)
    BY <2>1, UnderParts
  <2> QED
    BY <2>2
<1>5. ASSUME m = kid[q]["right"] PROVE After(kid, P, m) = After(kid, P, q)
  <2>1. m # kid[q]["left"]
    <3>1. "right" \in Side /\ Other("right") = "left"
      BY DEF Side, Other
    <3> QED
      BY <1>3, <1>5, <3>1 DEF Shape
  <2> QED
    BY <1>2, <2>1 DEF After
<1>6. ASSUME m = kid[q]["left"]
      PROVE  After(kid, P, m) = After(kid, P, q) \cup Under(kid, kid[q]["right"])
  BY <1>2, <1>4, <1>6 DEF After
<1> QED
  BY <1>1, <1>5, <1>6

\* The nodes after m, and where UpAndRight goes from a leaf m.
LEMMA AfterIs ==
    ASSUME NEW up, NEW kid \in KIDS, NEW r, NEW P, Shape(up, kid, r, P),
           NEW f, Climbs(f, up, kid), NEW m \in P
    PROVE  /\ m \notin After(kid, P, m)
           /\ Rest(kid, P, f[m]) = After(kid, P, m)
<1>1. /\ P \in SUBSET Node /\ NULL \notin P /\ r # NULL /\ r \in P /\ up[r] = NULL
      /\ \A e \in P : \A d \in Side : kid[e][d] # NULL => kid[e][d] \in P /\ up[kid[e][d]] = e
      /\ \A e \in P : e # r => up[e] \in P /\ \E d \in Side : kid[up[e]][d] = e
      /\ \A S \in SUBSET P : S # {} => \E e \in S : up[e] \notin S
  BY NullIsNoNode DEF Shape
<1>2. m \notin After(kid, P, m)
  BY UnderApart DEF After
<1>3. PICK S \in SUBSET P : S = {e \in P : Rest(kid, P, f[e]) # After(kid, P, e)}
  OBVIOUS
<1>4. ASSUME S # {} PROVE FALSE
  <2>1. PICK e \in P : e \in S /\ up[e] \notin S
    BY <1>1, <1>4
  <2>2. f[e] = IF up[e] = NULL THEN NULL
               ELSE IF kid[up[e]]["right"] \in {e, NULL} THEN f[up[e]]
               ELSE kid[up[e]]["right"]
    BY <1>1, <2>1 DEF Climbs
  <2>3. CASE e = r
    <3>1. After(kid, P, e) = {}
      <4>1. ASSUME NEW a \in P, e \in Under(kid, kid[a]["left"]) PROVE FALSE
        <5>1. kid[a]["left"] # NULL /\ "left" \in Side
          BY <4>1, UnderNull DEF Side
        <5>2. PICK k \in P : k = kid[a]["left"] /\ up[k] = a
          BY <1>1, <5>1
        <5>3. e # k
          BY <1>1, <2>3, <5>2
        <5>4. up[e] \in Under(kid, k)
          BY <4>1, <5>2, <5>3, UpUnder
        <5>5. Under(kid, k) \in SUBSET P
          BY UnderParts
        <5> QED
          BY <1>1, <2>3, <5>4, <5>5
      <4> QED
        BY <4>1 DEF After
    <3>2. f[e] = NULL
      BY <1>1, <2>2, <2>3
    <3> QED
      BY <1>3, <2>1, <3>1, <3>2 DEF Rest
  <2>4. CASE e # r
    <3>1. PICK q \in P : q = up[e] /\ q # NULL
      BY <1>1, <2>1, <2>4
    <3>2. e = kid[q]["left"] \/ e = kid[q]["right"]
      BY <1>1, <2>1, <2>4, <3>1 DEF Side
    <3>3. Rest(kid, P, f[q]) = After(kid, P, q)
      BY <1>3, <2>1, <3>1
    <3>4. /\ e = kid[q]["right"] => After(kid, P, e) = After(kid, P, q)
          /\ e = kid[q]["left"] =>
                After(kid, P, e) = After(kid, P, q) \cup Under(kid, kid[q]["right"])
      BY <2>1, <3>1, AfterKid
    <3>5. CASE kid[q]["right"] = e
      BY <1>3, <2>1, <2>2, <3>1, <3>3, <3>4, <3>5
    <3>6. CASE kid[q]["right"] = NULL
      <4>1. e = kid[q]["left"] /\ Under(kid, kid[q]["right"]) = {}
        BY <1>1, <2>1, <3>2, <3>6, UnderNull
      <4> QED
        BY <1>3, <2>1, <2>2, <3>1, <3>3, <3>4, <3>6, <4>1
    <3>7. CASE kid[q]["right"] # e /\ kid[q]["right"] # NULL
      <4>1. PICK z \in P : z = kid[q]["right"] /\ up[z] = q /\ z # NULL
        BY <1>1, <3>7 DEF Side
      <4>2. After(kid, P, z) = After(kid, P, q)
        BY <4>1, AfterKid
      <4>3. f[e] = z /\ e = kid[q]["left"]
        BY <2>2, <3>1, <3>2, <3>7, <4>1
      <4> QED
        BY <1>3, <2>1, <3>4, <4>1, <4>2, <4>3 DEF Rest
    <3> QED
      BY <3>5, <3>6, <3>7
  <2> QED
    BY <2>3, <2>4
<1> QED
  BY <1>2, <1>3, <1>4
-----------------------------------------------------------------------------
\* In a traversal, what has been visited is all but the rest.
Travels == pc = "travel" => seen = inside \ Rest(tree.kid, inside, x)

\* Where a traversal goes from x, the rest is what it was without x.
LEMMA NextStop ==
    ASSUME IInv, pc = "travel", x # NULL
    PROVE  LET to == IF Kids(x) # <<>> THEN Kids(x)[1] ELSE UpAndRight(x)
           IN Rest(tree.kid, inside, to) = Rest(tree.kid, inside, x) \ {x}
<1>1. Sound(tree, tree.root, inside, {key})
  BY AtRest
<1>2. PICK up \in UPS : up = tree.up
  BY <1>1, Fields DEF Sound
<1>3. PICK kid \in KIDS : kid = tree.kid
  BY <1>1, Fields DEF Sound
<1>4. PICK P \in SUBSET Node : P = inside
  BY TypeIs DEF IInv
<1>5. Shape(up, kid, tree.root, P)
  BY <1>1, <1>2, <1>3, <1>4 DEF Sound
<1>6. PICK n \in P : n = x /\ n # NULL
  BY <1>4 DEF IInv, Loops
<1>7. /\ n \in Under(kid, n)
      /\ \A e : e \in Under(kid, n) <=> e = n \/ \E d \in Side : e \in Under(kid, kid[n][d])
      /\ \A d \in Side : kid[n][d] # NULL => kid[n][d] \in P /\ up[kid[n][d]] = n /\ n \notin Under(kid, kid[n][d])
      /\ \A d \in Side : kid[n][d] = NULL => Under(kid, kid[n][d]) = {}
  <2>1. /\ n \in Under(kid, n)
        /\ \A e : e \in Under(kid, n) <=> e = n \/ \E d \in Side : e \in Under(kid, kid[n][d])
    BY <1>3, <1>5, UnderParts
  <2>2. \A d \in Side : kid[n][d] # NULL => kid[n][d] \in P /\ up[kid[n][d]] = n
    BY <1>5 DEF Shape
  <2>3. \A d \in Side : kid[n][d] # NULL => n \notin Under(kid, kid[n][d])
    BY <1>3, <1>5, NotUnderKid
  <2>4. \A d \in Side : kid[n][d] = NULL => Under(kid, kid[n][d]) = {}
    BY UnderNull
  <2> QED
    BY <2>1, <2>2, <2>3, <2>4
<1>8. PICK l : l = kid[n]["left"]
  OBVIOUS
<1>9. PICK g : g = kid[n]["right"]
  OBVIOUS
<1>10. \A d \in Side : kid[n][d] = NULL => n \notin Under(kid, kid[n][d])
  BY <1>7
<1>11. Under(kid, n) = {n} \cup Under(kid, l) \cup Under(kid, g)
       /\ n \notin Under(kid, l) /\ n \notin Under(kid, g)
  <2>1. \A e : e \in Under(kid, n) <=> e = n \/ e \in Under(kid, l) \/ e \in Under(kid, g)
    BY <1>7, <1>8, <1>9 DEF Side
  <2> QED
    BY <1>7, <1>8, <1>9, <1>10, <2>1 DEF Side
<1>12. PICK f : f = CHOOSE h : Climbs(h, up, kid)
  OBVIOUS
<1>13. Climbs(f, up, kid)
  <2>1. \A m \in Node : m \notin P => up[m] = NULL
    BY <1>2, <1>4, NullIsNoNode DEF IInv, Clean, Loops
  <2>2. \E h : Climbs(h, up, kid)
    BY <1>5, <2>1, ClimbIs
  <2> QED
    BY <1>12, <2>2, Zenon
<1>14. UpAndRight(x) = f[n]
  BY <1>2, <1>3, <1>6, <1>12 DEF UpAndRight, Climbs
<1>15. n \notin After(kid, P, n) /\ Rest(kid, P, f[n]) = After(kid, P, n)
  BY <1>5, <1>13, AfterIs
<1>16. Rest(kid, P, n) = Under(kid, n) \cup After(kid, P, n)
  BY <1>6 DEF Rest
<1>17. PICK to : to = IF Kids(x) # <<>> THEN Kids(x)[1] ELSE UpAndRight(x)
  OBVIOUS
<1>18. Rest(kid, P, to) = Rest(kid, P, n) \ {n}
  <2>1. CASE l # NULL
    <3>1. KidOn(x, "left") = <<l>>
      BY <1>3, <1>6, <1>8, <2>1 DEF KidOn
    <3>2. PICK rest \in Seq(P) : rest = KidOn(x, "right")
      <4>1. "right" \in Side /\ g = tree.kid[x]["right"]
        BY <1>3, <1>6, <1>9 DEF Side
      <4>2. g # NULL => g \in P
        BY <1>7, <1>9, <4>1
      <4>3. KidOn(x, "right") = IF g = NULL THEN <<>> ELSE <<g>>
        BY <4>1 DEF KidOn
      <4>4. KidOn(x, "right") \in Seq(P)
        <5>1. CASE g = NULL
          <6>1. KidOn(x, "right") = <<>> /\ <<>> \in Seq(P)
            BY <4>3, <5>1
          <6> QED
            BY <6>1
        <5>2. CASE g # NULL
          <6>1. KidOn(x, "right") = <<g>>
            BY <4>3, <5>2
          <6>2. <<g>> \in Seq(P)
            BY <4>2, <5>2
          <6> QED
            BY <6>1, <6>2
        <5> QED
          BY <5>1, <5>2
      <4> QED
        BY <4>4
    <3>3. Kids(x) = <<l>> \o rest
      BY <3>1, <3>2 DEF Kids
    <3>4. (<<l>> \o rest)[1] = l /\ <<l>> \o rest # <<>>
      OBVIOUS
    <3>5. to = l
      BY <1>17, <3>3, <3>4
    <3>6. l \in P /\ up[l] = n
      BY <1>7, <1>8, <2>1 DEF Side
    <3>7. After(kid, P, l) = After(kid, P, n) \cup Under(kid, g)
      BY <1>3, <1>5, <1>8, <1>9, <3>6, AfterKid
    <3>8. Rest(kid, P, l) = Under(kid, l) \cup After(kid, P, l)
      BY <2>1 DEF Rest
    <3> QED
      BY <1>11, <1>15, <1>16, <3>5, <3>7, <3>8
  <2>2. CASE l = NULL /\ g # NULL
    <3>1. KidOn(x, "left") = <<>> /\ KidOn(x, "right") = <<g>>
      BY <1>3, <1>6, <1>8, <1>9, <2>2 DEF KidOn
    <3>2. Kids(x) = <<>> \o <<g>>
      BY <3>1 DEF Kids
    <3>3. <<>> \o <<g>> = <<g>> /\ <<g>>[1] = g /\ <<g>> # <<>>
      OBVIOUS
    <3>4. to = g
      BY <1>17, <3>2, <3>3
    <3>5. g \in P /\ up[g] = n
      BY <1>7, <1>9, <2>2 DEF Side
    <3>6. After(kid, P, g) = After(kid, P, n)
      BY <1>3, <1>5, <1>9, <3>5, AfterKid
    <3>7. Rest(kid, P, g) = Under(kid, g) \cup After(kid, P, g)
      BY <2>2 DEF Rest
    <3>8. Under(kid, l) = {}
      BY <2>2, UnderNull
    <3> QED
      BY <1>11, <1>15, <1>16, <3>4, <3>6, <3>7, <3>8
  <2>3. CASE l = NULL /\ g = NULL
    <3>1. KidOn(x, "left") = <<>> /\ KidOn(x, "right") = <<>>
      BY <1>3, <1>6, <1>8, <1>9, <2>3 DEF KidOn
    <3>2. Kids(x) = <<>> \o <<>>
      BY <3>1 DEF Kids
    <3>3. <<>> \o <<>> = <<>>
      OBVIOUS
    <3>4. to = f[n]
      BY <1>14, <1>17, <3>2, <3>3
    <3>5. Under(kid, l) = {} /\ Under(kid, g) = {}
      BY <2>3, UnderNull
    <3> QED
      BY <1>11, <1>15, <1>16, <3>4, <3>5
  <2> QED
    BY <2>1, <2>2, <2>3
<1> QED
  BY <1>3, <1>4, <1>6, <1>17, <1>18

LEMMA TravelTravels ==
    ASSUME IInv, Travel
    PROVE  Travels'
<1>1. /\ tree' = tree /\ inside' = inside /\ pc = "out" /\ x' = tree.root /\ seen' = {} /\ tree.root # NULL
  BY DEF Travel
<1>2. Sound(tree, tree.root, inside, {key})
  BY <1>1, AtRest
<1>3. tree.root \in Pointer /\ tree.kid \in KIDS /\ Shape(tree.up, tree.kid, tree.root, inside)
  BY <1>2, Fields DEF Sound
<1>4. Under(tree.kid, tree.root) = inside
  BY <1>3, UnderRoot
<1>5. Rest(tree.kid, inside, tree.root) = inside
  BY <1>1, <1>4 DEF Rest, After
<1> QED
  BY <1>1, <1>5 DEF Travels

LEMMA VisitTravels ==
    ASSUME IInv, Travels, Visit
    PROVE  Travels'
<1>1. /\ tree' = tree /\ inside' = inside /\ pc = "travel" /\ seen' = seen \cup {x} /\ x # NULL
  BY DEF Visit
<1>2. PICK z : z = x'
  OBVIOUS
<1>3. z = IF Kids(x) # <<>> THEN Kids(x)[1] ELSE UpAndRight(x)
  BY <1>2 DEF Visit
<1>4. Rest(tree.kid, inside, z) = Rest(tree.kid, inside, x) \ {x}
  BY <1>1, <1>3, NextStop
<1>5. x \in inside
  BY <1>1 DEF IInv, Loops
<1>6. seen = inside \ Rest(tree.kid, inside, x)
  BY <1>1 DEF Travels
<1>7. seen' = inside \ Rest(tree.kid, inside, z)
  BY <1>1, <1>4, <1>5, <1>6
<1> QED
  BY <1>1, <1>2, <1>7 DEF Travels
-----------------------------------------------------------------------------
\* The queue of bst_free_all: from a to b, the parent field of each node of Q
\* names the next one.
Queue(up, Q, a, b) ==
    /\ a \in Q /\ b \in Q /\ up[b] = NULL
    /\ \A e \in Q : e # b => up[e] \in Q /\ up[e] # a
    /\ \A e \in Q : e # b => \A i \in Q : i # b /\ up[i] = up[e] => i = e
    /\ \A S \in SUBSET Q : S # {} => \E e \in S : up[e] \notin S

LEMMA QueueMore ==
    ASSUME NEW Q \in SUBSET Node, NEW up, NEW a, NEW b, Queue(up, Q, a, b),
           NEW n \in Node \ Q, NEW u, u[b] = n, u[n] = NULL, \A e \in Q : e # b => u[e] = up[e]
    PROVE  Queue(u, Q \cup {n}, a, n)
<1>1. NULL \notin Q /\ n # NULL
  BY NullIsNoNode
<1>2. /\ a \in Q /\ b \in Q /\ up[b] = NULL
      /\ \A e \in Q : e # b => up[e] \in Q /\ up[e] # a
      /\ \A e \in Q : e # b => \A i \in Q : i # b /\ up[i] = up[e] => i = e
      /\ \A S \in SUBSET Q : S # {} => \E e \in S : up[e] \notin S
  BY DEF Queue
<1>3. PICK R : R = Q \cup {n}
  OBVIOUS
<1>4. \A e \in R : e # n => u[e] \in R /\ u[e] # a
  BY <1>2, <1>3
<1>5. \A e \in R : e # n => \A i \in R : i # n /\ u[i] = u[e] => i = e
  BY <1>2, <1>3
<1>6. ASSUME NEW S \in SUBSET R, S # {} PROVE \E e \in S : u[e] \notin S
  <2>1. CASE n \in S
    BY <1>1, <1>3, <2>1
  <2>2. CASE n \notin S
    <3>1. S \in SUBSET Q
      BY <1>3, <1>6, <2>2
    <3>2. PICK e \in S : up[e] \notin S
      BY <1>2, <1>6, <3>1
    <3> QED
      BY <2>2, <3>1, <3>2
  <2> QED
    BY <2>1, <2>2
<1>7. a \in R /\ n \in R
  BY <1>2, <1>3
<1>8. Queue(u, R, a, n)
  BY <1>4, <1>5, <1>6, <1>7 DEF Queue
<1> QED
  BY <1>3, <1>8

\* The first node goes; where it is the last one, too, none remains.
LEMMA QueueLess ==
    ASSUME NEW Q \in SUBSET Node, NEW up, NEW a, NEW b, Queue(up, Q, a, b), a # b,
           NEW R, R = Q \ {a}
    PROVE  up[a] \in R /\ Queue(up, R, up[a], b)
<1>1. /\ a \in Q /\ b \in Q /\ up[b] = NULL
      /\ \A e \in Q : e # b => up[e] \in Q /\ up[e] # a
      /\ \A e \in Q : e # b => \A i \in Q : i # b /\ up[i] = up[e] => i = e
      /\ \A S \in SUBSET Q : S # {} => \E e \in S : up[e] \notin S
  BY DEF Queue
<1>2. up[a] \in R /\ b \in R
  BY <1>1
<1>3. \A e \in R : e # b => up[e] \in R /\ up[e] # up[a]
  BY <1>1
<1>4. \A S \in SUBSET R : S # {} => \E e \in S : up[e] \notin S
  BY <1>1
<1> QED
  BY <1>1, <1>2, <1>3, <1>4 DEF Queue

LEMMA QueueLast ==
    ASSUME NEW Q \in SUBSET Node, NEW up, NEW a, Queue(up, Q, a, a)
    PROVE  Q = {a} /\ up[a] = NULL
<1>1. /\ a \in Q /\ up[a] = NULL
      /\ \A e \in Q : e # a => up[e] \in Q /\ up[e] # a
      /\ \A S \in SUBSET Q : S # {} => \E e \in S : up[e] \notin S
  BY DEF Queue
<1>2. PICK R \in SUBSET Q : R = Q \ {a}
  OBVIOUS
<1>3. R = {}
  BY <1>1, <1>2
<1> QED
  BY <1>1, <1>2, <1>3
-----------------------------------------------------------------------------
\* What may come into the queue next: the nodes not freed yet whose parent has
\* been, and the root.
Front(up, r, P, S) == {e \in P \ S : e = r \/ up[e] \in S}

\* Freeing a node of the front brings its children into it.
LEMMA FrontIs ==
    ASSUME NEW up, NEW kid, NEW r, NEW P, Shape(up, kid, r, P),
           NEW S \in SUBSET P, \A e \in S : e # r => up[e] \in S,
           NEW n \in Front(up, r, P, S)
    PROVE  /\ Front(up, r, P, S \cup {n})
                 = (Front(up, r, P, S) \ {n}) \cup ({kid[n]["left"], kid[n]["right"]} \ {NULL})
           /\ \A d \in Side : kid[n][d] # NULL => kid[n][d] \in P \ Front(up, r, P, S)
           /\ kid[n]["left"] # NULL => kid[n]["left"] # kid[n]["right"]
           /\ S \cup {n} \in SUBSET P
           /\ \A e \in S \cup {n} : e # r => up[e] \in S \cup {n}
<1>1. /\ P \in SUBSET Node /\ NULL \notin P /\ r # NULL /\ r \in P /\ up[r] = NULL
      /\ \A e \in P : \A d \in Side : kid[e][d] # NULL => kid[e][d] \in P /\ up[kid[e][d]] = e
                                                          /\ kid[e][d] # kid[e][Other(d)]
      /\ \A e \in P : e # r => up[e] \in P /\ \E d \in Side : kid[up[e]][d] = e
      /\ \A C \in SUBSET P : C # {} => \E e \in C : up[e] \notin C
  BY NullIsNoNode DEF Shape, Front
<1>2. n \in P \ S /\ (n = r \/ up[n] \in S)
  BY DEF Front
<1>3. up[n] # n
  <2>1. {n} \in SUBSET P
    BY <1>2
  <2> QED
    BY <1>1, <2>1
<1>4. PICK K : K = {kid[n]["left"], kid[n]["right"]} \ {NULL}
  OBVIOUS
<1>5. \A e : e \in K <=> e \in P /\ up[e] = n
  <2>1. ASSUME NEW e \in K PROVE e \in P /\ up[e] = n
    BY <1>1, <1>2, <1>4 DEF Side
  <2>2. ASSUME NEW e \in P, up[e] = n PROVE e \in K
    <3>1. e # r /\ e # NULL
      BY <1>1, <1>2, <2>2
    <3>2. PICK d \in Side : kid[n][d] = e
      BY <1>1, <2>2, <3>1
    <3> QED
      BY <1>4, <3>1, <3>2 DEF Side
  <2> QED
    BY <2>1, <2>2
<1>6. \A e \in K : e \notin S /\ e # n /\ e # r /\ e \notin Front(up, r, P, S)
  BY <1>1, <1>2, <1>3, <1>5 DEF Front
<1>7. Front(up, r, P, S \cup {n}) = (Front(up, r, P, S) \ {n}) \cup K
  BY <1>5, <1>6 DEF Front
<1>8. \A d \in Side : kid[n][d] # NULL => kid[n][d] \in P \ Front(up, r, P, S)
  BY <1>1, <1>2, <1>4, <1>6 DEF Side
<1>9. kid[n]["left"] # NULL => kid[n]["left"] # kid[n]["right"]
  <2>1. "left" \in Side /\ Other("left") = "right"
    BY DEF Side, Other
  <2> QED
    BY <1>1, <1>2, <2>1
<1>10. S \cup {n} \in SUBSET P /\ \A e \in S \cup {n} : e # r => up[e] \in S \cup {n}
  BY <1>2
<1> QED
  BY <1>4, <1>7, <1>8, <1>9, <1>10
-----------------------------------------------------------------------------
\* The parent fields after the nodes of a line have been put into the queue
\* behind its first one.
Relinked(up, line) ==
    LET last == line[Len(line)]
    IN [n \in Node |->
            IF n = last THEN NULL
            ELSE IF \E i \in 1 .. Len(line) - 1 : line[i] = n
                 THEN line[1 + CHOOSE i \in 1 .. Len(line) - 1 : line[i] = n]
                 ELSE up[n]]

LEMMA RelinkIs ==
    ASSUME NEW up, NEW line \in Seq(Node), NEW k \in Nat, Len(line) = k + 1,
           \A i, j \in 1 .. k + 1 : line[i] = line[j] => i = j
    PROVE  /\ Relinked(up, line)[line[k + 1]] = NULL
           /\ \A i \in 1 .. k : Relinked(up, line)[line[i]] = line[i + 1]
           /\ \A n \in Node : (\A i \in 1 .. k + 1 : line[i] # n) => Relinked(up, line)[n] = up[n]
<1>1. PICK last : last = line[k + 1]
  OBVIOUS
<1>2. \A i \in 1 .. k + 1 : line[i] \in Node
  OBVIOUS
<1>3. 1 .. Len(line) - 1 = 1 .. k /\ k + 1 \in 1 .. k + 1 /\ \A i \in 1 .. k : i \in 1 .. k + 1 /\ i # k + 1
  OBVIOUS
<1>4. PICK u : u = Relinked(up, line)
  OBVIOUS
<1>5. u = [n \in Node |->
            IF n = last THEN NULL
            ELSE IF \E i \in 1 .. k : line[i] = n
                 THEN line[1 + CHOOSE i \in 1 .. k : line[i] = n]
                 ELSE up[n]]
  BY <1>1, <1>3, <1>4 DEF Relinked
<1>6. u[last] = NULL
  BY <1>1, <1>2, <1>3, <1>5
<1>7. ASSUME NEW i \in 1 .. k PROVE u[line[i]] = line[i + 1]
  <2>1. PICK n \in Node : n = line[i]
    BY <1>2, <1>3
  <2>2. n # last
    BY <1>1, <1>3, <2>1
  <2>3. PICK j : j = CHOOSE h \in 1 .. k : line[h] = n
    OBVIOUS
  <2>4. j \in 1 .. k /\ line[j] = n
    BY <2>1, <2>3
  <2>5. j = i
    BY <1>3, <2>1, <2>4
  <2>6. \E h \in 1 .. k : line[h] = n
    BY <2>1
  <2>7. u[n] = line[1 + CHOOSE h \in 1 .. k : line[h] = n]
    BY <1>5, <2>2, <2>6, Zenon
  <2>8. u[n] = line[1 + j]
    BY <2>3, <2>7, Zenon
  <2> QED
    BY <2>1, <2>5, <2>8
<1>8. ASSUME NEW n \in Node, \A i \in 1 .. k + 1 : line[i] # n PROVE u[n] = up[n]
  <2>1. n # last /\ ~(\E i \in 1 .. k : line[i] = n)
    BY <1>1, <1>3, <1>8
  <2> QED
    BY <1>5, <2>1, Zenon
<1> QED
  BY <1>1, <1>4, <1>6, <1>7, <1>8

\* The same for a node without, with one and with two children to put in.
Line1(line, a) == line \in Seq(Node) /\ Len(line) = 1 /\ line[1] = a
Line2(line, a, b) == line \in Seq(Node) /\ Len(line) = 2 /\ line[1] = a /\ line[2] = b /\ a # b
Line3(line, a, b, g) ==
    /\ line \in Seq(Node) /\ Len(line) = 3 /\ line[1] = a /\ line[2] = b /\ line[3] = g
    /\ a # b /\ a # g /\ b # g
Linked1(u, up, a) == u[a] = NULL /\ \A e \in Node : e # a => u[e] = up[e]
Linked2(u, up, a, b) ==
    u[a] = b /\ u[b] = NULL /\ \A e \in Node : e # a /\ e # b => u[e] = up[e]
Linked3(u, up, a, b, g) ==
    u[a] = b /\ u[b] = g /\ u[g] = NULL /\ \A e \in Node : e # a /\ e # b /\ e # g => u[e] = up[e]

LEMMA RelinkNone ==
    ASSUME NEW up, NEW a, NEW line, Line1(line, a)
    PROVE  Linked1(Relinked(up, line), up, a)
<1>1. PICK k \in Nat : k = 0
  OBVIOUS
<1>2. line \in Seq(Node) /\ Len(line) = k + 1 /\ line[1] = a
  BY <1>1 DEF Line1
<1>3. \A i \in 1 .. k + 1 : i = 1
  BY <1>1
<1>4. \A i, j \in 1 .. k + 1 : line[i] = line[j] => i = j
  BY <1>2, <1>3
<1>5. /\ Relinked(up, line)[line[k + 1]] = NULL
      /\ \A n \in Node : (\A i \in 1 .. k + 1 : line[i] # n) => Relinked(up, line)[n] = up[n]
  BY <1>2, <1>4, RelinkIs
<1> QED
  BY <1>1, <1>2, <1>3, <1>5 DEF Linked1

LEMMA RelinkOne ==
    ASSUME NEW up, NEW a, NEW b, NEW line, Line2(line, a, b)
    PROVE  Linked2(Relinked(up, line), up, a, b)
<1>1. PICK k \in Nat : k = 1
  OBVIOUS
<1>2. line \in Seq(Node) /\ Len(line) = k + 1 /\ line[1] = a /\ line[2] = b /\ a # b
  BY <1>1 DEF Line2
<1>3. \A i \in 1 .. k + 1 : i = 1 \/ i = 2
  BY <1>1
<1>4. \A i, j \in 1 .. k + 1 : line[i] = line[j] => i = j
  BY <1>2, <1>3
<1>5. /\ Relinked(up, line)[line[k + 1]] = NULL
      /\ \A i \in 1 .. k : Relinked(up, line)[line[i]] = line[i + 1]
      /\ \A n \in Node : (\A i \in 1 .. k + 1 : line[i] # n) => Relinked(up, line)[n] = up[n]
  BY <1>2, <1>4, RelinkIs
<1>6. 1 \in 1 .. k
  BY <1>1
<1> QED
  BY <1>1, <1>2, <1>3, <1>5, <1>6 DEF Linked2

LEMMA RelinkTwo ==
    ASSUME NEW up, NEW a, NEW b, NEW g, NEW line, Line3(line, a, b, g)
    PROVE  Linked3(Relinked(up, line), up, a, b, g)
<1>1. PICK k \in Nat : k = 2
  OBVIOUS
<1>2. line \in Seq(Node) /\ Len(line) = k + 1 /\ line[1] = a /\ line[2] = b /\ line[3] = g /\ a # b /\ a # g /\ b # g
  BY <1>1 DEF Line3
<1>3. \A i \in 1 .. k + 1 : i = 1 \/ i = 2 \/ i = 3
  BY <1>1
<1>4. \A i, j \in 1 .. k + 1 : line[i] = line[j] => i = j
  BY <1>2, <1>3
<1>5. /\ Relinked(up, line)[line[k + 1]] = NULL
      /\ \A i \in 1 .. k : Relinked(up, line)[line[i]] = line[i + 1]
      /\ \A n \in Node : (\A i \in 1 .. k + 1 : line[i] # n) => Relinked(up, line)[n] = up[n]
  BY <1>2, <1>4, RelinkIs
<1>6. 1 \in 1 .. k /\ 2 \in 1 .. k
  BY <1>1
<1> QED
  BY <1>1, <1>2, <1>3, <1>5, <1>6 DEF Linked3
-----------------------------------------------------------------------------
\* While the tree is freed: up is what the parent fields were before the call.
FreesBy(up) ==
    /\ Shape(up, tree.kid, tree.root, inside)
    /\ seen \in SUBSET inside
    /\ \A e \in seen : e # tree.root => up[e] \in seen
    /\ IF x = NULL THEN Front(up, tree.root, inside, seen) = {}
       ELSE Queue(tree.up, Front(up, tree.root, inside, seen), x, y)
Frees == pc = "free" => \E up : FreesBy(up)

LEMMA FreeAllFrees ==
    ASSUME IInv, FreeAll
    PROVE  Frees'
<1>1. /\ tree' = tree /\ inside' = inside /\ pc = "out" /\ x' = tree.root /\ y' = tree.root
      /\ seen' = {} /\ tree.root # NULL
  BY DEF FreeAll
<1>2. Sound(tree, tree.root, inside, {key})
  BY <1>1, AtRest
<1>3. /\ Shape(tree.up, tree.kid, tree.root, inside)
      /\ tree.root \in inside /\ tree.up[tree.root] = NULL
  BY <1>1, <1>2 DEF Sound, Shape
<1>4. Front(tree.up, tree.root, inside, {}) = {tree.root}
  BY <1>3 DEF Front
<1>5. Queue(tree.up, {tree.root}, tree.root, tree.root)
  <2>1. \A S \in SUBSET {tree.root} : S # {} => \E e \in S : tree.up[e] \notin S
    BY <1>1, <1>3
  <2> QED
    BY <1>3, <2>1 DEF Queue
<1>6. PICK up : up = tree.up
  OBVIOUS
<1>7. FreesBy(up)'
  BY <1>1, <1>3, <1>4, <1>5, <1>6 DEF FreesBy
<1> QED
  BY <1>7 DEF Frees

\* What becomes of the queue when its first node is freed and has no children,
\* one, or two.
LEMMA ServeNone ==
    ASSUME NEW Q \in SUBSET Node, NEW up, NEW a, NEW b, Queue(up, Q, a, b),
           NEW line, Line1(line, b), NEW u, u = Relinked(up, line)
    PROVE  IF u[a] = NULL THEN Q \ {a} = {} ELSE Queue(u, Q \ {a}, u[a], b)
<1>1. a \in Q /\ b \in Q /\ b \in Node /\ up[b] = NULL /\ NULL \notin Q
  BY NullIsNoNode DEF Queue
<1>2. u[b] = NULL /\ \A e \in Node : e # b => u[e] = up[e]
  BY RelinkNone DEF Linked1
<1>3. Queue(u, Q, a, b)
  <2>1. \A e \in Q : u[e] = up[e]
    BY <1>1, <1>2
  <2> QED
    BY <2>1 DEF Queue
<1>4. PICK R : R = Q \ {a}
  OBVIOUS
<1>5. CASE a = b
  <2>1. Q = {a} /\ u[a] = NULL
    BY <1>3, <1>5, QueueLast
  <2> QED
    BY <2>1
<1>6. CASE a # b
  <2>1. u[a] \in R /\ Queue(u, R, u[a], b)
    BY <1>3, <1>4, <1>6, QueueLess
  <2> QED
    BY <1>1, <1>4, <2>1
<1> QED
  BY <1>5, <1>6

LEMMA ServeOne ==
    ASSUME NEW Q \in SUBSET Node, NEW up, NEW a, NEW b, Queue(up, Q, a, b),
           NEW k \in Node \ Q, NEW line, Line2(line, b, k),
           NEW u, u = Relinked(up, line)
    PROVE  u[a] # NULL /\ Queue(u, (Q \cup {k}) \ {a}, u[a], k)
<1>1. a \in Q /\ b \in Q /\ b \in Node /\ up[b] = NULL /\ NULL \notin Q /\ b # k /\ a # k
  BY NullIsNoNode DEF Queue
<1>2. u[b] = k /\ u[k] = NULL /\ \A e \in Node : e # b /\ e # k => u[e] = up[e]
  <2>1. Linked2(u, up, b, k)
    BY RelinkOne
  <2> QED
    BY <2>1 DEF Linked2
<1>3. Queue(u, Q \cup {k}, a, k)
  BY <1>2, QueueMore
<1>4. PICK R \in SUBSET Node : R = Q \cup {k}
  OBVIOUS
<1>5. PICK T : T = R \ {a}
  OBVIOUS
<1>6. u[a] \in T /\ Queue(u, T, u[a], k)
  BY <1>1, <1>3, <1>4, <1>5, QueueLess
<1> QED
  BY <1>4, <1>5, <1>6, NullIsNoNode

LEMMA ServeTwo ==
    ASSUME NEW Q \in SUBSET Node, NEW up, NEW a, NEW b, Queue(up, Q, a, b),
           NEW l \in Node \ Q, NEW g \in Node \ Q, l # g,
           NEW line, Line3(line, b, l, g),
           NEW u, u = Relinked(up, line)
    PROVE  u[a] # NULL /\ Queue(u, (Q \cup {l, g}) \ {a}, u[a], g)
<1>1. a \in Q /\ b \in Q /\ b \in Node /\ up[b] = NULL /\ NULL \notin Q /\ b # l /\ b # g /\ a # l /\ a # g
  BY NullIsNoNode DEF Queue
<1>2. u[b] = l /\ u[l] = g /\ u[g] = NULL /\ \A e \in Node : e # b /\ e # l /\ e # g => u[e] = up[e]
  <2>1. Linked3(u, up, b, l, g)
    BY RelinkTwo
  <2> QED
    BY <2>1 DEF Linked3
<1>3. PICK v : v = [e \in Node |-> IF e = l THEN NULL ELSE u[e]]
  OBVIOUS
<1>4. PICK R \in SUBSET Node : R = Q \cup {l}
  OBVIOUS
<1>5. Queue(v, R, a, l)
  <2>1. v[b] = l /\ v[l] = NULL /\ \A e \in Q : e # b => v[e] = up[e]
    BY <1>1, <1>2, <1>3
  <2> QED
    BY <1>4, <2>1, QueueMore
<1>6. g \in Node \ R /\ \A e \in R : e # l => u[e] = v[e]
  BY <1>3, <1>4
<1>7. Queue(u, R \cup {g}, a, g)
  BY <1>2, <1>5, <1>6, QueueMore
<1>8. PICK T \in SUBSET Node : T = R \cup {g}
  OBVIOUS
<1>9. PICK V : V = T \ {a}
  OBVIOUS
<1>10. u[a] \in V /\ Queue(u, V, u[a], g)
  BY <1>1, <1>7, <1>8, <1>9, QueueLess
<1>11. T = Q \cup {l, g}
  BY <1>4, <1>8
<1> QED
  BY <1>8, <1>9, <1>10, <1>11, NullIsNoNode
-----------------------------------------------------------------------------
LEMMA FreeHeadFrees ==
    ASSUME IInv, Frees, FreeHead
    PROVE  Frees'
<1>1. /\ inside' = inside /\ pc = "free" /\ seen' = seen \cup {x} /\ x # NULL
  BY DEF FreeHead
<1>2. PICK up : FreesBy(up)
  BY <1>1 DEF Frees
<1>3. tree \in Trees
  BY TypeIs DEF IInv
<1>4. PICK kid \in KIDS : kid = tree.kid
  BY <1>3, Fields
<1>5. PICK P \in SUBSET Node : P = inside
  BY TypeIs DEF IInv
<1>6. PICK r : r = tree.root
  OBVIOUS
<1>7. PICK S \in SUBSET P : S = seen
  BY <1>2, <1>5 DEF FreesBy
<1>8. Shape(up, kid, r, P) /\ \A e \in S : e # r => up[e] \in S
  BY <1>2, <1>4, <1>5, <1>6, <1>7 DEF FreesBy
<1>9. PICK Q \in SUBSET Node : Q = Front(up, r, P, S)
  BY <1>5 DEF Front
<1>10. PICK a : a = x
  OBVIOUS
<1>11. PICK b : b = y
  OBVIOUS
<1>12. Queue(tree.up, Q, a, b)
  BY <1>1, <1>2, <1>5, <1>6, <1>7, <1>9, <1>10, <1>11 DEF FreesBy
<1>13. a \in Q /\ b \in Q /\ a \in Front(up, r, P, S)
  BY <1>9, <1>12 DEF Queue
<1>14. PICK l : l = kid[a]["left"]
  OBVIOUS
<1>15. PICK g : g = kid[a]["right"]
  OBVIOUS
<1>16. PICK R \in SUBSET Node : R = Front(up, r, P, S \cup {a})
  BY <1>5 DEF Front
<1>17. /\ R = (Q \ {a}) \cup ({l, g} \ {NULL})
       /\ l # NULL => l \in P \ Q
       /\ g # NULL => g \in P \ Q
       /\ l # NULL => l # g
       /\ S \cup {a} \in SUBSET P
       /\ \A e \in S \cup {a} : e # r => up[e] \in S \cup {a}
  <2>1. /\ Front(up, r, P, S \cup {a})
                 = (Front(up, r, P, S) \ {a}) \cup ({kid[a]["left"], kid[a]["right"]} \ {NULL})
        /\ \A d \in Side : kid[a][d] # NULL => kid[a][d] \in P \ Front(up, r, P, S)
        /\ kid[a]["left"] # NULL => kid[a]["left"] # kid[a]["right"]
        /\ S \cup {a} \in SUBSET P
        /\ \A e \in S \cup {a} : e # r => up[e] \in S \cup {a}
    BY <1>8, <1>13, FrontIs
  <2>2. "left" \in Side /\ "right" \in Side
    BY DEF Side
  <2> QED
    BY <1>9, <1>14, <1>15, <1>16, <2>1, <2>2
<1>18. PICK line : line = <<y>> \o Kids(x)
  OBVIOUS
<1>19. PICK u : u = Relinked(tree.up, line)
  OBVIOUS
<1>20. tree' = [tree EXCEPT !.up = u] /\ x' = u[a] /\ y' = line[Len(line)]
  BY <1>10, <1>18, <1>19 DEF FreeHead, Relinked
<1>21. /\ KidOn(x, "left") = IF l = NULL THEN <<>> ELSE <<l>>
       /\ KidOn(x, "right") = IF g = NULL THEN <<>> ELSE <<g>>
  BY <1>4, <1>10, <1>14, <1>15 DEF KidOn
<1>22. IF u[a] = NULL THEN R = {} ELSE Queue(u, R, u[a], line[Len(line)])
  <2>1. CASE l = NULL /\ g = NULL
    <3>1. Line1(line, b)
      <4>1. Kids(x) = <<>> \o <<>>
        BY <1>21, <2>1 DEF Kids
      <4>2. <<>> \o <<>> = <<>> /\ <<b>> \o <<>> = <<b>>
        OBVIOUS
      <4>3. <<b>> \in Seq(Node)
        BY <1>13
      <4> QED
        BY <1>11, <1>18, <4>1, <4>2, <4>3 DEF Line1
    <3>2. R = Q \ {a}
      BY <1>17, <2>1
    <3>3. IF u[a] = NULL THEN Q \ {a} = {} ELSE Queue(u, Q \ {a}, u[a], b)
      BY <1>12, <1>19, <3>1, ServeNone
    <3>4. line[Len(line)] = b
      BY <3>1 DEF Line1
    <3> QED
      BY <3>2, <3>3, <3>4
  <2>2. ASSUME NEW k, k # NULL, k \in {l, g}, {l, g} = {k, NULL}
        PROVE  Queue(u, R, u[a], line[Len(line)]) /\ u[a] # NULL
    <3>0. b # k
      BY <1>13, <1>17, <2>2
    <3>1. Line2(line, b, k)
      <4>1. (KidOn(x, "left") = <<k>> /\ KidOn(x, "right") = <<>>) \/ (KidOn(x, "left") = <<>> /\ KidOn(x, "right") = <<k>>)
        BY <1>17, <1>21, <2>2
      <4>2. <<>> \o <<k>> = <<k>> /\ <<k>> \o <<>> = <<k>>
        OBVIOUS
      <4>3. line = <<b>> \o <<k>>
        BY <1>11, <1>18, <4>1, <4>2 DEF Kids
      <4>4. b \in Node /\ k \in Node
        BY <1>13, <1>17, <2>2
      <4>5. <<b>> \o <<k>> \in Seq(Node) /\ Len(<<b>> \o <<k>>) = 2
            /\ (<<b>> \o <<k>>)[1] = b /\ (<<b>> \o <<k>>)[2] = k
        BY <4>4
      <4> QED
        BY <3>0, <4>3, <4>5 DEF Line2
    <3>2. k \in Node \ Q /\ R = (Q \cup {k}) \ {a}
      BY <1>13, <1>17, <2>2
    <3>3. u[a] # NULL /\ Queue(u, (Q \cup {k}) \ {a}, u[a], k)
      BY <1>12, <1>19, <3>1, <3>2, ServeOne
    <3>4. line[Len(line)] = k
      BY <3>1 DEF Line2
    <3> QED
      BY <3>2, <3>3, <3>4
  <2>3. CASE l # NULL /\ g # NULL
    <3>0. b # l /\ b # g /\ l # g
      BY <1>13, <1>17, <2>3
    <3>1. Line3(line, b, l, g)
      <4>1. b \in Node /\ l \in Node /\ g \in Node
        BY <1>13, <1>17, <2>3
      <4>2. PICK rest : rest = <<l>> \o <<g>>
        OBVIOUS
      <4>3. rest \in Seq(Node) /\ Len(rest) = 2 /\ rest[1] = l /\ rest[2] = g
        <5>1. <<l>> \in Seq(Node) /\ <<g>> \in Seq(Node) /\ Len(<<l>>) = 1 /\ Len(<<g>>) = 1
          BY <4>1
        <5>2. <<l>> \o <<g>> \in Seq(Node) /\ Len(<<l>> \o <<g>>) = 2
              /\ (<<l>> \o <<g>>)[1] = l /\ (<<l>> \o <<g>>)[2] = g
          BY <5>1
        <5> QED
          BY <4>2, <5>2
      <4>4. line = <<b>> \o rest
        BY <1>11, <1>18, <1>21, <2>3, <4>2 DEF Kids
      <4>5. <<b>> \o rest \in Seq(Node) /\ Len(<<b>> \o rest) = 3
            /\ (<<b>> \o rest)[1] = b /\ (<<b>> \o rest)[2] = l /\ (<<b>> \o rest)[3] = g
        <5>1. PICK s \in Seq(Node) : s = <<b>> /\ Len(s) = 1 /\ s[1] = b
          <6>1. <<b>> \in Seq(Node) /\ Len(<<b>>) = 1 /\ <<b>>[1] = b
            BY <4>1
          <6> QED
            BY <6>1
        <5>2. /\ s \o rest \in Seq(Node) /\ Len(s \o rest) = 3
              /\ (s \o rest)[1] = b /\ (s \o rest)[2] = l /\ (s \o rest)[3] = g
          <6>1. s \o rest \in Seq(Node) /\ Len(s \o rest) = 3
            <7>1. s \o rest \in Seq(Node)
              BY <4>3, <5>1
            <7>2. Len(s \o rest) = Len(s) + Len(rest)
              <8>1. rest \in Seq(Node)
                BY <4>3
              <8> QED
                BY <8>1
            <7> QED
              BY <4>3, <5>1, <7>1, <7>2
          <6>2. (s \o rest)[1] = s[1]
            BY <4>3, <5>1
          <6>3. (s \o rest)[2] = rest[1]
            BY <4>3, <5>1
          <6>4. (s \o rest)[3] = rest[2]
            <7>1. PICK two \in Seq(Node) : two = rest /\ Len(two) = 2
              BY <4>3
            <7>2. Len(s) = 1
              BY <5>1
            <7>3. (s \o two)[3] = two[2]
              BY <7>1, <7>2, SecondBehindOne
            <7> QED
              BY <7>1, <7>3, Zenon
          <6> QED
            BY <4>3, <5>1, <6>1, <6>2, <6>3, <6>4
        <5> QED
          BY <5>1, <5>2
      <4> QED
        BY <3>0, <4>4, <4>5 DEF Line3
    <3>2. l \in Node \ Q /\ g \in Node \ Q /\ l # g /\ R = (Q \cup {l, g}) \ {a}
      BY <1>13, <1>17, <2>3
    <3>3. u[a] # NULL /\ Queue(u, (Q \cup {l, g}) \ {a}, u[a], g)
      BY <1>12, <1>19, <3>1, <3>2, ServeTwo
    <3>4. line[Len(line)] = g
      BY <3>1 DEF Line3
    <3> QED
      BY <3>2, <3>3, <3>4
  <2> QED
    BY <2>1, <2>2, <2>3
<1>23. tree'.up = u /\ tree'.kid = kid /\ tree'.root = r
  BY <1>3, <1>4, <1>6, <1>20 DEF Trees
<1>24. seen' = S \cup {a} /\ inside' = P
  BY <1>1, <1>5, <1>7, <1>10
<1>25. FreesBy(up)'
  <2>1. Shape(up, tree'.kid, tree'.root, inside')
    BY <1>8, <1>23, <1>24
  <2>2. seen' \in SUBSET inside' /\ \A e \in seen' : e # tree'.root => up[e] \in seen'
    BY <1>17, <1>23, <1>24
  <2>3. Front(up, tree'.root, inside', seen') = R
    BY <1>16, <1>23, <1>24
  <2>4. IF x' = NULL THEN R = {} ELSE Queue(tree'.up, R, x', y')
    BY <1>20, <1>22, <1>23
  <2> QED
    BY <2>1, <2>2, <2>3, <2>4 DEF FreesBy
<1> QED
  BY <1>25 DEF Frees

FreesOrTravels == Frees /\ Travels

LEMMA FreesIs ==
    ASSUME IInv, Frees, Travels
    PROVE  EachOnce
<1>1. ASSUME pc = "free"
      PROVE  IF x = NULL THEN seen = inside ELSE x \in inside \ seen
  <2>1. PICK up : FreesBy(up)
    BY <1>1 DEF Frees
  <2>2. CASE x = NULL
    <3>1. PICK S \in SUBSET inside : S = inside \ seen
      OBVIOUS
    <3>2. Front(up, tree.root, inside, seen) = {}
      BY <2>1, <2>2 DEF FreesBy
    <3>3. ASSUME S # {} PROVE FALSE
      <4>1. PICK e \in S : up[e] \notin S
        BY <2>1, <3>3 DEF FreesBy, Shape
      <4>2. e # tree.root => up[e] \in inside
        BY <2>1, <3>1 DEF FreesBy, Shape
      <4>3. e \in Front(up, tree.root, inside, seen)
        BY <3>1, <4>1, <4>2 DEF Front
      <4> QED
        BY <3>2, <4>3
    <3>4. seen \subseteq inside
      BY <2>1 DEF FreesBy
    <3> QED
      BY <2>2, <3>1, <3>3, <3>4
  <2>3. CASE x # NULL
    <3>1. x \in Front(up, tree.root, inside, seen)
      BY <2>1, <2>3 DEF FreesBy, Queue
    <3> QED
      BY <2>3, <3>1 DEF Front
  <2> QED
    BY <2>2, <2>3
<1>2. ASSUME pc = "travel"
      PROVE  IF x = NULL THEN seen = inside ELSE x \in inside \ seen
  <2>1. seen = inside \ Rest(tree.kid, inside, x)
    BY <1>2 DEF Travels
  <2>2. CASE x = NULL
    BY <2>1, <2>2 DEF Rest
  <2>3. CASE x # NULL
    <3>1. x \in inside /\ x \in Pointer /\ tree.kid \in KIDS
      BY <1>2, <2>3, TypeIs, Fields DEF IInv, Loops, TypeOK
    <3>2. x \in Under(tree.kid, x)
      BY <2>3, <3>1, UnderIs DEF KIDS
    <3> QED
      BY <2>1, <2>3, <3>1, <3>2 DEF Rest
  <2> QED
    BY <2>2, <2>3
<1> QED
  BY <1>1, <1>2 DEF EachOnce

\* Other steps begin and continue neither.
LEMMA OthersFree ==
    ASSUME Next, ~FreeAll, ~FreeHead, ~Travel, ~Visit
    PROVE  pc' \notin {"free", "travel"}
<1>1. ASSUME Loop PROVE pc' \notin {"free", "travel"}
  BY <1>1 DEF Loop, InsertDone, InsertRecolour, InsertRotate, RemoveDone, RemoveLoop, Replace, FreeDone, TravelDone, Return
<1>2. ASSUME NEW n \in Node, Insert(n) PROVE pc' \notin {"free", "travel"}
  BY <1>2 DEF Insert
<1>3. ASSUME NEW n \in Node, Remove(n) PROVE pc' \notin {"free", "travel"}
  BY <1>3 DEF Remove
<1>4. ASSUME NEW n \in Node, NEW m \in Node, ReplaceNode(n, m) PROVE pc' \notin {"free", "travel"}
  BY <1>4 DEF ReplaceNode
<1> QED
  BY <1>1, <1>2, <1>3, <1>4 DEF Next

\* However many nodes there are and however the tree has grown, bst_free_all
\* frees each of them once, its queue laid through the parent fields that it
\* has already read, and bst_travel comes to each of them once.
THEOREM TreeIsWalkedOnce == Spec => []EachOnce
<1>1. Init => FreesOrTravels
  BY DEF Init, FreesOrTravels, Frees, Travels
<1>2. ASSUME IInv, FreesOrTravels, [Next]_vars
      PROVE  FreesOrTravels'
  <2>1. CASE FreeAll
    <3>1. pc' = "free"
      BY <2>1 DEF FreeAll
    <3> QED
      BY <1>2, <2>1, <3>1, FreeAllFrees DEF FreesOrTravels, Travels
  <2>2. CASE FreeHead
    <3>1. pc' = "free"
      BY <2>2 DEF FreeHead
    <3> QED
      BY <1>2, <2>2, <3>1, FreeHeadFrees DEF FreesOrTravels, Travels
  <2>3. CASE Travel
    <3>1. pc' = "travel"
      BY <2>3 DEF Travel
    <3> QED
      BY <1>2, <2>3, <3>1, TravelTravels DEF FreesOrTravels, Frees
  <2>4. CASE Visit
    <3>1. pc' = "travel"
      BY <2>4 DEF Visit
    <3> QED
      BY <1>2, <2>4, <3>1, VisitTravels DEF FreesOrTravels, Frees
  <2>5. CASE Next /\ ~FreeAll /\ ~FreeHead /\ ~Travel /\ ~Visit
    <3>1. pc' \notin {"free", "travel"}
      BY <2>5, OthersFree
    <3> QED
      BY <3>1 DEF FreesOrTravels, Frees, Travels
  <2>6. CASE UNCHANGED vars
    BY <1>2, <2>6 DEF vars, FreesOrTravels, Frees, FreesBy, Travels
  <2> QED
    BY <1>2, <2>1, <2>2, <2>3, <2>4, <2>5, <2>6
<1>3. IInv /\ FreesOrTravels => EachOnce
  BY FreesIs DEF FreesOrTravels
<1> QED
  BY <1>1, <1>2, <1>3, Inductive, PTL DEF Spec
=============================================================================
