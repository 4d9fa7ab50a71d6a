------------------------- MODULE EngineBuild_proofs -------------------------
(***************************************************************************)
(* What build_normalize_engine makes of a file, and what it gives back,    *)
(* for every complete file and every pool.                                 *)
(*                                                                         *)
(*   ReleasesAll: whichever of the allocations fails, the blocks and       *)
(*     automata that are allocated depend only on the phase (LiveInv), and *)
(*     the file that is read is open while it is read, or no piece is left *)
(*     in the pool that ran out (OpenInv).                                 *)
(*   GroupsAsWritten: between any two lines the arrays hold what the lines *)
(*     before say (ReadInv); the sets sorted so far are those of the file, *)
(*     their essential groups what the cursor has spelled (SetsInv).       *)
(*   DelimitersAsWritten: at any item, the pattern of a string says of     *)
(*     each group what the items before say of it (Typed), a pattern's     *)
(*     pieces are its own and lie below the spare one's, which is in no    *)
(*     use (Stored, Below, Spare), and each group's segment is the first   *)
(*     that was met (Segs).  Together they are DelimInv.                   *)
(***************************************************************************)
EXTENDS EngineBuild, FiniteSetTheorems, SequenceTheorems, WellFoundedInduction, TLAPS

\* The phases in which nothing is allocated yet or any more, and those between
\* ne_model_init and the end, in which everything is.
Idle == {"start", "arg", "null"}
During == {"open", "count", "alloc", "defaults", "read", "sort", "sets", "list", "item",
           "rules", "finish", "out"}

LiveInv ==
    /\ pc \in Idle \cup During \cup {"model", "built", "leaked", "crashed"}
    /\ pc \in Idle => live = {}
    /\ pc = "model" => live = {"spool", "tpool", "rule_ac"}
    /\ pc \in During => live = {"spool", "tpool", "rule_ac", "delim_ac"}
    /\ pc = "built" => live = {"spool", "delim_ac"}

LEMMA LiveInit == Init => LiveInv
BY DEF Init, ConfigInit, LiveInv, Idle, During

\* A step that keeps live within the phases that have everything allocated.
LEMMA WithinDuring ==
    ASSUME LiveInv, pc \in During, pc' \in During \cup {"crashed"}, live' = live
    PROVE  LiveInv'
BY DEF LiveInv, Idle, During

LEMMA LiveReadConfig ==
    ASSUME LiveInv, ReadNeConfig
    PROVE  LiveInv'
<1>1. live' = live
  BY DEF ReadNeConfig
<1>0. CASE OpenConfig
  <2>1. pc \in During /\ pc' \in During
    BY <1>0 DEF OpenConfig, During
  <2> QED
    BY <1>1, <2>1, WithinDuring
<1>2. CASE CountSet
  <2>1. pc \in During /\ pc' \in During
    BY <1>2 DEF CountSet, Advance, During
  <2> QED
    BY <1>1, <2>1, WithinDuring
<1>3. CASE AllocSets
  <2>1. pc \in During /\ pc' \in During \cup {"crashed"}
    BY <1>3 DEF AllocSets, Advance, During
  <2> QED
    BY <1>1, <2>1, WithinDuring
<1>4. CASE SetDefaults
  <2>1. pc \in During /\ pc' \in During
    BY <1>4 DEF SetDefaults, During
  <2> QED
    BY <1>1, <2>1, WithinDuring
<1>5. CASE ReadLine
  <2>1. pc \in During
    BY <1>5 DEF ReadLine, During
  <2>2. pc' \in During \cup {"crashed"}
    <3>1. CASE OpenSet(file[line])
      BY <2>1, <3>1 DEF OpenSet, Advance, During
    <3>2. CASE ReadItem(file[line])
      BY <2>1, <3>2 DEF ReadItem, Advance, During
    <3> QED
      BY <1>5, <3>1, <3>2 DEF ReadLine
  <2> QED
    BY <1>1, <2>1, <2>2, WithinDuring
<1> QED
  BY <1>0, <1>2, <1>3, <1>4, <1>5 DEF ReadNeConfig, ReadConfigStep

LEMMA LiveSorting ==
    ASSUME LiveInv, CountGroups \/ SortSet \/ SortSingles
    PROVE  LiveInv'
<1>1. live' = live
  BY DEF CountGroups, SortSet, SortSingles, Keeps
<1>2. pc \in During /\ pc' \in During \cup {"crashed"}
  BY DEF CountGroups, SortSet, SortSingles, During
<1> QED
  BY <1>1, <1>2, WithinDuring

LEMMA LiveDelims ==
    ASSUME LiveInv, BeginList \/ SpecialItem \/ DelimItem \/ EndList \/ ParseRules
    PROVE  LiveInv'
<1>1. CASE BeginList \/ SpecialItem
  <2>1. live' = live /\ pc \in During /\ pc' \in During
    BY <1>1 DEF BeginList, SpecialItem, InList, Keeps, During
  <2> QED
    BY <2>1, WithinDuring
<1>2. CASE DelimItem
  <2>1. live' = live /\ pc \in During /\ pc' \in During \cup {"crashed"}
    BY <1>2 DEF DelimItem, TreeIsFull, InList, Keeps, During
  <2> QED
    BY <2>1, WithinDuring
<1>3. CASE EndList \/ ParseRules
  <2>1. live' = live /\ pc \in During /\ pc' \in During
    BY <1>3 DEF EndList, ParseRules, Keeps, During
  <2> QED
    BY <2>1, WithinDuring
<1> QED
  BY <1>1, <1>2, <1>3

LEMMA LiveStep ==
    ASSUME LiveInv, [Next]_vars
    PROVE  LiveInv'
<1>1. CASE GetEngineSize
  BY <1>1 DEF GetEngineSize, LiveInv, Idle, During
<1>2. CASE ArgInit
  BY <1>2 DEF ArgInit, LiveInv, Idle, During
<1>3. CASE ModelInit
  BY <1>3 DEF ModelInit, LiveInv, Idle, During
<1>4. CASE ReadNeConfig
  BY <1>4, LiveReadConfig
<1>5. CASE CountGroups \/ SortSet \/ SortSingles
  BY <1>5, LiveSorting
<1>6. CASE BeginList \/ SpecialItem \/ DelimItem \/ EndList \/ ParseRules
  BY <1>6, LiveDelims
<1>7. CASE Finish \/ Out \/ Destroy
  BY <1>7 DEF Finish, Out, Destroy, Scratch, LiveInv, Idle, During
<1>8. CASE UNCHANGED vars
  BY <1>8 DEF vars, LiveInv
<1> QED
  BY <1>1, <1>2, <1>3, <1>4, <1>5, <1>6, <1>7, <1>8 DEF Next
-----------------------------------------------------------------------------
LEMMA Least ==
    ASSUME NEW T \in SUBSET Nat, T # {}
    PROVE  \E a \in T : \A b \in T : a <= b
<1> DEFINE R == OpToRel(<, Nat)
<1>1. \A a, b \in Nat : a < b => <<a, b>> \in R
  BY DEF OpToRel
<1>2. \E a \in T : \A b \in T : ~(<<b, a>> \in R)
  <2>1. IsWellFoundedOn(R, Nat)
    BY NatLessThanWellFounded
  <2> HIDE DEF R
  <2> QED
    BY <2>1, WFMin
<1> HIDE DEF R
<1>3. PICK a \in T : \A b \in T : ~(<<b, a>> \in R)
  BY <1>2, Zenon
<1>4. \A b \in T : ~(b < a)
  BY <1>1, <1>3, Zenon
<1> QED
  BY <1>4

LEMMA MaxIs ==
    ASSUME NEW S \in SUBSET Nat, S # {}, NEW hi \in Nat, \A a \in S : a <= hi
    PROVE  Max(S) \in S /\ \A a \in S : a <= Max(S)
<1> DEFINE T == {k \in Nat : hi - k \in S}
<1>1. \A a \in S : hi - a \in T
  OBVIOUS
<1>2. PICK b \in T : \A e \in T : b <= e
  BY <1>1, Least, T \in SUBSET Nat, T # {}
<1>3. PICK a \in S : a = hi - b
  OBVIOUS
<1>4. \A e \in S : a >= e
  BY <1>1, <1>2, <1>3
<1>5. Max(S) \in S /\ \A e \in S : Max(S) >= e
  <2> HIDE DEF T
  <2> QED
    BY <1>4 DEF Max
<1> QED
  BY <1>5

LEMMA ListIs ==
    ASSUME NEW s, IsList(s)
    PROVE  /\ s \in Seq(ToSet(s)) /\ Len(s) \in Nat /\ DOMAIN s = 1 .. Len(s)
           /\ \A i \in 1 .. Len(s) : s[i] \in ToSet(s)
<1>1. Len(s) \in Nat /\ s = [i \in 1 .. Len(s) |-> s[i]]
  BY DEF IsList
<1>2. DOMAIN s = 1 .. Len(s)
  BY <1>1
<1>3. \A i \in 1 .. Len(s) : s[i] \in ToSet(s)
  BY <1>2 DEF ToSet
<1>4. s \in [1 .. Len(s) -> ToSet(s)]
  BY <1>1, <1>3
<1> QED
  BY <1>1, <1>2, <1>3, <1>4, SeqDef, Zenon
-----------------------------------------------------------------------------
\* The place of a line among the sets of a kind, for any file.
Rank(f, kind, l) == Cardinality({m \in SetLines(f, kind) : m <= l})

LEMMA RankIs ==
    ASSUME NEW f, IsList(f), NEW kind
    PROVE  /\ SetLines(f, kind) \subseteq 1 .. Len(f) /\ NrSets(f, kind) \in Nat
           /\ \A l \in 0 .. Len(f) : Rank(f, kind, l) \in 0 .. NrSets(f, kind)
           /\ Rank(f, kind, 0) = 0 /\ Rank(f, kind, Len(f)) = NrSets(f, kind)
           /\ \A l \in 1 .. Len(f) : Rank(f, kind, l) =
                 IF l \in SetLines(f, kind) THEN Rank(f, kind, l - 1) + 1
                                            ELSE Rank(f, kind, l - 1)
           /\ \A l, m \in 0 .. Len(f) : l <= m => Rank(f, kind, l) <= Rank(f, kind, m)
<1> DEFINE S == SetLines(f, kind)
           B(l) == {m \in S : m <= l}
<1>1. Len(f) \in Nat /\ \A m \in S : m \in 1 .. Len(f)
  BY ListIs DEF SetLines
<1>2. IsFiniteSet(S)
  <2>1. S \subseteq 1 .. Len(f) /\ IsFiniteSet(1 .. Len(f))
    BY <1>1, FS_Interval, 1 \in Int, Len(f) \in Int
  <2> QED
    BY <2>1, FS_Subset
<1> HIDE DEF S
<1>3. \A l : IsFiniteSet(B(l)) /\ Cardinality(B(l)) \in Nat /\ Cardinality(B(l)) <= Cardinality(S)
  BY <1>2, FS_Subset, FS_CardinalityType
<1>4. B(0) = {} /\ B(Len(f)) = S
  BY <1>1
<1>5. ASSUME NEW l \in 1 .. Len(f)
      PROVE  Cardinality(B(l)) = IF l \in S THEN Cardinality(B(l - 1)) + 1 ELSE Cardinality(B(l - 1))
  <2>1. CASE l \in S
    <3>0. ~(l <= l - 1) /\ \A m \in S : m <= l <=> m <= l - 1 \/ m = l
      BY <1>1
    <3>1. B(l) = B(l - 1) \cup {l} /\ l \notin B(l - 1)
      BY <2>1, <3>0
    <3>2. Cardinality(B(l - 1) \cup {l}) = Cardinality(B(l - 1)) + 1
      BY <1>3, <3>1, FS_AddElement
    <3> QED
      BY <2>1, <3>1, <3>2
  <2>2. CASE l \notin S
    <3>1. B(l) = B(l - 1)
      BY <1>1, <2>2
    <3> QED
      BY <2>2, <3>1
  <2> QED
    BY <2>1, <2>2
<1>6. ASSUME NEW l \in 0 .. Len(f), NEW m \in 0 .. Len(f), l <= m
      PROVE  Cardinality(B(l)) <= Cardinality(B(m))
  <2>1. B(l) \subseteq B(m)
    BY <1>1, <1>6
  <2> QED
    BY <1>3, <2>1, FS_Subset
<1>7. Cardinality(B(0)) = 0
  BY <1>4, FS_EmptySet
<1>8. \A l : Rank(f, kind, l) = Cardinality(B(l))
  BY DEF Rank, S
<1>9. NrSets(f, kind) = Cardinality(S) /\ Cardinality(S) \in Nat
  BY <1>2, FS_CardinalityType DEF NrSets, S
<1> HIDE DEF B
<1>10. S = SetLines(f, kind) /\ S \subseteq 1 .. Len(f)
  BY <1>1 DEF S
<1> QED
  BY <1>1, <1>3, <1>4, <1>5, <1>6, <1>7, <1>8, <1>9, <1>10

\* Each set of a kind has a line of its own, which Top finds.
LEMMA TopIs ==
    ASSUME NEW f, IsList(f), NEW kind
    PROVE  /\ \A l \in SetLines(f, kind) : /\ Rank(f, kind, l) \in 1 .. NrSets(f, kind)
                                           /\ Top(f, kind, Rank(f, kind, l)) = l
           /\ \A n \in 1 .. NrSets(f, kind) : /\ Top(f, kind, n) \in SetLines(f, kind)
                                              /\ Rank(f, kind, Top(f, kind, n)) = n
<1> DEFINE S == SetLines(f, kind)
           R(l) == Rank(f, kind, l)
<1>1. /\ \A l \in S : l \in 1 .. Len(f)
      /\ NrSets(f, kind) \in Nat /\ Len(f) \in Nat
      /\ \A l \in 0 .. Len(f) : R(l) \in 0 .. NrSets(f, kind)
      /\ R(0) = 0 /\ R(Len(f)) = NrSets(f, kind)
      /\ \A l \in 1 .. Len(f) : R(l) = IF l \in S THEN R(l - 1) + 1 ELSE R(l - 1)
      /\ \A l, m \in 0 .. Len(f) : l <= m => R(l) <= R(m)
  BY RankIs, ListIs
<1>2. \A n : Top(f, kind, n) = CHOOSE l \in S : R(l) = n
  BY DEF Top, Rank
<1> HIDE DEF S, R
<1>3. \A l \in S : R(l) \in 1 .. NrSets(f, kind)
  BY <1>1
<1>4. ASSUME NEW l \in S, NEW m \in S, R(l) = R(m)
      PROVE  l = m
  <2>1. ASSUME NEW a \in S, NEW b \in S, a < b
        PROVE  R(a) < R(b)
    <3>1. b \in 1 .. Len(f) /\ a \in 0 .. Len(f) /\ b - 1 \in 0 .. Len(f) /\ a <= b - 1
      BY <1>1, <2>1, SMTT(20)
    <3>2. R(b) = R(b - 1) + 1 /\ R(a) <= R(b - 1)
      BY <1>1, <3>1
    <3>3. R(a) \in Nat /\ R(b - 1) \in Nat
      <4>1. R(a) \in 0 .. NrSets(f, kind) /\ R(b - 1) \in 0 .. NrSets(f, kind)
        BY <1>1, <3>1, Zenon
      <4>2. NrSets(f, kind) \in Nat
        BY <1>1
      <4> QED
        BY <4>1, <4>2
    <3> QED
      BY <3>2, <3>3
  <2>2. l \in Nat /\ m \in Nat
    BY <1>1
  <2>3. R(l) \in Nat
    <3>1. l \in 0 .. Len(f)
      BY <1>1
    <3> QED
      BY <1>1, <3>1
  <2>4. ~(l < m) /\ ~(m < l)
    <3>1. l < m => R(l) < R(m)
      BY <2>1
    <3>2. m < l => R(m) < R(l)
      BY <2>1
    <3> QED
      BY <1>4, <2>3, <3>1, <3>2
  <2> QED
    BY <2>2, <2>4
<1>5. ASSUME NEW n \in 1 .. NrSets(f, kind)
      PROVE  \E l \in S : R(l) = n
  <2> DEFINE T == {l \in 0 .. Len(f) : R(l) >= n}
  <2>1. Len(f) \in T
    BY <1>1
  <2>2. PICK a \in T : \A b \in T : a <= b
    BY <2>1, Least, T \in SUBSET Nat
  <2>3. a # 0 /\ a \in 1 .. Len(f)
    BY <1>1
  <2>4. a - 1 \in 0 .. Len(f) /\ a - 1 \notin T
    BY <1>1, <2>2, <2>3
  <2>5. R(a - 1) < n /\ R(a) >= n
    BY <1>1, <2>4
  <2> QED
    BY <1>1, <2>3, <2>4, <2>5
<1>6. \A l \in S : Top(f, kind, R(l)) = l
  BY <1>2, <1>4
<1>7. \A n \in 1 .. NrSets(f, kind) : Top(f, kind, n) \in S /\ R(Top(f, kind, n)) = n
  BY <1>2, <1>5
<1>8. S = SetLines(f, kind) /\ \A l : R(l) = Rank(f, kind, l)
  BY DEF S, R
<1> QED
  BY <1>3, <1>6, <1>7, <1>8
-----------------------------------------------------------------------------
\* What the lines before line l say of an item; one line more says more only of
\* the set that is open there.
Mine(f, kind, n, item, l) ==
    {m \in DOMAIN f : /\ m < l /\ m > Top(f, kind, n)
                      /\ \A x \in Top(f, kind, n) + 1 .. m : ~IsKnown(f[x])
                      /\ ~IsSet(f[m]) /\ f[m].item = item}
Before(f, kind, n, item, l) ==
    IF Mine(f, kind, n, item, l) = {} THEN NULL ELSE f[Max(Mine(f, kind, n, item, l))].value

\* The set of kind and number c is the one that is open before line l.
IsOpen(f, c, l) ==
    /\ c = <<c[1], c[2]>>
    /\ c[1] \in DOMAIN ItemsOf /\ c[2] \in 1 .. NrSets(f, c[1])
    /\ Top(f, c[1], c[2]) < l
    /\ \A x \in Top(f, c[1], c[2]) + 1 .. l - 1 : ~IsKnown(f[x])

LEMMA BeforeTheFirst ==
    ASSUME NEW f, IsList(f), NEW kind, NEW n \in 1 .. NrSets(f, kind), NEW item
    PROVE  Before(f, kind, n, item, 1) = NULL
<1>1. Top(f, kind, n) \in 1 .. Len(f)
  BY TopIs, RankIs
<1>2. Mine(f, kind, n, item, 1) = {}
  BY <1>1, ListIs DEF Mine
<1> QED
  BY <1>2 DEF Before

LEMMA BeforeTheEnd ==
    ASSUME NEW f, IsList(f), NEW kind, NEW n, NEW item
    PROVE  Before(f, kind, n, item, Len(f) + 1) = Written(f, kind, n, item)
<1>1. \A m \in DOMAIN f : m < Len(f) + 1
  BY ListIs
<1>2. Mine(f, kind, n, item, Len(f) + 1) =
        {m \in DOMAIN f : /\ m > Top(f, kind, n)
                          /\ \A x \in Top(f, kind, n) + 1 .. m : ~IsKnown(f[x])
                          /\ ~IsSet(f[m]) /\ f[m].item = item}
  BY <1>1 DEF Mine
<1> QED
  BY <1>2 DEF Before, Written

\* A line with an item, in an open set.
LEMMA ItemRead ==
    ASSUME NEW f, IsList(f), NEW l \in 1 .. Len(f), ~IsSet(f[l]), NEW c, IsOpen(f, c, l),
           NEW kind \in DOMAIN ItemsOf, NEW n \in 1 .. NrSets(f, kind), NEW item
    PROVE  Before(f, kind, n, item, l + 1) =
              IF kind = c[1] /\ n = c[2] /\ item = f[l].item
              THEN f[l].value ELSE Before(f, kind, n, item, l)
<1> DEFINE t == Top(f, kind, n)
           u == Top(f, c[1], c[2])
<1>1. t \in SetLines(f, kind) /\ t \in 1 .. Len(f) /\ IsKnown(f[t]) /\ f[t].set = kind
  BY TopIs, RankIs DEF SetLines
<1>2. u \in SetLines(f, c[1]) /\ u \in 1 .. Len(f) /\ IsKnown(f[u]) /\ f[u].set = c[1]
  BY TopIs, RankIs DEF SetLines, IsOpen
<1>3. Len(f) \in Nat /\ DOMAIN f = 1 .. Len(f)
  BY ListIs
<1>4. ~IsKnown(f[l]) /\ u < l /\ \A x \in u + 1 .. l : ~IsKnown(f[x])
  <2>1. ~IsKnown(f[l])
    BY DEF IsKnown
  <2> QED
    BY <1>2, <2>1 DEF IsOpen
<1>5. t < l /\ (\A x \in t + 1 .. l : ~IsKnown(f[x])) => t = u
  BY <1>1, <1>2, <1>4
<1>6. t = u => kind = c[1] /\ n = c[2]
  <2>1. Rank(f, kind, t) = n /\ Rank(f, c[1], u) = c[2]
    BY TopIs DEF IsOpen
  <2> QED
    BY <1>1, <1>2, <2>1
<1> HIDE DEF t, u
<1>7. Mine(f, kind, n, item, l + 1) =
        {m \in DOMAIN f : /\ m < l + 1 /\ m > t /\ \A x \in t + 1 .. m : ~IsKnown(f[x])
                          /\ ~IsSet(f[m]) /\ f[m].item = item}
  BY DEF Mine, t
<1>8. Mine(f, kind, n, item, l) =
        {m \in DOMAIN f : /\ m < l /\ m > t /\ \A x \in t + 1 .. m : ~IsKnown(f[x])
                          /\ ~IsSet(f[m]) /\ f[m].item = item}
  BY DEF Mine, t
<1>9. \A m \in DOMAIN f : m < l + 1 <=> m < l \/ m = l
  BY <1>3
<1>10. CASE kind = c[1] /\ n = c[2] /\ item = f[l].item
  <2>1. t = u
    BY <1>10 DEF t, u
  <2>2. l \in Mine(f, kind, n, item, l + 1)
    BY <1>1, <1>3, <1>4, <1>7, <1>10, <2>1
  <2>3. /\ Mine(f, kind, n, item, l + 1) \in SUBSET Nat
        /\ \A m \in Mine(f, kind, n, item, l + 1) : m <= l
    BY <1>3, <1>7
  <2>4. Max(Mine(f, kind, n, item, l + 1)) = l
    <3>1. /\ Max(Mine(f, kind, n, item, l + 1)) \in Mine(f, kind, n, item, l + 1)
          /\ \A m \in Mine(f, kind, n, item, l + 1) : m <= Max(Mine(f, kind, n, item, l + 1))
      BY <2>2, <2>3, MaxIs
    <3> QED
      BY <2>2, <2>3, <3>1
  <2> QED
    BY <1>10, <2>2, <2>4 DEF Before
<1>11. CASE ~(kind = c[1] /\ n = c[2] /\ item = f[l].item)
  <2>1. l \notin Mine(f, kind, n, item, l + 1)
    BY <1>1, <1>3, <1>5, <1>6, <1>7, <1>11
  <2>2. Mine(f, kind, n, item, l + 1) = Mine(f, kind, n, item, l)
    BY <1>7, <1>8, <1>9, <2>1
  <2> QED
    BY <1>11, <2>2 DEF Before
<1> QED
  BY <1>10, <1>11

\* A line that opens a set, known or not.
LEMMA SetRead ==
    ASSUME NEW f, IsList(f), NEW l \in 1 .. Len(f), IsSet(f[l]), NEW kind, NEW n, NEW item
    PROVE  Before(f, kind, n, item, l + 1) = Before(f, kind, n, item, l)
<1>1. \A m \in DOMAIN f : m < l + 1 <=> m < l \/ m = l
  BY ListIs
<1>2. Mine(f, kind, n, item, l + 1) = Mine(f, kind, n, item, l)
  BY <1>1 DEF Mine
<1> QED
  BY <1>2 DEF Before

LEMMA OpensSet ==
    ASSUME NEW f, IsList(f), NEW l \in 1 .. Len(f), IsKnown(f[l])
    PROVE  /\ l \in SetLines(f, f[l].set)
           /\ IsOpen(f, <<f[l].set, Rank(f, f[l].set, l)>>, l + 1)
<1>1. l \in SetLines(f, f[l].set) /\ f[l].set \in DOMAIN ItemsOf
  BY ListIs DEF SetLines, IsKnown
<1>2. /\ Rank(f, f[l].set, l) \in 1 .. NrSets(f, f[l].set)
      /\ Top(f, f[l].set, Rank(f, f[l].set, l)) = l
  BY <1>1, TopIs
<1> QED
  BY <1>1, <1>2 DEF IsOpen

LEMMA StaysOpen ==
    ASSUME NEW f, IsList(f), NEW l \in 1 .. Len(f), ~IsKnown(f[l]), NEW c, IsOpen(f, c, l)
    PROVE  IsOpen(f, c, l + 1)
<1>1. Top(f, c[1], c[2]) \in 1 .. Len(f) /\ Len(f) \in Nat
  BY TopIs, RankIs, ListIs DEF IsOpen
<1> QED
  BY <1>1 DEF IsOpen
-----------------------------------------------------------------------------
\* The arrays of the kinds: nothing yet, allocated, filled from the lines before l.
Ranks(f, l) == [k \in DOMAIN ItemsOf |-> Rank(f, k, l)]
Zeros == [k \in DOMAIN ItemsOf |-> 0]
NoArrays == [k \in DOMAIN ItemsOf |-> <<>>]
Row(f, k, n, l) == [i \in ItemsOf[k] |-> Before(f, k, n, i, l)]
Table(f, l) == [k \in DOMAIN ItemsOf |-> [n \in 1 .. NrSets(f, k) |-> Row(f, k, n, l)]]

Later == {"sort", "sets", "list", "item", "rules", "finish", "built"}

ReadInv ==
    /\ file \in Files
    /\ pc \in {"start", "arg", "model", "open", "count"} => current = NULL /\ cfgs = NoArrays
    /\ pc \in {"start", "arg", "model", "open"} => line = 1 /\ nr_sets = Zeros
    /\ pc \in {"arg", "model", "open"} => Len(file) > 0
    /\ pc = "count" => line \in 1 .. Len(file) /\ nr_sets = Ranks(file, line - 1)
    /\ pc = "alloc" =>
          /\ line \in 1 .. Len(Kinds) /\ current = NULL /\ Len(file) > 0
          /\ \A j \in 1 .. Len(Kinds) :
                /\ j < line => /\ nr_sets[Kinds[j]] = 0
                               /\ cfgs[Kinds[j]] = Table(file, 1)[Kinds[j]]
                /\ j >= line => nr_sets[Kinds[j]] = NrSets(file, Kinds[j])
          /\ DOMAIN nr_sets = DOMAIN ItemsOf /\ DOMAIN cfgs = DOMAIN ItemsOf
          /\ nr_sets = [k \in DOMAIN nr_sets |-> nr_sets[k]]
          /\ cfgs = [k \in DOMAIN cfgs |-> cfgs[k]]
    /\ pc = "defaults" => /\ line = 1 /\ nr_sets = Zeros /\ cfgs = Table(file, 1)
                          /\ current = NULL /\ Len(file) > 0
    /\ pc = "read" => /\ line \in 1 .. Len(file)
                      /\ nr_sets = Ranks(file, line - 1)
                      /\ cfgs = Table(file, line)
                      /\ current = NULL \/ IsOpen(file, current, line)
    /\ pc \in Later => cfgs = Table(file, Len(file) + 1)

LEMMA RanksAre ==
    ASSUME NEW f, IsList(f)
    PROVE  /\ Ranks(f, 0) = Zeros
           /\ \A k \in DOMAIN ItemsOf : Ranks(f, Len(f))[k] = NrSets(f, k)
           /\ \A l \in 1 .. Len(f) :
                 /\ IsKnown(f[l]) => Ranks(f, l) = [Ranks(f, l - 1) EXCEPT ![f[l].set] = @ + 1]
                 /\ ~IsKnown(f[l]) => Ranks(f, l) = Ranks(f, l - 1)
<1>1. Ranks(f, 0) = Zeros
  BY RankIs DEF Ranks, Zeros
<1>2. \A k \in DOMAIN ItemsOf : Ranks(f, Len(f))[k] = NrSets(f, k)
  BY RankIs DEF Ranks
<1>3. ASSUME NEW l \in 1 .. Len(f)
      PROVE  /\ IsKnown(f[l]) => Ranks(f, l) = [Ranks(f, l - 1) EXCEPT ![f[l].set] = @ + 1]
             /\ ~IsKnown(f[l]) => Ranks(f, l) = Ranks(f, l - 1)
  <2>1. l \in DOMAIN f
    BY ListIs
  <2>2. \A k \in DOMAIN ItemsOf : Rank(f, k, l) =
           IF IsKnown(f[l]) /\ f[l].set = k THEN Rank(f, k, l - 1) + 1 ELSE Rank(f, k, l - 1)
    BY <2>1, RankIs DEF SetLines
  <2>3. IsKnown(f[l]) => f[l].set \in DOMAIN ItemsOf
    BY DEF IsKnown
  <2> QED
    BY <2>2, <2>3 DEF Ranks
<1> QED
  BY <1>1, <1>2, <1>3

LEMMA KindsAre ==
    /\ Len(Kinds) = 4 /\ \A j \in 1 .. 4 : Kinds[j] \in DOMAIN ItemsOf
    /\ \A k \in DOMAIN ItemsOf : \E j \in 1 .. 4 : Kinds[j] = k
    /\ \A i, j \in 1 .. 4 : Kinds[i] = Kinds[j] => i = j
<1>1. Kinds[1] = "common" /\ Kinds[2] = "group_set" /\ Kinds[3] = "group" /\ Kinds[4] = "rule"
  BY DEF Kinds
<1>2. DOMAIN ItemsOf = {"common", "group_set", "group", "rule"}
  BY DEF ItemsOf
<1>3. Len(Kinds) = 4
  BY DEF Kinds
<1>4. 1 .. 4 = {1, 2, 3, 4}
  OBVIOUS
<1> QED
  BY <1>1, <1>2, <1>3, <1>4

LEMMA BlankTable ==
    ASSUME NEW f, IsList(f)
    PROVE  Table(f, 1) = [k \in DOMAIN ItemsOf |-> [n \in 1 .. NrSets(f, k) |->
                              [i \in ItemsOf[k] |-> NULL]]]
<1>1. \A k, i : \A n \in 1 .. NrSets(f, k) : Before(f, k, n, i, 1) = NULL
  BY BeforeTheFirst
<1> QED
  BY <1>1 DEF Table, Row

LEMMA RowsAgree ==
    ASSUME NEW f, NEW l,
           \A k \in DOMAIN ItemsOf : \A n \in 1 .. NrSets(f, k) : Row(f, k, n, l + 1) = Row(f, k, n, l)
    PROVE  Table(f, l + 1) = Table(f, l)
<1>1. \A k \in DOMAIN ItemsOf : [n \in 1 .. NrSets(f, k) |-> Row(f, k, n, l + 1)]
                                  = [n \in 1 .. NrSets(f, k) |-> Row(f, k, n, l)]
  OBVIOUS
<1> QED
  BY <1>1 DEF Table

LEMMA ReadInit == Init => ReadInv
BY DEF Init, ConfigInit, ReadInv, Zeros, NoArrays, Later

LEMMA OpenStep ==
    ASSUME ReadInv, OpenConfig
    PROVE  ReadInv'
<1>1. pc = "open" /\ pc' \in {"count", "out"} /\ UNCHANGED config
  BY DEF OpenConfig
<1>2. Ranks(file, 0) = Zeros
  BY RanksAre, FilesAreComplete DEF ReadInv
<1>3. line \in 1 .. Len(file) /\ line - 1 = 0
  BY <1>1, ListIs, FilesAreComplete DEF ReadInv
<1> QED
  BY <1>1, <1>2, <1>3 DEF ReadInv, Later, config

LEMMA CountStep ==
    ASSUME ReadInv, CountSet
    PROVE  ReadInv'
<1> DEFINE l == line
<1>1. /\ file \in Files /\ line \in 1 .. Len(file) /\ nr_sets = Ranks(file, line - 1)
      /\ current = NULL /\ cfgs = NoArrays
  BY DEF ReadInv, CountSet
<1>2. IsList(file) /\ Len(file) \in Nat
  BY <1>1, FilesAreComplete, ListIs
<1>3. nr_sets' = Ranks(file, line)
  BY <1>1, <1>2, RanksAre DEF CountSet, OneMore
<1>4. file' = file /\ cfgs' = cfgs /\ current' = current
  BY DEF CountSet
<1>5. CASE line = Len(file)
  <2>1. line' = 1 /\ pc' = "alloc"
    BY <1>5 DEF CountSet, Advance
  <2>2. \A j \in 1 .. Len(Kinds) : nr_sets'[Kinds[j]] = NrSets(file, Kinds[j])
    BY <1>2, <1>3, <1>5, RanksAre, KindsAre
  <2>3. /\ DOMAIN nr_sets' = DOMAIN ItemsOf /\ DOMAIN cfgs' = DOMAIN ItemsOf
        /\ nr_sets' = [k \in DOMAIN nr_sets' |-> nr_sets'[k]]
        /\ cfgs' = [k \in DOMAIN cfgs' |-> cfgs'[k]]
    BY <1>1, <1>3, <1>4 DEF Ranks, NoArrays
  <2>4. 1 \in 1 .. Len(Kinds) /\ \A j \in 1 .. Len(Kinds) : ~(j < 1) /\ j >= 1
    BY KindsAre
  <2>5. Len(file) > 0
    BY <1>1, <1>2
  <2> QED
    BY <1>1, <1>4, <2>1, <2>2, <2>3, <2>4, <2>5 DEF ReadInv, Later
<1>6. CASE line # Len(file)
  <2>1. line' = line + 1 /\ pc' = "count"
    BY <1>6 DEF CountSet, Advance
  <2>2. line' \in 1 .. Len(file) /\ line' - 1 = line
    BY <1>1, <1>2, <1>6, <2>1
  <2> QED
    BY <1>1, <1>3, <1>4, <2>1, <2>2 DEF ReadInv, Later
<1> QED
  BY <1>5, <1>6

LEMMA AllocStep ==
    ASSUME ReadInv, AllocSets
    PROVE  ReadInv'
<1>1. /\ file \in Files /\ line \in 1 .. Len(Kinds) /\ current = NULL /\ Len(file) > 0
      /\ \A j \in 1 .. Len(Kinds) :
            /\ j < line => nr_sets[Kinds[j]] = 0 /\ cfgs[Kinds[j]] = Table(file, 1)[Kinds[j]]
            /\ j >= line => nr_sets[Kinds[j]] = NrSets(file, Kinds[j])
      /\ DOMAIN nr_sets = DOMAIN ItemsOf /\ DOMAIN cfgs = DOMAIN ItemsOf
      /\ nr_sets = [k \in DOMAIN nr_sets |-> nr_sets[k]]
      /\ cfgs = [k \in DOMAIN cfgs |-> cfgs[k]]
  BY DEF ReadInv, AllocSets
<1>2. IsList(file) /\ Len(Kinds) = 4
  BY <1>1, FilesAreComplete, KindsAre
<1>3. file' = file /\ current' = current
  BY DEF AllocSets
<1>4. CASE pc' = "out" \/ pc' = "crashed"
  BY <1>1, <1>3, <1>4 DEF ReadInv, Later
<1>5. CASE /\ cfgs' = [cfgs EXCEPT ![Kinds[line]] = [n \in 1 .. nr_sets[Kinds[line]] |->
                                                       [i \in ItemsOf[Kinds[line]] |-> NULL]]]
           /\ nr_sets' = [nr_sets EXCEPT ![Kinds[line]] = 0]
           /\ Advance(Len(Kinds), "defaults")
  <2>1. Kinds[line] \in DOMAIN ItemsOf /\ nr_sets[Kinds[line]] = NrSets(file, Kinds[line])
    BY <1>1, <1>2, KindsAre
  <2>2. [n \in 1 .. nr_sets[Kinds[line]] |-> [i \in ItemsOf[Kinds[line]] |-> NULL]]
           = Table(file, 1)[Kinds[line]]
    <3>1. Table(file, 1) = [k \in DOMAIN ItemsOf |-> [n \in 1 .. NrSets(file, k) |->
                               [i \in ItemsOf[k] |-> NULL]]]
      BY <1>2, BlankTable
    <3> QED
      BY <2>1, <3>1
  <2>3. /\ DOMAIN nr_sets' = DOMAIN ItemsOf /\ DOMAIN cfgs' = DOMAIN ItemsOf
        /\ nr_sets' = [k \in DOMAIN nr_sets' |-> nr_sets'[k]]
        /\ cfgs' = [k \in DOMAIN cfgs' |-> cfgs'[k]]
    BY <1>1, <1>5
  <2>4. \A k \in DOMAIN ItemsOf :
           /\ nr_sets'[k] = IF k = Kinds[line] THEN 0 ELSE nr_sets[k]
           /\ cfgs'[k] = IF k = Kinds[line] THEN Table(file, 1)[k] ELSE cfgs[k]
    BY <1>1, <1>5, <2>2
  <2>5. \A j \in 1 .. 4 : Kinds[j] \in DOMAIN ItemsOf /\ (Kinds[j] = Kinds[line] => j = line)
    BY <1>1, <1>2, KindsAre
  <2>6. \A j \in 1 .. 4 :
            /\ j < line + 1 => nr_sets'[Kinds[j]] = 0 /\ cfgs'[Kinds[j]] = Table(file, 1)[Kinds[j]]
            /\ j >= line + 1 => nr_sets'[Kinds[j]] = NrSets(file, Kinds[j])
    BY <1>1, <1>2, <2>4, <2>5
  <2>7. CASE line = 4
    <3>1. line' = 1 /\ pc' = "defaults"
      BY <1>2, <1>5, <2>7 DEF Advance
    <3>2. \A k \in DOMAIN ItemsOf : nr_sets'[k] = 0 /\ cfgs'[k] = Table(file, 1)[k]
      BY <2>6, <2>7, KindsAre
    <3>3. nr_sets' = Zeros
      BY <2>3, <3>2 DEF Zeros
    <3>4. cfgs' = Table(file, 1)
      BY <2>3, <3>2 DEF Table
    <3> QED
      BY <1>1, <1>3, <3>1, <3>3, <3>4 DEF ReadInv, Later
  <2>8. CASE line # 4
    <3>1. line' = line + 1 /\ pc' = "alloc" /\ line + 1 \in 1 .. 4
      BY <1>1, <1>2, <1>5, <2>8 DEF Advance, AllocSets
    <3> QED
      BY <1>1, <1>2, <1>3, <2>3, <2>6, <3>1 DEF ReadInv, Later
  <2> QED
    BY <2>7, <2>8
<1> QED
  BY <1>4, <1>5 DEF AllocSets

LEMMA DefaultsStep ==
    ASSUME ReadInv, SetDefaults
    PROVE  ReadInv'
<1>1. /\ file \in Files /\ line = 1 /\ nr_sets = Zeros /\ cfgs = Table(file, 1)
      /\ current = NULL /\ Len(file) > 0 /\ pc' = "read" /\ UNCHANGED config
  BY DEF ReadInv, SetDefaults
<1>2. IsList(file) /\ Len(file) \in Nat
  BY <1>1, FilesAreComplete, ListIs
<1>3. Ranks(file, 0) = Zeros /\ line \in 1 .. Len(file) /\ line - 1 = 0
  BY <1>1, <1>2, RanksAre
<1> QED
  BY <1>1, <1>2, <1>3 DEF ReadInv, Later, config

\* What is known before a line is read, and what is left to show after it.
LEMMA ReadOn ==
    ASSUME ReadInv, pc = "read", file' = file, Advance(Len(file), "sort"),
           nr_sets' = Ranks(file, line), cfgs' = Table(file, line + 1),
           current' = NULL \/ IsOpen(file, current', line + 1)
    PROVE  ReadInv'
<1>1. file \in Files /\ line \in 1 .. Len(file)
  BY DEF ReadInv
<1>2. IsList(file) /\ Len(file) \in Nat
  BY <1>1, FilesAreComplete, ListIs
<1>3. CASE line = Len(file)
  BY <1>1, <1>3 DEF ReadInv, Later, Advance
<1>4. CASE line # Len(file)
  <2>1. line' = line + 1 /\ pc' = "read" /\ line + 1 \in 1 .. Len(file) /\ line + 1 - 1 = line
    BY <1>1, <1>2, <1>4 DEF Advance
  <2> QED
    BY <1>1, <2>1 DEF ReadInv, Later
<1> QED
  BY <1>3, <1>4

LEMMA SetStep ==
    ASSUME ReadInv, pc = "read", file' = file, OpenSet(file[line])
    PROVE  ReadInv'
<1>1. /\ file \in Files /\ line \in 1 .. Len(file) /\ nr_sets = Ranks(file, line - 1)
      /\ cfgs = Table(file, line)
      /\ current = NULL \/ IsOpen(file, current, line)
  BY DEF ReadInv
<1>2. IsList(file) /\ Len(file) \in Nat
  BY <1>1, FilesAreComplete, ListIs
<1>3. cfgs' = Table(file, line + 1)
  <2>1. \A k, n, i : Before(file, k, n, i, line + 1) = Before(file, k, n, i, line)
    BY <1>1, <1>2, SetRead DEF OpenSet
  <2>2. \A k, n : Row(file, k, n, line + 1) = Row(file, k, n, line)
    BY <2>1 DEF Row
  <2>3. cfgs' = cfgs
    BY DEF OpenSet
  <2> QED
    BY <1>1, <2>2, <2>3, RowsAgree
<1>4. CASE IsKnown(file[line])
  <2>1. file[line].set \in DOMAIN ItemsOf
    BY <1>4 DEF IsKnown
  <2>2. current' = <<file[line].set, Rank(file, file[line].set, line - 1) + 1>>
    BY <1>1, <1>4, <2>1 DEF OpenSet, Opened, Ranks
  <2>3. Rank(file, file[line].set, line) = Rank(file, file[line].set, line - 1) + 1
    BY <1>1, <1>2, <1>4, OpensSet, RankIs
  <2>4. IsOpen(file, current', line + 1)
    BY <1>1, <1>2, <1>4, <2>2, <2>3, OpensSet
  <2>5. nr_sets' = Ranks(file, line)
    BY <1>1, <1>2, <1>4, RanksAre DEF OpenSet, OneMore
  <2> QED
    BY <1>3, <2>4, <2>5, ReadOn DEF OpenSet
<1>5. CASE ~IsKnown(file[line])
  <2>1. nr_sets' = Ranks(file, line) /\ current' = current
    BY <1>1, <1>2, <1>5, RanksAre DEF OpenSet
  <2>2. current = NULL \/ IsOpen(file, current, line + 1)
    BY <1>1, <1>2, <1>5, StaysOpen
  <2> QED
    BY <1>3, <2>1, <2>2, ReadOn DEF OpenSet
<1> QED
  BY <1>4, <1>5

LEMMA ItemStep ==
    ASSUME ReadInv, pc = "read", file' = file, ReadItem(file[line])
    PROVE  ReadInv'
<1>1. /\ file \in Files /\ line \in 1 .. Len(file) /\ nr_sets = Ranks(file, line - 1)
      /\ cfgs = Table(file, line)
      /\ current = NULL \/ IsOpen(file, current, line)
  BY DEF ReadInv
<1>2. IsList(file) /\ Len(file) \in Nat
  BY <1>1, FilesAreComplete, ListIs
<1>3. ~IsSet(file[line]) /\ ~IsKnown(file[line]) /\ nr_sets' = nr_sets /\ current' = current
  BY DEF ReadItem, IsKnown
<1>4. CASE pc' \in {"crashed", "out"}
  BY <1>1, <1>4 DEF ReadInv, Later
<1>5. ASSUME current # NULL, Advance(Len(file), "sort"),
             \/ file[line].item \notin ItemsOf[current[1]] /\ cfgs' = cfgs
             \/ /\ file[line].item \in ItemsOf[current[1]]
                /\ cfgs' = [cfgs EXCEPT ![current[1]][current[2]][file[line].item] = file[line].value]
      PROVE  ReadInv'
  <2> DEFINE c == current
             v == file[line].item
  <2>1. IsOpen(file, c, line)
    BY <1>1, <1>5
  <2>2. c[1] \in DOMAIN ItemsOf /\ c[2] \in 1 .. NrSets(file, c[1])
    BY <2>1 DEF IsOpen
  <2>3. \A k \in DOMAIN ItemsOf : \A n \in 1 .. NrSets(file, k) : \A i :
           Before(file, k, n, i, line + 1) =
              IF k = c[1] /\ n = c[2] /\ i = v THEN file[line].value ELSE Before(file, k, n, i, line)
    BY <1>1, <1>2, <1>3, <2>1, ItemRead
  <2>4. cfgs' = Table(file, line + 1)
    <3> HIDE DEF c, v
    <3>1. CASE v \notin ItemsOf[c[1]] /\ cfgs' = cfgs
      <4>1. \A k \in DOMAIN ItemsOf : \A n \in 1 .. NrSets(file, k) :
               Row(file, k, n, line + 1) = Row(file, k, n, line)
        BY <2>3, <3>1 DEF Row
      <4> QED
        BY <1>1, <3>1, <4>1, RowsAgree
    <3>2. CASE v \in ItemsOf[c[1]] /\ cfgs' = [cfgs EXCEPT ![c[1]][c[2]][v] = file[line].value]
      <4>1. cfgs' = [cfgs EXCEPT ![c[1]] = [cfgs[c[1]] EXCEPT ![c[2]] =
                        [cfgs[c[1]][c[2]] EXCEPT ![v] = file[line].value]]]
        BY <3>2
      <4>2. \A k \in DOMAIN ItemsOf : /\ cfgs[k] = [n \in 1 .. NrSets(file, k) |-> Row(file, k, n, line)]
                                      /\ \A n \in 1 .. NrSets(file, k) :
                                            cfgs[k][n] = Row(file, k, n, line)
        BY <1>1 DEF Table
      <4>3. [Row(file, c[1], c[2], line) EXCEPT ![v] = file[line].value]
               = Row(file, c[1], c[2], line + 1)
        BY <2>2, <2>3, <3>2 DEF Row
      <4>4. \A k \in DOMAIN ItemsOf : \A n \in 1 .. NrSets(file, k) : (k # c[1] \/ n # c[2]) =>
               Row(file, k, n, line + 1) = Row(file, k, n, line)
        BY <2>3 DEF Row
      <4>5. DOMAIN cfgs = DOMAIN ItemsOf /\ cfgs = [k \in DOMAIN ItemsOf |-> cfgs[k]]
        BY <1>1 DEF Table
      <4>6. \A k \in DOMAIN ItemsOf : k # c[1] =>
               cfgs[k] = [n \in 1 .. NrSets(file, k) |-> Row(file, k, n, line + 1)]
        BY <4>2, <4>4
      <4>7. [cfgs[c[1]] EXCEPT ![c[2]] = [cfgs[c[1]][c[2]] EXCEPT ![v] = file[line].value]]
               = [n \in 1 .. NrSets(file, c[1]) |-> Row(file, c[1], n, line + 1)]
        <5>1. cfgs[c[1]][c[2]] = Row(file, c[1], c[2], line)
          BY <2>2, <4>2
        <5>2. cfgs[c[1]] = [n \in 1 .. NrSets(file, c[1]) |-> Row(file, c[1], n, line)]
          BY <2>2, <4>2
        <5>3. [cfgs[c[1]] EXCEPT ![c[2]] = Row(file, c[1], c[2], line + 1)]
                 = [n \in 1 .. NrSets(file, c[1]) |-> Row(file, c[1], n, line + 1)]
          BY <2>2, <4>4, <5>2
        <5> QED
          BY <4>3, <5>1, <5>3
      <4>8. cfgs' = [k \in DOMAIN ItemsOf |-> [n \in 1 .. NrSets(file, k) |-> Row(file, k, n, line + 1)]]
        BY <2>2, <4>1, <4>5, <4>6, <4>7
      <4> QED
        BY <4>8 DEF Table
    <3> QED
      BY <1>5, <3>1, <3>2 DEF c, v
  <2>5. IsOpen(file, c, line + 1)
    BY <1>1, <1>2, <1>3, <2>1, StaysOpen
  <2>6. nr_sets' = Ranks(file, line)
    BY <1>1, <1>2, <1>3, RanksAre
  <2> QED
    BY <1>3, <1>5, <2>4, <2>5, <2>6, ReadOn
<1> QED
  BY <1>4, <1>5 DEF ReadItem

LEMMA ReadStep ==
    ASSUME ReadInv, [Next]_vars
    PROVE  ReadInv'
<1>1. CASE GetEngineSize
  <2>1. (\E l \in DOMAIN file : TRUE) => Len(file) > 0
    <3>1. IsList(file)
      BY FilesAreComplete DEF ReadInv
    <3> QED
      BY <3>1, ListIs
  <2> QED
    BY <1>1, <2>1 DEF GetEngineSize, ReadInv, Later, config
<1>2. CASE ArgInit
  BY <1>2 DEF ArgInit, ReadInv, Later, config
<1>3. CASE ModelInit
  BY <1>3 DEF ModelInit, ReadInv, Later, config
<1>4. CASE ReadNeConfig
  <2>1. CASE ReadLine
    BY <2>1, SetStep, ItemStep DEF ReadLine
  <2> QED
    BY <1>4, <2>1, OpenStep, CountStep, AllocStep, DefaultsStep DEF ReadNeConfig, ReadConfigStep
<1>5. CASE CountGroups \/ SortSet \/ SortSingles
  <2>1. pc \in Later /\ pc' \in Later \cup {"out", "crashed"}
    BY <1>5 DEF CountGroups, SortSet, SortSingles, Later
  <2>2. file' = file /\ cfgs' = cfgs
    BY <1>5 DEF CountGroups, SortSet, SortSingles, Keeps
  <2> QED
    BY <2>1, <2>2 DEF ReadInv, Later
<1>6. CASE BeginList \/ SpecialItem \/ DelimItem
  <2>1. pc \in Later /\ pc' \in Later \cup {"out", "crashed"}
    BY <1>6 DEF BeginList, SpecialItem, DelimItem, InList, TreeIsFull, Later
  <2>2. file' = file /\ cfgs' = cfgs
    BY <1>6 DEF BeginList, SpecialItem, DelimItem, Keeps
  <2> QED
    BY <2>1, <2>2 DEF ReadInv, Later
<1>7. CASE EndList \/ ParseRules
  <2>1. pc \in Later /\ pc' \in Later \cup {"out"}
    BY <1>7 DEF EndList, ParseRules, Later
  <2>2. file' = file /\ cfgs' = cfgs
    BY <1>7 DEF EndList, ParseRules, Keeps
  <2> QED
    BY <2>1, <2>2 DEF ReadInv, Later
<1>8. CASE Finish \/ Out \/ Destroy
  <2>1. pc \in Later \cup {"out"} /\ pc' \in {"built", "null"} /\ file' = file /\ cfgs' = cfgs
        /\ (pc' = "built" => pc \in Later)
    BY <1>8 DEF Finish, Out, Destroy, Later, config
  <2> QED
    BY <2>1 DEF ReadInv, Later
<1>9. CASE UNCHANGED vars
  BY <1>9 DEF vars, config, ReadInv
<1> QED
  BY <1>1, <1>2, <1>3, <1>4, <1>5, <1>6, <1>7, <1>8, <1>9 DEF Next
-----------------------------------------------------------------------------
\* Which essential group is looked for after each group of an order.
Turn(f, order, names, j) == LookFor(f[j - 1], /\ f[j - 1] <= Len(names)
                                              /\ order[j] = names[f[j - 1]])
Looks(f, order, names) ==
    f = [j \in 0 .. Len(order) |->
           IF j = 0 THEN 1 ELSE LookFor(f[j - 1], /\ f[j - 1] <= Len(names)
                                                  /\ order[j] = names[f[j - 1]])]
LooksUpTo(f, order, names, n) ==
    /\ f \in [0 .. n -> Nat] /\ f[0] = 1
    /\ \A j \in 1 .. n : f[j] = Turn(f, order, names, j)

LEMMA LooksFar ==
    ASSUME NEW order, NEW names, NEW n \in Nat
    PROVE  \E f : LooksUpTo(f, order, names, n)
<1> DEFINE T == {m \in Nat : ~ \E f : LooksUpTo(f, order, names, m)}
<1>1. T = {}
  <2> SUFFICES ASSUME T # {} PROVE FALSE
    OBVIOUS
  <2>1. PICK a \in T : \A b \in T : a <= b
    BY Least, T \in SUBSET Nat
  <2>2. a # 0
    <3>1. LooksUpTo([j \in 0 .. 0 |-> 1], order, names, 0)
      BY DEF LooksUpTo
    <3> QED
      BY <3>1
  <2>3. a - 1 \in Nat /\ a - 1 \notin T
    BY <2>1, <2>2
  <2>4. PICK g : LooksUpTo(g, order, names, a - 1)
    BY <2>3
  <2> DEFINE f == [j \in 0 .. a |-> IF j = a THEN Turn(g, order, names, a) ELSE g[j]]
  <2>5. a \in Nat \ {0}
    BY <2>2
  <2>6. Turn(g, order, names, a) \in Nat
    <3>1. g[a - 1] \in Nat
      BY <2>3, <2>4 DEF LooksUpTo
    <3> QED
      BY <3>1 DEF Turn, LookFor
  <2>7. \A j \in 0 .. a - 1 : f[j] = g[j] /\ g[j] \in Nat
    BY <2>4, <2>5 DEF LooksUpTo
  <2>8. f \in [0 .. a -> Nat] /\ f[0] = 1
    BY <2>4, <2>5, <2>6, <2>7 DEF LooksUpTo
  <2>9. f[a] = Turn(g, order, names, a)
    BY <2>5
  <2> HIDE DEF f
  <2>10. ASSUME NEW j \in 1 .. a
         PROVE  f[j] = Turn(f, order, names, j)
    <3>1. j - 1 \in 0 .. a - 1
      BY <2>5
    <3>2. Turn(f, order, names, j) = Turn(g, order, names, j)
      BY <2>7, <3>1 DEF Turn
    <3>3. CASE j = a
      BY <2>9, <3>2, <3>3
    <3>4. CASE j # a
      <4>1. j \in 1 .. a - 1 /\ j \in 0 .. a - 1
        BY <2>5, <3>4
      <4> QED
        BY <2>4, <2>7, <3>2, <4>1 DEF LooksUpTo
    <3> QED
      BY <3>3, <3>4
  <2>11. LooksUpTo(f, order, names, a)
    BY <2>8, <2>10 DEF LooksUpTo
  <2> QED
    BY <2>11
<1> QED
  BY <1>1

LEMMA EssentialIs ==
    ASSUME NEW order, IsList(order), NEW names
    PROVE  \E f : /\ LooksUpTo(f, order, names, Len(order))
                  /\ Essential(order, names) =
                        [j \in DOMAIN order |-> /\ f[j - 1] <= Len(names)
                                                /\ order[j] = names[f[j - 1]]]
<1>1. Len(order) \in Nat
  BY ListIs
<1>2. PICK g : LooksUpTo(g, order, names, Len(order))
  BY <1>1, LooksFar
<1>3. Looks(g, order, names)
  <2> DEFINE h == [j \in 0 .. Len(order) |->
                     IF j = 0 THEN 1 ELSE LookFor(g[j - 1], /\ g[j - 1] <= Len(names)
                                                            /\ order[j] = names[g[j - 1]])]
  <2>1. g = [j \in 0 .. Len(order) |-> g[j]]
    BY <1>2 DEF LooksUpTo
  <2>2. \A j \in 0 .. Len(order) : g[j] = h[j]
    <3> TAKE j \in 0 .. Len(order)
    <3>1. CASE j = 0
      BY <1>2, <3>1 DEF LooksUpTo
    <3>2. CASE j # 0
      <4>1. j \in 1 .. Len(order)
        BY <1>1, <3>2
      <4> QED
        BY <1>2, <3>2, <4>1 DEF LooksUpTo, Turn
    <3> QED
      BY <3>1, <3>2
  <2>3. g = h
    BY <2>1, <2>2
  <2> QED
    BY <2>3 DEF Looks
<1> DEFINE f == CHOOSE looked : Looks(looked, order, names)
<1>4. Looks(f, order, names)
  BY <1>3, Zenon
<1>5. Essential(order, names) = [j \in DOMAIN order |-> /\ f[j - 1] <= Len(names)
                                                        /\ order[j] = names[f[j - 1]]]
  BY Zenon DEF Essential, Looks
<1> HIDE DEF f
<1>6. f[0] = 1 /\ DOMAIN f = 0 .. Len(order) /\ f = [j \in 0 .. Len(order) |-> f[j]]
  BY <1>1, <1>4 DEF Looks
<1>7. \A j \in 1 .. Len(order) : f[j] = Turn(f, order, names, j)
  <2>1. \A j \in 1 .. Len(order) : j # 0 /\ j \in 0 .. Len(order)
    BY <1>1
  <2> QED
    BY <1>4, <2>1 DEF Looks, Turn
<1>8. \A j \in 0 .. Len(order) : f[j] \in Nat
  <2> DEFINE T == {j \in 0 .. Len(order) : f[j] \notin Nat}
  <2> SUFFICES ASSUME T # {} PROVE FALSE
    OBVIOUS
  <2>1. PICK a \in T : \A b \in T : a <= b
    BY Least, T \in SUBSET Nat
  <2>2. a # 0 /\ a \in 1 .. Len(order)
    BY <1>1, <1>6
  <2>3. a - 1 \in 0 .. Len(order) /\ a - 1 \notin T
    BY <1>1, <2>1, <2>2
  <2> QED
    BY <1>7, <2>1, <2>2, <2>3 DEF Turn, LookFor
<1>9. LooksUpTo(f, order, names, Len(order))
  BY <1>6, <1>7, <1>8 DEF LooksUpTo
<1> QED
  BY <1>5, <1>9

\* Prefixes, letter by letter.
LEMMA PrefixIs ==
    ASSUME NEW S, NEW T, NEW s \in Seq(S), NEW t \in Seq(T)
    PROVE  IsPrefix(s, t) <=> Len(s) <= Len(t) /\ \A i \in 1 .. Len(s) : s[i] = t[i]
<1> DEFINE a == SubSeq(s, 1, Len(s))
           b == SubSeq(t, 1, Len(s))
<1>1. Len(s) \in Nat /\ Len(t) \in Nat
  OBVIOUS
<1>2. a \in Seq(S) /\ Len(a) = Len(s) /\ \A i \in 1 .. Len(s) : a[i] = s[i]
  BY <1>1, SubSeqProperties
<1>3. Len(s) <= Len(t) =>
         b \in Seq(T) /\ Len(b) = Len(s) /\ \A i \in 1 .. Len(s) : b[i] = t[i]
  BY <1>1, SubSeqProperties
<1>4. IsPrefix(s, t) <=> Len(s) <= Len(t) /\ a = b
  BY DEF IsPrefix
<1> HIDE DEF a, b
<1>5. (Len(s) <= Len(t) /\ \A i \in 1 .. Len(s) : a[i] = b[i]) => a = b
  <2> SUFFICES ASSUME Len(s) <= Len(t), \A i \in 1 .. Len(s) : a[i] = b[i] PROVE a = b
    OBVIOUS
  <2>1. a = [i \in 1 .. Len(s) |-> a[i]] /\ b = [i \in 1 .. Len(s) |-> b[i]]
    BY <1>2, <1>3
  <2> QED
    BY <2>1
<1> QED
  BY <1>2, <1>3, <1>4, <1>5

\* How many groups of an order are essential up to one of them.
EssUpTo(ess, j) == Cardinality({m \in 1 .. j : ess[m]})

LEMMA EssUpToIs ==
    ASSUME NEW ess, NEW n \in Nat
    PROVE  /\ EssUpTo(ess, 0) = 0
           /\ \A j \in 0 .. n : EssUpTo(ess, j) \in Nat
           /\ \A j \in 1 .. n : EssUpTo(ess, j) =
                 IF ess[j] THEN EssUpTo(ess, j - 1) + 1 ELSE EssUpTo(ess, j - 1)
<1> DEFINE B(j) == {m \in 1 .. j : ess[m]}
<1>1. \A j \in 0 .. n : IsFiniteSet(B(j)) /\ Cardinality(B(j)) \in Nat
  <2> TAKE j \in 0 .. n
  <2>1. IsFiniteSet(1 .. j) /\ B(j) \subseteq 1 .. j
    BY FS_Interval
  <2> QED
    BY <2>1, FS_Subset, FS_CardinalityType
<1>2. B(0) = {}
  OBVIOUS
<1>3. ASSUME NEW j \in 1 .. n
      PROVE  Cardinality(B(j)) = IF ess[j] THEN Cardinality(B(j - 1)) + 1 ELSE Cardinality(B(j - 1))
  <2>1. \A m : m \in 1 .. j <=> m \in 1 .. j - 1 \/ m = j
    OBVIOUS
  <2>2. j \notin 1 .. j - 1 /\ j - 1 \in 0 .. n
    OBVIOUS
  <2>3. CASE ess[j]
    <3>1. B(j) = B(j - 1) \cup {j} /\ j \notin B(j - 1)
      BY <2>1, <2>2, <2>3
    <3>2. IsFiniteSet(B(j - 1))
      BY <1>1, <2>2
    <3>3. Cardinality(B(j - 1) \cup {j}) = Cardinality(B(j - 1)) + 1
      BY <3>1, <3>2, FS_AddElement
    <3> QED
      BY <2>3, <3>1, <3>3
  <2>4. CASE ~ess[j]
    <3>1. B(j) = B(j - 1)
      BY <2>1, <2>2, <2>4
    <3> QED
      BY <2>4, <3>1
  <2> QED
    BY <2>3, <2>4
<1> HIDE DEF B
<1>4. \A j : EssUpTo(ess, j) = Cardinality(B(j))
  BY DEF EssUpTo, B
<1> QED
  BY <1>1, <1>2, <1>3, <1>4, FS_EmptySet

\* The names that the essential groups of an order spell.
Spells(order, ess) ==
    [n \in 1 .. Cardinality({j \in DOMAIN order : ess[j]}) |->
        order[CHOOSE j \in DOMAIN order :
                /\ ess[j]
                /\ n = Cardinality({m \in 1 .. j : ess[m]})]]

\* They are the essential names as far as the order goes.
SpeltAsFar(order, names, ess) ==
    /\ Spells(order, ess) # <<>> /\ IsPrefix(Spells(order, ess), names)
    /\ Spells(order, ess) # names =>
         LET last == CHOOSE j \in DOMAIN order :
                        /\ ess[j]
                        /\ \A m \in j + 1 .. Len(order) : ~ess[m]
         IN \A m \in last + 1 .. Len(order) :
               order[m] # names[Len(Spells(order, ess)) + 1]

LEMMA EssentialSpells ==
    ASSUME NEW order, IsList(order), NEW names, IsList(names),
           NEW ess, ess = Essential(order, names), \E j \in DOMAIN order : ess[j]
    PROVE  SpeltAsFar(order, names, ess)
<1> DEFINE n == Len(order)
           C(j) == EssUpTo(ess, j)
           sp == Spells(order, ess)
<1>1. /\ n \in Nat /\ DOMAIN order = 1 .. n
      /\ names \in Seq(ToSet(names)) /\ Len(names) \in Nat
      /\ \A i \in 1 .. Len(names) : names[i] \in ToSet(names)
  BY ListIs
<1>a. PICK f : /\ LooksUpTo(f, order, names, n)
               /\ Essential(order, names) =
                     [j \in DOMAIN order |-> f[j - 1] <= Len(names) /\ order[j] = names[f[j - 1]]]
  BY EssentialIs
<1>2. /\ LooksUpTo(f, order, names, n)
      /\ ess = [j \in DOMAIN order |-> f[j - 1] <= Len(names) /\ order[j] = names[f[j - 1]]]
  BY <1>a
<1>3. /\ \A j \in 0 .. n : f[j] \in Nat
      /\ f[0] = 1
      /\ \A j \in 1 .. n : /\ ess[j] => /\ f[j] = f[j - 1] + 1 /\ f[j - 1] <= Len(names)
                                        /\ order[j] = names[f[j - 1]]
                           /\ ~ess[j] => /\ f[j] = f[j - 1]
                                         /\ ~(f[j - 1] <= Len(names) /\ order[j] = names[f[j - 1]])
  <2>1. f[0] = 1 /\ \A j \in 0 .. n : f[j] \in Nat
    BY <1>2 DEF LooksUpTo
  <2>2. \A j \in 1 .. n :
           /\ f[j] = LookFor(f[j - 1], f[j - 1] <= Len(names) /\ order[j] = names[f[j - 1]])
           /\ ess[j] = (f[j - 1] <= Len(names) /\ order[j] = names[f[j - 1]])
    <3> TAKE j \in 1 .. n
    <3>1. f[j] = LookFor(f[j - 1], f[j - 1] <= Len(names) /\ order[j] = names[f[j - 1]])
      BY <1>2, Zenon DEF LooksUpTo, Turn
    <3>2. j \in DOMAIN order
      BY <1>1
    <3>3. ess[j] = (f[j - 1] <= Len(names) /\ order[j] = names[f[j - 1]])
      BY <1>2, <3>2, Zenon
    <3> QED
      BY <3>1, <3>3
  <2> QED
    BY <2>1, <2>2 DEF LookFor
<1>4. /\ C(0) = 0 /\ \A j \in 0 .. n : C(j) \in Nat
      /\ \A j \in 1 .. n : C(j) = IF ess[j] THEN C(j - 1) + 1 ELSE C(j - 1)
  BY <1>1, EssUpToIs
<1> HIDE DEF C
<1>5. \A j \in 0 .. n : f[j] = C(j) + 1 /\ C(j) <= Len(names)
  <2> DEFINE T == {j \in 0 .. n : ~(f[j] = C(j) + 1 /\ C(j) <= Len(names))}
  <2> SUFFICES ASSUME T # {} PROVE FALSE
    OBVIOUS
  <2>1. PICK a \in T : \A b \in T : a <= b
    BY <1>1, Least, T \in SUBSET Nat
  <2>2. a # 0 /\ a \in 1 .. n
    BY <1>1, <1>3, <1>4
  <2>3. a - 1 \in 0 .. n /\ a - 1 \notin T
    BY <1>1, <2>1, <2>2
  <2>4. /\ f[a - 1] = C(a - 1) + 1 /\ C(a - 1) <= Len(names)
        /\ C(a - 1) \in Nat /\ ~(f[a] = C(a) + 1 /\ C(a) <= Len(names))
    BY <1>4, <2>3
  <2>5. CASE ess[a]
    <3>1. f[a] = f[a - 1] + 1 /\ f[a - 1] <= Len(names) /\ C(a) = C(a - 1) + 1
      BY <1>3, <1>4, <2>2, <2>5
    <3> QED
      BY <1>1, <2>4, <3>1
  <2>6. CASE ~ess[a]
    <3>1. f[a] = f[a - 1] /\ C(a) = C(a - 1)
      BY <1>3, <1>4, <2>2, <2>6
    <3> QED
      BY <2>4, <3>1
  <2> QED
    BY <2>5, <2>6
<1>6. Cardinality({j \in DOMAIN order : ess[j]}) = C(n)
  BY <1>1 DEF C, EssUpTo
<1>7. sp = [k \in 1 .. C(n) |-> order[CHOOSE j \in 1 .. n : ess[j] /\ k = C(j)]]
  BY <1>1, <1>6 DEF Spells, C, EssUpTo
<1>8. n \in 0 .. n /\ C(n) \in Nat /\ C(n) <= Len(names)
  BY <1>1, <1>4, <1>5
<1>9. ASSUME NEW k \in 1 .. C(n)
      PROVE  sp[k] = names[k]
  <2> DEFINE T == {j \in 0 .. n : C(j) >= k}
  <2>1. PICK a \in T : \A b \in T : a <= b
    BY <1>1, <1>8, Least, n \in T, T \in SUBSET Nat
  <2>2. a # 0 /\ a \in 1 .. n
    BY <1>1, <1>4, <1>8
  <2>3. a - 1 \in 0 .. n /\ a - 1 \notin T
    BY <1>1, <2>1, <2>2
  <2>4. ess[a] /\ k = C(a)
    BY <1>4, <1>8, <2>2, <2>3
  <2>5. PICK j \in 1 .. n : j = CHOOSE i \in 1 .. n : ess[i] /\ k = C(i)
    BY <2>2, <2>4
  <2>6. ess[j] /\ k = C(j)
    BY <2>2, <2>4, <2>5
  <2>7. j - 1 \in 0 .. n /\ j \in 0 .. n
    BY <1>1
  <2>8. f[j - 1] = k /\ order[j] = names[f[j - 1]]
    <3>1. f[j] = f[j - 1] + 1 /\ order[j] = names[f[j - 1]] /\ f[j - 1] \in Nat
      BY <1>3, <2>6, <2>7
    <3>2. f[j] = k + 1
      BY <1>5, <2>6, <2>7
    <3> QED
      BY <3>1, <3>2
  <2> QED
    BY <1>7, <2>5, <2>8
<1>10. sp \in Seq(ToSet(names)) /\ Len(sp) = C(n)
  <2>a. \A k \in 1 .. C(n) : sp[k] \in ToSet(names)
    BY <1>1, <1>8, <1>9
  <2>1. sp \in [1 .. C(n) -> ToSet(names)]
    BY <1>7, <2>a
  <2> QED
    BY <1>8, <2>1
<1>11. IsPrefix(sp, names)
  <2>1. Len(sp) <= Len(names) /\ \A i \in 1 .. Len(sp) : sp[i] = names[i]
    BY <1>8, <1>9, <1>10
  <2> HIDE DEF sp
  <2> QED
    BY <1>1, <1>10, <2>1, PrefixIs
<1>12. sp # <<>>
  <2>1. PICK j \in 1 .. n : ess[j]
    BY <1>1
  <2>2. j - 1 \in 0 .. n /\ C(j) >= 1
    BY <1>1, <1>4, <2>1
  <2>3. \A i \in 0 .. n : i >= j => C(i) >= 1
    <3> DEFINE T == {i \in 0 .. n : i >= j /\ ~(C(i) >= 1)}
    <3> SUFFICES ASSUME T # {} PROVE FALSE
      OBVIOUS
    <3>1. PICK a \in T : \A b \in T : a <= b
      BY <1>1, Least, T \in SUBSET Nat
    <3>2. a # j /\ a \in 1 .. n /\ a - 1 >= j
      BY <1>1, <2>2, <3>1
    <3>3. a - 1 \in 0 .. n /\ a - 1 \notin T
      BY <1>1, <3>1, <3>2
    <3> QED
      BY <1>4, <3>2, <3>3, SMTT(20)
  <2>4. C(n) >= 1
    BY <1>8, <2>3
  <2> QED
    BY <1>8, <1>10, <2>4
<1>13. ASSUME sp # names,
              NEW last, last = CHOOSE j \in DOMAIN order : /\ ess[j]
                                                           /\ \A m \in j + 1 .. n : ~ess[m],
              NEW m \in last + 1 .. n
       PROVE  order[m] # names[Len(sp) + 1]
  <2>1. C(n) < Len(names)
    <3>1. ASSUME C(n) = Len(names)
          PROVE  sp = names
      <4>1. sp = [i \in 1 .. C(n) |-> sp[i]] /\ names = [i \in 1 .. C(n) |-> names[i]]
        BY <1>1, <1>7, <3>1
      <4> QED
        BY <1>9, <4>1
    <3> QED
      BY <1>1, <1>8, <1>13, <3>1
  <2>2. last \in 1 .. n /\ ess[last] /\ \A i \in last + 1 .. n : ~ess[i]
    <3> DEFINE E == {j \in 1 .. n : ess[j]}
    <3>1. E # {} /\ E \in SUBSET Nat /\ \A j \in E : j <= n
      BY <1>1
    <3>2. Max(E) \in E /\ \A j \in E : j <= Max(E)
      BY <1>1, <3>1, MaxIs
    <3>3. PICK x : x = Max(E)
      OBVIOUS
    <3>4. x \in E /\ \A j \in E : j <= x
      BY <3>2, <3>3
    <3>5. \A i \in x + 1 .. n : ~ess[i]
      <4> TAKE i \in x + 1 .. n
      <4>1. i \in 1 .. n /\ ~(i <= x)
        BY <1>1, <3>4
      <4> QED
        BY <3>4, <4>1
    <3>6. \E j \in DOMAIN order : ess[j] /\ \A i \in j + 1 .. n : ~ess[i]
      BY <1>1, <3>4, <3>5
    <3> HIDE DEF E
    <3> QED
      BY <1>1, <1>13, <3>6
  <2>3. m \in 1 .. n /\ ~ess[m]
    BY <1>1, <2>2
  <2>4. C(m - 1) = C(n)
    <3>1. {i \in 1 .. m - 1 : ess[i]} = {i \in 1 .. n : ess[i]}
      <4>1. \A i \in 1 .. n : ess[i] => i \in 1 .. m - 1
        <5> TAKE i \in 1 .. n
        <5>1. i > m - 1 => i \in last + 1 .. n
          BY <1>1, <1>13, <2>2
        <5> QED
          BY <1>1, <2>2, <2>3, <5>1
      <4>2. \A i \in 1 .. m - 1 : i \in 1 .. n
        BY <1>1, <2>3
      <4> QED
        BY <4>1, <4>2
    <3> QED
      BY <3>1 DEF C, EssUpTo
  <2>5. m - 1 \in 0 .. n
    BY <1>1, <2>3
  <2>6. f[m - 1] = C(n) + 1 /\ C(n) + 1 <= Len(names)
    BY <1>1, <1>5, <1>8, <2>1, <2>4, <2>5
  <2> QED
    BY <1>3, <1>10, <2>3, <2>6
<1> QED
  BY <1>11, <1>12, <1>13 DEF SpeltAsFar
-----------------------------------------------------------------------------
\* Once the file is read, the arrays hold what it says.
LEMMA CfgIs ==
    ASSUME ReadInv, pc \in Later
    PROVE  /\ Ids = 1 .. NrSets(file, "group") /\ NrSets(file, "group") \in Nat
           /\ DOMAIN GroupSet = 1 .. NrSets(file, "group_set")
           /\ Len(GroupSet) = NrSets(file, "group_set") /\ NrSets(file, "group_set") \in Nat
           /\ \A g \in Ids : \A item \in ItemsOf["group"] :
                 Group[g][item] = Written(file, "group", g, item)
           /\ \A k \in DOMAIN GroupSet : \A item \in ItemsOf["group_set"] :
                 GroupSet[k][item] = Written(file, "group_set", k, item)
<1>1. cfgs = Table(file, Len(file) + 1) /\ IsList(file)
  BY FilesAreComplete DEF ReadInv
<1>2. \A k, n : Row(file, k, n, Len(file) + 1) = [i \in ItemsOf[k] |-> Written(file, k, n, i)]
  BY <1>1, BeforeTheEnd DEF Row
<1>3. "group" \in DOMAIN ItemsOf /\ "group_set" \in DOMAIN ItemsOf
  BY DEF ItemsOf
<1>4. /\ Group = [n \in 1 .. NrSets(file, "group") |-> Row(file, "group", n, Len(file) + 1)]
      /\ GroupSet = [n \in 1 .. NrSets(file, "group_set") |-> Row(file, "group_set", n, Len(file) + 1)]
  BY <1>1, <1>3 DEF Group, GroupSet, Table
<1>5. NrSets(file, "group") \in Nat /\ NrSets(file, "group_set") \in Nat
  BY <1>1, RankIs
<1>6. Len(GroupSet) = NrSets(file, "group_set")
  BY <1>4, <1>5
<1>7. \A k, n : \A i \in ItemsOf[k] :
         Row(file, k, n, Len(file) + 1)[i] = Written(file, k, n, i)
  BY <1>2
<1> QED
  BY <1>4, <1>5, <1>6, <1>7 DEF Ids

LEMMA ItemsAre ==
    /\ "name" \in ItemsOf["group"] /\ "seg_in_order" \in ItemsOf["group"]
    /\ ToSet(Lists) \subseteq ItemsOf["group"]
    /\ SetLists \subseteq ItemsOf["group_set"]
    /\ \A l \in 1 .. 3 : Lists[l] \in ToSet(Lists)
    /\ \A x \in ToSet(Lists) : \E l \in 1 .. 3 : x = Lists[l]
    /\ \A l, m \in 1 .. 3 : Lists[l] = Lists[m] => l = m
    /\ Len(Lists) = 3 /\ Lists[3] = "seg_delim"
<1>1. Lists[1] = "start_flag" /\ Lists[2] = "end_flag" /\ Lists[3] = "seg_delim"
  BY DEF Lists
<1>2. Len(Lists) = 3 /\ DOMAIN Lists = 1 .. 3
  BY DEF Lists
<1>3. 1 .. 3 = {1, 2, 3}
  OBVIOUS
<1>4. ToSet(Lists) = {"start_flag", "end_flag", "seg_delim"}
  BY <1>1, <1>2, <1>3 DEF ToSet
<1>5. ItemsOf["group"] = {"name", "start_flag", "end_flag", "seg_delim", "seg_in_order"}
      /\ ItemsOf["group_set"] = {"group_order", "essential_group", "group_delim_reuse"}
  BY DEF ItemsOf
<1> QED
  BY <1>1, <1>2, <1>3, <1>4, <1>5 DEF SetLists

\* The groups left over, each once.
LEMMA Sortable ==
    ASSUME NEW n \in Nat, NEW c \in Nat
    PROVE  \A S \in SUBSET (1 .. n) : Cardinality(S) = c =>
              \E s \in [1 .. c -> S] : \A i, j \in DOMAIN s : i < j => s[i] < s[j]
<1> DEFINE Sorts(s) == \A i, j \in DOMAIN s : i < j => s[i] < s[j]
           P(m) == \A S \in SUBSET (1 .. n) : Cardinality(S) = m => \E s \in [1 .. m -> S] : Sorts(s)
           T == {m \in Nat : ~P(m)}
<1>1. T = {}
  <2> SUFFICES ASSUME T # {} PROVE FALSE
    OBVIOUS
  <2>1. PICK a \in T : \A b \in T : a <= b
    BY Least, T \in SUBSET Nat
  <2>2. PICK S \in SUBSET (1 .. n) : Cardinality(S) = a /\ ~ \E s \in [1 .. a -> S] : Sorts(s)
    OBVIOUS
  <2>3. IsFiniteSet(S) /\ \A m \in S : m \in 1 .. n
    <3>1. IsFiniteSet(1 .. n)
      BY FS_Interval
    <3> QED
      BY <3>1, FS_Subset
  <2>4. a # 0
    <3>1. ASSUME a = 0 PROVE FALSE
      <4>1. [x \in 1 .. 0 |-> 1] \in [1 .. 0 -> S] /\ Sorts([x \in 1 .. 0 |-> 1])
        OBVIOUS
      <4> QED
        BY <2>2, <3>1, <4>1
    <3> QED
      BY <3>1
  <2>5. S # {}
    BY <2>2, <2>4, FS_EmptySet
  <2>6. PICK h : h = Max(S)
    OBVIOUS
  <2>7. h \in S /\ \A m \in S : m <= h
    <3>1. S \in SUBSET Nat /\ \A m \in S : m <= n
      BY <2>3
    <3> QED
      BY <2>5, <2>6, <3>1, MaxIs
  <2>8. Cardinality(S \ {h}) = a - 1 /\ a - 1 \in Nat
    <3>1. Cardinality(S \ {h}) = IF h \in S THEN Cardinality(S) - 1 ELSE Cardinality(S)
      BY <2>3, FS_RemoveElement
    <3>2. a - 1 \in Nat
      BY <2>4
    <3> QED
      BY <2>2, <2>7, <3>1, <3>2
  <2>9. P(a - 1)
    BY <2>1, <2>8
  <2>10. PICK s \in [1 .. a - 1 -> S \ {h}] : Sorts(s)
    <3>1. S \ {h} \in SUBSET (1 .. n)
      OBVIOUS
    <3> HIDE DEF Sorts
    <3> QED
      BY <2>8, <2>9, <3>1
  <2> DEFINE t == [i \in 1 .. a |-> IF i = a THEN h ELSE s[i]]
  <2>11. a \in Nat \ {0} /\ \A i \in 1 .. a : i # a => i \in 1 .. a - 1
    BY <2>4
  <2>12. t \in [1 .. a -> S]
    BY <2>7, <2>11
  <2>13. ASSUME NEW i \in 1 .. a, NEW j \in 1 .. a, i < j
         PROVE  t[i] < t[j]
    <3>1. i # a /\ i \in 1 .. a - 1 /\ t[i] = s[i] /\ s[i] \in S \ {h}
      BY <2>11, <2>13
    <3>2. CASE j = a
      <4>0. s[i] \in S /\ s[i] # h
        BY <3>1
      <4>1. t[j] = h /\ s[i] <= h /\ s[i] # h /\ s[i] \in 1 .. n /\ h \in 1 .. n
        BY <2>3, <2>7, <3>2, <4>0
      <4> QED
        BY <3>1, <4>1
    <3>3. CASE j # a
      <4>1. j \in 1 .. a - 1 /\ t[j] = s[j]
        BY <2>11, <3>3
      <4> QED
        BY <2>10, <2>13, <3>1, <4>1
    <3> QED
      BY <3>2, <3>3
  <2>14. Sorts(t)
    BY <2>12, <2>13
  <2> QED
    BY <2>2, <2>12, <2>14
<1> QED
  BY <1>1

LEMMA LeftOverIs ==
    ASSUME ReadInv, pc \in Later
    PROVE  /\ LeftOver \in Seq(Unnamed) /\ Len(LeftOver) = Cardinality(Unnamed)
           /\ Len(LeftOver) \in Nat
           /\ \A i \in 1 .. Len(LeftOver) : LeftOver[i] \in Unnamed
           /\ \A g \in Unnamed : \E i \in 1 .. Len(LeftOver) : LeftOver[i] = g
<1> DEFINE n == NrSets(file, "group")
           c == Cardinality(Unnamed)
<1>1. n \in Nat /\ Unnamed \in SUBSET (1 .. n)
  BY CfgIs DEF Unnamed
<1>2. IsFiniteSet(Unnamed) /\ c \in Nat
  <2>1. IsFiniteSet(1 .. n)
    BY <1>1, FS_Interval
  <2> QED
    BY <1>1, <2>1, FS_Subset, FS_CardinalityType
<1>3. /\ LeftOver \in [1 .. c -> Unnamed]
      /\ \A i, j \in DOMAIN LeftOver : i < j => LeftOver[i] < LeftOver[j]
  <2>1. \E s \in [1 .. c -> Unnamed] : \A i, j \in DOMAIN s : i < j => s[i] < s[j]
    BY <1>1, <1>2, Sortable
  <2> QED
    BY <2>1 DEF LeftOver
<1>4. LeftOver \in Injection(1 .. c, Unnamed)
  <2>1. \A i, j \in 1 .. c : LeftOver[i] = LeftOver[j] => i = j
    <3> TAKE i, j \in 1 .. c
    <3>0. \A g \in Unnamed : g \in Nat
      BY <1>1
    <3>1. LeftOver[i] \in Nat /\ LeftOver[j] \in Nat
      BY <1>3, <3>0
    <3>2. i < j \/ j < i \/ i = j
      BY <1>2
    <3> QED
      BY <1>3, <3>1, <3>2
  <2> QED
    BY <1>3, <2>1 DEF Injection, IsInjective
<1>5. Cardinality(1 .. c) = c
  BY <1>2, FS_Interval
<1>6. LeftOver \in Surjection(1 .. c, Unnamed)
  BY <1>2, <1>4, <1>5, FS_Injection
<1>7. \A g \in Unnamed : \E i \in 1 .. c : LeftOver[i] = g
  BY <1>6 DEF Surjection
<1>8. LeftOver \in Seq(Unnamed) /\ Len(LeftOver) = c
  BY <1>2, <1>3
<1> QED
  BY <1>2, <1>3, <1>7, <1>8
-----------------------------------------------------------------------------
\* The sets that have been sorted: first those of the file, then the others.
Order(k) == GroupSet[k].group_order
Wanted(k) == Essential(GroupSet[k].group_order, GroupSet[k].essential_group)
Sorted(k) == GrpSet([j \in DOMAIN Order(k) |-> IdOf(Order(k)[j])], Wanted(k),
                    GroupSet[k].group_delim_reuse)
Single(n) == GrpSet(<<LeftOver[n]>>, <<TRUE>>, 0)
Known(k) == \A name \in Ordered(k) : IsGroup(name)
OrdersKnown == \A k \in DOMAIN GroupSet : Known(k)
SetsSorted == \A k \in DOMAIN GroupSet : k <= Len(grp_set) =>
                 /\ grp_set[k] = Sorted(k) /\ Known(k)
                 /\ \E j \in DOMAIN Order(k) : Wanted(k)[j]
AllSorted == /\ Len(grp_set) = Len(GroupSet) + Len(LeftOver)
             /\ \A n \in 1 .. Len(LeftOver) : grp_set[Len(GroupSet) + n] = Single(n)

Early == {"start", "arg", "model", "open", "count", "alloc", "defaults", "read", "sort"}
Parsing == {"list", "item", "rules", "finish", "built"}

SetsInv ==
    /\ pc \in Early \cup Parsing \cup {"sets", "out", "null", "crashed", "leaked"}
    /\ pc \in Early => grp_set = <<>>
    /\ pc \in Parsing \cup {"sets"} => IsList(grp_set) /\ SetsSorted
    /\ pc = "sets" => Len(grp_set) <= Len(GroupSet)
    /\ pc \in Parsing => OrdersKnown /\ AllSorted

LEMMA SeqIsList ==
    ASSUME NEW S, NEW s \in Seq(S)
    PROVE  IsList(s)
BY DEF IsList

LEMMA SortedKept ==
    ASSUME cfgs' = cfgs
    PROVE  /\ Group' = Group /\ GroupSet' = GroupSet /\ Ids' = Ids /\ LeftOver' = LeftOver
           /\ \A k : /\ Sorted(k)' = Sorted(k) /\ Wanted(k)' = Wanted(k)
                    /\ Order(k)' = Order(k) /\ Known(k)' = Known(k)
           /\ \A n : Single(n)' = Single(n)
<1>1. Group' = Group /\ GroupSet' = GroupSet /\ Ids' = Ids
  BY DEF Group, GroupSet, Ids
<1>2. \A k : Sorted(k)' = Sorted(k) /\ Wanted(k)' = Wanted(k) /\ Order(k)' = Order(k)
  BY DEF Sorted, Wanted, Order, GroupSet, GrpSet, IdOf, Group, Ids
<1>3. \A k : Known(k)' = Known(k)
  BY <1>1 DEF Known, IsGroup, Ordered
<1>4. LeftOver' = LeftOver
  BY DEF LeftOver, Unnamed, Flagged, Ordered, Names, Ids, Group, GroupSet
<1>5. \A n : Single(n)' = Single(n)
  BY <1>1, <1>4 DEF Single, GrpSet
<1> QED
  BY <1>1, <1>2, <1>3, <1>4, <1>5

LEMMA SetsKept ==
    ASSUME cfgs' = cfgs, grp_set' = grp_set
    PROVE  /\ OrdersKnown' = OrdersKnown /\ SetsSorted' = SetsSorted /\ AllSorted' = AllSorted
           /\ Len(GroupSet)' = Len(GroupSet)
BY SortedKept DEF OrdersKnown, SetsSorted, AllSorted

LEMMA SetsCount ==
    ASSUME ReadInv, SetsInv, CountGroups
    PROVE  SetsInv'
<1>1. grp_set = <<>> /\ pc = "sort" /\ grp_set' = grp_set /\ cfgs' = cfgs
  BY DEF CountGroups, SetsInv, Early, Keeps
<1>2. CASE pc' = "out"
  BY <1>2 DEF SetsInv, Early, Parsing
<1>3. CASE pc' = "sets"
  <2>1. IsList(<<>>) /\ Len(<<>>) = 0
    BY DEF IsList
  <2>2. Len(GroupSet) \in Nat /\ \A k \in DOMAIN GroupSet : ~(k <= 0)
    BY <1>1, CfgIs DEF Later
  <2>3. SetsSorted /\ Len(grp_set) <= Len(GroupSet)
    BY <1>1, <2>1, <2>2 DEF SetsSorted
  <2>4. SetsSorted' /\ (Len(grp_set) <= Len(GroupSet))'
    BY <1>1, <1>3, <2>3, SetsKept
  <2>5. IsList(grp_set)'
    BY <1>1, <2>1
  <2> QED
    BY <1>3, <2>4, <2>5 DEF SetsInv, Early, Parsing
<1> QED
  BY <1>2, <1>3 DEF CountGroups

\* The names of an order that are all a group's are all found.
LEMMA FoundIs ==
    ASSUME ReadInv, pc \in Later, NEW k \in DOMAIN GroupSet, Known(k)
    PROVE  Found(Order(k)) = Order(k)
<1>1. IsList(Order(k))
  <2>1. Order(k) = Written(file, "group_set", k, "group_order")
    BY CfgIs, ItemsAre DEF SetLists, Order
  <2>2. k \in 1 .. NrSets(file, "group_set") /\ file \in Files
    BY CfgIs DEF ReadInv
  <2> QED
    BY <2>1, <2>2, FilesAreComplete DEF SetLists
<1>2. \A j \in DOMAIN Order(k) : IsGroup(Order(k)[j])
  BY DEF Known, Ordered, Order, ToSet
<1>3. PICK o : o = Order(k)
  OBVIOUS
<1>4. DOMAIN o = 1 .. Len(o) /\ o = [j \in 1 .. Len(o) |-> o[j]] /\ \A j \in DOMAIN o : IsGroup(o[j])
  BY <1>1, <1>2, <1>3, ListIs DEF IsList
<1>5. Found(o) = [j \in DOMAIN o |-> o[j]]
  BY <1>4, Zenon DEF Found
<1> QED
  BY <1>3, <1>4, <1>5

\* A set that is sorted.
LEMMA SetsMore ==
    ASSUME ReadInv, SetsInv, pc = "sets", Len(grp_set) + 1 <= Len(GroupSet), cfgs' = cfgs,
           grp_set' = Append(grp_set, Sorted(Len(grp_set) + 1)), Known(Len(grp_set) + 1),
           \/ pc' = "out"
           \/ /\ pc' = "sets"
              /\ \E j \in DOMAIN Order(Len(grp_set) + 1) : Wanted(Len(grp_set) + 1)[j]
    PROVE  SetsInv'
<1> DEFINE k == Len(grp_set) + 1
<1>1. IsList(grp_set) /\ SetsSorted
  BY DEF SetsInv
<1>2. grp_set' = Append(grp_set, Sorted(k)) /\ Known(k)
  OBVIOUS
<1>3. Len(grp_set) \in Nat /\ \A i \in DOMAIN GroupSet : i \in Nat
  BY <1>1, ListIs, CfgIs DEF Later
<1>4. /\ IsList(grp_set') /\ Len(grp_set') = k /\ grp_set'[k] = Sorted(k)
      /\ \A i \in 1 .. Len(grp_set) : grp_set'[i] = grp_set[i]
  <2> DEFINE S == ToSet(grp_set) \cup {Sorted(k)}
  <2>1. grp_set \in Seq(S) /\ Sorted(k) \in S
    BY <1>1, ListIs
  <2> HIDE DEF S
  <2>2. PICK s : s = Sorted(k)
    OBVIOUS
  <2>3. PICK a : a = Append(grp_set, s)
    OBVIOUS
  <2>4. /\ a \in Seq(S) /\ Len(a) = Len(grp_set) + 1 /\ a[Len(grp_set) + 1] = s
        /\ \A i \in 1 .. Len(grp_set) : a[i] = grp_set[i]
    BY <2>1, <2>2, <2>3, AppendProperties
  <2>5. IsList(a)
    BY <2>4, SeqIsList
  <2>6. grp_set' = a
    BY <1>2, <2>2, <2>3
  <2> QED
    BY <2>2, <2>4, <2>5, <2>6
<1>5. CASE pc' = "out"
  BY <1>5 DEF SetsInv, Early, Parsing
<1>6. CASE pc' = "sets" /\ \E j \in DOMAIN Order(k) : Wanted(k)[j]
  <2>1. \A i : /\ Sorted(i)' = Sorted(i) /\ Wanted(i)' = Wanted(i) /\ Order(i)' = Order(i)
              /\ Known(i)' = Known(i)
    BY SortedKept
  <2>2. GroupSet' = GroupSet
    BY DEF GroupSet
  <2>3. \A i \in DOMAIN GroupSet : i <= k =>
           grp_set'[i] = Sorted(i) /\ Known(i) /\ \E j \in DOMAIN Order(i) : Wanted(i)[j]
    <3> SUFFICES ASSUME NEW i \in DOMAIN GroupSet, i <= k
                 PROVE  grp_set'[i] = Sorted(i) /\ Known(i) /\ \E j \in DOMAIN Order(i) : Wanted(i)[j]
      OBVIOUS
    <3>1. CASE i = k
      BY <1>2, <1>4, <1>6, <3>1
    <3>2. CASE i # k
      <4>1. i \in 1 .. Len(grp_set) /\ i <= Len(grp_set)
        BY <1>1, <1>3, <3>2, CfgIs DEF Later
      <4> QED
        BY <1>1, <1>4, <4>1 DEF SetsSorted
    <3> QED
      BY <3>1, <3>2
  <2>4. SetsSorted'
    BY <1>4, <2>1, <2>2, <2>3 DEF SetsSorted
  <2>5. (Len(grp_set) <= Len(GroupSet))'
    BY <1>4, <2>2
  <2> QED
    BY <1>4, <1>6, <2>4, <2>5 DEF SetsInv, Early, Parsing
<1> QED
  BY <1>5, <1>6

\* A set of names that are not all a group's is not kept.
LEMMA SetsSort ==
    ASSUME ReadInv, SetsInv, SortSet
    PROVE  SetsInv'
<1> DEFINE k == Len(grp_set) + 1
<1>1. /\ pc = "sets" /\ IsList(grp_set) /\ SetsSorted /\ Len(grp_set) <= Len(GroupSet)
      /\ k <= Len(GroupSet) /\ cfgs' = cfgs
  BY DEF SortSet, SetsInv, Parsing, Keeps
<1>2. k \in DOMAIN GroupSet /\ Len(grp_set) \in Nat /\ \A i \in DOMAIN GroupSet : i \in Nat
  BY <1>1, ListIs, CfgIs DEF Later
<1>3. CASE ~Known(k)
  <2>1. pc' \in {"out", "crashed"}
    BY <1>3 DEF SortSet, Known
  <2> QED
    BY <2>1 DEF SetsInv, Early, Parsing
<1>4. CASE Known(k)
  <2>1. Found(GroupSet[k].group_order) = GroupSet[k].group_order
    BY <1>1, <1>2, <1>4, FoundIs DEF Later, Order
  <2>2. /\ grp_set' = Append(grp_set,
               GrpSet([j \in DOMAIN GroupSet[k].group_order |-> IdOf(GroupSet[k].group_order[j])],
                      Essential(Found(GroupSet[k].group_order), GroupSet[k].essential_group),
                      GroupSet[k].group_delim_reuse))
        /\ pc' = IF \E j \in DOMAIN GroupSet[k].group_order :
                       Essential(Found(GroupSet[k].group_order), GroupSet[k].essential_group)[j]
                 THEN pc ELSE "out"
    BY <1>4, Zenon DEF SortSet, Known
  <2>3. grp_set' = Append(grp_set, Sorted(k))
    BY <2>1, <2>2, Zenon DEF Sorted, Wanted, Order
  <2>4. \/ pc' = "out"
        \/ pc' = "sets" /\ \E j \in DOMAIN Order(k) : Wanted(k)[j]
    <3>1. pc' = IF \E j \in DOMAIN Order(k) : Wanted(k)[j] THEN pc ELSE "out"
      BY <2>1, <2>2, Zenon DEF Wanted, Order
    <3> HIDE DEF k
    <3> QED
      BY <1>1, <3>1, Zenon
  <2>5. cfgs' = cfgs /\ k = Len(grp_set) + 1
    BY <1>1
  <2> HIDE DEF k
  <2> QED
    BY <1>1, <1>4, <2>3, <2>4, <2>5, SetsMore
<1> QED
  BY <1>3, <1>4

LEMMA SetsSingle ==
    ASSUME ReadInv, SetsInv, SortSingles
    PROVE  SetsInv'
<1>1. /\ pc = "sets" /\ IsList(grp_set) /\ SetsSorted
      /\ Len(grp_set) = Len(GroupSet) /\ cfgs' = cfgs
  BY DEF SortSingles, SetsInv, Parsing, Keeps
<1>2. CASE pc' = "out"
  BY <1>2 DEF SetsInv, Early, Parsing
<1>3. CASE pc' \in {"list", "rules"} /\ grp_set' = grp_set \o [n \in DOMAIN LeftOver |-> Single(n)]
  <2> DEFINE t == [n \in DOMAIN LeftOver |-> Single(n)]
             m == Len(LeftOver)
             S == ToSet(grp_set) \cup {Single(n) : n \in 1 .. m}
  <2>1. m \in Nat /\ DOMAIN LeftOver = 1 .. m /\ Len(grp_set) \in Nat
    BY <1>1, LeftOverIs, ListIs DEF Later
  <2>2. grp_set \in Seq(S)
    BY <1>1, ListIs
  <2>3. t \in Seq(S) /\ Len(t) = m /\ \A n \in 1 .. m : t[n] = Single(n)
    <3>1. t \in [1 .. m -> S]
      BY <2>1
    <3> QED
      BY <2>1, <3>1
  <2>4. grp_set' = grp_set \o t
    BY <1>3
  <2> HIDE DEF S, t, m
  <2>5. /\ IsList(grp_set') /\ Len(grp_set') = Len(grp_set) + m
        /\ \A i \in 1 .. Len(grp_set) + m :
              grp_set'[i] = IF i <= Len(grp_set) THEN grp_set[i] ELSE t[i - Len(grp_set)]
    BY <2>2, <2>3, <2>4, ConcatProperties, SeqIsList
  <2>6. /\ \A i \in 1 .. Len(grp_set) : grp_set'[i] = grp_set[i]
        /\ \A n \in 1 .. m : grp_set'[Len(grp_set) + n] = Single(n)
    BY <2>1, <2>3, <2>5
  <2>7. /\ \A i : /\ Sorted(i)' = Sorted(i) /\ Wanted(i)' = Wanted(i) /\ Order(i)' = Order(i)
                 /\ Known(i)' = Known(i)
        /\ GroupSet' = GroupSet /\ LeftOver' = LeftOver
    BY <1>1, SortedKept
  <2>8. \A n : Single(n)' = Single(n)
    BY <1>1, SortedKept
  <2>9. DOMAIN GroupSet = 1 .. Len(grp_set)
    BY <1>1, CfgIs DEF Later
  <2>10. SetsSorted'
    <3>1. \A i \in DOMAIN GroupSet :
             grp_set'[i] = Sorted(i) /\ Known(i) /\ \E j \in DOMAIN Order(i) : Wanted(i)[j]
      <4> TAKE i \in DOMAIN GroupSet
      <4>1. i \in 1 .. Len(grp_set) /\ i <= Len(grp_set)
        BY <2>1, <2>9
      <4> QED
        BY <1>1, <2>6, <4>1 DEF SetsSorted
    <3> QED
      BY <2>7, <3>1 DEF SetsSorted
  <2>11. AllSorted'
    BY <1>1, <2>5, <2>6, <2>7, <2>8 DEF AllSorted, m
  <2>12. OrdersKnown'
    <3>1. \A i \in DOMAIN GroupSet : i <= Len(grp_set)
      BY <2>1, <2>9
    <3> QED
      BY <1>1, <2>7, <3>1 DEF OrdersKnown, SetsSorted
  <2> QED
    BY <1>3, <2>5, <2>10, <2>11, <2>12 DEF SetsInv, Early, Parsing
<1>4. \/ pc' = "out"
      \/ pc' \in {"list", "rules"} /\ grp_set' = grp_set \o [n \in DOMAIN LeftOver |-> Single(n)]
  <2>1. \/ grp_set' = grp_set \o [n \in DOMAIN LeftOver |->
                                      GrpSet(<<LeftOver[n]>>, <<TRUE>>, 0)]
           /\ pc' \in {"list", "rules"}
        \/ pc' = "out"
    BY Zenon DEF SortSingles
  <2>2. \A n : GrpSet(<<LeftOver[n]>>, <<TRUE>>, 0) = Single(n)
    BY Zenon DEF Single
  <2>3. [n \in DOMAIN LeftOver |-> GrpSet(<<LeftOver[n]>>, <<TRUE>>, 0)]
           = [n \in DOMAIN LeftOver |-> Single(n)]
    BY <2>2, Zenon
  <2> QED
    BY <2>1, <2>3, Zenon
<1> QED
  BY <1>2, <1>3, <1>4

LEMMA SetsStep ==
    ASSUME ReadInv, SetsInv, [Next]_vars
    PROVE  SetsInv'
<1>1. CASE GetEngineSize \/ ArgInit \/ ModelInit
  <2>1. pc \in Early /\ pc' \in Early \cup {"null", "leaked", "crashed"} /\ grp_set' = grp_set
    BY <1>1 DEF GetEngineSize, ArgInit, ModelInit, Early, model
  <2> QED
    BY <2>1 DEF SetsInv, Early, Parsing
<1>2. CASE ReadNeConfig
  <2>1. grp_set' = grp_set
    BY <1>2 DEF ReadNeConfig, model
  <2>2. CASE OpenConfig \/ CountSet \/ AllocSets \/ SetDefaults
    <3>1. pc \in Early /\ pc' \in Early \cup {"out", "crashed"}
      BY <2>2 DEF OpenConfig, CountSet, AllocSets, SetDefaults, Advance, Early
    <3> QED
      BY <2>1, <3>1 DEF SetsInv, Early, Parsing
  <2>3. CASE ReadLine
    <3>1. pc \in Early /\ pc' \in Early \cup {"out", "crashed"}
      BY <2>3 DEF ReadLine, OpenSet, ReadItem, Advance, Early
    <3> QED
      BY <2>1, <3>1 DEF SetsInv, Early, Parsing
  <2> QED
    BY <1>2, <2>2, <2>3 DEF ReadNeConfig, ReadConfigStep
<1>3. CASE BeginList \/ SpecialItem \/ DelimItem \/ EndList \/ ParseRules
  <2>1. pc \in Parsing /\ pc' \in Parsing \cup {"out", "crashed"}
    BY <1>3 DEF BeginList, SpecialItem, DelimItem, EndList, ParseRules, InList, TreeIsFull, Parsing
  <2>2. cfgs' = cfgs /\ grp_set' = grp_set
    BY <1>3 DEF BeginList, SpecialItem, DelimItem, EndList, ParseRules, Keeps, model
  <2> QED
    BY <2>1, <2>2, SetsKept DEF SetsInv, Early, Parsing
<1>4. CASE Finish \/ Out \/ Destroy
  <2>1. /\ pc' \in {"built", "null"} /\ (pc' = "built" => pc \in Parsing)
        /\ cfgs' = cfgs /\ grp_set' = grp_set
    BY <1>4 DEF Finish, Out, Destroy, Parsing, config, model
  <2> QED
    BY <2>1, SetsKept DEF SetsInv, Early, Parsing
<1>5. CASE UNCHANGED vars
  <2>1. pc' = pc /\ cfgs' = cfgs /\ grp_set' = grp_set
    BY <1>5 DEF vars, config, model
  <2> QED
    BY <2>1, SetsKept DEF SetsInv
<1> QED
  BY <1>1, <1>2, <1>3, <1>4, <1>5, SetsCount, SetsSort, SetsSingle DEF Next
LEMMA SetsInit == Init => SetsInv
BY DEF Init, ConfigInit, SetsInv, Early, Parsing

\* The names that count are those of the file, and as few.
LEMMA NamesAre ==
    ASSUME ReadInv, pc \in Later
    PROVE  /\ Names = FileNames /\ Ids = DOMAIN FileNames
           /\ NamedGroups = UNION {Ordered(k) : k \in DOMAIN GroupSet}
<1>1. /\ Ids = 1 .. NrSets(file, "group")
      /\ DOMAIN GroupSet = 1 .. NrSets(file, "group_set")
      /\ \A g \in Ids : Group[g].name = Written(file, "group", g, "name")
      /\ \A k \in DOMAIN GroupSet :
            GroupSet[k].group_order = Written(file, "group_set", k, "group_order")
  BY CfgIs, ItemsAre DEF SetLists
<1>2. Names = FileNames /\ Ids = DOMAIN FileNames
  BY <1>1 DEF Names, FileNames
<1>3. NamedGroups = UNION {Ordered(k) : k \in DOMAIN GroupSet}
  BY <1>1 DEF NamedGroups, Ordered
<1> QED
  BY <1>2, <1>3

LEMMA UncountedAre ==
    ASSUME ReadInv, pc \in Later
    PROVE  Uncounted = Unnamed
<1>1. Names = FileNames /\ Ids = DOMAIN FileNames
      /\ NamedGroups = UNION {Ordered(k) : k \in DOMAIN GroupSet}
  BY NamesAre
<1>2. \A g \in Ids : g \in Flagged <=> \E name \in NamedGroups : CountsFor(FileNames, g, name)
  BY <1>1, Zenon DEF Flagged
<1>3. \A g : g \in Uncounted <=> g \in Ids /\ \A name \in NamedGroups : ~CountsFor(FileNames, g, name)
  BY <1>1, Zenon DEF Uncounted
<1>4. \A g : g \in Uncounted <=> g \in Ids \ Flagged
  BY <1>2, <1>3, Zenon
<1> QED
  BY <1>4, Zenon DEF Unnamed

\* Where names are apart, a name that is a group's counts for that group.
LEMMA SingleGroupsAre ==
    ASSUME ReadInv, pc \in Later, OrdersKnown, NamesApart
    PROVE  SingleGroups = Unnamed
<1>1. Names = FileNames /\ Ids = DOMAIN FileNames
      /\ NamedGroups = UNION {Ordered(k) : k \in DOMAIN GroupSet}
  BY NamesAre
<1>2. \A g, h \in Ids : FileNames[g] = FileNames[h] => g = h
  <2>1. file \in Files
    BY DEF ReadInv
  <2>2. \A g \in Ids : g \in 1 .. NrSets(file, "group")
                        /\ FileNames[g] = Written(file, "group", g, "name")
    BY <1>1 DEF FileNames
  <2> QED
    BY <2>1, <2>2, FilesAreComplete
<1>3. Ids \subseteq Nat
  BY CfgIs
<1>4. ASSUME NEW g \in Ids
      PROVE  FileNames[g] \notin NamedGroups <=>
                \A name \in NamedGroups : ~CountsFor(FileNames, g, name)
  <2>1. ASSUME FileNames[g] \in NamedGroups
        PROVE  CountsFor(FileNames, g, FileNames[g])
    <3>1. Begins(FileNames[g], FileNames[g])
      BY DEF Begins
    <3>2. ASSUME NEW h \in 1 .. g - 1
          PROVE  ~Begins(FileNames[h], FileNames[g])
      <4>1. h \in Ids /\ h # g
        BY <1>1, <1>3, CfgIs
      <4>2. Begins(FileNames[h], FileNames[g]) => FileNames[h] = FileNames[g]
        BY <1>1, <2>1, <4>1 DEF NamesApart
      <4> QED
        BY <1>2, <4>1, <4>2
    <3> QED
      BY <3>1, <3>2 DEF CountsFor
  <2>2. ASSUME NEW name \in NamedGroups, CountsFor(FileNames, g, name)
        PROVE  FileNames[g] \in NamedGroups
    BY <1>1, <2>2 DEF CountsFor, NamesApart
  <2> QED
    BY <2>1, <2>2
<1>5. \A g : g \in SingleGroups <=> g \in Uncounted
  <2>1. \A g : g \in SingleGroups <=> g \in Ids /\ FileNames[g] \notin NamedGroups
    BY <1>1, Zenon DEF SingleGroups
  <2>2. \A g : g \in Uncounted <=> g \in Ids /\ \A name \in NamedGroups : ~CountsFor(FileNames, g, name)
    BY <1>1, Zenon DEF Uncounted
  <2> QED
    BY <1>4, <2>1, <2>2, Zenon
<1>6. SingleGroups = Uncounted
  BY <1>5, Zenon
<1> QED
  BY <1>6, UncountedAre

LEMMA IdIs ==
    ASSUME ReadInv, pc \in Later, OrdersKnown, NEW k \in DOMAIN GroupSet, NEW name \in Ordered(k)
    PROVE  IdOf(name) \in Ids /\ Group[IdOf(name)].name = name
<1>1. \E g \in Ids : Group[g].name = name
  BY DEF OrdersKnown, Known, IsGroup
<1> QED
  BY <1>1 DEF IdOf

LEMMA BuiltSet ==
    ASSUME ReadInv, pc \in Later, OrdersKnown, NEW k \in 1 .. NrSets(file, "group_set"),
           grp_set[k] = Sorted(k), \E j \in DOMAIN Order(k) : Wanted(k)[j]
    PROVE  SetAsWritten(k)
<1> DEFINE order == Written(file, "group_set", k, "group_order")
           names == Written(file, "group_set", k, "essential_group")
           ess == grp_set[k].ess_grps
           spelled == [n \in 1 .. Cardinality({j \in DOMAIN order : ess[j]}) |->
                         order[CHOOSE j \in DOMAIN order :
                                 /\ ess[j]
                                 /\ n = Cardinality({m \in 1 .. j : ess[m]})]]
<1>1. k \in DOMAIN GroupSet /\ order = Order(k) /\ names = GroupSet[k].essential_group
  BY CfgIs, ItemsAre DEF SetLists, Order
<1>2. IsList(order) /\ IsList(names)
  <2>1. file \in Files /\ "group_order" \in SetLists /\ "essential_group" \in SetLists
    BY DEF ReadInv, SetLists
  <2> QED
    BY <2>1, FilesAreComplete
<1>3. /\ grp_set[k].grps = [j \in DOMAIN order |-> IdOf(order[j])]
      /\ ess = Wanted(k) /\ ess = Essential(order, names)
  <2>1. /\ grp_set[k].grps = [j \in DOMAIN Order(k) |-> IdOf(Order(k)[j])]
        /\ ess = Wanted(k)
    BY DEF Sorted, GrpSet
  <2>2. Wanted(k) = Essential(order, names)
    BY <1>1 DEF Wanted, Order
  <2> HIDE DEF order
  <2> QED
    BY <1>1, <2>1, <2>2
<1>4. [j \in DOMAIN grp_set[k].grps |-> Written(file, "group", grp_set[k].grps[j], "name")] = order
  <2>1. \A j \in DOMAIN order : order[j] \in Ordered(k)
    BY <1>1 DEF Ordered, Order, ToSet
  <2>2. \A j \in DOMAIN order : /\ IdOf(order[j]) \in Ids
                                /\ Written(file, "group", IdOf(order[j]), "name") = order[j]
    <3> TAKE j \in DOMAIN order
    <3>1. IdOf(order[j]) \in Ids /\ Group[IdOf(order[j])].name = order[j]
      BY <1>1, <2>1, IdIs
    <3> QED
      BY <3>1, CfgIs, ItemsAre
  <2>3. DOMAIN order = 1 .. Len(order) /\ order = [j \in 1 .. Len(order) |-> order[j]]
    BY <1>2, ListIs DEF IsList
  <2> HIDE DEF order
  <2> QED
    BY <1>3, <2>2, <2>3
<1>5. \E j \in DOMAIN order : ess[j]
  BY <1>1, <1>3
<1>6. spelled = Spells(order, ess)
  BY Zenon DEF Spells
<1> HIDE DEF order, names, ess
<1>7. /\ Spells(order, ess) # <<>> /\ IsPrefix(Spells(order, ess), names)
      /\ Spells(order, ess) # names =>
            LET last == CHOOSE j \in DOMAIN order :
                           /\ ess[j]
                           /\ \A m \in j + 1 .. Len(order) : ~ess[m]
            IN \A m \in last + 1 .. Len(order) :
                  order[m] # names[Len(Spells(order, ess)) + 1]
  <2>1. SpeltAsFar(order, names, ess)
    BY <1>2, <1>3, <1>5, EssentialSpells
  <2> QED
    BY <2>1, Zenon DEF SpeltAsFar
<1> HIDE DEF spelled
<1>8. /\ spelled # <<>> /\ IsPrefix(spelled, names)
      /\ spelled # names =>
            LET last == CHOOSE j \in DOMAIN order :
                           /\ ess[j]
                           /\ \A m \in j + 1 .. Len(order) : ~ess[m]
            IN \A m \in last + 1 .. Len(order) : order[m] # names[Len(spelled) + 1]
  BY <1>6, <1>7, Zenon
<1> QED
  BY <1>4, <1>8, Zenon DEF SetAsWritten, spelled, order, names, ess

\* The group sets of a built engine are those of the file, for every file and
\* pool: its sets in its order, then one for each group that no set names; each
\* has the file's groups, and its essential groups spell what the file asks for
\* (sort_cfg_group).
THEOREM GroupsAreAsWritten == Spec => []GroupsAsWritten
<1>1. ReadInv /\ SetsInv => GroupsAsWritten
  <2> SUFFICES ASSUME ReadInv, SetsInv, pc = "built", NamesApart
               PROVE  GroupsAsWritten
    BY DEF GroupsAsWritten
  <2> DEFINE nr == NrSets(file, "group_set")
             m == Len(LeftOver)
  <2>1. pc \in Later /\ pc \in Parsing
    BY DEF Later, Parsing
  <2>2. /\ OrdersKnown /\ IsList(grp_set) /\ SetsSorted
        /\ Len(grp_set) = nr + m /\ nr \in Nat /\ m \in Nat
        /\ DOMAIN GroupSet = 1 .. nr
        /\ DOMAIN grp_set = 1 .. Len(grp_set)
        /\ \A n \in 1 .. m : grp_set[nr + n] = Single(n)
    <3>1. OrdersKnown /\ IsList(grp_set) /\ SetsSorted /\ AllSorted
      BY <2>1 DEF SetsInv
    <3>2. DOMAIN grp_set = 1 .. Len(grp_set)
      BY <3>1, ListIs
    <3> QED
      BY <2>1, <3>1, <3>2, CfgIs, LeftOverIs DEF AllSorted
  <2> HIDE DEF nr, m
  <2>3. \A k \in 1 .. nr : /\ grp_set[k] = Sorted(k)
                           /\ \E j \in DOMAIN Order(k) : Wanted(k)[j]
    <3> TAKE k \in 1 .. nr
    <3>1. k <= Len(grp_set)
      BY <2>2
    <3> QED
      BY <2>2, <3>1 DEF SetsSorted
  <2>4. \A k \in 1 .. nr : SetAsWritten(k)
    BY <2>1, <2>2, <2>3, BuiltSet DEF nr
  <2>5. Len(grp_set) = nr + Cardinality(SingleGroups)
    <3>1. SingleGroups = Unnamed
      BY <2>1, <2>2, SingleGroupsAre
    <3>2. m = Cardinality(Unnamed)
      BY <2>1, LeftOverIs DEF m
    <3> QED
      BY <2>2, <3>1, <3>2
  <2>6. {grp_set[k].grps : k \in nr + 1 .. Len(grp_set)} = {<<g>> : g \in SingleGroups}
    <3>1. \A k \in nr + 1 .. Len(grp_set) : k - nr \in 1 .. m /\ nr + (k - nr) = k
      BY <2>2
    <3>2. \A k \in nr + 1 .. Len(grp_set) : grp_set[k].grps = <<LeftOver[k - nr]>>
      <4> TAKE k \in nr + 1 .. Len(grp_set)
      <4>1. PICK n \in 1 .. m : n = k - nr /\ nr + n = k
        BY <3>1
      <4>2. grp_set[k] = Single(n)
        BY <2>2, <4>1
      <4>3. Single(n).grps = <<LeftOver[n]>>
        BY DEF Single, GrpSet
      <4> QED
        BY <4>1, <4>2, <4>3
    <3>3. \A n \in 1 .. m : nr + n \in nr + 1 .. Len(grp_set) /\ (nr + n) - nr = n
      BY <2>2
    <3>4. /\ \A n \in 1 .. m : LeftOver[n] \in SingleGroups
          /\ \A g \in SingleGroups : \E n \in 1 .. m : LeftOver[n] = g
      BY <2>1, <2>2, LeftOverIs, SingleGroupsAre DEF m
    <3>5. \A k \in nr + 1 .. Len(grp_set) : \E g \in SingleGroups : grp_set[k].grps = <<g>>
      BY <3>1, <3>2, <3>4
    <3>6. \A g \in SingleGroups : \E k \in nr + 1 .. Len(grp_set) : grp_set[k].grps = <<g>>
      <4> TAKE g \in SingleGroups
      <4>1. PICK n \in 1 .. m : LeftOver[n] = g
        BY <3>4
      <4>2. grp_set[nr + n].grps = <<g>>
        BY <3>2, <3>3, <4>1
      <4> QED
        BY <3>3, <4>2
    <3> DEFINE K == nr + 1 .. Len(grp_set)
    <3>7. \A x : x \in {grp_set[k].grps : k \in K} <=> x \in {<<g>> : g \in SingleGroups}
      <4> HIDE DEF K
      <4> QED
        BY <3>5, <3>6, Zenon DEF K
    <3> QED
      BY <3>7, Zenon
  <2>7. ASSUME NEW k \in DOMAIN grp_set
        PROVE  grp_set[k].disorder_seg <=>
                  \E j \in DOMAIN grp_set[k].grps :
                     Written(file, "group", grp_set[k].grps[j], "seg_in_order") = 0
    <3>1. \E grps, e, r : grp_set[k] = GrpSet(grps, e, r) /\ \A j \in DOMAIN grps : grps[j] \in Ids
      <4>1. CASE k <= nr
        <5>1. k \in 1 .. nr /\ k \in DOMAIN GroupSet
          BY <2>2, <4>1
        <5>2. grp_set[k] = GrpSet([j \in DOMAIN Order(k) |-> IdOf(Order(k)[j])], Wanted(k),
                                  GroupSet[k].group_delim_reuse)
          BY <2>3, <5>1 DEF Sorted
        <5>3. \A j \in DOMAIN Order(k) : IdOf(Order(k)[j]) \in Ids
          BY <2>1, <2>2, <5>1, IdIs DEF Ordered, Order, ToSet
        <5> QED
          BY <5>2, <5>3
      <4>2. CASE ~(k <= nr)
        <5>1. k - nr \in 1 .. m /\ nr + (k - nr) = k
          BY <2>2, <4>2
        <5>2. grp_set[k] = GrpSet(<<LeftOver[k - nr]>>, <<TRUE>>, 0)
          BY <2>2, <5>1 DEF Single
        <5>3. LeftOver[k - nr] \in Ids
          BY <2>1, <5>1, LeftOverIs DEF m, Unnamed
        <5> QED
          BY <5>2, <5>3
      <4> QED
        BY <4>1, <4>2
    <3>2. PICK grps, e, r : grp_set[k] = GrpSet(grps, e, r) /\ \A j \in DOMAIN grps : grps[j] \in Ids
      BY <3>1
    <3>3. /\ grp_set[k].grps = grps
          /\ grp_set[k].disorder_seg = \E j \in DOMAIN grps : Group[grps[j]].seg_in_order = 0
      BY <3>2 DEF GrpSet
    <3>4. \A j \in DOMAIN grps :
             Group[grps[j]].seg_in_order = Written(file, "group", grps[j], "seg_in_order")
      BY <2>1, <3>2, CfgIs, ItemsAre
    <3> QED
      BY <3>3, <3>4
  <2> QED
    BY <2>4, <2>5, <2>6, <2>7 DEF GroupsAsWritten, nr
<1>2. Init => ReadInv /\ SetsInv
  BY ReadInit, SetsInit
<1>3. ReadInv /\ SetsInv /\ [Next]_vars => (ReadInv /\ SetsInv)'
  BY ReadStep, SetsStep
<1> QED
  BY <1>1, <1>2, <1>3, PTL DEF Spec

-----------------------------------------------------------------------------
\* Where the delimiters come from: each set, each of its groups, each list.
Sets == 1 .. Len(grp_set)
Grps(i) == 1 .. Len(grp_set[i].grps)
Str(i, j, l) == Group[GrpId(i, j)][Lists[l]]

\* Position a lies beyond the n-th item of a list; what the items before it say.
Reached(a, i, j, l, n) ==
    \/ i < a.i
    \/ i = a.i /\ \/ j < a.j
                  \/ j = a.j /\ \/ l < a.list
                                \/ l = a.list /\ n < a.n
Says(a, s, i, j, l) ==
    \E n \in 1 .. Len(Str(i, j, l)) : Reached(a, i, j, l, n) /\ Str(i, j, l)[n] = s
Marks(a, s, i, j) == {Lists[l] : l \in {k \in 1 .. 3 : Says(a, s, i, j, k)}}

Placed(a) ==
    /\ a.i \in Sets /\ a.j \in Grps(a.i) /\ a.list \in 1 .. 3
    /\ a.n \in 1 .. Len(Str(a.i, a.j, a.list)) + 1
    /\ a = [i |-> a.i, j |-> a.j, list |-> a.list, n |-> a.n]

\* What a pattern owns of the memory: itself, its string, its index and the
\* arrays that the index leads to.
Index(m, p) == m[m[p].grpset_index]
Owns(m, p, x) == \/ x = p \/ x = p + 1 \/ x = m[p].grpset_index
                 \/ \E i \in Ids : x = Index(m, p)[i]
WellMade(m, p, s) ==
    /\ p \in Nat /\ p \in DOMAIN m /\ p + 1 \in DOMAIN m
    /\ m[p].str = p + 1 /\ m[p + 1] = s
    /\ m[p].grpset_index \in Nat /\ m[p].grpset_index \in DOMAIN m
    /\ m[p].grpset_index > p + 1
    /\ Index(m, p) = [i \in Ids |-> Index(m, p)[i]]
    /\ \A i \in Ids : Index(m, p)[i] # NULL =>
          /\ Index(m, p)[i] \in Nat /\ Index(m, p)[i] \in DOMAIN m
          /\ Index(m, p)[i] > m[p].grpset_index
    /\ \A i, k \in Ids : Index(m, p)[i] = Index(m, p)[k] /\ Index(m, p)[i] # NULL => i = k
Typed(a, m, p, s) ==
    \A i \in Sets :
       /\ Index(m, p)[i] = NULL => \A j \in Grps(i) : Marks(a, s, i, j) = {}
       /\ Index(m, p)[i] # NULL => m[Index(m, p)[i]] = [j \in Grps(i) |-> Marks(a, s, i, j)]

TreeHas(a, t) ==
    /\ IsFiniteSet(DOMAIN t) /\ Hat \notin DOMAIN t /\ Dollar \notin DOMAIN t
    /\ \A s \in DOMAIN t : \E i \in Sets : \E j \in Grps(i) : \E l \in 1 .. 3 : Says(a, s, i, j, l)
    /\ \A i \in Sets : \A j \in Grps(i) : \A l \in 1 .. 3 : \A n \in 1 .. Len(Str(i, j, l)) :
          Reached(a, i, j, l, n) => Str(i, j, l)[n] \in DOMAIN t \cup {Hat, Dollar}
Stored(a, m, t) ==
    /\ \A s \in DOMAIN t : WellMade(m, t[s], s) /\ Typed(a, m, t[s], s)
    /\ \A s, u \in DOMAIN t : \A x \in Nat : Owns(m, t[s], x) /\ Owns(m, t[u], x) => s = u
Below(m, t, hi) == \A s \in DOMAIN t : \A x \in Nat : Owns(m, t[s], x) => x < hi
Segs(a, t, seg) ==
    /\ DOMAIN seg = Ids /\ seg = [g \in Ids |-> seg[g]]
    /\ \A g \in Ids :
          \/ /\ seg[g] = NULL
             /\ \A i \in Sets : \A j \in Grps(i) :
                   GrpId(i, j) = g => \A n \in 1 .. Len(Str(i, j, 3)) : ~Reached(a, i, j, 3, n)
          \/ /\ Len(Group[g].seg_delim) > 0 /\ Group[g].seg_delim[1] \in DOMAIN t
             /\ seg[g] = t[Group[g].seg_delim[1]]
Spare(m, t, sp, p) ==
    /\ p \in Nat /\ p + 1 < sp.cur /\ p \in DOMAIN m /\ m[p] = [str |-> p + 1, grpset_index |-> NULL]
    /\ \A s \in DOMAIN t : ~Owns(m, t[s], p) /\ ~Owns(m, t[s], p + 1)
    /\ sp.last # p
    /\ sp.last = p + 1 => Below(m, t, p)

Entered(t) == {<<s, t[s]>> : s \in DOMAIN t}
Start == [i |-> 1, j |-> 1, list |-> 1, n |-> 1]

SpoolInv == spool \in [cur : Nat, last : Int, size : Nat] /\ pool_size \in Nat

Filled == /\ TreeHas(at, tree) /\ Stored(at, mem, tree) /\ Below(mem, tree, spool.cur)
          /\ Segs(at, tree, seg_pat) /\ delim_ac = Entered(tree)
AtEnd == at = [Start EXCEPT !.i = Len(grp_set) + 1]
Blank == tree = <<>> /\ delim_ac = {} /\ at = Start

DelimInv ==
    /\ SpoolInv /\ FewSets
    /\ pc \in Early \cup {"sets"} => Blank
    /\ pc = "sets" => seg_pat = [g \in Ids |-> NULL]
    /\ pc \in Parsing => Filled
    /\ pc \in {"list", "item"} => Placed(at)
    /\ pc = "list" => at.n = 1
    /\ pc = "item" => Spare(mem, tree, spool, pat)
    /\ pc \in {"rules", "finish", "built"} => AtEnd

\* The group sets that the delimiters are gone through by: their groups are
\* groups of the file, and where names are apart every group of the file is in one.
Shaped ==
    /\ Len(grp_set) \in Nat /\ DOMAIN grp_set = Sets /\ Ids \subseteq Nat
    /\ \A i \in Sets : /\ i \in Ids /\ Len(grp_set[i].grps) \in Nat \ {0}
                       /\ DOMAIN grp_set[i].grps = Grps(i)
                       /\ \A j \in Grps(i) : GrpId(i, j) \in Ids
    /\ \A g \in Ids : \A l \in 1 .. 3 : IsList(Group[g][Lists[l]])
    /\ NamesApart => \A g \in Ids : \E i \in Sets : \E j \in Grps(i) : GrpId(i, j) = g

LEMMA ShapeIs ==
    ASSUME ReadInv, SetsInv, FewSets, pc \in Parsing
    PROVE  Shaped
<1> DEFINE nr == NrSets(file, "group_set")
           m == Len(LeftOver)
<1>1. pc \in Later /\ file \in Files
  BY DEF Later, Parsing, ReadInv
<1>2. /\ OrdersKnown /\ IsList(grp_set) /\ SetsSorted
      /\ Len(grp_set) = nr + m /\ nr \in Nat /\ m \in Nat
      /\ DOMAIN GroupSet = 1 .. nr
      /\ DOMAIN grp_set = 1 .. Len(grp_set)
      /\ \A n \in 1 .. m : grp_set[nr + n] = Single(n)
  <2>1. OrdersKnown /\ IsList(grp_set) /\ SetsSorted /\ AllSorted
    BY DEF SetsInv
  <2>2. DOMAIN grp_set = 1 .. Len(grp_set)
    BY <2>1, ListIs
  <2> QED
    BY <1>1, <2>1, <2>2, CfgIs, LeftOverIs DEF AllSorted
<1> HIDE DEF nr, m
<1>3. Ids = 1 .. NrSets(file, "group") /\ NrSets(file, "group") \in Nat
  BY <1>1, CfgIs
<1>4. \A i \in Sets : i \in Ids
  <2>1. Len(grp_set) <= NrSets(file, "group")
    <3>1. m = Cardinality(Uncounted)
      BY <1>1, LeftOverIs, UncountedAre DEF m
    <3> QED
      BY <1>2, <3>1 DEF FewSets, nr
  <2> QED
    BY <1>2, <1>3, <2>1 DEF Sets
<1>5. ASSUME NEW k \in 1 .. nr
      PROVE  /\ grp_set[k].grps = [j \in DOMAIN Order(k) |-> IdOf(Order(k)[j])]
             /\ IsList(Order(k)) /\ Len(Order(k)) \in Nat \ {0}
             /\ DOMAIN Order(k) = 1 .. Len(Order(k))
             /\ \A j \in DOMAIN Order(k) : IdOf(Order(k)[j]) \in Ids
  <2>1. k \in DOMAIN GroupSet /\ k <= Len(grp_set)
    BY <1>2
  <2>2. grp_set[k] = Sorted(k) /\ \E j \in DOMAIN Order(k) : Wanted(k)[j]
    BY <1>2, <2>1 DEF SetsSorted
  <2>3. IsList(Order(k))
    <3>1. Order(k) = Written(file, "group_set", k, "group_order")
      BY <1>1, <2>1, CfgIs, ItemsAre DEF SetLists, Order
    <3> QED
      BY <1>1, <3>1, FilesAreComplete DEF SetLists, nr
  <2>4. DOMAIN Order(k) = 1 .. Len(Order(k)) /\ Len(Order(k)) \in Nat
    BY <2>3, ListIs
  <2>5. Len(Order(k)) # 0
    BY <2>2, <2>4
  <2>6. \A j \in DOMAIN Order(k) : IdOf(Order(k)[j]) \in Ids
    BY <1>1, <1>2, <2>1, IdIs DEF Ordered, Order, ToSet
  <2>7. grp_set[k].grps = [j \in DOMAIN Order(k) |-> IdOf(Order(k)[j])]
    BY <2>2 DEF Sorted, GrpSet
  <2> QED
    BY <2>3, <2>4, <2>5, <2>6, <2>7
<1>6. \A n \in 1 .. m : grp_set[nr + n].grps = <<LeftOver[n]>> /\ LeftOver[n] \in Ids
  <2> TAKE n \in 1 .. m
  <2>1. grp_set[nr + n] = Single(n)
    BY <1>2
  <2>2. LeftOver[n] \in Ids
    BY <1>1, LeftOverIs DEF m, Unnamed
  <2>3. Single(n).grps = <<LeftOver[n]>>
    BY DEF Single, GrpSet
  <2> QED
    BY <2>1, <2>2, <2>3
<1>7. \A i \in Sets : /\ Len(grp_set[i].grps) \in Nat \ {0}
                      /\ DOMAIN grp_set[i].grps = Grps(i)
                      /\ \A j \in Grps(i) : GrpId(i, j) \in Ids
  <2> TAKE i \in Sets
  <2>1. CASE i <= nr
    <3>1. i \in 1 .. nr
      BY <1>2, <2>1 DEF Sets
    <3>2. PICK o : o = Order(i)
      OBVIOUS
    <3>3. PICK s : s = grp_set[i].grps
      OBVIOUS
    <3>4. /\ s = [j \in DOMAIN o |-> IdOf(o[j])] /\ DOMAIN o = 1 .. Len(o) /\ Len(o) \in Nat \ {0}
          /\ \A j \in DOMAIN o : IdOf(o[j]) \in Ids
      BY <1>5, <3>1, <3>2, <3>3
    <3>5. DOMAIN s = 1 .. Len(o) /\ Len(s) = Len(o) /\ \A j \in 1 .. Len(o) : s[j] \in Ids
      BY <3>4
    <3> QED
      BY <3>3, <3>4, <3>5 DEF Grps, GrpId
  <2>2. CASE ~(i <= nr)
    <3>1. i - nr \in 1 .. m /\ nr + (i - nr) = i
      BY <1>2, <2>2 DEF Sets
    <3>2. grp_set[i].grps = <<LeftOver[i - nr]>> /\ LeftOver[i - nr] \in Ids
      BY <1>6, <3>1
    <3> QED
      BY <3>2 DEF Grps, GrpId
  <2> QED
    BY <2>1, <2>2
<1>8. \A g \in Ids : \A l \in 1 .. 3 : IsList(Group[g][Lists[l]])
  <2> TAKE g \in Ids
  <2> TAKE l \in 1 .. 3
  <2>1. Lists[l] \in ToSet(Lists) /\ Lists[l] \in ItemsOf["group"]
    BY ItemsAre
  <2>2. Group[g][Lists[l]] = Written(file, "group", g, Lists[l])
    BY <1>1, <2>1, CfgIs
  <2> QED
    BY <1>1, <1>3, <2>1, <2>2, FilesAreComplete
<1>9. ASSUME NamesApart, NEW g \in Ids
      PROVE  \E i \in Sets : \E j \in Grps(i) : GrpId(i, j) = g
  <2>1. CASE g \in Flagged
    <3>0. PICK k \in DOMAIN GroupSet : \E name \in Ordered(k) : CountsFor(Names, g, name)
      BY <2>1 DEF Flagged
    <3>1. Group[g].name \in Ordered(k)
      <4>1. PICK name \in Ordered(k) : Begins(Names[g], name)
        BY <3>0 DEF CountsFor
      <4>2. Names = FileNames /\ Ids = DOMAIN FileNames /\ name \in NamedGroups
        BY <1>1, NamesAre
      <4>3. Names[g] = name
        BY <1>9, <4>1, <4>2 DEF NamesApart
      <4> QED
        BY <4>1, <4>3 DEF Names
    <3>2. PICK j \in DOMAIN Order(k) : Order(k)[j] = Group[g].name
      BY <3>1 DEF Ordered, Order, ToSet
    <3>3. PICK h : h = IdOf(Group[g].name)
      OBVIOUS
    <3>4. h \in Ids /\ Group[h].name = Group[g].name
      BY <1>1, <1>2, <3>1, <3>3, IdIs
    <3>5. h = g
      <4>1. Written(file, "group", h, "name") = Written(file, "group", g, "name")
        BY <1>1, <3>4, CfgIs, ItemsAre
      <4> QED
        BY <1>1, <1>3, <3>4, <4>1, FilesAreComplete
    <3>6. k \in 1 .. nr /\ k \in Sets
      BY <1>2 DEF Sets
    <3>7. GrpId(k, j) = g
      BY <1>5, <3>2, <3>3, <3>5, <3>6, ZenonT(30) DEF GrpId
    <3>8. j \in DOMAIN grp_set[k].grps
      BY <1>5, <3>6
    <3> QED
      BY <1>7, <3>6, <3>7, <3>8
  <2>2. CASE g \notin Flagged
    <3>1. PICK n \in 1 .. m : LeftOver[n] = g
      BY <1>1, <2>2, LeftOverIs DEF m, Unnamed
    <3>2. grp_set[nr + n].grps = <<g>> /\ nr + n \in Sets
      BY <1>2, <1>6, <3>1 DEF Sets
    <3>3. 1 \in Grps(nr + n) /\ GrpId(nr + n, 1) = g
      BY <3>2 DEF Grps, GrpId
    <3> QED
      BY <3>2, <3>3
  <2> QED
    BY <2>1, <2>2
<1>10. Len(grp_set) \in Nat /\ DOMAIN grp_set = Sets /\ Ids \subseteq Nat
  BY <1>2, <1>3 DEF Sets
<1> QED
  BY <1>4, <1>7, <1>8, <1>9, <1>10, Zenon DEF Shaped

\* Nothing that the positions and the memory are read with changes but in the
\* sorting of the groups.
LEMMA DelimsKept ==
    ASSUME cfgs' = cfgs, grp_set' = grp_set
    PROVE  /\ Sets' = Sets /\ Ids' = Ids /\ \A i : Grps(i)' = Grps(i)
           /\ \A a : Placed(a)' = Placed(a)
           /\ \A a, t : TreeHas(a, t)' = TreeHas(a, t)
           /\ \A a, m, t : Stored(a, m, t)' = Stored(a, m, t)
           /\ \A m, t, n : Below(m, t, n)' = Below(m, t, n)
           /\ \A a, t, s : Segs(a, t, s)' = Segs(a, t, s)
           /\ \A m, t, s, p : Spare(m, t, s, p)' = Spare(m, t, s, p)
<1>1. Group' = Group /\ Ids' = Ids
  BY DEF Group, Ids
<1>2. Sets' = Sets /\ \A i : Grps(i)' = Grps(i) /\ \A j : GrpId(i, j)' = GrpId(i, j)
  BY DEF Sets, Grps, GrpId
<1>3. \A i, j, l : Str(i, j, l)' = Str(i, j, l)
  BY <1>1, <1>2 DEF Str
<1>4. \A a, s, i, j, l : Says(a, s, i, j, l)' = Says(a, s, i, j, l)
  BY <1>3 DEF Says, Reached
<1>5. \A a, s, i, j : Marks(a, s, i, j)' = Marks(a, s, i, j)
  BY <1>4 DEF Marks
<1>6. \A a : Placed(a)' = Placed(a)
  BY <1>2, <1>3 DEF Placed
<1>7. \A a, t : TreeHas(a, t)' = TreeHas(a, t)
  BY <1>2, <1>3, <1>4 DEF TreeHas, Reached
<1>8. \A m, p : /\ \A x : Owns(m, p, x)' = Owns(m, p, x)
                /\ \A s : WellMade(m, p, s)' = WellMade(m, p, s)
                /\ \A a, s : Typed(a, m, p, s)' = Typed(a, m, p, s)
  BY <1>1, <1>2, <1>5 DEF Owns, WellMade, Typed, Index
<1>9. \A a, m, t : Stored(a, m, t)' = Stored(a, m, t)
  BY <1>8 DEF Stored
<1>10. \A m, t, n : Below(m, t, n)' = Below(m, t, n)
  BY <1>8 DEF Below
<1>11. \A a, t, s : Segs(a, t, s)' = Segs(a, t, s)
  BY <1>1, <1>2, <1>3 DEF Segs, Reached
<1>12. \A m, t, s, p : Spare(m, t, s, p)' = Spare(m, t, s, p)
  BY <1>8, <1>10 DEF Spare
<1> QED
  BY <1>1, <1>2, <1>6, <1>7, <1>9, <1>10, <1>11, <1>12

\* One item further, one list further.
LEMMA NextReached ==
    ASSUME Shaped, NEW a, Placed(a), NEW b, b = [a EXCEPT !.n = @ + 1]
    PROVE  /\ b.i = a.i /\ b.j = a.j /\ b.list = a.list /\ b.n = a.n + 1
           /\ b = [i |-> b.i, j |-> b.j, list |-> b.list, n |-> b.n]
           /\ \A i \in Sets : \A j \in Grps(i) : \A l \in 1 .. 3 : \A n \in Nat :
                 Reached(b, i, j, l, n) <=>
                    \/ Reached(a, i, j, l, n)
                    \/ i = a.i /\ j = a.j /\ l = a.list /\ n = a.n
<1>1. /\ a.i \in Nat /\ a.j \in Nat /\ a.list \in Nat /\ a.n \in Nat
  <2>1. a.i \in Sets /\ a.j \in Grps(a.i) /\ a.list \in 1 .. 3
        /\ a.n \in 1 .. Len(Str(a.i, a.j, a.list)) + 1
    BY Zenon DEF Placed
  <2>2. Len(Str(a.i, a.j, a.list)) \in Nat /\ Len(grp_set[a.i].grps) \in Nat
    BY <2>1, ListIs DEF Shaped, Str
  <2>3. Len(grp_set) \in Nat
    BY DEF Shaped
  <2>4. a.i \in Nat /\ a.j \in Nat
    BY <2>1, <2>2, <2>3 DEF Sets, Grps
  <2>5. a.n \in Nat
    BY <2>1, <2>2
  <2> QED
    BY <2>1, <2>4, <2>5
<1>0. a = [i |-> a.i, j |-> a.j, list |-> a.list, n |-> a.n]
  BY Zenon DEF Placed
<1>2. b = [i |-> a.i, j |-> a.j, list |-> a.list, n |-> a.n + 1]
  BY <1>0
<1>3. b.i = a.i /\ b.j = a.j /\ b.list = a.list /\ b.n = a.n + 1
  BY <1>2
<1>4. \A n \in Nat : n < a.n + 1 <=> n < a.n \/ n = a.n
  BY <1>1
<1> QED
  BY <1>2, <1>3, <1>4, ZenonT(30) DEF Reached

\* The same items lie before both positions.
SamePlace(a, b) ==
    \A i \in Sets : \A j \in Grps(i) : \A l \in 1 .. 3 : \A n \in 1 .. Len(Str(i, j, l)) :
       Reached(b, i, j, l, n) <=> Reached(a, i, j, l, n)

LEMMA ListReached ==
    ASSUME Shaped, NEW a, Placed(a), a.n > Len(Str(a.i, a.j, a.list)), NEW b,
           \/ a.list < 3 /\ b = [a EXCEPT !.list = @ + 1, !.n = 1]
           \/ a.list = 3 /\ a.j < Len(grp_set[a.i].grps)
              /\ b = [a EXCEPT !.j = @ + 1, !.list = 1, !.n = 1]
           \/ a.list = 3 /\ a.j = Len(grp_set[a.i].grps)
              /\ b = [i |-> a.i + 1, j |-> 1, list |-> 1, n |-> 1]
    PROVE  SamePlace(a, b)
<1>1. /\ a.i \in Nat /\ a.j \in Nat /\ a.list \in 1 .. 3 /\ a.n \in Nat
  <2>1. a.i \in Sets /\ a.j \in Grps(a.i) /\ a.list \in 1 .. 3
        /\ a.n \in 1 .. Len(Str(a.i, a.j, a.list)) + 1
    BY Zenon DEF Placed
  <2>2. Len(Str(a.i, a.j, a.list)) \in Nat /\ Len(grp_set[a.i].grps) \in Nat
    BY <2>1, ListIs DEF Shaped, Str
  <2>3. Len(grp_set) \in Nat
    BY DEF Shaped
  <2>4. a.i \in Nat /\ a.j \in Nat
    BY <2>1, <2>2, <2>3 DEF Sets, Grps
  <2>5. a.n \in Nat
    BY <2>1, <2>2
  <2> QED
    BY <2>1, <2>4, <2>5
<1>0. a = [i |-> a.i, j |-> a.j, list |-> a.list, n |-> a.n]
  BY Zenon DEF Placed
<1> SUFFICES ASSUME NEW i \in Sets, NEW j \in Grps(i), NEW l \in 1 .. 3,
                    NEW n \in 1 .. Len(Str(i, j, l))
             PROVE  Reached(b, i, j, l, n) <=> Reached(a, i, j, l, n)
  BY Zenon DEF SamePlace
<1>2. i \in Nat /\ j \in Nat /\ n \in Nat /\ n >= 1 /\ j <= Len(grp_set[i].grps)
      /\ Len(grp_set[i].grps) \in Nat
  <2>1. Len(Str(i, j, l)) \in Nat
    BY ListIs DEF Shaped, Str
  <2>2. Len(grp_set) \in Nat /\ Len(grp_set[i].grps) \in Nat
    BY DEF Shaped
  <2>3. i \in Nat
    BY <2>2 DEF Sets
  <2>4. j \in Nat /\ j <= Len(grp_set[i].grps)
    BY <2>2 DEF Grps
  <2>5. n \in Nat /\ n >= 1
    BY <2>1
  <2> QED
    BY <2>2, <2>3, <2>4, <2>5
<1>3. i = a.i /\ j = a.j /\ l = a.list => n < a.n
  BY <1>1, <1>2
<1>4. CASE a.list < 3 /\ b = [a EXCEPT !.list = @ + 1, !.n = 1]
  <2>1. b.i = a.i /\ b.j = a.j /\ b.list = a.list + 1 /\ b.n = 1
    BY <1>0, <1>4
  <2>2. (l < a.list + 1 \/ (l = a.list + 1 /\ n < 1)) <=> (l < a.list \/ l = a.list)
    BY <1>1, <1>2
  <2> QED
    BY <1>3, <2>1, <2>2, Zenon DEF Reached
<1>5. CASE a.list = 3 /\ a.j < Len(grp_set[a.i].grps)
           /\ b = [a EXCEPT !.j = @ + 1, !.list = 1, !.n = 1]
  <2>1. b.i = a.i /\ b.j = a.j + 1 /\ b.list = 1 /\ b.n = 1
    BY <1>0, <1>5
  <2>2. /\ (j < a.j + 1 <=> j < a.j \/ j = a.j)
        /\ ~(l < 1 \/ (l = 1 /\ n < 1))
        /\ (l < a.list \/ l = a.list)
    BY <1>1, <1>2, <1>5, SMTT(20)
  <2> QED
    BY <1>3, <2>1, <2>2, Zenon DEF Reached
<1>6. CASE a.list = 3 /\ a.j = Len(grp_set[a.i].grps)
           /\ b = [i |-> a.i + 1, j |-> 1, list |-> 1, n |-> 1]
  <2>1. b.i = a.i + 1 /\ b.j = 1 /\ b.list = 1 /\ b.n = 1
    BY <1>6
  <2>2. /\ (i < a.i + 1 <=> i < a.i \/ i = a.i)
        /\ ~(j < 1 \/ (j = 1 /\ (l < 1 \/ (l = 1 /\ n < 1))))
        /\ (i = a.i => j < a.j \/ j = a.j)
        /\ (l < a.list \/ l = a.list)
    <3>1. j >= 1 /\ l >= 1
      BY <1>2 DEF Grps
    <3> QED
      BY <1>1, <1>2, <1>6, <3>1, SMTT(20)
  <2> QED
    BY <1>3, <2>1, <2>2, Zenon DEF Reached
<1> QED
  BY <1>4, <1>5, <1>6

\* What one item more says.
Adds(a, b, s) ==
    /\ \A i \in Sets : \A j \in Grps(i) : \A l \in 1 .. 3 : \A u :
          Says(b, u, i, j, l) <=> \/ Says(a, u, i, j, l)
                                  \/ u = s /\ i = a.i /\ j = a.j /\ l = a.list
    /\ \A i \in Sets : \A j \in Grps(i) : \A u :
          /\ ~(u = s /\ i = a.i /\ j = a.j) => Marks(b, u, i, j) = Marks(a, u, i, j)
          /\ u = s /\ i = a.i /\ j = a.j =>
                Marks(b, u, i, j) = Marks(a, u, i, j) \cup {Lists[a.list]}

LEMMA NextSays ==
    ASSUME Shaped, NEW a, Placed(a), NEW b, b = [a EXCEPT !.n = @ + 1],
           a.n <= Len(Str(a.i, a.j, a.list)), NEW s, s = Str(a.i, a.j, a.list)[a.n]
    PROVE  Adds(a, b, s)
<1>1. /\ a.i \in Sets /\ a.j \in Grps(a.i) /\ a.list \in 1 .. 3
      /\ a.n \in 1 .. Len(Str(a.i, a.j, a.list))
  <2>1. /\ a.i \in Sets /\ a.j \in Grps(a.i) /\ a.list \in 1 .. 3
        /\ a.n \in 1 .. Len(Str(a.i, a.j, a.list)) + 1
    BY Zenon DEF Placed
  <2>2. Len(Str(a.i, a.j, a.list)) \in Nat
    BY <2>1, ListIs DEF Shaped, Str
  <2> QED
    BY <2>1, <2>2
<1>2. ASSUME NEW i \in Sets, NEW j \in Grps(i), NEW l \in 1 .. 3, NEW u
      PROVE  Says(b, u, i, j, l) <=> \/ Says(a, u, i, j, l)
                                     \/ u = s /\ i = a.i /\ j = a.j /\ l = a.list
  <2>1. \A n \in 1 .. Len(Str(i, j, l)) :
           Reached(b, i, j, l, n) <=> \/ Reached(a, i, j, l, n)
                                      \/ i = a.i /\ j = a.j /\ l = a.list /\ n = a.n
    <3>1. \A n \in 1 .. Len(Str(i, j, l)) : n \in Nat
      BY ListIs DEF Shaped, Str
    <3>2. \A h \in Sets : \A g \in Grps(h) : \A k \in 1 .. 3 : \A n \in Nat :
             Reached(b, h, g, k, n) <=>
                \/ Reached(a, h, g, k, n)
                \/ h = a.i /\ g = a.j /\ k = a.list /\ n = a.n
      BY NextReached
    <3> QED
      BY <3>1, <3>2, Zenon
  <2> QED
    BY <1>1, <2>1, Zenon DEF Says
<1>3. ASSUME NEW i \in Sets, NEW j \in Grps(i), NEW u
      PROVE  /\ ~(u = s /\ i = a.i /\ j = a.j) => Marks(b, u, i, j) = Marks(a, u, i, j)
             /\ u = s /\ i = a.i /\ j = a.j =>
                   Marks(b, u, i, j) = Marks(a, u, i, j) \cup {Lists[a.list]}
  <2>1. CASE ~(u = s /\ i = a.i /\ j = a.j)
    <3>1. \A l \in 1 .. 3 : Says(b, u, i, j, l) <=> Says(a, u, i, j, l)
      BY <1>2, <2>1
    <3>2. {k \in 1 .. 3 : Says(b, u, i, j, k)} = {k \in 1 .. 3 : Says(a, u, i, j, k)}
      BY <3>1
    <3> QED
      BY <2>1, <3>2, Zenon DEF Marks
  <2>2. CASE u = s /\ i = a.i /\ j = a.j
    <3>1. \A l \in 1 .. 3 : Says(b, u, i, j, l) <=> Says(a, u, i, j, l) \/ l = a.list
      BY <1>2, <2>2
    <3>2. \A x : x \in Marks(b, u, i, j) <=> x \in Marks(a, u, i, j) \/ x = Lists[a.list]
      BY <1>1, <3>1, Zenon DEF Marks
    <3>3. Marks(b, u, i, j) = Marks(a, u, i, j) \cup {Lists[a.list]}
      BY <3>2
    <3> QED
      BY <2>2, <3>3
  <2> QED
    BY <2>1, <2>2
<1> QED
  BY <1>2, <1>3, Zenon DEF Adds

LEMMA OwnsIs ==
    ASSUME Shaped, NEW m, NEW p, NEW s, WellMade(m, p, s)
    PROVE  /\ p \in Nat /\ p + 1 \in Nat /\ m[p].grpset_index \in Nat
           /\ m[p].grpset_index # p /\ m[p].grpset_index # p + 1 /\ p # p + 1
           /\ Owns(m, p, p) /\ Owns(m, p, p + 1) /\ Owns(m, p, m[p].grpset_index)
           /\ \A i \in Ids : Index(m, p)[i] # NULL =>
                 /\ Index(m, p)[i] \in Nat /\ Owns(m, p, Index(m, p)[i])
                 /\ Index(m, p)[i] # p /\ Index(m, p)[i] # p + 1
                 /\ Index(m, p)[i] # m[p].grpset_index
           /\ \A x \in Nat : Owns(m, p, x) => x \in DOMAIN m
<1>1. p \in Nat /\ m[p].grpset_index \in Nat /\ m[p].grpset_index > p + 1
  BY DEF WellMade
<1>2. \A i \in Ids : Index(m, p)[i] # NULL =>
         Index(m, p)[i] \in Nat /\ Index(m, p)[i] > m[p].grpset_index
  BY DEF WellMade
<1>3. \A x \in Nat : Owns(m, p, x) => x \in DOMAIN m
  <2> SUFFICES ASSUME NEW x \in Nat, Owns(m, p, x) PROVE x \in DOMAIN m
    OBVIOUS
  <2>1. CASE \E i \in Ids : x = Index(m, p)[i]
    <3>1. x # NULL
      BY NullIsNoAddress
    <3> QED
      BY <2>1, <3>1 DEF WellMade
  <2>2. CASE x = p \/ x = p + 1 \/ x = m[p].grpset_index
    BY <2>2 DEF WellMade
  <2> QED
    BY <2>1, <2>2 DEF Owns
<1>4. Owns(m, p, p) /\ Owns(m, p, p + 1) /\ Owns(m, p, m[p].grpset_index)
      /\ \A i \in Ids : Owns(m, p, Index(m, p)[i])
  BY Zenon DEF Owns
<1> QED
  BY <1>1, <1>2, <1>3, <1>4

\* A pattern whose pieces have not been written is what it was.
SameMarks(a, b, s) ==
    \A i \in Sets : \A j \in Grps(i) : Marks(b, s, i, j) = Marks(a, s, i, j)
Same(m, w, p) == \A x \in Nat : Owns(m, p, x) => x \in DOMAIN w /\ w[x] = m[x]

Bones(m, w, p) ==
    /\ \A x \in {p, p + 1, m[p].grpset_index} : w[x] = m[x]
    /\ \A x \in Nat : Owns(m, p, x) => x \in DOMAIN w

LEMMA BonesKept ==
    ASSUME Shaped, NEW m, NEW w, NEW p, NEW s, WellMade(m, p, s), Bones(m, w, p)
    PROVE  /\ WellMade(w, p, s) /\ \A x : Owns(w, p, x) <=> Owns(m, p, x)
           /\ w[p] = m[p] /\ Index(w, p) = Index(m, p)
<1>1. /\ p \in DOMAIN w /\ p + 1 \in DOMAIN w /\ m[p].grpset_index \in DOMAIN w
      /\ w[p] = m[p] /\ w[p + 1] = m[p + 1] /\ Index(w, p) = Index(m, p)
  BY OwnsIs DEF Index, Bones
<1>2. \A i \in Ids : Index(m, p)[i] # NULL => Index(m, p)[i] \in DOMAIN w
  BY OwnsIs DEF Bones
<1>3. \A x : Owns(w, p, x) <=> Owns(m, p, x)
  BY <1>1, Zenon DEF Owns
<1>4. WellMade(w, p, s)
  <2>1. w[p].grpset_index = m[p].grpset_index /\ w[p].str = m[p].str
    BY <1>1
  <2>2. \A i \in Ids : Index(w, p)[i] # NULL =>
           /\ Index(w, p)[i] \in Nat /\ Index(w, p)[i] \in DOMAIN w
           /\ Index(w, p)[i] > w[p].grpset_index
    BY <1>1, <1>2, <2>1 DEF WellMade
  <2>3. Index(w, p) = [i \in Ids |-> Index(w, p)[i]]
    BY <1>1, Zenon DEF WellMade
  <2>4. \A i, k \in Ids : Index(w, p)[i] = Index(w, p)[k] /\ Index(w, p)[i] # NULL => i = k
    BY <1>1, Zenon DEF WellMade
  <2>5. /\ p \in Nat /\ p \in DOMAIN w /\ p + 1 \in DOMAIN w
        /\ w[p].str = p + 1 /\ w[p + 1] = s
        /\ w[p].grpset_index \in Nat /\ w[p].grpset_index \in DOMAIN w
        /\ w[p].grpset_index > p + 1
    BY <1>1, <2>1 DEF WellMade
  <2> QED
    BY <2>2, <2>3, <2>4, <2>5, Zenon DEF WellMade
<1> QED
  BY <1>1, <1>3, <1>4

LEMMA PatternKept ==
    ASSUME Shaped, NEW m, NEW w, NEW p, NEW s, WellMade(m, p, s), Same(m, w, p)
    PROVE  /\ WellMade(w, p, s) /\ \A x : Owns(w, p, x) <=> Owns(m, p, x)
           /\ \A a, b : Typed(a, m, p, s) /\ SameMarks(a, b, s) => Typed(b, w, p, s)
<1>1. Bones(m, w, p)
  BY OwnsIs DEF Bones, Same
<1>2. /\ WellMade(w, p, s) /\ \A x : Owns(w, p, x) <=> Owns(m, p, x)
      /\ Index(w, p) = Index(m, p)
  BY <1>1, BonesKept
<1>3. \A i \in Ids : Index(m, p)[i] # NULL => w[Index(m, p)[i]] = m[Index(m, p)[i]]
  BY OwnsIs DEF Same
<1>4. ASSUME NEW a, NEW b, Typed(a, m, p, s), SameMarks(a, b, s)
      PROVE  Typed(b, w, p, s)
  <2> SUFFICES ASSUME NEW i \in Sets
               PROVE  /\ Index(w, p)[i] = NULL => \A j \in Grps(i) : Marks(b, s, i, j) = {}
                      /\ Index(w, p)[i] # NULL =>
                            w[Index(w, p)[i]] = [j \in Grps(i) |-> Marks(b, s, i, j)]
    BY Zenon DEF Typed
  <2>0. \A j \in Grps(i) : Marks(b, s, i, j) = Marks(a, s, i, j)
    BY <1>4, Zenon DEF SameMarks
  <2>1. [j \in Grps(i) |-> Marks(b, s, i, j)] = [j \in Grps(i) |-> Marks(a, s, i, j)]
    BY <2>0, Zenon
  <2>2. i \in Ids
    BY DEF Shaped
  <2>3. /\ Index(m, p)[i] = NULL => \A j \in Grps(i) : Marks(a, s, i, j) = {}
        /\ Index(m, p)[i] # NULL =>
              m[Index(m, p)[i]] = [j \in Grps(i) |-> Marks(a, s, i, j)]
    BY <1>4, Zenon DEF Typed
  <2> QED
    BY <1>2, <1>3, <2>0, <2>1, <2>2, <2>3, Zenon
<1> QED
  BY <1>2, <1>4, Zenon

\* One string's pattern is written, the others are what they were.
Holds(r, t, s, q) ==
    DOMAIN r = DOMAIN t \cup {s} /\ r[s] = q /\ \A u \in DOMAIN t \ {s} : r[u] = t[u]
OthersSame(m, w, t, s, q) ==
    \A u \in DOMAIN t \ {s} : \A x \in Nat :
       Owns(m, t[u], x) => x \in DOMAIN w /\ w[x] = m[x] /\ ~Owns(w, q, x)
OthersOwn(m, w, t, r, s) ==
    \A u \in DOMAIN t \ {s} : \A x : Owns(w, r[u], x) <=> Owns(m, t[u], x)

LEMMA OneStored ==
    ASSUME Shaped, NEW a, NEW b, NEW s, Adds(a, b, s),
           NEW m, NEW w, NEW t, NEW r, NEW q, Stored(a, m, t),
           Holds(r, t, s, q), OthersSame(m, w, t, s, q), WellMade(w, q, s), Typed(b, w, q, s)
    PROVE  Stored(b, w, r) /\ OthersOwn(m, w, t, r, s)
<1>0. /\ DOMAIN r = DOMAIN t \cup {s} /\ r[s] = q /\ \A u \in DOMAIN t \ {s} : r[u] = t[u]
      /\ \A u \in DOMAIN t \ {s} : \A x \in Nat :
            Owns(m, t[u], x) => x \in DOMAIN w /\ w[x] = m[x] /\ ~Owns(w, q, x)
  BY Zenon DEF Holds, OthersSame
<1>1. \A u \in DOMAIN t : WellMade(m, t[u], u) /\ Typed(a, m, t[u], u)
  BY Zenon DEF Stored
<1>2. ASSUME NEW u \in DOMAIN t \ {s}
      PROVE  /\ WellMade(w, r[u], u) /\ Typed(b, w, r[u], u)
             /\ \A x : Owns(w, r[u], x) <=> Owns(m, t[u], x)
  <2>1. WellMade(m, t[u], u) /\ Typed(a, m, t[u], u) /\ r[u] = t[u] /\ u # s
    BY <1>0, <1>1
  <2>2. SameMarks(a, b, u)
    BY <2>1, Zenon DEF Adds, SameMarks
  <2>3. PICK p : p = t[u]
    OBVIOUS
  <2>4. Same(m, w, p)
    BY <1>0, <2>3, Zenon DEF Same
  <2>5. WellMade(w, p, u) /\ \A x : Owns(w, p, x) <=> Owns(m, p, x)
    BY <2>1, <2>3, <2>4, PatternKept
  <2>6. Typed(b, w, p, u)
    <3>1. WellMade(m, p, u) /\ Typed(a, m, p, u)
      BY <2>1, <2>3
    <3> QED
      BY <2>2, <2>4, <3>1, PatternKept, Zenon
  <2> QED
    BY <2>1, <2>3, <2>5, <2>6
<1>3. \A u \in DOMAIN r : WellMade(w, r[u], u) /\ Typed(b, w, r[u], u)
  BY <1>0, <1>2, Zenon
<1>4. ASSUME NEW u \in DOMAIN r, NEW v \in DOMAIN r, NEW x \in Nat,
             Owns(w, r[u], x), Owns(w, r[v], x)
      PROVE  u = v
  <2>1. CASE u = s
    <3>1. v # s => Owns(m, t[v], x) /\ ~Owns(w, q, x)
      BY <1>0, <1>2, <1>4
    <3> QED
      BY <1>0, <1>4, <2>1, <3>1
  <2>2. CASE v = s
    <3>1. u # s => Owns(m, t[u], x) /\ ~Owns(w, q, x)
      BY <1>0, <1>2, <1>4
    <3> QED
      BY <1>0, <1>4, <2>2, <3>1
  <2>3. CASE u # s /\ v # s
    <3>1. /\ u \in DOMAIN t /\ v \in DOMAIN t
          /\ Owns(m, t[u], x) /\ Owns(m, t[v], x)
      BY <1>0, <1>2, <1>4, <2>3
    <3> QED
      BY <3>1, Zenon DEF Stored
  <2> QED
    BY <2>1, <2>2, <2>3
<1> QED
  BY <1>2, <1>3, <1>4, Zenon DEF Stored, OthersOwn

\* A string that the tree does not have gets the spare pattern, with an index
\* and an array, and leaves a new spare pattern.
MadeNew(m, w, a, s, p, c) ==
    /\ DOMAIN m \cup {p, p + 1, c, c + 1, c + 2} \subseteq DOMAIN w
    /\ w[p] = [str |-> p + 1, grpset_index |-> c] /\ w[p + 1] = s
    /\ w[c] = [g \in Ids |-> IF g = a.i THEN c + 1 ELSE NULL]
    /\ w[c + 1] = [k \in Grps(a.i) |-> IF k = a.j THEN {Lists[a.list]} ELSE {}]
    /\ w[c + 2] = [str |-> c + 3, grpset_index |-> NULL]
    /\ \A x \in DOMAIN m : x \notin {p, p + 1, c, c + 1, c + 2} => w[x] = m[x]
NoMarks(a, s) == \A i \in Sets : \A j \in Grps(i) : Marks(a, s, i, j) = {}

LEMMA NewStored ==
    ASSUME Shaped, NEW a, Placed(a), NEW b, NEW s, Adds(a, b, s),
           NEW m, NEW w, NEW t, NEW r, NEW p, NEW sp, NEW c, c = sp.cur, c \in Nat,
           NoMarks(a, s),
           s \notin DOMAIN t, r = Put(t, s, p),
           Stored(a, m, t), Below(m, t, c), Spare(m, t, sp, p),
           MadeNew(m, w, a, s, p, c)
    PROVE  Stored(b, w, r) /\ Below(w, r, c + 2)
<1>0. /\ DOMAIN m \cup {p, p + 1, c, c + 1, c + 2} \subseteq DOMAIN w
      /\ w[p] = [str |-> p + 1, grpset_index |-> c] /\ w[p + 1] = s
      /\ w[c] = [g \in Ids |-> IF g = a.i THEN c + 1 ELSE NULL]
      /\ w[c + 1] = [k \in Grps(a.i) |-> IF k = a.j THEN {Lists[a.list]} ELSE {}]
      /\ \A x \in DOMAIN m : x \notin {p, p + 1, c, c + 1, c + 2} => w[x] = m[x]
  BY Zenon DEF MadeNew
<1>1. /\ p \in Nat /\ p + 1 < c /\ c # NULL /\ c + 1 # NULL
      /\ \A u \in DOMAIN t : ~Owns(m, t[u], p) /\ ~Owns(m, t[u], p + 1)
      /\ a.i \in Sets /\ a.i \in Ids /\ a.j \in Grps(a.i)
  BY NullIsNoAddress, SMTT(20) DEF Spare, Placed, Shaped
<1>2. Index(w, p) = [g \in Ids |-> IF g = a.i THEN c + 1 ELSE NULL]
  BY <1>0 DEF Index
<1>3. \A x \in Nat : Owns(w, p, x) <=> x \in {p, p + 1, c, c + 1}
  <2>1. \A x \in Nat : x # NULL
    BY NullIsNoAddress
  <2>2. \A x \in Nat : (\E i \in Ids : x = Index(w, p)[i]) <=> x = c + 1
    BY <1>1, <1>2, <2>1
  <2>3. w[p].grpset_index = c
    BY <1>0
  <2> QED
    BY <2>2, <2>3 DEF Owns
<1>4. WellMade(w, p, s)
  <2>1. w[p].grpset_index = c /\ w[p].str = p + 1 /\ w[p + 1] = s
    BY <1>0
  <2>2. \A i \in Ids : Index(w, p)[i] # NULL => i = a.i /\ Index(w, p)[i] = c + 1
    BY <1>2
  <2>3. Index(w, p) = [i \in Ids |-> Index(w, p)[i]]
    BY <1>2
  <2>4. \A i \in Ids : Index(w, p)[i] # NULL =>
           /\ Index(w, p)[i] \in Nat /\ Index(w, p)[i] \in DOMAIN w
           /\ Index(w, p)[i] > w[p].grpset_index
    BY <1>0, <2>1, <2>2
  <2>5. \A i, k \in Ids : Index(w, p)[i] = Index(w, p)[k] /\ Index(w, p)[i] # NULL => i = k
    BY <2>2
  <2>6. /\ p \in Nat /\ p \in DOMAIN w /\ p + 1 \in DOMAIN w
        /\ w[p].grpset_index \in DOMAIN w /\ w[p].grpset_index > p + 1
    BY <1>0, <1>1, <2>1
  <2> QED
    BY <2>1, <2>3, <2>4, <2>5, <2>6, Zenon DEF WellMade
<1>5. Typed(b, w, p, s)
  <2> SUFFICES ASSUME NEW i \in Sets
               PROVE  /\ Index(w, p)[i] = NULL => \A j \in Grps(i) : Marks(b, s, i, j) = {}
                      /\ Index(w, p)[i] # NULL =>
                            w[Index(w, p)[i]] = [j \in Grps(i) |-> Marks(b, s, i, j)]
    BY Zenon DEF Typed
  <2>1. i \in Ids
    BY DEF Shaped
  <2>2. CASE i = a.i
    <3>1. Index(w, p)[i] = c + 1
      BY <1>2, <2>1, <2>2
    <3>2. \A j \in Grps(i) : Marks(b, s, i, j) = IF j = a.j THEN {Lists[a.list]} ELSE {}
      <4> TAKE j \in Grps(i)
      <4>1. Marks(a, s, i, j) = {}
        BY DEF NoMarks
      <4>2. j = a.j => Marks(b, s, i, j) = {} \cup {Lists[a.list]}
        BY <2>2, <4>1 DEF Adds
      <4>3. j # a.j => Marks(b, s, i, j) = {}
        BY <4>1 DEF Adds
      <4> QED
        BY <4>2, <4>3
    <3>3. [j \in Grps(i) |-> Marks(b, s, i, j)]
             = [j \in Grps(i) |-> IF j = a.j THEN {Lists[a.list]} ELSE {}]
      BY <3>2, Zenon
    <3> QED
      BY <1>0, <1>1, <2>2, <3>1, <3>3
  <2>3. CASE i # a.i
    <3>1. Index(w, p)[i] = NULL
      BY <1>2, <2>1, <2>3
    <3>2. \A j \in Grps(i) : Marks(b, s, i, j) = {}
      BY <2>3 DEF Adds, NoMarks
    <3> QED
      BY <3>1, <3>2
  <2> QED
    BY <2>2, <2>3
<1>6. OthersSame(m, w, t, s, p)
  <2> SUFFICES ASSUME NEW u \in DOMAIN t, NEW x \in Nat, Owns(m, t[u], x)
               PROVE  x \in DOMAIN w /\ w[x] = m[x] /\ ~Owns(w, p, x)
    BY Zenon DEF OthersSame
  <2>1. x < c
    BY DEF Below
  <2>2. x # p /\ x # p + 1
    BY <1>1
  <2>3. x \in DOMAIN m
    <3>1. WellMade(m, t[u], u)
      BY DEF Stored
    <3> QED
      BY <3>1, OwnsIs
  <2> QED
    BY <1>0, <1>3, <2>1, <2>2, <2>3
<1>7. Holds(r, t, s, p)
  <2>1. r = [u \in DOMAIN t \cup {s} |-> IF u = s THEN p ELSE t[u]]
    BY Zenon DEF Put
  <2> QED
    BY <2>1 DEF Holds
<1>8. Stored(b, w, r) /\ OthersOwn(m, w, t, r, s)
  BY <1>4, <1>5, <1>6, <1>7, OneStored, Zenon
<1>9. Below(w, r, c + 2)
  <2> SUFFICES ASSUME NEW u \in DOMAIN r, NEW x \in Nat, Owns(w, r[u], x)
               PROVE  x < c + 2
    BY Zenon DEF Below
  <2>1. CASE u = s
    BY <1>1, <1>3, <1>7, <2>1 DEF Holds
  <2>2. CASE u # s
    <3>1. u \in DOMAIN t /\ Owns(m, t[u], x)
      BY <1>7, <1>8, <2>2 DEF Holds, OthersOwn
    <3>2. x < c
      BY <3>1 DEF Below
    <3> QED
      BY <3>2
  <2> QED
    BY <2>1, <2>2
<1> QED
  BY <1>8, <1>9

\* A string that the tree has and that the group set knows: its array is
\* written.
MadeKnown(m, w, a, q, p) ==
    LET old == m[Index(m, q)[a.i]]
    IN /\ DOMAIN m \cup {p + 1} \subseteq DOMAIN w
       /\ w[Index(m, q)[a.i]] =
             [k \in Grps(a.i) |-> IF k = a.j THEN old[k] \cup {Lists[a.list]} ELSE old[k]]
       /\ \A x \in DOMAIN m : x \notin {p + 1, Index(m, q)[a.i]} => w[x] = m[x]

LEMMA KnownStored ==
    ASSUME Shaped, NEW a, Placed(a), NEW b, NEW s, Adds(a, b, s),
           NEW m, NEW w, NEW t, NEW r, NEW q, NEW p, NEW sp, sp.cur \in Nat,
           s \in DOMAIN t, q = t[s], Holds(r, t, s, q),
           Stored(a, m, t), Below(m, t, sp.cur), Spare(m, t, sp, p),
           Index(m, q)[a.i] # NULL, MadeKnown(m, w, a, q, p)
    PROVE  Stored(b, w, r) /\ Below(w, r, sp.cur) /\ Spare(w, r, sp, p)
<1> DEFINE h == Index(m, q)[a.i]
<1>0. /\ DOMAIN m \cup {p + 1} \subseteq DOMAIN w
      /\ w[h] = [k \in Grps(a.i) |-> IF k = a.j THEN m[h][k] \cup {Lists[a.list]} ELSE m[h][k]]
      /\ \A x \in DOMAIN m : x \notin {p + 1, h} => w[x] = m[x]
  BY Zenon DEF MadeKnown
<1>1. /\ p \in Nat /\ p + 1 < sp.cur /\ p \in DOMAIN m
      /\ m[p] = [str |-> p + 1, grpset_index |-> NULL]
      /\ \A u \in DOMAIN t : ~Owns(m, t[u], p) /\ ~Owns(m, t[u], p + 1)
      /\ sp.last # p /\ (sp.last = p + 1 => Below(m, t, p))
  BY Zenon DEF Spare
<1>2. a.i \in Sets /\ a.i \in Ids /\ a.j \in Grps(a.i) /\ h # NULL
  BY DEF Placed, Shaped
<1>3. /\ WellMade(m, q, s) /\ Typed(a, m, q, s)
      /\ \A u \in DOMAIN t : WellMade(m, t[u], u)
  BY Zenon DEF Stored
<1> HIDE DEF h
<1>4. /\ q \in Nat /\ q + 1 \in Nat /\ m[q].grpset_index \in Nat /\ h \in Nat
      /\ Owns(m, q, q) /\ Owns(m, q, q + 1) /\ Owns(m, q, m[q].grpset_index) /\ Owns(m, q, h)
      /\ h # q /\ h # q + 1 /\ h # m[q].grpset_index
      /\ \A i \in Ids : Index(m, q)[i] # NULL =>
            Index(m, q)[i] \in Nat /\ Owns(m, q, Index(m, q)[i])
      /\ \A x \in Nat : Owns(m, q, x) => x \in DOMAIN m
  BY <1>2, <1>3, OwnsIs DEF h
<1>5. Bones(m, w, q)
  BY <1>0, <1>1, <1>4 DEF Bones
<1>6. /\ WellMade(w, q, s) /\ \A x : Owns(w, q, x) <=> Owns(m, q, x)
      /\ Index(w, q) = Index(m, q)
  BY <1>3, <1>5, BonesKept
<1>7. Typed(b, w, q, s)
  <2> SUFFICES ASSUME NEW i \in Sets
               PROVE  /\ Index(w, q)[i] = NULL => \A j \in Grps(i) : Marks(b, s, i, j) = {}
                      /\ Index(w, q)[i] # NULL =>
                            w[Index(w, q)[i]] = [j \in Grps(i) |-> Marks(b, s, i, j)]
    BY Zenon DEF Typed
  <2>1. i \in Ids
    BY DEF Shaped
  <2>2. /\ Index(m, q)[i] = NULL => \A j \in Grps(i) : Marks(a, s, i, j) = {}
        /\ Index(m, q)[i] # NULL =>
              m[Index(m, q)[i]] = [j \in Grps(i) |-> Marks(a, s, i, j)]
    BY <1>3, Zenon DEF Typed
  <2>3. CASE i = a.i
    <3>1. h # NULL /\ Index(w, q)[i] = h
      BY <1>2, <1>6, <2>3 DEF h
    <3>2. m[h] = [j \in Grps(i) |-> Marks(a, s, i, j)]
      BY <2>2, <2>3, <3>1 DEF h
    <3>3. \A j \in Grps(i) :
             Marks(b, s, i, j) = IF j = a.j THEN m[h][j] \cup {Lists[a.list]} ELSE m[h][j]
      <4> TAKE j \in Grps(i)
      <4>1. Marks(a, s, i, j) = m[h][j]
        BY <3>2
      <4>2. j = a.j => Marks(b, s, i, j) = Marks(a, s, i, j) \cup {Lists[a.list]}
        BY <2>3 DEF Adds
      <4>3. j # a.j => Marks(b, s, i, j) = Marks(a, s, i, j)
        BY DEF Adds
      <4> QED
        BY <4>1, <4>2, <4>3
    <3>4. [j \in Grps(i) |-> Marks(b, s, i, j)] =
             [j \in Grps(i) |-> IF j = a.j THEN m[h][j] \cup {Lists[a.list]} ELSE m[h][j]]
      BY <3>3, Zenon
    <3> QED
      BY <1>0, <2>3, <3>1, <3>4, Zenon
  <2>4. CASE i # a.i
    <3>1. \A j \in Grps(i) : Marks(b, s, i, j) = Marks(a, s, i, j)
      BY <2>4 DEF Adds
    <3>2. [j \in Grps(i) |-> Marks(b, s, i, j)] = [j \in Grps(i) |-> Marks(a, s, i, j)]
      BY <3>1, Zenon
    <3>3. Index(m, q)[i] # NULL => w[Index(m, q)[i]] = m[Index(m, q)[i]]
      <4> SUFFICES ASSUME Index(m, q)[i] # NULL
                   PROVE  w[Index(m, q)[i]] = m[Index(m, q)[i]]
        OBVIOUS
      <4>1. Index(m, q)[i] # h
        BY <1>2, <1>3, <2>1, <2>4 DEF WellMade, h
      <4>2. Index(m, q)[i] # p + 1 /\ Index(m, q)[i] \in DOMAIN m
        BY <1>1, <1>4, <2>1
      <4> QED
        BY <1>0, <4>1, <4>2
    <3> QED
      BY <1>6, <2>2, <3>1, <3>2, <3>3
  <2> QED
    BY <2>3, <2>4
<1>8. OthersSame(m, w, t, s, q)
  <2> SUFFICES ASSUME NEW u \in DOMAIN t, u # s, NEW x \in Nat, Owns(m, t[u], x)
               PROVE  x \in DOMAIN w /\ w[x] = m[x] /\ ~Owns(w, q, x)
    BY Zenon DEF OthersSame
  <2>1. x \in DOMAIN m
    BY <1>3, OwnsIs
  <2>2. ~Owns(m, q, x)
    BY Zenon DEF Stored
  <2>3. x # p + 1 /\ x # h
    BY <1>1, <1>4, <2>2
  <2> QED
    BY <1>0, <1>6, <2>1, <2>2, <2>3
<1>9. Stored(b, w, r) /\ OthersOwn(m, w, t, r, s)
  BY <1>6, <1>7, <1>8, OneStored, Zenon
<1>10. /\ DOMAIN r = DOMAIN t
       /\ \A u \in DOMAIN r : \A x : Owns(w, r[u], x) <=> Owns(m, t[u], x)
  BY <1>6, <1>9, Zenon DEF OthersOwn, Holds
<1>11. \A n : Below(m, t, n) => Below(w, r, n)
  BY <1>10, Zenon DEF Below
<1>12. p \in DOMAIN w /\ w[p] = m[p]
  <2>1. p # p + 1 /\ p # h
    BY <1>1, <1>4
  <2> QED
    BY <1>0, <1>1, <2>1
<1>13. Spare(w, r, sp, p)
  BY <1>1, <1>10, <1>11, <1>12, Zenon DEF Spare
<1> QED
  BY <1>9, <1>11, <1>13

\* A string that the tree has and that no group of the set had: a new array is
\* written into its index.
MadeFresh(m, w, a, q, p, c) ==
    LET x == m[q].grpset_index
    IN /\ DOMAIN m \cup {p + 1, c} \subseteq DOMAIN w
       /\ w[c] = [k \in Grps(a.i) |-> IF k = a.j THEN {Lists[a.list]} ELSE {}]
       /\ w[x] = [g \in Ids |-> IF g = a.i THEN c ELSE Index(m, q)[g]]
       /\ \A y \in DOMAIN m : y \notin {p + 1, c, x} => w[y] = m[y]

LEMMA FreshStored ==
    ASSUME Shaped, NEW a, Placed(a), NEW b, NEW s, Adds(a, b, s),
           NEW m, NEW w, NEW t, NEW r, NEW q, NEW p, NEW sp, NEW sp2, NEW c,
           c = sp.cur, c \in Nat, sp2.cur = c + 1, sp2.last = c,
           s \in DOMAIN t, q = t[s], Holds(r, t, s, q),
           Stored(a, m, t), Below(m, t, c), Spare(m, t, sp, p),
           Index(m, q)[a.i] = NULL, MadeFresh(m, w, a, q, p, c)
    PROVE  Stored(b, w, r) /\ Below(w, r, c + 1) /\ Spare(w, r, sp2, p)
<1> DEFINE h == m[q].grpset_index
<1>0. /\ DOMAIN m \cup {p + 1, c} \subseteq DOMAIN w
      /\ w[c] = [k \in Grps(a.i) |-> IF k = a.j THEN {Lists[a.list]} ELSE {}]
      /\ w[h] = [g \in Ids |-> IF g = a.i THEN c ELSE Index(m, q)[g]]
      /\ \A y \in DOMAIN m : y \notin {p + 1, c, h} => w[y] = m[y]
  BY Zenon DEF MadeFresh
<1>1. /\ p \in Nat /\ p + 1 < c /\ p \in DOMAIN m
      /\ m[p] = [str |-> p + 1, grpset_index |-> NULL]
      /\ \A u \in DOMAIN t : ~Owns(m, t[u], p) /\ ~Owns(m, t[u], p + 1)
  BY Zenon DEF Spare
<1>2. a.i \in Sets /\ a.i \in Ids /\ a.j \in Grps(a.i) /\ c # NULL
  BY NullIsNoAddress DEF Placed, Shaped
<1>3. /\ WellMade(m, q, s) /\ Typed(a, m, q, s)
      /\ \A u \in DOMAIN t : WellMade(m, t[u], u)
  BY Zenon DEF Stored
<1> HIDE DEF h
<1>4. /\ q \in Nat /\ q + 1 \in Nat /\ h \in Nat
      /\ Owns(m, q, q) /\ Owns(m, q, q + 1) /\ Owns(m, q, h)
      /\ h # q /\ h # q + 1
      /\ \A i \in Ids : Index(m, q)[i] # NULL =>
            /\ Index(m, q)[i] \in Nat /\ Owns(m, q, Index(m, q)[i])
            /\ Index(m, q)[i] # h
      /\ \A x \in Nat : Owns(m, q, x) => x \in DOMAIN m
  BY <1>2, <1>3, OwnsIs DEF h
<1>5. \A x \in Nat : Owns(m, q, x) => x < c /\ x # p /\ x # p + 1
  BY <1>1 DEF Below
<1>6. /\ w[q] = m[q] /\ w[q + 1] = m[q + 1] /\ w[q].grpset_index = h
      /\ Index(w, q) = [g \in Ids |-> IF g = a.i THEN c ELSE Index(m, q)[g]]
  <2>1. q # p + 1 /\ q # c /\ q # h /\ q + 1 # p + 1 /\ q + 1 # c /\ q + 1 # h
        /\ q \in DOMAIN m /\ q + 1 \in DOMAIN m
    BY <1>1, <1>4, <1>5
  <2>2. w[q] = m[q] /\ w[q + 1] = m[q + 1]
    BY <1>0, <2>1
  <2>3. w[q].grpset_index = h
    BY <2>2 DEF h
  <2> QED
    BY <1>0, <2>2, <2>3 DEF Index
<1>7. WellMade(w, q, s)
  <2>1. /\ q \in Nat /\ q \in DOMAIN w /\ q + 1 \in DOMAIN w
        /\ w[q].str = q + 1 /\ w[q + 1] = s
        /\ w[q].grpset_index \in Nat /\ w[q].grpset_index \in DOMAIN w
        /\ w[q].grpset_index > q + 1
    <3>1. m[q].str = q + 1 /\ m[q + 1] = s /\ h > q + 1
      BY <1>3, Zenon DEF WellMade, h
    <3> QED
      BY <1>0, <1>4, <1>6, <3>1
  <2>2. Index(w, q) = [i \in Ids |-> Index(w, q)[i]]
    BY <1>6
  <2>3. \A i \in Ids : Index(w, q)[i] # NULL =>
           /\ Index(w, q)[i] \in Nat /\ Index(w, q)[i] \in DOMAIN w
           /\ Index(w, q)[i] > w[q].grpset_index
    <3> SUFFICES ASSUME NEW i \in Ids, Index(w, q)[i] # NULL
                 PROVE  /\ Index(w, q)[i] \in Nat /\ Index(w, q)[i] \in DOMAIN w
                        /\ Index(w, q)[i] > h
      BY <1>6
    <3>1. CASE i = a.i
      <4>1. Index(w, q)[i] = c
        BY <1>6, <3>1
      <4> QED
        BY <1>0, <1>4, <1>5, <4>1
    <3>2. CASE i # a.i
      <4>1. Index(w, q)[i] = Index(m, q)[i]
        BY <1>6, <3>2
      <4>2. Index(m, q)[i] \in Nat /\ Index(m, q)[i] > h /\ Index(m, q)[i] \in DOMAIN m
        BY <1>3, <4>1 DEF WellMade, h
      <4> QED
        BY <1>0, <4>1, <4>2
    <3> QED
      BY <3>1, <3>2
  <2>4. \A i, k \in Ids : Index(w, q)[i] = Index(w, q)[k] /\ Index(w, q)[i] # NULL => i = k
    <3>1. \A i \in Ids : Index(m, q)[i] # NULL => Index(m, q)[i] # c
      BY <1>4, <1>5
    <3>2. \A i, k \in Ids : Index(m, q)[i] = Index(m, q)[k] /\ Index(m, q)[i] # NULL => i = k
      BY <1>3, Zenon DEF WellMade
    <3>3. /\ Index(w, q)[a.i] = c
          /\ \A i \in Ids : i # a.i => Index(w, q)[i] = Index(m, q)[i]
      BY <1>2, <1>6
    <3> SUFFICES ASSUME NEW i \in Ids, NEW k \in Ids, Index(w, q)[i] # NULL,
                        Index(w, q)[i] = Index(w, q)[k]
                 PROVE  i = k
      OBVIOUS
    <3>4. CASE i = a.i \/ k = a.i
      BY <3>1, <3>3, <3>4, Zenon
    <3>5. CASE i # a.i /\ k # a.i
      BY <3>2, <3>3, <3>5, Zenon
    <3> QED
      BY <3>4, <3>5
  <2> QED
    BY <2>1, <2>2, <2>3, <2>4, Zenon DEF WellMade
<1>8. \A x \in Nat : Owns(w, q, x) <=> Owns(m, q, x) \/ x = c
  <2>1. \A x \in Nat : x # NULL
    BY NullIsNoAddress
  <2>2. \A x \in Nat : (\E i \in Ids : x = Index(w, q)[i]) <=>
                       (x = c \/ \E i \in Ids : x = Index(m, q)[i])
    BY <1>2, <1>6, <2>1
  <2> QED
    BY <1>6, <2>2, Zenon DEF Owns, h
<1>9. Typed(b, w, q, s)
  <2> SUFFICES ASSUME NEW i \in Sets
               PROVE  /\ Index(w, q)[i] = NULL => \A j \in Grps(i) : Marks(b, s, i, j) = {}
                      /\ Index(w, q)[i] # NULL =>
                            w[Index(w, q)[i]] = [j \in Grps(i) |-> Marks(b, s, i, j)]
    BY Zenon DEF Typed
  <2>1. i \in Ids
    BY DEF Shaped
  <2>2. /\ Index(m, q)[i] = NULL => \A j \in Grps(i) : Marks(a, s, i, j) = {}
        /\ Index(m, q)[i] # NULL =>
              m[Index(m, q)[i]] = [j \in Grps(i) |-> Marks(a, s, i, j)]
    BY <1>3, Zenon DEF Typed
  <2>3. CASE i = a.i
    <3>1. c # NULL /\ Index(w, q)[i] = c
      BY <1>2, <1>6, <2>1, <2>3
    <3>2. \A j \in Grps(i) : Marks(b, s, i, j) = IF j = a.j THEN {Lists[a.list]} ELSE {}
      <4> TAKE j \in Grps(i)
      <4>1. Marks(a, s, i, j) = {}
        BY <2>2, <2>3
      <4>2. j = a.j => Marks(b, s, i, j) = {} \cup {Lists[a.list]}
        BY <2>3, <4>1 DEF Adds
      <4>3. j # a.j => Marks(b, s, i, j) = {}
        BY <4>1 DEF Adds
      <4> QED
        BY <4>2, <4>3
    <3>3. [j \in Grps(i) |-> Marks(b, s, i, j)] =
             [j \in Grps(i) |-> IF j = a.j THEN {Lists[a.list]} ELSE {}]
      BY <3>2, Zenon
    <3> QED
      BY <1>0, <2>3, <3>1, <3>3, Zenon
  <2>4. CASE i # a.i
    <3>0. Index(w, q)[i] = Index(m, q)[i]
      BY <1>6, <2>1, <2>4
    <3>1. \A j \in Grps(i) : Marks(b, s, i, j) = Marks(a, s, i, j)
      BY <2>4 DEF Adds
    <3>2. [j \in Grps(i) |-> Marks(b, s, i, j)] = [j \in Grps(i) |-> Marks(a, s, i, j)]
      BY <3>1, Zenon
    <3>3. Index(m, q)[i] # NULL => w[Index(m, q)[i]] = m[Index(m, q)[i]]
      <4> SUFFICES ASSUME Index(m, q)[i] # NULL
                   PROVE  w[Index(m, q)[i]] = m[Index(m, q)[i]]
        OBVIOUS
      <4>1. /\ Index(m, q)[i] # h /\ Index(m, q)[i] # c
            /\ Index(m, q)[i] # p + 1 /\ Index(m, q)[i] \in DOMAIN m
        BY <1>4, <1>5, <2>1
      <4> QED
        BY <1>0, <4>1
    <3> QED
      BY <2>2, <3>0, <3>1, <3>2, <3>3
  <2> QED
    BY <2>3, <2>4
<1>10. OthersSame(m, w, t, s, q)
  <2> SUFFICES ASSUME NEW u \in DOMAIN t, u # s, NEW x \in Nat, Owns(m, t[u], x)
               PROVE  x \in DOMAIN w /\ w[x] = m[x] /\ ~Owns(w, q, x)
    BY Zenon DEF OthersSame
  <2>1. x \in DOMAIN m
    BY <1>3, OwnsIs
  <2>2. ~Owns(m, q, x)
    BY Zenon DEF Stored
  <2>3. x < c
    BY DEF Below
  <2>4. x # p + 1 /\ x # h /\ x # c
    BY <1>1, <1>4, <2>2, <2>3
  <2> QED
    BY <1>0, <1>8, <2>1, <2>2, <2>4
<1>11. Stored(b, w, r) /\ OthersOwn(m, w, t, r, s)
  BY <1>7, <1>9, <1>10, OneStored, Zenon
<1>12. /\ DOMAIN r = DOMAIN t
       /\ \A u \in DOMAIN r : \A x \in Nat : Owns(w, r[u], x) => Owns(m, t[u], x) \/ x = c
  BY <1>8, <1>11, Zenon DEF OthersOwn, Holds
<1>13. Below(w, r, c + 1)
  <2>1. \A u \in DOMAIN t : \A x \in Nat : Owns(m, t[u], x) => x < c
    BY Zenon DEF Below
  <2>2. \A x \in Nat : x < c \/ x = c => x < c + 1
    OBVIOUS
  <2> QED
    BY <1>12, <2>1, <2>2, Zenon DEF Below
<1>14. p \in DOMAIN w /\ w[p] = m[p]
  <2>1. p # p + 1 /\ p # h /\ p # c
    BY <1>1, <1>4, <1>5
  <2> QED
    BY <1>0, <1>1, <2>1
<1>15. Spare(w, r, sp2, p)
  <2>1. \A u \in DOMAIN r : ~Owns(w, r[u], p) /\ ~Owns(w, r[u], p + 1)
    <3>1. p # c /\ p + 1 # c /\ p \in Nat /\ p + 1 \in Nat
      BY <1>1
    <3> QED
      BY <1>1, <1>12, <3>1
  <2>2. p + 1 < sp2.cur /\ sp2.last # p /\ sp2.last # p + 1
    BY <1>1
  <2> QED
    BY <1>1, <1>14, <2>1, <2>2, Zenon DEF Spare
<1> QED
  BY <1>11, <1>13, <1>15

\* The tree, the patterns and the first segment delimiters where no item lies
\* between two positions.
LEMMA SamePlaceKeeps ==
    ASSUME Shaped, NEW a, NEW b, SamePlace(a, b), NEW m, NEW t, NEW seg
    PROVE  /\ TreeHas(a, t) => TreeHas(b, t)
           /\ Stored(a, m, t) => Stored(b, m, t)
           /\ Segs(a, t, seg) => Segs(b, t, seg)
<1>1. \A i \in Sets : \A j \in Grps(i) : \A l \in 1 .. 3 : \A n \in 1 .. Len(Str(i, j, l)) :
         Reached(b, i, j, l, n) <=> Reached(a, i, j, l, n)
  BY Zenon DEF SamePlace
<1>2. \A i \in Sets : \A j \in Grps(i) : \A l \in 1 .. 3 : \A u :
         Says(b, u, i, j, l) <=> Says(a, u, i, j, l)
  <2> TAKE i \in Sets
  <2> TAKE j \in Grps(i)
  <2> TAKE l \in 1 .. 3
  <2>1. \A n \in 1 .. Len(Str(i, j, l)) : Reached(b, i, j, l, n) <=> Reached(a, i, j, l, n)
    BY <1>1, Zenon
  <2> TAKE u
  <2> QED
    BY <2>1, Zenon DEF Says
<1>3. \A i \in Sets : \A j \in Grps(i) : \A u : Marks(b, u, i, j) = Marks(a, u, i, j)
  <2> TAKE i \in Sets
  <2> TAKE j \in Grps(i)
  <2> TAKE u
  <2>1. {k \in 1 .. 3 : Says(b, u, i, j, k)} = {k \in 1 .. 3 : Says(a, u, i, j, k)}
    BY <1>2
  <2> QED
    BY <2>1, Zenon DEF Marks
<1>4. TreeHas(a, t) => TreeHas(b, t)
  BY <1>1, <1>2, Zenon DEF TreeHas
<1>5. \A p, u : Typed(a, m, p, u) => Typed(b, m, p, u)
  <2> SUFFICES ASSUME NEW p, NEW u, Typed(a, m, p, u), NEW i \in Sets
               PROVE  /\ Index(m, p)[i] = NULL => \A j \in Grps(i) : Marks(b, u, i, j) = {}
                      /\ Index(m, p)[i] # NULL =>
                            m[Index(m, p)[i]] = [j \in Grps(i) |-> Marks(b, u, i, j)]
    BY Zenon DEF Typed
  <2>1. [j \in Grps(i) |-> Marks(b, u, i, j)] = [j \in Grps(i) |-> Marks(a, u, i, j)]
    BY <1>3, Zenon
  <2> QED
    BY <1>3, <2>1, Zenon DEF Typed
<1>6. Stored(a, m, t) => Stored(b, m, t)
  BY <1>5, Zenon DEF Stored
<1>7. Segs(a, t, seg) => Segs(b, t, seg)
  <2>1. \A i \in Sets : \A j \in Grps(i) : \A n \in 1 .. Len(Str(i, j, 3)) :
           Reached(b, i, j, 3, n) <=> Reached(a, i, j, 3, n)
    <3>1. 3 \in 1 .. 3
      OBVIOUS
    <3> QED
      BY <1>1, <3>1
  <2> QED
    BY <2>1, Zenon DEF Segs
<1> QED
  BY <1>4, <1>6, <1>7

\* The same where one item lies between them.
LEMMA TreeNext ==
    ASSUME Shaped, NEW a, Placed(a), NEW b, b = [a EXCEPT !.n = @ + 1],
           a.n <= Len(Str(a.i, a.j, a.list)), NEW s, s = Str(a.i, a.j, a.list)[a.n],
           NEW t, TreeHas(a, t), NEW r,
           \/ s \in {Hat, Dollar} /\ r = t
           \/ s \notin {Hat, Dollar} /\ \E q : Holds(r, t, s, q)
    PROVE  TreeHas(b, r)
<1>1. Adds(a, b, s)
  BY NextSays
<1>2. \A i \in Sets : \A j \in Grps(i) : \A l \in 1 .. 3 : \A n \in 1 .. Len(Str(i, j, l)) :
         Reached(b, i, j, l, n) => Reached(a, i, j, l, n) \/ Str(i, j, l)[n] = s
  <2> SUFFICES ASSUME NEW i \in Sets, NEW j \in Grps(i), NEW l \in 1 .. 3,
                      NEW n \in 1 .. Len(Str(i, j, l)), Reached(b, i, j, l, n),
                      ~Reached(a, i, j, l, n)
               PROVE  Str(i, j, l)[n] = s
    OBVIOUS
  <2>1. n \in Nat
    <3>1. IsList(Str(i, j, l))
      BY Zenon DEF Shaped, Str
    <3>2. Len(Str(i, j, l)) \in Nat
      BY <3>1, ListIs
    <3> QED
      BY <3>2
  <2>2. i = a.i /\ j = a.j /\ l = a.list /\ n = a.n
    BY <2>1, NextReached
  <2> QED
    BY <2>2
<1>3. \A i \in Sets : \A j \in Grps(i) : \A l \in 1 .. 3 : \A u :
         Says(a, u, i, j, l) => Says(b, u, i, j, l)
  BY <1>1, Zenon DEF Adds
<1>4. a.i \in Sets /\ a.j \in Grps(a.i) /\ a.list \in 1 .. 3
      /\ Says(b, s, a.i, a.j, a.list)
  BY <1>1, Zenon DEF Adds, Placed
<1>5. /\ IsFiniteSet(DOMAIN t) /\ Hat \notin DOMAIN t /\ Dollar \notin DOMAIN t
      /\ \A u \in DOMAIN t : \E i \in Sets : \E j \in Grps(i) : \E l \in 1 .. 3 : Says(b, u, i, j, l)
      /\ \A i \in Sets : \A j \in Grps(i) : \A l \in 1 .. 3 : \A n \in 1 .. Len(Str(i, j, l)) :
            Reached(a, i, j, l, n) => Str(i, j, l)[n] \in DOMAIN t \cup {Hat, Dollar}
  BY <1>3, Zenon DEF TreeHas
<1>6. CASE s \in {Hat, Dollar} /\ r = t
  BY <1>2, <1>5, <1>6, Zenon DEF TreeHas
<1>7. CASE s \notin {Hat, Dollar} /\ \E q : Holds(r, t, s, q)
  <2>1. DOMAIN r = DOMAIN t \cup {s}
    BY <1>7, Zenon DEF Holds
  <2>2. IsFiniteSet(DOMAIN r)
    BY <1>5, <2>1, FS_AddElement
  <2>3. Hat \notin DOMAIN r /\ Dollar \notin DOMAIN r
    BY <1>5, <1>7, <2>1
  <2>4. \A u \in DOMAIN r : \E i \in Sets : \E j \in Grps(i) : \E l \in 1 .. 3 : Says(b, u, i, j, l)
    <3> TAKE u \in DOMAIN r
    <3>1. CASE u \in DOMAIN t
      BY <1>5, <3>1, Zenon
    <3>2. CASE u = s
      BY <1>4, <3>2, Zenon
    <3> QED
      BY <2>1, <3>1, <3>2
  <2>5. \A i \in Sets : \A j \in Grps(i) : \A l \in 1 .. 3 : \A n \in 1 .. Len(Str(i, j, l)) :
           Reached(b, i, j, l, n) => Str(i, j, l)[n] \in DOMAIN r \cup {Hat, Dollar}
    <3>1. \A x : x \in DOMAIN t \cup {Hat, Dollar} => x \in DOMAIN r \cup {Hat, Dollar}
      BY <2>1
    <3>2. s \in DOMAIN r \cup {Hat, Dollar}
      BY <2>1
    <3> SUFFICES ASSUME NEW i \in Sets, NEW j \in Grps(i), NEW l \in 1 .. 3,
                        NEW n \in 1 .. Len(Str(i, j, l)), Reached(b, i, j, l, n)
                 PROVE  Str(i, j, l)[n] \in DOMAIN r \cup {Hat, Dollar}
      OBVIOUS
    <3>3. CASE Reached(a, i, j, l, n)
      BY <1>5, <3>1, <3>3, Zenon
    <3>4. CASE Str(i, j, l)[n] = s
      BY <3>2, <3>4, Zenon
    <3> QED
      BY <1>2, <3>3, <3>4, Zenon
  <2> QED
    BY <2>2, <2>3, <2>4, <2>5, Zenon DEF TreeHas
<1> QED
  BY <1>6, <1>7

LEMMA SegsNext ==
    ASSUME Shaped, NEW a, Placed(a), NEW b, b = [a EXCEPT !.n = @ + 1],
           a.n <= Len(Str(a.i, a.j, a.list)), NEW s, s = Str(a.i, a.j, a.list)[a.n],
           NEW t, NEW r, NEW seg, NEW new, Segs(a, t, seg),
           \A u \in DOMAIN t : t[u] \in Nat /\ u \in DOMAIN r /\ r[u] = t[u],
           \/ a.list # 3 /\ new = seg
           \/ /\ a.list = 3 /\ s \in DOMAIN r /\ r[s] \in Nat
              /\ new = [seg EXCEPT ![GrpId(a.i, a.j)] = FirstSeg(@, r[s])]
    PROVE  Segs(b, r, new)
<1>1. /\ DOMAIN seg = Ids /\ seg = [g \in Ids |-> seg[g]]
      /\ a.i \in Sets /\ a.j \in Grps(a.i) /\ GrpId(a.i, a.j) \in Ids
  BY DEF Segs, Placed, Shaped
<1>2. ASSUME NEW i \in Sets, NEW j \in Grps(i), NEW n \in 1 .. Len(Str(i, j, 3))
      PROVE  Reached(b, i, j, 3, n) <=> \/ Reached(a, i, j, 3, n)
                                        \/ i = a.i /\ j = a.j /\ 3 = a.list /\ n = a.n
  <2>1. n \in Nat /\ 3 \in 1 .. 3
    BY ListIs DEF Shaped, Str
  <2> QED
    BY <2>1, NextReached
<1>3. ASSUME NEW g \in Ids,
             \/ a.list # 3 /\ new[g] = seg[g]
             \/ a.list = 3 /\ GrpId(a.i, a.j) # g /\ new[g] = seg[g]
             \/ new[g] = seg[g] /\ seg[g] # NULL
             \/ /\ a.list = 3 /\ GrpId(a.i, a.j) = g /\ seg[g] = NULL /\ new[g] = r[s]
                /\ s \in DOMAIN r
      PROVE  \/ /\ new[g] = NULL
                /\ \A i \in Sets : \A j \in Grps(i) :
                      GrpId(i, j) = g => \A n \in 1 .. Len(Str(i, j, 3)) : ~Reached(b, i, j, 3, n)
             \/ /\ Len(Group[g].seg_delim) > 0 /\ Group[g].seg_delim[1] \in DOMAIN r
                /\ new[g] = r[Group[g].seg_delim[1]]
  <2>1. \/ /\ seg[g] = NULL
           /\ \A i \in Sets : \A j \in Grps(i) :
                 GrpId(i, j) = g => \A n \in 1 .. Len(Str(i, j, 3)) : ~Reached(a, i, j, 3, n)
        \/ /\ Len(Group[g].seg_delim) > 0 /\ Group[g].seg_delim[1] \in DOMAIN t
           /\ seg[g] = t[Group[g].seg_delim[1]]
    BY Zenon DEF Segs
  <2>2. CASE new[g] = seg[g] /\ (a.list # 3 \/ GrpId(a.i, a.j) # g \/ seg[g] # NULL)
    BY <1>2, <2>1, <2>2, Zenon
  <2>3. CASE /\ a.list = 3 /\ GrpId(a.i, a.j) = g /\ seg[g] = NULL /\ new[g] = r[s]
             /\ s \in DOMAIN r
    <3>1. CASE /\ Len(Group[g].seg_delim) > 0 /\ Group[g].seg_delim[1] \in DOMAIN t
               /\ seg[g] = t[Group[g].seg_delim[1]]
      BY <2>3, <3>1, NullIsNoAddress
    <3>2. CASE \A i \in Sets : \A j \in Grps(i) :
                  GrpId(i, j) = g => \A n \in 1 .. Len(Str(i, j, 3)) : ~Reached(a, i, j, 3, n)
      <4>1. \A n \in 1 .. Len(Str(a.i, a.j, 3)) : ~(n < a.n)
        BY <1>1, <2>3, <3>2 DEF Reached
      <4>2. Len(Str(a.i, a.j, 3)) \in Nat /\ a.n \in 1 .. Len(Str(a.i, a.j, 3)) + 1
        BY <1>1, <2>3, ListIs DEF Shaped, Str, Placed
      <4>3. a.n = 1 /\ Len(Str(a.i, a.j, 3)) > 0
        <5>1. PICK k : k = Len(Str(a.i, a.j, 3))
          OBVIOUS
        <5>2. PICK n : n = a.n
          OBVIOUS
        <5>3. k \in Nat /\ n \in 1 .. k + 1 /\ n <= k /\ \A e \in 1 .. k : ~(e < n)
          BY <2>3, <4>1, <4>2, <5>1, <5>2
        <5>4. 1 \in 1 .. k /\ k > 0 /\ n \in Nat /\ n >= 1
          BY <5>3
        <5>5. ~(1 < n)
          BY <5>3, <5>4
        <5> QED
          BY <5>1, <5>2, <5>4, <5>5
      <4>4. Str(a.i, a.j, 3) = Group[g].seg_delim
        BY <2>3, ItemsAre DEF Str
      <4> QED
        BY <2>3, <4>3, <4>4
    <3> QED
      BY <2>1, <3>1, <3>2
  <2> QED
    BY <1>3, <2>2, <2>3
<1>4. CASE a.list # 3 /\ new = seg
  <2>1. \A g \in Ids : a.list # 3 /\ new[g] = seg[g]
    BY <1>4
  <2>2. DOMAIN new = Ids /\ new = [g \in Ids |-> new[g]]
    BY <1>1, <1>4
  <2> QED
    BY <1>3, <2>1, <2>2, Zenon DEF Segs
<1>5. CASE /\ a.list = 3 /\ s \in DOMAIN r /\ r[s] \in Nat
           /\ new = [seg EXCEPT ![GrpId(a.i, a.j)] = FirstSeg(@, r[s])]
  <2>1. DOMAIN new = Ids /\ new = [g \in Ids |-> new[g]]
    BY <1>1, <1>5
  <2>2. \A g \in Ids : IF GrpId(a.i, a.j) = g THEN new[g] = IF seg[g] = NULL THEN r[s] ELSE seg[g]
                                              ELSE new[g] = seg[g]
    BY <1>1, <1>5 DEF FirstSeg
  <2>3. \A g \in Ids :
           \/ a.list = 3 /\ GrpId(a.i, a.j) # g /\ new[g] = seg[g]
           \/ new[g] = seg[g] /\ seg[g] # NULL
           \/ /\ a.list = 3 /\ GrpId(a.i, a.j) = g /\ seg[g] = NULL /\ new[g] = r[s]
              /\ s \in DOMAIN r
    BY <1>5, <2>2
  <2> QED
    BY <1>3, <2>1, <2>3, Zenon DEF Segs
<1> QED
  BY <1>4, <1>5

LEMMA ShapeHere == ReadInv /\ SetsInv /\ FewSets /\ pc \in Parsing => Shaped
BY ShapeIs

LEMMA ShapeNext == (ReadInv /\ SetsInv /\ FewSets /\ pc \in Parsing)' => Shaped'
BY ShapeHere, PTL

-----------------------------------------------------------------------------
\* The invariant, step by step: first what the steps do to the pool.
Pools == [cur : Nat, last : Int, size : Nat]

LEMMA PoolIs ==
    ASSUME NEW sp \in Pools, NEW n \in Nat
    PROVE  /\ SpAlloc(sp, n) \in Pools /\ SpAlloc(sp, n).cur = sp.cur + n
           /\ SpAlloc(sp, n).last = sp.cur /\ SpFree(sp, n) \in Pools
           /\ sp.last = n => SpFree(sp, n) = [cur |-> n, last |-> NoPiece, size |-> sp.size]
           /\ sp.last # n => SpFree(sp, n) = sp
           /\ sp.cur \in Nat
<1>1. PICK c \in Nat, l \in Int, z \in Nat : sp = [cur |-> c, last |-> l, size |-> z]
  BY DEF Pools
<1>2. SpAlloc(sp, n) = [cur |-> c + n, last |-> c, size |-> z] /\ sp.cur = c /\ sp.last = l
  <2>1. sp.cur = c /\ sp.last = l
    BY <1>1
  <2>2. PICK d : d = c + n
    OBVIOUS
  <2>3. SpAlloc(sp, n) = [sp EXCEPT !.cur = d, !.last = c]
    BY <2>1, <2>2 DEF SpAlloc
  <2>4. [sp EXCEPT !.cur = d, !.last = c] = [cur |-> d, last |-> c, size |-> z]
    <3>1. [sp EXCEPT !.cur = d] = [cur |-> d, last |-> l, size |-> z]
      BY <1>1
    <3>2. [[cur |-> d, last |-> l, size |-> z] EXCEPT !.last = c] = [cur |-> d, last |-> c, size |-> z]
      OBVIOUS
    <3> QED
      BY <3>1, <3>2, Zenon
  <2> QED
    BY <2>1, <2>2, <2>3, <2>4
<1>3. /\ l = n => SpFree(sp, n) = [cur |-> n, last |-> NoPiece, size |-> z]
      /\ l # n => SpFree(sp, n) = sp
      /\ sp.size = z
  BY <1>1 DEF SpFree
<1>4. [cur |-> c + n, last |-> c, size |-> z] \in Pools
  BY DEF Pools
<1>5. [cur |-> n, last |-> NoPiece, size |-> z] \in Pools
  BY DEF Pools, NoPiece
<1> QED
  BY <1>2, <1>3, <1>4, <1>5

LEMMA InitialPool == \A n \in Nat : SpInit(n) \in Pools
BY DEF Pools, SpInit, NoPiece

LEMMA FewSetsKept ==
    ASSUME file' = file
    PROVE  FewSets' = FewSets
BY DEF FewSets, Uncounted, FileNames, NamedGroups

LEMMA DelimInit == Init => DelimInv
<1> SUFFICES ASSUME Init PROVE DelimInv
  OBVIOUS
<1>1. pool_size \in Nat /\ spool = SpInit(0) /\ pc = "start" /\ FewSets
      /\ tree = <<>> /\ delim_ac = {} /\ at = Start
  BY PoolSizesNat DEF Init, Start
<1>2. SpoolInv
  BY <1>1, InitialPool DEF SpoolInv, Pools
<1> QED
  BY <1>1, <1>2 DEF DelimInv, Early, Parsing, Blank

\* Up to the sorting nothing is known of the delimiters.
LEMMA StillBlank ==
    ASSUME SpoolInv', FewSets',
           \/ pc' \in Early /\ Blank'
           \/ pc' \in {"out", "null", "crashed", "leaked"}
           \/ pc' = "sets" /\ Blank' /\ (seg_pat = [g \in Ids |-> NULL])'
    PROVE  DelimInv'
BY DEF DelimInv, Early, Parsing, Blank

LEMMA DelimStart ==
    ASSUME DelimInv, GetEngineSize \/ ArgInit \/ ModelInit
    PROVE  DelimInv'
<1>1. pc \in Early /\ SpoolInv /\ FewSets /\ Blank
  BY DEF DelimInv, GetEngineSize, ArgInit, ModelInit, Early, Blank
<1>2. FewSets' /\ Blank'
  BY <1>1, FewSetsKept DEF GetEngineSize, ArgInit, ModelInit, config, model, Blank
<1>3. pc' \in Early \cup {"out", "null", "crashed", "leaked"}
  BY DEF GetEngineSize, ArgInit, ModelInit, Early
<1>4. SpoolInv'
  <2>1. spool \in Pools /\ pool_size \in Nat /\ pool_size' = pool_size
    BY <1>1 DEF SpoolInv, Pools, GetEngineSize, ArgInit, ModelInit
  <2>2. \/ spool' = spool \/ spool' = SpAlloc(SpInit(pool_size), 1) \/ spool' = SpAlloc(spool, 1)
    BY DEF GetEngineSize, ArgInit, ModelInit
  <2> QED
    BY <2>1, <2>2, PoolIs, InitialPool DEF SpoolInv, Pools
<1> QED
  BY <1>2, <1>3, <1>4, StillBlank

LEMMA DelimRead ==
    ASSUME DelimInv, ReadNeConfig
    PROVE  DelimInv'
<1>1. pc \in Early /\ pc' \in Early \cup {"out", "crashed"}
  <2>1. CASE OpenConfig \/ CountSet \/ AllocSets \/ SetDefaults
    BY <2>1 DEF OpenConfig, CountSet, AllocSets, SetDefaults, Advance, Early
  <2>2. CASE ReadLine
    BY <2>2 DEF ReadLine, OpenSet, ReadItem, Advance, Early
  <2> QED
    BY <2>1, <2>2 DEF ReadNeConfig, ReadConfigStep
<1>2. SpoolInv /\ FewSets /\ Blank
  BY <1>1 DEF DelimInv, Blank
<1>3. FewSets'
  <2>1. file' = file
    BY DEF ReadNeConfig, ReadConfigStep, OpenConfig, CountSet, AllocSets, SetDefaults, ReadLine,
           config
  <2> QED
    BY <1>2, <2>1, FewSetsKept
<1>4. Blank'
  BY <1>2 DEF ReadNeConfig, model, Blank
<1>5. SpoolInv'
  <2>1. spool \in Pools /\ pool_size \in Nat /\ pool_size' = pool_size
    BY <1>2 DEF SpoolInv, Pools, ReadNeConfig
  <2>2. \/ spool' = spool \/ \E n \in Nat : spool' = SpAlloc(spool, n)
    <3>1. CASE OpenConfig \/ CountSet
      BY <3>1 DEF OpenConfig, CountSet
    <3>2. CASE AllocSets
      BY <3>2 DEF AllocSets
    <3>3. CASE SetDefaults
      <4>1. PICK n \in 0 .. NrWildcards : spool' = SpAlloc(spool, n)
        BY <3>3 DEF SetDefaults
      <4> QED
        BY <4>1 DEF NrWildcards
    <3>4. CASE ReadLine
      BY <3>4 DEF ReadLine, OpenSet, ReadItem
    <3> QED
      BY <3>1, <3>2, <3>3, <3>4 DEF ReadNeConfig, ReadConfigStep
  <2> QED
    BY <2>1, <2>2, PoolIs DEF SpoolInv, Pools
<1> QED
  BY <1>1, <1>3, <1>4, <1>5, StillBlank

LEMMA DelimCount ==
    ASSUME ReadInv, DelimInv, CountGroups
    PROVE  DelimInv'
<1>1. pc \in Early /\ SpoolInv /\ FewSets /\ Blank /\ pc \in Later
  BY DEF DelimInv, CountGroups, Early, Blank, Later
<1>2. FewSets' /\ Blank'
  BY <1>1, FewSetsKept DEF CountGroups, Keeps, Blank
<1>3. \/ pc' = "out" /\ spool' = spool
      \/ pc' = "sets" /\ seg_pat' = [g \in Ids |-> NULL]
         /\ spool' = SpAlloc(spool, 2 + 2 * Len(GroupSet))
  BY Zenon DEF CountGroups
<1>4. SpoolInv'
  <2>1. spool \in Pools /\ pool_size \in Nat /\ pool_size' = pool_size
    BY <1>1 DEF SpoolInv, Pools, CountGroups, Keeps
  <2>2. 2 + 2 * Len(GroupSet) \in Nat
    BY <1>1, CfgIs
  <2> QED
    BY <1>3, <2>1, <2>2, PoolIs DEF SpoolInv, Pools
<1>5. Ids' = Ids
  BY DEF CountGroups, Keeps, Ids, Group
<1> QED
  BY <1>2, <1>3, <1>4, <1>5, StillBlank

LEMMA DelimSort ==
    ASSUME DelimInv, SortSet
    PROVE  DelimInv'
<1>1. pc = "sets" /\ SpoolInv /\ FewSets /\ Blank /\ seg_pat = [g \in Ids |-> NULL]
  BY DEF DelimInv, SortSet, Blank
<1>2. FewSets' /\ Blank' /\ SpoolInv'
  BY <1>1, FewSetsKept DEF SortSet, Keeps, Blank, SpoolInv
<1>3. pc' \in {"sets", "out", "crashed"} /\ seg_pat' = seg_pat /\ Ids' = Ids
  BY <1>1 DEF SortSet, Keeps, Ids, Group
<1> QED
  BY <1>1, <1>2, <1>3, StillBlank

\* While the lists are gone through.
LEMMA StillFilled ==
    ASSUME SpoolInv', FewSets',
           \/ pc' \in {"out", "crashed", "null"}
           \/ pc' = "list" /\ Filled' /\ Placed(at)' /\ at'.n = 1
           \/ pc' = "item" /\ Filled' /\ Placed(at)' /\ Spare(mem, tree, spool, pat)'
           \/ pc' \in {"rules", "finish", "built"} /\ Filled' /\ AtEnd'
    PROVE  DelimInv'
BY DEF DelimInv, Early, Parsing

LEMMA FillKept ==
    ASSUME cfgs' = cfgs, grp_set' = grp_set
    PROVE  /\ /\ TreeHas(at', tree') /\ Stored(at', mem', tree') /\ Below(mem', tree', spool'.cur)
              /\ Segs(at', tree', seg_pat') /\ delim_ac' = Entered(tree')
              => Filled'
           /\ Placed(at') => Placed(at)'
           /\ Spare(mem', tree', spool', pat') => Spare(mem, tree, spool, pat)'
           /\ at' = [Start EXCEPT !.i = Len(grp_set) + 1] => AtEnd'
<1>1. /\ TreeHas(at', tree') => TreeHas(at, tree)'
      /\ Stored(at', mem', tree') => Stored(at, mem, tree)'
      /\ Below(mem', tree', spool'.cur) => Below(mem, tree, spool.cur)'
      /\ Segs(at', tree', seg_pat') => Segs(at, tree, seg_pat)'
      /\ Placed(at') => Placed(at)'
      /\ Spare(mem', tree', spool', pat') => Spare(mem, tree, spool, pat)'
  BY DelimsKept
<1>2. /\ delim_ac' = Entered(tree') => (delim_ac = Entered(tree))'
      /\ at' = [Start EXCEPT !.i = Len(grp_set) + 1] => AtEnd'
  BY DEF Entered, AtEnd, Start
<1> QED
  BY <1>1, <1>2, Zenon DEF Filled

LEMMA StrIs ==
    ASSUME Shaped, NEW i \in Sets, NEW j \in Grps(i), NEW l \in 1 .. 3
    PROVE  /\ Len(Str(i, j, l)) \in Nat /\ DOMAIN Str(i, j, l) = 1 .. Len(Str(i, j, l))
           /\ GrpId(i, j) \in Ids
<1>1. GrpId(i, j) \in Ids
  BY DEF Shaped
<1>2. IsList(Str(i, j, l))
  BY <1>1 DEF Shaped, Str
<1> QED
  BY <1>1, <1>2, ListIs

LEMMA AtStart ==
    Shaped /\ Blank /\ seg_pat = [g \in Ids |-> NULL] =>
       Filled /\ (grp_set = <<>> => AtEnd) /\ (grp_set # <<>> => Placed(at) /\ at.n = 1)
<1> SUFFICES ASSUME Shaped, Blank, seg_pat = [g \in Ids |-> NULL]
             PROVE  /\ Filled /\ (grp_set = <<>> => AtEnd)
                    /\ grp_set # <<>> => Placed(at) /\ at.n = 1
  OBVIOUS
<1>1. /\ tree = <<>> /\ DOMAIN tree = {} /\ delim_ac = {}
      /\ at = Start /\ at.i = 1 /\ at.j = 1 /\ at.list = 1 /\ at.n = 1
  BY DEF Blank, Start
<1>2. ASSUME NEW i \in Sets, NEW j \in Grps(i), NEW l \in 1 .. 3, NEW n \in 1 .. Len(Str(i, j, l))
      PROVE  ~Reached(at, i, j, l, n)
  <2>1. Len(Str(i, j, l)) \in Nat
    BY ListIs DEF Shaped, Str
  <2>2. Len(grp_set) \in Nat /\ Len(grp_set[i].grps) \in Nat
    BY DEF Shaped
  <2>3. i \in Nat /\ i >= 1 /\ j \in Nat /\ j >= 1
    BY <2>2 DEF Sets, Grps
  <2>4. l >= 1 /\ n >= 1 /\ l \in Nat /\ n \in Nat
    BY <2>1
  <2>5. ~(i < at.i) /\ ~(j < at.j) /\ ~(l < at.list) /\ ~(n < at.n)
    BY <1>1, <2>3, <2>4
  <2> QED
    BY <2>5, Zenon DEF Reached
<1>3. TreeHas(at, tree)
  BY <1>1, <1>2, FS_EmptySet, Zenon DEF TreeHas
<1>4. Stored(at, mem, tree) /\ Below(mem, tree, spool.cur) /\ delim_ac = Entered(tree)
  BY <1>1 DEF Stored, Below, Entered
<1>5. Segs(at, tree, seg_pat)
  <2>1. 3 \in 1 .. 3
    OBVIOUS
  <2>2. \A i \in Sets : \A j \in Grps(i) : \A n \in 1 .. Len(Str(i, j, 3)) : ~Reached(at, i, j, 3, n)
    BY <1>2, <2>1
  <2>3. \A g \in Ids : seg_pat[g] = NULL
    OBVIOUS
  <2>4. DOMAIN seg_pat = Ids /\ seg_pat = [g \in Ids |-> seg_pat[g]]
    OBVIOUS
  <2> QED
    BY <2>2, <2>3, <2>4, Zenon DEF Segs
<1>6. grp_set = <<>> => AtEnd
  BY <1>1 DEF AtEnd, Start
<1>7. grp_set # <<>> => Placed(at) /\ at.n = 1
  <2> SUFFICES ASSUME grp_set # <<>> PROVE Placed(at) /\ at.n = 1
    OBVIOUS
  <2>1. Len(grp_set) \in Nat \ {0}
    BY DEF Shaped, SetsInv
  <2>2. 1 \in Sets
    BY <2>1 DEF Sets
  <2>3. Len(grp_set[1].grps) \in Nat \ {0}
    BY <2>2 DEF Shaped
  <2>4. 1 \in Grps(1)
    BY <2>3 DEF Grps
  <2>5. Len(Str(1, 1, 1)) \in Nat
    BY <2>2, <2>4, StrIs
  <2>6. 1 \in 1 .. 3 /\ 1 \in 1 .. Len(Str(1, 1, 1)) + 1
    BY <2>5
  <2>7. at = [i |-> at.i, j |-> at.j, list |-> at.list, n |-> at.n]
    BY <1>1 DEF Start
  <2> QED
    BY <1>1, <2>2, <2>4, <2>6, <2>7 DEF Placed
<1> QED
  BY <1>3, <1>4, <1>5, <1>6, <1>7 DEF Filled

LEMMA AtStartNext ==
    (Shaped /\ Blank /\ seg_pat = [g \in Ids |-> NULL])' =>
       (Filled /\ (grp_set = <<>> => AtEnd) /\ (grp_set # <<>> => Placed(at) /\ at.n = 1))'
BY AtStart, PTL

LEMMA DelimSingles ==
    ASSUME ReadInv, SetsInv, DelimInv, ReadInv', SetsInv', SortSingles
    PROVE  DelimInv'
<1>1. /\ pc = "sets" /\ SpoolInv /\ FewSets /\ Blank /\ seg_pat = [g \in Ids |-> NULL]
      /\ pc \in Later
  BY DEF DelimInv, SortSingles, Blank, Later
<1>2. FewSets' /\ Blank' /\ (seg_pat = [g \in Ids |-> NULL])'
  BY <1>1, FewSetsKept DEF SortSingles, Keeps, Blank, Ids, Group
<1>3. \/ pc' = "out" /\ spool' = spool
      \/ pc' = "rules" /\ grp_set' = <<>> /\ spool' = SpAlloc(spool, 2 * Len(LeftOver))
      \/ pc' = "list" /\ grp_set' # <<>> /\ spool' = SpAlloc(spool, 2 * Len(LeftOver))
  <2>1. \/ pc' = "out" /\ spool' = spool
        \/ /\ spool' = SpAlloc(spool, 2 * Len(LeftOver))
           /\ pc' = IF grp_set' = <<>> THEN "rules" ELSE "list"
    BY Zenon DEF SortSingles
  <2> QED
    BY <2>1
<1>4. SpoolInv'
  <2>1. spool \in Pools /\ pool_size \in Nat /\ pool_size' = pool_size
    BY <1>1 DEF SpoolInv, Pools, SortSingles, Keeps
  <2>2. 2 * Len(LeftOver) \in Nat
    BY <1>1, LeftOverIs
  <2> QED
    BY <1>3, <2>1, <2>2, PoolIs DEF SpoolInv, Pools
<1>5. CASE pc' = "out"
  BY <1>2, <1>4, <1>5, StillBlank
<1>6. CASE pc' \in {"list", "rules"}
  <2>1. (ReadInv /\ SetsInv /\ FewSets /\ pc \in Parsing)'
    BY <1>2, <1>6 DEF Parsing
  <2>2. Shaped'
    BY <2>1, ShapeNext
  <2>3. (Shaped /\ Blank /\ seg_pat = [g \in Ids |-> NULL])'
    BY <1>2, <2>2
  <2>4. Filled' /\ (grp_set' = <<>> => AtEnd') /\ (grp_set' # <<>> => Placed(at)' /\ at'.n = 1)
    BY <2>3, AtStartNext
  <2> QED
    BY <1>2, <1>3, <1>4, <1>6, <2>4, StillFilled
<1> QED
  BY <1>3, <1>5, <1>6

\* The steps that write no delimiter.
LEMMA SpareBelow ==
    ASSUME NEW m, NEW t, NEW p \in Nat, Below(m, t, p), NEW s \in DOMAIN t
    PROVE  ~Owns(m, t[s], p) /\ ~Owns(m, t[s], p + 1) /\ ~Owns(m, t[s], p + 2)
<1>1. p + 1 \in Nat /\ p + 2 \in Nat /\ ~(p < p) /\ ~(p + 1 < p) /\ ~(p + 2 < p)
  OBVIOUS
<1> QED
  BY <1>1, Zenon DEF Below

LEMMA DelimBegin ==
    ASSUME ReadInv, SetsInv, DelimInv, BeginList
    PROVE  DelimInv'
<1>1. /\ pc = "list" /\ SpoolInv /\ FewSets /\ Filled /\ Placed(at) /\ cfgs' = cfgs
      /\ grp_set' = grp_set /\ file' = file /\ pool_size' = pool_size
      /\ tree' = tree /\ at' = at /\ seg_pat' = seg_pat /\ delim_ac' = delim_ac
  BY DEF DelimInv, BeginList, Parsing, Keeps
<1>2. Shaped /\ FewSets'
  BY <1>1, ShapeHere, FewSetsKept DEF Parsing
<1>3. spool \in Pools /\ pool_size \in Nat
  BY <1>1 DEF SpoolInv, Pools
<1>4. CASE pc' = "out" /\ spool' = spool
  <2>1. SpoolInv'
    BY <1>1, <1>4 DEF SpoolInv
  <2> QED
    BY <1>2, <1>4, <2>1, StillFilled
<1>5. CASE /\ pc' = "item" /\ pat' = spool.cur /\ mem' = PutPat(mem, spool.cur)
           /\ spool' = SpAlloc(SpAlloc(spool, 1), 1)
  <2>1. PICK p \in Nat : p = spool.cur
    BY <1>3, PoolIs
  <2>2. PICK one \in Pools : one = SpAlloc(spool, 1)
    BY <1>3, PoolIs
  <2>3. spool' = SpAlloc(one, 1) /\ one.cur = p + 1
    BY <1>3, <1>5, <2>1, <2>2, PoolIs
  <2>4. spool' \in Pools /\ spool'.cur = p + 2 /\ spool'.last = p + 1
    <3>1. SpAlloc(one, 1) \in Pools /\ SpAlloc(one, 1).cur = one.cur + 1
          /\ SpAlloc(one, 1).last = one.cur
      BY PoolIs
    <3>2. p + 1 + 1 = p + 2
      OBVIOUS
    <3> QED
      BY <2>3, <3>1, <3>2, Zenon
  <2>5. /\ DOMAIN mem' = DOMAIN mem \cup {p} /\ mem'[p] = [str |-> p + 1, grpset_index |-> NULL]
        /\ \A y \in DOMAIN mem : y # p => mem'[y] = mem[y]
    <3>1. mem' = Put(mem, p, [str |-> p + 1, grpset_index |-> NULL])
      BY <1>5, <2>1, Zenon DEF PutPat
    <3>2. PICK v : v = [str |-> p + 1, grpset_index |-> NULL]
      OBVIOUS
    <3>3. /\ DOMAIN Put(mem, p, v) = DOMAIN mem \cup {p} /\ Put(mem, p, v)[p] = v
          /\ \A y \in DOMAIN mem : y # p => Put(mem, p, v)[y] = mem[y]
      BY DEF Put
    <3> QED
      BY <3>1, <3>2, <3>3, Zenon
  <2>6. TreeHas(at, tree) /\ Stored(at, mem, tree) /\ Below(mem, tree, p) /\ Segs(at, tree, seg_pat)
        /\ delim_ac = Entered(tree)
    BY <1>1, <2>1, Zenon DEF Filled
  <2>7. ASSUME NEW s \in DOMAIN tree
        PROVE  /\ WellMade(mem', tree[s], s) /\ Typed(at, mem', tree[s], s)
               /\ \A x : Owns(mem', tree[s], x) <=> Owns(mem, tree[s], x)
    <3>1. PICK q : q = tree[s]
      OBVIOUS
    <3>2. WellMade(mem, q, s) /\ Typed(at, mem, q, s)
      BY <2>6, <3>1, Zenon DEF Stored
    <3>3. Same(mem, mem', q)
      <4>1. \A x \in Nat : Owns(mem, q, x) => x \in DOMAIN mem
        BY <1>2, <3>2, OwnsIs
      <4>2. \A x \in Nat : Owns(mem, q, x) => x # p
        BY <2>6, <3>1, SpareBelow
      <4> QED
        BY <2>5, <4>1, <4>2, Zenon DEF Same
    <3>4. SameMarks(at, at, s)
      BY Zenon DEF SameMarks
    <3> QED
      BY <1>2, <3>1, <3>2, <3>3, <3>4, PatternKept, Zenon
  <2>8. Stored(at, mem', tree)
    BY <2>6, <2>7, Zenon DEF Stored
  <2>9. Below(mem', tree, p)
    BY <2>6, <2>7, Zenon DEF Below
  <2>10. Below(mem', tree, p + 2)
    <3>1. \A x \in Nat : x < p => x < p + 2
      OBVIOUS
    <3> QED
      BY <2>9, <3>1, Zenon DEF Below
  <2>11. Spare(mem', tree, spool', p)
    <3>1. \A s \in DOMAIN tree : ~Owns(mem', tree[s], p) /\ ~Owns(mem', tree[s], p + 1)
      BY <2>9, SpareBelow
    <3>2. p + 1 < spool'.cur /\ p \in DOMAIN mem' /\ spool'.last # p
      BY <2>4, <2>5
    <3> QED
      BY <2>5, <2>9, <3>1, <3>2, Zenon DEF Spare
  <2>12. Filled' /\ Placed(at)' /\ Spare(mem, tree, spool, pat)'
    <3>1. /\ TreeHas(at', tree') /\ Stored(at', mem', tree') /\ Below(mem', tree', spool'.cur)
          /\ Segs(at', tree', seg_pat') /\ delim_ac' = Entered(tree')
      BY <1>1, <2>4, <2>6, <2>8, <2>10
    <3>2. Placed(at') /\ Spare(mem', tree', spool', pat')
      BY <1>1, <1>5, <2>1, <2>11
    <3> QED
      BY <1>1, <3>1, <3>2, FillKept
  <2>13. SpoolInv'
    BY <1>1, <1>3, <2>4 DEF SpoolInv, Pools
  <2> QED
    BY <1>2, <1>5, <2>12, <2>13, StillFilled
<1> QED
  BY <1>4, <1>5 DEF BeginList

LEMMA DelimEnd ==
    ASSUME ReadInv, SetsInv, DelimInv, EndList
    PROVE  DelimInv'
<1>1. /\ pc = "item" /\ SpoolInv /\ FewSets /\ Filled /\ Placed(at) /\ Spare(mem, tree, spool, pat)
      /\ cfgs' = cfgs /\ grp_set' = grp_set /\ file' = file /\ pool_size' = pool_size
      /\ tree' = tree /\ mem' = mem /\ seg_pat' = seg_pat /\ delim_ac' = delim_ac
      /\ spool' = DeletePat(spool, pat)
  BY DEF DelimInv, EndList, Parsing, Keeps, model
<1>2. Shaped /\ FewSets'
  BY <1>1, ShapeHere, FewSetsKept DEF Parsing
<1>3. spool \in Pools /\ pool_size \in Nat
  BY <1>1 DEF SpoolInv, Pools
<1>4. spool' \in Pools /\ Below(mem, tree, spool'.cur)
  <2>1. PICK p : p = pat
    OBVIOUS
  <2>2. /\ p \in Nat /\ p + 1 \in Nat /\ mem[p].str = p + 1
        /\ spool.last # p /\ (spool.last = p + 1 => Below(mem, tree, p))
    BY <1>1, <2>1 DEF Spare
  <2>3. spool' = SpFree(SpFree(spool, p + 1), p)
    BY <1>1, <2>1, <2>2 DEF DeletePat
  <2>4. CASE spool.last = p + 1
    <3>1. PICK one \in Pools : one = SpFree(spool, p + 1)
      BY <1>3, <2>2, PoolIs
    <3>2. one = [cur |-> p + 1, last |-> NoPiece, size |-> spool.size]
      BY <1>3, <2>2, <2>4, <3>1, PoolIs
    <3>3. one.cur = p + 1 /\ one.last # p
      BY <2>2, <3>2 DEF NoPiece
    <3>4. spool' = one
      BY <2>2, <2>3, <3>1, <3>3, PoolIs
    <3>5. \A x \in Nat : x < p => x < p + 1
      BY <2>2
    <3>6. Below(mem, tree, p + 1)
      BY <2>2, <2>4, <3>5, Zenon DEF Below
    <3> QED
      BY <3>3, <3>4, <3>6
  <2>5. CASE spool.last # p + 1
    <3>1. SpFree(spool, p + 1) = spool
      BY <1>3, <2>2, <2>5, PoolIs
    <3>2. spool' = SpFree(spool, p)
      BY <2>3, <3>1, Zenon
    <3>3. SpFree(spool, p) = spool
      BY <1>3, <2>2, PoolIs
    <3> QED
      BY <1>1, <1>3, <3>2, <3>3 DEF Filled
  <2> QED
    BY <2>4, <2>5
<1>5. SpoolInv'
  BY <1>1, <1>3, <1>4 DEF SpoolInv, Pools
<1>6. PICK a : a = at
  OBVIOUS
<1>7. PICK b : b = at'
  OBVIOUS
<1>8. /\ a.n > Len(Str(a.i, a.j, a.list))
      /\ \/ /\ a.list < 3 /\ b = [a EXCEPT !.list = @ + 1, !.n = 1] /\ pc' = "list"
         \/ /\ a.list = 3 /\ a.j < Len(grp_set[a.i].grps)
            /\ b = [a EXCEPT !.j = @ + 1, !.list = 1, !.n = 1] /\ pc' = "list"
         \/ /\ a.list = 3 /\ a.j = Len(grp_set[a.i].grps)
            /\ b = [i |-> a.i + 1, j |-> 1, list |-> 1, n |-> 1]
            /\ pc' = IF a.i < Len(grp_set) THEN "list" ELSE "rules"
  <2>1. Len(Lists) = 3
    BY ItemsAre
  <2>2. /\ at.n > Len(DelimStr)
        /\ \/ /\ at.list < 3 /\ at' = [at EXCEPT !.list = @ + 1, !.n = 1] /\ pc' = "list"
           \/ /\ at.list = 3 /\ at.j < Len(grp_set[at.i].grps)
              /\ at' = [at EXCEPT !.j = @ + 1, !.list = 1, !.n = 1] /\ pc' = "list"
           \/ /\ at.list = 3 /\ at.j = Len(grp_set[at.i].grps)
              /\ at' = [i |-> at.i + 1, j |-> 1, list |-> 1, n |-> 1]
              /\ pc' = IF at.i < Len(grp_set) THEN "list" ELSE "rules"
    BY <2>1, Zenon DEF EndList
  <2>3. DelimStr = Str(at.i, at.j, at.list)
    BY Zenon DEF DelimStr, Str
  <2> QED
    BY <1>6, <1>7, <2>2, <2>3, Zenon
<1>9. Placed(a) /\ TreeHas(a, tree) /\ Stored(a, mem, tree) /\ Segs(a, tree, seg_pat)
      /\ delim_ac = Entered(tree)
  BY <1>1, <1>6, Zenon DEF Filled
<1>10. SamePlace(a, b)
  <2>1. \/ a.list < 3 /\ b = [a EXCEPT !.list = @ + 1, !.n = 1]
        \/ a.list = 3 /\ a.j < Len(grp_set[a.i].grps)
           /\ b = [a EXCEPT !.j = @ + 1, !.list = 1, !.n = 1]
        \/ a.list = 3 /\ a.j = Len(grp_set[a.i].grps)
           /\ b = [i |-> a.i + 1, j |-> 1, list |-> 1, n |-> 1]
    BY <1>8, Zenon
  <2> QED
    BY <1>2, <1>8, <1>9, <2>1, ListReached, Zenon
<1>11. TreeHas(b, tree) /\ Stored(b, mem, tree) /\ Segs(b, tree, seg_pat)
  BY <1>2, <1>9, <1>10, SamePlaceKeeps
<1>12. Filled'
  <2>1. /\ TreeHas(at', tree') /\ Stored(at', mem', tree') /\ Below(mem', tree', spool'.cur)
        /\ Segs(at', tree', seg_pat') /\ delim_ac' = Entered(tree')
    BY <1>1, <1>4, <1>7, <1>9, <1>11
  <2> QED
    BY <1>1, <2>1, FillKept
<1>13. \/ pc' = "list" /\ Placed(b) /\ b.n = 1
       \/ pc' = "rules" /\ b = [Start EXCEPT !.i = Len(grp_set) + 1]
  <2>1. /\ a.i \in Sets /\ a.j \in Grps(a.i) /\ a.list \in 1 .. 3
        /\ a = [i |-> a.i, j |-> a.j, list |-> a.list, n |-> a.n]
    BY <1>9, Zenon DEF Placed
  <2>2. PICK i, j, l, n : a = [i |-> i, j |-> j, list |-> l, n |-> n]
    BY <2>1
  <2>3. a.i = i /\ a.j = j /\ a.list = l
    BY <2>2
  <2>4. /\ i \in Sets /\ j \in Grps(i) /\ l \in 1 .. 3
        /\ Len(grp_set) \in Nat /\ Len(grp_set[i].grps) \in Nat /\ i \in Nat /\ j \in Nat
    <3>1. i \in Sets /\ j \in Grps(i) /\ l \in 1 .. 3
      BY <2>1, <2>3
    <3>2. Len(grp_set) \in Nat /\ Len(grp_set[i].grps) \in Nat
      BY <1>2, <3>1 DEF Shaped
    <3> QED
      BY <3>1, <3>2 DEF Sets, Grps
  <2>5. ASSUME NEW x \in Sets, NEW y \in Grps(x), NEW z \in 1 .. 3,
               b = [i |-> x, j |-> y, list |-> z, n |-> 1]
        PROVE  Placed(b) /\ b.n = 1
    <3>1. b.i = x /\ b.j = y /\ b.list = z /\ b.n = 1
      BY <2>5
    <3>2. 1 \in 1 .. Len(Str(x, y, z)) + 1
      BY <1>2, StrIs
    <3> QED
      BY <2>5, <3>1, <3>2, Zenon DEF Placed
  <2>6. CASE l < 3 /\ b = [a EXCEPT !.list = @ + 1, !.n = 1] /\ pc' = "list"
    <3>1. l + 1 \in 1 .. 3
      BY <2>4, <2>6
    <3>2. b = [i |-> i, j |-> j, list |-> l + 1, n |-> 1]
      BY <2>2, <2>6
    <3> QED
      BY <2>4, <2>5, <2>6, <3>1, <3>2
  <2>7. CASE j < Len(grp_set[i].grps) /\ b = [a EXCEPT !.j = @ + 1, !.list = 1, !.n = 1] /\ pc' = "list"
    <3>1. j + 1 \in Grps(i) /\ 1 \in 1 .. 3
      BY <2>4, <2>7 DEF Grps
    <3>2. b = [i |-> i, j |-> j + 1, list |-> 1, n |-> 1]
      BY <2>2, <2>7
    <3> QED
      BY <2>4, <2>5, <2>7, <3>1, <3>2
  <2>8. CASE /\ b = [i |-> i + 1, j |-> 1, list |-> 1, n |-> 1]
             /\ i < Len(grp_set) /\ pc' = "list"
    <3>1. i + 1 \in Sets /\ 1 \in 1 .. 3
      BY <2>4, <2>8 DEF Sets
    <3>2. Len(grp_set[i + 1].grps) \in Nat \ {0}
      BY <1>2, <3>1 DEF Shaped
    <3>3. 1 \in Grps(i + 1)
      BY <3>2 DEF Grps
    <3> QED
      BY <2>5, <2>8, <3>1, <3>3
  <2>9. CASE /\ b = [i |-> i + 1, j |-> 1, list |-> 1, n |-> 1]
             /\ ~(i < Len(grp_set)) /\ pc' = "rules"
    <3>1. i + 1 = Len(grp_set) + 1
      BY <2>4, <2>9 DEF Sets
    <3> QED
      BY <2>9, <3>1 DEF Start
  <2>10. \/ l < 3 /\ b = [a EXCEPT !.list = @ + 1, !.n = 1] /\ pc' = "list"
         \/ /\ j < Len(grp_set[i].grps) /\ b = [a EXCEPT !.j = @ + 1, !.list = 1, !.n = 1]
            /\ pc' = "list"
         \/ /\ b = [i |-> i + 1, j |-> 1, list |-> 1, n |-> 1]
            /\ pc' = IF i < Len(grp_set) THEN "list" ELSE "rules"
    BY <1>8, <2>3, Zenon
  <2> QED
    BY <2>6, <2>7, <2>8, <2>9, <2>10
<1>14. \/ pc' = "list" /\ Placed(at)' /\ at'.n = 1
       \/ pc' = "rules" /\ AtEnd'
  BY <1>1, <1>7, <1>13, FillKept
<1> QED
  BY <1>2, <1>5, <1>12, <1>14, StillFilled

LEMMA DelimRest ==
    ASSUME ReadInv, SetsInv, DelimInv,
           ParseRules \/ Finish \/ Out \/ Destroy \/ UNCHANGED vars
    PROVE  DelimInv'
<1>1. /\ cfgs' = cfgs /\ grp_set' = grp_set /\ file' = file /\ pool_size' = pool_size
      /\ tree' = tree /\ mem' = mem /\ seg_pat' = seg_pat /\ delim_ac' = delim_ac
      /\ at' = at /\ pat' = pat
  BY DEF ParseRules, Finish, Out, Destroy, vars, Keeps, model, config
<1>2. SpoolInv /\ FewSets'
  BY <1>1, FewSetsKept DEF DelimInv
<1>3. CASE Finish \/ ParseRules
  <2>1. pc \in {"rules", "finish"} /\ Filled /\ AtEnd
    BY <1>3 DEF Finish, ParseRules, DelimInv, Parsing
  <2>2. Shaped
    BY <1>2, <2>1, ShapeHere DEF Parsing, DelimInv
  <2>3. \/ pc' = "out" /\ spool' = spool
        \/ pc' = "built" /\ spool' = spool
        \/ pc' = "finish" /\ spool' = SpAlloc(spool, Len(grp_set))
    BY <1>3 DEF Finish, ParseRules
  <2>4. Len(grp_set) \in Nat /\ spool \in Pools /\ spool.cur \in Nat
    BY <1>2, <2>2 DEF SpoolInv, Pools, Shaped
  <2>5. spool' \in Pools /\ spool'.cur \in Nat /\ spool.cur <= spool'.cur
    <3>1. PICK n \in Nat : n = Len(grp_set)
      BY <2>4
    <3>2. SpAlloc(spool, n) \in Pools /\ SpAlloc(spool, n).cur = spool.cur + n
      BY <2>4, PoolIs
    <3>3. CASE spool' = spool
      BY <2>4, <3>3
    <3>4. CASE spool' = SpAlloc(spool, n)
      <4>1. spool' \in Pools /\ spool'.cur = spool.cur + n
        BY <3>2, <3>4, Zenon
      <4> QED
        BY <2>4, <4>1
    <3> QED
      BY <2>3, <3>1, <3>3, <3>4
  <2>6. \A x \in Nat : x < spool.cur => x < spool'.cur
    BY <2>4, <2>5
  <2>7. SpoolInv'
    BY <1>1, <1>2, <2>5 DEF SpoolInv, Pools
  <2>8. Below(mem, tree, spool'.cur)
    BY <2>1, <2>6, Zenon DEF Filled, Below
  <2>9. Filled' /\ AtEnd'
    <3>1. /\ TreeHas(at', tree') /\ Stored(at', mem', tree') /\ Below(mem', tree', spool'.cur)
          /\ Segs(at', tree', seg_pat') /\ delim_ac' = Entered(tree')
      BY <1>1, <2>1, <2>8 DEF Filled
    <3>2. at' = [Start EXCEPT !.i = Len(grp_set) + 1]
      BY <1>1, <2>1 DEF AtEnd
    <3> QED
      BY <1>1, <3>1, <3>2, FillKept
  <2> QED
    BY <1>2, <2>3, <2>7, <2>9, StillFilled
<1>4. CASE Out \/ Destroy
  <2>1. pc' = "null" /\ SpoolInv'
    BY <1>1, <1>2, <1>4 DEF Out, Destroy, SpoolInv
  <2> QED
    BY <1>2, <2>1, StillFilled
<1>5. CASE UNCHANGED vars
  <2>1. pc' = pc /\ spool' = spool
    BY <1>5 DEF vars
  <2>2. SpoolInv' /\ Blank' = Blank /\ AtEnd' = AtEnd /\ Ids' = Ids
    BY <1>1, <1>2, <2>1 DEF SpoolInv, Blank, AtEnd, Ids, Group
  <2>3. Filled' = Filled /\ Placed(at)' = Placed(at)
        /\ Spare(mem, tree, spool, pat)' = Spare(mem, tree, spool, pat)
    BY <1>1, <2>1, DelimsKept DEF Filled, Entered
  <2> QED
    BY <1>1, <1>2, <2>1, <2>2, <2>3 DEF DelimInv
<1> QED
  BY <1>3, <1>4, <1>5

LEMMA PlacedNext ==
    ASSUME Shaped, NEW a, Placed(a), NEW b, b = [a EXCEPT !.n = @ + 1],
           a.n <= Len(Str(a.i, a.j, a.list))
    PROVE  Placed(b)
<1>1. /\ b.i = a.i /\ b.j = a.j /\ b.list = a.list /\ b.n = a.n + 1
      /\ b = [i |-> b.i, j |-> b.j, list |-> b.list, n |-> b.n]
  BY NextReached
<1>2. /\ a.i \in Sets /\ a.j \in Grps(a.i) /\ a.list \in 1 .. 3
      /\ a.n \in 1 .. Len(Str(a.i, a.j, a.list)) + 1
  BY Zenon DEF Placed
<1>3. Len(Str(a.i, a.j, a.list)) \in Nat
  BY <1>2, StrIs
<1>4. b.n \in 1 .. Len(Str(a.i, a.j, a.list)) + 1
  BY <1>1, <1>2, <1>3
<1> QED
  BY <1>1, <1>2, <1>4, Zenon DEF Placed

LEMMA ItemAt ==
    ASSUME InList, Placed(at), Shaped, NEW s, s = DelimStr[at.n]
    PROVE  /\ at.n <= Len(Str(at.i, at.j, at.list)) /\ s = Str(at.i, at.j, at.list)[at.n]
           /\ at.i \in Sets /\ at.j \in Grps(at.i) /\ at.list \in 1 .. 3 /\ GrpId(at.i, at.j) \in Ids
           /\ at.i \in Ids
<1>1. DelimStr = Str(at.i, at.j, at.list)
  BY Zenon DEF DelimStr, Str
<1>2. at.i \in Sets /\ at.j \in Grps(at.i) /\ at.list \in 1 .. 3
  BY Zenon DEF Placed
<1>3. GrpId(at.i, at.j) \in Ids /\ at.i \in Ids
  BY <1>2 DEF Shaped
<1> QED
  BY <1>1, <1>2, <1>3, Zenon DEF InList

LEMMA DelimSpecial ==
    ASSUME ReadInv, SetsInv, DelimInv, SpecialItem
    PROVE  DelimInv'
<1>1. /\ pc = "item" /\ SpoolInv /\ FewSets /\ Filled /\ Placed(at) /\ Spare(mem, tree, spool, pat)
      /\ cfgs' = cfgs /\ grp_set' = grp_set /\ file' = file /\ pool_size' = pool_size /\ InList
      /\ tree' = tree /\ mem' = mem /\ seg_pat' = seg_pat /\ delim_ac' = delim_ac /\ pat' = pat
  BY DEF DelimInv, SpecialItem, InList, Parsing, Keeps
<1>2. Shaped /\ FewSets'
  BY <1>1, ShapeHere, FewSetsKept DEF Parsing
<1>3. spool \in Pools /\ pool_size \in Nat
  BY <1>1 DEF SpoolInv, Pools
<1>4. CASE pc' = "out" /\ spool' = spool
  <2>1. SpoolInv'
    BY <1>1, <1>4 DEF SpoolInv
  <2> QED
    BY <1>2, <1>4, <2>1, StillFilled
<1>5. CASE /\ pc' = pc /\ Lists[at.list] # "seg_delim" /\ at' = [at EXCEPT !.n = @ + 1]
           /\ spool' = spool \/ spool' = SpAlloc(SpAlloc(spool, 1), 1)
           /\ DelimStr[at.n] \in {Hat, Dollar}
  <2>1. PICK a : a = at
    OBVIOUS
  <2>2. PICK b : b = at'
    OBVIOUS
  <2>3. PICK s \in {Hat, Dollar} : s = DelimStr[at.n]
    BY <1>5
  <2>4. /\ Placed(a) /\ b = [a EXCEPT !.n = @ + 1]
        /\ a.n <= Len(Str(a.i, a.j, a.list)) /\ s = Str(a.i, a.j, a.list)[a.n]
        /\ TreeHas(a, tree) /\ Stored(a, mem, tree) /\ Segs(a, tree, seg_pat)
    BY <1>1, <1>2, <1>5, <2>1, <2>2, <2>3, ItemAt, Zenon DEF Filled
  <2>5. Placed(b) /\ Adds(a, b, s)
    BY <1>2, <2>4, PlacedNext, NextSays
  <2>6. TreeHas(b, tree)
    BY <1>2, <2>4, TreeNext
  <2>7. ASSUME NEW u \in DOMAIN tree
        PROVE  WellMade(mem, tree[u], u) /\ Typed(b, mem, tree[u], u)
    <3>1. PICK q : q = tree[u]
      OBVIOUS
    <3>2. WellMade(mem, q, u) /\ Typed(a, mem, q, u)
      BY <2>4, <3>1, Zenon DEF Stored
    <3>3. u # s
      BY <2>4 DEF TreeHas
    <3>4. SameMarks(a, b, u)
      BY <2>5, <3>3, Zenon DEF SameMarks, Adds
    <3>5. Same(mem, mem, q)
      BY <1>2, <3>2, OwnsIs DEF Same
    <3> QED
      BY <1>2, <3>1, <3>2, <3>4, <3>5, PatternKept, Zenon
  <2>8. Stored(b, mem, tree)
    BY <2>4, <2>7, Zenon DEF Stored
  <2>9. Segs(b, tree, seg_pat)
    <3>1. \A u \in DOMAIN tree : tree[u] \in Nat
      BY <2>7 DEF WellMade
    <3>2. a.list # 3
      BY <1>5, <2>1, ItemsAre
    <3> QED
      BY <1>2, <2>4, <3>1, <3>2, SegsNext
  <2>10. /\ spool' \in Pools /\ spool'.cur \in Nat /\ spool.cur \in Nat /\ spool.cur <= spool'.cur
         /\ spool' = spool \/ spool'.last = spool.cur + 1
    <3>1. PICK one \in Pools : one = SpAlloc(spool, 1)
      BY <1>3, PoolIs
    <3>2. one.cur = spool.cur + 1 /\ spool.cur \in Nat
      BY <1>3, <3>1, PoolIs
    <3>3. SpAlloc(one, 1) \in Pools /\ SpAlloc(one, 1).cur = one.cur + 1
          /\ SpAlloc(one, 1).last = one.cur
      BY PoolIs
    <3>4. CASE spool' = spool
      BY <1>3, <3>2, <3>4
    <3>5. CASE spool' = SpAlloc(one, 1)
      <4>1. spool' \in Pools /\ spool'.cur = one.cur + 1 /\ spool'.last = one.cur
        BY <3>3, <3>5, Zenon
      <4> QED
        BY <3>2, <4>1
    <3> QED
      BY <1>5, <3>1, <3>4, <3>5
  <2>11. Spare(mem, tree, spool', pat) /\ Below(mem, tree, spool'.cur)
    <3>1. /\ pat \in Nat /\ pat + 1 < spool.cur
          /\ spool.last # pat /\ (spool.last = pat + 1 => Below(mem, tree, pat))
          /\ Below(mem, tree, spool.cur)
      BY <1>1 DEF Spare, Filled
    <3>2. pat + 1 < spool'.cur /\ (spool'.last = spool.cur + 1 => spool'.last # pat /\ spool'.last # pat + 1)
      BY <2>10, <3>1
    <3>3. spool'.last # pat /\ (spool'.last = pat + 1 => Below(mem, tree, pat))
      BY <2>10, <3>1, <3>2
    <3>4. Spare(mem, tree, spool', pat)
      BY <1>1, <3>2, <3>3, Zenon DEF Spare
    <3>5. \A x \in Nat : x < spool.cur => x < spool'.cur
      BY <2>10
    <3> QED
      BY <3>1, <3>4, <3>5, Zenon DEF Below
  <2>12. Filled' /\ Placed(at)' /\ Spare(mem, tree, spool, pat)'
    <3>1. /\ TreeHas(at', tree') /\ Stored(at', mem', tree') /\ Below(mem', tree', spool'.cur)
          /\ Segs(at', tree', seg_pat') /\ delim_ac' = Entered(tree')
      BY <1>1, <2>2, <2>6, <2>8, <2>9, <2>11 DEF Filled
    <3>2. Placed(at') /\ Spare(mem', tree', spool', pat')
      BY <1>1, <2>2, <2>5, <2>11
    <3> QED
      BY <1>1, <3>1, <3>2, FillKept
  <2>13. SpoolInv'
    BY <1>1, <1>3, <2>10 DEF SpoolInv, Pools
  <2> QED
    BY <1>1, <1>2, <1>5, <2>12, <2>13, StillFilled
<1>6. \/ pc' = "out" /\ spool' = spool
      \/ /\ pc' = pc /\ Lists[at.list] # "seg_delim" /\ at' = [at EXCEPT !.n = @ + 1]
         /\ spool' = spool \/ spool' = SpAlloc(SpAlloc(spool, 1), 1)
         /\ DelimStr[at.n] \in {Hat, Dollar}
  <2>1. \/ pc' = "out" /\ spool' = spool
        \/ /\ pc' = pc /\ Lists[at.list] # "seg_delim" /\ at' = [at EXCEPT !.n = @ + 1]
           /\ spool' = IF special THEN spool ELSE SpAlloc(SpAlloc(spool, 1), 1)
           /\ DelimStr[at.n] \in {Hat, Dollar}
    BY Zenon DEF SpecialItem, NextItem
  <2> QED
    BY <2>1, Zenon
<1> QED
  BY <1>4, <1>5, <1>6

\* What the memory holds after the writing of a delimiter.
LEMMA NewWrites ==
    ASSUME NEW m, NEW p \in Nat, NEW c \in Nat, p + 1 < c, p \in DOMAIN m,
           NEW s, NEW v1, NEW v2, NEW v3, NEW v4, NEW v5,
           NEW m1, m1 = Put(m, p + 1, s), NEW m2, m2 = Put(m1, p, v1),
           NEW m3, m3 = Put(m2, c, v2), NEW m4, m4 = Put(m3, c, v3),
           NEW m5, m5 = Put(m4, c + 1, v4), NEW w, w = Put(m5, c + 2, v5)
    PROVE  /\ DOMAIN m \cup {p, p + 1, c, c + 1, c + 2} \subseteq DOMAIN w
           /\ w[p] = v1 /\ w[p + 1] = s /\ w[c] = v3 /\ w[c + 1] = v4 /\ w[c + 2] = v5
           /\ \A x \in DOMAIN m : x \notin {p, p + 1, c, c + 1, c + 2} => w[x] = m[x]
<1>1. p # p + 1 /\ c # p /\ c # p + 1 /\ c + 1 # p /\ c + 1 # p + 1 /\ c + 1 # c
      /\ c + 2 # p /\ c + 2 # p + 1 /\ c + 2 # c /\ c + 2 # c + 1
  OBVIOUS
<1>2. DOMAIN w = DOMAIN m \cup {p + 1} \cup {p} \cup {c} \cup {c} \cup {c + 1} \cup {c + 2}
  BY Zenon DEF Put
<1>3. w[p] = v1 /\ w[p + 1] = s /\ w[c] = v3
  BY <1>1 DEF Put
<1>4. w[c + 1] = v4 /\ w[c + 2] = v5
  BY <1>1 DEF Put
<1>5. \A x \in DOMAIN m : x \notin {p, p + 1, c, c + 1, c + 2} => w[x] = m[x]
  BY DEF Put
<1> QED
  BY <1>2, <1>3, <1>4, <1>5

LEMMA KnownWrites ==
    ASSUME NEW m, NEW p, NEW h \in DOMAIN m, NEW k \in DOMAIN m, h # p + 1, k # p + 1, k # h,
           NEW s, NEW v1, v1 = m[h], NEW v2,
           NEW m1, m1 = Put(m, p + 1, s), NEW m2, m2 = Put(m1, h, v1), NEW w, w = Put(m2, k, v2)
    PROVE  /\ DOMAIN m \cup {p + 1} \subseteq DOMAIN w /\ w[k] = v2
           /\ \A x \in DOMAIN m : x \notin {p + 1, k} => w[x] = m[x]
<1>1. DOMAIN w = DOMAIN m \cup {p + 1} \cup {h} \cup {k}
  BY Zenon DEF Put
<1>2. w[k] = v2
  BY DEF Put
<1>3. \A x \in DOMAIN m : x \notin {p + 1, k} => w[x] = m[x]
  BY DEF Put
<1> QED
  BY <1>1, <1>2, <1>3

LEMMA FreshWrites ==
    ASSUME NEW m, NEW p, NEW h \in DOMAIN m, NEW c, h # p + 1, c # p + 1, c # h,
           NEW s, NEW v1, NEW v2,
           NEW m1, m1 = Put(m, p + 1, s), NEW m2, m2 = Put(m1, h, v1), NEW w, w = Put(m2, c, v2)
    PROVE  /\ DOMAIN m \cup {p + 1, c} \subseteq DOMAIN w /\ w[c] = v2 /\ w[h] = v1
           /\ \A x \in DOMAIN m : x \notin {p + 1, c, h} => w[x] = m[x]
<1>1. DOMAIN w = DOMAIN m \cup {p + 1} \cup {h} \cup {c}
  BY Zenon DEF Put
<1>2. w[c] = v2 /\ w[h] = v1
  BY DEF Put
<1>3. \A x \in DOMAIN m : x \notin {p + 1, c, h} => w[x] = m[x]
  BY DEF Put
<1> QED
  BY <1>1, <1>2, <1>3

\* What the handler of a delimiter does to it, case by case.
ItemNew(s) ==
    /\ s \notin DOMAIN tree /\ MadeNew(mem, mem', at, s, pat, spool.cur)
    /\ tree' = Put(tree, s, pat) /\ pat' = spool.cur + 2
    /\ spool' = SpAlloc(SpAlloc(spool, 3), 1) /\ delim_ac' = delim_ac \cup {<<s, pat>>}
ItemKnown(s) ==
    /\ s \in DOMAIN tree /\ Index(mem, tree[s])[at.i] # NULL
    /\ MadeKnown(mem, mem', at, tree[s], pat)
    /\ tree' = Put(tree, s, tree[s]) /\ pat' = pat
    /\ spool' = spool /\ delim_ac' = delim_ac
ItemFresh(s) ==
    /\ s \in DOMAIN tree /\ Index(mem, tree[s])[at.i] = NULL
    /\ MadeFresh(mem, mem', at, tree[s], pat, spool.cur)
    /\ tree' = Put(tree, s, tree[s]) /\ pat' = pat
    /\ spool' = SpAlloc(SpAlloc(spool, 0), 1) /\ delim_ac' = delim_ac
ItemSegs(s) ==
    seg_pat' = IF Lists[at.list] = "seg_delim"
               THEN [seg_pat EXCEPT ![GrpId(at.i, at.j)] = FirstSeg(@, tree'[s])]
               ELSE seg_pat

LEMMA ItemCases ==
    ASSUME Shaped, Filled, Placed(at), Spare(mem, tree, spool, pat), spool \in Pools, DelimItem,
           NEW s, s = DelimStr[at.n]
    PROVE  \/ pc' \in {"out", "crashed"} /\ spool' = spool
           \/ /\ pc' = pc /\ at' = [at EXCEPT !.n = @ + 1] /\ s \notin {Hat, Dollar}
              /\ ItemSegs(s) /\ (ItemNew(s) \/ ItemKnown(s) \/ ItemFresh(s))
<1> DEFINE written == Put(mem, mem[pat].str, DelimStr[at.n])
           isNew == DelimStr[at.n] \notin DOMAIN tree
           index == IF isNew THEN spool.cur ELSE mem[tree[DelimStr[at.n]]].grpset_index
           p == IF isNew THEN pat ELSE tree[DelimStr[at.n]]
           indexed == IF isNew
                      THEN Put(Put(written, p, [written[p] EXCEPT !.grpset_index = index]),
                               index, [g \in Ids |-> NULL])
                      ELSE written
           known == indexed[index][at.i] # NULL
           types == IF known THEN indexed[index][at.i]
                             ELSE spool.cur + (IF isNew THEN 1 ELSE 0)
           before == IF known THEN indexed[types]
                              ELSE [j \in DOMAIN grp_set[at.i].grps |-> {}]
           after == [before EXCEPT ![at.j] = WithType(@, Lists[at.list])]
           entry == [indexed[index] EXCEPT ![at.i] = types]
           typed == Put(Put(indexed, index, entry), types, after)
           pieces == (IF isNew THEN 3 ELSE 0) + (IF known THEN 0 ELSE 1)
           spare == spool.cur + 2
<1>1. \/ pc' \in {"out", "crashed"} /\ spool' = spool
      \/ /\ pc' = pc /\ at' = [at EXCEPT !.n = @ + 1] /\ DelimStr[at.n] \notin {Hat, Dollar}
         /\ spool' = IF pieces = 0 THEN spool ELSE SpAlloc(SpAlloc(spool, pieces - 1), 1)
         /\ mem' = IF isNew THEN PutPat(typed, spare) ELSE typed
         /\ pat' = IF isNew THEN spare ELSE pat
         /\ tree' = Put(tree, DelimStr[at.n], p)
         /\ delim_ac' = IF isNew THEN delim_ac \cup {<<DelimStr[at.n], p>>} ELSE delim_ac
         /\ seg_pat' = IF Lists[at.list] = "seg_delim"
                       THEN [seg_pat EXCEPT ![GrpId(at.i, at.j)] = FirstSeg(@, p)]
                       ELSE seg_pat
  BY Zenon DEF DelimItem, NextItem, TreeIsFull
<1>2. /\ pat \in Nat /\ spool.cur \in Nat /\ pat + 1 < spool.cur /\ pat \in DOMAIN mem
      /\ mem[pat] = [str |-> pat + 1, grpset_index |-> NULL]
      /\ mem[pat].str = pat + 1
      /\ \A u \in DOMAIN tree : ~Owns(mem, tree[u], pat + 1)
  <2>1. /\ pat \in Nat /\ pat + 1 < spool.cur /\ pat \in DOMAIN mem
        /\ mem[pat] = [str |-> pat + 1, grpset_index |-> NULL]
        /\ \A u \in DOMAIN tree : ~Owns(mem, tree[u], pat + 1)
    BY Zenon DEF Spare
  <2>2. spool.cur \in Nat
    BY PoolIs
  <2>3. mem[pat].str = pat + 1
    BY <2>1
  <2> QED
    BY <2>1, <2>2, <2>3
<1>3. /\ at.i \in Sets /\ at.j \in Grps(at.i) /\ at.i \in Ids
      /\ DOMAIN grp_set[at.i].grps = Grps(at.i)
  BY DEF Placed, Shaped
<1>4. written = Put(mem, pat + 1, s)
  BY <1>2, Zenon
<1>5. ASSUME tree' = Put(tree, DelimStr[at.n], p),
             seg_pat' = IF Lists[at.list] = "seg_delim"
                        THEN [seg_pat EXCEPT ![GrpId(at.i, at.j)] = FirstSeg(@, p)]
                        ELSE seg_pat
      PROVE  ItemSegs(s)
  <2>1. tree'[s] = p
    BY <1>5 DEF Put
  <2> QED
    BY <1>5, <2>1, Zenon DEF ItemSegs
<1>6. before = [j \in Grps(at.i) |-> {}] =>
         after = [k \in Grps(at.i) |-> IF k = at.j THEN {Lists[at.list]} ELSE {}]
  <2>1. PICK g : g = Grps(at.i)
    OBVIOUS
  <2>2. PICK j \in g : j = at.j
    BY <1>3, <2>1
  <2>3. PICK x : x = Lists[at.list]
    OBVIOUS
  <2>4. [[k \in g |-> {}] EXCEPT ![j] = @ \cup {x}] = [k \in g |-> IF k = j THEN {x} ELSE {}]
    OBVIOUS
  <2> HIDE DEF before
  <2>5. SUFFICES ASSUME before = [k \in g |-> {}]
                 PROVE  after = [k \in g |-> IF k = j THEN {x} ELSE {}]
    BY <2>1, <2>2, <2>3
  <2>6. after = [before EXCEPT ![j] = @ \cup {x}]
    BY <2>2, <2>3, Zenon DEF WithType
  <2> QED
    BY <2>4, <2>5, <2>6, Zenon
<1>7. ASSUME isNew,
             spool' = IF pieces = 0 THEN spool ELSE SpAlloc(SpAlloc(spool, pieces - 1), 1),
             mem' = IF isNew THEN PutPat(typed, spare) ELSE typed,
             pat' = IF isNew THEN spare ELSE pat,
             tree' = Put(tree, DelimStr[at.n], p),
             delim_ac' = IF isNew THEN delim_ac \cup {<<DelimStr[at.n], p>>} ELSE delim_ac
      PROVE  ItemNew(s)
  <2> DEFINE blank == [g \in Ids |-> NULL]
             first == [str |-> pat + 1, grpset_index |-> spool.cur]
             empty == [str |-> spool.cur + 3, grpset_index |-> NULL]
             mine == [g \in Ids |-> IF g = at.i THEN spool.cur + 1 ELSE NULL]
             m2 == Put(written, pat, first)
  <2>1. p = pat /\ index = spool.cur
    BY <1>7, Zenon
  <2>2. [written[pat] EXCEPT !.grpset_index = spool.cur] = first
    <3>1. written[pat] = mem[pat]
      BY <1>2, <1>4 DEF Put
    <3>2. written[pat] = [str |-> pat + 1, grpset_index |-> NULL]
      BY <1>2, <3>1
    <3>3. [[str |-> pat + 1, grpset_index |-> NULL] EXCEPT !.grpset_index = spool.cur] = first
      OBVIOUS
    <3> QED
      BY <3>2, <3>3, Zenon
  <2>3. indexed = Put(m2, spool.cur, blank)
    <3> HIDE DEF written, first, blank
    <3>1. indexed = Put(Put(written, p, [written[p] EXCEPT !.grpset_index = index]), index, blank)
      BY <1>7, Zenon DEF blank
    <3> HIDE DEF indexed, index, p
    <3> QED
      BY <2>1, <2>2, <3>1, Zenon
  <2>4. indexed[index] = blank
    <3> HIDE DEF written, first, blank, indexed, index, m2
    <3> QED
      BY <2>1, <2>3 DEF Put
  <2>5. ~known
    <3> HIDE DEF indexed, index
    <3> QED
      BY <1>3, <2>4
  <2>6. types = spool.cur + 1 /\ pieces = 4
    <3> HIDE DEF known
    <3>1. types = spool.cur + 1 /\ pieces = 3 + 1
      BY <1>7, <2>5, Zenon
    <3> HIDE DEF types, pieces
    <3> QED
      BY <3>1
  <2>7. before = [j \in Grps(at.i) |-> {}]
    <3> HIDE DEF known, types
    <3> QED
      BY <1>3, <2>5, Zenon
  <2>8. entry = mine
    <3> HIDE DEF indexed, index, types
    <3> QED
      BY <1>3, <2>4, <2>6
  <2>9. typed = Put(Put(indexed, spool.cur, mine), spool.cur + 1, after)
    <3> HIDE DEF indexed, index, types, mine, entry, after
    <3> QED
      BY <2>1, <2>6, <2>8, Zenon
  <2>10. mem' = Put(typed, spool.cur + 2, empty)
    <3> HIDE DEF typed
    <3>1. mem' = PutPat(typed, spool.cur + 2)
      BY <1>7, Zenon
    <3>2. spool.cur + 2 + 1 = spool.cur + 3
      BY <1>2
    <3> QED
      BY <3>1, <3>2, Zenon DEF PutPat
  <2>11. after = [k \in Grps(at.i) |-> IF k = at.j THEN {Lists[at.list]} ELSE {}]
    <3> HIDE DEF before, after
    <3> QED
      BY <1>6, <2>7
  <2> HIDE DEF written, indexed, index, p, types, before, after, entry, typed, blank, first, empty,
               mine, m2
  <2>12. PICK w, m1, n2, m3, m4, m5 :
            /\ w = mem' /\ m1 = written /\ n2 = Put(m1, pat, first) /\ m3 = indexed
            /\ m4 = Put(m3, spool.cur, mine) /\ m5 = typed
    BY Zenon
  <2>13. /\ m1 = Put(mem, pat + 1, s) /\ m3 = Put(n2, spool.cur, blank)
         /\ m5 = Put(m4, spool.cur + 1, after) /\ w = Put(m5, spool.cur + 2, empty)
    BY <1>4, <2>3, <2>9, <2>10, <2>12, Zenon DEF m2
  <2>14. /\ DOMAIN mem \cup {pat, pat + 1, spool.cur, spool.cur + 1, spool.cur + 2} \subseteq DOMAIN w
         /\ w[pat] = first /\ w[pat + 1] = s /\ w[spool.cur] = mine
         /\ w[spool.cur + 1] = after /\ w[spool.cur + 2] = empty
         /\ \A x \in DOMAIN mem :
               x \notin {pat, pat + 1, spool.cur, spool.cur + 1, spool.cur + 2} => w[x] = mem[x]
    BY <1>2, <2>12, <2>13, NewWrites
  <2>15. MadeNew(mem, mem', at, s, pat, spool.cur)
    BY <2>11, <2>12, <2>14, Zenon DEF MadeNew, first, empty, mine
  <2>16. spool' = SpAlloc(SpAlloc(spool, 3), 1)
    <3>1. pieces # 0 /\ pieces - 1 = 3
      BY <2>6
    <3> HIDE DEF pieces
    <3> QED
      BY <1>7, <3>1, Zenon
  <2> QED
    BY <1>7, <2>1, <2>15, <2>16, Zenon DEF ItemNew
<1>8. ASSUME ~isNew,
             spool' = IF pieces = 0 THEN spool ELSE SpAlloc(SpAlloc(spool, pieces - 1), 1),
             mem' = IF isNew THEN PutPat(typed, spare) ELSE typed,
             pat' = IF isNew THEN spare ELSE pat,
             tree' = Put(tree, DelimStr[at.n], p),
             delim_ac' = IF isNew THEN delim_ac \cup {<<DelimStr[at.n], p>>} ELSE delim_ac
      PROVE  ItemKnown(s) \/ ItemFresh(s)
  <2>0. PICK q : q = tree[s]
    OBVIOUS
  <2>1. s \in DOMAIN tree /\ WellMade(mem, q, s) /\ Typed(at, mem, q, s)
    <3>1. s \in DOMAIN tree
      BY <1>8, Zenon
    <3> QED
      BY <2>0, <3>1, Zenon DEF Filled, Stored
  <2>2. PICK h : h = mem[q].grpset_index
    OBVIOUS
  <2>3. p = q /\ index = h
    BY <1>8, <2>0, <2>2, Zenon
  <2>4. h \in DOMAIN mem /\ h \in Nat /\ Owns(mem, q, h) /\ h # pat + 1 /\ h < spool.cur
    <3>1. h \in DOMAIN mem /\ h \in Nat /\ Owns(mem, q, h)
      BY <2>1, <2>2, OwnsIs
    <3>2. h # pat + 1
      BY <1>2, <2>0, <2>1, <3>1
    <3>3. h < spool.cur
      BY <2>0, <2>1, <3>1 DEF Filled, Below
    <3> QED
      BY <3>1, <3>2, <3>3
  <2>5. indexed = written
    <3> HIDE DEF written
    <3> QED
      BY <1>8, Zenon
  <2>6. indexed[index] = mem[h] /\ mem[h] = Index(mem, q)
    <3>1. Put(mem, pat + 1, s)[h] = mem[h]
      BY <2>4 DEF Put
    <3> HIDE DEF indexed, index, written
    <3>2. indexed[index] = Put(mem, pat + 1, s)[h]
      BY <1>4, <2>3, <2>5, Zenon
    <3> QED
      BY <2>2, <3>1, <3>2, Zenon DEF Index
  <2>7. PICK x : x = mem[h]
    OBVIOUS
  <2>8. x = [i \in Ids |-> x[i]] /\ x = Index(mem, q)
    BY <2>1, <2>6, <2>7, Zenon DEF WellMade
  <2>9. mem' = typed /\ pat' = pat /\ delim_ac' = delim_ac /\ tree' = Put(tree, s, q)
    <3> HIDE DEF typed, p
    <3> QED
      BY <1>8, <2>3, Zenon
  <2>10. CASE known
    <3>1. PICK k : k = x[at.i]
      OBVIOUS
    <3>2. k # NULL /\ types = k /\ before = indexed[k]
      <4>1. indexed[index][at.i] = k
        BY <2>6, <2>7, <3>1
      <4> HIDE DEF indexed, index
      <4> QED
        BY <2>10, <4>1, Zenon
    <3>3. k \in DOMAIN mem /\ k \in Nat /\ k > h /\ Owns(mem, q, k) /\ k # pat + 1 /\ k # h
      <4>1. k \in Nat /\ k \in DOMAIN mem /\ k > h
        <5>1. Index(mem, q)[at.i] # NULL =>
                 /\ Index(mem, q)[at.i] \in Nat /\ Index(mem, q)[at.i] \in DOMAIN mem
                 /\ Index(mem, q)[at.i] > mem[q].grpset_index
          BY <1>3, <2>1, Zenon DEF WellMade
        <5> QED
          BY <2>2, <2>8, <3>1, <3>2, <5>1, Zenon
      <4>2. Owns(mem, q, k)
        BY <1>3, <2>8, <3>1, Zenon DEF Owns
      <4>3. k # pat + 1
        BY <1>2, <2>0, <2>1, <4>2
      <4> QED
        BY <2>4, <4>1, <4>2, <4>3
    <3>4. before = mem[k]
      <4>1. Put(mem, pat + 1, s)[k] = mem[k]
        BY <3>3 DEF Put
      <4> HIDE DEF indexed, written, before
      <4> QED
        BY <1>4, <2>5, <3>2, <4>1, Zenon
    <3>5. entry = x
      <4>1. [x EXCEPT ![at.i] = x[at.i]] = x
        BY <2>8
      <4>2. entry = [x EXCEPT ![at.i] = x[at.i]]
        <5> HIDE DEF indexed, index, types
        <5> QED
          BY <2>6, <2>7, <3>1, <3>2, Zenon
      <4> QED
        BY <4>1, <4>2, Zenon
    <3>6. after = [g \in Grps(at.i) |-> IF g = at.j THEN mem[k][g] \cup {Lists[at.list]} ELSE mem[k][g]]
      <4>1. PICK old : old = mem[k]
        OBVIOUS
      <4>2. old = [j \in Grps(at.i) |-> Marks(at, s, at.i, j)]
        BY <1>3, <2>1, <2>8, <3>1, <3>2, <4>1, Zenon DEF Typed
      <4>3. PICK j \in Grps(at.i) : j = at.j
        BY <1>3
      <4>4. PICK y : y = Lists[at.list]
        OBVIOUS
      <4>5. [old EXCEPT ![j] = @ \cup {y}]
              = [g \in Grps(at.i) |-> IF g = j THEN old[g] \cup {y} ELSE old[g]]
        BY <4>2
      <4> HIDE DEF before
      <4>6. after = [old EXCEPT ![j] = @ \cup {y}]
        BY <3>4, <4>1, <4>3, <4>4, Zenon DEF WithType
      <4> QED
        BY <4>1, <4>3, <4>4, <4>5, <4>6, Zenon
    <3>7. typed = Put(Put(written, h, x), k, after)
      <4> HIDE DEF indexed, index, types, entry, after, written
      <4> QED
        BY <2>3, <2>5, <3>2, <3>5, Zenon
    <3>8. pieces = 0
      <4>1. ~isNew
        BY <1>8, Zenon
      <4> HIDE DEF known, isNew
      <4> QED
        BY <2>10, <4>1
    <3> HIDE DEF written, indexed, index, p, types, before, after, entry, typed
    <3>9. PICK w, m1, n2 : w = mem' /\ m1 = written /\ n2 = Put(m1, h, x)
      BY Zenon
    <3>10. m1 = Put(mem, pat + 1, s) /\ w = Put(n2, k, after)
      BY <1>4, <2>9, <3>7, <3>9, Zenon
    <3>11. /\ DOMAIN mem \cup {pat + 1} \subseteq DOMAIN w /\ w[k] = after
           /\ \A y \in DOMAIN mem : y \notin {pat + 1, k} => w[y] = mem[y]
      BY <2>4, <2>7, <3>3, <3>9, <3>10, KnownWrites
    <3>12. Index(mem, q)[at.i] = k
      BY <2>8, <3>1, Zenon
    <3>13. MadeKnown(mem, mem', at, q, pat)
      BY <3>6, <3>9, <3>11, <3>12, Zenon DEF MadeKnown
    <3>14. spool' = spool
      <4> HIDE DEF pieces
      <4> QED
        BY <1>8, <3>8, Zenon
    <3> QED
      BY <2>0, <2>1, <2>9, <3>2, <3>12, <3>13, <3>14, Zenon DEF ItemKnown
  <2>11. CASE ~known
    <3>1. x[at.i] = NULL
      <4> HIDE DEF indexed, index
      <4> QED
        BY <2>6, <2>7, <2>11
    <3>2. types = spool.cur /\ pieces = 1
      <4>1. ~isNew
        BY <1>8, Zenon
      <4>2. types = spool.cur + 0 /\ pieces = 0 + 1
        <5> HIDE DEF known, isNew, index, indexed
        <5> QED
          BY <2>11, <4>1, Zenon
      <4>3. PICK c : c = spool.cur
        OBVIOUS
      <4>4. c \in Nat
        BY <1>2, <4>3
      <4>5. c + 0 = c /\ 0 + 1 = 1
        BY <4>4
      <4> HIDE DEF types, pieces
      <4> QED
        BY <4>2, <4>3, <4>5, Zenon
    <3>3. before = [j \in Grps(at.i) |-> {}]
      <4> HIDE DEF known, types
      <4> QED
        BY <1>3, <2>11, Zenon
    <3>4. after = [k \in Grps(at.i) |-> IF k = at.j THEN {Lists[at.list]} ELSE {}]
      <4> HIDE DEF before, after
      <4> QED
        BY <1>6, <3>3
    <3>5. entry = [g \in Ids |-> IF g = at.i THEN spool.cur ELSE x[g]]
      <4>1. PICK c : c = spool.cur
        OBVIOUS
      <4>2. [x EXCEPT ![at.i] = c] = [g \in Ids |-> IF g = at.i THEN c ELSE x[g]]
        BY <2>8
      <4>3. entry = [x EXCEPT ![at.i] = c]
        <5> HIDE DEF indexed, index, types
        <5> QED
          BY <2>6, <2>7, <3>2, <4>1, Zenon
      <4> QED
        BY <4>1, <4>2, <4>3, Zenon
    <3>6. typed = Put(Put(written, h, entry), spool.cur, after)
      <4> HIDE DEF indexed, index, types, entry, after, written
      <4> QED
        BY <2>3, <2>5, <3>2, Zenon
    <3> HIDE DEF written, indexed, index, p, types, before, after, entry, typed
    <3>9. PICK w, m1, n2 : w = mem' /\ m1 = written /\ n2 = Put(m1, h, entry)
      BY Zenon
    <3>10. m1 = Put(mem, pat + 1, s) /\ w = Put(n2, spool.cur, after)
      BY <1>4, <2>9, <3>6, <3>9, Zenon
    <3>11. spool.cur # pat + 1 /\ spool.cur # h
      BY <1>2, <2>4
    <3>12. /\ DOMAIN mem \cup {pat + 1, spool.cur} \subseteq DOMAIN w
           /\ w[spool.cur] = after /\ w[h] = entry
           /\ \A y \in DOMAIN mem : y \notin {pat + 1, spool.cur, h} => w[y] = mem[y]
      BY <2>4, <3>9, <3>10, <3>11, FreshWrites
    <3>13. MadeFresh(mem, mem', at, q, pat, spool.cur)
      BY <2>2, <2>8, <3>4, <3>5, <3>9, <3>12, Zenon DEF MadeFresh
    <3>14. spool' = SpAlloc(SpAlloc(spool, 0), 1)
      <4>1. pieces # 0 /\ pieces - 1 = 0
        BY <3>2
      <4> HIDE DEF pieces
      <4> QED
        BY <1>8, <4>1, Zenon
    <3>15. Index(mem, q)[at.i] = NULL
      BY <2>8, <3>1, Zenon
    <3> QED
      BY <2>0, <2>1, <2>9, <3>13, <3>14, <3>15, Zenon DEF ItemFresh
  <2> QED
    BY <2>10, <2>11
<1> QED
  <2> HIDE DEF written, indexed, index, p, types, before, after, entry, typed, pieces, known
  <2>1. CASE pc' \in {"out", "crashed"} /\ spool' = spool
    BY <2>1
  <2>2. CASE /\ pc' = pc /\ at' = [at EXCEPT !.n = @ + 1] /\ DelimStr[at.n] \notin {Hat, Dollar}
             /\ spool' = IF pieces = 0 THEN spool ELSE SpAlloc(SpAlloc(spool, pieces - 1), 1)
             /\ mem' = IF isNew THEN PutPat(typed, spare) ELSE typed
             /\ pat' = IF isNew THEN spare ELSE pat
             /\ tree' = Put(tree, DelimStr[at.n], p)
             /\ delim_ac' = IF isNew THEN delim_ac \cup {<<DelimStr[at.n], p>>} ELSE delim_ac
             /\ seg_pat' = IF Lists[at.list] = "seg_delim"
                           THEN [seg_pat EXCEPT ![GrpId(at.i, at.j)] = FirstSeg(@, p)]
                           ELSE seg_pat
    <3>1. ItemSegs(s)
      BY <1>5, <2>2
    <3> HIDE DEF isNew, spare
    <3>2. ItemNew(s) \/ ItemKnown(s) \/ ItemFresh(s)
      <4>1. CASE isNew
        BY <1>7, <2>2, <4>1
      <4>2. CASE ~isNew
        BY <1>8, <2>2, <4>2
      <4> QED
        BY <4>1, <4>2
    <3> QED
      BY <2>2, <3>1, <3>2, Zenon
  <2> QED
    BY <1>1, <2>1, <2>2

\* What all three cases have to provide.
LEMMA PutHolds ==
    ASSUME NEW t, NEW s, NEW q, NEW r, r = Put(t, s, q)
    PROVE  Holds(r, t, s, q)
<1>1. /\ DOMAIN r = DOMAIN t \cup {s} /\ r[s] = q
      /\ \A u \in DOMAIN t : u # s => r[u] = t[u]
  BY DEF Put
<1> QED
  BY <1>1 DEF Holds

LEMMA ItemDone ==
    ASSUME ReadInv, SetsInv, DelimInv, pc = "item", Shaped, FewSets', SpoolInv', cfgs' = cfgs,
           grp_set' = grp_set, pc' = pc, InList, Placed(at), at' = [at EXCEPT !.n = @ + 1],
           NEW s, s = DelimStr[at.n], s \notin {Hat, Dollar}, ItemSegs(s),
           NEW q \in Nat, tree' = Put(tree, s, q), s \in DOMAIN tree => tree[s] = q,
           Stored(at', mem', tree'), Below(mem', tree', spool'.cur),
           Spare(mem', tree', spool', pat'), delim_ac' = Entered(tree')
    PROVE  DelimInv'
<1>1. Filled
  BY DEF DelimInv, Parsing
<1>2. PICK a : a = at
  OBVIOUS
<1>3. PICK b : b = at'
  OBVIOUS
<1>4. PICK r : r = tree'
  OBVIOUS
<1>5. /\ Placed(a) /\ b = [a EXCEPT !.n = @ + 1]
      /\ a.n <= Len(Str(a.i, a.j, a.list)) /\ s = Str(a.i, a.j, a.list)[a.n]
      /\ TreeHas(a, tree) /\ Stored(a, mem, tree) /\ Segs(a, tree, seg_pat)
      /\ a.i \in Sets /\ a.j \in Grps(a.i) /\ a.list \in 1 .. 3
  BY <1>1, <1>2, <1>3, ItemAt, Zenon DEF Filled
<1>6. Placed(b)
  BY <1>5, PlacedNext
<1>7. /\ Holds(r, tree, s, q) /\ DOMAIN r = DOMAIN tree \cup {s} /\ r[s] = q
      /\ \A u \in DOMAIN tree : u # s => r[u] = tree[u]
  <2>1. Holds(r, tree, s, q)
    BY <1>4, PutHolds
  <2>2. \A u : u \in DOMAIN tree /\ u # s => u \in DOMAIN tree \ {s}
    OBVIOUS
  <2> QED
    BY <2>1, <2>2, Zenon DEF Holds
<1>8. TreeHas(b, r)
  BY <1>5, <1>7, TreeNext
<1>9. \A u \in DOMAIN tree : tree[u] \in Nat /\ u \in DOMAIN r /\ r[u] = tree[u]
  <2>1. \A u \in DOMAIN tree : tree[u] \in Nat
    BY <1>5 DEF Stored, WellMade
  <2> QED
    BY <1>7, <2>1
<1>10. Segs(b, r, seg_pat')
  <2>1. PICK new : new = seg_pat'
    OBVIOUS
  <2>2. \/ a.list # 3 /\ new = seg_pat
        \/ /\ a.list = 3 /\ s \in DOMAIN r /\ r[s] \in Nat
           /\ new = [seg_pat EXCEPT ![GrpId(a.i, a.j)] = FirstSeg(@, r[s])]
    <3>1. Lists[a.list] = "seg_delim" <=> a.list = 3
      BY <1>5, ItemsAre
    <3>2. new = IF Lists[a.list] = "seg_delim"
                THEN [seg_pat EXCEPT ![GrpId(a.i, a.j)] = FirstSeg(@, r[s])]
                ELSE seg_pat
      BY <1>2, <1>4, <2>1, Zenon DEF ItemSegs
    <3>3. s \in DOMAIN r /\ r[s] \in Nat
      BY <1>7
    <3> QED
      BY <3>1, <3>2, <3>3, Zenon
  <2>3. Segs(b, r, new)
    BY <1>5, <1>9, <2>2, SegsNext
  <2> QED
    BY <2>1, <2>3
<1>11. Filled' /\ Placed(at)' /\ Spare(mem, tree, spool, pat)'
  <2>1. /\ TreeHas(at', tree') /\ Stored(at', mem', tree') /\ Below(mem', tree', spool'.cur)
        /\ Segs(at', tree', seg_pat') /\ delim_ac' = Entered(tree')
    BY <1>3, <1>4, <1>8, <1>10
  <2>2. Placed(at') /\ Spare(mem', tree', spool', pat')
    BY <1>3, <1>6
  <2> QED
    BY <2>1, <2>2, FillKept
<1> QED
  BY <1>11, StillFilled

LEMMA DelimDelim ==
    ASSUME ReadInv, SetsInv, DelimInv, DelimItem
    PROVE  DelimInv'
<1>1. /\ pc = "item" /\ SpoolInv /\ FewSets /\ Filled /\ Placed(at) /\ Spare(mem, tree, spool, pat)
      /\ cfgs' = cfgs /\ grp_set' = grp_set /\ file' = file /\ pool_size' = pool_size /\ InList
  BY Zenon DEF DelimInv, DelimItem, InList, Parsing, Keeps
<1>2. Shaped /\ FewSets'
  BY <1>1, ShapeHere, FewSetsKept DEF Parsing
<1>3. spool \in Pools /\ pool_size \in Nat
  BY <1>1 DEF SpoolInv, Pools
<1>4. PICK s : s = DelimStr[at.n]
  OBVIOUS
<1>5. CASE pc' \in {"out", "crashed"} /\ spool' = spool
  <2>1. SpoolInv'
    BY <1>1, <1>5 DEF SpoolInv
  <2> QED
    BY <1>2, <1>5, <2>1, StillFilled
<1>6. CASE /\ pc' = pc /\ at' = [at EXCEPT !.n = @ + 1] /\ s \notin {Hat, Dollar}
           /\ ItemSegs(s) /\ (ItemNew(s) \/ ItemKnown(s) \/ ItemFresh(s))
  <2>1. PICK a, b, m, w, t, r, p, sp, sp2 :
           /\ a = at /\ b = at' /\ m = mem /\ w = mem' /\ t = tree /\ r = tree' /\ p = pat
           /\ sp = spool /\ sp2 = spool'
    BY Zenon
  <2>2. PICK c \in Nat : c = sp.cur
    BY <1>3, <2>1, PoolIs
  <2>3. /\ Placed(a) /\ b = [a EXCEPT !.n = @ + 1]
        /\ a.n <= Len(Str(a.i, a.j, a.list)) /\ s = Str(a.i, a.j, a.list)[a.n]
        /\ TreeHas(a, t) /\ Stored(a, m, t) /\ Below(m, t, c) /\ Spare(m, t, sp, p)
    BY <1>1, <1>2, <1>4, <1>6, <2>1, <2>2, ItemAt, Zenon DEF Filled
  <2>4. Adds(a, b, s)
    BY <1>2, <2>3, NextSays
  <2>5. p \in Nat /\ p + 1 < c
    BY <2>2, <2>3 DEF Spare
  <2>6. ASSUME ItemNew(s)
        PROVE  DelimInv'
    <3>1. /\ s \notin DOMAIN t /\ MadeNew(m, w, a, s, p, c)
          /\ r = Put(t, s, p) /\ pat' = c + 2 /\ sp2 = SpAlloc(SpAlloc(sp, 3), 1)
          /\ delim_ac' = delim_ac \cup {<<s, p>>}
      BY <2>1, <2>2, <2>6, Zenon DEF ItemNew
    <3>2. NoMarks(a, s)
      <4>1. \A i \in Sets : \A j \in Grps(i) : \A l \in 1 .. 3 : ~Says(a, s, i, j, l)
        <5> SUFFICES ASSUME NEW i \in Sets, NEW j \in Grps(i), NEW l \in 1 .. 3, Says(a, s, i, j, l)
                     PROVE  FALSE
          OBVIOUS
        <5>1. s \in DOMAIN t \cup {Hat, Dollar}
          <6>1. PICK n \in 1 .. Len(Str(i, j, l)) : Reached(a, i, j, l, n) /\ Str(i, j, l)[n] = s
            BY Zenon DEF Says
          <6>2. Str(i, j, l)[n] \in DOMAIN t \cup {Hat, Dollar}
            BY <2>3, <6>1, Zenon DEF TreeHas
          <6> QED
            BY <6>1, <6>2, Zenon
        <5> QED
          BY <1>6, <3>1, <5>1
      <4>2. ASSUME NEW i \in Sets, NEW j \in Grps(i)
            PROVE  Marks(a, s, i, j) = {}
        BY <4>1, Zenon DEF Marks
      <4> QED
        BY <4>2, Zenon DEF NoMarks
    <3>3. Stored(b, w, r) /\ Below(w, r, c + 2)
      BY <1>2, <2>2, <2>3, <2>4, <3>1, <3>2, NewStored
    <3>4. sp2 \in Pools /\ sp2.cur = c + 4 /\ sp2.last = c + 3
      <4>1. PICK one \in Pools : one = SpAlloc(sp, 3)
        BY <1>3, <2>1, PoolIs
      <4>2. one.cur = c + 3
        <5>1. spool.cur = c /\ one = SpAlloc(spool, 3)
          BY <2>1, <2>2, <4>1
        <5>2. SpAlloc(spool, 3).cur = spool.cur + 3
          BY <1>3, PoolIs
        <5> QED
          BY <5>1, <5>2, Zenon
      <4>3. SpAlloc(one, 1) \in Pools /\ SpAlloc(one, 1).cur = one.cur + 1
            /\ SpAlloc(one, 1).last = one.cur
        BY PoolIs
      <4>4. c + 3 + 1 = c + 4
        OBVIOUS
      <4> QED
        BY <3>1, <4>1, <4>2, <4>3, <4>4, Zenon
    <3>5. Spare(w, r, sp2, c + 2)
      <4>1. /\ c + 2 \in DOMAIN w /\ w[c + 2] = [str |-> c + 3, grpset_index |-> NULL]
        BY <3>1, Zenon DEF MadeNew
      <4>2. c + 2 \in Nat /\ c + 2 + 1 = c + 3 /\ c + 3 < c + 4 /\ c + 3 # c + 2
        OBVIOUS
      <4>3. \A u \in DOMAIN r : ~Owns(w, r[u], c + 2) /\ ~Owns(w, r[u], c + 2 + 1)
        <5>1. c + 2 \in Nat
          OBVIOUS
        <5> QED
          BY <3>3, <5>1, SpareBelow
      <4> QED
        BY <3>3, <3>4, <4>1, <4>2, <4>3, Zenon DEF Spare
    <3>6. Below(w, r, sp2.cur)
      <4>1. \A x \in Nat : x < c + 2 => x < c + 4
        OBVIOUS
      <4> QED
        BY <3>3, <3>4, <4>1, Zenon DEF Below
    <3>7. delim_ac' = Entered(tree')
      <4>1. /\ DOMAIN r = DOMAIN t \cup {s} /\ r[s] = p
            /\ \A u \in DOMAIN t \ {s} : r[u] = t[u]
        <5>1. Holds(r, t, s, p)
          BY <3>1, PutHolds
        <5> QED
          BY <5>1, Zenon DEF Holds
      <4>2. \A u \in DOMAIN t : r[u] = t[u]
        BY <3>1, <4>1
      <4>3. {<<u, r[u]>> : u \in DOMAIN r} = {<<u, t[u]>> : u \in DOMAIN t} \cup {<<s, p>>}
        BY <4>1, <4>2, Zenon
      <4>4. delim_ac = {<<u, t[u]>> : u \in DOMAIN t}
        BY <1>1, <2>1, Zenon DEF Filled, Entered
      <4> QED
        BY <2>1, <3>1, <4>3, <4>4, Zenon DEF Entered
    <3>8. SpoolInv'
      BY <1>1, <1>3, <2>1, <3>4 DEF SpoolInv, Pools
    <3>9. /\ Stored(at', mem', tree') /\ Below(mem', tree', spool'.cur)
          /\ Spare(mem', tree', spool', pat') /\ tree' = Put(tree, s, p)
          /\ (s \in DOMAIN tree => tree[s] = p)
      BY <2>1, <3>1, <3>3, <3>5, <3>6, Zenon
    <3> QED
      BY <1>1, <1>2, <1>4, <1>6, <2>5, <3>7, <3>8, <3>9, ItemDone
  <2>7. ASSUME ItemKnown(s) \/ ItemFresh(s), NEW q, q = t[s], s \in DOMAIN t, r = Put(t, s, q),
               Stored(b, w, r), Below(w, r, sp2.cur), Spare(w, r, sp2, p), sp2 \in Pools,
               pat' = p, delim_ac' = delim_ac
        PROVE  DelimInv'
    <3>1. q \in Nat
      <4>1. WellMade(m, q, s)
        BY <2>3, <2>7, Zenon DEF Stored
      <4> QED
        BY <4>1, Zenon DEF WellMade
    <3>2. delim_ac' = Entered(tree')
      <4>1. /\ DOMAIN r = DOMAIN t \cup {s} /\ r[s] = q
            /\ \A u \in DOMAIN t \ {s} : r[u] = t[u]
        <5>1. Holds(r, t, s, q)
          BY <2>7, PutHolds
        <5> QED
          BY <5>1, Zenon DEF Holds
      <4>2. DOMAIN r = DOMAIN t /\ \A u \in DOMAIN t : r[u] = t[u]
        BY <2>7, <4>1
      <4>3. {<<u, r[u]>> : u \in DOMAIN r} = {<<u, t[u]>> : u \in DOMAIN t}
        BY <4>2, Zenon
      <4>4. delim_ac = {<<u, t[u]>> : u \in DOMAIN t}
        BY <1>1, <2>1, Zenon DEF Filled, Entered
      <4> QED
        BY <2>1, <2>7, <4>3, <4>4, Zenon DEF Entered
    <3>3. SpoolInv'
      BY <1>1, <1>3, <2>1, <2>7 DEF SpoolInv, Pools
    <3>4. /\ Stored(at', mem', tree') /\ Below(mem', tree', spool'.cur)
          /\ Spare(mem', tree', spool', pat') /\ tree' = Put(tree, s, q)
          /\ (s \in DOMAIN tree => tree[s] = q)
      BY <2>1, <2>7, Zenon
    <3> QED
      BY <1>1, <1>2, <1>4, <1>6, <3>1, <3>2, <3>3, <3>4, ItemDone
  <2>8. ASSUME ItemKnown(s)
        PROVE  DelimInv'
    <3>1. PICK q : q = t[s]
      OBVIOUS
    <3>2. /\ s \in DOMAIN t /\ Index(m, q)[a.i] # NULL /\ MadeKnown(m, w, a, q, p)
          /\ r = Put(t, s, q) /\ pat' = p /\ sp2 = sp /\ delim_ac' = delim_ac
      BY <2>1, <2>8, <3>1, Zenon DEF ItemKnown
    <3>3. Holds(r, t, s, q)
      BY <3>2, PutHolds
    <3>4. Stored(b, w, r) /\ Below(w, r, sp.cur) /\ Spare(w, r, sp, p)
      BY <1>2, <2>2, <2>3, <2>4, <3>1, <3>2, <3>3, KnownStored
    <3>5. sp2 \in Pools /\ Below(w, r, sp2.cur) /\ Spare(w, r, sp2, p)
      BY <1>3, <2>1, <3>2, <3>4
    <3> QED
      BY <2>7, <2>8, <3>1, <3>2, <3>4, <3>5, Zenon
  <2>9. ASSUME ItemFresh(s)
        PROVE  DelimInv'
    <3>1. PICK q : q = t[s]
      OBVIOUS
    <3>2. /\ s \in DOMAIN t /\ Index(m, q)[a.i] = NULL /\ MadeFresh(m, w, a, q, p, c)
          /\ r = Put(t, s, q) /\ pat' = p /\ sp2 = SpAlloc(SpAlloc(sp, 0), 1) /\ delim_ac' = delim_ac
      BY <2>1, <2>2, <2>9, <3>1, Zenon DEF ItemFresh
    <3>3. Holds(r, t, s, q)
      BY <3>2, PutHolds
    <3>4. sp2 \in Pools /\ sp2.cur = c + 1 /\ sp2.last = c
      <4>1. PICK one \in Pools : one = SpAlloc(sp, 0)
        BY <1>3, <2>1, PoolIs
      <4>2. one.cur = c
        <5>1. spool.cur = c /\ one = SpAlloc(spool, 0)
          BY <2>1, <2>2, <4>1
        <5>2. SpAlloc(spool, 0).cur = spool.cur + 0
          BY <1>3, PoolIs
        <5>3. c + 0 = c
          OBVIOUS
        <5> QED
          BY <5>1, <5>2, <5>3, Zenon
      <4>3. SpAlloc(one, 1) \in Pools /\ SpAlloc(one, 1).cur = one.cur + 1
            /\ SpAlloc(one, 1).last = one.cur
        BY PoolIs
      <4> QED
        BY <3>2, <4>1, <4>2, <4>3, Zenon
    <3>5. Stored(b, w, r) /\ Below(w, r, c + 1) /\ Spare(w, r, sp2, p)
      <4>1. /\ c = sp.cur /\ s \in DOMAIN t /\ q = t[s] /\ Index(m, q)[a.i] = NULL
            /\ MadeFresh(m, w, a, q, p, c)
        BY <2>2, <3>1, <3>2
      <4> QED
        BY <1>2, <2>3, <2>4, <3>3, <3>4, <4>1, FreshStored
    <3>6. Below(w, r, sp2.cur)
      BY <3>4, <3>5
    <3> QED
      BY <2>7, <2>9, <3>1, <3>2, <3>4, <3>5, <3>6, Zenon
  <2> QED
    BY <1>6, <2>6, <2>8, <2>9
<1> QED
  BY <1>1, <1>2, <1>3, <1>4, <1>5, <1>6, ItemCases

LEMMA DelimStep ==
    ASSUME ReadInv, SetsInv, DelimInv, ReadInv', SetsInv', [Next]_vars
    PROVE  DelimInv'
BY DelimStart, DelimRead, DelimCount, DelimSort, DelimSingles, DelimBegin, DelimSpecial, DelimDelim,
   DelimEnd, DelimRest, Zenon DEF Next

-----------------------------------------------------------------------------
\* When everything has been gone through.
LEMMA AllReached ==
    ASSUME Shaped, AtEnd
    PROVE  /\ \A i \in Sets : \A j \in Grps(i) : \A l \in 1 .. 3 : \A n : Reached(at, i, j, l, n)
           /\ \A i \in Sets : \A j \in Grps(i) : \A l \in 1 .. 3 : \A s :
                 Says(at, s, i, j, l) <=> s \in ToSet(Str(i, j, l))
<1>1. at.i = Len(grp_set) + 1
  BY DEF AtEnd, Start
<1>2. \A i \in Sets : i < at.i
  BY <1>1 DEF Shaped, Sets
<1>3. \A i \in Sets : \A j \in Grps(i) : \A l \in 1 .. 3 : \A n : Reached(at, i, j, l, n)
  BY <1>2, Zenon DEF Reached
<1>4. ASSUME NEW i \in Sets, NEW j \in Grps(i), NEW l \in 1 .. 3, NEW s
      PROVE  Says(at, s, i, j, l) <=> s \in ToSet(Str(i, j, l))
  <2>1. DOMAIN Str(i, j, l) = 1 .. Len(Str(i, j, l))
    BY StrIs
  <2> QED
    BY <1>3, <2>1 DEF Says, ToSet
<1> QED
  BY <1>3, <1>4

LEMMA StrWritten ==
    ASSUME ReadInv, pc \in Later, Shaped, NEW i \in Sets, NEW j \in Grps(i), NEW l \in 1 .. 3
    PROVE  Str(i, j, l) = Written(file, "group", GrpId(i, j), Lists[l])
<1>1. GrpId(i, j) \in Ids
  BY DEF Shaped
<1>2. Lists[l] \in ItemsOf["group"]
  BY ItemsAre
<1> QED
  BY <1>1, <1>2, CfgIs DEF Str

LEMMA TreeIs ==
    ASSUME ReadInv, pc \in Later, Shaped, NamesApart, AtEnd, TreeHas(at, tree)
    PROVE  DOMAIN tree = Delimiters
<1>1. \A s : s \in Delimiters <=>
         /\ s \notin {Hat, Dollar}
         /\ \E g \in Ids : \E list \in ToSet(Lists) : s \in ToSet(Written(file, "group", g, list))
  <2>1. Ids = 1 .. NrSets(file, "group")
    BY CfgIs
  <2>2. Delimiters = (UNION {UNION {ToSet(Written(file, "group", g, list)) : list \in ToSet(Lists)} :
                                g \in Ids}) \ {Hat, Dollar}
    BY <2>1, Zenon DEF Delimiters
  <2>3. \A s, g : s \in UNION {ToSet(Written(file, "group", g, list)) : list \in ToSet(Lists)}
                     <=> \E list \in ToSet(Lists) : s \in ToSet(Written(file, "group", g, list))
    BY Zenon
  <2> DEFINE U(g) == UNION {ToSet(Written(file, "group", g, list)) : list \in ToSet(Lists)}
  <2>4. Delimiters = (UNION {U(g) : g \in Ids}) \ {Hat, Dollar}
    BY <2>2
  <2>5. \A s, g : s \in U(g) <=> \E list \in ToSet(Lists) : s \in ToSet(Written(file, "group", g, list))
    BY <2>3
  <2> HIDE DEF U
  <2>6. \A s : s \in Delimiters <=> s \notin {Hat, Dollar} /\ \E g \in Ids : s \in U(g)
    <3> DEFINE all == UNION {U(g) : g \in Ids}
    <3>2. \A s : s \in all <=> \E g \in Ids : s \in U(g)
      BY Zenon
    <3>3. Delimiters = all \ {Hat, Dollar}
      BY <2>4
    <3> HIDE DEF all
    <3>4. \A s : s \in Delimiters <=> s \in all /\ s \notin {Hat, Dollar}
      BY <3>3
    <3> QED
      BY <3>2, <3>4, Zenon
  <2> QED
    BY <2>5, <2>6, Zenon
<1>2. ASSUME NEW s \in DOMAIN tree
      PROVE  s \in Delimiters
  <2>1. PICK i \in Sets : \E j \in Grps(i) : \E l \in 1 .. 3 : Says(at, s, i, j, l)
    BY Zenon DEF TreeHas
  <2>2. PICK j \in Grps(i) : \E l \in 1 .. 3 : Says(at, s, i, j, l)
    BY <2>1
  <2>3. PICK l \in 1 .. 3 : Says(at, s, i, j, l)
    BY <2>2
  <2>4. s \in ToSet(Written(file, "group", GrpId(i, j), Lists[l]))
    <3>1. s \in ToSet(Str(i, j, l))
      BY <2>3, AllReached
    <3> QED
      BY <3>1, StrWritten
  <2>5. GrpId(i, j) \in Ids /\ Lists[l] \in ToSet(Lists)
    BY ItemsAre DEF Shaped
  <2>6. s \notin {Hat, Dollar}
    BY DEF TreeHas
  <2> QED
    BY <1>1, <2>4, <2>5, <2>6
<1>3. ASSUME NEW s \in Delimiters
      PROVE  s \in DOMAIN tree
  <2>1. PICK g \in Ids, list \in ToSet(Lists) : s \in ToSet(Written(file, "group", g, list))
    BY <1>1
  <2>2. PICK l \in 1 .. 3 : list = Lists[l]
    BY ItemsAre
  <2>3. PICK i \in Sets : \E j \in Grps(i) : GrpId(i, j) = g
    BY DEF Shaped
  <2>4. PICK j \in Grps(i) : GrpId(i, j) = g
    BY <2>3
  <2>5. Str(i, j, l) = Written(file, "group", g, list)
    BY <2>2, <2>4, StrWritten
  <2>6. Says(at, s, i, j, l)
    BY <2>1, <2>5, AllReached
  <2>7. PICK n \in 1 .. Len(Str(i, j, l)) : Reached(at, i, j, l, n) /\ Str(i, j, l)[n] = s
    BY <2>6, Zenon DEF Says
  <2>8. Str(i, j, l)[n] \in DOMAIN tree \cup {Hat, Dollar}
    BY <2>7, Zenon DEF TreeHas
  <2>9. s \notin {Hat, Dollar}
    BY <1>1
  <2> QED
    BY <2>7, <2>8, <2>9
<1> QED
  BY <1>2, <1>3

LEMMA MarksAre ==
    ASSUME ReadInv, pc \in Later, Shaped, AtEnd, NEW i \in Sets, NEW j \in Grps(i), NEW s
    PROVE  Marks(at, s, i, j) =
              {list \in ToSet(Lists) : s \in ToSet(Written(file, "group", grp_set[i].grps[j], list))}
<1>1. \A l \in 1 .. 3 : Says(at, s, i, j, l) <=>
                           s \in ToSet(Written(file, "group", grp_set[i].grps[j], Lists[l]))
  <2> TAKE l \in 1 .. 3
  <2>1. Says(at, s, i, j, l) <=> s \in ToSet(Str(i, j, l))
    BY AllReached
  <2>2. Str(i, j, l) = Written(file, "group", GrpId(i, j), Lists[l])
    BY StrWritten
  <2> QED
    BY <2>1, <2>2, Zenon DEF GrpId
<1>2. \A x : x \in Marks(at, s, i, j) <=> \E l \in 1 .. 3 : Says(at, s, i, j, l) /\ x = Lists[l]
  BY Zenon DEF Marks
<1>3. \A x : x \in ToSet(Lists) <=> \E l \in 1 .. 3 : x = Lists[l]
  BY ItemsAre
<1> QED
  BY <1>1, <1>2, <1>3, Zenon

LEMMA EnteredCount ==
    ASSUME NEW t, IsFiniteSet(DOMAIN t)
    PROVE  Cardinality(Entered(t)) = Cardinality(DOMAIN t)
<1> DEFINE f == [s \in DOMAIN t |-> <<s, t[s]>>]
<1>1. f \in [DOMAIN t -> Entered(t)]
  BY DEF Entered
<1>2. f \in Injection(DOMAIN t, Entered(t))
  BY <1>1 DEF Injection, IsInjective
<1>3. f \in Surjection(DOMAIN t, Entered(t))
  BY <1>1 DEF Surjection, Entered
<1>4. ExistsBijection(DOMAIN t, Entered(t))
  BY <1>2, <1>3, Zenon DEF Bijection, ExistsBijection
<1> QED
  BY <1>4, FS_Bijection

LEMMA SegsAre ==
    ASSUME ReadInv, pc \in Later, Shaped, NamesApart, AtEnd, Segs(at, tree, seg_pat), NEW g \in Ids,
           NEW segs, segs = Written(file, "group", g, "seg_delim")
    PROVE  /\ segs = <<>> => seg_pat[g] = NULL
           /\ segs # <<>> => <<segs[1], seg_pat[g]>> \in Entered(tree)
<1>1. segs = Group[g].seg_delim /\ IsList(segs)
  <2>1. Lists[3] = "seg_delim" /\ 3 \in 1 .. 3 /\ "seg_delim" \in ItemsOf["group"]
    BY ItemsAre
  <2>2. segs = Group[g].seg_delim
    BY <2>1, CfgIs
  <2>3. IsList(Group[g][Lists[3]])
    BY <2>1 DEF Shaped
  <2> QED
    BY <2>1, <2>2, <2>3
<1>2. \/ /\ seg_pat[g] = NULL
         /\ \A i \in Sets : \A j \in Grps(i) :
               GrpId(i, j) = g => \A n \in 1 .. Len(Str(i, j, 3)) : ~Reached(at, i, j, 3, n)
      \/ /\ Len(segs) > 0 /\ segs[1] \in DOMAIN tree /\ seg_pat[g] = tree[segs[1]]
  BY <1>1, Zenon DEF Segs
<1>3. CASE segs = <<>>
  <2>1. ~(Len(segs) > 0)
    BY <1>3
  <2> QED
    BY <1>2, <1>3, <2>1, Zenon
<1>4. CASE segs # <<>>
  <2>1. Len(segs) \in Nat /\ Len(segs) > 0
    <3>1. Len(segs) \in Nat /\ segs = [x \in 1 .. Len(segs) |-> segs[x]]
      BY <1>1 DEF IsList
    <3>2. CASE Len(segs) = 0
      <4>1. segs = [x \in 1 .. 0 |-> segs[x]]
        BY <3>1, <3>2, Zenon
      <4>2. [x \in 1 .. 0 |-> segs[x]] = <<>>
        OBVIOUS
      <4> QED
        BY <1>4, <4>1, <4>2, Zenon
    <3> QED
      BY <3>1, <3>2
  <2>2. PICK i \in Sets : \E j \in Grps(i) : GrpId(i, j) = g
    BY DEF Shaped
  <2>3. PICK j \in Grps(i) : GrpId(i, j) = g
    BY <2>2
  <2>4. Str(i, j, 3) = segs
    BY <1>1, <2>3, ItemsAre DEF Str
  <2>5. 1 \in 1 .. Len(segs) /\ 3 \in 1 .. 3
    BY <2>1
  <2>6. Reached(at, i, j, 3, 1)
    BY <2>5, AllReached
  <2>7. segs[1] \in DOMAIN tree /\ seg_pat[g] = tree[segs[1]]
    BY <1>2, <2>3, <2>4, <2>5, <2>6, Zenon
  <2> QED
    BY <1>4, <2>7, Zenon DEF Entered
<1> QED
  BY <1>3, <1>4

\* Where names are apart, every delimiter of a built engine is in it once, and its pattern
\* tells each group of each set what the file says the string is to that group;
\* segments are completed with the first of a group's segment delimiters.
LEMMA BuiltDelims ==
    ASSUME ReadInv, SetsInv, DelimInv, pc = "built", NamesApart
    PROVE  DelimitersAsWritten
<1>1. pc \in Parsing /\ pc \in Later
  BY DEF Parsing, Later
<1>2. /\ AtEnd /\ FewSets /\ TreeHas(at, tree) /\ Stored(at, mem, tree) /\ Segs(at, tree, seg_pat)
      /\ delim_ac = Entered(tree)
  BY <1>1 DEF DelimInv, Filled
<1>3. Shaped
  BY <1>1, <1>2, ShapeHere
<1>4. DOMAIN tree = Delimiters
  BY <1>1, <1>2, <1>3, TreeIs
<1>5. ASSUME NEW s \in Delimiters
      PROVE  \E p \in {e[2] : e \in delim_ac} :
                /\ delim_ac \cap ({s} \X {e[2] : e \in delim_ac}) = {<<s, p>>}
                /\ mem[mem[p].str] = s
                /\ \A i \in DOMAIN grp_set : \A j \in DOMAIN grp_set[i].grps :
                      TypesOf(p, i, j) = {list \in ToSet(Lists) :
                         s \in ToSet(Written(file, "group", grp_set[i].grps[j], list))}
  <2>1. PICK p : p = tree[s]
    OBVIOUS
  <2>2. s \in DOMAIN tree /\ WellMade(mem, p, s) /\ Typed(at, mem, p, s)
    BY <1>2, <1>4, <2>1, Zenon DEF Stored
  <2>3. <<s, p>> \in delim_ac
    BY <1>2, <2>1, <2>2, Zenon DEF Entered
  <2>4. p \in {e[2] : e \in delim_ac}
    <3>1. <<s, p>>[2] = p
      OBVIOUS
    <3> QED
      BY <2>3, <3>1, Zenon
  <2>5. delim_ac \cap ({s} \X {e[2] : e \in delim_ac}) = {<<s, p>>}
    <3>1. PICK es : es = {e[2] : e \in delim_ac}
      OBVIOUS
    <3>2. \A x : x \in delim_ac <=> \E u \in DOMAIN tree : x = <<u, tree[u]>>
      BY <1>2, Zenon DEF Entered
    <3>3. \A x : x \in {s} \X es <=> \E e \in es : x = <<s, e>>
      OBVIOUS
    <3>4. \A x : x \in delim_ac /\ x \in {s} \X es => x = <<s, p>>
      BY <2>1, <3>2, <3>3
    <3>5. <<s, p>> \in {s} \X es
      BY <2>4, <3>1, <3>3, Zenon
    <3>6. delim_ac \cap ({s} \X es) = {<<s, p>>}
      BY <2>3, <3>4, <3>5
    <3> QED
      BY <3>1, <3>6
  <2>6. mem[mem[p].str] = s
    BY <2>2, Zenon DEF WellMade
  <2>7. ASSUME NEW i \in Sets, NEW j \in Grps(i)
        PROVE  TypesOf(p, i, j) = {list \in ToSet(Lists) :
                  s \in ToSet(Written(file, "group", grp_set[i].grps[j], list))}
    <3>1. TypesOf(p, i, j) = Marks(at, s, i, j)
      <4>1. PICK types : types = Index(mem, p)[i]
        OBVIOUS
      <4>2. TypesOf(p, i, j) = IF types = NULL THEN {} ELSE mem[types][j]
        BY <4>1, Zenon DEF TypesOf, Index
      <4>3. CASE types = NULL
        <5>1. Marks(at, s, i, j) = {}
          BY <2>2, <4>1, <4>3, Zenon DEF Typed
        <5> QED
          BY <4>2, <4>3, <5>1, Zenon
      <4>4. CASE types # NULL
        <5>1. mem[types] = [k \in Grps(i) |-> Marks(at, s, i, k)]
          BY <2>2, <4>1, <4>4, Zenon DEF Typed
        <5>2. [k \in Grps(i) |-> Marks(at, s, i, k)][j] = Marks(at, s, i, j)
          BY Zenon
        <5> QED
          BY <4>2, <4>4, <5>1, <5>2, Zenon
      <4> QED
        BY <4>3, <4>4
    <3>2. Marks(at, s, i, j) = {list \in ToSet(Lists) :
             s \in ToSet(Written(file, "group", grp_set[i].grps[j], list))}
      BY <1>1, <1>2, <1>3, MarksAre
    <3> QED
      BY <3>1, <3>2, Zenon
  <2>8. DOMAIN grp_set = Sets /\ \A i \in Sets : DOMAIN grp_set[i].grps = Grps(i)
    BY <1>3, Zenon DEF Shaped
  <2>9. \A i \in DOMAIN grp_set : \A j \in DOMAIN grp_set[i].grps :
           TypesOf(p, i, j) = {list \in ToSet(Lists) :
              s \in ToSet(Written(file, "group", grp_set[i].grps[j], list))}
    <3> TAKE i \in DOMAIN grp_set
    <3> TAKE j \in DOMAIN grp_set[i].grps
    <3>1. i \in Sets /\ j \in Grps(i)
      BY <2>8, Zenon
    <3> QED
      BY <2>7, <3>1, Zenon
  <2> WITNESS p \in {e[2] : e \in delim_ac}
  <2> QED
    BY <2>5, <2>6, <2>9, Zenon
<1>6. Cardinality(delim_ac) = Cardinality(Delimiters)
  <2>1. IsFiniteSet(DOMAIN tree)
    BY <1>2, Zenon DEF TreeHas
  <2> QED
    BY <1>2, <1>4, <2>1, EnteredCount
<1>7. \A g \in DOMAIN seg_pat :
         LET segs == Written(file, "group", g, "seg_delim")
         IN IF segs = <<>> THEN seg_pat[g] = NULL
                           ELSE <<segs[1], seg_pat[g]>> \in delim_ac
  <2>1. DOMAIN seg_pat = Ids
    BY <1>2, Zenon DEF Segs
  <2> SUFFICES ASSUME NEW g \in Ids
               PROVE  LET segs == Written(file, "group", g, "seg_delim")
                      IN IF segs = <<>> THEN seg_pat[g] = NULL
                                        ELSE <<segs[1], seg_pat[g]>> \in delim_ac
    BY <2>1
  <2>2. PICK segs : segs = Written(file, "group", g, "seg_delim")
    OBVIOUS
  <2>3. /\ segs = <<>> => seg_pat[g] = NULL
        /\ segs # <<>> => <<segs[1], seg_pat[g]>> \in delim_ac
    BY <1>1, <1>2, <1>3, <2>2, SegsAre
  <2> QED
    BY <2>2, <2>3, Zenon
<1> QED
  BY <1>5, <1>6, <1>7, Zenon DEF DelimitersAsWritten

\* The automaton of a built engine has one pattern for each delimiter string of
\* the file, and through it a match finds for every group of every set what the
\* file says the string is to it, although patterns are reused and the spare one
\* is given back at the end of each list (parse_delims, parse_group_delim_string).
THEOREM DelimitersAreAsWritten == Spec => []DelimitersAsWritten
<1>1. Init => ReadInv /\ SetsInv /\ DelimInv
  BY ReadInit, SetsInit, DelimInit
<1>2. ReadInv /\ SetsInv /\ [Next]_vars => ReadInv' /\ SetsInv'
  BY ReadStep, SetsStep
<1>3. ReadInv /\ SetsInv /\ DelimInv /\ [Next]_vars => (ReadInv /\ SetsInv /\ DelimInv)'
  BY <1>2, DelimStep
<1>4. ReadInv /\ SetsInv /\ DelimInv => DelimitersAsWritten
  BY BuiltDelims DEF DelimitersAsWritten
<1> QED
  BY <1>1, <1>3, <1>4, PTL DEF Spec
-----------------------------------------------------------------------------
\* The handles: that of get_engine_size is there once the build has begun, that
\* of read_config while it reads, after it has crashed, or where the pool has no
\* piece left.
Stuck == pc \in {"out", "null"} /\ ~SpFits(spool, 1)

OpenInv ==
    /\ open \subseteq {"size", "config"}
    /\ pc = "start" => open = {}
    /\ pc \notin {"start", "null"} => "size" \in open
    /\ "config" \in open => pc \in Reading \cup {"crashed"} \/ Stuck

\* A step outside the reading opens nothing and closes nothing.
LEMMA StillOpen ==
    ASSUME OpenInv, open' = open, pc \notin Reading \cup {"start", "out", "crashed", "null"},
           pc' # "start"
    PROVE  OpenInv'
BY DEF OpenInv, Stuck

LEMMA OpenRead ==
    ASSUME OpenInv, SpoolInv, ReadConfigStep
    PROVE  OpenInv'
<1>1. CASE OpenConfig
  BY <1>1 DEF OpenConfig, OpenInv, Reading, Stuck
<1>2. CASE CountSet
  <2>1. open' = open /\ pc \in Reading /\ pc' \in Reading
    BY <1>2 DEF CountSet, Advance, Reading
  <2> QED
    BY <2>1 DEF OpenInv, Reading
<1>3. CASE AllocSets
  <2>1. open' = open /\ pc \in Reading
        /\ \/ pc' \in Reading \cup {"crashed"}
           \/ pc' = "out" /\ ~SpFits(spool, 1) /\ spool' = spool
    BY <1>3 DEF AllocSets, Advance, Reading
  <2> QED
    BY <2>1 DEF OpenInv, Stuck, Reading
<1>4. CASE SetDefaults
  <2>1. open' = open /\ pc \in Reading /\ pc' \in Reading
    BY <1>4 DEF SetDefaults, Reading
  <2> QED
    BY <2>1 DEF OpenInv, Reading
<1>5. CASE ReadLine
  <2>1. \/ pc' \in {"read", "crashed"}
        \/ pc' = "sort"
        \/ pc' = "out" /\ ~SpFits(spool, 1) /\ spool' = spool
    <3>1. CASE OpenSet(file[line])
      BY <1>5, <3>1 DEF ReadLine, OpenSet, Advance
    <3>2. CASE ReadItem(file[line])
      <4>1. \A n \in {0, 1} : ~SpFits(spool, n) => ~SpFits(spool, 1)
        <5>1. PICK c \in Nat, z \in Nat : spool.cur = c /\ spool.size = z
          BY DEF SpoolInv
        <5> QED
          BY <5>1 DEF SpFits
      <4>2. \/ pc' \in {"read", "crashed", "sort"}
            \/ pc' = "out" /\ spool' = spool /\ \E n \in {0, 1} : ~SpFits(spool, n)
        BY <1>5, <3>2 DEF ReadLine, ReadItem, Advance
      <4> QED
        BY <4>1, <4>2
    <3> QED
      BY <1>5, <3>1, <3>2 DEF ReadLine
  <2>2. pc = "read" /\ open' = IF pc' = "sort" THEN open \ {"config"} ELSE open
    BY <1>5 DEF ReadLine
  <2> QED
    BY <2>1, <2>2 DEF OpenInv, Stuck, Reading
<1> QED
  BY <1>1, <1>2, <1>3, <1>4, <1>5 DEF ReadConfigStep

LEMMA OpenNext ==
    ASSUME OpenInv, SpoolInv, [Next]_vars
    PROVE  OpenInv'
<1>1. CASE GetEngineSize
  BY <1>1 DEF GetEngineSize, OpenInv, Reading, Stuck
<1>2. CASE ArgInit \/ ModelInit
  BY <1>2, StillOpen DEF ArgInit, ModelInit, Reading
<1>3. CASE ReadNeConfig
  BY <1>3, OpenRead DEF ReadNeConfig
<1>4. CASE CountGroups \/ SortSet \/ SortSingles
  <2>1. /\ open' = open /\ pc \in {"sort", "sets"}
        /\ pc' \in {"sets", "out", "crashed", "list", "rules"}
    BY <1>4 DEF CountGroups, SortSet, SortSingles, Keeps
  <2> QED
    BY <2>1, StillOpen DEF Reading
<1>5. CASE BeginList \/ SpecialItem \/ DelimItem \/ EndList \/ ParseRules
  <2>1. /\ open' = open /\ pc \in {"list", "item", "rules"}
        /\ pc' \in {"item", "out", "crashed", "list", "rules", "finish"}
    BY <1>5 DEF BeginList, SpecialItem, DelimItem, EndList, ParseRules, InList, TreeIsFull, Keeps
  <2> QED
    BY <2>1, StillOpen DEF Reading
<1>6. CASE Finish \/ Destroy
  BY <1>6, StillOpen DEF Finish, Destroy, Reading
<1>7. CASE Out
  BY <1>7 DEF Out, OpenInv, Stuck, Reading
<1>8. CASE UNCHANGED vars
  BY <1>8 DEF vars, OpenInv, Stuck
<1> QED
  BY <1>1, <1>2, <1>3, <1>4, <1>5, <1>6, <1>7, <1>8 DEF Next

\* A build that fails and answers, whichever allocation it was that failed after
\* ne_arg_init and for any file, keeps no memory; a built engine keeps its memory
\* and its automaton, which its destruction gives back (label out,
\* destroy_normalize_engine).  Of the handles, that of get_engine_size always
\* stays, and that of read_config only where the pool had no piece left.
THEOREM AllIsReleased == Spec => []ReleasesAll
<1>1. LiveInv /\ OpenInv => ReleasesAll
  <2> SUFFICES ASSUME LiveInv, OpenInv PROVE ReleasesAll
    OBVIOUS
  <2>1. pc = "null" => live = {}
    BY DEF LiveInv, Idle
  <2>2. pc = "built" => live = {"spool", "delim_ac"} /\ open = {"size"}
    <3>1. pc = "built" => "config" \notin open /\ "size" \in open
      BY DEF OpenInv, Stuck, Reading
    <3> QED
      BY <3>1 DEF LiveInv, OpenInv
  <2> QED
    BY <2>1, <2>2 DEF ReleasesAll, OpenInv, Stuck
<1>2. Init => LiveInv /\ ReadInv /\ SetsInv /\ DelimInv /\ OpenInv
  <2>1. Init => OpenInv
    BY DEF Init, ConfigInit, OpenInv
  <2> QED
    BY <2>1, LiveInit, ReadInit, SetsInit, DelimInit
<1>3. LiveInv /\ ReadInv /\ SetsInv /\ DelimInv /\ OpenInv /\ [Next]_vars
         => (LiveInv /\ ReadInv /\ SetsInv /\ DelimInv /\ OpenInv)'
  <2>1. ReadInv /\ SetsInv /\ [Next]_vars => ReadInv' /\ SetsInv'
    BY ReadStep, SetsStep
  <2>2. ReadInv /\ SetsInv /\ DelimInv /\ [Next]_vars => DelimInv'
    BY <2>1, DelimStep
  <2>3. DelimInv => SpoolInv
    BY DEF DelimInv
  <2> QED
    BY <2>1, <2>2, <2>3, LiveStep, OpenNext
<1> QED
  BY <1>1, <1>2, <1>3, PTL DEF Spec
=============================================================================
