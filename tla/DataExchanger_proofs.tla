------------------------ MODULE DataExchanger_proofs ------------------------
(***************************************************************************)
(* For any threads, nodes and lists: following the pointers from de->head  *)
(* always spells exactly the nodes put and not yet taken, in order; hence  *)
(* what is taken is private, and the exchanger implements the atomic one.  *)
(***************************************************************************)
EXTENDS DataExchanger, FiniteSetTheorems, WellFoundedInduction, TLAPS

\* A list without repetitions.
Distinct(s) == \A i, j \in 1 .. Len(s) : s[i] = s[j] => i = j

\* A node is in one place only: inside, or with one thread.
OnePlace ==
    /\ \A n \in Node, t, u \in Thread : n \in pool[t] /\ n \in pool[u] => t = u
    /\ \A n \in Node, t \in Thread : n \in pool[t] => n \notin Nodes(content)
    /\ Distinct(content)

\* What a thread is inserting: its own distinct nodes, chained; and linked to
\* the head it saw when it is about to exchange.
InFlight(t) ==
    pc[t] \in {"link", "cas"} =>
        /\ Len(list[t]) > 0
        /\ Distinct(list[t])
        /\ \A i \in 1 .. Len(list[t]) - 1 : next[list[t][i]] = list[t][i + 1]
        /\ pc[t] = "cas" => next[list[t][Len(list[t])]] = tmp[t]

IInv == /\ TypeOK /\ OnePlace /\ HeadSpellsContent
        /\ \A t \in Thread : InFlight(t)
-----------------------------------------------------------------------------
\* The elements of a list, one by one.
LEMMA NodesOf ==
    ASSUME NEW S, NEW s \in Seq(S)
    PROVE  /\ Nodes(s) \subseteq S
           /\ \A i \in 1 .. Len(s) : s[i] \in Nodes(s) /\ s[i] \in S
    BY DEF Nodes

\* A change of the next fields outside a list leaves what it spells.
LEMMA SpellsFrame ==
    ASSUME NEW p, NEW s \in Seq(Node), Spells(p, s),
           \A n \in Nodes(s) : next'[n] = next[n]
    PROVE  /\ s = <<>> => p = NULL
           /\ s # <<>> => /\ p = s[1]
                          /\ \A i \in 1 .. Len(s) - 1 : next'[s[i]] = s[i + 1]
                          /\ next'[s[Len(s)]] = NULL
    BY DEF Spells, Nodes

\* A chained list in front of a list that is spelt spells the two together.
LEMMA SpellsConcat ==
    ASSUME NEW s \in Seq(Node), NEW c \in Seq(Node), NEW p, Len(s) > 0,
           \A i \in 1 .. Len(s) - 1 : next[s[i]] = s[i + 1],
           next[s[Len(s)]] = p, Spells(p, c)
    PROVE  Spells(s[1], s \o c)
<1> DEFINE sc == s \o c
<1>1. /\ sc \in Seq(Node) /\ Len(sc) = Len(s) + Len(c) /\ Len(s) \in Nat /\ Len(c) \in Nat
      /\ \A i \in 1 .. Len(sc) : sc[i] = IF i <= Len(s) THEN s[i] ELSE c[i - Len(s)]
    OBVIOUS
<1> HIDE DEF sc
<1>2. sc # <<>> /\ sc[1] = s[1]
    BY <1>1
<1>3. CASE c = <<>>
    <2>1. p = NULL /\ Len(c) = 0
        BY <1>3 DEF Spells
    <2> QED
        BY <1>1, <1>2, <2>1 DEF Spells, sc
<1>4. CASE c # <<>>
    <2>1. Len(c) > 0 /\ p = c[1] /\ next[c[Len(c)]] = NULL
        BY <1>4 DEF Spells
    <2>2. \A i \in 1 .. Len(c) - 1 : next[c[i]] = c[i + 1]
        BY <1>4 DEF Spells
    <2>3. next[sc[Len(sc)]] = NULL
        BY <1>1, <2>1
    <2>4. ASSUME NEW i \in 1 .. Len(sc) - 1 PROVE next[sc[i]] = sc[i + 1]
        <3>1. CASE i < Len(s)
            BY <1>1, <3>1
        <3>2. CASE i = Len(s)
            <4>1. sc[i] = s[Len(s)]
                BY <1>1, <3>2
            <4>2. i + 1 \in 1 .. Len(sc) /\ ~(i + 1 <= Len(s)) /\ i + 1 - Len(s) = 1
                BY <1>1, <3>2
            <4>3. sc[i + 1] = c[1]
                BY <1>1, <4>2
            <4> QED
                BY <4>1, <4>3, <2>1
        <3>3. CASE i > Len(s)
            <4> DEFINE j == i - Len(s)
            <4>1. j \in 1 .. Len(c) - 1 /\ sc[i] = c[j] /\ sc[i + 1] = c[j + 1]
                BY <1>1, <3>3
            <4> QED
                BY <4>1, <2>2
        <3> QED
            BY <3>1, <3>2, <3>3, <1>1
    <2> QED
        BY <1>2, <2>3, <2>4 DEF Spells, sc
<1> QED
    BY <1>3, <1>4

\* The nodes of two lists put together.
LEMMA NodesConcat ==
    ASSUME NEW s \in Seq(Node), NEW c \in Seq(Node)
    PROVE  /\ s \o c \in Seq(Node)
           /\ Nodes(s \o c) = Nodes(s) \cup Nodes(c)
           /\ Distinct(s) /\ Distinct(c) /\ Nodes(s) \cap Nodes(c) = {}
                  => Distinct(s \o c)
<1> DEFINE sc == s \o c
<1>1. /\ sc \in Seq(Node) /\ Len(sc) = Len(s) + Len(c) /\ Len(s) \in Nat /\ Len(c) \in Nat
      /\ \A i \in 1 .. Len(sc) : sc[i] = IF i <= Len(s) THEN s[i] ELSE c[i - Len(s)]
    OBVIOUS
<1> HIDE DEF sc
<1>2. \A i \in 1 .. Len(s) : sc[i] = s[i] /\ i \in 1 .. Len(sc)
    BY <1>1
<1>3. ASSUME NEW i \in 1 .. Len(c)
      PROVE  sc[i + Len(s)] = c[i] /\ i + Len(s) \in 1 .. Len(sc)
    <2>1. i + Len(s) \in 1 .. Len(sc) /\ ~(i + Len(s) <= Len(s)) /\ (i + Len(s)) - Len(s) = i
        BY <1>1
    <2> QED
        BY <1>1, <2>1
<1>4. \A i \in 1 .. Len(sc) : i \in 1 .. Len(s) \/ (i - Len(s) \in 1 .. Len(c) /\ sc[i] = c[i - Len(s)])
    BY <1>1
<1>5. Nodes(sc) = Nodes(s) \cup Nodes(c)
    <2>1. ASSUME NEW n \in Nodes(sc) PROVE n \in Nodes(s) \cup Nodes(c)
        <3>1. PICK i \in 1 .. Len(sc) : sc[i] = n
            BY DEF Nodes
        <3>2. CASE i \in 1 .. Len(s)
            BY <1>2, <3>1, <3>2 DEF Nodes
        <3>3. CASE i - Len(s) \in 1 .. Len(c) /\ sc[i] = c[i - Len(s)]
            BY <3>1, <3>3 DEF Nodes
        <3> QED
            BY <1>4, <3>2, <3>3
    <2>2. ASSUME NEW n \in Nodes(s) PROVE n \in Nodes(sc)
        BY <1>2 DEF Nodes
    <2>3. ASSUME NEW n \in Nodes(c) PROVE n \in Nodes(sc)
        <3>1. PICK i \in 1 .. Len(c) : c[i] = n
            BY DEF Nodes
        <3>2. sc[i + Len(s)] = n /\ i + Len(s) \in 1 .. Len(sc)
            BY <1>3, <3>1
        <3> QED
            BY <3>2 DEF Nodes
    <2> QED
        BY <2>1, <2>2, <2>3
<1>6. ASSUME Distinct(s), Distinct(c), Nodes(s) \cap Nodes(c) = {},
             NEW i \in 1 .. Len(sc), NEW j \in 1 .. Len(sc), sc[i] = sc[j]
      PROVE  i = j
    <2>1. CASE i <= Len(s) /\ j <= Len(s)
        BY <1>1, <1>6, <2>1 DEF Distinct
    <2>2. CASE i > Len(s) /\ j > Len(s)
        <3>1. i - Len(s) \in 1 .. Len(c) /\ j - Len(s) \in 1 .. Len(c)
            BY <1>1, <2>2
        <3>2. c[i - Len(s)] = c[j - Len(s)]
            BY <1>1, <1>6, <2>2
        <3>3. i - Len(s) = j - Len(s)
            BY <1>6, <3>1, <3>2 DEF Distinct
        <3> QED
            BY <1>1, <3>3
    <2>3. CASE i <= Len(s) /\ j > Len(s)
        <3>1. sc[i] = s[i] /\ i \in 1 .. Len(s)
            BY <1>1, <2>3
        <3>2. sc[j] = c[j - Len(s)] /\ j - Len(s) \in 1 .. Len(c)
            BY <1>1, <2>3
        <3>3. sc[i] \in Nodes(s) /\ sc[j] \in Nodes(c)
            BY <3>1, <3>2 DEF Nodes
        <3> QED
            BY <1>6, <3>3
    <2>4. CASE i > Len(s) /\ j <= Len(s)
        <3>1. sc[j] = s[j] /\ j \in 1 .. Len(s)
            BY <1>1, <2>4
        <3>2. sc[i] = c[i - Len(s)] /\ i - Len(s) \in 1 .. Len(c)
            BY <1>1, <2>4
        <3>3. sc[j] \in Nodes(s) /\ sc[i] \in Nodes(c)
            BY <3>1, <3>2 DEF Nodes
        <3> QED
            BY <1>6, <3>3
    <2> QED
        BY <2>1, <2>2, <2>3, <2>4, <1>1
<1> QED
    BY <1>1, <1>5, <1>6 DEF Distinct, sc

LEMMA InitIInv == Init => IInv
<1> SUFFICES ASSUME Init PROVE IInv
    OBVIOUS
<1>1. content = <<>> /\ Nodes(content) = {} /\ Len(content) = 0
    BY DEF Init, Nodes
<1>2. TypeOK
    <2>1. \A t \in Thread : list[t] = <<>> /\ Nodes(list[t]) = {}
        BY DEF Init, Nodes
    <2> QED
        BY <2>1 DEF Init, TypeOK, Ptr
<1>3. OnePlace
    BY <1>1 DEF OnePlace, Init, Distinct
<1> QED
    BY <1>1, <1>2, <1>3 DEF Init, IInv, HeadSpellsContent, Spells, InFlight

LEMMA BeginStep ==
    ASSUME IInv, NEW t \in Thread, BeginInsert(t)
    PROVE  IInv'
<1> USE DEF IInv
<1>1. PICK s \in Lists(pool[t]) :
          /\ list' = [list EXCEPT ![t] = s]
          /\ next' = [n \in Node |->
                         IF \E i \in 1 .. Len(s) - 1 : s[i] = n
                         THEN s[1 + CHOOSE i \in 1 .. Len(s) - 1 : s[i] = n]
                         ELSE next[n]]
    BY DEF BeginInsert
<1>2. pool[t] \subseteq Node
    BY DEF TypeOK
<1>3. s \in Seq(pool[t]) /\ s \in Seq(Node) /\ Len(s) > 0 /\ Distinct(s) /\ Nodes(s) \subseteq pool[t]
    <2>1. PICK n \in 1 .. MaxList : s \in [1 .. n -> pool[t]]
        BY DEF Lists
    <2>2. n \in Nat /\ n > 0
        BY <2>1, MaxListPositive
    <2>3. s \in Seq(pool[t]) /\ Len(s) = n
        BY <2>1, <2>2
    <2> QED
        BY <2>2, <2>3, <1>2 DEF Lists, Distinct, Nodes
<1>4. \A i \in 1 .. Len(s) - 1 : next'[s[i]] = s[i + 1]
    <2> SUFFICES ASSUME NEW i \in 1 .. Len(s) - 1 PROVE next'[s[i]] = s[i + 1]
        OBVIOUS
    <2> DEFINE k == CHOOSE j \in 1 .. Len(s) - 1 : s[j] = s[i]
    <2>1. k \in 1 .. Len(s) - 1 /\ s[k] = s[i]
        OBVIOUS
    <2>2. i \in 1 .. Len(s) /\ k \in 1 .. Len(s)
        BY <2>1, <1>3
    <2>3. k = i
        BY <2>1, <2>2, <1>3 DEF Distinct
    <2>4. s[i] \in Node
        BY <2>2, <1>3
    <2>5. next'[s[i]] = s[1 + k]
        BY <1>1, <2>4
    <2> HIDE DEF k
    <2> QED
        BY <2>2, <2>3, <2>5, <1>3
<1>5. \A n \in Node : n \notin pool[t] => next'[n] = next[n]
    <2> SUFFICES ASSUME NEW n \in Node, n \notin pool[t] PROVE next'[n] = next[n]
        OBVIOUS
    <2>1. \A i \in 1 .. Len(s) - 1 : s[i] # n
        BY <1>3 DEF Nodes
    <2> QED
        BY <1>1, <2>1
<1>6. TypeOK'
    <2>1. next' \in [Node -> Ptr]
        <3> SUFFICES ASSUME NEW n \in Node PROVE next'[n] \in Ptr
            BY <1>1
        <3>1. CASE \E i \in 1 .. Len(s) - 1 : s[i] = n
            <4>1. PICK i \in 1 .. Len(s) - 1 : s[i] = n
                BY <3>1
            <4>2. next'[n] = s[i + 1] /\ i + 1 \in 1 .. Len(s)
                BY <1>3, <1>4, <4>1
            <4> QED
                BY <4>2, <1>3 DEF Ptr
        <3>2. CASE ~\E i \in 1 .. Len(s) - 1 : s[i] = n
            BY <1>1, <3>2 DEF TypeOK
        <3> QED
            BY <3>1, <3>2
    <2>2. \A u \in Thread : Nodes(list'[u]) \subseteq pool'[u]
        BY <1>1, <1>3 DEF TypeOK, BeginInsert
    <2> QED
        BY <1>1, <1>3, <2>1, <2>2 DEF TypeOK, BeginInsert, Goto
<1>7. OnePlace'
    BY DEF OnePlace, BeginInsert
<1>8. HeadSpellsContent'
    <2>1. \A n \in Nodes(content) : next'[n] = next[n]
        BY <1>5, NodesOf DEF OnePlace, TypeOK
    <2> QED
        BY <2>1, SpellsFrame, ZenonT(30) DEF HeadSpellsContent, Spells, BeginInsert, TypeOK
<1>9. ASSUME NEW u \in Thread PROVE InFlight(u)'
    <2>1. CASE u = t
        <3>1. pc'[t] = "link" /\ list'[t] = s
            BY <1>1 DEF BeginInsert, Goto, TypeOK
        <3> QED
            BY <2>1, <3>1, <1>3, <1>4 DEF InFlight, Distinct
    <2>2. CASE u # t
        <3>1. \A i \in 1 .. Len(list[u]) : next'[list[u][i]] = next[list[u][i]]
            BY <2>2, <1>5, NodesOf DEF TypeOK, OnePlace
        <3>2. list'[u] = list[u] /\ pc'[u] = pc[u] /\ tmp'[u] = tmp[u]
            BY <1>1, <2>2 DEF BeginInsert, Goto, TypeOK
        <3>3. Len(list[u]) \in Nat
            BY DEF TypeOK
        <3> QED
            BY <3>1, <3>2, <3>3, SMTT(20) DEF InFlight
    <2> QED
        BY <2>1, <2>2
<1> QED
    BY <1>6, <1>7, <1>8, <1>9

LEMMA LinkStep ==
    ASSUME IInv, NEW t \in Thread, Link(t)
    PROVE  IInv'
<1> USE DEF IInv
<1> DEFINE last == list[t][Len(list[t])]
<1>1. /\ list[t] \in Seq(Node) /\ Len(list[t]) \in Nat /\ Len(list[t]) > 0
      /\ last \in Nodes(list[t]) /\ last \in Node /\ last \in pool[t] /\ Distinct(list[t])
    BY DEF TypeOK, Link, InFlight, Nodes
<1> HIDE DEF last
<1>2. next' = [next EXCEPT ![last] = tmp[t]]
    BY DEF Link, LinkTo, last
<1>3. TypeOK'
    BY <1>1, <1>2 DEF TypeOK, Link, Goto
<1>4. OnePlace'
    BY DEF OnePlace, Link
<1>5. HeadSpellsContent'
    <2>1. \A n \in Nodes(content) : next'[n] = next[n]
        BY <1>1, <1>2, NodesOf DEF OnePlace, TypeOK
    <2>2. UNCHANGED <<head, content>> /\ content \in Seq(Node) /\ Spells(head, content)
        BY DEF Link, TypeOK, HeadSpellsContent
    <2>3. /\ content = <<>> => head = NULL
          /\ content # <<>> =>
                /\ head = content[1]
                /\ \A i \in 1 .. Len(content) - 1 : next'[content[i]] = content[i + 1]
                /\ next'[content[Len(content)]] = NULL
        BY <2>1, <2>2, SpellsFrame
    <2> QED
        BY <2>2, <2>3 DEF HeadSpellsContent, Spells
<1>6. ASSUME NEW u \in Thread PROVE InFlight(u)'
    <2>1. CASE u = t
        <3>1. \A i \in 1 .. Len(list[t]) - 1 : list[t][i] # last
            BY <1>1 DEF Distinct, last
        <3>2. \A i \in 1 .. Len(list[t]) - 1 : next'[list[t][i]] = next[list[t][i]]
            BY <1>1, <1>2, <3>1, NodesOf DEF TypeOK
        <3>3. next'[last] = tmp[t]
            BY <1>1, <1>2 DEF TypeOK
        <3> QED
            BY <2>1, <1>1, <3>2, <3>3 DEF InFlight, Link, Goto, TypeOK, last
    <2>2. CASE u # t
        <3>1. \A i \in 1 .. Len(list[u]) : next'[list[u][i]] = next[list[u][i]]
            BY <2>2, <1>1, <1>2, NodesOf DEF TypeOK, OnePlace
        <3>2. list'[u] = list[u] /\ pc'[u] = pc[u] /\ tmp'[u] = tmp[u]
            BY <2>2 DEF Link, Goto, TypeOK
        <3>3. Len(list[u]) \in Nat
            BY DEF TypeOK
        <3> QED
            BY <3>1, <3>2, <3>3 DEF InFlight
    <2> QED
        BY <2>1, <2>2
<1> QED
    BY <1>3, <1>4, <1>5, <1>6

LEMMA CasStep ==
    ASSUME IInv, NEW t \in Thread, CasInsert(t)
    PROVE  IInv'
<1> USE DEF IInv
<1>1. /\ list[t] \in Seq(Node) /\ content \in Seq(Node) /\ Len(list[t]) \in Nat
      /\ Len(list[t]) > 0 /\ Distinct(list[t]) /\ Nodes(list[t]) \subseteq pool[t]
      /\ \A i \in 1 .. Len(list[t]) - 1 : next[list[t][i]] = list[t][i + 1]
      /\ next[list[t][Len(list[t])]] = tmp[t] /\ pc[t] = "cas"
    BY DEF TypeOK, CasInsert, InFlight
<1>2. CASE CasWins(t)
    <2>1. /\ head = tmp[t] /\ head' = list[t][1]
          /\ pool' = [pool EXCEPT ![t] = @ \ Nodes(list[t])]
          /\ content' = list[t] \o content
          /\ list' = [list EXCEPT ![t] = <<>>]
          /\ pc' = [pc EXCEPT ![t] = "out"]
          /\ UNCHANGED <<tmp, next>>
        BY <1>2 DEF CasInsert, CasWins, Goto
    <2>2. Nodes(list[t]) \cap Nodes(content) = {}
        BY <1>1, NodesOf DEF OnePlace
    <2>3. content' \in Seq(Node) /\ Nodes(content') = Nodes(list[t]) \cup Nodes(content) /\ Distinct(content')
        BY <1>1, <2>1, <2>2, NodesConcat DEF OnePlace
    <2>4. TypeOK'
        <3>1. \A u \in Thread : Nodes(list'[u]) \subseteq pool'[u]
            <4> SUFFICES ASSUME NEW u \in Thread PROVE Nodes(list'[u]) \subseteq pool'[u]
                OBVIOUS
            <4>1. CASE u = t
                BY <2>1, <4>1 DEF TypeOK, Nodes
            <4>2. CASE u # t
                BY <2>1, <4>2 DEF TypeOK
            <4> QED
                BY <4>1, <4>2
        <3>2. list[t][1] \in Node
            BY <1>1
        <3> QED
            BY <2>1, <2>3, <3>1, <3>2 DEF TypeOK, Ptr
    <2>5. OnePlace'
        <3>1. ASSUME NEW n \in Node, NEW u \in Thread, n \in pool'[u]
              PROVE  n \in pool[u] /\ (u = t => n \notin Nodes(list[t]))
            BY <2>1, <3>1 DEF TypeOK
        <3>2. ASSUME NEW n \in Node, NEW u \in Thread, n \in pool'[u]
              PROVE  n \notin Nodes(content')
            BY <1>1, <2>3, <3>1, <3>2 DEF OnePlace
        <3> QED
            BY <2>3, <3>1, <3>2 DEF OnePlace
    <2>6. Spells(list[t][1], list[t] \o content)
        BY <1>1, <2>1, SpellsConcat DEF HeadSpellsContent
    <2>7. HeadSpellsContent'
        BY <2>1, <2>6 DEF HeadSpellsContent, Spells
    <2>8. ASSUME NEW u \in Thread PROVE InFlight(u)'
        BY <2>1 DEF InFlight, TypeOK
    <2> QED
        BY <2>4, <2>5, <2>7, <2>8
<1>3. CASE ~CasWins(t)
    <2>1. /\ tmp' = [tmp EXCEPT ![t] = head]
          /\ pc' = [pc EXCEPT ![t] = "link"]
          /\ UNCHANGED <<head, list, pool, content, next>>
        BY <1>3 DEF CasInsert, NewHead, ToLink, Goto
    <2>2. TypeOK'
        BY <2>1 DEF TypeOK
    <2>3. OnePlace' /\ HeadSpellsContent'
        BY <2>1 DEF OnePlace, HeadSpellsContent, Spells
    <2>4. ASSUME NEW u \in Thread PROVE InFlight(u)'
        BY <1>1, <2>1 DEF InFlight, TypeOK
    <2> QED
        BY <2>2, <2>3, <2>4
<1> QED
    BY <1>2, <1>3

LEMMA TakeStep ==
    ASSUME IInv, NEW t \in Thread, Take(t)
    PROVE  IInv'
<1> USE DEF IInv
<1>1. /\ head' = NULL /\ content' = <<>> /\ UNCHANGED <<next, list, tmp>>
      /\ pool' = [pool EXCEPT ![t] = @ \cup Nodes(content)]
      /\ pc' = [pc EXCEPT ![t] = "out"]
    BY DEF Take, NoHead, Goto
<1>2. Nodes(content') = {} /\ Len(content') = 0 /\ content' \in Seq(Node)
    BY <1>1 DEF Nodes
<1>3. Nodes(content) \subseteq Node
    BY NodesOf DEF TypeOK
<1>4. TypeOK'
    BY <1>1, <1>2, <1>3 DEF TypeOK, Ptr
<1>5. OnePlace'
    <2>1. ASSUME NEW n \in Node, NEW u \in Thread, n \in pool'[u]
          PROVE  n \in pool[u] \/ (u = t /\ n \in Nodes(content))
        BY <1>1, <2>1 DEF TypeOK
    <2> QED
        BY <1>2, <2>1 DEF OnePlace, Distinct
<1>6. HeadSpellsContent'
    BY <1>1 DEF HeadSpellsContent, Spells
<1>7. ASSUME NEW u \in Thread PROVE InFlight(u)'
    BY <1>1 DEF InFlight, TypeOK
<1> QED
    BY <1>4, <1>5, <1>6, <1>7

LEMMA NextIInv ==
    ASSUME IInv, [Next]_vars
    PROVE  IInv'
<1>1. CASE UNCHANGED vars
    BY <1>1 DEF vars, IInv, TypeOK, OnePlace, HeadSpellsContent, Spells, InFlight
<1>2. ASSUME NEW t \in Thread, TestEmpty(t) PROVE IInv'
    BY <1>2 DEF TestEmpty, Goto, IInv, TypeOK, OnePlace, HeadSpellsContent, Spells, InFlight
<1> QED
    BY <1>1, <1>2, BeginStep, LinkStep, CasStep, TakeStep DEF Next, Step

\* The inductive invariant holds in every state.
THEOREM Invariance == Spec => []IInv
<1>1. IInv /\ [Next]_vars => IInv'
    BY NextIInv
<1> QED
    BY InitIInv, <1>1, PTL DEF Spec

\* The pointers always spell the content (de_insert, de_insert_list,
\* de_remove), for any number of threads and nodes, reuse of nodes included.
THEOREM NothingLost == Spec => []HeadSpellsContent
<1>1. IInv => HeadSpellsContent
    BY DEF IInv
<1> QED
    BY Invariance, <1>1, PTL

\* Pointers stay pointers, and what is being inserted belongs to its inserter.
THEOREM TypeCorrect == Spec => []TypeOK
<1>1. IInv => TypeOK
    BY DEF IInv
<1> QED
    BY Invariance, <1>1, PTL
-----------------------------------------------------------------------------
\* A set of naturals has a least element.
LEMMA Least ==
    ASSUME NEW T \in SUBSET Nat, T # {}
    PROVE  \E x \in T : \A y \in T : x <= y
<1> DEFINE R == OpToRel(<, Nat)
<1>1. \A x, y \in Nat : x < y => <<x, y>> \in R
    BY DEF OpToRel
<1>2. \E x \in T : \A y \in T : ~(<<y, x>> \in R)
    <2>1. IsWellFoundedOn(R, Nat)
        BY NatLessThanWellFounded
    <2> HIDE DEF R
    <2> QED
        BY <2>1, WFMin
<1> HIDE DEF R
<1>3. PICK x \in T : \A y \in T : ~(<<y, x>> \in R)
    BY <1>2, Zenon
<1>4. \A y \in T : ~(y < x)
    BY <1>1, <1>3, Zenon
<1> QED
    BY <1>4

\* As many nodes as the list is long.
LEMMA NodesCount ==
    ASSUME NEW s \in Seq(Node), Distinct(s)
    PROVE  /\ IsFiniteSet(Nodes(s))
           /\ Cardinality(Nodes(s)) = Len(s)
           /\ Len(s) <= Cardinality(Node)
<1>1. Len(s) \in Nat /\ s \in [1 .. Len(s) -> Nodes(s)] /\ Nodes(s) \subseteq Node
    BY DEF Nodes
<1>2. IsFiniteSet(1 .. Len(s)) /\ Cardinality(1 .. Len(s)) = Len(s)
    BY <1>1, FS_Interval, SMTT(20)
<1>3. s \in Bijection(1 .. Len(s), Nodes(s))
    <2>1. s \in Injection(1 .. Len(s), Nodes(s))
        BY <1>1 DEF Distinct, Injection, IsInjective
    <2>2. s \in Surjection(1 .. Len(s), Nodes(s))
        BY <1>1 DEF Nodes, Surjection
    <2> QED
        BY <2>1, <2>2 DEF Bijection
<1>4. IsFiniteSet(Nodes(s)) /\ Cardinality(Nodes(s)) = Len(s)
    BY <1>2, <1>3, FS_Bijection DEF ExistsBijection
<1> QED
    BY <1>1, <1>4, NodesFinite, FS_Subset

\* Walking from p finds the list that the pointers from p spell.
LEMMA WalkFindsList ==
    ASSUME NEW p, NEW s \in Seq(Node), Distinct(s), Spells(p, s)
    PROVE  Walk(p) = s
<1> DEFINE N == Cardinality(Node)
           L == Len(s)
           On(f) == [k \in 0 .. N |-> IF k = 0 THEN p
                        ELSE IF f[k - 1] = NULL THEN NULL ELSE next[f[k - 1]]]
           g == [k \in 0 .. N |-> IF k < L THEN s[k + 1] ELSE NULL]
<1>1. L \in Nat /\ N \in Nat /\ L <= N
    BY NodesCount, NodesFinite, FS_CardinalityType
<1>2. \A i \in 1 .. L : s[i] \in Node /\ s[i] # NULL
    BY NullIsNoNode
<1>3. /\ L = 0 => p = NULL
      /\ L > 0 => p = s[1] /\ next[s[L]] = NULL
      /\ \A i \in 1 .. L - 1 : next[s[i]] = s[i + 1]
    BY <1>1 DEF Spells
<1> HIDE DEF N, L
<1>4. g = On(g)
    <2> SUFFICES ASSUME NEW k \in 0 .. N PROVE g[k] = On(g)[k]
        OBVIOUS
    <2>1. CASE k = 0
        BY <1>1, <1>3, <2>1
    <2>2. CASE k > 0 /\ k < L
        <3>1. g[k - 1] = s[k] /\ g[k] = s[k + 1] /\ k \in 1 .. L - 1
            BY <1>1, <2>2
        <3> QED
            BY <1>1, <1>2, <1>3, <2>2, <3>1
    <2>3. CASE k > 0 /\ k = L
        <3>1. g[k - 1] = s[L] /\ g[k] = NULL /\ L \in 1 .. L
            BY <1>1, <2>3
        <3> QED
            BY <1>1, <1>2, <1>3, <2>3, <3>1
    <2>4. CASE k > L
        <3>1. g[k - 1] = NULL /\ g[k] = NULL /\ k # 0
            BY <1>1, <2>4
        <3> QED
            BY <3>1
    <2> QED
        BY <1>1, <2>1, <2>2, <2>3, <2>4
<1>5. ASSUME NEW f, f = On(f) PROVE f = g
    <2> DEFINE Differ == {k \in 0 .. N : f[k] # g[k]}
    <2>1. Differ = {}
        <3> SUFFICES ASSUME Differ # {} PROVE FALSE
            OBVIOUS
        <3>1. PICK k \in Differ : \A j \in Differ : k <= j
            <4>1. Differ \in SUBSET Nat
                BY <1>1
            <4> HIDE DEF Differ
            <4> QED
                BY <4>1, Least
        <3>2. k \in 0 .. N /\ f[k] = On(f)[k] /\ g[k] = On(g)[k] /\ f[k] # g[k]
            BY <1>4, <1>5
        <3>3. CASE k = 0
            BY <3>2, <3>3
        <3>4. CASE k # 0
            <4>1. k - 1 \in 0 .. N /\ ~(k <= k - 1)
                BY <1>1, <3>2, <3>4
            <4>2. f[k - 1] = g[k - 1]
                BY <3>1, <4>1
            <4> QED
                BY <3>2, <3>4, <4>2
        <3> QED
            BY <3>3, <3>4
    <2> QED
        BY <1>5, <2>1
<1>6. (CHOOSE f : f = On(f)) = g
    BY <1>4, <1>5
<1>7. Cardinality({k \in DOMAIN g : g[k] # NULL}) = L
    <2>1. {k \in DOMAIN g : g[k] # NULL} = 0 .. L - 1
        BY <1>1, <1>2
    <2>2. Cardinality(0 .. L - 1) = L
        BY <1>1, FS_Interval
    <2> QED
        BY <2>1, <2>2
<1>8. [k \in 1 .. L |-> g[k - 1]] = s
    <2>1. \A k \in 1 .. L : g[k - 1] = s[k]
        BY <1>1
    <2> HIDE DEF g
    <2> QED
        BY <2>1 DEF L
<1> DEFINE at == CHOOSE f : f = On(f)
<1>9. Walk(p) = [k \in 1 .. Cardinality({k \in DOMAIN at : at[k] # NULL}) |-> at[k - 1]]
    BY Zenon DEF Walk, N
<1> HIDE DEF g, at
<1> QED
    BY <1>6, <1>7, <1>8, <1>9 DEF at

LEMMA WalkIsContent == IInv => Walk(head) = content
BY WalkFindsList DEF IInv, TypeOK, OnePlace, HeadSpellsContent

\* What a thread has taken, or not yet put, nobody else can reach through the
\* head (de_remove, de_insert).
THEOREM TakenStaysPrivate == Spec => []TakenIsPrivate
<1>1. IInv => TakenIsPrivate
    BY WalkIsContent, NodesOf DEF IInv, OnePlace, TypeOK, TakenIsPrivate
<1> QED
    BY Invariance, <1>1, PTL
-----------------------------------------------------------------------------
LEMMA PutSteps ==
    ASSUME IInv, NEW t \in Thread, CasInsert(t), CasWins(t),
           Walk(head) = content, Walk(head)' = content'
    PROVE  Abstract!Put(t)
<1> DEFINE l == list[t]
           S == Nodes(list[t])
<1>1. /\ l \in Seq(Node) /\ Len(l) \in Nat \ {0} /\ Distinct(l) /\ S \subseteq pool[t]
    BY DEF IInv, TypeOK, CasInsert, InFlight
<1>2. l[1] \in S
    BY <1>1 DEF Nodes
<1>3. S \in (SUBSET pool[t]) \ {{}}
    BY <1>1, <1>2
<1>4. l \in Abstract!SetToSeqs(S)
    <2>1. Cardinality(S) = Len(l)
        BY <1>1, NodesCount
    <2>2. l \in [1 .. Len(l) -> S]
        BY <1>1 DEF Nodes
    <2>3. \A i, j \in 1 .. Len(l) : i # j => l[i] # l[j]
        BY <1>1 DEF Distinct
    <2> QED
        BY <2>1, <2>2, <2>3 DEF Abstract!SetToSeqs, Cardinality, Abstract!Cardinality
<1>5. content' = l \o content /\ pool' = [pool EXCEPT ![t] = @ \ S]
    BY DEF CasInsert
<1> QED
    BY <1>3, <1>4, <1>5 DEF Abstract!Put

LEMMA TakeSteps ==
    ASSUME IInv, NEW t \in Thread, Take(t),
           Walk(head) = content, Walk(head)' = content'
    PROVE  Abstract!TakeAll(t)
<1>1. content \in Seq(Node)
    BY DEF IInv, TypeOK
<1>2. Abstract!ToSet(content) = Nodes(content)
    BY <1>1 DEF Abstract!ToSet, Nodes
<1> QED
    BY <1>2 DEF Take, Abstract!TakeAll

LEMMA StepIsAbstract ==
    ASSUME IInv, [Next]_vars, Walk(head) = content, Walk(head)' = content'
    PROVE  [Abstract!Next]_<<Walk(head), pool>>
<1>1. ASSUME NEW t \in Thread, CasInsert(t), CasWins(t)
      PROVE  Abstract!Next
    BY <1>1, PutSteps DEF Abstract!Next
<1>2. ASSUME NEW t \in Thread, Take(t)
      PROVE  Abstract!Next
    BY <1>2, TakeSteps DEF Abstract!Next
<1>3. ASSUME NEW t \in Thread,
             BeginInsert(t) \/ TestEmpty(t) \/ Link(t) \/ (CasInsert(t) /\ ~CasWins(t))
      PROVE  UNCHANGED <<content, pool>>
    BY <1>3 DEF BeginInsert, TestEmpty, Link, CasInsert
<1>4. CASE UNCHANGED vars
    BY <1>4 DEF vars
<1> QED
    BY <1>1, <1>2, <1>3, <1>4 DEF Next, Step

\* Every interleaving of loads, links and exchanges looks to the clients like
\* an exchanger whose puts and takes happen at once (M_data_exchanger.h).
THEOREM ExchangerIsImplemented == Spec => ImplementsExchanger
<1>1. Init => Abstract!Init
    <2>1. Init => Walk(head) = content
        BY InitIInv, WalkIsContent
    <2> QED
        BY <2>1 DEF Init, Abstract!Init
<1>2. IInv /\ [Next]_vars => Walk(head) = content /\ Walk(head)' = content'
    <2>1. IInv' => (Walk(head) = content)'
        BY WalkIsContent, PTL
    <2> QED
        BY <2>1, NextIInv, WalkIsContent
<1>3. IInv /\ [Next]_vars => [Abstract!Next]_<<Walk(head), pool>>
    BY <1>2, StepIsAbstract
<1> QED
    BY <1>1, <1>3, Invariance, PTL DEF Spec, ImplementsExchanger, Abstract!Spec
=============================================================================
