----------------------------- MODULE RBTree_proofs -----------------------------
(***************************************************************************)
(* Every call of RBTree, between any two turns of its loops, leaves a tree *)
(* whose pointers agree, whose keys are in order and whose colours keep    *)
(* the red-black rules, for any number of nodes, any keys, equal ones      *)
(* among them, and both kinds of trees.                                    *)
(*                                                                         *)
(* First what Closure computes and what a tree of pointers is (Shape);     *)
(* then what each piece of pointer surgery does to the shape and to the    *)
(* order of the keys: rotation, splicing out, putting one node in place    *)
(* of another, hanging on; then what the functions that run up and down    *)
(* the tree return; then the inductive invariant IInv, action by action.   *)
(*                                                                         *)
(* The colours come after, with an invariant of their own, RBInv: every    *)
(* node has a height that counts the black nodes on every way down from    *)
(* it, short of one at most at the place a removal works on.               *)
(***************************************************************************)
EXTENDS RBTree, FiniteSetTheorems, WellFoundedInduction, TLAPS

\* A family of subsets of a finite set has a least and a greatest member, neither within
\* nor around another.
LEMMA Minimal ==
    ASSUME NEW D, IsFiniteSet(D), NEW F \in SUBSET SUBSET D, F # {}
    PROVE  \E A \in F : \A B \in F : B \subseteq A => B = A
<1> DEFINE R == StrictSubsetOrdering(D)
<1>1. IsWellFoundedOn(R, SUBSET D)
  BY FS_StrictSubsetOrderingWellFounded, FS_FiniteSubsetsOfFinite
<1>2. \A A, B \in SUBSET D : B \subseteq A /\ B # A => <<B, A>> \in R
  BY DEF StrictSubsetOrdering
<1> HIDE DEF R
<1>3. PICK A \in F : \A B \in F : ~(<<B, A>> \in R)
  BY <1>1, WFMin
<1> QED
  BY <1>2, <1>3

LEMMA Maximal ==
    ASSUME NEW D, IsFiniteSet(D), NEW F \in SUBSET SUBSET D, F # {}
    PROVE  \E A \in F : \A B \in F : A \subseteq B => B = A
<1> DEFINE G == {A \in SUBSET D : D \ A \in F}
<1>1. G \in SUBSET SUBSET D /\ G # {}
  <2>1. \A A \in F : D \ (D \ A) = A
    OBVIOUS
  <2>2. PICK A \in F : TRUE
    OBVIOUS
  <2>3. D \ A \in G
    BY <2>1
  <2> QED
    BY <2>3
<1>2. PICK A \in G : \A B \in G : B \subseteq A => B = A
  <2> HIDE DEF G
  <2> QED
    BY <1>1, Minimal
<1>3. ASSUME NEW B \in F, D \ A \subseteq B
      PROVE  B = D \ A
  <2>1. D \ B \in G /\ D \ B \subseteq A
    <3>1. D \ (D \ B) = B
      OBVIOUS
    <3> QED
      BY <1>3, <3>1
  <2>2. D \ B = A
    BY <1>2, <2>1
  <2> QED
    BY <2>2
<1>4. D \ A \in F
  OBVIOUS
<1>5. \A B \in F : D \ A \subseteq B => B = D \ A
  BY <1>3
<1> HIDE DEF G
<1>6. PICK Z \in F : Z = D \ A
  BY <1>4
<1>7. \A B \in F : Z \subseteq B => B = Z
  BY <1>5, <1>6
<1> QED
  BY <1>7
-----------------------------------------------------------------------------
\* What Closure computes: the least set that holds T and, with a node, all
\* that a step leads to from there.
Leads == [Node -> SUBSET Pointer]
Grow(T, step) == T \cup ((UNION {step[m] : m \in T}) \ {NULL})
Grows(f, step) == f = [T \in SUBSET Node |-> IF Grow(T, step) = T THEN T ELSE f[Grow(T, step)]]
Shut(step, C) == \A m \in C : \A k \in step[m] : k # NULL => k \in C
Reach(step, T) == {m \in Node : \A C \in SUBSET Node : T \subseteq C /\ Shut(step, C) => m \in C}

LEMMA GrowIs ==
    ASSUME NEW step \in Leads, NEW T \in SUBSET Node
    PROVE  /\ Grow(T, step) \in SUBSET Node /\ T \subseteq Grow(T, step)
           /\ Grow(T, step) = T <=> Shut(step, T)
           /\ \A C \in SUBSET Node : T \subseteq C /\ Shut(step, C) => Grow(T, step) \subseteq C
<1>1. \A k : k \in Grow(T, step) <=> k \in T \/ (k # NULL /\ \E m \in T : k \in step[m])
  BY DEF Grow
<1>2. \A m \in T : \A k \in step[m] : k # NULL => k \in Node
  BY DEF Leads, Pointer
<1> QED
  BY <1>1, <1>2 DEF Shut

LEMMA ReachIs ==
    ASSUME NEW step \in Leads, NEW T \in SUBSET Node
    PROVE  /\ Reach(step, T) \in SUBSET Node
           /\ T \subseteq Reach(step, T) /\ Shut(step, Reach(step, T))
           /\ \A C \in SUBSET Node : T \subseteq C /\ Shut(step, C) => Reach(step, T) \subseteq C
           /\ Shut(step, T) => Reach(step, T) = T
           /\ Reach(step, T) = Reach(step, Grow(T, step))
<1>1. Reach(step, T) \in SUBSET Node /\ T \subseteq Reach(step, T)
  BY DEF Reach
<1>2. Shut(step, Reach(step, T))
  <2> SUFFICES ASSUME NEW m \in Reach(step, T), NEW k \in step[m], k # NULL
               PROVE  k \in Reach(step, T)
    BY DEF Shut
  <2>1. m \in Node /\ k \in Node
    BY DEF Reach, Leads, Pointer
  <2>2. ASSUME NEW C \in SUBSET Node, T \subseteq C, Shut(step, C)
        PROVE  k \in C
    BY <2>2 DEF Reach, Shut
  <2> QED
    BY <2>1, <2>2 DEF Reach
<1>3. \A C \in SUBSET Node : T \subseteq C /\ Shut(step, C) => Reach(step, T) \subseteq C
  BY DEF Reach
<1>4. Shut(step, T) => Reach(step, T) = T
  BY <1>1, <1>3
<1>5. Reach(step, T) = Reach(step, Grow(T, step))
  <2>1. \A C \in SUBSET Node : Shut(step, C) => (T \subseteq C <=> Grow(T, step) \subseteq C)
    BY GrowIs
  <2> QED
    BY <2>1 DEF Reach
<1> QED
  BY <1>1, <1>2, <1>3, <1>4, <1>5

LEMMA ClosureIs ==
    ASSUME NEW step \in Leads, NEW T \in SUBSET Node
    PROVE  (CHOOSE f : Grows(f, step))[T] = Reach(step, T)
<1> DEFINE g == [U \in SUBSET Node |-> Reach(step, U)]
<1>1. Grows(g, step)
  <2>1. ASSUME NEW U \in SUBSET Node
        PROVE  Reach(step, U) = IF Grow(U, step) = U THEN U ELSE g[Grow(U, step)]
    <3>1. Grow(U, step) \in SUBSET Node /\ (Grow(U, step) = U <=> Shut(step, U))
      BY GrowIs
    <3>2. (Shut(step, U) => Reach(step, U) = U) /\ Reach(step, U) = Reach(step, Grow(U, step))
      BY ReachIs
    <3> QED
      BY <3>1, <3>2
  <2> HIDE DEF g
  <2>2. g = [U \in SUBSET Node |-> Reach(step, U)]
    BY DEF g
  <2> QED
    BY <2>1, <2>2, Zenon DEF Grows
<1>2. ASSUME NEW f, Grows(f, step)
      PROVE  f[T] = Reach(step, T)
  <2> DEFINE F == {U \in SUBSET Node : f[U] # Reach(step, U)}
  <2> SUFFICES ASSUME F # {} PROVE FALSE
    OBVIOUS
  <2>1. PICK U \in F : \A V \in F : U \subseteq V => V = U
    <3>1. F \in SUBSET SUBSET Node
      OBVIOUS
    <3> HIDE DEF F
    <3> QED
      BY <3>1, Maximal, NodesFinite
  <2>2. f[U] = IF Grow(U, step) = U THEN U ELSE f[Grow(U, step)]
    BY <1>2, U \in SUBSET Node, Zenon DEF Grows
  <2>3. Grow(U, step) \in SUBSET Node /\ U \subseteq Grow(U, step) /\ (Grow(U, step) = U <=> Shut(step, U))
    BY GrowIs
  <2>4. (Shut(step, U) => Reach(step, U) = U) /\ Reach(step, U) = Reach(step, Grow(U, step))
    BY ReachIs
  <2>5. Grow(U, step) # U
    BY <2>2, <2>3, <2>4
  <2>6. Grow(U, step) \in F
    BY <2>2, <2>3, <2>4, <2>5
  <2> QED
    BY <2>1, <2>3, <2>5, <2>6
<1> HIDE DEF g
<1>3. Grows(CHOOSE f : Grows(f, step), step)
  BY <1>1, Zenon
<1> QED
  BY <1>2, <1>3, Zenon

\* A set that holds the children of its nodes, and the least one with n.
Closed(kid, C) == \A m \in C, d \in Side : kid[m][d] # NULL => kid[m][d] \in C
KidsOf(kid) == [m \in Node |-> {kid[m][d] : d \in Side}]
Under(kid, n) == Reach(KidsOf(kid), {n} \ {NULL})

GrowKids(T, kid) == T \cup ((UNION {{kid[m][d] : d \in Side} : m \in T}) \ {NULL})
KidsGrow(f, kid) ==
    f = [T \in SUBSET Node |-> IF GrowKids(T, kid) = T THEN T ELSE f[GrowKids(T, kid)]]

LEMMA BelowIs ==
    ASSUME TypeOK, NEW n \in Pointer
    PROVE  Below(n) = Under(tree.kid, n)
<1> DEFINE step == KidsOf(tree.kid)
<1>1. step \in Leads
  BY DEF TypeOK, KidsOf, Leads
<1>2. {n} \ {NULL} \in SUBSET Node
  BY DEF Pointer
<1>3. Below(n) = (CHOOSE f : KidsGrow(f, tree.kid))[{n} \ {NULL}]
  BY DEF Below, Closure, KidsGrow, GrowKids
<1>4. \A f : KidsGrow(f, tree.kid) <=> Grows(f, step)
  <2>1. \A T \in SUBSET Node : {{tree.kid[m][d] : d \in Side} : m \in T} = {step[m] : m \in T}
    BY DEF KidsOf
  <2>2. \A T \in SUBSET Node : Grow(T, step) = GrowKids(T, tree.kid)
    BY <2>1, Zenon DEF Grow, GrowKids
  <2> HIDE DEF step
  <2> QED
    BY <2>2, Zenon DEF Grows, KidsGrow
<1>5. Below(n) = (CHOOSE f : Grows(f, step))[{n} \ {NULL}]
  <2> HIDE DEF step
  <2> QED
    BY <1>3, <1>4, Zenon
<1> HIDE DEF step
<1> QED
  BY <1>1, <1>2, <1>5, ClosureIs DEF Under, step

LEMMA UnderIs ==
    ASSUME NEW kid \in [Node -> [Side -> Pointer]], NEW n \in Pointer
    PROVE  /\ Under(kid, n) \in SUBSET Node
           /\ n # NULL => n \in Under(kid, n)
           /\ Closed(kid, Under(kid, n))
           /\ \A C \in SUBSET Node : (n # NULL => n \in C) /\ Closed(kid, C) => Under(kid, n) \subseteq C
<1>1. KidsOf(kid) \in Leads /\ {n} \ {NULL} \in SUBSET Node
  BY DEF Leads, KidsOf, Pointer
<1>2. \A C \in SUBSET Node : Shut(KidsOf(kid), C) <=> Closed(kid, C)
  BY DEF Shut, Closed, KidsOf
<1> QED
  BY <1>1, <1>2, ReachIs DEF Under
-----------------------------------------------------------------------------
\* Walks from node to node.  The functions of the model that follow one
\* pointer until they stop have the value that their equations say, for from
\* every set a step leads out.
Line(f, D, stop, v, step) == f = [n \in D |-> IF n \in stop THEN v[n] ELSE f[step[n]]]
LeadsOut(D, stop, step) == \A S \in SUBSET D : S # {} => \E s \in S : s \in stop \/ step[s] \notin S

LEMMA LineIs ==
    ASSUME NEW D, IsFiniteSet(D), NEW stop, NEW v, NEW step,
           \A n \in D : n \in stop \/ step[n] \in D, LeadsOut(D, stop, step)
    PROVE  \E f : Line(f, D, stop, v, step)
<1> DEFINE Part(A, g) == \A a \in A : /\ a \in stop \/ step[a] \in A
                                     /\ g[a] = IF a \in stop THEN v[a] ELSE g[step[a]]
           F == {A \in SUBSET D : \E g : Part(A, g)}
<1>1. F \in SUBSET SUBSET D /\ {} \in F
  OBVIOUS
<1>2. PICK A \in F : \A B \in F : A \subseteq B => B = A
  <2> HIDE DEF F
  <2> QED
    BY <1>1, Maximal
<1>3. PICK g : Part(A, g)
  OBVIOUS
<1>4. A = D
  <2> SUFFICES ASSUME D \ A # {} PROVE FALSE
    OBVIOUS
  <2>1. PICK s \in D \ A : s \in stop \/ step[s] \in A
    BY DEF LeadsOut
  <2>2. PICK h : h = [a \in A \cup {s} |-> IF a = s THEN (IF s \in stop THEN v[s] ELSE g[step[s]]) ELSE g[a]]
    OBVIOUS
  <2>3. h[s] = (IF s \in stop THEN v[s] ELSE g[step[s]]) /\ \A a \in A : h[a] = g[a]
    BY <2>2
  <2>4. Part(A \cup {s}, h)
    BY <1>3, <2>1, <2>3
  <2>5. A \cup {s} \in F
    BY <2>4
  <2> QED
    BY <1>2, <2>5
<1>5. PICK f : f = [n \in D |-> g[n]]
  OBVIOUS
<1>6. \A n \in D : g[n] = IF n \in stop THEN v[n] ELSE f[step[n]]
  BY <1>3, <1>4, <1>5
<1>7. f = [n \in D |-> IF n \in stop THEN v[n] ELSE f[step[n]]]
  BY <1>5, <1>6
<1> QED
  BY <1>7 DEF Line
-----------------------------------------------------------------------------
LEMMA Sides ==
    /\ Side = {"left", "right"}
    /\ \A d \in Side : /\ Other(d) \in Side /\ Other(d) # d /\ Other(Other(d)) = d
                       /\ \A e \in Side : e = d \/ e = Other(d)
BY DEF Side, Other

\* The nodes of P are one tree with root r: parents and children agree, and
\* going up leads out of every set.
UPS == [Node -> Pointer]
KIDS == [Node -> [Side -> Pointer]]
Shape(up, kid, r, P) ==
    /\ P \in SUBSET Node
    /\ r = NULL => P = {}
    /\ r # NULL => r \in P /\ up[r] = NULL
    /\ \A n \in P : \A d \in Side :
          kid[n][d] # NULL => /\ kid[n][d] \in P /\ up[kid[n][d]] = n
                              /\ kid[n][d] # kid[n][Other(d)]
    /\ \A n \in P : n # r => up[n] \in P /\ \E d \in Side : kid[up[n]][d] = n
    /\ \A S \in SUBSET P : S # {} => \E n \in S : up[n] \notin S

LEMMA UpUnder ==
    ASSUME NEW up, NEW kid \in KIDS, NEW r, NEW P, Shape(up, kid, r, P),
           NEW n \in P, NEW e \in Under(kid, n), e # n
    PROVE  e \in P /\ up[e] \in Under(kid, n)
<1>1. /\ n \in Node /\ n # NULL /\ n \in Pointer
      /\ \A m \in P : \A d \in Side : kid[m][d] # NULL => kid[m][d] \in P /\ up[kid[m][d]] = m
      /\ P \in SUBSET Node
  BY NullIsNoNode DEF Shape, Pointer
<1>2. PICK U : U = Under(kid, n)
  OBVIOUS
<1>3. /\ U \in SUBSET Node /\ n \in U /\ Closed(kid, U)
      /\ \A C \in SUBSET Node : n \in C /\ Closed(kid, C) => U \subseteq C
  BY <1>1, <1>2, UnderIs DEF KIDS
<1>4. Closed(kid, P)
  BY <1>1 DEF Closed
<1>5. U \subseteq P
  BY <1>1, <1>3, <1>4
<1>6. ASSUME up[e] \notin U PROVE FALSE
  <2>1. Closed(kid, U \ {e})
    BY <1>1, <1>3, <1>5, <1>6 DEF Closed
  <2> QED
    BY <1>2, <1>3, <2>1
<1> QED
  BY <1>2, <1>5, <1>6

\* No node is below its own child.
LEMMA NotUnderKid ==
    ASSUME NEW up, NEW kid \in KIDS, NEW r, NEW P, Shape(up, kid, r, P),
           NEW n \in P, NEW d \in Side, kid[n][d] # NULL
    PROVE  n \notin Under(kid, kid[n][d])
<1>1. PICK k \in P : k = kid[n][d] /\ up[k] = n
  BY DEF Shape
<1>2. SUFFICES ASSUME n \in Under(kid, k) PROVE FALSE
  BY <1>1
<1>3. k \in Node /\ k # NULL /\ k \in Pointer
  BY NullIsNoNode DEF Shape, Pointer
<1>4. k \in Under(kid, k)
  BY <1>3, UnderIs DEF KIDS
<1>5. \A e \in Under(kid, k) : e \in P /\ up[e] \in Under(kid, k)
  BY <1>1, <1>2, UpUnder
<1>6. \A S \in SUBSET P : S # {} => \E e \in S : up[e] \notin S
  BY DEF Shape
<1> QED
  BY <1>4, <1>5, <1>6

LEMMA UnderKid ==
    ASSUME NEW kid \in KIDS, NEW n \in Node, NEW d \in Side, kid[n][d] # NULL
    PROVE  Under(kid, kid[n][d]) \subseteq Under(kid, n)
<1>1. kid[n][d] \in Pointer /\ n \in Pointer /\ n # NULL
  BY NullIsNoNode DEF KIDS, Pointer
<1>2. kid[n][d] \in Under(kid, n) /\ Under(kid, n) \in SUBSET Node /\ Closed(kid, Under(kid, n))
  BY <1>1, UnderIs DEF KIDS, Closed
<1> QED
  BY <1>1, <1>2, UnderIs DEF KIDS

\* Going down leads out of every set, too.
LEMMA DownOut ==
    ASSUME NEW up, NEW kid \in KIDS, NEW r, NEW P, Shape(up, kid, r, P),
           NEW S \in SUBSET P, S # {}
    PROVE  \E n \in S : \A d \in Side : kid[n][d] \notin S
<1>1. S \in SUBSET Node /\ P \in SUBSET Node
  BY DEF Shape
<1> DEFINE F == {Under(kid, n) : n \in S}
<1>2. \A n \in S : Under(kid, n) \in SUBSET Node /\ n \in Under(kid, n)
  BY <1>1, UnderIs, NullIsNoNode DEF KIDS, Pointer
<1>3. F \in SUBSET SUBSET Node /\ F # {}
  BY <1>2
<1>4. PICK A \in F : \A B \in F : B \subseteq A => B = A
  <2> HIDE DEF F
  <2> QED
    BY <1>3, Minimal, NodesFinite
<1>5. PICK n \in S : A = Under(kid, n)
  OBVIOUS
<1>6. ASSUME NEW d \in Side, kid[n][d] \in S PROVE FALSE
  <2>1. kid[n][d] # NULL
    BY <1>1, <1>6, NullIsNoNode
  <2>2. Under(kid, kid[n][d]) \subseteq A
    BY <1>1, <1>5, <2>1, UnderKid
  <2>3. Under(kid, kid[n][d]) = A
    BY <1>4, <1>6, <2>2
  <2>4. n \notin Under(kid, kid[n][d])
    BY <2>1, NotUnderKid
  <2> QED
    BY <1>2, <1>5, <2>3, <2>4
<1> QED
  BY <1>6

\* All nodes of the tree are below its root.
LEMMA UnderRoot ==
    ASSUME NEW up, NEW kid \in KIDS, NEW r \in Pointer, NEW P, Shape(up, kid, r, P)
    PROVE  Under(kid, r) = P
<1>1. P \in SUBSET Node /\ Closed(kid, P) /\ (r # NULL => r \in P) /\ (r = NULL => P = {})
  BY DEF Shape, Closed
<1>2. PICK U : U = Under(kid, r)
  OBVIOUS
<1>3. /\ U \in SUBSET Node /\ (r # NULL => r \in U) /\ Closed(kid, U) /\ U \subseteq P
  BY <1>1, <1>2, UnderIs DEF KIDS
<1>4. ASSUME P \ U # {} PROVE FALSE
  <2>1. PICK n \in P \ U : up[n] \notin P \ U
    BY <1>4 DEF Shape
  <2>2. n # r
    BY <1>1, <1>3, <2>1
  <2>3. up[n] \in P /\ up[n] \in U /\ \E d \in Side : kid[up[n]][d] = n
    BY <2>1, <2>2 DEF Shape
  <2> QED
    BY <1>1, <1>3, <2>1, <2>3, NullIsNoNode DEF Closed
<1> QED
  BY <1>2, <1>3, <1>4
-----------------------------------------------------------------------------
\* bst_left_rotate and bst_right_rotate: n goes down on side d, its child m
\* comes up, below q, and inner changes from m to n.
Turns(up, kid, n, m, inner, q, d) ==
    /\ n \in Node /\ d \in Side /\ m = kid[n][Other(d)] /\ m # NULL
    /\ inner = kid[m][d] /\ q = up[n]
Turned(up, kid, r, n, m, inner, q, d, up2, kid2, r2) ==
    /\ up2 \in UPS /\ kid2 \in KIDS
    /\ \A e \in Node : up2[e] = IF e = inner THEN n ELSE IF e = m THEN q ELSE IF e = n THEN m ELSE up[e]
    /\ \A e \in Node : \A s \in Side :
          kid2[e][s] = IF e = n /\ s = Other(d) THEN inner ELSE IF e = m /\ s = d THEN n
                       ELSE IF e = q /\ kid[e][s] = n THEN m ELSE kid[e][s]
    /\ r2 = IF q = NULL THEN m ELSE r

LEMMA TurnShape ==
    ASSUME NEW up \in UPS, NEW kid \in KIDS, NEW r, NEW P, Shape(up, kid, r, P),
           NEW n \in P, NEW m, NEW inner, NEW q, NEW d, Turns(up, kid, n, m, inner, q, d),
           NEW up2, NEW kid2, NEW r2, Turned(up, kid, r, n, m, inner, q, d, up2, kid2, r2)
    PROVE  Shape(up2, kid2, r2, P)
<1>1. /\ P \in SUBSET Node /\ NULL \notin P /\ r \in P /\ up[r] = NULL
      /\ \A e \in P : \A s \in Side :
           kid[e][s] # NULL => /\ kid[e][s] \in P /\ up[kid[e][s]] = e
                               /\ kid[e][s] # kid[e][Other(s)]
      /\ \A e \in P : e # r => up[e] \in P /\ \E s \in Side : kid[up[e]][s] = e
  BY NullIsNoNode DEF Shape
<1>2. \A S \in SUBSET P : S # {} => \E e \in S : up[e] \notin S
  BY DEF Shape
<1>3. /\ d \in Side /\ Other(d) \in Side /\ Other(d) # d /\ Other(Other(d)) = d
      /\ \A s \in Side : s = d \/ s = Other(d)
      /\ \A s \in Side : Other(s) \in Side /\ Other(s) # s
  BY Sides DEF Turns
<1>4. /\ m = kid[n][Other(d)] /\ m # NULL /\ inner = kid[m][d] /\ q = up[n]
      /\ m \in P /\ up[m] = n
  BY <1>1, <1>3 DEF Turns
<1>5. m # n /\ q # m /\ q # n
  <2>1. m # n
    BY <1>2, <1>4, {n} \in SUBSET P
  <2>2. q # n
    BY <1>2, <1>4, {n} \in SUBSET P
  <2>3. q # m
    <3>1. PICK e \in {n, m} : up[e] \notin {n, m}
      BY <1>2, <1>4, {n, m} \in SUBSET P
    <3> QED
      BY <1>4, <3>1
  <2> QED
    BY <2>1, <2>2, <2>3
<1>6. inner # NULL => inner \in P /\ up[inner] = m /\ inner # m /\ inner # n
  <2> SUFFICES ASSUME inner # NULL PROVE inner \in P /\ up[inner] = m /\ inner # m /\ inner # n
    OBVIOUS
  <2>1. inner \in P /\ up[inner] = m
    BY <1>1, <1>3, <1>4
  <2> QED
    BY <1>4, <1>5, <2>1
<1>7. q = NULL <=> n = r
  BY <1>1, <1>4
<1>8. q # NULL => q \in P /\ \E s \in Side : kid[q][s] = n
  BY <1>1, <1>4, <1>7
<1>9. /\ \A e \in P : up2[e] = IF e = inner THEN n ELSE IF e = m THEN q ELSE IF e = n THEN m ELSE up[e]
      /\ \A e \in P : \A s \in Side :
          kid2[e][s] = IF e = n /\ s = Other(d) THEN inner ELSE IF e = m /\ s = d THEN n
                       ELSE IF e = q /\ kid[e][s] = n THEN m ELSE kid[e][s]
      /\ r2 = IF q = NULL THEN m ELSE r
  BY <1>1 DEF Turned
<1>10. r2 \in P /\ up2[r2] = NULL
  <2>1. r # inner
    BY <1>1, <1>4, <1>6
  <2> QED
    BY <1>1, <1>4, <1>5, <1>6, <1>7, <1>9, <2>1
<1>11. ASSUME NEW e \in P, NEW s \in Side, kid2[e][s] # NULL
       PROVE  kid2[e][s] \in P /\ up2[kid2[e][s]] = e /\ kid2[e][s] # kid2[e][Other(s)]
  <2>1. CASE e = n
    BY <1>1, <1>3, <1>4, <1>5, <1>6, <1>9, <1>11, <2>1
  <2>2. CASE e = m
    BY <1>1, <1>3, <1>4, <1>5, <1>6, <1>9, <1>11, <2>2
  <2>3. CASE e = q
    BY <1>1, <1>3, <1>4, <1>5, <1>6, <1>9, <1>11, <2>3
  <2>4. CASE e # n /\ e # m /\ e # q
    BY <1>1, <1>3, <1>4, <1>5, <1>6, <1>9, <1>11, <2>4
  <2> QED
    BY <2>1, <2>2, <2>3, <2>4
<1>12. ASSUME NEW e \in P, e # r2
       PROVE  up2[e] \in P /\ \E s \in Side : kid2[up2[e]][s] = e
  <2>1. CASE e = inner
    BY <1>1, <1>3, <1>6, <1>9, <2>1
  <2>2. CASE e # inner /\ e = m
    <3>1. q \in P /\ up2[e] = q
      BY <1>7, <1>8, <1>9, <1>12, <2>2
    <3>2. PICK s \in Side : kid[q][s] = n
      BY <1>8, <3>1, <1>1
    <3>3. kid2[q][s] = m
      BY <1>5, <1>9, <3>1, <3>2
    <3> QED
      BY <2>2, <3>1, <3>3
  <2>3. CASE e # inner /\ e = n
    BY <1>3, <1>4, <1>5, <1>9, <2>3
  <2>4. CASE e # inner /\ e # m /\ e # n
    <3>1. e # r /\ up2[e] = up[e]
      BY <1>7, <1>9, <1>12, <2>4
    <3>2. up[e] \in P /\ \E s \in Side : kid[up[e]][s] = e
      BY <1>1, <3>1
    <3>3. PICK s \in Side : kid[up[e]][s] = e
      BY <3>2
    <3>4. kid2[up[e]][s] = e
      BY <1>3, <1>4, <1>9, <2>4, <3>2, <3>3
    <3> QED
      BY <3>1, <3>2, <3>4
  <2> QED
    BY <2>1, <2>2, <2>3, <2>4
<1>13. ASSUME NEW S \in SUBSET P, S # {}
       PROVE  \E e \in S : up2[e] \notin S
  <2>1. CASE n \notin S /\ m \notin S
    BY <1>2, <1>9, <1>13, <2>1
  <2>2. CASE n \in S \/ m \in S
    <3>1. PICK e \in S \cup {n, m} : up[e] \notin S \cup {n, m}
      BY <1>2, <1>4, S \cup {n, m} \in SUBSET P, S \cup {n, m} # {}
    <3>2. e # m /\ e # inner
      BY <1>4, <1>6, <3>1, <1>1
    <3>3. CASE e # n
      BY <1>9, <3>1, <3>2, <3>3
    <3>4. CASE e = n
      <4>1. m # inner /\ n # inner
        BY <1>6, <1>1, <1>4
      <4> QED
        BY <1>4, <1>5, <1>9, <2>2, <3>1, <3>4, <4>1
    <3> QED
      BY <3>3, <3>4
  <2> QED
    BY <2>1, <2>2
<1> QED
  BY <1>1, <1>10, <1>11, <1>12, <1>13, NullIsNoNode DEF Shape

\* A set that was closed before the rotation, and one that is after it.
LEMMA TurnClosed ==
    ASSUME NEW up \in UPS, NEW kid \in KIDS, NEW r, NEW P, Shape(up, kid, r, P),
           NEW n \in P, NEW m, NEW inner, NEW q, NEW d, Turns(up, kid, n, m, inner, q, d),
           NEW up2, NEW kid2, NEW r2, Turned(up, kid, r, n, m, inner, q, d, up2, kid2, r2),
           NEW C \in SUBSET P, Closed(kid, C), n \in C <=> m \in C
    PROVE  Closed(kid2, C)
<1>1. m = kid[n][Other(d)] /\ inner = kid[m][d] /\ m \in P /\ m # NULL /\ Other(d) \in Side /\ d \in Side
      /\ P \in SUBSET Node
  BY Sides DEF Turns, Shape
<1>2. \A e \in P : \A s \in Side :
          kid2[e][s] = IF e = n /\ s = Other(d) THEN inner ELSE IF e = m /\ s = d THEN n
                       ELSE IF e = q /\ kid[e][s] = n THEN m ELSE kid[e][s]
  BY <1>1 DEF Turned
<1>3. \A e \in C : \A s \in Side : kid[e][s] # NULL => kid[e][s] \in C
  BY DEF Closed
<1>4. ASSUME NEW e \in C, NEW s \in Side, kid2[e][s] # NULL
      PROVE  kid2[e][s] \in C
  <2>1. CASE e = n /\ s = Other(d)
    BY <1>1, <1>2, <1>3, <1>4, <2>1
  <2>2. CASE e # n \/ s # Other(d)
    BY <1>1, <1>2, <1>3, <1>4, <2>2, NullIsNoNode
  <2> QED
    BY <2>1, <2>2
<1> QED
  BY <1>4 DEF Closed
-----------------------------------------------------------------------------
\* The nodes below n are on the side of it where their keys belong.
Fits(d, a, b) == IF d = "left" THEN a <= b ELSE a >= b
Ordered(kid, P, k) ==
    \A n \in P : \A d \in Side : \A e \in Under(kid, kid[n][d]) : Fits(d, k[e], k[n])

LEMMA FitsIs ==
    /\ \A a \in Int, d \in Side : Fits(d, a, a)
    /\ \A a, b \in Int, d \in Side : Fits(Other(d), a, b) <=> Fits(d, b, a)
    /\ \A a, b, w \in Int, d \in Side : Fits(d, a, b) /\ Fits(d, b, w) => Fits(d, a, w)
BY DEF Fits, Side, Other

\* It is enough to find a set around each child.
Shelter(kid, P, k, n, d) ==
    \E C \in SUBSET P : /\ kid[n][d] \in C /\ Closed(kid, C)
                        /\ \A e \in C : Fits(d, k[e], k[n])

LEMMA UnderNull ==
    ASSUME NEW kid \in KIDS
    PROVE  Under(kid, NULL) = {}
<1>1. NULL \in Pointer /\ Closed(kid, {}) /\ {} \in SUBSET Node
  BY DEF Pointer, Closed
<1> QED
  BY <1>1, UnderIs DEF KIDS

LEMMA OrderedBy ==
    ASSUME NEW kid \in KIDS, NEW P \in SUBSET Node, NEW k,
           \A n \in P : \A d \in Side : kid[n][d] # NULL => Shelter(kid, P, k, n, d)
    PROVE  Ordered(kid, P, k)
<1> SUFFICES ASSUME NEW n \in P, NEW d \in Side, NEW e \in Under(kid, kid[n][d])
             PROVE  Fits(d, k[e], k[n])
  BY DEF Ordered
<1>1. kid[n][d] \in Pointer
  BY DEF KIDS
<1>2. CASE kid[n][d] = NULL
  BY <1>2, UnderNull
<1>3. CASE kid[n][d] # NULL
  <2>1. PICK C \in SUBSET P : /\ kid[n][d] \in C /\ Closed(kid, C)
                              /\ \A a \in C : Fits(d, k[a], k[n])
    BY <1>3 DEF Shelter
  <2>2. Under(kid, kid[n][d]) \subseteq C
    BY <1>1, <2>1, UnderIs DEF KIDS
  <2> QED
    BY <2>1, <2>2
<1> QED
  BY <1>2, <1>3

\* What is below a child, and what is not.
Branch(up, kid, P, n, d, C) ==
    /\ C \in SUBSET P /\ kid[n][d] \in C /\ Closed(kid, C) /\ n \notin C
    /\ \A e \in C : e # kid[n][d] => up[e] \in C

LEMMA BranchIs ==
    ASSUME NEW up, NEW kid \in KIDS, NEW r, NEW P, Shape(up, kid, r, P),
           NEW n \in P, NEW d \in Side, kid[n][d] # NULL
    PROVE  Branch(up, kid, P, n, d, Under(kid, kid[n][d]))
<1>1. PICK k \in P : k = kid[n][d]
  BY DEF Shape
<1>2. k \in Node /\ k # NULL /\ k \in Pointer /\ P \in SUBSET Node
  BY NullIsNoNode DEF Shape, Pointer
<1>3. k \in Under(kid, k) /\ Closed(kid, Under(kid, k))
  BY <1>2, UnderIs DEF KIDS
<1>4. \A e \in Under(kid, k) : e # k => e \in P /\ up[e] \in Under(kid, k)
  BY <1>1, UpUnder
<1>5. n \notin Under(kid, k)
  BY <1>1, NotUnderKid
<1> QED
  BY <1>1, <1>3, <1>4, <1>5 DEF Branch

LEMMA TurnOrdered ==
    ASSUME NEW up \in UPS, NEW kid \in KIDS, NEW r, NEW P, Shape(up, kid, r, P),
           NEW n \in P, NEW m, NEW inner, NEW q, NEW d, Turns(up, kid, n, m, inner, q, d),
           NEW up2, NEW kid2, NEW r2, Turned(up, kid, r, n, m, inner, q, d, up2, kid2, r2),
           NEW k \in [Node -> Int], Ordered(kid, P, k)
    PROVE  Ordered(kid2, P, k)
<1>1. /\ P \in SUBSET Node /\ NULL \notin P
      /\ \A e \in P : \A s \in Side :
           kid[e][s] # NULL => /\ kid[e][s] \in P /\ up[kid[e][s]] = e
                               /\ kid[e][s] # kid[e][Other(s)]
  BY NullIsNoNode DEF Shape
<1>2. /\ d \in Side /\ Other(d) \in Side /\ Other(d) # d /\ Other(Other(d)) = d
      /\ \A s \in Side : s = d \/ s = Other(d)
  BY Sides DEF Turns
<1>3. /\ m = kid[n][Other(d)] /\ m # NULL /\ inner = kid[m][d] /\ q = up[n]
      /\ m \in P /\ up[m] = n
  BY <1>1, <1>2 DEF Turns
<1>4. /\ kid2 \in KIDS
      /\ \A e \in P : \A s \in Side :
          kid2[e][s] = IF e = n /\ s = Other(d) THEN inner ELSE IF e = m /\ s = d THEN n
                       ELSE IF e = q /\ kid[e][s] = n THEN m ELSE kid[e][s]
  BY <1>1 DEF Turned
<1>5. \A C \in SUBSET P : Closed(kid, C) /\ (n \in C <=> m \in C) => Closed(kid2, C)
  BY TurnClosed
<1>6. \A e \in P : \A s \in Side : kid[e][s] # NULL => Branch(up, kid, P, e, s, Under(kid, kid[e][s]))
  BY BranchIs
<1>7. \A e \in P : \A s \in Side : \A a \in Under(kid, kid[e][s]) : Fits(s, k[a], k[e])
  BY DEF Ordered
<1>8. PICK M : M = Under(kid, m) /\ Branch(up, kid, P, n, Other(d), M)
  BY <1>2, <1>3, <1>6
<1>9. m # n /\ q # n /\ q # m
  <2>1. m # n
    BY <1>3, <1>8 DEF Branch
  <2>2. \A S \in SUBSET P : S # {} => \E e \in S : up[e] \notin S
    BY DEF Shape
  <2>3. q # n
    BY <1>3, <2>2, {n} \in SUBSET P
  <2>4. PICK e \in {n, m} : up[e] \notin {n, m}
    BY <1>3, <2>2, {n, m} \in SUBSET P
  <2> QED
    BY <1>3, <2>1, <2>3, <2>4
<1>10. ASSUME NEW a \in P, NEW s \in Side, kid2[a][s] # NULL
       PROVE  Shelter(kid2, P, k, a, s)
  <2>1. CASE a # n /\ a # m
    <3>1. kid[a][s] # NULL
      BY <1>1, <1>4, <1>10, <2>1
    <3>2. PICK C : C = Under(kid, kid[a][s]) /\ Branch(up, kid, P, a, s, C)
      BY <1>6, <3>1
    <3>3. n \in C <=> m \in C
      <4>1. n \in C => m \in C
        BY <1>2, <1>3, <3>2 DEF Branch, Closed
      <4>2. m # kid[a][s]
        BY <1>1, <1>3, <2>1, <3>1
      <4> QED
        BY <1>3, <3>2, <4>1, <4>2 DEF Branch
    <3>4. Closed(kid2, C) /\ C \in SUBSET P
      BY <1>5, <3>2, <3>3 DEF Branch
    <3>5. kid2[a][s] \in C
      BY <1>4, <2>1, <3>2, <3>3 DEF Branch
    <3>6. \A e \in C : Fits(s, k[e], k[a])
      BY <1>7, <3>2
    <3> QED
      BY <3>4, <3>5, <3>6 DEF Shelter
  <2>2. ASSUME inner # NULL
        PROVE  \E C \in SUBSET P : /\ inner \in C /\ Closed(kid2, C)
                                   /\ \A e \in C : Fits(d, k[e], k[m]) /\ Fits(Other(d), k[e], k[n])
    <3>1. PICK C : C = Under(kid, inner) /\ Branch(up, kid, P, m, d, C)
      BY <1>2, <1>3, <1>6, <2>2
    <3>2. n \notin C /\ m \notin C
      BY <1>2, <1>3, <3>1 DEF Branch, Closed
    <3>3. Closed(kid2, C) /\ C \in SUBSET P
      BY <1>5, <3>1, <3>2 DEF Branch
    <3>4. C \subseteq M
      BY <1>1, <1>2, <1>3, <1>8, <2>2, <3>1, UnderKid
    <3>5. \A e \in C : Fits(d, k[e], k[m]) /\ Fits(Other(d), k[e], k[n])
      BY <1>2, <1>3, <1>7, <1>8, <3>1, <3>4
    <3> QED
      BY <1>3, <3>1, <3>3, <3>5 DEF Branch
  <2>3. ASSUME kid[n][d] # NULL
        PROVE  \E C \in SUBSET P : /\ kid[n][d] \in C /\ Closed(kid2, C)
                                   /\ \A e \in C : Fits(d, k[e], k[n])
    <3>1. PICK C : C = Under(kid, kid[n][d]) /\ Branch(up, kid, P, n, d, C)
      BY <1>2, <1>6, <2>3
    <3>2. m # kid[n][d]
      BY <1>1, <1>2, <1>3
    <3>3. n \notin C /\ m \notin C
      BY <1>3, <3>1, <3>2 DEF Branch
    <3>4. Closed(kid2, C) /\ C \in SUBSET P
      BY <1>5, <3>1, <3>3 DEF Branch
    <3>5. \A e \in C : Fits(d, k[e], k[n])
      BY <1>2, <1>7, <3>1
    <3> QED
      BY <3>1, <3>4, <3>5 DEF Branch
  <2>4. CASE a = n /\ s = d
    BY <1>2, <1>4, <1>9, <1>10, <2>3, <2>4 DEF Shelter
  <2>5. CASE a = n /\ s = Other(d)
    BY <1>2, <1>4, <1>9, <1>10, <2>2, <2>5 DEF Shelter
  <2>6. CASE a = m /\ s = Other(d)
    <3>1. kid2[m][s] = kid[m][s] /\ kid[m][s] # NULL
      <4>1. kid[m][s] # n
        BY <1>1, <1>2, <1>3, <1>8, <2>6 DEF Branch, Closed
      <4> QED
        BY <1>2, <1>4, <1>9, <1>10, <2>6, <4>1
    <3>2. PICK C : C = Under(kid, kid[m][s]) /\ Branch(up, kid, P, m, s, C)
      BY <1>3, <1>6, <3>1
    <3>3. n \notin C /\ m \notin C
      BY <1>2, <1>3, <3>2 DEF Branch, Closed
    <3>4. Closed(kid2, C) /\ C \in SUBSET P
      BY <1>5, <3>2, <3>3 DEF Branch
    <3>5. \A e \in C : Fits(s, k[e], k[m])
      BY <1>3, <1>7, <3>2
    <3> QED
      BY <2>6, <3>1, <3>2, <3>4, <3>5 DEF Branch, Shelter
  <2>7. CASE a = m /\ s = d
    <3>1. PICK A \in SUBSET P : /\ kid[n][d] # NULL => kid[n][d] \in A
                                /\ Closed(kid2, A)
                                /\ \A e \in A : Fits(d, k[e], k[n])
      <4>1. CASE kid[n][d] = NULL
        <5>1. Closed(kid2, {})
          BY DEF Closed
        <5> QED
          BY <4>1, <5>1
      <4> QED
        BY <2>3, <4>1
    <3>2. PICK I \in SUBSET P : /\ inner # NULL => inner \in I
                                /\ Closed(kid2, I)
                                /\ \A e \in I : Fits(d, k[e], k[m])
      <4>1. CASE inner = NULL
        <5>1. Closed(kid2, {})
          BY DEF Closed
        <5> QED
          BY <4>1, <5>1
      <4> QED
        BY <2>2, <4>1
    <3>3. PICK C \in SUBSET P : C = {n} \cup A \cup I
      OBVIOUS
    <3>4. Fits(d, k[n], k[m])
      <4>1. Fits(Other(d), k[m], k[n])
        BY <1>2, <1>3, <1>7, <1>8 DEF Branch
      <4> QED
        BY <1>1, <1>2, <1>3, <4>1, FitsIs
    <3>5. \A e \in C : Fits(d, k[e], k[m])
      <4>1. \A e \in P : k[e] \in Int
        BY <1>1
      <4>2. \A e \in A : Fits(d, k[e], k[m])
        BY <1>2, <1>3, <3>1, <3>4, <4>1, FitsIs
      <4> QED
        BY <3>2, <3>3, <3>4, <4>2
    <3>6. Closed(kid2, C)
      <4>1. ASSUME NEW e \in C, NEW t \in Side, kid2[e][t] # NULL
            PROVE  kid2[e][t] \in C
        <5>1. CASE e \in A \/ e \in I
          BY <3>1, <3>2, <3>3, <4>1, <5>1 DEF Closed
        <5>2. CASE e = n /\ t = d
          BY <1>2, <1>4, <1>9, <3>1, <3>3, <4>1, <5>2
        <5>3. CASE e = n /\ t = Other(d)
          BY <1>2, <1>4, <3>2, <3>3, <4>1, <5>3
        <5> QED
          BY <1>2, <3>3, <4>1, <5>1, <5>2, <5>3
      <4> QED
        BY <4>1 DEF Closed
    <3>7. kid2[m][d] \in C
      BY <1>2, <1>3, <1>4, <1>9, <3>3
    <3> QED
      BY <2>7, <3>5, <3>6, <3>7 DEF Shelter
  <2> QED
    BY <1>2, <2>1, <2>4, <2>5, <2>6, <2>7
<1> QED
  BY <1>1, <1>4, <1>10, OrderedBy
-----------------------------------------------------------------------------
\* What the pointer surgery of the model writes, field by field.
Trees == [root : Pointer, up : [Node -> Pointer],
          kid : [Node -> [Side -> Pointer]], red : [Node -> BOOLEAN]]

LEMMA Fields ==
    /\ \A t \in Trees : /\ t.root \in Pointer /\ t.up \in UPS /\ t.kid \in KIDS /\ t.red \in [Node -> BOOLEAN]
                        /\ \A n \in Node : t.up[n] \in Pointer /\ \A d \in Side : t.kid[n][d] \in Pointer
    /\ NULL \in Pointer /\ \A n \in Node : n \in Pointer /\ n # NULL
    /\ \A n \in Pointer : n # NULL => n \in Node
BY NullIsNoNode DEF Trees, UPS, KIDS, Pointer

\* One child of one node.
WithKid(t, q, s, m) == [t EXCEPT !.kid[q][s] = m]
IsWithKid(t, q, s, m, t2) ==
    /\ t2 \in Trees /\ t2.up = t.up /\ t2.red = t.red /\ t2.root = t.root
    /\ \A e \in Node : \A d \in Side : t2.kid[e][d] = IF e = q /\ d = s THEN m ELSE t.kid[e][d]

LEMMA KidIs ==
    ASSUME NEW t \in Trees, NEW q \in Node, NEW s \in Side, NEW m \in Pointer
    PROVE  IsWithKid(t, q, s, m, WithKid(t, q, s, m))
<1>1. PICK K : K = [Side -> Pointer]
  OBVIOUS
<1>2. PICK k : k = t.kid /\ k \in [Node -> K]
  BY <1>1 DEF Trees
<1>3. PICK row : row = [k[q] EXCEPT ![s] = m]
  OBVIOUS
<1>4. row \in K
  BY <1>1, <1>2, <1>3
<1>5. PICK k2 : k2 = [k EXCEPT ![q] = row]
  OBVIOUS
<1>6. k2 \in [Node -> K]
  BY <1>2, <1>4, <1>5
<1>7. PICK t2 : t2 = WithKid(t, q, s, m)
  OBVIOUS
<1>8. t2 = [t EXCEPT !.kid = k2]
  BY <1>2, <1>3, <1>5, <1>7 DEF WithKid
<1>9. k2 \in [Node -> [Side -> Pointer]]
  BY <1>1, <1>6
<1>10. t2 \in Trees /\ t2.up = t.up /\ t2.red = t.red /\ t2.root = t.root /\ t2.kid = k2
  BY <1>8, <1>9 DEF Trees
<1>11. ASSUME NEW e \in Node, NEW d \in Side
       PROVE  k2[e][d] = IF e = q /\ d = s THEN m ELSE k[e][d]
  <2>1. \A a \in Side : row[a] = IF a = s THEN m ELSE k[q][a]
    BY <1>1, <1>2, <1>3
  <2>2. k2[e] = IF e = q THEN row ELSE k[e]
    BY <1>2, <1>5
  <2> QED
    BY <2>1, <2>2
<1> QED
  BY <1>2, <1>7, <1>10, <1>11 DEF IsWithKid

\* What pointed down to n from q points to m.
Holds(t, q, n) == q # NULL => \E s \in Side : t.kid[q][s] = n /\ t.kid[q][Other(s)] # n
IsPointed(t, q, n, m, t2) ==
    /\ t2 \in Trees /\ t2.up = t.up /\ t2.red = t.red
    /\ t2.root = IF q = NULL THEN m ELSE t.root
    /\ \A e \in Node : \A s \in Side :
          t2.kid[e][s] = IF e = q /\ t.kid[e][s] = n THEN m ELSE t.kid[e][s]

LEMMA PointToIs ==
    ASSUME NEW t \in Trees, NEW q \in Pointer, NEW n \in Node, NEW m \in Pointer, Holds(t, q, n)
    PROVE  IsPointed(t, q, n, m, PointTo(t, q, n, m))
<1>1. CASE q = NULL
  BY <1>1, NullIsNoNode DEF PointTo, Trees, Pointer, IsPointed
<1>2. CASE q # NULL
  <2>1. q \in Node
    BY <1>2, Fields
  <2>2. PICK s \in Side : t.kid[q][s] = n /\ t.kid[q][Other(s)] # n
    BY <1>2 DEF Holds
  <2>3. s = IF t.kid[q]["left"] = n THEN "left" ELSE "right"
    BY <2>2, Sides DEF Side, Other
  <2>4. PICK t2 : t2 = PointTo(t, q, n, m) /\ t2 = WithKid(t, q, s, m)
    BY <1>2, <2>3 DEF PointTo, WithKid
  <2>5. IsWithKid(t, q, s, m, t2)
    BY <2>1, <2>4, KidIs
  <2>6. /\ t2 \in Trees /\ t2.up = t.up /\ t2.red = t.red /\ t2.root = t.root
        /\ \A e \in Node : \A d \in Side : t2.kid[e][d] = IF e = q /\ d = s THEN m ELSE t.kid[e][d]
    BY <2>5 DEF IsWithKid
  <2>7. \A d \in Side : d = s \/ d = Other(s)
    BY Sides
  <2> QED
    BY <1>2, <2>2, <2>4, <2>6, <2>7 DEF IsPointed
<1> QED
  BY <1>1, <1>2

IsRaised(t, n, q, t2) ==
    /\ t2 \in Trees /\ t2.kid = t.kid /\ t2.red = t.red /\ t2.root = t.root
    /\ \A e \in Node : t2.up[e] = IF e = n THEN q ELSE t.up[e]

LEMMA SetUpIs ==
    ASSUME NEW t \in Trees, NEW n \in Pointer, NEW q \in Pointer
    PROVE  IsRaised(t, n, q, SetUp(t, n, q))
<1>1. CASE n = NULL
  BY <1>1, NullIsNoNode DEF SetUp, IsRaised
<1>2. CASE n # NULL
  BY <1>2, Fields DEF SetUp, Trees, IsRaised
<1> QED
  BY <1>1, <1>2

IsColoured(t, S, r, t2) ==
    /\ t2 \in Trees /\ t2.kid = t.kid /\ t2.up = t.up /\ t2.root = t.root
    /\ \A e \in Node : t2.red[e] = IF e \in S THEN r ELSE t.red[e]

LEMMA ColourIs ==
    ASSUME NEW t \in Trees, NEW S, NEW r \in BOOLEAN
    PROVE  IsColoured(t, S, r, Colour(t, S, r))
<1>1. PICK f : f = [n \in Node |-> IF n \in S THEN r ELSE t.red[n]]
  OBVIOUS
<1>2. f \in [Node -> BOOLEAN]
  BY <1>1 DEF Trees
<1>3. PICK t2 : t2 = Colour(t, S, r) /\ t2 = [t EXCEPT !.red = f]
  BY <1>1 DEF Colour
<1>4. IsColoured(t, S, r, t2)
  BY <1>1, <1>2, <1>3 DEF Trees, IsColoured
<1> QED
  BY <1>3, <1>4

IsCleared(t, n, t2) ==
    /\ t2 \in Trees /\ t2.root = t.root
    /\ \A e \in Node : /\ t2.up[e] = IF e = n THEN NULL ELSE t.up[e]
                       /\ t2.kid[e] = IF e = n THEN NoKids ELSE t.kid[e]
                       /\ t2.red[e] = IF e = n THEN FALSE ELSE t.red[e]

LEMMA ClearedIs ==
    ASSUME NEW t \in Trees, NEW n \in Node
    PROVE  IsCleared(t, n, Cleared(t, n))
<1>1. NoKids \in [Side -> Pointer]
  BY DEF NoKids, Pointer
<1> QED
  BY <1>1, Fields DEF Cleared, Trees, IsCleared

IsRotated(t, r, n, m, inner, q, d, t2) ==
    /\ t2 \in Trees /\ t2.red = t.red /\ t2.root = IF q = NULL THEN m ELSE t.root
    /\ Turned(t.up, t.kid, r, n, m, inner, q, d, t2.up, t2.kid, IF q = NULL THEN m ELSE r)

LEMMA RotateIs ==
    ASSUME NEW t \in Trees, NEW r, NEW P, Shape(t.up, t.kid, r, P), NEW n \in P,
           NEW m, NEW inner, NEW q, NEW d, Turns(t.up, t.kid, n, m, inner, q, d)
    PROVE  IsRotated(t, r, n, m, inner, q, d, Rotate(t, n, d))
<1>1. /\ P \in SUBSET Node /\ NULL \notin P /\ r \in P /\ t.up[r] = NULL
      /\ \A e \in P : \A s \in Side :
           t.kid[e][s] # NULL => /\ t.kid[e][s] \in P /\ t.up[t.kid[e][s]] = e
                                 /\ t.kid[e][s] # t.kid[e][Other(s)]
      /\ \A e \in P : e # r => t.up[e] \in P /\ \E s \in Side : t.kid[t.up[e]][s] = e
  BY NullIsNoNode DEF Shape
<1>2. \A S \in SUBSET P : S # {} => \E e \in S : t.up[e] \notin S
  BY DEF Shape
<1>3. /\ d \in Side /\ Other(d) \in Side /\ Other(d) # d /\ Other(Other(d)) = d
      /\ \A s \in Side : s = d \/ s = Other(d)
      /\ \A s \in Side : Other(s) \in Side /\ Other(s) # s
  BY Sides DEF Turns
<1>4. /\ m = t.kid[n][Other(d)] /\ m # NULL /\ inner = t.kid[m][d] /\ q = t.up[n]
      /\ m \in P /\ t.up[m] = n
  BY <1>1, <1>3 DEF Turns
<1>5. m # n /\ q # m /\ q # n
  <2>1. m # n
    BY <1>2, <1>4, {n} \in SUBSET P
  <2>2. q # n
    BY <1>2, <1>4, {n} \in SUBSET P
  <2>3. PICK e \in {n, m} : t.up[e] \notin {n, m}
    BY <1>2, <1>4, {n, m} \in SUBSET P
  <2> QED
    BY <1>4, <2>1, <2>2, <2>3
<1>6. inner # NULL => inner \in P /\ t.up[inner] = m /\ inner # m /\ inner # n
  <2> SUFFICES ASSUME inner # NULL PROVE inner \in P /\ t.up[inner] = m /\ inner # m /\ inner # n
    OBVIOUS
  <2>1. inner \in P /\ t.up[inner] = m
    BY <1>1, <1>3, <1>4
  <2> QED
    BY <1>4, <1>5, <2>1
<1>7. q \in Pointer /\ inner \in Pointer /\ n \in Node /\ m \in Node /\ m \in Pointer /\ n \in Pointer
  BY <1>1, <1>3, <1>4, Fields
<1>8. PICK ta : ta = PointTo(t, q, n, m)
  OBVIOUS
<1>9. /\ ta \in Trees /\ ta.up = t.up /\ ta.red = t.red
      /\ ta.root = IF q = NULL THEN m ELSE t.root
      /\ \A e \in Node : \A s \in Side :
            ta.kid[e][s] = IF e = q /\ t.kid[e][s] = n THEN m ELSE t.kid[e][s]
  <2>1. q # NULL => \E s \in Side : t.kid[q][s] = n /\ t.kid[q][Other(s)] # n
    <3> SUFFICES ASSUME q # NULL PROVE \E s \in Side : t.kid[q][s] = n /\ t.kid[q][Other(s)] # n
      OBVIOUS
    <3>1. q \in P /\ \E s \in Side : t.kid[q][s] = n
      BY <1>1, <1>4
    <3>2. PICK s \in Side : t.kid[q][s] = n
      BY <3>1
    <3>3. n # NULL
      BY <1>1
    <3> QED
      BY <1>1, <3>1, <3>2, <3>3
  <2>2. Holds(t, q, n)
    BY <2>1 DEF Holds
  <2>3. IsPointed(t, q, n, m, ta)
    BY <1>7, <1>8, <2>2, PointToIs
  <2> QED
    BY <2>3 DEF IsPointed
<1>10. PICK tb : tb = SetUp(ta, m, q)
  OBVIOUS
<1>11. IsRaised(ta, m, q, tb)
  BY <1>7, <1>9, <1>10, SetUpIs
<1>12. PICK tc : tc = SetUp(tb, n, m)
  OBVIOUS
<1>13. IsRaised(tb, n, m, tc)
  <2>1. tb \in Trees
    BY <1>11 DEF IsRaised
  <2> QED
    BY <1>7, <1>12, <2>1, SetUpIs
<1>14. PICK td : td = WithKid(tc, n, Other(d), inner)
  OBVIOUS
<1>15. IsWithKid(tc, n, Other(d), inner, td)
  BY <1>3, <1>7, <1>13, <1>14, KidIs DEF IsRaised
<1>16. PICK te : te = WithKid(td, m, d, n)
  OBVIOUS
<1>17. IsWithKid(td, m, d, n, te)
  <2>1. td \in Trees
    BY <1>15 DEF IsWithKid
  <2> QED
    BY <1>3, <1>7, <1>16, <2>1, KidIs
<1>18. PICK t2 : t2 = Rotate(t, n, d)
  OBVIOUS
<1>19. t2 = SetUp(te, inner, n)
  <2>1. n # NULL
    BY <1>1
  <2>2. te = [ta EXCEPT !.up[m] = q, !.up[n] = m, !.kid[n][Other(d)] = inner, !.kid[m][d] = n]
    BY <1>4, <1>10, <1>12, <1>14, <1>16, <2>1 DEF SetUp, WithKid
  <2> QED
    BY <1>4, <1>8, <1>18, <2>2 DEF Rotate, Adopt
<1>20. IsRaised(te, inner, n, t2)
  BY <1>7, <1>17, <1>19, SetUpIs DEF IsWithKid
<1>21. \A e \in Node : t2.up[e] = IF e = inner THEN n ELSE IF e = m THEN q ELSE IF e = n THEN m ELSE t.up[e]
  BY <1>5, <1>9, <1>11, <1>13, <1>15, <1>17, <1>20 DEF IsRaised, IsWithKid
<1>22. \A e \in Node : \A s \in Side :
          t2.kid[e][s] = IF e = n /\ s = Other(d) THEN inner ELSE IF e = m /\ s = d THEN n
                         ELSE IF e = q /\ t.kid[e][s] = n THEN m ELSE t.kid[e][s]
  BY <1>5, <1>9, <1>11, <1>13, <1>15, <1>17, <1>20 DEF IsRaised, IsWithKid
<1>23. t2 \in Trees /\ t2.red = t.red /\ t2.root = (IF q = NULL THEN m ELSE t.root)
  BY <1>9, <1>11, <1>13, <1>15, <1>17, <1>20 DEF IsRaised, IsWithKid
<1>24. t2.up \in UPS /\ t2.kid \in KIDS
  BY <1>23, Fields
<1> QED
  BY <1>18, <1>21, <1>22, <1>23, <1>24 DEF Turned, IsRotated
-----------------------------------------------------------------------------
\* SpliceOut: kid takes the place of m below q.
IsSpliced(t, n, m, kid, q, t2) ==
    /\ t2 \in Trees /\ t2.red = t.red
    /\ t2.root = IF t.up[n] # NULL THEN t.root ELSE IF n = m THEN kid ELSE m
    /\ \A e \in Node : t2.up[e] = IF e = kid THEN q ELSE t.up[e]
    /\ \A e \in Node : \A s \in Side :
          t2.kid[e][s] = IF e = q /\ t.kid[e][s] = m THEN kid ELSE t.kid[e][s]

LEMMA SpliceIs ==
    ASSUME NEW t \in Trees, NEW n \in Node, NEW m \in Node, Holds(t, t.up[m], m)
    PROVE  IsSpliced(t, n, m, OnlyKid(t, m), t.up[m], SpliceOut(t, n, m))
<1>1. PICK q : q = t.up[m] /\ q \in Pointer
  BY Fields
<1>2. PICK kid : kid = OnlyKid(t, m) /\ kid \in Pointer
  BY Fields DEF OnlyKid, Side
<1>3. PICK ta : ta = IF q = NULL THEN t ELSE PointTo(t, q, m, kid)
  OBVIOUS
<1>4. /\ ta \in Trees /\ ta.up = t.up /\ ta.red = t.red /\ ta.root = t.root
      /\ \A e \in Node : \A s \in Side :
          ta.kid[e][s] = IF e = q /\ t.kid[e][s] = m THEN kid ELSE t.kid[e][s]
  <2>1. CASE q = NULL
    BY <1>3, <2>1, NullIsNoNode
  <2>2. CASE q # NULL
    <3>1. IsPointed(t, q, m, kid, ta)
      BY <1>1, <1>2, <1>3, <2>2, PointToIs
    <3> QED
      BY <2>2, <3>1 DEF IsPointed
  <2> QED
    BY <2>1, <2>2
<1>5. PICK tb : tb = SetUp(ta, kid, q)
  OBVIOUS
<1>6. IsRaised(ta, kid, q, tb)
  BY <1>1, <1>2, <1>4, <1>5, SetUpIs
<1>7. PICK t2 : t2 = SpliceOut(t, n, m)
  OBVIOUS
<1>8. t2 = IF t.up[n] # NULL THEN tb ELSE [tb EXCEPT !.root = IF n = m THEN kid ELSE m]
  BY <1>1, <1>2, <1>3, <1>5, <1>7 DEF SpliceOut
<1>9. m \in Pointer
  BY Fields
<1>10. /\ t2 \in Trees /\ t2.up = tb.up /\ t2.kid = tb.kid /\ t2.red = tb.red
       /\ t2.root = IF t.up[n] # NULL THEN tb.root ELSE IF n = m THEN kid ELSE m
  BY <1>2, <1>6, <1>8, <1>9 DEF Trees, IsRaised
<1>11. IsSpliced(t, n, m, kid, q, t2)
  BY <1>4, <1>6, <1>10 DEF IsRaised, IsSpliced
<1> QED
  BY <1>1, <1>2, <1>7, <1>11

\* Succeeds: m has the fields of n, and n's relatives point to it.
IsPutIn(t, n, m, t2) ==
    /\ t2 \in Trees /\ t2.root = t.root
    /\ \A e \in Node : /\ t2.up[e] = IF e = m THEN t.up[n]
                                     ELSE IF \E s \in Side : e = t.kid[n][s] THEN m ELSE t.up[e]
                       /\ t2.red[e] = IF e = m THEN t.red[n] ELSE t.red[e]
    /\ \A e \in Node : \A s \in Side :
          t2.kid[e][s] = IF e = m THEN t.kid[n][s]
                         ELSE IF e = t.up[n] /\ t.kid[e][s] = n THEN m ELSE t.kid[e][s]

LEMMA SucceedsIs ==
    ASSUME NEW t \in Trees, NEW n \in Node, NEW m \in Node, Holds(t, t.up[n], n)
    PROVE  IsPutIn(t, n, m, Succeeds(t, n, m))
<1>1. PICK q : q = t.up[n] /\ q \in Pointer
  BY Fields
<1>2. PICK l : l = t.kid[n]["left"] /\ l \in Pointer
  BY Fields DEF Side
<1>3. PICK h : h = t.kid[n]["right"] /\ h \in Pointer
  BY Fields DEF Side
<1>4. m \in Pointer
  BY Fields
<1>5. PICK ta : ta = SetUp(t, l, m)
  OBVIOUS
<1>6. IsRaised(t, l, m, ta)
  BY <1>2, <1>4, <1>5, SetUpIs
<1>7. ta \in Trees /\ ta.kid = t.kid
  BY <1>6 DEF IsRaised
<1>8. PICK tb : tb = SetUp(ta, h, m)
  OBVIOUS
<1>9. IsRaised(ta, h, m, tb)
  BY <1>3, <1>4, <1>7, <1>8, SetUpIs
<1>10. tb \in Trees /\ tb.kid = t.kid /\ tb.red = t.red /\ tb.root = t.root
  BY <1>6, <1>9 DEF IsRaised
<1>11. PICK tc : tc = IF q = NULL THEN tb ELSE PointTo(tb, q, n, m)
  OBVIOUS
<1>12. /\ tc \in Trees /\ tc.up = tb.up /\ tc.red = tb.red /\ tc.root = tb.root
       /\ \A e \in Node : \A s \in Side :
             tc.kid[e][s] = IF e = q /\ t.kid[e][s] = n THEN m ELSE t.kid[e][s]
  <2>1. CASE q = NULL
    BY <1>10, <1>11, <2>1, NullIsNoNode
  <2>2. CASE q # NULL
    <3>1. Holds(tb, q, n)
      BY <1>1, <1>10 DEF Holds
    <3>2. IsPointed(tb, q, n, m, tc)
      BY <1>1, <1>4, <1>10, <1>11, <2>2, <3>1, PointToIs
    <3> QED
      BY <1>10, <2>2, <3>2 DEF IsPointed
  <2> QED
    BY <2>1, <2>2
<1>13. PICK t2 : t2 = Succeeds(t, n, m)
  OBVIOUS
<1>14. t2 = [tc EXCEPT !.up[m] = q, !.kid[m] = t.kid[n], !.red[m] = t.red[n]]
  BY <1>1, <1>2, <1>3, <1>5, <1>8, <1>11, <1>13 DEF Succeeds
<1>15. PICK u : u = [tc.up EXCEPT ![m] = q]
  OBVIOUS
<1>16. u \in [Node -> Pointer] /\ \A e \in Node : u[e] = IF e = m THEN q ELSE tc.up[e]
  <2>1. tc.up \in [Node -> Pointer]
    BY <1>12 DEF Trees
  <2> QED
    BY <1>1, <1>15, <2>1
<1>17. PICK k : k = [tc.kid EXCEPT ![m] = t.kid[n]]
  OBVIOUS
<1>18. k \in [Node -> [Side -> Pointer]] /\ \A e \in Node : k[e] = IF e = m THEN t.kid[n] ELSE tc.kid[e]
  <2>1. PICK K : K = [Side -> Pointer]
    OBVIOUS
  <2>2. tc.kid \in [Node -> K] /\ t.kid[n] \in K
    BY <1>12, <2>1 DEF Trees
  <2>3. k \in [Node -> K] /\ \A e \in Node : k[e] = IF e = m THEN t.kid[n] ELSE tc.kid[e]
    BY <1>17, <2>2
  <2> QED
    BY <2>1, <2>3
<1>19. PICK g : g = [tc.red EXCEPT ![m] = t.red[n]]
  OBVIOUS
<1>20. g \in [Node -> BOOLEAN] /\ \A e \in Node : g[e] = IF e = m THEN t.red[n] ELSE tc.red[e]
  <2>1. tc.red \in [Node -> BOOLEAN] /\ t.red[n] \in BOOLEAN
    BY <1>12 DEF Trees
  <2> QED
    BY <1>19, <2>1
<1>21. t2 = [tc EXCEPT !.up = u, !.kid = k, !.red = g]
  BY <1>14, <1>15, <1>17, <1>19
<1>22. t2 \in Trees /\ t2.up = u /\ t2.kid = k /\ t2.red = g /\ t2.root = tc.root
  BY <1>12, <1>16, <1>18, <1>20, <1>21 DEF Trees
<1>23. \A e \in Node : u[e] = IF e = m THEN t.up[n]
                              ELSE IF \E s \in Side : e = t.kid[n][s] THEN m ELSE t.up[e]
  BY <1>1, <1>2, <1>3, <1>6, <1>9, <1>12, <1>16 DEF IsRaised, Side
<1>24. \A e \in Node : \A s \in Side :
          k[e][s] = IF e = m THEN t.kid[n][s]
                    ELSE IF e = t.up[n] /\ t.kid[e][s] = n THEN m ELSE t.kid[e][s]
  BY <1>1, <1>12, <1>18
<1>25. \A e \in Node : g[e] = IF e = m THEN t.red[n] ELSE t.red[e]
  BY <1>10, <1>12, <1>20
<1>26. IsPutIn(t, n, m, t2)
  BY <1>10, <1>12, <1>22, <1>23, <1>24, <1>25 DEF IsPutIn
<1> QED
  BY <1>13, <1>26

\* Hung: n is a leaf below q, or the root.
IsHung(t, n, q, d, t2) ==
    /\ t2 \in Trees
    /\ t2.root = IF t.root = NULL THEN n ELSE t.root
    /\ \A e \in Node : /\ t2.up[e] = IF e = n THEN (IF t.root = NULL THEN NULL ELSE q) ELSE t.up[e]
                       /\ t2.red[e] = IF e = n THEN kind = "rbt" ELSE t.red[e]
    /\ \A e \in Node : \A s \in Side :
          t2.kid[e][s] = IF e = n THEN NULL
                         ELSE IF t.root # NULL /\ e = q /\ s = d THEN n ELSE t.kid[e][s]

LEMMA HungIs ==
    ASSUME NEW t \in Trees, NEW n \in Node, NEW q, q = LastOnPath(t, key[n]),
           t.root # NULL => q \in Node /\ q # n,
           NEW d \in Side, d = GoesTo(key[n], q)
    PROVE  IsHung(t, n, q, d, Hung(t, n))
<1>1. n \in Pointer /\ NULL \in Pointer
  BY Fields
<1>2. PICK k : k = [t.kid EXCEPT ![n] = NoKids]
  OBVIOUS
<1>3. k \in [Node -> [Side -> Pointer]] /\ \A e \in Node : k[e] = IF e = n THEN NoKids ELSE t.kid[e]
  <2>1. PICK K : K = [Side -> Pointer]
    OBVIOUS
  <2>2. t.kid \in [Node -> K] /\ NoKids \in K
    BY <1>1, <2>1 DEF Trees, NoKids
  <2>3. k \in [Node -> K] /\ \A e \in Node : k[e] = IF e = n THEN NoKids ELSE t.kid[e]
    BY <1>2, <2>2
  <2> QED
    BY <2>1, <2>3
<1>4. PICK b : b = (kind = "rbt") /\ b \in BOOLEAN
  OBVIOUS
<1>5. PICK g : g = [t.red EXCEPT ![n] = b]
  OBVIOUS
<1>6. g \in [Node -> BOOLEAN] /\ \A e \in Node : g[e] = IF e = n THEN b ELSE t.red[e]
  <2>1. t.red \in [Node -> BOOLEAN]
    BY DEF Trees
  <2> QED
    BY <1>4, <1>5, <2>1
<1>7. PICK z : z = IF t.root = NULL THEN NULL ELSE q
  OBVIOUS
<1>8. PICK u : u = [t.up EXCEPT ![n] = z]
  OBVIOUS
<1>9. u \in [Node -> Pointer] /\ \A e \in Node : u[e] = IF e = n THEN z ELSE t.up[e]
  <2>1. t.up \in [Node -> Pointer] /\ z \in Pointer
    BY <1>7, Fields DEF Trees
  <2> QED
    BY <1>8, <2>1
<1>10. PICK ta : ta = [t EXCEPT !.kid = k, !.red = g, !.up = u]
  OBVIOUS
<1>11. ta \in Trees /\ ta.up = u /\ ta.kid = k /\ ta.red = g /\ ta.root = t.root
  BY <1>3, <1>6, <1>9, <1>10 DEF Trees
<1>12. \A s \in Side : NoKids[s] = NULL
  BY DEF NoKids
<1>13. PICK t2 : t2 = Hung(t, n)
  OBVIOUS
<1>14. CASE t.root = NULL
  <2>1. t2 = [ta EXCEPT !.root = n]
    BY <1>2, <1>4, <1>5, <1>7, <1>8, <1>10, <1>13, <1>14 DEF Hung
  <2>2. t2 \in Trees /\ t2.up = u /\ t2.kid = k /\ t2.red = g /\ t2.root = n
    BY <1>1, <1>11, <2>1 DEF Trees
  <2> QED
    BY <1>3, <1>4, <1>6, <1>7, <1>9, <1>12, <1>13, <1>14, <2>2 DEF IsHung
<1>15. CASE t.root # NULL
  <2>1. t2 = WithKid(ta, q, d, n)
    BY <1>2, <1>4, <1>5, <1>7, <1>8, <1>10, <1>13, <1>15 DEF Hung, WithKid
  <2>2. IsWithKid(ta, q, d, n, t2)
    BY <1>1, <1>11, <1>15, <2>1, KidIs
  <2> QED
    BY <1>3, <1>4, <1>6, <1>7, <1>9, <1>11, <1>12, <1>13, <1>15, <2>2 DEF IsHung, IsWithKid
<1> QED
  BY <1>14, <1>15
-----------------------------------------------------------------------------
\* A new leaf n on side d of q, or the root of an empty tree.
Hangs(up, kid, r, P, n, q, d, up2, kid2, r2) ==
    /\ n \in Node \ P /\ d \in Side
    /\ r # NULL => q \in P /\ kid[q][d] = NULL
    /\ kid2 \in KIDS
    /\ r2 = IF r = NULL THEN n ELSE r
    /\ \A e \in P : up2[e] = up[e]
    /\ up2[n] = IF r = NULL THEN NULL ELSE q
    /\ \A s \in Side : kid2[n][s] = NULL
    /\ \A e \in P : \A s \in Side : kid2[e][s] = IF e = q /\ s = d THEN n ELSE kid[e][s]

LEMMA HangShape ==
    ASSUME NEW up, NEW kid \in KIDS, NEW r, NEW P, Shape(up, kid, r, P),
           NEW n, NEW q, NEW d, NEW up2, NEW kid2, NEW r2,
           Hangs(up, kid, r, P, n, q, d, up2, kid2, r2)
    PROVE  Shape(up2, kid2, r2, P \cup {n})
<1>1. /\ P \in SUBSET Node /\ NULL \notin P /\ (r = NULL => P = {}) /\ (r # NULL => r \in P /\ up[r] = NULL)
      /\ \A e \in P : \A s \in Side :
           kid[e][s] # NULL => /\ kid[e][s] \in P /\ up[kid[e][s]] = e
                               /\ kid[e][s] # kid[e][Other(s)]
      /\ \A e \in P : e # r => up[e] \in P /\ \E s \in Side : kid[up[e]][s] = e
  BY NullIsNoNode DEF Shape
<1>2. \A S \in SUBSET P : S # {} => \E e \in S : up[e] \notin S
  BY DEF Shape
<1>3. /\ d \in Side /\ \A s \in Side : Other(s) \in Side /\ Other(s) # s /\ Other(Other(s)) = s
  BY Sides DEF Hangs
<1>4. /\ n \in Node /\ n \notin P /\ n # NULL
      /\ r # NULL => q \in P /\ kid[q][d] = NULL
      /\ r2 = IF r = NULL THEN n ELSE r
      /\ \A e \in P : up2[e] = up[e]
      /\ up2[n] = IF r = NULL THEN NULL ELSE q
      /\ \A s \in Side : kid2[n][s] = NULL
      /\ \A e \in P : \A s \in Side : kid2[e][s] = IF e = q /\ s = d THEN n ELSE kid[e][s]
  BY NullIsNoNode DEF Hangs
<1>5. PICK Q : Q = P \cup {n}
  OBVIOUS
<1>6. Q \in SUBSET Node /\ r2 # NULL /\ r2 \in Q /\ up2[r2] = NULL
  BY <1>1, <1>4, <1>5
<1>7. ASSUME NEW e \in Q, NEW s \in Side, kid2[e][s] # NULL
      PROVE  kid2[e][s] \in Q /\ up2[kid2[e][s]] = e /\ kid2[e][s] # kid2[e][Other(s)]
  <2>1. e \in P
    BY <1>4, <1>5, <1>7
  <2>2. CASE e = q /\ s = d
    BY <1>1, <1>3, <1>4, <1>5, <2>1, <2>2
  <2>3. CASE ~(e = q /\ s = d)
    <3>1. kid2[e][s] = kid[e][s] /\ kid[e][s] \in P
      BY <1>1, <1>4, <1>7, <2>1, <2>3
    <3> QED
      BY <1>1, <1>3, <1>4, <1>5, <2>1, <3>1
  <2> QED
    BY <2>2, <2>3
<1>8. ASSUME NEW e \in Q, e # r2
      PROVE  up2[e] \in Q /\ \E s \in Side : kid2[up2[e]][s] = e
  <2>1. r # NULL
    BY <1>1, <1>4, <1>5, <1>8
  <2>2. CASE e = n
    BY <1>3, <1>4, <1>5, <2>1, <2>2
  <2>3. CASE e # n
    <3>1. e \in P /\ e # r
      BY <1>4, <1>5, <1>8, <2>1, <2>3
    <3>2. PICK s \in Side : kid[up[e]][s] = e
      BY <1>1, <3>1
    <3> QED
      BY <1>1, <1>4, <1>5, <3>1, <3>2
  <2> QED
    BY <2>2, <2>3
<1>9. ASSUME NEW S \in SUBSET Q, S # {}
      PROVE  \E e \in S : up2[e] \notin S
  <2>1. CASE S = {n}
    BY <1>1, <1>4, <2>1
  <2>2. CASE S # {n}
    <3>1. S \ {n} \in SUBSET P /\ S \ {n} # {}
      BY <1>5, <1>9, <2>2
    <3>2. PICK e \in S \ {n} : up[e] \notin S \ {n}
      BY <1>2, <3>1
    <3>3. e \in P /\ up2[e] = up[e]
      BY <1>4, <3>1
    <3>4. up[e] # n
      BY <1>1, <1>4, <3>3, NullIsNoNode
    <3> QED
      BY <3>2, <3>3, <3>4
  <2> QED
    BY <2>1, <2>2
<1>10. Shape(up2, kid2, r2, Q)
  BY <1>6, <1>7, <1>8, <1>9 DEF Shape
<1> QED
  BY <1>5, <1>10

LEMMA HangOrdered ==
    ASSUME NEW up, NEW kid \in KIDS, NEW r, NEW P, Shape(up, kid, r, P),
           NEW n, NEW q, NEW d, NEW up2, NEW kid2, NEW r2,
           Hangs(up, kid, r, P, n, q, d, up2, kid2, r2),
           NEW k \in [Node -> Int], Ordered(kid, P, k),
           r # NULL => Fits(d, k[n], k[q]),
           \A a \in P : \A s \in Side : q \in Under(kid, kid[a][s]) => Fits(s, k[n], k[a])
    PROVE  Ordered(kid2, P \cup {n}, k)
<1>1. /\ P \in SUBSET Node /\ NULL \notin P /\ (r = NULL => P = {})
      /\ \A e \in P : \A s \in Side : kid[e][s] # NULL => kid[e][s] \in P
  BY NullIsNoNode DEF Shape
<1>2. /\ n \in Node /\ n \notin P /\ n # NULL /\ d \in Side /\ kid2 \in KIDS
      /\ r # NULL => q \in P /\ kid[q][d] = NULL
      /\ \A s \in Side : kid2[n][s] = NULL
      /\ \A e \in P : \A s \in Side : kid2[e][s] = IF e = q /\ s = d THEN n ELSE kid[e][s]
  BY NullIsNoNode DEF Hangs
<1>3. PICK Q \in SUBSET Node : Q = P \cup {n}
  BY <1>1, <1>2
<1>4. ASSUME NEW a \in Q, NEW s \in Side, kid2[a][s] # NULL
      PROVE  Shelter(kid2, Q, k, a, s)
  <2>1. a \in P /\ r # NULL
    BY <1>1, <1>2, <1>3, <1>4
  <2>2. CASE a = q /\ s = d
    <3>1. Closed(kid2, {n})
      BY <1>2 DEF Closed
    <3>2. kid2[a][s] \in {n} /\ {n} \in SUBSET Q
      BY <1>2, <1>3, <2>1, <2>2
    <3>3. \A e \in {n} : Fits(s, k[e], k[a])
      BY <2>1, <2>2
    <3> QED
      BY <3>1, <3>2, <3>3 DEF Shelter
  <2>3. CASE ~(a = q /\ s = d)
    <3>1. kid2[a][s] = kid[a][s] /\ kid[a][s] # NULL
      BY <1>2, <1>4, <2>1, <2>3
    <3>2. PICK B : B = Under(kid, kid[a][s]) /\ Branch(up, kid, P, a, s, B)
      BY <2>1, <3>1, BranchIs
    <3>3. \A e \in B : Fits(s, k[e], k[a])
      BY <2>1, <3>2 DEF Ordered
    <3>4. B \in SUBSET P /\ kid[a][s] \in B /\ \A e \in B : \A b \in Side : kid[e][b] # NULL => kid[e][b] \in B
      BY <3>2 DEF Branch, Closed
    <3>5. CASE q \notin B
      <4>1. Closed(kid2, B)
        BY <1>2, <3>4, <3>5 DEF Closed
      <4> QED
        BY <1>3, <3>1, <3>3, <3>4, <4>1 DEF Shelter
    <3>6. CASE q \in B
      <4>1. Closed(kid2, B \cup {n})
        BY <1>2, <3>4, <3>6 DEF Closed
      <4>2. \A e \in B \cup {n} : Fits(s, k[e], k[a])
        BY <2>1, <3>2, <3>3, <3>6
      <4>3. B \cup {n} \in SUBSET Q
        BY <1>3, <3>4
      <4> QED
        BY <3>1, <3>4, <4>1, <4>2, <4>3 DEF Shelter
    <3> QED
      BY <3>5, <3>6
  <2> QED
    BY <2>2, <2>3
<1>5. Ordered(kid2, Q, k)
  BY <1>2, <1>3, <1>4, OrderedBy
<1> QED
  BY <1>3, <1>5

\* m, which has one child c at most, leaves its place below q.
Cuts(up, kid, r, P, m, c1, q, up2, kid2, r2) ==
    /\ m \in P /\ q = up[m] /\ kid2 \in KIDS
    /\ \E s \in Side : kid[m][s] = c1 /\ kid[m][Other(s)] = NULL
    /\ r2 = IF q = NULL THEN c1 ELSE r
    /\ \A e \in P : e # m => up2[e] = IF e = c1 THEN q ELSE up[e]
    /\ \A e \in P : \A s \in Side :
          e # m => kid2[e][s] = IF e = q /\ kid[e][s] = m THEN c1 ELSE kid[e][s]

LEMMA CutShape ==
    ASSUME NEW up, NEW kid \in KIDS, NEW r, NEW P, Shape(up, kid, r, P),
           NEW m, NEW c1, NEW q, NEW up2, NEW kid2, NEW r2,
           Cuts(up, kid, r, P, m, c1, q, up2, kid2, r2)
    PROVE  Shape(up2, kid2, r2, P \ {m})
<1>1. /\ P \in SUBSET Node /\ NULL \notin P /\ (r = NULL => P = {}) /\ (r # NULL => r \in P /\ up[r] = NULL)
      /\ \A e \in P : \A s \in Side :
           kid[e][s] # NULL => /\ kid[e][s] \in P /\ up[kid[e][s]] = e
                               /\ kid[e][s] # kid[e][Other(s)]
      /\ \A e \in P : e # r => up[e] \in P /\ \E s \in Side : kid[up[e]][s] = e
  BY NullIsNoNode DEF Shape
<1>2. \A S \in SUBSET P : S # {} => \E e \in S : up[e] \notin S
  BY DEF Shape
<1>3. /\ \A s \in Side : Other(s) \in Side /\ Other(s) # s /\ Other(Other(s)) = s
      /\ \A s, b \in Side : b = s \/ b = Other(s)
  BY Sides
<1>4. /\ m \in P /\ q = up[m]
      /\ \E s \in Side : kid[m][s] = c1 /\ kid[m][Other(s)] = NULL
      /\ r2 = IF q = NULL THEN c1 ELSE r
      /\ \A e \in P : e # m => up2[e] = IF e = c1 THEN q ELSE up[e]
      /\ \A e \in P : \A s \in Side :
            e # m => kid2[e][s] = IF e = q /\ kid[e][s] = m THEN c1 ELSE kid[e][s]
  BY DEF Cuts
<1>5. /\ q # m /\ (q = NULL <=> m = r) /\ r # NULL
      /\ q # NULL => q \in P /\ \E s \in Side : kid[q][s] = m
  <2>1. \E e \in {m} : up[e] \notin {m}
    BY <1>2, <1>4
  <2> QED
    BY <1>1, <1>4, <2>1
<1>6. PICK sm \in Side : kid[m][sm] = c1 /\ kid[m][Other(sm)] = NULL
  BY <1>4
<1>7. \A s \in Side : kid[m][s] # NULL => kid[m][s] = c1
  BY <1>3, <1>6
<1>8. c1 # NULL => c1 \in P /\ up[c1] = m /\ c1 # m /\ c1 # q
  <2> SUFFICES ASSUME c1 # NULL PROVE c1 \in P /\ up[c1] = m /\ c1 # m /\ c1 # q
    OBVIOUS
  <2>1. c1 \in P /\ up[c1] = m
    BY <1>1, <1>4, <1>6
  <2>2. c1 # m
    BY <1>4, <1>5, <2>1
  <2>3. \E e \in {m, c1} : up[e] \notin {m, c1}
    BY <1>2, <1>4, <2>1, {m, c1} \in SUBSET P
  <2> QED
    BY <1>4, <2>1, <2>2, <2>3
<1>9. PICK Q \in SUBSET Node : Q = P \ {m}
  BY <1>1
<1>10. r2 = NULL => Q = {}
  <2> SUFFICES ASSUME r2 = NULL, Q # {} PROVE FALSE
    OBVIOUS
  <2>1. m = r /\ c1 = NULL /\ q = NULL
    BY <1>1, <1>4, <1>5
  <2>2. PICK e \in Q : up[e] \notin Q
    BY <1>2, <1>9
  <2>3. e \in P /\ e # r /\ up[e] = m /\ \E s \in Side : kid[m][s] = e
    BY <1>1, <1>9, <2>1, <2>2
  <2> QED
    BY <1>1, <1>7, <2>1, <2>3
<1>11. r2 # NULL => r2 \in Q /\ up2[r2] = NULL
  <2>1. CASE q = NULL
    BY <1>4, <1>8, <1>9, <2>1
  <2>2. CASE q # NULL
    <3>1. r \in Q /\ r # c1
      BY <1>1, <1>4, <1>5, <1>8, <1>9, <2>2
    <3> QED
      BY <1>1, <1>4, <1>9, <2>2, <3>1
  <2> QED
    BY <2>1, <2>2
<1>12. ASSUME NEW e \in Q, NEW s \in Side, kid2[e][s] # NULL
       PROVE  kid2[e][s] \in Q /\ up2[kid2[e][s]] = e /\ kid2[e][s] # kid2[e][Other(s)]
  <2>1. e \in P /\ e # m /\ Other(s) \in Side
    BY <1>3, <1>9
  <2>2. CASE e = q /\ kid[e][s] = m
    <3>1. kid2[e][s] = c1 /\ c1 # NULL /\ c1 \in Q
      BY <1>4, <1>8, <1>9, <1>12, <2>1, <2>2
    <3>2. up2[c1] = e
      BY <1>4, <1>8, <2>2, <3>1
    <3>3. kid[e][Other(s)] # m
      BY <1>1, <1>4, <2>1, <2>2
    <3>4. kid2[e][Other(s)] = kid[e][Other(s)]
      BY <1>4, <2>1, <3>3
    <3>5. kid[e][Other(s)] # c1
      BY <1>1, <1>8, <2>1, <3>1
    <3> QED
      BY <3>1, <3>2, <3>4, <3>5
  <2>3. CASE ~(e = q /\ kid[e][s] = m)
    <3>1. kid2[e][s] = kid[e][s] /\ kid[e][s] \in P /\ up[kid[e][s]] = e
      BY <1>1, <1>4, <1>12, <2>1, <2>3
    <3>2. kid[e][s] # m /\ kid[e][s] # c1
      BY <1>1, <1>4, <1>8, <2>1, <2>3, <3>1
    <3>3. kid2[e][s] \in Q /\ up2[kid2[e][s]] = e
      BY <1>4, <1>9, <3>1, <3>2
    <3>4. kid[e][s] # kid[e][Other(s)]
      BY <1>1, <2>1, <3>1
    <3>5. kid2[e][Other(s)] \in {c1, kid[e][Other(s)]}
      BY <1>4, <2>1
    <3> QED
      BY <3>1, <3>2, <3>3, <3>4, <3>5
  <2> QED
    BY <2>2, <2>3
<1>13. ASSUME NEW e \in Q, e # r2
       PROVE  up2[e] \in Q /\ \E s \in Side : kid2[up2[e]][s] = e
  <2>1. e \in P /\ e # m
    BY <1>9
  <2>2. CASE e = c1
    <3>1. q # NULL /\ q \in Q /\ up2[e] = q
      BY <1>4, <1>5, <1>9, <1>13, <2>1, <2>2
    <3>2. PICK s \in Side : kid[q][s] = m
      BY <1>5, <3>1
    <3>3. kid2[q][s] = c1
      BY <1>4, <1>5, <3>1, <3>2
    <3> QED
      BY <2>2, <3>1, <3>3
  <2>3. CASE e # c1
    <3>1. e # r
      BY <1>4, <1>5, <1>13, <2>1
    <3>2. up[e] \in P /\ \E s \in Side : kid[up[e]][s] = e
      BY <1>1, <2>1, <3>1
    <3>3. PICK s \in Side : kid[up[e]][s] = e
      BY <3>2
    <3>4. up[e] # m
      BY <1>1, <1>7, <2>1, <2>3, <3>3
    <3>5. kid2[up[e]][s] = e /\ up2[e] = up[e]
      BY <1>4, <2>1, <2>3, <3>2, <3>3, <3>4
    <3> QED
      BY <1>9, <3>2, <3>4, <3>5
  <2> QED
    BY <2>2, <2>3
<1>14. ASSUME NEW S \in SUBSET Q, S # {}
       PROVE  \E e \in S : up2[e] \notin S
  <2>1. CASE c1 \notin S
    <3>1. PICK e \in S : up[e] \notin S
      BY <1>2, <1>9, <1>14
    <3> QED
      BY <1>4, <1>9, <2>1, <3>1
  <2>2. CASE c1 \in S
    <3>1. S \cup {m} \in SUBSET P
      BY <1>4, <1>9
    <3>2. PICK e \in S \cup {m} : up[e] \notin S \cup {m}
      BY <1>2, <3>1
    <3>3. CASE e = m
      BY <1>1, <1>4, <1>8, <1>9, <2>2, <3>2, <3>3
    <3>4. CASE e # m
      <4>1. e # c1
        BY <1>1, <1>8, <1>9, <3>1, <3>2, <2>2
      <4> QED
        BY <1>4, <1>9, <3>2, <3>4, <4>1
    <3> QED
      BY <3>3, <3>4
  <2> QED
    BY <2>1, <2>2
<1>15. Shape(up2, kid2, r2, Q)
  BY <1>9, <1>10, <1>11, <1>12, <1>13, <1>14 DEF Shape
<1> QED
  BY <1>9, <1>15

LEMMA CutOrdered ==
    ASSUME NEW up, NEW kid \in KIDS, NEW r, NEW P, Shape(up, kid, r, P),
           NEW m, NEW c1, NEW q, NEW up2, NEW kid2, NEW r2,
           Cuts(up, kid, r, P, m, c1, q, up2, kid2, r2),
           NEW k, Ordered(kid, P, k)
    PROVE  Ordered(kid2, P \ {m}, k)
<1>1. /\ P \in SUBSET Node /\ NULL \notin P
      /\ \A e \in P : \A s \in Side : kid[e][s] # NULL => kid[e][s] \in P
  BY NullIsNoNode DEF Shape
<1>2. /\ m \in P /\ kid2 \in KIDS
      /\ \E s \in Side : kid[m][s] = c1 /\ kid[m][Other(s)] = NULL
      /\ \A e \in P : \A s \in Side :
            e # m => kid2[e][s] = IF e = q /\ kid[e][s] = m THEN c1 ELSE kid[e][s]
  BY DEF Cuts
<1>3. PICK Q \in SUBSET Node : Q = P \ {m}
  BY <1>1
<1>4. c1 # NULL => c1 # m
  <2> SUFFICES ASSUME c1 # NULL PROVE c1 # m
    OBVIOUS
  <2>1. PICK s \in Side : kid[m][s] = c1
    BY <1>2
  <2>2. Branch(up, kid, P, m, s, Under(kid, kid[m][s]))
    BY <1>2, <2>1, BranchIs
  <2> QED
    BY <2>1, <2>2 DEF Branch
<1>5. ASSUME NEW a \in Q, NEW s \in Side, kid2[a][s] # NULL
      PROVE  Shelter(kid2, Q, k, a, s)
  <2>1. a \in P /\ a # m
    BY <1>3
  <2>2. kid[a][s] # NULL
    BY <1>1, <1>2, <1>5, <2>1
  <2>3. PICK B : B = Under(kid, kid[a][s]) /\ Branch(up, kid, P, a, s, B)
    BY <2>1, <2>2, BranchIs
  <2>4. \A e \in B : Fits(s, k[e], k[a])
    BY <2>1, <2>3 DEF Ordered
  <2>5. B \in SUBSET P /\ kid[a][s] \in B /\ \A e \in B : \A b \in Side : kid[e][b] # NULL => kid[e][b] \in B
    BY <2>3 DEF Branch, Closed
  <2>6. PICK C \in SUBSET Q : C = B \ {m}
    BY <1>3, <2>5
  <2>7. m \in B /\ c1 # NULL => c1 \in C
    BY <1>2, <1>4, <2>5, <2>6
  <2>8. Closed(kid2, C)
    <3>1. ASSUME NEW e \in C, NEW b \in Side, kid2[e][b] # NULL
          PROVE  kid2[e][b] \in C
      <4>1. e \in P /\ e # m /\ e \in B
        BY <2>5, <2>6
      <4>2. CASE e = q /\ kid[e][b] = m
        BY <1>1, <1>2, <2>5, <2>7, <3>1, <4>1, <4>2
      <4>3. CASE ~(e = q /\ kid[e][b] = m)
        <5>1. kid2[e][b] = kid[e][b] /\ kid[e][b] \in B
          BY <1>2, <2>5, <3>1, <4>1, <4>3
        <5>2. kid[e][b] # m
          <6> SUFFICES ASSUME kid[e][b] = m PROVE FALSE
            OBVIOUS
          <6>1. up[m] = e
            BY <1>1, <1>2, <4>1 DEF Shape
          <6> QED
            BY <4>3, <6>1 DEF Cuts
        <5> QED
          BY <2>6, <5>1, <5>2
      <4> QED
        BY <4>2, <4>3
    <3> QED
      BY <3>1 DEF Closed
  <2>9. kid2[a][s] \in C
    <3>1. CASE kid[a][s] = m
      <4>1. up[m] = a
        BY <1>1, <1>2, <2>1, <3>1 DEF Shape
      <4>2. kid2[a][s] = c1
        BY <1>2, <2>1, <3>1, <4>1 DEF Cuts
      <4> QED
        BY <1>5, <2>5, <2>7, <3>1, <4>2
    <3>2. CASE kid[a][s] # m
      BY <1>2, <2>1, <2>5, <2>6, <3>2
    <3> QED
      BY <3>1, <3>2
  <2> QED
    BY <2>4, <2>6, <2>8, <2>9 DEF Shelter
<1>6. Ordered(kid2, Q, k)
  BY <1>2, <1>3, <1>5, OrderedBy
<1> QED
  BY <1>3, <1>6
-----------------------------------------------------------------------------
\* m, from outside, takes the place of n.
Replaces(up, kid, r, P, n, m, up2, kid2, r2) ==
    /\ n \in P /\ m \in Node \ P /\ kid2 \in KIDS
    /\ r2 = IF n = r THEN m ELSE r
    /\ up2[m] = up[n]
    /\ \A s \in Side : kid2[m][s] = kid[n][s]
    /\ \A e \in P : e # n => up2[e] = IF \E s \in Side : e = kid[n][s] THEN m ELSE up[e]
    /\ \A e \in P : \A s \in Side :
          e # n => kid2[e][s] = IF e = up[n] /\ kid[e][s] = n THEN m ELSE kid[e][s]

LEMMA ReplaceShape ==
    ASSUME NEW up, NEW kid \in KIDS, NEW r, NEW P, Shape(up, kid, r, P),
           NEW n, NEW m, NEW up2, NEW kid2, NEW r2,
           Replaces(up, kid, r, P, n, m, up2, kid2, r2)
    PROVE  Shape(up2, kid2, r2, (P \ {n}) \cup {m})
<1>1. /\ P \in SUBSET Node /\ NULL \notin P /\ (r = NULL => P = {}) /\ (r # NULL => r \in P /\ up[r] = NULL)
      /\ \A e \in P : \A s \in Side :
           kid[e][s] # NULL => /\ kid[e][s] \in P /\ up[kid[e][s]] = e
                               /\ kid[e][s] # kid[e][Other(s)]
      /\ \A e \in P : e # r => up[e] \in P /\ \E s \in Side : kid[up[e]][s] = e
  BY NullIsNoNode DEF Shape
<1>2. \A S \in SUBSET P : S # {} => \E e \in S : up[e] \notin S
  BY DEF Shape
<1>3. \A s \in Side : Other(s) \in Side /\ Other(s) # s /\ Other(Other(s)) = s
  BY Sides
<1>4. /\ n \in P /\ m \in Node /\ m \notin P /\ m # NULL
      /\ r2 = IF n = r THEN m ELSE r
      /\ up2[m] = up[n]
      /\ \A s \in Side : kid2[m][s] = kid[n][s]
      /\ \A e \in P : e # n => up2[e] = IF \E s \in Side : e = kid[n][s] THEN m ELSE up[e]
      /\ \A e \in P : \A s \in Side :
            e # n => kid2[e][s] = IF e = up[n] /\ kid[e][s] = n THEN m ELSE kid[e][s]
  BY NullIsNoNode DEF Replaces
<1>5. up[n] # n /\ r # NULL
  <2>1. \E e \in {n} : up[e] \notin {n}
    BY <1>2, <1>4, ZenonT(30)
  <2> QED
    BY <1>1, <1>4, <2>1
<1>6. PICK Q \in SUBSET Node : Q = (P \ {n}) \cup {m}
  BY <1>1, <1>4, ZenonT(30)
<1>7. r2 # NULL /\ r2 \in Q
  BY <1>1, <1>4, <1>5, <1>6
<1>8. \A e \in P : \A s \in Side : e = kid[n][s] => up[e] = n /\ e # n
  BY <1>1, <1>4, <1>5
<1>9. \A e \in P : e # n /\ up[e] # n => up2[e] = up[e]
  BY <1>4, <1>8
<1>10. \A e \in P : e # n /\ up[e] = n => up2[e] = m
  BY <1>1, <1>4
<1>11. up2[r2] = NULL
  BY <1>1, <1>4, <1>5, <1>9, NullIsNoNode
<1>12. ASSUME NEW e \in Q, NEW s \in Side, kid2[e][s] # NULL
       PROVE  kid2[e][s] \in Q /\ up2[kid2[e][s]] = e /\ kid2[e][s] # kid2[e][Other(s)]
  <2>1. CASE e = m
    BY <1>1, <1>3, <1>4, <1>5, <1>6, <1>10, <1>12, <2>1
  <2>2. CASE e # m /\ kid[e][s] = n
    <3>1. e \in P /\ e # n /\ up[n] = e /\ kid[e][Other(s)] # n
      BY <1>1, <1>4, <1>6, <2>2
    <3>2. kid2[e][s] = m /\ kid2[e][Other(s)] = kid[e][Other(s)]
      BY <1>3, <1>4, <2>2, <3>1
    <3>3. kid[e][Other(s)] # m
      BY <1>1, <1>3, <1>4, <3>1
    <3> QED
      BY <1>4, <1>6, <3>1, <3>2, <3>3
  <2>3. CASE e # m /\ kid[e][s] # n
    <3>1. e \in P /\ e # n /\ kid2[e][s] = kid[e][s]
      BY <1>4, <1>6, <2>3
    <3>2. kid[e][s] \in P /\ up[kid[e][s]] = e /\ kid[e][s] # kid[e][Other(s)]
      BY <1>1, <1>12, <3>1
    <3>3. kid2[e][s] \in Q /\ kid2[e][s] # m /\ up2[kid2[e][s]] = e
      BY <1>4, <1>6, <1>9, <2>3, <3>1, <3>2
    <3>4. kid2[e][Other(s)] \in {m, kid[e][Other(s)]}
      BY <1>3, <1>4, <3>1
    <3> QED
      BY <3>1, <3>2, <3>3, <3>4
  <2> QED
    BY <2>1, <2>2, <2>3
<1>13. ASSUME NEW e \in Q, e # r2
       PROVE  up2[e] \in Q /\ \E s \in Side : kid2[up2[e]][s] = e
  <2>1. CASE e = m
    <3>1. n # r
      BY <1>4, <1>13, <2>1
    <3>2. up[n] \in P /\ \E s \in Side : kid[up[n]][s] = n
      BY <1>1, <1>4, <3>1
    <3>3. PICK s \in Side : kid[up[n]][s] = n
      BY <3>2
    <3>4. kid2[up[n]][s] = m
      BY <1>4, <1>5, <3>2, <3>3
    <3> QED
      BY <1>4, <1>5, <1>6, <2>1, <3>2, <3>4
  <2>2. CASE e # m
    <3>1. e \in P /\ e # n /\ e # r
      BY <1>4, <1>6, <1>13, <2>2
    <3>2. up[e] \in P /\ \E s \in Side : kid[up[e]][s] = e
      BY <1>1, <3>1
    <3>3. PICK s \in Side : kid[up[e]][s] = e
      BY <3>2
    <3>4. CASE up[e] = n
      BY <1>4, <1>6, <1>10, <3>1, <3>3, <3>4
    <3>5. CASE up[e] # n
      <4>1. kid2[up[e]][s] = e
        BY <1>4, <3>1, <3>2, <3>3, <3>5
      <4> QED
        BY <1>4, <1>6, <1>9, <3>1, <3>2, <3>5, <4>1
    <3> QED
      BY <3>4, <3>5
  <2> QED
    BY <2>1, <2>2
<1>14. ASSUME NEW S \in SUBSET Q, S # {}
       PROVE  \E e \in S : up2[e] \notin S
  <2>1. CASE m \notin S
    <3>1. S \in SUBSET P
      BY <1>6, <2>1
    <3>2. PICK e \in S : up[e] \notin S
      BY <1>2, <1>14, <3>1
    <3>3. e \in P /\ e # n
      BY <1>6, <2>1, <3>1, <1>4
    <3> QED
      BY <1>9, <1>10, <2>1, <3>2, <3>3
  <2>2. CASE m \in S
    <3>1. (S \ {m}) \cup {n} \in SUBSET P
      BY <1>4, <1>6
    <3>2. PICK e \in (S \ {m}) \cup {n} : up[e] \notin (S \ {m}) \cup {n}
      BY <1>2, <3>1
    <3>3. CASE e = n
      <4>1. up[n] # m
        BY <1>1, <1>4
      <4> QED
        BY <1>4, <2>2, <3>2, <3>3, <4>1
    <3>4. CASE e # n
      <4>1. e \in P /\ up[e] # n /\ up[e] # m
        BY <1>1, <1>4, <3>1, <3>2, NullIsNoNode
      <4> QED
        BY <1>9, <3>2, <3>4, <4>1
    <3> QED
      BY <3>3, <3>4
  <2> QED
    BY <2>1, <2>2
<1>15. Shape(up2, kid2, r2, Q)
  BY <1>6, <1>7, <1>11, <1>12, <1>13, <1>14 DEF Shape
<1> QED
  BY <1>6, <1>15

LEMMA ReplaceOrdered ==
    ASSUME NEW up, NEW kid \in KIDS, NEW r, NEW P, Shape(up, kid, r, P),
           NEW n, NEW m, NEW up2, NEW kid2, NEW r2,
           Replaces(up, kid, r, P, n, m, up2, kid2, r2),
           NEW k, Ordered(kid, P, k),
           NEW k2, k2[m] = k[n], \A e \in P : e # n => k2[e] = k[e]
    PROVE  Ordered(kid2, (P \ {n}) \cup {m}, k2)
<1>1. /\ P \in SUBSET Node /\ NULL \notin P
      /\ \A e \in P : \A s \in Side : kid[e][s] # NULL => kid[e][s] \in P /\ up[kid[e][s]] = e
  BY NullIsNoNode DEF Shape
<1>2. /\ n \in P /\ m \in Node /\ m \notin P /\ m # NULL /\ kid2 \in KIDS
      /\ \A s \in Side : kid2[m][s] = kid[n][s]
      /\ \A e \in P : \A s \in Side :
            e # n => kid2[e][s] = IF e = up[n] /\ kid[e][s] = n THEN m ELSE kid[e][s]
  BY NullIsNoNode DEF Replaces
<1>3. \A e \in P : \A s \in Side :
          e # n => kid2[e][s] = IF kid[e][s] = n THEN m ELSE kid[e][s]
  BY <1>1, <1>2
<1>4. PICK Q \in SUBSET Node : Q = (P \ {n}) \cup {m}
  BY <1>1, <1>2
<1>5. \A s \in Side : kid[n][s] # n
  <2> SUFFICES ASSUME NEW s \in Side, kid[n][s] = n PROVE FALSE
    OBVIOUS
  <2>1. up[n] = n
    BY <1>1, <1>2
  <2>2. \A S \in SUBSET P : S # {} => \E e \in S : up[e] \notin S
    BY DEF Shape
  <2>3. \E e \in {n} : up[e] \notin {n}
    BY <1>2, <2>2
  <2> QED
    BY <2>1, <2>3
<1>6. ASSUME NEW a \in Q, NEW s \in Side, kid2[a][s] # NULL
      PROVE  Shelter(kid2, Q, k2, a, s)
  <2>1. PICK b \in P : IF a = m THEN b = n ELSE b = a /\ b # n
    BY <1>2, <1>4
  <2>2. /\ k2[a] = k[b] /\ kid[b][s] # NULL
        /\ kid2[a][s] = IF kid[b][s] = n THEN m ELSE kid[b][s]
    BY <1>1, <1>2, <1>3, <1>5, <1>6, <2>1
  <2>3. PICK B : B = Under(kid, kid[b][s]) /\ Branch(up, kid, P, b, s, B)
    BY <2>1, <2>2, BranchIs
  <2>4. \A e \in B : Fits(s, k[e], k[b])
    BY <2>1, <2>3 DEF Ordered
  <2>5. B \in SUBSET P /\ kid[b][s] \in B /\ \A e \in B : \A d \in Side : kid[e][d] # NULL => kid[e][d] \in B
    BY <2>3 DEF Branch, Closed
  <2>6. PICK C \in SUBSET Q : C = IF n \in B THEN (B \ {n}) \cup {m} ELSE B
    BY <1>2, <1>4, <2>5
  <2>7. \A e \in C : Fits(s, k2[e], k2[a])
    BY <1>2, <2>2, <2>4, <2>5, <2>6
  <2>8. kid2[a][s] \in C
    BY <2>2, <2>5, <2>6
  <2>9. Closed(kid2, C)
    <3>1. ASSUME NEW e \in C, NEW d \in Side, kid2[e][d] # NULL
          PROVE  kid2[e][d] \in C
      <4>1. CASE e = m
        <5>1. n \in B
          BY <1>2, <2>5, <2>6, <4>1
        <5> QED
          BY <1>2, <1>5, <2>5, <2>6, <3>1, <4>1, <5>1
      <4>2. CASE e # m
        <5>1. e \in B /\ e \in P /\ e # n
          BY <2>5, <2>6, <4>2
        <5> QED
          BY <1>1, <1>2, <1>3, <2>5, <2>6, <3>1, <5>1
      <4> QED
        BY <4>1, <4>2
    <3> QED
      BY <3>1 DEF Closed
  <2> QED
    BY <2>7, <2>8, <2>9 DEF Shelter
<1>7. Ordered(kid2, Q, k2)
  BY <1>2, <1>4, <1>6, OrderedBy
<1> QED
  BY <1>4, <1>7

\* What is outside the tree does not matter.
Same(up, kid, P, up2, kid2) ==
    /\ kid2 \in KIDS
    /\ \A e \in P : up2[e] = up[e] /\ \A s \in Side : kid2[e][s] = kid[e][s]

LEMMA SameShape ==
    ASSUME NEW up, NEW kid \in KIDS, NEW r, NEW P, Shape(up, kid, r, P),
           NEW up2, NEW kid2, Same(up, kid, P, up2, kid2)
    PROVE  /\ Shape(up2, kid2, r, P)
           /\ \A k : Ordered(kid, P, k) => Ordered(kid2, P, k)
<1>1. \A e \in P : up2[e] = up[e] /\ \A s \in Side : kid2[e][s] = kid[e][s]
  BY DEF Same
<1>2. P \in SUBSET Node /\ NULL \notin P /\ kid2 \in KIDS
  BY NullIsNoNode DEF Shape, Same
<1>3. Shape(up2, kid2, r, P)
  <2>1. r # NULL => r \in P /\ up2[r] = NULL
    BY <1>1 DEF Shape
  <2>2. \A n \in P : \A d \in Side :
          kid2[n][d] # NULL => /\ kid2[n][d] \in P /\ up2[kid2[n][d]] = n
                               /\ kid2[n][d] # kid2[n][Other(d)]
    BY <1>1, Sides DEF Shape
  <2>3. \A n \in P : n # r => up2[n] \in P /\ \E d \in Side : kid2[up2[n]][d] = n
    BY <1>1 DEF Shape
  <2>4. \A S \in SUBSET P : S # {} => \E n \in S : up2[n] \notin S
    BY <1>1 DEF Shape
  <2> QED
    BY <2>1, <2>2, <2>3, <2>4 DEF Shape
<1>4. ASSUME NEW k, Ordered(kid, P, k)
      PROVE  Ordered(kid2, P, k)
  <2>1. ASSUME NEW n \in P, NEW d \in Side, kid2[n][d] # NULL
        PROVE  Shelter(kid2, P, k, n, d)
    <3>1. kid[n][d] # NULL /\ kid2[n][d] = kid[n][d]
      BY <1>1, <2>1
    <3>2. PICK B : B = Under(kid, kid[n][d]) /\ Branch(up, kid, P, n, d, B)
      BY <3>1, BranchIs
    <3>3. \A e \in B : Fits(d, k[e], k[n])
      BY <1>4, <3>2 DEF Ordered
    <3>4. B \in SUBSET P /\ kid2[n][d] \in B /\ Closed(kid2, B)
      BY <1>1, <3>1, <3>2 DEF Branch, Closed
    <3> QED
      BY <3>3, <3>4 DEF Shelter
  <2> QED
    BY <1>2, <2>1, OrderedBy
<1> QED
  BY <1>3, <1>4
-----------------------------------------------------------------------------
\* The way down from s, at each node on the side that dir names, to its end.
Route(up, kid, P, dir, s, m, R) ==
    /\ R \in SUBSET P /\ s \in R /\ m \in R
    /\ kid[m][dir[m]] = NULL
    /\ \A a \in R : a # m => kid[a][dir[a]] \in R
    /\ \A a \in R : a # s => up[a] \in R /\ kid[up[a]][dir[up[a]]] = a

\* What the recursive functions of the model that go down find is the end.
Descends(f, kid, P, dir) ==
    \A a \in P : f[a] = IF kid[a][dir[a]] = NULL THEN a ELSE f[kid[a][dir[a]]]

LEMMA RouteIs ==
    ASSUME NEW up, NEW kid \in KIDS, NEW r, NEW P, Shape(up, kid, r, P),
           NEW dir \in [Node -> Side], NEW s \in P, NEW f, Descends(f, kid, P, dir)
    PROVE  \E R : Route(up, kid, P, dir, s, f[s], R)
<1>1. /\ P \in SUBSET Node /\ NULL \notin P
      /\ \A e \in P : \A d \in Side : kid[e][d] # NULL => kid[e][d] \in P /\ up[kid[e][d]] = e
      /\ \A e \in P : dir[e] \in Side
  BY NullIsNoNode DEF Shape
<1>2. \A a \in P : f[a] = IF kid[a][dir[a]] = NULL THEN a ELSE f[kid[a][dir[a]]]
  BY DEF Descends
<1> DEFINE Goes(C) == s \in C /\ \A a \in C : kid[a][dir[a]] # NULL => kid[a][dir[a]] \in C
           F == {C \in SUBSET P : Goes(C)}
<1>3. PICK R \in F : \A C \in F : C \subseteq R => C = R
  <2>1. F \in SUBSET SUBSET P /\ P \in F
    BY <1>1
  <2>2. IsFiniteSet(P)
    BY <1>1, NodesFinite, FS_Subset
  <2> HIDE DEF F
  <2> QED
    BY <2>1, <2>2, Minimal
<1>4. R \in SUBSET P /\ s \in R /\ \A a \in R : kid[a][dir[a]] # NULL => kid[a][dir[a]] \in R
  OBVIOUS
<1>5. ASSUME NEW a \in R, a # s
      PROVE  up[a] \in R /\ kid[up[a]][dir[up[a]]] = a
  <2> SUFFICES ASSUME ~(up[a] \in R /\ kid[up[a]][dir[up[a]]] = a) PROVE FALSE
    OBVIOUS
  <2>1. \A b \in R : kid[b][dir[b]] # a
    BY <1>1, <1>4
  <2>2. Goes(R \ {a})
    BY <1>4, <1>5, <2>1
  <2>3. R \ {a} \in F
    BY <1>4, <2>2
  <2> QED
    BY <1>3, <2>3
<1>6. \A a \in R : f[a] = f[s]
  <2>1. PICK C \in SUBSET P : C = {a \in R : f[a] = f[s]}
    BY <1>4
  <2>2. Goes(C)
    BY <1>2, <1>4, <2>1
  <2>3. C \in F /\ C \subseteq R
    BY <2>1, <2>2
  <2>4. C = R
    BY <1>3, <2>3
  <2> QED
    BY <2>1, <2>4
<1>7. PICK n \in R : \A d \in Side : kid[n][d] \notin R
  BY <1>4, DownOut
<1>8. kid[n][dir[n]] = NULL
  BY <1>1, <1>4, <1>7
<1>9. n = f[s]
  BY <1>2, <1>4, <1>6, <1>8
<1>10. \A a \in R : kid[a][dir[a]] = NULL => a = f[s]
  BY <1>2, <1>4, <1>6
<1>11. Route(up, kid, P, dir, s, f[s], R)
  BY <1>4, <1>5, <1>8, <1>9, <1>10 DEF Route
<1> QED
  BY <1>11

\* The end is below every node of the way.
LEMMA RouteEnd ==
    ASSUME NEW up, NEW kid \in KIDS, NEW r, NEW P, Shape(up, kid, r, P),
           NEW dir \in [Node -> Side], NEW s, NEW m, NEW R, Route(up, kid, P, dir, s, m, R)
    PROVE  /\ \A a \in R : m \in Under(kid, a)
           /\ \A a \in R : a # m => m \in Under(kid, kid[a][dir[a]])
<1>1. /\ P \in SUBSET Node /\ R \in SUBSET P /\ NULL \notin P
      /\ \A e \in P : dir[e] \in Side
  BY NullIsNoNode DEF Shape, Route
<1>2. PICK S \in SUBSET P : S = {a \in R : m \notin Under(kid, a)}
  BY <1>1
<1>3. ASSUME S # {} PROVE FALSE
  <2>1. PICK n \in S : \A d \in Side : kid[n][d] \notin S
    BY <1>3, DownOut
  <2>2. n \in R /\ n \in Node /\ m \notin Under(kid, n)
    BY <1>1, <1>2
  <2>3. n # m
    BY <2>2, UnderIs, NullIsNoNode DEF KIDS, Pointer
  <2>4. kid[n][dir[n]] \in R /\ kid[n][dir[n]] # NULL /\ dir[n] \in Side
    BY <1>1, <2>2, <2>3 DEF Route
  <2>5. m \in Under(kid, kid[n][dir[n]])
    BY <1>2, <2>1, <2>4
  <2>6. Under(kid, kid[n][dir[n]]) \subseteq Under(kid, n)
    BY <2>2, <2>4, UnderKid
  <2> QED
    BY <2>2, <2>5, <2>6
<1>4. \A a \in R : m \in Under(kid, a)
  BY <1>2, <1>3
<1>5. \A a \in R : a # m => kid[a][dir[a]] \in R
  BY DEF Route
<1> QED
  BY <1>4, <1>5

\* Where the end of the way from the root is, the way went.
LEMMA RouteSides ==
    ASSUME NEW up, NEW kid \in KIDS, NEW r, NEW P, Shape(up, kid, r, P),
           NEW dir \in [Node -> Side], NEW m, NEW R, Route(up, kid, P, dir, r, m, R),
           NEW a \in P, NEW d \in Side, m \in Under(kid, kid[a][d])
    PROVE  dir[a] = d
<1>1. /\ P \in SUBSET Node /\ NULL \notin P /\ up[r] = NULL
      /\ \A e \in P : \A s \in Side : kid[e][s] # NULL => kid[e][s] # kid[e][Other(s)] /\ up[kid[e][s]] = e
      /\ \A S \in SUBSET P : S # {} => \E e \in S : up[e] \notin S
  BY NullIsNoNode DEF Shape, Route
<1>2. /\ R \in SUBSET P /\ m \in R
      /\ \A e \in R : e # r => up[e] \in R /\ kid[up[e]][dir[up[e]]] = e
      /\ \A e \in P : dir[e] \in Side
  BY <1>1 DEF Route
<1>3. kid[a][d] # NULL
  BY UnderNull
<1>4. PICK B : B = Under(kid, kid[a][d]) /\ Branch(up, kid, P, a, d, B)
  BY <1>3, BranchIs
<1>5. PICK e \in B \cap R : up[e] \notin B \cap R
  <2>1. B \cap R \in SUBSET P /\ m \in B \cap R
    BY <1>2, <1>4
  <2> QED
    BY <1>1, <2>1
<1>6. e # r
  <2> SUFFICES ASSUME e = r PROVE FALSE
    OBVIOUS
  <2>1. e # kid[a][d]
    BY <1>1, <1>3
  <2>2. up[e] \in B
    BY <1>4, <1>5, <2>1 DEF Branch
  <2> QED
    BY <1>1, <1>4, <2>2 DEF Branch
<1>7. up[e] \in R /\ kid[up[e]][dir[up[e]]] = e
  BY <1>2, <1>5, <1>6
<1>8. e = kid[a][d]
  BY <1>4, <1>5, <1>7 DEF Branch
<1>9. up[e] = a
  BY <1>1, <1>3, <1>8
<1>10. kid[a][dir[a]] = kid[a][d] /\ dir[a] \in Side
  BY <1>2, <1>7, <1>8, <1>9
<1> QED
  BY <1>1, <1>3, <1>10, Sides

\* Going down on one side ends at the outermost node.
LEMMA RouteOutermost ==
    ASSUME NEW up, NEW kid \in KIDS, NEW r, NEW P, Shape(up, kid, r, P),
           NEW d \in Side, NEW dir \in [Node -> Side], \A e \in Node : dir[e] = d,
           NEW s, NEW m, NEW R, Route(up, kid, P, dir, s, m, R),
           NEW k \in [Node -> Int], Ordered(kid, P, k)
    PROVE  \A e \in Under(kid, s) : Fits(d, k[m], k[e])
<1>1. /\ P \in SUBSET Node /\ NULL \notin P
      /\ \A e \in P : \A b \in Side : kid[e][b] # NULL => kid[e][b] \in P
  BY NullIsNoNode DEF Shape
<1>2. /\ R \in SUBSET P /\ m \in R /\ s \in R
      /\ kid[m][d] = NULL
      /\ \A e \in R : e # m => kid[e][d] \in R
  BY <1>1 DEF Route
<1>3. \A e \in P : k[e] \in Int
  BY <1>1
<1>4. \A a \in R : Fits(d, k[m], k[a])
  <2> SUFFICES ASSUME NEW a \in R PROVE Fits(d, k[m], k[a])
    OBVIOUS
  <2>1. CASE a = m
    BY <1>2, <1>3, <2>1, FitsIs
  <2>2. CASE a # m
    <3>1. m \in Under(kid, kid[a][dir[a]])
      BY <2>2, RouteEnd
    <3>2. dir[a] = d
      BY <1>1, <1>2
    <3> QED
      BY <1>2, <3>1, <3>2 DEF Ordered
  <2> QED
    BY <2>1, <2>2
<1>5. PICK T \in SUBSET P : T = {e \in P : e \in R \/ \E a \in R : e \in Under(kid, kid[a][Other(d)])}
  OBVIOUS
<1>6. \A a \in R : \A e \in Under(kid, kid[a][Other(d)]) :
          e \in P /\ \A b \in Side : kid[e][b] # NULL => kid[e][b] \in Under(kid, kid[a][Other(d)])
  <2> SUFFICES ASSUME NEW a \in R, NEW e \in Under(kid, kid[a][Other(d)])
               PROVE  e \in P /\ \A b \in Side : kid[e][b] # NULL => kid[e][b] \in Under(kid, kid[a][Other(d)])
    OBVIOUS
  <2>1. kid[a][Other(d)] # NULL
    BY UnderNull
  <2>2. Branch(up, kid, P, a, Other(d), Under(kid, kid[a][Other(d)]))
    BY <1>2, <2>1, BranchIs, Sides
  <2> QED
    BY <2>2 DEF Branch, Closed
<1>7. Closed(kid, T)
  <2>1. ASSUME NEW e \in T, NEW b \in Side, kid[e][b] # NULL
        PROVE  kid[e][b] \in T
    <3>1. kid[e][b] \in P
      BY <1>1, <2>1
    <3>2. CASE e \in R /\ b = d
      BY <1>2, <1>5, <2>1, <3>1, <3>2
    <3>3. CASE e \in R /\ b = Other(d)
      <4>1. kid[e][b] \in Pointer
        BY <1>1, <3>1 DEF Pointer
      <4>2. kid[e][b] \in Under(kid, kid[e][b])
        BY <2>1, <4>1, UnderIs DEF KIDS
      <4> QED
        BY <1>5, <3>1, <3>3, <4>2
    <3>4. CASE e \notin R
      <4>1. PICK a \in R : e \in Under(kid, kid[a][Other(d)])
        BY <1>5, <3>4
      <4>2. kid[e][b] \in Under(kid, kid[a][Other(d)])
        BY <1>6, <2>1, <4>1
      <4> QED
        BY <1>5, <3>1, <4>2
    <3> QED
      BY <3>2, <3>3, <3>4, Sides
  <2> QED
    BY <2>1 DEF Closed
<1>8. Under(kid, s) \subseteq T
  <2>1. s \in T /\ s \in Pointer /\ T \in SUBSET Node
    BY <1>1, <1>2, <1>5 DEF Pointer
  <2> QED
    BY <1>7, <2>1, UnderIs DEF KIDS
<1>9. ASSUME NEW e \in T PROVE Fits(d, k[m], k[e])
  <2>1. CASE e \in R
    BY <1>4, <2>1
  <2>2. CASE e \notin R
    <3>1. PICK a \in R : e \in Under(kid, kid[a][Other(d)])
      BY <1>5, <2>2
    <3>2. Fits(Other(d), k[e], k[a])
      BY <1>2, <3>1, Sides DEF Ordered
    <3>3. Fits(d, k[a], k[e])
      BY <1>2, <1>3, <3>2, FitsIs
    <3> QED
      BY <1>2, <1>3, <1>4, <3>3, FitsIs
  <2> QED
    BY <2>1, <2>2
<1> QED
  BY <1>8, <1>9
-----------------------------------------------------------------------------
\* A rotation takes nothing away from what is below a node, but for the node that goes down.
LEMMA TurnUnder ==
    ASSUME NEW up \in UPS, NEW kid \in KIDS, NEW r, NEW P, Shape(up, kid, r, P),
           NEW n \in P, NEW m, NEW inner, NEW q, NEW d, Turns(up, kid, n, m, inner, q, d),
           NEW up2, NEW kid2, NEW r2, Turned(up, kid, r, n, m, inner, q, d, up2, kid2, r2),
           NEW a \in P, a # n
    PROVE  Under(kid, a) \subseteq Under(kid2, a)
<1>1. PICK C : C = Under(kid2, a)
  OBVIOUS
<1>2. a \in Node /\ a \in Pointer /\ a # NULL /\ P \in SUBSET Node /\ NULL \notin P
  BY NullIsNoNode DEF Shape, Pointer
<1>3. Shape(up2, kid2, r2, P) /\ kid2 \in KIDS
  BY TurnShape DEF Turned
<1>4. C \in SUBSET Node /\ a \in C /\ \A e \in C : \A s \in Side : kid2[e][s] # NULL => kid2[e][s] \in C
  BY <1>1, <1>2, <1>3, UnderIs DEF KIDS, Closed
<1>5. \A e \in C : e # a => e \in P /\ up2[e] \in C
  BY <1>1, <1>2, <1>3, UpUnder
<1>6. /\ d \in Side /\ Other(d) \in Side /\ m = kid[n][Other(d)] /\ inner = kid[m][d] /\ m # NULL
      /\ m \in P /\ n \in Node /\ m \in Node
  BY <1>2, Sides DEF Turns, Shape
<1>7. /\ \A e \in Node : up2[e] = IF e = inner THEN n ELSE IF e = m THEN q ELSE IF e = n THEN m ELSE up[e]
      /\ \A e \in Node : \A s \in Side :
          kid2[e][s] = IF e = n /\ s = Other(d) THEN inner ELSE IF e = m /\ s = d THEN n
                       ELSE IF e = q /\ kid[e][s] = n THEN m ELSE kid[e][s]
  BY DEF Turned
<1>8. n # m /\ inner # n
  <2>1. \A S \in SUBSET P : S # {} => \E e \in S : up[e] \notin S
    BY DEF Shape
  <2>2. up[m] = n /\ (inner = n => up[n] = m)
    BY <1>2, <1>6 DEF Shape
  <2>3. n # m
    BY <2>1, <2>2, {n} \in SUBSET P
  <2>4. \E e \in {n, m} : up[e] \notin {n, m}
    BY <1>6, <2>1, {n, m} \in SUBSET P
  <2> QED
    BY <2>2, <2>3, <2>4
<1>9. n \in C <=> m \in C
  <2>1. n \in C => m \in C
    BY <1>5, <1>6, <1>7, <1>8
  <2>2. m \in C => n \in C
    <3>1. kid2[m][d] = n
      BY <1>6, <1>7, <1>8
    <3> QED
      BY <1>2, <1>4, <1>6, <3>1
  <2> QED
    BY <2>1, <2>2
<1>10. ASSUME NEW e \in C, NEW s \in Side, kid[e][s] # NULL
       PROVE  kid[e][s] \in C
  <2>1. CASE e = n /\ s = Other(d)
    BY <1>6, <1>9, <1>10, <2>1
  <2>2. CASE e = m /\ s = d
    <3>1. kid2[n][Other(d)] = kid[e][s]
      BY <1>6, <1>7, <2>2
    <3> QED
      BY <1>4, <1>6, <1>9, <1>10, <2>2, <3>1
  <2>3. CASE ~(e = n /\ s = Other(d)) /\ ~(e = m /\ s = d)
    <3>1. kid2[e][s] = IF e = q /\ kid[e][s] = n THEN m ELSE kid[e][s]
      BY <1>4, <1>7, <2>3
    <3> QED
      BY <1>4, <1>6, <1>9, <1>10, <3>1
  <2> QED
    BY <2>1, <2>2, <2>3
<1>11. Closed(kid, C)
  BY <1>10 DEF Closed
<1> QED
  BY <1>1, <1>2, <1>4, <1>11, UnderIs DEF KIDS
-----------------------------------------------------------------------------
\* One tree with root r, the nodes of P, in order under every keying of K.
Sound(t, r, P, K) ==
    /\ t \in Trees /\ r \in Pointer /\ Shape(t.up, t.kid, r, P)
    /\ \A k \in K : k \in [Node -> Int] /\ Ordered(t.kid, P, k)

Untouched(t, t2, P) == \A e \in Node : e \notin P => t2.kid[e] = t.kid[e] /\ t2.up[e] = t.up[e]

\* What a rotation of n, whose child m comes up, does.
Rotation(t, r, P, K, n, m, d, t2, r2) ==
    /\ Sound(t2, r2, P, K) /\ Untouched(t, t2, P) /\ t2.red = t.red
    /\ m \in P /\ m # n /\ t.up[m] = n
    /\ r2 = IF t.up[n] = NULL THEN m ELSE r
    /\ t2.root = IF t.up[n] = NULL THEN m ELSE t.root
    /\ \A a \in P : a # n => Under(t.kid, a) \subseteq Under(t2.kid, a)
    /\ \A e \in P : \A s \in Side :
          t2.kid[e][s] = IF e = n /\ s = Other(d) THEN t.kid[m][d] ELSE IF e = m /\ s = d THEN n
                         ELSE IF e = t.up[n] /\ t.kid[e][s] = n THEN m ELSE t.kid[e][s]
    /\ \A e \in P : t2.up[e] = IF e = t.kid[m][d] THEN n ELSE IF e = m THEN t.up[n] ELSE IF e = n THEN m ELSE t.up[e]

LEMMA RotationIs ==
    ASSUME NEW t, NEW r, NEW P, NEW K, Sound(t, r, P, K), NEW n \in P, NEW d \in Side,
           t.kid[n][Other(d)] # NULL
    PROVE  \E r2 : Rotation(t, r, P, K, n, t.kid[n][Other(d)], d, Rotate(t, n, d), r2)
<1>1. t \in Trees /\ r \in Pointer /\ Shape(t.up, t.kid, r, P) /\ t.up \in UPS /\ t.kid \in KIDS
  BY Fields DEF Sound
<1>2. P \in SUBSET Node /\ NULL \notin P
  BY <1>1, NullIsNoNode DEF Shape
<1>3. PICK m : m = t.kid[n][Other(d)]
  OBVIOUS
<1>4. PICK inner : inner = t.kid[m][d]
  OBVIOUS
<1>5. PICK q : q = t.up[n]
  OBVIOUS
<1>6. Turns(t.up, t.kid, n, m, inner, q, d)
  BY <1>2, <1>3, <1>4, <1>5 DEF Turns
<1>7. PICK t2 : t2 = Rotate(t, n, d)
  OBVIOUS
<1>8. PICK r2 : r2 = IF q = NULL THEN m ELSE r
  OBVIOUS
<1>9. IsRotated(t, r, n, m, inner, q, d, t2)
  BY <1>1, <1>6, <1>7, RotateIs
<1>10. /\ t2 \in Trees /\ t2.red = t.red /\ t2.root = IF q = NULL THEN m ELSE t.root
       /\ Turned(t.up, t.kid, r, n, m, inner, q, d, t2.up, t2.kid, r2)
  BY <1>8, <1>9 DEF IsRotated
<1>11. m \in P /\ t.up[m] = n /\ m # n /\ Other(d) \in Side
  <2>1. Other(d) \in Side
    BY Sides
  <2>2. m \in P /\ t.up[m] = n
    BY <1>1, <1>3, <2>1 DEF Shape
  <2>3. \E e \in {n} : t.up[e] \notin {n}
    BY <1>1, {n} \in SUBSET P DEF Shape
  <2> QED
    BY <2>1, <2>2, <2>3
<1>12. Shape(t2.up, t2.kid, r2, P) /\ r2 \in Pointer
  <2>1. r2 \in Pointer
    BY <1>1, <1>2, <1>8, <1>11 DEF Pointer
  <2> QED
    BY <1>1, <1>6, <1>10, <2>1, TurnShape
<1>13. \A k \in K : k \in [Node -> Int] /\ Ordered(t2.kid, P, k)
  <2> SUFFICES ASSUME NEW k \in K PROVE k \in [Node -> Int] /\ Ordered(t2.kid, P, k)
    OBVIOUS
  <2>1. k \in [Node -> Int] /\ Ordered(t.kid, P, k)
    BY DEF Sound
  <2> QED
    BY <1>1, <1>6, <1>10, <2>1, TurnOrdered
<1>14. \A a \in P : a # n => Under(t.kid, a) \subseteq Under(t2.kid, a)
  BY <1>1, <1>6, <1>10, TurnUnder
<1>15. /\ \A e \in Node : t2.up[e] = IF e = inner THEN n ELSE IF e = m THEN q ELSE IF e = n THEN m ELSE t.up[e]
       /\ \A e \in Node : \A s \in Side :
          t2.kid[e][s] = IF e = n /\ s = Other(d) THEN inner ELSE IF e = m /\ s = d THEN n
                         ELSE IF e = q /\ t.kid[e][s] = n THEN m ELSE t.kid[e][s]
  BY <1>10 DEF Turned
<1>16. inner # NULL => inner \in P
  BY <1>1, <1>4, <1>11 DEF Shape
<1>17. q # NULL => q \in P
  BY <1>1, <1>5 DEF Shape
<1>18. ASSUME NEW e \in Node, e \notin P PROVE t2.kid[e] = t.kid[e] /\ t2.up[e] = t.up[e]
  <2>1. e # n /\ e # m /\ e # inner /\ e # q
    BY <1>11, <1>16, <1>17, <1>18, NullIsNoNode
  <2>2. \A s \in Side : t2.kid[e][s] = t.kid[e][s]
    BY <1>15, <2>1
  <2>3. t2.kid[e] \in [Side -> Pointer] /\ t.kid[e] \in [Side -> Pointer]
    BY <1>1, <1>10 DEF Trees
  <2>4. t2.kid[e] = t.kid[e]
    BY <2>2, <2>3
  <2> QED
    BY <1>15, <2>1, <2>4
<1>19. Sound(t2, r2, P, K)
  BY <1>10, <1>12, <1>13 DEF Sound
<1>20. Untouched(t, t2, P)
  BY <1>18 DEF Untouched
<1>21. Rotation(t, r, P, K, n, m, d, t2, r2)
  <2>1. \A e \in P : \A s \in Side :
          t2.kid[e][s] = IF e = n /\ s = Other(d) THEN t.kid[m][d] ELSE IF e = m /\ s = d THEN n
                         ELSE IF e = t.up[n] /\ t.kid[e][s] = n THEN m ELSE t.kid[e][s]
    BY <1>2, <1>4, <1>5, <1>15
  <2>2. \A e \in P : t2.up[e] = IF e = t.kid[m][d] THEN n ELSE IF e = m THEN t.up[n] ELSE IF e = n THEN m ELSE t.up[e]
    BY <1>2, <1>4, <1>5, <1>15
  <2> QED
    BY <1>5, <1>8, <1>10, <1>11, <1>14, <1>19, <1>20, <2>1, <2>2 DEF Rotation
<1> QED
  BY <1>3, <1>7, <1>21

LEMMA ColourSound ==
    ASSUME NEW t, NEW r, NEW P, NEW K, Sound(t, r, P, K), NEW S, NEW b \in BOOLEAN
    PROVE  /\ Sound(Colour(t, S, b), r, P, K)
           /\ IsColoured(t, S, b, Colour(t, S, b))
<1>1. PICK t2 : t2 = Colour(t, S, b)
  OBVIOUS
<1>2. IsColoured(t, S, b, t2)
  BY <1>1, ColourIs DEF Sound
<1>3. Sound(t2, r, P, K)
  BY <1>2 DEF Sound, IsColoured
<1> QED
  BY <1>1, <1>2, <1>3
-----------------------------------------------------------------------------
\* The keyings that the tree is in order under: y's key will be at x's place.
Keys == IF Removing /\ x # y THEN {key, [key EXCEPT ![x] = key[y]]} ELSE {key}
TreeInv == pc # "free" => Sound(tree, Top, Present, Keys)

Clean == pc # "free" =>
    \A n \in Node : n \notin inside /\ n # x => tree.kid[n] = NoKids /\ tree.up[n] = NULL

\* The local variables of the loops.
Loops ==
    /\ pc = "out" => x = NULL
    /\ pc = "insert" => /\ kind = "rbt" /\ x \in inside /\ tree.red[x]
                        /\ tree.root = x \/ ~Red(tree, tree.root)
    /\ pc = "travel" => x \in inside \cup {NULL}
    /\ Removing => /\ x \in Node \ inside /\ y \in Node
                   /\ x # y => y \in inside /\ tree.root # x
    /\ pc = "remove" => kind = "rbt"

\* c is a child of p.
InLoop == pc = "remove" /\ c # tree.root /\ p # NULL =>
    p \in Present /\ \E d \in Side : tree.kid[p][d] = c

\* The root is black, where it is not about to be blackened.
RootRule == kind = "rbt" =>
    /\ pc \in {"out", "travel"} => ~Red(tree, tree.root)
    /\ pc = "remove" => c = Top \/ ~Red(tree, Top)
    /\ pc = "replace" => ~Red(tree, Top)

\* The place of x is on the way from c to the root, or below c.
OnWay == pc = "remove" /\ x # y /\ Missing =>
    p \in Under(tree.kid, x) \/ (c # NULL /\ x \in Under(tree.kid, c))

IInv == TypeOK /\ TreeInv /\ Clean /\ Loops /\ InLoop /\ RootRule /\ OnWay

LEMMA TypeIs ==
    ASSUME TypeOK
    PROVE  /\ tree \in Trees /\ key \in [Node -> Int] /\ kind \in {"bst", "rbt"}
           /\ inside \in SUBSET Node
BY KeyingsAreInts, KindsKnown DEF TypeOK, Trees

\* Outside the removals, and where none begins.
LEMMA AtRest ==
    ASSUME IInv, pc \in {"out", "insert", "travel"}
    PROVE  Sound(tree, tree.root, inside, {key})
BY DEF IInv, TreeInv, Top, Present, Keys, Removing

LEMMA RestNext ==
    ASSUME pc' \in {"out", "insert", "travel"}, Sound(tree', tree'.root, inside', {key'})
    PROVE  TreeInv' /\ InLoop' /\ OnWay'
<1>1. ~Removing' /\ pc' # "remove"
  BY DEF Removing
<1>2. Top' = tree'.root /\ Present' = inside' /\ Keys' = {key'}
  BY <1>1 DEF Top, Present, Keys
<1> QED
  BY <1>1, <1>2 DEF TreeInv, InLoop, OnWay

LEMMA SoundEmpty ==
    ASSUME NEW k \in [Node -> Int]
    PROVE  Sound(Empty, NULL, {}, {k}) /\ Empty \in Trees /\ Empty.root = NULL
           /\ \A n \in Node : Empty.kid[n] = NoKids /\ Empty.up[n] = NULL
<1>1. NULL \in Pointer /\ NoKids \in [Side -> Pointer]
  BY DEF Pointer, NoKids
<1>2. /\ Empty \in Trees /\ Empty.root = NULL
      /\ \A n \in Node : Empty.kid[n] = NoKids /\ Empty.up[n] = NULL
  BY <1>1 DEF Empty, Trees
<1>3. Shape(Empty.up, Empty.kid, NULL, {})
  BY DEF Shape
<1>4. Ordered(Empty.kid, {}, k)
  BY DEF Ordered
<1> QED
  BY <1>1, <1>2, <1>3, <1>4 DEF Sound

LEMMA InitInv ==
    ASSUME Init
    PROVE  IInv
<1>1. key \in [Node -> Int]
  BY KeyingsAreInts DEF Init
<1>2. NULL \in Pointer
  BY DEF Pointer
<1>3. /\ Sound(tree, NULL, {}, {key}) /\ tree \in Trees /\ tree.root = NULL
      /\ \A n \in Node : tree.kid[n] = NoKids /\ tree.up[n] = NULL
  BY <1>1, SoundEmpty DEF Init
<1>4. TypeOK
  BY <1>2, <1>3 DEF Init, TypeOK, Trees
<1>5. TreeInv
  BY <1>3 DEF Init, TreeInv, Top, Present, Keys, Removing
<1>6. Clean
  BY <1>3 DEF Clean
<1>7. Loops /\ InLoop /\ OnWay
  BY DEF Init, Loops, InLoop, OnWay, Removing
<1>8. RootRule
  BY <1>3 DEF Init, RootRule, Red
<1> QED
  BY <1>4, <1>5, <1>6, <1>7, <1>8 DEF IInv

LEMMA StutterInv ==
    ASSUME IInv, UNCHANGED vars
    PROVE  IInv'
<1>1. /\ kind' = kind /\ key' = key /\ tree' = tree /\ inside' = inside /\ pc' = pc
      /\ x' = x /\ y' = y /\ c' = c /\ p' = p /\ seen' = seen
  BY DEF vars
<1>2. TypeOK'
  BY <1>1 DEF IInv, TypeOK
<1>3. Removing' = Removing
  BY <1>1 DEF Removing
<1>4. Top' = Top /\ Present' = Present /\ Keys' = Keys
  BY <1>1, <1>3 DEF Top, Present, Keys
<1>5. TreeInv'
  BY <1>1, <1>4 DEF IInv, TreeInv
<1>6. Clean'
  BY <1>1 DEF IInv, Clean
<1>7. Loops'
  BY <1>1, <1>3 DEF IInv, Loops, Red
<1>8. InLoop'
  BY <1>1, <1>4 DEF IInv, InLoop
<1>9. RootRule'
  BY <1>1, <1>4 DEF IInv, RootRule, Red
<1>10. OnWay'
  BY <1>1 DEF IInv, OnWay, Missing, Red
<1> QED
  BY <1>2, <1>5, <1>6, <1>7, <1>8, <1>9, <1>10 DEF IInv
-----------------------------------------------------------------------------
LEMMA FreeAllInv ==
    ASSUME IInv, FreeAll
    PROVE  IInv'
<1>1. /\ kind' = kind /\ key' = key /\ tree' = tree /\ inside' = inside /\ pc' = "free"
      /\ x' = tree.root /\ y' = tree.root /\ c' = c /\ p' = p /\ seen' = {}
  BY DEF FreeAll
<1>2. TypeOK'
  BY <1>1 DEF IInv, TypeOK
<1>3. Loops' /\ InLoop' /\ OnWay' /\ TreeInv' /\ Clean' /\ RootRule'
  BY <1>1 DEF Loops, InLoop, OnWay, TreeInv, Clean, RootRule, Removing
<1> QED
  BY <1>2, <1>3 DEF IInv

LEMMA FreeHeadInv ==
    ASSUME IInv, FreeHead
    PROVE  IInv'
<1>1. /\ kind' = kind /\ key' = key /\ inside' = inside /\ pc' = "free" /\ pc = "free"
      /\ c' = c /\ p' = p /\ seen' = seen \cup {x} /\ x # NULL
  BY DEF FreeHead
<1>2. tree \in Trees /\ x \in Node /\ y \in Pointer
  BY <1>1, TypeIs DEF IInv, TypeOK, Pointer
<1>3. Kids(x) \in Seq(Pointer)
  BY <1>2, Fields DEF Kids, KidOn, Side
<1>4. PICK line \in Seq(Pointer) : line = <<y>> \o Kids(x) /\ Len(line) >= 1
  <2>1. PICK rest \in Seq(Pointer) : rest = Kids(x)
    BY <1>3
  <2>2. <<y>> \in Seq(Pointer) /\ Len(<<y>>) = 1 /\ Len(rest) \in Nat
    BY <1>2
  <2>3. <<y>> \o rest \in Seq(Pointer) /\ Len(<<y>> \o rest) = 1 + Len(rest)
    BY <2>2
  <2>4. PICK whole : whole = <<y>> \o rest
    OBVIOUS
  <2>5. whole \in Seq(Pointer) /\ Len(whole) >= 1
    BY <2>2, <2>3, <2>4
  <2>6. whole = <<y>> \o Kids(x)
    BY <2>1, <2>4
  <2> QED
    BY <2>5, <2>6
<1>5. PICK last \in Pointer : last = line[Len(line)]
  BY <1>4
<1>6. PICK u : u = [n \in Node |->
                    IF n = last THEN NULL
                    ELSE IF \E i \in 1 .. Len(line) - 1 : line[i] = n
                         THEN line[1 + CHOOSE i \in 1 .. Len(line) - 1 : line[i] = n]
                         ELSE tree.up[n]]
  OBVIOUS
<1>7. tree' = [tree EXCEPT !.up = u] /\ x' = u[x] /\ y' = last
  BY <1>4, <1>5, <1>6 DEF FreeHead
<1>8. u \in [Node -> Pointer]
  <2>1. ASSUME NEW n \in Node, \E i \in 1 .. Len(line) - 1 : line[i] = n
        PROVE  line[1 + CHOOSE i \in 1 .. Len(line) - 1 : line[i] = n] \in Pointer
    <3>1. PICK j : j = CHOOSE i \in 1 .. Len(line) - 1 : line[i] = n
      OBVIOUS
    <3>2. j \in 1 .. Len(line) - 1
      BY <2>1, <3>1
    <3>3. 1 + j \in 1 .. Len(line)
      BY <1>4, <3>2
    <3>4. line[1 + j] \in Pointer
      BY <1>4, <3>3
    <3> QED
      BY <3>1, <3>4, Zenon
  <2>2. NULL \in Pointer /\ \A n \in Node : tree.up[n] \in Pointer
    BY <1>2, Fields
  <2> QED
    BY <1>6, <2>1, <2>2
<1>9. tree' \in Trees
  BY <1>2, <1>7, <1>8 DEF Trees
<1>10. TypeOK'
  BY <1>1, <1>2, <1>5, <1>7, <1>8, <1>9 DEF IInv, TypeOK, Trees
<1>11. Loops' /\ InLoop' /\ OnWay' /\ TreeInv' /\ Clean' /\ RootRule'
  BY <1>1 DEF Loops, InLoop, OnWay, TreeInv, Clean, RootRule, Removing
<1> QED
  BY <1>10, <1>11 DEF IInv

LEMMA FreeDoneInv ==
    ASSUME IInv, FreeDone
    PROVE  IInv'
<1>1. /\ kind' = kind /\ key' = key /\ tree' = Empty /\ inside' = {} /\ pc' = "out"
      /\ x' = NULL /\ y' = NULL /\ c' = NULL /\ p' = NULL /\ seen' = {}
  BY DEF FreeDone, Return
<1>2. /\ Sound(tree', NULL, {}, {key}) /\ tree' \in Trees /\ tree'.root = NULL
      /\ \A n \in Node : tree'.kid[n] = NoKids /\ tree'.up[n] = NULL
  BY <1>1, TypeIs, SoundEmpty DEF IInv
<1>3. NULL \in Pointer
  BY DEF Pointer
<1>4. TypeOK'
  BY <1>1, <1>2, <1>3 DEF IInv, TypeOK, Trees
<1>5. TreeInv' /\ InLoop' /\ OnWay'
  BY <1>1, <1>2, RestNext
<1>6. Clean'
  BY <1>2 DEF Clean
<1>7. Loops'
  BY <1>1 DEF Loops, Removing
<1>8. RootRule'
  BY <1>1, <1>2 DEF RootRule, Red
<1> QED
  BY <1>4, <1>5, <1>6, <1>7, <1>8 DEF IInv

LEMMA TravelInv ==
    ASSUME IInv, Travel
    PROVE  IInv'
<1>1. /\ kind' = kind /\ key' = key /\ tree' = tree /\ inside' = inside /\ pc' = "travel" /\ pc = "out"
      /\ x' = tree.root /\ y' = y /\ c' = c /\ p' = p /\ seen' = {} /\ tree.root # NULL
  BY DEF Travel
<1>2. Sound(tree, tree.root, inside, {key})
  BY <1>1, AtRest
<1>3. tree.root \in inside /\ tree.root \in Pointer
  BY <1>1, <1>2 DEF Sound, Shape
<1>4. TypeOK'
  BY <1>1, <1>3 DEF IInv, TypeOK
<1>5. TreeInv' /\ InLoop' /\ OnWay'
  BY <1>1, <1>2, RestNext
<1>6. Clean'
  <2>1. x = NULL
    BY <1>1 DEF IInv, Loops
  <2> QED
    BY <1>1, <1>3, <2>1, NullIsNoNode DEF IInv, Clean
<1>7. Loops'
  BY <1>1, <1>3 DEF Loops, Removing
<1>8. RootRule'
  BY <1>1 DEF IInv, RootRule, Red
<1> QED
  BY <1>4, <1>5, <1>6, <1>7, <1>8 DEF IInv

LEMMA TravelDoneInv ==
    ASSUME IInv, TravelDone
    PROVE  IInv'
<1>1. /\ kind' = kind /\ key' = key /\ tree' = tree /\ inside' = inside /\ pc' = "out" /\ pc = "travel"
      /\ x' = NULL /\ y' = NULL /\ c' = NULL /\ p' = NULL /\ seen' = {} /\ x = NULL
  BY DEF TravelDone, Return
<1>2. Sound(tree, tree.root, inside, {key})
  BY <1>1, AtRest
<1>3. NULL \in Pointer
  BY DEF Pointer
<1>4. TypeOK'
  BY <1>1, <1>3 DEF IInv, TypeOK
<1>5. TreeInv' /\ InLoop' /\ OnWay'
  BY <1>1, <1>2, RestNext
<1>6. Clean'
  BY <1>1 DEF IInv, Clean
<1>7. Loops'
  BY <1>1 DEF Loops, Removing
<1>8. RootRule'
  BY <1>1 DEF IInv, RootRule, Red
<1> QED
  BY <1>4, <1>5, <1>6, <1>7, <1>8 DEF IInv
-----------------------------------------------------------------------------
\* Three nodes above each other are three.
LEMMA Chain ==
    ASSUME NEW up, NEW kid, NEW r, NEW P, Shape(up, kid, r, P),
           NEW a \in P, up[a] \in P
    PROVE  a # up[a] /\ up[a] # up[up[a]] /\ a # up[up[a]]
<1>1. \A S \in SUBSET P : S # {} => \E e \in S : up[e] \notin S
  BY DEF Shape
<1>2. PICK b \in P : b = up[a]
  OBVIOUS
<1>3. \E e \in {a} : up[e] \notin {a}
  BY <1>1, {a} \in SUBSET P
<1>4. \E e \in {b} : up[e] \notin {b}
  BY <1>1, {b} \in SUBSET P
<1>5. \E e \in {a, b} : up[e] \notin {a, b}
  BY <1>1, <1>2, {a, b} \in SUBSET P
<1> QED
  BY <1>2, <1>3, <1>4, <1>5

\* The functions that climb from a node have values.
Climbs(f, up, kid) ==
    f = [m \in Node |-> LET q == up[m]
                        IN IF q = NULL THEN NULL
                           ELSE IF kid[q]["right"] \in {m, NULL} THEN f[q]
                           ELSE kid[q]["right"]]

LEMMA ClimbIs ==
    ASSUME NEW up \in UPS, NEW kid \in KIDS, NEW r, NEW P, Shape(up, kid, r, P),
           \A n \in Node : n \notin P => up[n] = NULL
    PROVE  \E f : Climbs(f, up, kid)
<1>1. \A m \in Node : up[m] \in Pointer
  BY DEF UPS
<1>2. PICK stop : stop = {m \in Node : up[m] = NULL \/ ~(kid[up[m]]["right"] \in {m, NULL})}
  OBVIOUS
<1>3. PICK v : v = [m \in Node |-> IF up[m] = NULL THEN NULL ELSE kid[up[m]]["right"]]
  OBVIOUS
<1>4. \A n \in Node : n \in stop \/ up[n] \in Node
  BY <1>1, <1>2 DEF Pointer
<1>5. LeadsOut(Node, stop, up)
  <2> SUFFICES ASSUME NEW S \in SUBSET Node, S # {}
               PROVE  \E s \in S : s \in stop \/ up[s] \notin S
    BY DEF LeadsOut
  <2>1. CASE S \in SUBSET P
    BY <2>1 DEF Shape
  <2>2. CASE S \notin SUBSET P
    BY <1>2, <2>2
  <2> QED
    BY <2>1, <2>2
<1>6. PICK f : Line(f, Node, stop, v, up)
  BY <1>4, <1>5, NodesFinite, LineIs
<1>7. f = [n \in Node |-> IF n \in stop THEN v[n] ELSE f[up[n]]]
  BY <1>6 DEF Line
<1>8. ASSUME NEW m \in Node
      PROVE  (IF m \in stop THEN v[m] ELSE f[up[m]])
              = IF up[m] = NULL THEN NULL
                ELSE IF kid[up[m]]["right"] \in {m, NULL} THEN f[up[m]]
                ELSE kid[up[m]]["right"]
  BY <1>2, <1>3
<1>9. f = [m \in Node |-> IF up[m] = NULL THEN NULL
                          ELSE IF kid[up[m]]["right"] \in {m, NULL} THEN f[up[m]]
                          ELSE kid[up[m]]["right"]]
  BY <1>7, <1>8
<1> QED
  BY <1>9 DEF Climbs

\* Where a traversal goes next, there is a node of the tree or none.
LEMMA UpAndRightIs ==
    ASSUME IInv, pc = "travel", NEW n \in inside
    PROVE  UpAndRight(n) \in inside \cup {NULL}
<1>1. Sound(tree, tree.root, inside, {key})
  BY AtRest
<1>2. PICK up \in UPS : up = tree.up
  BY <1>1, Fields DEF Sound
<1>3. PICK kid \in KIDS : kid = tree.kid
  BY <1>1, Fields DEF Sound
<1>4. Shape(up, kid, tree.root, inside) /\ inside \in SUBSET Node
  BY <1>1, <1>2, <1>3 DEF Sound, Shape
<1>5. \A m \in Node : m \notin inside => up[m] = NULL
  BY <1>2, NullIsNoNode DEF IInv, Clean, Loops
<1>6. \E f : Climbs(f, up, kid)
  BY <1>4, <1>5, ClimbIs
<1>7. PICK f : f = CHOOSE g : Climbs(g, up, kid)
  OBVIOUS
<1>8. Climbs(f, up, kid)
  BY <1>6, <1>7, Zenon
<1>9. UpAndRight(n) = f[n]
  BY <1>2, <1>3, <1>7 DEF UpAndRight, Climbs
<1>10. \A m \in Node : f[m] = IF up[m] = NULL THEN NULL
                              ELSE IF kid[up[m]]["right"] \in {m, NULL} THEN f[up[m]]
                              ELSE kid[up[m]]["right"]
  BY <1>8 DEF Climbs
<1>11. PICK S \in SUBSET inside : S = {m \in inside : f[m] \notin inside \cup {NULL}}
  OBVIOUS
<1>12. ASSUME S # {} PROVE FALSE
  <2>1. PICK m \in S : up[m] \notin S
    BY <1>4, <1>12 DEF Shape
  <2>2. m \in inside /\ m \in Node /\ f[m] \notin inside \cup {NULL}
    BY <1>4, <1>11
  <2>3. up[m] # NULL => up[m] \in inside
    BY <1>4, <2>2 DEF Shape
  <2>4. up[m] # NULL /\ kid[up[m]]["right"] # NULL => kid[up[m]]["right"] \in inside
    BY <1>4, <2>3 DEF Shape, Side
  <2> QED
    BY <1>10, <1>11, <2>1, <2>2, <2>3, <2>4
<1> QED
  BY <1>9, <1>11, <1>12

LEMMA VisitInv ==
    ASSUME IInv, Visit
    PROVE  IInv'
<1>1. /\ kind' = kind /\ key' = key /\ tree' = tree /\ inside' = inside /\ pc' = "travel" /\ pc = "travel"
      /\ y' = y /\ c' = c /\ p' = p /\ seen' = seen \cup {x} /\ x # NULL
  BY DEF Visit
<1>2. Sound(tree, tree.root, inside, {key})
  BY <1>1, AtRest
<1>3. x \in inside /\ inside \in SUBSET Node
  BY <1>1, TypeIs DEF IInv, Loops
<1>4. \A d \in Side : tree.kid[x][d] # NULL => tree.kid[x][d] \in inside
  BY <1>2, <1>3 DEF Sound, Shape
<1>5. x' \in inside \cup {NULL}
  <2>1. CASE tree.kid[x]["left"] # NULL
    <3>1. PICK l : l = tree.kid[x]["left"] /\ l \in inside
      BY <1>4, <2>1 DEF Side
    <3>2. KidOn(x, "left") = <<l>>
      BY <2>1, <3>1 DEF KidOn
    <3>3. KidOn(x, "right") \in Seq(inside)
      BY <1>4 DEF KidOn, Side
    <3>4. PICK rest \in Seq(inside) : rest = KidOn(x, "right")
      BY <3>3
    <3>5. Kids(x) = <<l>> \o rest
      BY <3>2, <3>4 DEF Kids
    <3>6. (<<l>> \o rest)[1] = l /\ <<l>> \o rest # <<>>
      BY <3>1
    <3>7. x' = l
      BY <3>5, <3>6 DEF Visit
    <3> QED
      BY <3>1, <3>7
  <2>2. CASE tree.kid[x]["left"] = NULL /\ tree.kid[x]["right"] # NULL
    <3>1. PICK l : l = tree.kid[x]["right"] /\ l \in inside
      BY <1>4, <2>2 DEF Side
    <3>2. Kids(x) = <<>> \o <<l>>
      BY <2>2, <3>1 DEF Kids, KidOn
    <3>3. <<>> \o <<l>> = <<l>> /\ <<l>>[1] = l /\ <<l>> # <<>>
      OBVIOUS
    <3>4. x' = l
      BY <3>2, <3>3 DEF Visit
    <3> QED
      BY <3>1, <3>4
  <2>3. CASE tree.kid[x]["left"] = NULL /\ tree.kid[x]["right"] = NULL
    <3>1. Kids(x) = <<>> \o <<>>
      BY <2>3 DEF Kids, KidOn
    <3>2. <<>> \o <<>> = <<>>
      OBVIOUS
    <3>3. x' = UpAndRight(x)
      BY <3>1, <3>2 DEF Visit
    <3> QED
      BY <1>1, <1>3, <3>3, UpAndRightIs
  <2> QED
    BY <2>1, <2>2, <2>3
<1>6. TypeOK'
  BY <1>1, <1>3, <1>5 DEF IInv, TypeOK, Pointer
<1>7. TreeInv' /\ InLoop' /\ OnWay'
  BY <1>1, <1>2, RestNext
<1>8. Clean'
  BY <1>1, <1>3 DEF IInv, Clean
<1>9. Loops'
  BY <1>1, <1>5 DEF Loops, Removing
<1>10. RootRule'
  BY <1>1 DEF IInv, RootRule, Red
<1> QED
  BY <1>6, <1>7, <1>8, <1>9, <1>10 DEF IInv
-----------------------------------------------------------------------------
LEMMA InsertDoneInv ==
    ASSUME IInv, InsertDone
    PROVE  IInv'
<1>1. /\ kind' = kind /\ key' = key /\ tree' = Colour(tree, {tree.root}, FALSE) /\ inside' = inside
      /\ pc' = "out" /\ pc = "insert" /\ x' = NULL /\ y' = NULL /\ c' = NULL /\ p' = NULL /\ seen' = seen
  BY DEF InsertDone, Return
<1>2. Sound(tree, tree.root, inside, {key})
  BY <1>1, AtRest
<1>3. Sound(tree', tree.root, inside, {key}) /\ IsColoured(tree, {tree.root}, FALSE, tree')
  BY <1>1, <1>2, ColourSound
<1>4. /\ tree' \in Trees /\ tree'.kid = tree.kid /\ tree'.up = tree.up /\ tree'.root = tree.root
      /\ \A e \in Node : tree'.red[e] = IF e \in {tree.root} THEN FALSE ELSE tree.red[e]
  BY <1>3 DEF IsColoured
<1>5. NULL \in Pointer
  BY DEF Pointer
<1>6. TypeOK'
  BY <1>1, <1>4, <1>5 DEF IInv, TypeOK, Trees
<1>7. TreeInv' /\ InLoop' /\ OnWay'
  BY <1>1, <1>3, <1>4, RestNext
<1>8. Clean'
  BY <1>1, <1>4, ZenonT(30) DEF IInv, Clean, Loops
<1>9. Loops'
  BY <1>1 DEF Loops, Removing
<1>10. RootRule'
  <2>1. tree.root \in Pointer
    BY <1>2 DEF Sound
  <2> QED
    BY <1>1, <1>4, <2>1, Fields DEF RootRule, Red
<1> QED
  BY <1>6, <1>7, <1>8, <1>9, <1>10 DEF IInv

\* Two red nodes above each other have a third above them, which is not the root's parent.
LEMMA GrandIs ==
    ASSUME IInv, pc = "insert", Red(tree, Parent)
    PROVE  /\ x \in inside /\ Parent \in inside /\ Grand \in inside /\ Parent # tree.root
           /\ x # Parent /\ Parent # Grand /\ x # Grand
           /\ ~tree.red[tree.root] /\ tree.root \in inside
<1>1. Sound(tree, tree.root, inside, {key})
  BY AtRest
<1>2. /\ x \in inside /\ tree.red[x] /\ (tree.root = x \/ ~Red(tree, tree.root))
  BY DEF IInv, Loops
<1>3. Parent # NULL /\ tree.red[Parent]
  BY DEF Red
<1>4. Shape(tree.up, tree.kid, tree.root, inside) /\ inside \in SUBSET Node
  BY <1>1 DEF Sound, Shape
<1>5. tree.root \in inside /\ tree.up[tree.root] = NULL /\ tree.root # NULL
  BY <1>2, <1>4, NullIsNoNode DEF Shape
<1>6. x # tree.root
  BY <1>3, <1>5 DEF Parent
<1>7. Parent \in inside
  BY <1>2, <1>4, <1>6 DEF Shape, Parent
<1>8. ~tree.red[tree.root] /\ Parent # tree.root
  BY <1>2, <1>3, <1>5, <1>6 DEF Red
<1>9. Grand \in inside
  BY <1>4, <1>7, <1>8 DEF Shape, Grand
<1>10. x # Parent /\ Parent # Grand /\ x # Grand
  BY <1>2, <1>4, <1>7, Chain DEF Parent, Grand
<1> QED
  BY <1>2, <1>5, <1>7, <1>8, <1>9, <1>10

LEMMA InsertRecolourInv ==
    ASSUME IInv, InsertRecolour
    PROVE  IInv'
<1>1. /\ kind' = kind /\ key' = key /\ inside' = inside /\ pc' = "insert" /\ pc = "insert"
      /\ x' = Grand /\ y' = y /\ c' = c /\ p' = p /\ seen' = seen
      /\ tree' = Colour(Colour(tree, {tree.kid[Grand][d] : d \in Side}, FALSE), {Grand}, TRUE)
      /\ Red(tree, Parent)
  BY DEF InsertRecolour
<1>2. Sound(tree, tree.root, inside, {key})
  BY <1>1, AtRest
<1>3. /\ x \in inside /\ Grand \in inside /\ ~tree.red[tree.root] /\ tree.root \in inside
      /\ inside \in SUBSET Node /\ NULL \notin inside
  BY <1>1, GrandIs, TypeIs, NullIsNoNode DEF IInv
<1>4. PICK S : S = {tree.kid[Grand][d] : d \in Side}
  OBVIOUS
<1>5. PICK t : t = Colour(tree, S, FALSE)
  OBVIOUS
<1>6. Sound(t, tree.root, inside, {key}) /\ IsColoured(tree, S, FALSE, t)
  BY <1>2, <1>5, ColourSound
<1>7. tree' = Colour(t, {Grand}, TRUE)
  BY <1>1, <1>4, <1>5
<1>8. Sound(tree', tree.root, inside, {key}) /\ IsColoured(t, {Grand}, TRUE, tree')
  BY <1>6, <1>7, ColourSound
<1>9. /\ tree' \in Trees /\ tree'.kid = tree.kid /\ tree'.up = tree.up /\ tree'.root = tree.root
      /\ \A e \in Node : tree'.red[e] = IF e = Grand THEN TRUE ELSE IF e \in S THEN FALSE ELSE tree.red[e]
  BY <1>6, <1>8 DEF IsColoured
<1>10. TypeOK'
  BY <1>1, <1>3, <1>9 DEF IInv, TypeOK, Trees, Pointer
<1>11. TreeInv' /\ InLoop' /\ OnWay'
  BY <1>1, <1>8, <1>9, RestNext
<1>12. Clean'
  BY <1>1, <1>3, <1>9 DEF IInv, Clean
<1>13. Loops'
  BY <1>1, <1>3, <1>9 DEF IInv, Loops, Removing, Red
<1>14. RootRule'
  BY <1>1 DEF RootRule
<1> QED
  BY <1>10, <1>11, <1>12, <1>13, <1>14 DEF IInv

LEMMA InsertRotateInv ==
    ASSUME IInv, InsertRotate
    PROVE  IInv'
<1>1. /\ kind' = kind /\ key' = key /\ inside' = inside /\ pc' = "out" /\ pc = "insert"
      /\ x' = NULL /\ y' = NULL /\ c' = NULL /\ p' = NULL /\ seen' = seen
      /\ Red(tree, Parent)
  BY DEF InsertRotate, Return
<1>2. PICK d : d = SideOf(tree, Parent)
  OBVIOUS
<1>3. PICK n : n = Parent
  OBVIOUS
<1>4. PICK g : g = Grand
  OBVIOUS
<1>5. PICK s : s = Straightened(tree, x, n, d)
  OBVIOUS
<1>6. PICK t2 : t2 = Rotate(s.t, g, Other(d))
  OBVIOUS
<1>7. tree' = Colour(Colour(t2, {s.top}, FALSE), {g}, TRUE)
  BY <1>2, <1>3, <1>4, <1>5, <1>6 DEF InsertRotate
<1>8. Sound(tree, tree.root, inside, {key})
  BY <1>1, AtRest
<1>9. /\ x \in inside /\ n \in inside /\ g \in inside /\ n # tree.root
      /\ x # n /\ n # g /\ x # g /\ ~tree.red[tree.root] /\ tree.root \in inside
  BY <1>1, <1>3, <1>4, GrandIs
<1>10. tree.up[x] = n /\ tree.up[n] = g
  BY <1>3, <1>4 DEF Parent, Grand
<1>11. inside \in SUBSET Node /\ NULL \notin inside
  BY NullIsNoNode, TypeIs DEF IInv
<1>12. d \in Side /\ Other(d) \in Side /\ Other(Other(d)) = d /\ tree.kid[g][d] = n
  <2>1. \E b \in Side : tree.kid[g][b] = n
    BY <1>8, <1>9, <1>10 DEF Sound, Shape
  <2>2. d = IF tree.kid[g]["left"] = n THEN "left" ELSE "right"
    BY <1>2, <1>3, <1>10 DEF SideOf
  <2> QED
    BY <2>1, <2>2, Sides DEF Side
<1>13. /\ Sound(s.t, tree.root, inside, {key}) /\ Untouched(tree, s.t, inside)
       /\ s.t.red = tree.red /\ s.t.root = tree.root
       /\ s.t.kid[g][d] = s.top /\ s.top \in inside /\ s.top # g
  <2>1. CASE tree.kid[n][Other(d)] = x
    <3>1. s = [t |-> Rotate(tree, n, d), top |-> x]
      BY <1>5, <2>1 DEF Straightened
    <3>2. PICK ta : ta = Rotate(tree, n, d)
      OBVIOUS
    <3>3. tree.kid[n][Other(d)] # NULL
      BY <1>9, <1>11, <2>1
    <3>4. PICK r1 : Rotation(tree, tree.root, inside, {key}, n, x, d, ta, r1)
      BY <1>8, <1>9, <1>12, <2>1, <3>2, <3>3, RotationIs
    <3>5. tree.up[n] # NULL
      BY <1>9, <1>10, <1>11
    <3>6. r1 = tree.root /\ ta.root = tree.root
      BY <3>4, <3>5 DEF Rotation
    <3>7. ta.kid[g][d] = x
      BY <1>9, <1>10, <1>12, <3>4 DEF Rotation
    <3>8. s.t = ta /\ s.top = x
      BY <3>1, <3>2
    <3> QED
      BY <1>9, <3>4, <3>6, <3>7, <3>8 DEF Rotation
  <2>2. CASE tree.kid[n][Other(d)] # x
    <3>1. s.t = tree /\ s.top = n
      BY <1>5, <2>2 DEF Straightened
    <3>2. Untouched(tree, tree, inside)
      BY DEF Untouched
    <3> QED
      BY <1>8, <1>9, <1>12, <3>1, <3>2
  <2> QED
    BY <2>1, <2>2
<1>14. PICK ts : ts = s.t
  OBVIOUS
<1>15. PICK m : m = s.top
  OBVIOUS
<1>16. /\ Sound(ts, tree.root, inside, {key}) /\ Untouched(tree, ts, inside)
       /\ ts.red = tree.red /\ ts.root = tree.root
       /\ ts.kid[g][d] = m /\ m \in inside /\ m # g
  BY <1>13, <1>14, <1>15
<1>17. PICK r2 : Rotation(ts, tree.root, inside, {key}, g, m, Other(d), t2, r2)
  <2>1. ts.kid[g][Other(Other(d))] = m /\ m # NULL
    BY <1>11, <1>12, <1>16
  <2>2. t2 = Rotate(ts, g, Other(d))
    BY <1>6, <1>14
  <2>3. \E r2 : Rotation(ts, tree.root, inside, {key}, g, ts.kid[g][Other(Other(d))], Other(d), Rotate(ts, g, Other(d)), r2)
    BY <1>9, <1>12, <1>16, <2>1, RotationIs
  <2> QED
    BY <2>1, <2>2, <2>3
<1>18. /\ Sound(t2, r2, inside, {key}) /\ Untouched(ts, t2, inside) /\ t2.red = tree.red
       /\ r2 = t2.root /\ t2.root = IF ts.up[g] = NULL THEN m ELSE tree.root
  BY <1>16, <1>17 DEF Rotation
<1>19. ts.up[g] # NULL => tree.root # g
  BY <1>9, <1>16 DEF Sound, Shape
<1>20. PICK t3 : t3 = Colour(t2, {m}, FALSE)
  OBVIOUS
<1>21. Sound(t3, r2, inside, {key}) /\ IsColoured(t2, {m}, FALSE, t3)
  BY <1>18, <1>20, ColourSound
<1>22. tree' = Colour(t3, {g}, TRUE)
  BY <1>7, <1>15, <1>20
<1>23. Sound(tree', r2, inside, {key}) /\ IsColoured(t3, {g}, TRUE, tree')
  BY <1>21, <1>22, ColourSound
<1>24. /\ tree' \in Trees /\ tree'.kid = t2.kid /\ tree'.up = t2.up /\ tree'.root = t2.root
       /\ \A e \in Node : tree'.red[e] = IF e = g THEN TRUE ELSE IF e = m THEN FALSE ELSE tree.red[e]
  BY <1>18, <1>21, <1>23 DEF IsColoured
<1>25. NULL \in Pointer
  BY DEF Pointer
<1>26. TypeOK'
  BY <1>1, <1>24, <1>25 DEF IInv, TypeOK, Trees
<1>27. TreeInv' /\ InLoop' /\ OnWay'
  <2>1. Sound(tree', tree'.root, inside', {key'})
    BY <1>1, <1>18, <1>23, <1>24
  <2> QED
    BY <1>1, <2>1, RestNext
<1>28. Clean'
  <2>1. ASSUME NEW e \in Node, e \notin inside
        PROVE  tree'.kid[e] = NoKids /\ tree'.up[e] = NULL
    <3>1. e # x
      BY <1>9, <2>1
    <3>2. tree.kid[e] = NoKids /\ tree.up[e] = NULL
      BY <1>1, <2>1, <3>1 DEF IInv, Clean
    <3> QED
      BY <1>16, <1>18, <1>24, <2>1, <3>2 DEF Untouched
  <2> QED
    BY <1>1, <2>1 DEF Clean
<1>29. Loops'
  BY <1>1 DEF Loops, Removing
<1>30. RootRule'
  <2>1. t2.root # g /\ t2.root \in inside
    BY <1>9, <1>16, <1>18, <1>19
  <2>2. ~tree'.red[tree'.root]
    BY <1>9, <1>11, <1>18, <1>24, <2>1
  <2> QED
    BY <1>1, <2>2 DEF RootRule, Red
<1> QED
  BY <1>26, <1>27, <1>28, <1>29, <1>30 DEF IInv
-----------------------------------------------------------------------------
\* The functions that go down from a node have values, and say where the way ends.
Dives(f, D, kid, dir) ==
    f = [m \in D |-> IF m = NULL \/ kid[m][dir[m]] = NULL THEN m ELSE f[kid[m][dir[m]]]]

LEMMA DiveIs ==
    ASSUME NEW up, NEW kid \in KIDS, NEW r, NEW P, Shape(up, kid, r, P),
           \A n \in Node : n \notin P => \A d \in Side : kid[n][d] = NULL,
           NEW dir \in [Node -> Side], NEW D, D \in {Node, Pointer}
    PROVE  \E f : Dives(f, D, kid, dir)
<1>1. IsFiniteSet(D) /\ Node \subseteq D /\ D \subseteq Pointer
  <2>1. IsFiniteSet(Pointer)
    BY NodesFinite, FS_AddElement DEF Pointer
  <2> QED
    BY <2>1, NodesFinite DEF Pointer
<1>2. PICK stop : stop = {m \in D : m = NULL \/ kid[m][dir[m]] = NULL}
  OBVIOUS
<1>3. PICK v : v = [m \in D |-> m]
  OBVIOUS
<1>4. PICK step : step = [m \in D |-> kid[m][dir[m]]]
  OBVIOUS
<1>5. \A n \in D : n = NULL \/ (n \in Node /\ dir[n] \in Side /\ kid[n][dir[n]] \in Pointer)
  <2> SUFFICES ASSUME NEW n \in D, n # NULL
               PROVE  n \in Node /\ dir[n] \in Side /\ kid[n][dir[n]] \in Pointer
    OBVIOUS
  <2>1. n \in Node /\ dir[n] \in Side
    BY <1>1 DEF Pointer
  <2> QED
    BY <2>1 DEF KIDS
<1>6. \A n \in D : n \in stop \/ step[n] \in D
  BY <1>1, <1>2, <1>4, <1>5 DEF Pointer
<1>7. LeadsOut(D, stop, step)
  <2> SUFFICES ASSUME NEW S \in SUBSET D, S # {}
               PROVE  \E s \in S : s \in stop \/ step[s] \notin S
    BY DEF LeadsOut
  <2>1. CASE S \in SUBSET P
    <3>1. PICK n \in S : \A d \in Side : kid[n][d] \notin S
      BY <2>1, DownOut
    <3> QED
      BY <1>2, <1>4, <1>5, <3>1
  <2>2. CASE S \notin SUBSET P
    <3>1. PICK n \in S : n \notin P
      BY <2>2
    <3>2. n = NULL \/ kid[n][dir[n]] = NULL
      BY <1>5, <3>1
    <3> QED
      BY <1>2, <3>1, <3>2
  <2> QED
    BY <2>1, <2>2
<1>8. PICK f : Line(f, D, stop, v, step)
  BY <1>1, <1>6, <1>7, LineIs
<1>9. f = [n \in D |-> IF n \in stop THEN v[n] ELSE f[step[n]]]
  BY <1>8 DEF Line
<1>10. ASSUME NEW m \in D
       PROVE  (IF m \in stop THEN v[m] ELSE f[step[m]])
               = IF m = NULL \/ kid[m][dir[m]] = NULL THEN m ELSE f[kid[m][dir[m]]]
  BY <1>2, <1>3, <1>4
<1>11. f = [m \in D |-> IF m = NULL \/ kid[m][dir[m]] = NULL THEN m ELSE f[kid[m][dir[m]]]]
  BY <1>9, <1>10
<1> QED
  BY <1>11 DEF Dives

LEMMA DiveRoute ==
    ASSUME NEW up, NEW kid \in KIDS, NEW r, NEW P, Shape(up, kid, r, P),
           \A n \in Node : n \notin P => \A d \in Side : kid[n][d] = NULL,
           NEW dir \in [Node -> Side], NEW D, D \in {Node, Pointer}, NEW s \in P
    PROVE  \E R : Route(up, kid, P, dir, s, (CHOOSE f : Dives(f, D, kid, dir))[s], R)
<1>1. PICK f : f = CHOOSE g : Dives(g, D, kid, dir)
  OBVIOUS
<1>2. Dives(f, D, kid, dir)
  BY <1>1, DiveIs, Zenon
<1>3. P \in SUBSET Node /\ NULL \notin P /\ Node \subseteq D
  BY NullIsNoNode DEF Shape, Pointer
<1>4. \A m \in D : f[m] = IF m = NULL \/ kid[m][dir[m]] = NULL THEN m ELSE f[kid[m][dir[m]]]
  BY <1>2 DEF Dives
<1>5. Descends(f, kid, P, dir)
  BY <1>3, <1>4 DEF Descends
<1>6. \E R : Route(up, kid, P, dir, s, f[s], R)
  BY <1>5, RouteIs
<1> QED
  BY <1>1, <1>6
-----------------------------------------------------------------------------
Downs(f, kid, k) ==
    f = [n \in Node |-> LET m == kid[n][GoesTo(k, n)]
                        IN IF m = NULL THEN n ELSE f[m]]

\* The last node of the search path: every node above it sends the key its way.
LEMMA LastOnPathIs ==
    ASSUME IInv, pc = "out", tree.root # NULL, NEW k \in Int
    PROVE  \E q \in inside : /\ q = LastOnPath(tree, k) /\ tree.kid[q][GoesTo(k, q)] = NULL
                             /\ \A a \in inside : \A s \in Side :
                                   q \in Under(tree.kid, tree.kid[a][s]) => GoesTo(k, a) = s
<1>1. Sound(tree, tree.root, inside, {key})
  BY AtRest
<1>2. PICK up \in UPS : up = tree.up
  BY <1>1, Fields DEF Sound
<1>3. PICK kid \in KIDS : kid = tree.kid
  BY <1>1, Fields DEF Sound
<1>4. PICK r \in inside : r = tree.root
  BY <1>1 DEF Sound, Shape
<1>5. Shape(up, kid, r, inside) /\ inside \in SUBSET Node
  BY <1>1, <1>2, <1>3, <1>4 DEF Sound, Shape
<1>6. \A n \in Node : n \notin inside => \A d \in Side : kid[n][d] = NULL
  BY <1>3, NullIsNoNode DEF IInv, Clean, Loops, NoKids
<1>7. PICK dir : dir = [n \in Node |-> GoesTo(k, n)]
  OBVIOUS
<1>8. dir \in [Node -> Side]
  BY <1>7 DEF GoesTo, Side
<1>9. PICK q : q = (CHOOSE f : Dives(f, Node, kid, dir))[r]
  OBVIOUS
<1>10. PICK R : Route(up, kid, inside, dir, r, q, R)
  BY <1>5, <1>6, <1>8, <1>9, DiveRoute
<1>11. LastOnPath(tree, k) = q
  <2>1. ASSUME NEW f
        PROVE  Dives(f, Node, kid, dir) <=> Downs(f, kid, k)
    <3>1. \A n \in Node : (IF n = NULL \/ kid[n][dir[n]] = NULL THEN n ELSE f[kid[n][dir[n]]])
                          = (IF kid[n][GoesTo(k, n)] = NULL THEN n ELSE f[kid[n][GoesTo(k, n)]])
      BY <1>7, NullIsNoNode
    <3>2. [n \in Node |-> IF n = NULL \/ kid[n][dir[n]] = NULL THEN n ELSE f[kid[n][dir[n]]]]
           = [n \in Node |-> IF kid[n][GoesTo(k, n)] = NULL THEN n ELSE f[kid[n][GoesTo(k, n)]]]
      BY <3>1, Zenon
    <3> QED
      BY <3>2, Zenon DEF Dives, Downs
  <2>2. LastOnPath(tree, k) = (CHOOSE f : Downs(f, kid, k))[r]
    BY <1>3, <1>4 DEF LastOnPath, Downs
  <2> QED
    BY <1>9, <2>1, <2>2, Zenon
<1>12. q \in inside /\ kid[q][dir[q]] = NULL
  BY <1>10 DEF Route
<1>13. \A a \in inside : \A s \in Side : q \in Under(kid, kid[a][s]) => dir[a] = s
  <2> SUFFICES ASSUME NEW a \in inside, NEW s \in Side, q \in Under(kid, kid[a][s])
               PROVE  dir[a] = s
    OBVIOUS
  <2> QED
    BY <1>5, <1>8, <1>10, RouteSides, SMTT(20)
<1>14. \A a \in inside : dir[a] = GoesTo(k, a)
  BY <1>5, <1>7
<1> QED
  BY <1>3, <1>11, <1>12, <1>13, <1>14

LEMMA InsertInv ==
    ASSUME IInv, NEW n \in Node, Insert(n)
    PROVE  IInv'
<1>1. /\ kind' = kind /\ key' = key /\ inside' = inside \cup {n} /\ pc = "out" /\ n \notin inside
      /\ y' = y /\ c' = c /\ p' = p /\ seen' = seen
      /\ tree' = Hung(tree, n)
      /\ IF kind = "bst" THEN pc' = "out" /\ x' = x ELSE pc' = "insert" /\ x' = n
      /\ x = NULL
  BY DEF Insert, IInv, Loops
<1>2. Sound(tree, tree.root, inside, {key})
  BY <1>1, AtRest
<1>3. tree \in Trees /\ key \in [Node -> Int] /\ kind \in {"bst", "rbt"} /\ inside \in SUBSET Node
  BY TypeIs DEF IInv
<1>4. PICK q : q = LastOnPath(tree, key[n])
  OBVIOUS
<1>5. PICK d : d = GoesTo(key[n], q)
  OBVIOUS
<1>6. d \in Side
  BY <1>5 DEF GoesTo, Side
<1>7. tree.root # NULL => /\ q \in inside /\ tree.kid[q][d] = NULL
                          /\ \A a \in inside : \A s \in Side :
                                q \in Under(tree.kid, tree.kid[a][s]) => GoesTo(key[n], a) = s
  <2> SUFFICES ASSUME tree.root # NULL
               PROVE  /\ q \in inside /\ tree.kid[q][d] = NULL
                      /\ \A a \in inside : \A s \in Side :
                            q \in Under(tree.kid, tree.kid[a][s]) => GoesTo(key[n], a) = s
    OBVIOUS
  <2>1. key[n] \in Int
    BY <1>3
  <2> QED
    BY <1>1, <1>4, <1>5, <2>1, LastOnPathIs
<1>8. IsHung(tree, n, q, d, tree')
  <2>1. tree.root # NULL => q \in Node /\ q # n
    BY <1>1, <1>3, <1>7
  <2> QED
    BY <1>1, <1>3, <1>4, <1>5, <1>6, <2>1, HungIs
<1>9. /\ tree' \in Trees
      /\ tree'.root = IF tree.root = NULL THEN n ELSE tree.root
      /\ \A e \in Node : /\ tree'.up[e] = IF e = n THEN (IF tree.root = NULL THEN NULL ELSE q) ELSE tree.up[e]
                         /\ tree'.red[e] = IF e = n THEN kind = "rbt" ELSE tree.red[e]
      /\ \A e \in Node : \A s \in Side :
            tree'.kid[e][s] = IF e = n THEN NULL
                              ELSE IF tree.root # NULL /\ e = q /\ s = d THEN n ELSE tree.kid[e][s]
  BY <1>8 DEF IsHung
<1>10. tree.root = NULL => inside = {}
  BY <1>2 DEF Sound, Shape
<1>11. Hangs(tree.up, tree.kid, tree.root, inside, n, q, d, tree'.up, tree'.kid, tree'.root)
  <2>1. tree'.kid \in KIDS
    BY <1>9, Fields
  <2>2. \A e \in inside : tree'.up[e] = tree.up[e]
    BY <1>1, <1>3, <1>9
  <2>3. \A e \in inside : \A s \in Side :
           tree'.kid[e][s] = IF e = q /\ s = d THEN n ELSE tree.kid[e][s]
    BY <1>1, <1>3, <1>9, <1>10
  <2> QED
    BY <1>1, <1>6, <1>7, <1>9, <2>1, <2>2, <2>3 DEF Hangs
<1>12. Shape(tree.up, tree.kid, tree.root, inside) /\ Ordered(tree.kid, inside, key) /\ tree.kid \in KIDS
  BY <1>2, <1>3, Fields DEF Sound
<1>13. Shape(tree'.up, tree'.kid, tree'.root, inside')
  BY <1>1, <1>11, <1>12, HangShape
<1>14. Ordered(tree'.kid, inside', key)
  <2>1. \A a \in inside : GoesTo(key[n], a) \in Side /\ Fits(GoesTo(key[n], a), key[n], key[a])
    BY <1>3 DEF GoesTo, Fits, Side
  <2>2. tree.root # NULL => Fits(d, key[n], key[q])
    BY <1>5, <1>7, <2>1
  <2>3. \A a \in inside : \A s \in Side :
            q \in Under(tree.kid, tree.kid[a][s]) => Fits(s, key[n], key[a])
    <3>1. CASE tree.root = NULL
      BY <1>10, <3>1
    <3>2. CASE tree.root # NULL
      BY <1>7, <2>1, <3>2
    <3> QED
      BY <3>1, <3>2
  <2> QED
    BY <1>1, <1>3, <1>11, <1>12, <2>2, <2>3, HangOrdered
<1>15. Sound(tree', tree'.root, inside', {key'})
  <2>1. tree'.root \in Pointer
    BY <1>9, Fields
  <2> QED
    BY <1>1, <1>3, <1>9, <1>13, <1>14, <2>1 DEF Sound
<1>16. pc' \in {"out", "insert"} /\ x' \in {NULL, n}
  BY <1>1, <1>3
<1>17. TypeOK'
  <2>1. n \in Pointer /\ NULL \in Pointer
    BY Fields
  <2> QED
    BY <1>1, <1>9, <1>16, <2>1 DEF IInv, TypeOK, Trees
<1>18. TreeInv' /\ InLoop' /\ OnWay'
  BY <1>15, <1>16, RestNext
<1>19. Clean'
  <2>1. ASSUME NEW e \in Node, e \notin inside'
        PROVE  tree'.kid[e] = NoKids /\ tree'.up[e] = NULL
    <3>1. e # n /\ e \notin inside /\ e # NULL
      BY <1>1, <2>1, NullIsNoNode
    <3>2. tree.kid[e] = NoKids /\ tree.up[e] = NULL
      BY <1>1, <3>1 DEF IInv, Clean
    <3>3. \A s \in Side : tree'.kid[e][s] = tree.kid[e][s]
      BY <1>7, <1>9, <3>1
    <3>4. tree'.kid[e] \in [Side -> Pointer] /\ tree.kid[e] \in [Side -> Pointer]
      BY <1>3, <1>9 DEF Trees
    <3>5. tree'.kid[e] = tree.kid[e]
      BY <3>3, <3>4
    <3> QED
      BY <1>9, <3>1, <3>2, <3>5
  <2> QED
    BY <2>1 DEF Clean
<1>20. Loops'
  <2>1. CASE kind = "bst"
    BY <1>1, <2>1 DEF Loops, Removing
  <2>2. CASE kind = "rbt"
    <3>1. pc' = "insert" /\ x' = n /\ tree'.red[n]
      BY <1>1, <1>9, <2>2
    <3>2. tree.root # NULL => tree.root \in inside /\ tree.root # n /\ ~Red(tree, tree.root)
      BY <1>1, <1>12, <2>2 DEF Shape, IInv, RootRule
    <3>3. tree'.root = n \/ ~Red(tree', tree'.root)
      BY <1>3, <1>9, <3>2 DEF Red
    <3> QED
      BY <1>1, <2>2, <3>1, <3>3 DEF Loops, Removing
  <2> QED
    BY <1>3, <2>1, <2>2
<1>21. RootRule'
  BY <1>1, <1>3 DEF RootRule
<1> QED
  BY <1>17, <1>18, <1>19, <1>20, <1>21 DEF IInv
-----------------------------------------------------------------------------
\* The parent of a node of the tree holds it on one side.
LEMMA HeldIs ==
    ASSUME NEW t \in Trees, NEW r, NEW P, Shape(t.up, t.kid, r, P), NEW n \in P
    PROVE  Holds(t, t.up[n], n)
<1>1. ASSUME t.up[n] # NULL
      PROVE  \E d \in Side : t.kid[t.up[n]][d] = n /\ t.kid[t.up[n]][Other(d)] # n
  <2>1. n # r
    BY <1>1 DEF Shape
  <2>2. t.up[n] \in P /\ n # NULL
    BY <2>1, NullIsNoNode DEF Shape
  <2>3. PICK d \in Side : t.kid[t.up[n]][d] = n
    BY <2>1 DEF Shape
  <2>4. t.kid[t.up[n]][Other(d)] # n
    BY <2>2, <2>3 DEF Shape
  <2> QED
    BY <2>3, <2>4
<1> QED
  BY <1>1 DEF Holds

\* Another node at the place of n, and n cleared.
Swapped(t, r, P, n, m, t2) ==
    /\ t2 \in Trees
    /\ Replaces(t.up, t.kid, r, P, n, m, t2.up, t2.kid, IF n = r THEN m ELSE r)
    /\ Shape(t2.up, t2.kid, IF n = r THEN m ELSE r, (P \ {n}) \cup {m})
    /\ t2.kid[n] = NoKids /\ t2.up[n] = NULL
    /\ \A e \in Node : e \notin P /\ e # m => t2.kid[e] = t.kid[e] /\ t2.up[e] = t.up[e]
    /\ \A e \in P : e # n => t2.red[e] = t.red[e]
    /\ t2.red[m] = t.red[n]

LEMMA SwapIs ==
    ASSUME NEW t \in Trees, NEW r, NEW P, Shape(t.up, t.kid, r, P), NEW n \in P,
           NEW m \in Node, m \notin P,
           NEW s \in Trees, s.up = Succeeds(t, n, m).up, s.kid = Succeeds(t, n, m).kid,
           s.red = Succeeds(t, n, m).red,
           NEW t2, t2 = Cleared(s, n)
    PROVE  Swapped(t, r, P, n, m, t2)
<1>1. P \in SUBSET Node /\ n \in Node /\ m # n /\ NULL \notin P
  BY NullIsNoNode DEF Shape
<1>2. IsPutIn(t, n, m, Succeeds(t, n, m))
  BY <1>1, HeldIs, SucceedsIs
<1>3. /\ \A e \in Node : /\ s.up[e] = IF e = m THEN t.up[n]
                                      ELSE IF \E d \in Side : e = t.kid[n][d] THEN m ELSE t.up[e]
                         /\ s.red[e] = IF e = m THEN t.red[n] ELSE t.red[e]
      /\ \A e \in Node : \A d \in Side :
          s.kid[e][d] = IF e = m THEN t.kid[n][d]
                        ELSE IF e = t.up[n] /\ t.kid[e][d] = n THEN m ELSE t.kid[e][d]
  BY <1>2 DEF IsPutIn
<1>4. IsCleared(s, n, t2)
  BY <1>1, ClearedIs
<1>5. /\ t2 \in Trees
      /\ \A e \in Node : /\ t2.up[e] = IF e = n THEN NULL ELSE s.up[e]
                         /\ t2.kid[e] = IF e = n THEN NoKids ELSE s.kid[e]
                         /\ t2.red[e] = IF e = n THEN FALSE ELSE s.red[e]
  BY <1>4 DEF IsCleared
<1>6. t.kid \in KIDS /\ t2.kid \in KIDS /\ s.kid \in KIDS
  BY <1>5, Fields
<1>7. \A d \in Side : t.kid[n][d] # NULL => t.kid[n][d] \in P
  BY DEF Shape
<1>8. t.up[n] = NULL \/ t.up[n] \in P
  BY DEF Shape
<1>9. Replaces(t.up, t.kid, r, P, n, m, t2.up, t2.kid, IF n = r THEN m ELSE r)
  <2>1. t2.up[m] = t.up[n] /\ t2.kid[m] = s.kid[m]
    BY <1>1, <1>3, <1>5
  <2>2. \A d \in Side : t2.kid[m][d] = t.kid[n][d]
    BY <1>3, <2>1
  <2>3. ASSUME NEW e \in P, e # n
        PROVE  /\ t2.up[e] = IF \E d \in Side : e = t.kid[n][d] THEN m ELSE t.up[e]
               /\ \A d \in Side :
                    t2.kid[e][d] = IF e = t.up[n] /\ t.kid[e][d] = n THEN m ELSE t.kid[e][d]
    <3>1. e \in Node /\ e # m
      BY <1>1, <2>3
    <3>2. t2.up[e] = s.up[e] /\ t2.kid[e] = s.kid[e]
      BY <1>5, <2>3, <3>1
    <3> QED
      BY <1>3, <3>1, <3>2
  <2> QED
    BY <1>6, <2>1, <2>2, <2>3 DEF Replaces
<1>10. Shape(t2.up, t2.kid, IF n = r THEN m ELSE r, (P \ {n}) \cup {m})
  BY <1>6, <1>9, ReplaceShape
<1>11. ASSUME NEW e \in Node, e \notin P, e # m
       PROVE  t2.kid[e] = t.kid[e] /\ t2.up[e] = t.up[e]
  <2>1. e # n /\ t.up[n] # e /\ ~(\E d \in Side : e = t.kid[n][d]) /\ e # NULL
    BY <1>7, <1>8, <1>11, NullIsNoNode
  <2>2. t2.up[e] = t.up[e] /\ \A d \in Side : t2.kid[e][d] = t.kid[e][d]
    <3>1. t2.up[e] = s.up[e] /\ t2.kid[e] = s.kid[e]
      BY <1>5, <2>1
    <3>2. s.up[e] = t.up[e]
      BY <1>3, <1>11, <2>1
    <3>3. \A d \in Side : s.kid[e][d] = t.kid[e][d]
      BY <1>3, <1>11, <2>1
    <3> QED
      BY <3>1, <3>2, <3>3
  <2>3. t2.kid[e] \in [Side -> Pointer] /\ t.kid[e] \in [Side -> Pointer]
    BY <1>6 DEF KIDS
  <2>4. t2.kid[e] = t.kid[e]
    BY <2>2, <2>3
  <2> QED
    BY <2>2, <2>4
<1>12. \A e \in P : e # n => t2.red[e] = t.red[e]
  BY <1>1, <1>3, <1>5
<1>13. t2.red[m] = t.red[n]
  BY <1>1, <1>3, <1>5
<1> QED
  BY <1>1, <1>5, <1>9, <1>10, <1>11, <1>12, <1>13 DEF Swapped
-----------------------------------------------------------------------------
LEMMA RemoveDoneInv ==
    ASSUME IInv, RemoveDone
    PROVE  IInv'
<1>1. /\ kind' = kind /\ key' = key /\ inside' = inside /\ pc = "remove" /\ pc' = "replace"
      /\ x' = x /\ y' = y /\ c' = c /\ p' = p /\ seen' = seen /\ tree' = Colour(tree, {c}, FALSE)
  BY DEF RemoveDone
<1>2. Sound(tree, Top, Present, Keys)
  BY <1>1 DEF IInv, TreeInv
<1>3. Sound(tree', Top, Present, Keys) /\ IsColoured(tree, {c}, FALSE, tree')
  BY <1>1, <1>2, ColourSound
<1>4. /\ tree' \in Trees /\ tree'.kid = tree.kid /\ tree'.up = tree.up /\ tree'.root = tree.root
      /\ \A e \in Node : tree'.red[e] = IF e \in {c} THEN FALSE ELSE tree.red[e]
  BY <1>3 DEF IsColoured
<1>5. Removing /\ Removing'
  BY <1>1 DEF Removing
<1>6. Top' = Top /\ Present' = Present /\ Keys' = Keys
  BY <1>1, <1>4, <1>5 DEF Top, Present, Keys
<1>7. TypeOK'
  BY <1>1, <1>4 DEF IInv, TypeOK, Trees
<1>8. TreeInv'
  BY <1>3, <1>6 DEF TreeInv
<1>9. Clean'
  BY <1>1, <1>4 DEF IInv, Clean
<1>10. Loops'
  BY <1>1, <1>4, <1>5 DEF IInv, Loops
<1>11. InLoop' /\ OnWay'
  BY <1>1 DEF InLoop, OnWay
<1>12. RootRule'
  <2>1. Top \in Pointer
    BY <1>2 DEF Sound
  <2> QED
    BY <1>1, <1>4, <1>6, <2>1, Fields DEF IInv, RootRule, Red
<1> QED
  BY <1>7, <1>8, <1>9, <1>10, <1>11, <1>12 DEF IInv

LEMMA ReplaceInv ==
    ASSUME IInv, Replace
    PROVE  IInv'
<1>1. /\ kind' = kind /\ key' = key /\ inside' = inside /\ pc = "replace" /\ pc' = "out"
      /\ x' = NULL /\ y' = NULL /\ c' = NULL /\ p' = NULL /\ seen' = seen
      /\ tree' = Cleared(IF x = y THEN tree ELSE Succeeds(tree, x, y), x)
  BY DEF Replace, Return
<1>2. Sound(tree, Top, Present, Keys) /\ Removing
  BY <1>1 DEF IInv, TreeInv, Removing
<1>3. tree \in Trees /\ Top \in Pointer /\ Shape(tree.up, tree.kid, Top, Present)
  BY <1>2 DEF Sound
<1>4. x \in Node /\ x \notin inside /\ y \in Node /\ (x # y => y \in inside /\ tree.root # x)
  BY <1>2 DEF IInv, Loops
<1>5. inside \in SUBSET Node /\ key \in [Node -> Int] /\ NULL \notin Node
  BY TypeIs, NullIsNoNode DEF IInv
<1>6. \A e \in Node : e \notin inside /\ e # x => tree.kid[e] = NoKids /\ tree.up[e] = NULL
  BY <1>1 DEF IInv, Clean
<1>7. kind = "rbt" => ~Red(tree, Top)
  BY <1>1 DEF IInv, RootRule
<1>8. /\ tree' \in Trees /\ Sound(tree', tree'.root, inside, {key})
      /\ \A e \in Node : e \notin inside => tree'.kid[e] = NoKids /\ tree'.up[e] = NULL
      /\ kind = "rbt" => ~Red(tree', tree'.root)
  <2>1. CASE x = y
    <3>1. Top = tree.root /\ Present = inside /\ Keys = {key}
      BY <2>1 DEF Top, Present, Keys
    <3>2. IsCleared(tree, x, tree')
      BY <1>1, <1>3, <1>4, <2>1, ClearedIs
    <3>3. /\ tree' \in Trees /\ tree'.root = tree.root
          /\ \A e \in Node : /\ tree'.up[e] = IF e = x THEN NULL ELSE tree.up[e]
                             /\ tree'.kid[e] = IF e = x THEN NoKids ELSE tree.kid[e]
                             /\ tree'.red[e] = IF e = x THEN FALSE ELSE tree.red[e]
      BY <3>2 DEF IsCleared
    <3>4. tree.kid \in KIDS /\ tree'.kid \in KIDS
      BY <1>3, <3>3, Fields
    <3>5. Same(tree.up, tree.kid, inside, tree'.up, tree'.kid)
      BY <1>4, <1>5, <3>3, <3>4 DEF Same
    <3>6. Shape(tree.up, tree.kid, tree.root, inside)
      BY <1>3, <3>1
    <3>7. /\ Shape(tree'.up, tree'.kid, tree.root, inside)
          /\ \A k : Ordered(tree.kid, inside, k) => Ordered(tree'.kid, inside, k)
      BY <3>4, <3>5, <3>6, SameShape
    <3>8. Sound(tree', tree'.root, inside, {key})
      BY <1>2, <3>1, <3>3, <3>7 DEF Sound
    <3>9. kind = "rbt" => ~Red(tree', tree'.root)
      <4>1. tree.root \in Pointer
        BY <1>3, Fields
      <4> QED
        BY <1>7, <3>1, <3>3, <4>1 DEF Red, Pointer
    <3> QED
      BY <1>6, <3>3, <3>8, <3>9
  <2>2. CASE x # y
    <3>1. Present = (inside \cup {x}) \ {y} /\ Keys = {key, [key EXCEPT ![x] = key[y]]}
      BY <1>2, <2>2 DEF Present, Keys
    <3>2. x \in Present /\ y \notin Present /\ (Present \ {x}) \cup {y} = inside
      BY <1>4, <2>2, <3>1
    <3>3. tree' = Cleared(Succeeds(tree, x, y), x)
      BY <1>1, <2>2
    <3>4. Holds(tree, tree.up[x], x)
      BY <1>3, <3>2, HeldIs
    <3>5. PICK s : s = Succeeds(tree, x, y)
      OBVIOUS
    <3>6. s \in Trees /\ s.root = tree.root
      <4>1. IsPutIn(tree, x, y, s)
        BY <1>3, <1>4, <3>4, <3>5, SucceedsIs
      <4> QED
        BY <4>1 DEF IsPutIn
    <3>7. PICK P : P = Present
      OBVIOUS
    <3>8. PICK r \in Pointer : r = Top
      BY <1>3
    <3>9. Swapped(tree, r, P, x, y, tree')
      <4>1. Shape(tree.up, tree.kid, r, P) /\ x \in P /\ y \notin P /\ tree' = Cleared(s, x)
        BY <1>3, <3>2, <3>3, <3>5, <3>7, <3>8
      <4>2. s.up = Succeeds(tree, x, y).up /\ s.kid = Succeeds(tree, x, y).kid
            /\ s.red = Succeeds(tree, x, y).red
        BY <3>5
      <4> QED
        BY <1>3, <1>4, <3>6, <4>1, <4>2, SwapIs
    <3>10. tree'.root = tree.root
      <4>1. IsCleared(s, x, tree')
        BY <1>4, <3>3, <3>5, <3>6, ClearedIs
      <4> QED
        BY <3>6, <4>1 DEF IsCleared
    <3>11. tree.root = IF x = r THEN y ELSE r
      BY <1>2, <1>4, <2>2, <3>8 DEF Top
    <3>12. PICK k : k = [key EXCEPT ![x] = key[y]]
      OBVIOUS
    <3>13. Ordered(tree.kid, P, k)
      BY <1>2, <3>1, <3>7, <3>12 DEF Sound
    <3>14. key[y] = k[x] /\ \A e \in P : e # x => key[e] = k[e]
      <4>1. P \in SUBSET Node
        BY <1>4, <1>5, <3>1, <3>7
      <4> QED
        BY <1>4, <1>5, <3>12, <4>1
    <3>15. tree.kid \in KIDS /\ Shape(tree.up, tree.kid, r, P)
      BY <1>3, <3>7, <3>8, Fields
    <3>16. Replaces(tree.up, tree.kid, r, P, x, y, tree'.up, tree'.kid, tree.root)
      BY <3>9, <3>11 DEF Swapped
    <3>17. Ordered(tree'.kid, (P \ {x}) \cup {y}, key)
      BY <3>13, <3>14, <3>15, <3>16, ReplaceOrdered
    <3>18. Sound(tree', tree'.root, inside, {key})
      <4>1. tree' \in Trees /\ Shape(tree'.up, tree'.kid, tree.root, inside)
        BY <3>2, <3>7, <3>9, <3>11 DEF Swapped
      <4>2. tree'.root \in Pointer
        BY <4>1, Fields
      <4> QED
        BY <1>5, <3>2, <3>7, <3>10, <3>17, <4>1, <4>2 DEF Sound
    <3>19. ASSUME NEW e \in Node, e \notin inside
           PROVE  tree'.kid[e] = NoKids /\ tree'.up[e] = NULL
      <4>1. CASE e = x
        BY <3>9, <4>1 DEF Swapped
      <4>2. CASE e # x
        <5>1. e \notin P /\ e # y
          BY <1>4, <2>2, <3>1, <3>7, <3>19, <4>2
        <5> QED
          BY <1>6, <3>9, <3>19, <4>2, <5>1 DEF Swapped
      <4> QED
        BY <4>1, <4>2
    <3>20. ASSUME kind = "rbt" PROVE ~Red(tree', tree'.root)
      <4>1. CASE x = r
        <5>1. tree'.root = y /\ ~tree.red[x]
          BY <1>4, <1>5, <1>7, <3>8, <3>10, <3>11, <3>20, <4>1 DEF Red
        <5> QED
          BY <3>9, <5>1 DEF Swapped, Red
      <4>2. CASE x # r
        <5>1. tree'.root = r /\ (r # NULL => r \in P)
          BY <3>10, <3>11, <3>15, <4>2 DEF Shape
        <5> QED
          BY <1>7, <3>8, <3>9, <3>20, <4>2, <5>1 DEF Swapped, Red
      <4> QED
        BY <4>1, <4>2
    <3> QED
      BY <3>9, <3>18, <3>19, <3>20 DEF Swapped
  <2> QED
    BY <2>1, <2>2
<1>9. TypeOK'
  <2>1. NULL \in Pointer
    BY DEF Pointer
  <2> QED
    BY <1>1, <1>8, <2>1 DEF IInv, TypeOK, Trees
<1>10. TreeInv' /\ InLoop' /\ OnWay'
  BY <1>1, <1>8, RestNext
<1>11. Clean'
  BY <1>1, <1>8 DEF Clean
<1>12. Loops'
  BY <1>1 DEF Loops, Removing
<1>13. RootRule'
  BY <1>1, <1>8 DEF RootRule
<1> QED
  BY <1>9, <1>10, <1>11, <1>12, <1>13 DEF IInv

\* What rbt_replace_node makes of a tree with top r.
LEMMA ReplaceNodeIs ==
    ASSUME IInv, NEW n \in Node, NEW m \in Node, ReplaceNode(n, m), NEW r, r = tree.root
    PROVE  Swapped(tree, r, inside, n, m, tree') /\ tree'.root = IF n = r THEN m ELSE r
<1>1. /\ kind' = kind /\ key' = key /\ inside' = (inside \ {n}) \cup {m} /\ pc = "out" /\ pc' = "out"
      /\ x' = x /\ y' = y /\ c' = c /\ p' = p /\ seen' = seen
      /\ n \in inside /\ m \notin inside /\ key[m] = key[n]
  BY DEF ReplaceNode
<1>2. PICK t : t = Succeeds(tree, n, m)
  OBVIOUS
<1>3. PICK s : s = IF t.root = n THEN [t EXCEPT !.root = m] ELSE t
  OBVIOUS
<1>4. tree' = Cleared(s, n)
  BY <1>2, <1>3 DEF ReplaceNode
<1>5. Sound(tree, tree.root, inside, {key})
  BY <1>1, AtRest
<1>6. r \in Pointer /\ r = tree.root
  BY <1>5 DEF Sound
<1>7. tree \in Trees /\ Shape(tree.up, tree.kid, r, inside) /\ inside \in SUBSET Node
      /\ NULL \notin Node /\ key \in [Node -> Int] /\ Ordered(tree.kid, inside, key)
  BY <1>5, <1>6, NullIsNoNode DEF Sound, Shape
<1>8. t \in Trees /\ t.root = r
  <2>1. IsPutIn(tree, n, m, t)
    BY <1>1, <1>2, <1>7, HeldIs, SucceedsIs
  <2> QED
    BY <1>6, <2>1 DEF IsPutIn
<1>9. /\ s \in Trees /\ s.up = t.up /\ s.kid = t.kid /\ s.red = t.red
      /\ s.root = IF n = r THEN m ELSE r
  <2>1. m \in Pointer
    BY DEF Pointer
  <2> QED
    BY <1>3, <1>8, <2>1 DEF Trees
<1>10. Swapped(tree, r, inside, n, m, tree')
  <2>1. s.up = Succeeds(tree, n, m).up /\ s.kid = Succeeds(tree, n, m).kid
        /\ s.red = Succeeds(tree, n, m).red
    BY <1>2, <1>9
  <2> QED
    BY <1>1, <1>4, <1>7, <1>9, <2>1, SwapIs
<1>11. tree'.root = IF n = r THEN m ELSE r
  <2>1. IsCleared(s, n, tree')
    BY <1>4, <1>9, ClearedIs
  <2> QED
    BY <1>9, <2>1 DEF IsCleared
<1> QED
  BY <1>10, <1>11

LEMMA ReplaceNodeInv ==
    ASSUME IInv, NEW n \in Node, NEW m \in Node, ReplaceNode(n, m)
    PROVE  IInv'
<1>1. /\ kind' = kind /\ key' = key /\ inside' = (inside \ {n}) \cup {m} /\ pc = "out" /\ pc' = "out"
      /\ x' = x /\ y' = y /\ c' = c /\ p' = p /\ seen' = seen
      /\ n \in inside /\ m \notin inside /\ key[m] = key[n]
  BY DEF ReplaceNode
<1>2. Sound(tree, tree.root, inside, {key}) /\ x = NULL
  BY <1>1, AtRest DEF IInv, Loops
<1>3. PICK r \in Pointer : r = tree.root
  BY <1>2 DEF Sound
<1>4. tree \in Trees /\ Shape(tree.up, tree.kid, r, inside) /\ inside \in SUBSET Node
      /\ NULL \notin Node /\ key \in [Node -> Int] /\ Ordered(tree.kid, inside, key)
  BY <1>2, <1>3, NullIsNoNode DEF Sound, Shape
<1>5. Swapped(tree, r, inside, n, m, tree') /\ tree'.root = IF n = r THEN m ELSE r
  BY <1>3, ReplaceNodeIs
<1>6. tree' \in Trees /\ tree'.root \in Pointer
  BY <1>5, Fields DEF Swapped
<1>7. Sound(tree', tree'.root, inside', {key})
  <2>1. tree.kid \in KIDS
    BY <1>4, Fields
  <2>2. Replaces(tree.up, tree.kid, r, inside, n, m, tree'.up, tree'.kid, tree'.root)
    BY <1>5 DEF Swapped
  <2>3. Ordered(tree'.kid, (inside \ {n}) \cup {m}, key)
    BY <1>1, <1>4, <2>1, <2>2, ReplaceOrdered
  <2>4. Shape(tree'.up, tree'.kid, tree'.root, (inside \ {n}) \cup {m})
    BY <1>5 DEF Swapped
  <2> QED
    BY <1>1, <1>4, <1>6, <2>3, <2>4 DEF Sound
<1>8. TypeOK'
  BY <1>1, <1>6 DEF IInv, TypeOK, Trees
<1>9. TreeInv' /\ InLoop' /\ OnWay'
  BY <1>1, <1>7, RestNext
<1>10. Clean'
  <2>1. ASSUME NEW e \in Node, e \notin inside'
        PROVE  tree'.kid[e] = NoKids /\ tree'.up[e] = NULL
    <3>1. CASE e = n
      BY <1>5, <3>1 DEF Swapped
    <3>2. CASE e # n
      <4>1. e \notin inside /\ e # m /\ e # x
        BY <1>1, <1>2, <1>4, <2>1, <3>2
      <4>2. tree.kid[e] = NoKids /\ tree.up[e] = NULL
        BY <1>1, <4>1 DEF IInv, Clean
      <4> QED
        BY <1>5, <4>1, <4>2 DEF Swapped
    <3> QED
      BY <3>1, <3>2
  <2> QED
    BY <2>1 DEF Clean
<1>11. Loops'
  BY <1>1, <1>2 DEF Loops, Removing
<1>12. RootRule'
  <2>1. ASSUME kind = "rbt" PROVE ~Red(tree', tree'.root)
    <3>1. ~Red(tree, r)
      BY <1>1, <1>3, <2>1 DEF IInv, RootRule
    <3>2. CASE n = r
      BY <1>1, <1>4, <1>5, <3>1, <3>2 DEF Swapped, Red
    <3>3. CASE n # r
      <4>1. r # NULL => r \in inside
        BY <1>4 DEF Shape
      <4> QED
        BY <1>5, <3>1, <3>3, <4>1 DEF Swapped, Red
    <3> QED
      BY <3>2, <3>3
  <2> QED
    BY <1>1, <2>1 DEF RootRule
<1> QED
  BY <1>8, <1>9, <1>10, <1>11, <1>12 DEF IInv
-----------------------------------------------------------------------------
\* A tree in the middle of a turn of rbt_remove_node's loop; r is its top and
\* c is on side d of p.
Going(t, r, d) ==
    /\ Sound(t, r, Present, Keys) /\ Untouched(tree, t, Present)
    /\ p \in Present /\ d \in Side /\ t.kid[p][d] = c
    /\ r = IF x # y /\ t.root = y THEN x ELSE t.root
    /\ x # y => /\ t.root # x /\ x \in Present /\ y \notin Present
                /\ p \in Under(t.kid, x) \/ (c # NULL /\ x \in Under(t.kid, c))

LEMMA GoingNow ==
    ASSUME IInv, pc = "remove", Missing,
           NEW d, d = IF tree.kid[p]["left"] = c THEN "left" ELSE "right"
    PROVE  Going(tree, Top, d) /\ ~Red(tree, Top)
<1>1. Sound(tree, Top, Present, Keys) /\ Removing
  BY DEF IInv, TreeInv, Removing
<1>2. Untouched(tree, tree, Present)
  BY DEF Untouched
<1>3. p \in Present /\ \E s \in Side : tree.kid[p][s] = c
  BY DEF IInv, InLoop, Missing
<1>4. d \in Side /\ tree.kid[p][d] = c
  BY <1>3 DEF Side
<1>5. Top = IF x # y /\ tree.root = y THEN x ELSE tree.root
  BY <1>1 DEF Top
<1>6. x # y => tree.root # x /\ x \in Present /\ y \notin Present
  BY <1>1 DEF IInv, Loops, Present
<1>7. x # y => p \in Under(tree.kid, x) \/ (c # NULL /\ x \in Under(tree.kid, c))
  BY DEF IInv, OnWay
<1>8. ~Red(tree, Top)
  <2>1. Shape(tree.up, tree.kid, Top, Present) /\ p # NULL
    BY <1>1, <1>3, NullIsNoNode DEF Sound, Shape
  <2>2. c # NULL => tree.up[c] = p
    BY <1>3, <1>4, <2>1 DEF Shape
  <2>3. Top # NULL /\ tree.up[Top] = NULL
    BY <1>3, <2>1 DEF Shape
  <2>4. c # Top
    BY <2>1, <2>2, <2>3
  <2>5. kind = "rbt"
    BY DEF IInv, Loops
  <2> QED
    BY <2>4, <2>5 DEF IInv, RootRule
<1> QED
  BY <1>1, <1>2, <1>3, <1>4, <1>5, <1>6, <1>7, <1>8 DEF Going

LEMMA GoingColour ==
    ASSUME NEW t, NEW r, NEW d, Going(t, r, d), NEW S, NEW b \in BOOLEAN
    PROVE  Going(Colour(t, S, b), r, d) /\ IsColoured(t, S, b, Colour(t, S, b))
<1>1. PICK t2 : t2 = Colour(t, S, b)
  OBVIOUS
<1>2. Sound(t, r, Present, Keys)
  BY DEF Going
<1>3. Sound(t2, r, Present, Keys) /\ IsColoured(t, S, b, t2)
  BY <1>1, <1>2, ColourSound
<1>4. t2.kid = t.kid /\ t2.up = t.up /\ t2.root = t.root
  BY <1>3 DEF IsColoured
<1>5. Going(t2, r, d)
  BY <1>3, <1>4 DEF Going, Untouched
<1> QED
  BY <1>1, <1>3, <1>5

\* The sibling of c is neither x, which is on the way from c, nor the top.
LEMMA SiblingIs ==
    ASSUME NEW t, NEW r, NEW d, Going(t, r, d), t.kid[p][Other(d)] # NULL
    PROVE  /\ t.kid[p][Other(d)] \in Present /\ t.up[t.kid[p][Other(d)]] = p
           /\ t.kid[p][Other(d)] # c /\ t.kid[p][Other(d)] # p /\ t.kid[p][Other(d)] # r
           /\ x # y => t.kid[p][Other(d)] # x
           /\ c # p
<1>1. PICK w : w = t.kid[p][Other(d)]
  OBVIOUS
<1>2. PICK P : P = Present
  OBVIOUS
<1>3. PICK up \in UPS : up = t.up
  BY Fields DEF Going, Sound
<1>4. PICK kid \in KIDS : kid = t.kid
  BY Fields DEF Going, Sound
<1>5. Shape(up, kid, r, P) /\ p \in P /\ d \in Side /\ kid[p][d] = c /\ w = kid[p][Other(d)]
  BY <1>1, <1>2, <1>3, <1>4 DEF Going, Sound
<1>6. Other(d) \in Side /\ P \in SUBSET Node /\ p # NULL /\ w # NULL
  BY <1>1, <1>5, Sides, NullIsNoNode DEF Shape
<1>7. w \in P /\ up[w] = p /\ w # c
  <2>1. Other(Other(d)) = d
    BY <1>5, Sides
  <2> QED
    BY <1>5, <1>6, <2>1 DEF Shape
<1>8. w # r
  BY <1>5, <1>6, <1>7 DEF Shape
<1>9. w # p
  BY <1>5, <1>7, Chain
<1>10. c # p
  <2>1. c # NULL => c \in P /\ up[c] = p
    BY <1>5 DEF Shape
  <2>2. c # NULL => c # p
    BY <1>5, <2>1, Chain
  <2> QED
    BY <1>6, <2>2
<1>11. ASSUME x # y PROVE w # x
  <2>1. CASE p \in Under(kid, x)
    <3>1. p \notin Under(kid, w)
      BY <1>5, <1>6, NotUnderKid
    <3> QED
      BY <2>1, <3>1
  <2>2. CASE c # NULL /\ x \in Under(kid, c)
    <3>1. c \in P /\ p \notin Under(kid, c)
      <4>1. p \notin Under(kid, kid[p][d])
        BY <1>5, <2>2, NotUnderKid
      <4>2. c \in P
        BY <1>5, <2>2 DEF Shape
      <4> QED
        BY <1>5, <4>1, <4>2
    <3>2. ASSUME w \in Under(kid, c) PROVE FALSE
      <4>1. up[w] \in Under(kid, c)
        BY <1>5, <1>7, <3>1, <3>2, UpUnder
      <4> QED
        BY <1>7, <3>1, <4>1
    <3> QED
      BY <2>2, <3>2
  <2> QED
    BY <1>4, <1>11, <2>1, <2>2 DEF Going
<1> QED
  BY <1>1, <1>2, <1>3, <1>7, <1>8, <1>9, <1>10, <1>11

\* The loop rotates p, or the sibling of c.
LEMMA GoingTurn ==
    ASSUME NEW t, NEW r, NEW d, Going(t, r, d), NEW w, w = t.kid[p][Other(d)], w # NULL,
           NEW n, NEW b, (n = p /\ b = d) \/ (n = w /\ b = Other(d)),
           NEW m, m = t.kid[n][Other(b)], m # NULL,
           NEW t2, t2 = Rotate(t, n, b)
    PROVE  /\ Going(t2, IF n = r THEN m ELSE r, d) /\ t2.red = t.red
<1>1. PICK P : P = Present
  OBVIOUS
<1>2. PICK K : K = Keys
  OBVIOUS
<1>3. Sound(t, r, P, K) /\ Untouched(tree, t, P) /\ p \in P /\ d \in Side /\ t.kid[p][d] = c
      /\ r = IF x # y /\ t.root = y THEN x ELSE t.root
  BY <1>1, <1>2 DEF Going
<1>4. /\ w \in P /\ t.up[w] = p /\ w # c /\ w # p /\ w # r
      /\ x # y => w # x
      /\ c # p
  BY <1>1, SiblingIs
<1>5. /\ Other(d) \in Side /\ Other(Other(d)) = d /\ Other(d) # d
  BY <1>3, Sides
<1>6. n \in P /\ b \in Side
  BY <1>3, <1>4, <1>5
<1>7. PICK r2 : Rotation(t, r, P, K, n, m, b, t2, r2)
  <2>1. \E r2 : Rotation(t, r, P, K, n, t.kid[n][Other(b)], b, Rotate(t, n, b), r2)
    BY <1>3, <1>6, RotationIs
  <2> QED
    BY <2>1
<1>8. Shape(t.up, t.kid, r, P) /\ t.kid \in KIDS /\ P \in SUBSET Node /\ NULL \notin P
  BY <1>3, Fields, NullIsNoNode DEF Sound, Shape
<1>9. t.up[n] = NULL <=> n = r
  <2>1. r \in P /\ t.up[r] = NULL
    BY <1>3, <1>8 DEF Shape
  <2>2. n # r => t.up[n] \in P
    BY <1>6, <1>8 DEF Shape
  <2> QED
    BY <1>8, <2>1, <2>2
<1>10. /\ Sound(t2, r2, P, K) /\ Untouched(t, t2, P) /\ t2.red = t.red
       /\ m \in P /\ m # n /\ t.up[m] = n
       /\ r2 = IF n = r THEN m ELSE r
       /\ t2.root = IF n = r THEN m ELSE t.root
       /\ \A a \in P : a # n => Under(t.kid, a) \subseteq Under(t2.kid, a)
       /\ \A e \in P : \A s \in Side :
            t2.kid[e][s] = IF e = n /\ s = Other(b) THEN t.kid[m][b] ELSE IF e = m /\ s = b THEN n
                           ELSE IF e = t.up[n] /\ t.kid[e][s] = n THEN m ELSE t.kid[e][s]
  BY <1>7, <1>9 DEF Rotation
<1>11. Untouched(tree, t2, P)
  BY <1>3, <1>10 DEF Untouched
<1>12. t2.kid[p][d] = c
  <2>1. CASE n = p /\ b = d
    <3>1. p # m /\ p # t.up[p]
      <4>1. t.up[p] # p
        <5>1. t.up[p] = NULL \/ t.up[p] \in P
          BY <1>3, <1>8 DEF Shape
        <5> QED
          BY <1>3, <1>8, <5>1, Chain
      <4> QED
        BY <1>10, <2>1, <4>1
    <3> QED
      BY <1>3, <1>5, <1>10, <2>1, <3>1
  <2>2. CASE n = w /\ b = Other(d)
    <3>1. p # m
      <4>1. m \in P /\ t.up[m] \in P /\ t.up[t.up[m]] = p
        BY <1>4, <1>10, <2>2
      <4> QED
        BY <1>8, <4>1, Chain
    <3> QED
      BY <1>3, <1>4, <1>5, <1>10, <2>2, <3>1
  <2> QED
    BY <2>1, <2>2
<1>13. ASSUME x # y
       PROVE  /\ t2.root # x /\ x \in P /\ y \notin P /\ m # y
              /\ p \in Under(t2.kid, x) \/ (c # NULL /\ x \in Under(t2.kid, c))
  <2>1. /\ t.root # x /\ x \in P /\ y \notin P
        /\ p \in Under(t.kid, x) \/ (c # NULL /\ x \in Under(t.kid, c))
    BY <1>1, <1>13 DEF Going
  <2>2. n = r => m # x
    BY <1>4, <1>13
  <2>3. t2.root # x
    BY <1>10, <2>1, <2>2
  <2>4. p \in Under(t2.kid, x) \/ (c # NULL /\ x \in Under(t2.kid, c))
    <3>1. CASE p \in Under(t.kid, x) /\ x # n
      BY <1>10, <2>1, <3>1
    <3>2. CASE x = n
      <4>1. x = p
        BY <1>4, <1>13, <3>2
      <4>2. p \in Pointer /\ p # NULL /\ t2.kid \in KIDS
        BY <1>3, <1>8, <1>10, Fields DEF Sound
      <4>3. p \in Under(t2.kid, p)
        BY <4>2, UnderIs DEF KIDS
      <4> QED
        BY <4>1, <4>3
    <3>3. CASE c # NULL /\ x \in Under(t.kid, c)
      <4>1. c \in P /\ c # n
        BY <1>3, <1>4, <1>8, <3>3 DEF Shape
      <4> QED
        BY <1>10, <3>3, <4>1
    <3> QED
      BY <2>1, <3>1, <3>2, <3>3
  <2> QED
    BY <1>10, <2>1, <2>3, <2>4
<1>14. r2 = IF x # y /\ t2.root = y THEN x ELSE t2.root
  BY <1>3, <1>9, <1>10, <1>13
<1>15. Going(t2, r2, d)
  BY <1>1, <1>2, <1>3, <1>10, <1>11, <1>12, <1>13, <1>14 DEF Going
<1> QED
  BY <1>10, <1>15
-----------------------------------------------------------------------------
\* A turn of the loop that ends in t.
LEMMA LoopNext ==
    ASSUME IInv, pc = "remove", UNCHANGED <<kind, key, inside, pc, x, y, seen>>,
           NEW t, NEW r, NEW d, Going(t, r, d), ~Red(t, r), tree' = t,
           c' \in Pointer, p' \in Pointer,
           c' # t.root /\ p' # NULL => p' \in Present /\ \E s \in Side : t.kid[p'][s] = c',
           x # y /\ c' # t.root => p' \in Under(t.kid, x) \/ (c' # NULL /\ x \in Under(t.kid, c'))
    PROVE  IInv'
<1>1. /\ kind' = kind /\ key' = key /\ inside' = inside /\ pc' = "remove"
      /\ x' = x /\ y' = y /\ seen' = seen
  OBVIOUS
<1>2. Removing /\ Removing'
  BY <1>1 DEF Removing
<1>3. /\ Sound(t, r, Present, Keys) /\ Untouched(tree, t, Present)
      /\ r = IF x # y /\ t.root = y THEN x ELSE t.root
      /\ x # y => t.root # x
  BY DEF Going
<1>4. Top' = r /\ Present' = Present /\ Keys' = Keys
  BY <1>1, <1>2, <1>3 DEF Top, Present, Keys
<1>5. TypeOK'
  BY <1>1, <1>3 DEF IInv, TypeOK, Sound, Trees
<1>6. TreeInv'
  BY <1>3, <1>4 DEF TreeInv
<1>7. Clean'
  <2>1. ASSUME NEW e \in Node, e \notin inside, e # x
        PROVE  tree'.kid[e] = NoKids /\ tree'.up[e] = NULL
    <3>1. e \notin Present
      BY <2>1 DEF Present
    <3>2. tree.kid[e] = NoKids /\ tree.up[e] = NULL
      BY <2>1 DEF IInv, Clean
    <3> QED
      BY <1>3, <2>1, <3>1, <3>2 DEF Untouched
  <2> QED
    BY <1>1, <2>1 DEF Clean
<1>8. Loops'
  BY <1>1, <1>2, <1>3 DEF IInv, Loops
<1>9. InLoop'
  BY <1>4 DEF InLoop
<1>10. OnWay'
  BY <1>1 DEF OnWay, Missing
<1>11. RootRule'
  BY <1>1, <1>4 DEF RootRule, Red
<1> QED
  BY <1>5, <1>6, <1>7, <1>8, <1>9, <1>10, <1>11 DEF IInv

LEMMA GoingIs ==
    ASSUME NEW t, NEW r, NEW d, Going(t, r, d)
    PROVE  /\ t \in Trees /\ t.kid \in KIDS /\ t.up \in UPS /\ Shape(t.up, t.kid, r, Present)
           /\ d \in Side /\ Other(d) \in Side /\ Other(Other(d)) = d /\ Other(d) # d
           /\ Present \in SUBSET Node /\ NULL \notin Node
           /\ r \in Pointer /\ p \in Present /\ t.kid[p][d] = c /\ c \in Pointer
           /\ \A e \in Present : e \in Node /\ t.up[e] \in Pointer
                                 /\ \A s \in Side : t.kid[e][s] \in Pointer
<1>1. t \in Trees /\ Shape(t.up, t.kid, r, Present) /\ p \in Present /\ t.kid[p][d] = c /\ d \in Side
      /\ r \in Pointer
  BY DEF Going, Sound
<1>2. Other(d) \in Side /\ Other(Other(d)) = d /\ Other(d) # d
  BY <1>1, Sides
<1>3. Present \in SUBSET Node
  BY <1>1 DEF Shape
<1> QED
  BY <1>1, <1>2, <1>3, Fields, NullIsNoNode

\* A red sibling is rotated away.
LEMMA AlignedIs ==
    ASSUME IInv, pc = "remove", Missing,
           NEW d, d = IF tree.kid[p]["left"] = c THEN "left" ELSE "right",
           NEW t, t = Aligned(tree, d)
    PROVE  \E r \in Pointer : Going(t, r, d) /\ ~Red(t, r)
<1>1. PICK r \in Pointer : r = Top
  BY DEF IInv, TypeOK, Top, Trees
<1>2. Going(tree, r, d) /\ ~Red(tree, r)
  BY <1>1, GoingNow
<1>3. PICK w : w = tree.kid[p][Other(d)]
  OBVIOUS
<1>4. CASE ~Red(tree, w)
  <2>1. t = tree
    BY <1>3, <1>4 DEF Aligned
  <2> QED
    BY <1>2, <2>1
<1>5. CASE Red(tree, w)
  <2>1. w # NULL
    BY <1>5 DEF Red
  <2>2. PICK t1 : t1 = Colour(tree, {w}, FALSE)
    OBVIOUS
  <2>3. Going(t1, r, d) /\ IsColoured(tree, {w}, FALSE, t1)
    BY <1>2, <2>2, GoingColour
  <2>4. PICK t2 : t2 = Colour(t1, {p}, TRUE)
    OBVIOUS
  <2>5. Going(t2, r, d) /\ IsColoured(t1, {p}, TRUE, t2)
    BY <2>3, <2>4, GoingColour
  <2>6. t = Rotate(t2, p, d)
    BY <1>3, <1>5, <2>2, <2>4 DEF Aligned
  <2>7. t2.kid = tree.kid /\ t2.kid[p][Other(d)] = w
        /\ \A e \in Node : t2.red[e] = IF e = p THEN TRUE ELSE IF e = w THEN FALSE ELSE tree.red[e]
    BY <1>3, <2>3, <2>5 DEF IsColoured
  <2>8. Going(t, IF p = r THEN w ELSE r, d) /\ t.red = t2.red
    BY <2>1, <2>5, <2>6, <2>7, GoingTurn
  <2>9. w # p /\ w # r /\ w \in Present
    BY <1>2, <1>3, <2>1, SiblingIs
  <2>10. Present \in SUBSET Node /\ p \in Present
    BY <1>2, GoingIs
  <2>11. PICK r2 \in Pointer : r2 = IF p = r THEN w ELSE r
    BY <2>9, <2>10, Fields
  <2>12. ~Red(t, r2)
    <3>1. CASE p = r
      BY <2>7, <2>8, <2>9, <2>10, <2>11, <3>1 DEF Red
    <3>2. CASE p # r
      BY <1>2, <2>7, <2>8, <2>9, <2>10, <2>11, <3>2, Fields DEF Red
    <3> QED
      BY <3>1, <3>2
  <2> QED
    BY <2>8, <2>11, <2>12
<1> QED
  BY <1>4, <1>5

LEMMA RemoveUpInv ==
    ASSUME IInv, pc = "remove", UNCHANGED <<kind, key, inside, pc, x, y, seen>>,
           NEW t, NEW r \in Pointer, NEW d, Going(t, r, d), ~Red(t, r),
           NEW w, w = t.kid[p][Other(d)], w # NULL, RemoveUp(t, d, w)
    PROVE  IInv'
<1>1. tree' = Colour(t, {w}, TRUE) /\ c' = p /\ p' = t.up[p]
  BY DEF RemoveUp
<1>2. PICK t2 : t2 = tree'
  OBVIOUS
<1>3. Going(t2, r, d) /\ IsColoured(t, {w}, TRUE, t2)
  BY <1>1, <1>2, GoingColour
<1>4. /\ t2.kid = t.kid /\ t2.up = t.up /\ t2.root = t.root
      /\ \A e \in Node : t2.red[e] = IF e \in {w} THEN TRUE ELSE t.red[e]
  BY <1>3 DEF IsColoured
<1>5. /\ t.kid \in KIDS /\ t.up \in UPS /\ Shape(t.up, t.kid, r, Present)
      /\ d \in Side /\ Present \in SUBSET Node /\ NULL \notin Node
      /\ p \in Present /\ t.kid[p][d] = c /\ p \in Node /\ t.up[p] \in Pointer
  BY GoingIs
<1>6. ~Red(t2, r)
  <2>1. w # r
    BY SiblingIs
  <2> QED
    BY <1>4, <2>1, Fields DEF Red
<1>7. c' \in Pointer /\ p' \in Pointer
  BY <1>1, <1>5 DEF Pointer
<1>8. p' # NULL => p' \in Present /\ \E s \in Side : t2.kid[p'][s] = c'
  BY <1>1, <1>4, <1>5 DEF Shape
<1>9. ASSUME x # y PROVE p' \in Under(t2.kid, x) \/ (c' # NULL /\ x \in Under(t2.kid, c'))
  <2>1. x \in Present /\ (p \in Under(t.kid, x) \/ (c # NULL /\ x \in Under(t.kid, c)))
    BY <1>9 DEF Going
  <2>2. CASE x = p
    <3>1. p \in Under(t.kid, p)
      BY <1>5, UnderIs DEF KIDS, Pointer
    <3> QED
      BY <1>1, <1>4, <1>5, <2>2, <3>1
  <2>3. CASE x # p /\ p \in Under(t.kid, x)
    <3>1. t.up[p] \in Under(t.kid, x)
      BY <1>5, <2>1, <2>3, UpUnder
    <3> QED
      BY <1>1, <1>4, <3>1
  <2>4. CASE c # NULL /\ x \in Under(t.kid, c)
    <3>1. Under(t.kid, t.kid[p][d]) \subseteq Under(t.kid, p)
      BY <1>5, <2>4, UnderKid
    <3> QED
      BY <1>1, <1>4, <1>5, <2>4, <3>1
  <2> QED
    BY <2>1, <2>2, <2>3, <2>4
<1> QED
  BY <1>2, <1>3, <1>6, <1>7, <1>8, <1>9, LoopNext

LEMMA RemoveTurnInv ==
    ASSUME IInv, pc = "remove", UNCHANGED <<kind, key, inside, pc, x, y, seen>>,
           NEW t, NEW r \in Pointer, NEW d, Going(t, r, d), ~Red(t, r),
           NEW w, w = t.kid[p][Other(d)], w # NULL, RemoveTurn(t, d, w)
    PROVE  IInv'
<1>1. PICK m : m = t.kid[w][d]
  OBVIOUS
<1>2. m # NULL /\ tree' = Rotate(Colour(Colour(t, {m}, FALSE), {w}, TRUE), w, Other(d))
      /\ c' = c /\ p' = p
  BY <1>1 DEF RemoveTurn, Red
<1>3. PICK t1 : t1 = Colour(t, {m}, FALSE)
  OBVIOUS
<1>4. Going(t1, r, d) /\ IsColoured(t, {m}, FALSE, t1)
  BY <1>3, GoingColour
<1>5. PICK t2 : t2 = Colour(t1, {w}, TRUE)
  OBVIOUS
<1>6. Going(t2, r, d) /\ IsColoured(t1, {w}, TRUE, t2)
  BY <1>4, <1>5, GoingColour
<1>7. t2.kid = t.kid
      /\ \A e \in Node : t2.red[e] = IF e = w THEN TRUE ELSE IF e = m THEN FALSE ELSE t.red[e]
  BY <1>4, <1>6 DEF IsColoured
<1>8. PICK t3 : t3 = Rotate(t2, w, Other(d))
  OBVIOUS
<1>9. tree' = t3
  BY <1>2, <1>3, <1>5, <1>8
<1>10. w # r
  BY SiblingIs
<1>11. Going(t3, IF w = r THEN m ELSE r, d) /\ t3.red = t2.red
  <2>1. Other(Other(d)) = d
    BY GoingIs
  <2>2. m = t2.kid[w][Other(Other(d))] /\ w = t2.kid[p][Other(d)]
    BY <1>1, <1>7, <2>1
  <2> QED
    BY <1>2, <1>6, <1>8, <2>2, GoingTurn
<1>12. Going(t3, r, d) /\ ~Red(t3, r)
  BY <1>7, <1>10, <1>11, Fields DEF Red
<1>13. p \in Present /\ t3.kid[p][d] = c /\ d \in Side /\ p \in Node /\ c \in Pointer
       /\ (x # y => p \in Under(t3.kid, x) \/ (c # NULL /\ x \in Under(t3.kid, c)))
  BY <1>12, GoingIs DEF Going
<1>14. c' \in Pointer /\ p' \in Pointer
  BY <1>2, <1>13 DEF Pointer
<1>15. p' \in Present /\ \E s \in Side : t3.kid[p'][s] = c'
  BY <1>2, <1>13
<1>16. x # y => p' \in Under(t3.kid, x) \/ (c' # NULL /\ x \in Under(t3.kid, c'))
  BY <1>2, <1>13
<1> QED
  BY <1>9, <1>12, <1>14, <1>15, <1>16, LoopNext

LEMMA RemoveLastInv ==
    ASSUME IInv, pc = "remove", UNCHANGED <<kind, key, inside, pc, x, y, seen>>,
           NEW t, NEW r \in Pointer, NEW d, Going(t, r, d), ~Red(t, r),
           NEW w, w = t.kid[p][Other(d)], w # NULL, RemoveLast(t, d, w)
    PROVE  IInv'
<1>1. PICK m : m = t.kid[w][Other(d)]
  OBVIOUS
<1>2. PICK t1 : t1 = Colour(t, {w}, t.red[p])
  OBVIOUS
<1>3. PICK t2 : t2 = Colour(t1, {p, m}, FALSE)
  OBVIOUS
<1>4. PICK t3 : t3 = Rotate(t2, p, d)
  OBVIOUS
<1>5. tree' = t3 /\ c' = t3.root /\ p' = p
  BY <1>1, <1>2, <1>3, <1>4 DEF RemoveLast
<1>6. p \in Node /\ t \in Trees
  BY GoingIs
<1>7. t.red[p] \in BOOLEAN
  BY <1>6 DEF Trees
<1>8. Going(t1, r, d) /\ IsColoured(t, {w}, t.red[p], t1)
  BY <1>2, <1>7, GoingColour
<1>9. Going(t2, r, d) /\ IsColoured(t1, {p, m}, FALSE, t2)
  BY <1>3, <1>8, GoingColour
<1>10. t2.kid = t.kid
  BY <1>8, <1>9 DEF IsColoured
<1>11. Going(t3, IF p = r THEN w ELSE r, d) /\ t3.red = t2.red
  BY <1>4, <1>9, <1>10, GoingTurn
<1>12. w # r /\ w \in Present /\ w \in Node
  BY SiblingIs, GoingIs
<1>13. PICK r2 \in Pointer : r2 = IF p = r THEN w ELSE r
  BY <1>12 DEF Pointer
<1>14. ~Red(t3, r2)
  <2>1. \A e \in Node : t2.red[e] => (IF e = w THEN t.red[p] ELSE t.red[e])
    BY <1>8, <1>9 DEF IsColoured
  <2>2. CASE p = r
    <3>1. ~t.red[p] /\ r2 = w
      BY <1>6, <1>13, <2>2, Fields DEF Red
    <3> QED
      BY <1>11, <1>12, <2>1, <3>1 DEF Red
  <2>3. CASE p # r
    BY <1>11, <1>12, <1>13, <2>1, <2>3, Fields DEF Red
  <2> QED
    BY <2>2, <2>3
<1>15. Going(t3, r2, d)
  BY <1>11, <1>13
<1>16. c' = t3.root /\ c' \in Pointer /\ p' \in Pointer
  <2>1. t3 \in Trees
    BY <1>15, GoingIs
  <2>2. t3.root \in Pointer
    BY <2>1, Fields
  <2> QED
    BY <1>5, <1>6, <2>2, Fields
<1> QED
  BY <1>5, <1>14, <1>15, <1>16, LoopNext

LEMMA RemoveLoopInv ==
    ASSUME IInv, RemoveLoop
    PROVE  IInv'
<1>1. pc = "remove" /\ Missing /\ UNCHANGED <<kind, key, inside, pc, x, y, seen>>
  BY DEF RemoveLoop
<1>2. PICK d : d = IF tree.kid[p]["left"] = c THEN "left" ELSE "right"
  OBVIOUS
<1>3. PICK t : t = Aligned(tree, d)
  OBVIOUS
<1>4. PICK w : w = t.kid[p][Other(d)]
  OBVIOUS
<1>5. w # NULL /\ (RemoveUp(t, d, w) \/ RemoveTurn(t, d, w) \/ RemoveLast(t, d, w))
  BY <1>2, <1>3, <1>4 DEF RemoveLoop
<1>6. PICK r \in Pointer : Going(t, r, d) /\ ~Red(t, r)
  BY <1>1, <1>2, <1>3, AlignedIs
<1> QED
  BY <1>1, <1>4, <1>5, <1>6, RemoveUpInv, RemoveTurnInv, RemoveLastInv
-----------------------------------------------------------------------------
Outs(out, kid, d) ==
    out = [m \in Pointer |-> IF m = NULL \/ kid[m][d] = NULL THEN m ELSE out[kid[m][d]]]

\* The outermost node below s on side d is the first or the last of them.
LEMMA OutermostIs ==
    ASSUME IInv, pc = "out", NEW s \in inside, NEW d \in Side
    PROVE  \E m \in inside : /\ m = Outermost(tree, s, d)
                             /\ m \in Under(tree.kid, s) /\ tree.kid[m][d] = NULL
                             /\ \A e \in Under(tree.kid, s) : Fits(d, key[m], key[e])
<1>1. Sound(tree, tree.root, inside, {key})
  BY AtRest
<1>2. PICK up \in UPS : up = tree.up
  BY <1>1, Fields DEF Sound
<1>3. PICK kid \in KIDS : kid = tree.kid
  BY <1>1, Fields DEF Sound
<1>4. PICK r : r = tree.root
  OBVIOUS
<1>5. Shape(up, kid, r, inside) /\ inside \in SUBSET Node
  BY <1>1, <1>2, <1>3, <1>4 DEF Sound, Shape
<1>6. \A n \in Node : n \notin inside => \A b \in Side : kid[n][b] = NULL
  BY <1>3, NullIsNoNode DEF IInv, Clean, Loops, NoKids
<1>7. PICK dir : dir = [n \in Node |-> d]
  OBVIOUS
<1>8. dir \in [Node -> Side] /\ \A e \in Node : dir[e] = d
  BY <1>7
<1>9. PICK m : m = (CHOOSE f : Dives(f, Pointer, kid, dir))[s]
  OBVIOUS
<1>10. PICK R : Route(up, kid, inside, dir, s, m, R)
  BY <1>5, <1>6, <1>8, <1>9, DiveRoute
<1>11. Outermost(tree, s, d) = m
  <2>1. ASSUME NEW f
        PROVE  Dives(f, Pointer, kid, dir) <=> Outs(f, kid, d)
    <3>1. \A n \in Pointer : (IF n = NULL \/ kid[n][dir[n]] = NULL THEN n ELSE f[kid[n][dir[n]]])
                             = (IF n = NULL \/ kid[n][d] = NULL THEN n ELSE f[kid[n][d]])
      BY <1>8 DEF Pointer
    <3>2. [n \in Pointer |-> IF n = NULL \/ kid[n][dir[n]] = NULL THEN n ELSE f[kid[n][dir[n]]]]
           = [n \in Pointer |-> IF n = NULL \/ kid[n][d] = NULL THEN n ELSE f[kid[n][d]]]
      BY <3>1, Zenon
    <3> QED
      BY <3>2, Zenon DEF Dives, Outs
  <2>2. Outermost(tree, s, d) = (CHOOSE f : Outs(f, kid, d))[s]
    BY <1>3 DEF Outermost, Outs
  <2> QED
    BY <1>9, <2>1, <2>2, Zenon
<1>12. m \in inside /\ kid[m][d] = NULL /\ s \in R
  BY <1>5, <1>8, <1>10 DEF Route
<1>13. m \in Under(kid, s)
  BY <1>5, <1>8, <1>10, <1>12, RouteEnd
<1>14. key \in [Node -> Int] /\ Ordered(kid, inside, key)
  BY <1>1, <1>3 DEF Sound
<1>15. \A e \in Under(kid, s) : Fits(d, key[m], key[e])
  BY <1>5, <1>8, <1>10, <1>14, RouteOutermost
<1> QED
  BY <1>3, <1>11, <1>12, <1>13, <1>15

\* The node that leaves its place has at most one child; if it is not n, it is
\* the first of the nodes to the right of n.
LEMMA SplicedIs ==
    ASSUME IInv, pc = "out", NEW n \in inside, NEW m, m = Spliced(tree, n)
    PROVE  /\ m \in inside
           /\ \E s \in Side : tree.kid[m][s] = OnlyKid(tree, m) /\ tree.kid[m][Other(s)] = NULL
           /\ m # n => /\ tree.kid[n]["right"] # NULL
                       /\ m \in Under(tree.kid, tree.kid[n]["right"])
                       /\ \A e \in Under(tree.kid, tree.kid[n]["right"]) : key[m] <= key[e]
<1>1. Sound(tree, tree.root, inside, {key})
  BY AtRest
<1>2. Other("left") = "right" /\ Other("right") = "left" /\ "left" \in Side /\ "right" \in Side
  BY DEF Other, Side
<1>3. ASSUME NEW b \in Side, tree.kid[m][b] = NULL
      PROVE  \E s \in Side : tree.kid[m][s] = OnlyKid(tree, m) /\ tree.kid[m][Other(s)] = NULL
  <2>1. b = "left" \/ b = "right"
    BY DEF Side
  <2>2. CASE tree.kid[m]["left"] = NULL
    <3>1. OnlyKid(tree, m) = tree.kid[m]["right"]
      BY <2>2 DEF OnlyKid
    <3> QED
      BY <1>2, <2>2, <3>1
  <2>3. CASE tree.kid[m]["left"] # NULL
    <3>1. OnlyKid(tree, m) = tree.kid[m]["left"] /\ tree.kid[m]["right"] = NULL
      BY <1>3, <2>1, <2>3 DEF OnlyKid
    <3> QED
      BY <1>2, <3>1
  <2> QED
    BY <2>2, <2>3
<1>4. CASE \E d \in Side : tree.kid[n][d] = NULL
  <2>1. m = n
    BY <1>4 DEF Spliced
  <2> QED
    BY <1>3, <1>4, <2>1
<1>5. CASE ~(\E d \in Side : tree.kid[n][d] = NULL)
  <2>1. PICK s : s = tree.kid[n]["right"]
    OBVIOUS
  <2>2. s # NULL /\ s \in inside
    BY <1>1, <1>2, <1>5, <2>1 DEF Sound, Shape
  <2>3. m = NextOn(tree, n, "right")
    BY <1>5 DEF Spliced
  <2>4. m = Outermost(tree, s, "left")
    BY <1>2, <2>1, <2>2, <2>3 DEF NextOn
  <2>5. /\ m \in inside /\ m \in Under(tree.kid, s) /\ tree.kid[m]["left"] = NULL
        /\ \A e \in Under(tree.kid, s) : Fits("left", key[m], key[e])
    BY <1>2, <2>2, <2>4, OutermostIs
  <2>6. \A e \in Under(tree.kid, s) : key[m] <= key[e]
    BY <2>5 DEF Fits
  <2> QED
    BY <1>2, <1>3, <2>1, <2>2, <2>5, <2>6
<1> QED
  BY <1>4, <1>5
-----------------------------------------------------------------------------
\* What is below a child after a cut was below it before.
LEMMA CutBranch ==
    ASSUME NEW up, NEW kid \in KIDS, NEW r, NEW P, Shape(up, kid, r, P),
           NEW m, NEW c1, NEW q, NEW up2, NEW kid2, NEW r2,
           Cuts(up, kid, r, P, m, c1, q, up2, kid2, r2),
           NEW a \in P, a # m, NEW s \in Side, kid2[a][s] # NULL
    PROVE  /\ kid[a][s] # NULL
           /\ Under(kid, kid[a][s]) \ {m} \in SUBSET (P \ {m})
           /\ kid2[a][s] \in Under(kid, kid[a][s]) \ {m}
           /\ Closed(kid2, Under(kid, kid[a][s]) \ {m})
<1>1. /\ P \in SUBSET Node /\ NULL \notin P
      /\ \A e \in P : \A b \in Side :
           kid[e][b] # NULL => /\ kid[e][b] \in P /\ up[kid[e][b]] = e
                               /\ kid[e][b] # kid[e][Other(b)]
  BY NullIsNoNode DEF Shape
<1>2. /\ m \in P /\ q = up[m]
      /\ \E b \in Side : kid[m][b] = c1 /\ kid[m][Other(b)] = NULL
      /\ \A e \in P : \A b \in Side :
            e # m => kid2[e][b] = IF e = q /\ kid[e][b] = m THEN c1 ELSE kid[e][b]
  BY DEF Cuts
<1>3. kid[a][s] # NULL
  BY <1>1, <1>2
<1>4. PICK U : U = Under(kid, kid[a][s])
  OBVIOUS
<1>5. kid[a][s] \in P /\ kid[a][s] \in Pointer
  BY <1>1, <1>3 DEF Pointer
<1>6. U \in SUBSET Node /\ kid[a][s] \in U /\ Closed(kid, U)
  BY <1>3, <1>4, <1>5, UnderIs DEF KIDS
<1>7. U \subseteq P
  <2>1. Closed(kid, P)
    BY <1>1 DEF Closed
  <2> QED
    BY <1>1, <1>4, <1>5, <2>1, UnderIs DEF KIDS
<1>8. c1 # NULL => c1 # m
  <2>1. PICK b \in Side : kid[m][b] = c1
    BY <1>2
  <2>2. c1 # NULL => up[c1] = m /\ c1 \in P
    BY <1>1, <1>2, <2>1
  <2>3. ASSUME c1 # NULL, c1 = m PROVE FALSE
    <3>1. up[m] = m /\ up[m] \in P
      BY <1>2, <2>2, <2>3
    <3> QED
      BY <1>2, <3>1, Chain
  <2> QED
    BY <2>3
<1>9. ASSUME NEW e \in P, e # m, NEW b \in Side, kid2[e][b] # NULL, kid[e][b] \in U
      PROVE  kid2[e][b] \in U /\ kid2[e][b] # m
  <2>1. CASE e = q /\ kid[e][b] = m
    <3>1. kid2[e][b] = c1 /\ m \in U
      BY <1>2, <1>9, <2>1
    <3>2. c1 \in U
      BY <1>2, <1>6, <1>9, <3>1 DEF Closed
    <3> QED
      BY <1>8, <1>9, <3>1, <3>2
  <2>2. CASE ~(e = q /\ kid[e][b] = m)
    <3>1. kid2[e][b] = kid[e][b]
      BY <1>2, <1>9, <2>2
    <3>2. kid[e][b] # m
      BY <1>1, <1>2, <1>9, <2>2
    <3> QED
      BY <1>9, <3>1, <3>2
  <2> QED
    BY <2>1, <2>2
<1>10. kid2[a][s] \in U \ {m}
  BY <1>6, <1>9
<1>11. Closed(kid2, U \ {m})
  <2> SUFFICES ASSUME NEW e \in U \ {m}, NEW b \in Side, kid2[e][b] # NULL
               PROVE  kid2[e][b] \in U \ {m}
    BY DEF Closed
  <2>1. e \in P /\ e # m /\ kid[e][b] # NULL
    BY <1>1, <1>2, <1>7
  <2>2. kid[e][b] \in U
    BY <1>6, <2>1 DEF Closed
  <2> QED
    BY <1>9, <2>1, <2>2
<1> QED
  BY <1>3, <1>4, <1>7, <1>10, <1>11

\* With m's key at n, too, the tree without m is in order.
LEMMA CutKeyed ==
    ASSUME NEW up, NEW kid \in KIDS, NEW r, NEW P, Shape(up, kid, r, P),
           NEW m, NEW c1, NEW q, NEW up2, NEW kid2, NEW r2,
           Cuts(up, kid, r, P, m, c1, q, up2, kid2, r2), kid2 \in KIDS,
           NEW k \in [Node -> Int], Ordered(kid, P, k),
           NEW n \in P, n # m, kid[n]["right"] # NULL,
           m \in Under(kid, kid[n]["right"]),
           \A e \in Under(kid, kid[n]["right"]) : k[m] <= k[e],
           NEW k2, k2 = [k EXCEPT ![n] = k[m]]
    PROVE  Ordered(kid2, P \ {m}, k2)
<1>1. P \in SUBSET Node /\ m \in P /\ "right" \in Side /\ "left" \in Side
  BY DEF Shape, Cuts, Side
<1>2. k2[n] = k[m] /\ \A e \in Node : e # n => k2[e] = k[e]
  BY <1>1
<1>3. k[n] <= k[m] /\ \A e \in Node : k[e] \in Int
  BY <1>1 DEF Ordered, Fits
<1>4. ASSUME NEW a \in P \ {m}, NEW s \in Side, kid2[a][s] # NULL
      PROVE  Shelter(kid2, P \ {m}, k2, a, s)
  <2>1. PICK U : U = Under(kid, kid[a][s])
    OBVIOUS
  <2>2. /\ kid[a][s] # NULL /\ U \ {m} \in SUBSET (P \ {m})
        /\ kid2[a][s] \in U \ {m} /\ Closed(kid2, U \ {m})
    <3>1. a \in P /\ a # m
      OBVIOUS
    <3>2. /\ kid[a][s] # NULL
          /\ Under(kid, kid[a][s]) \ {m} \in SUBSET (P \ {m})
          /\ kid2[a][s] \in Under(kid, kid[a][s]) \ {m}
          /\ Closed(kid2, Under(kid, kid[a][s]) \ {m})
      BY <1>4, <3>1, CutBranch
    <3> QED
      BY <2>1, <3>2
  <2>3. \A e \in U : Fits(s, k[e], k[a])
    BY <2>1 DEF Ordered
  <2>4. ASSUME NEW e \in U \ {m}
        PROVE  Fits(s, k2[e], k2[a])
    <3>1. e \in P /\ e \in Node /\ a \in Node
      BY <1>1, <2>2, <2>4
    <3>2. CASE a = n /\ s = "left"
      <4>1. k[e] <= k[n]
        BY <2>3, <2>4, <3>2 DEF Fits
      <4>2. k2[e] <= k[m]
        <5>1. k2[e] = k[e] \/ k2[e] = k[m]
          BY <1>2, <3>1
        <5>2. k[e] \in Int /\ k[n] \in Int /\ k[m] \in Int
          BY <1>1, <1>3, <3>1
        <5>3. k[n] <= k[m]
          BY <1>3
        <5> QED
          BY <4>1, <5>1, <5>2, <5>3
      <4> QED
        BY <1>2, <3>2, <4>2 DEF Fits
    <3>3. CASE a = n /\ s = "right"
      <4>1. k[m] <= k[e]
        BY <2>1, <2>4, <3>3
      <4>2. k2[e] >= k[m]
        BY <1>2, <1>3, <3>1, <4>1
      <4> QED
        BY <1>2, <3>3, <4>2 DEF Fits
    <3>4. CASE a # n /\ e # n
      BY <1>2, <2>3, <2>4, <3>1, <3>4
    <3>5. CASE a # n /\ e = n
      <4>1. m \in U
        <5>1. U \in SUBSET Node /\ Closed(kid, U)
          <6>1. kid[a][s] \in Pointer
            BY <3>1 DEF KIDS
          <6> QED
            BY <2>1, <6>1, UnderIs DEF KIDS
        <5>2. kid[n]["right"] \in U
          BY <1>1, <2>4, <3>5, <5>1 DEF Closed
        <5>3. kid[n]["right"] \in Pointer
          BY <1>1 DEF KIDS
        <5>4. Under(kid, kid[n]["right"]) \subseteq U
          BY <5>1, <5>2, <5>3, UnderIs DEF KIDS
        <5> QED
          BY <5>4
      <4> QED
        BY <1>2, <2>3, <3>1, <3>5, <4>1
    <3> QED
      BY <3>2, <3>3, <3>4, <3>5 DEF Side
  <2> QED
    BY <2>2, <2>4 DEF Shelter
<1>5. P \ {m} \in SUBSET Node
  BY <1>1
<1> QED
  BY <1>4, <1>5, OrderedBy

\* The parent of the node cut out is still below every node above it.
LEMMA CutUnder ==
    ASSUME NEW up, NEW kid \in KIDS, NEW r, NEW P, Shape(up, kid, r, P),
           NEW m, NEW c1, NEW q, NEW up2, NEW kid2, NEW r2,
           Cuts(up, kid, r, P, m, c1, q, up2, kid2, r2), kid2 \in KIDS,
           NEW n \in P, n # m, m \in Under(kid, n)
    PROVE  q \in Under(kid2, n)
<1>1. P \in SUBSET Node /\ m \in P /\ q = up[m] /\ n \in Pointer /\ n # NULL /\ n \in Node
  BY NullIsNoNode DEF Shape, Cuts, Pointer
<1>2. Shape(up2, kid2, r2, P \ {m})
  BY CutShape
<1>3. PICK C : C = Under(kid2, n)
  OBVIOUS
<1>4. C \in SUBSET Node /\ n \in C /\ Closed(kid2, C)
  BY <1>1, <1>3, UnderIs DEF KIDS
<1>5. C \subseteq P \ {m}
  <2>1. Closed(kid2, P \ {m})
    BY <1>2 DEF Shape, Closed
  <2> QED
    BY <1>1, <1>3, <2>1, UnderIs DEF KIDS
<1>6. ASSUME q \notin C PROVE FALSE
  <2>1. Closed(kid, C)
    <3> SUFFICES ASSUME NEW e \in C, NEW s \in Side, kid[e][s] # NULL
                 PROVE  kid[e][s] \in C
      BY DEF Closed
    <3>1. kid2[e][s] = kid[e][s]
      BY <1>5, <1>6 DEF Cuts
    <3> QED
      BY <1>4, <3>1 DEF Closed
  <2>2. Under(kid, n) \subseteq C
    BY <1>1, <1>4, <2>1, UnderIs DEF KIDS
  <2>3. q \in Under(kid, n)
    BY <1>1, UpUnder
  <2> QED
    BY <1>6, <2>2, <2>3
<1> QED
  BY <1>3, <1>6
-----------------------------------------------------------------------------
\* What the splice leaves: r is the top, q and c1 are m's parent and child.
Unhooked(n, m, c1, q, t, r) ==
    /\ t \in Trees /\ t.red = tree.red /\ Untouched(tree, t, inside)
    /\ Sound(t, r, inside \ {m}, IF n = m THEN {key} ELSE {key, [key EXCEPT ![n] = key[m]]})
    /\ c1 \in Pointer /\ q \in Pointer
    /\ Cuts(tree.up, tree.kid, tree.root, inside, m, c1, q, t.up, t.kid, r)
    /\ r = IF q = NULL THEN c1 ELSE tree.root
    /\ r = IF n # m /\ t.root = m THEN n ELSE t.root
    /\ n # m => t.root # n /\ q \in Under(t.kid, n)
    /\ q = NULL => m = tree.root /\ n = m
    /\ q # NULL => q \in inside \ {m} /\ \E s \in Side : t.kid[q][s] = c1

LEMMA SpliceSound ==
    ASSUME IInv, pc = "out", NEW n \in inside, NEW m, m = Spliced(tree, n),
           NEW c1, c1 = OnlyKid(tree, m), NEW q, q = tree.up[m],
           NEW t, t = SpliceOut(tree, n, m)
    PROVE  m \in inside /\ \E r : Unhooked(n, m, c1, q, t, r)
<1>1. Sound(tree, tree.root, inside, {key})
  BY AtRest
<1>2. PICK up \in UPS : up = tree.up
  BY <1>1, Fields DEF Sound
<1>3. PICK kid \in KIDS : kid = tree.kid
  BY <1>1, Fields DEF Sound
<1>4. PICK root \in Pointer : root = tree.root
  BY <1>1 DEF Sound
<1>5. /\ Shape(up, kid, root, inside) /\ inside \in SUBSET Node /\ NULL \notin inside
      /\ tree \in Trees /\ key \in [Node -> Int] /\ Ordered(kid, inside, key)
  BY <1>1, <1>2, <1>3, <1>4, NullIsNoNode DEF Sound, Shape
<1>6. /\ m \in inside
      /\ \E s \in Side : kid[m][s] = c1 /\ kid[m][Other(s)] = NULL
      /\ m # n => /\ kid[n]["right"] # NULL /\ m \in Under(kid, kid[n]["right"])
                  /\ \A e \in Under(kid, kid[n]["right"]) : key[m] <= key[e]
  BY <1>3, SplicedIs
<1>7. m \in Node /\ n \in Node /\ "right" \in Side
  BY <1>5, <1>6 DEF Side
<1>8. IsSpliced(tree, n, m, c1, q, t)
  <2>1. Holds(tree, tree.up[m], m)
    BY <1>2, <1>3, <1>5, <1>6, HeldIs
  <2> QED
    BY <1>5, <1>7, <2>1, SpliceIs
<1>9. /\ t \in Trees /\ t.red = tree.red
      /\ t.root = IF up[n] # NULL THEN root ELSE IF n = m THEN c1 ELSE m
      /\ \A e \in Node : t.up[e] = IF e = c1 THEN q ELSE up[e]
      /\ \A e \in Node : \A s \in Side :
            t.kid[e][s] = IF e = q /\ kid[e][s] = m THEN c1 ELSE kid[e][s]
  BY <1>2, <1>3, <1>4, <1>8 DEF IsSpliced
<1>10. PICK r : r = IF q = NULL THEN c1 ELSE root
  OBVIOUS
<1>11. t.kid \in KIDS /\ t.up \in UPS
  BY <1>9, Fields
<1>12. Cuts(up, kid, root, inside, m, c1, q, t.up, t.kid, r)
  BY <1>2, <1>5, <1>6, <1>9, <1>10, <1>11 DEF Cuts
<1>13. Shape(t.up, t.kid, r, inside \ {m})
  BY <1>5, <1>12, CutShape
<1>14. Ordered(t.kid, inside \ {m}, key)
  BY <1>5, <1>12, CutOrdered
<1>15. m # n => m \in Under(kid, n)
  BY <1>6, <1>7, UnderKid
<1>16. c1 \in Pointer /\ q \in Pointer
  BY <1>2, <1>3, <1>6, <1>7 DEF KIDS, UPS
<1>17. (q = NULL <=> m = root) /\ (up[n] = NULL <=> n = root) /\ root # NULL
  BY <1>2, <1>5, <1>6 DEF Shape
<1>18. m # n => m # root
  <2> SUFFICES ASSUME m # n PROVE m # root
    OBVIOUS
  <2>1. q \in Under(kid, n)
    BY <1>2, <1>5, <1>15, UpUnder
  <2>2. Under(kid, n) \in SUBSET Node
    BY <1>7, UnderIs DEF KIDS, Pointer
  <2> QED
    BY <1>17, <2>1, <2>2, NullIsNoNode
<1>19. q # NULL => q \in inside \ {m} /\ \E s \in Side : t.kid[q][s] = c1
  <2> SUFFICES ASSUME q # NULL
               PROVE  q \in inside \ {m} /\ \E s \in Side : t.kid[q][s] = c1
    OBVIOUS
  <2>1. q \in inside /\ \E s \in Side : kid[q][s] = m
    BY <1>2, <1>5, <1>6, <1>17 DEF Shape
  <2>2. q # m
    BY <1>2, <1>5, <1>6, <2>1, Chain
  <2> QED
    BY <1>5, <1>9, <2>1, <2>2
<1>20. r = IF n # m /\ t.root = m THEN n ELSE t.root
  BY <1>7, <1>9, <1>10, <1>17, <1>18
<1>21. n # m => t.root # n
  BY <1>9, <1>17, <1>18
<1>22. n # m => q \in Under(t.kid, n)
  BY <1>5, <1>11, <1>12, <1>15, CutUnder
<1>23. Untouched(tree, t, inside)
  <2> SUFFICES ASSUME NEW e \in Node, e \notin inside
               PROVE  t.kid[e] = kid[e] /\ t.up[e] = up[e]
    BY <1>2, <1>3 DEF Untouched
  <2>1. e # q
    BY <1>19, NullIsNoNode
  <2>2. e # c1
    <3>1. c1 = NULL \/ c1 \in inside
      BY <1>5, <1>6 DEF Shape
    <3> QED
      BY <3>1, NullIsNoNode
  <2>3. t.kid[e] \in [Side -> Pointer] /\ kid[e] \in [Side -> Pointer]
    BY <1>11 DEF KIDS
  <2>4. \A s \in Side : t.kid[e][s] = kid[e][s]
    BY <1>9, <2>1
  <2>5. t.kid[e] = kid[e]
    BY <2>3, <2>4
  <2> QED
    BY <1>9, <2>2, <2>5
<1>24. Sound(t, r, inside \ {m}, IF n = m THEN {key} ELSE {key, [key EXCEPT ![n] = key[m]]})
  <2>1. r \in Pointer
    BY <1>10, <1>16
  <2>2. ASSUME n # m
        PROVE  /\ [key EXCEPT ![n] = key[m]] \in [Node -> Int]
               /\ Ordered(t.kid, inside \ {m}, [key EXCEPT ![n] = key[m]])
    <3>1. PICK k2 : k2 = [key EXCEPT ![n] = key[m]]
      OBVIOUS
    <3>2. Ordered(t.kid, inside \ {m}, k2)
      BY <1>5, <1>6, <1>11, <1>12, <2>2, <3>1, CutKeyed
    <3>3. k2 \in [Node -> Int]
      BY <1>5, <1>7, <3>1
    <3> QED
      BY <3>1, <3>2, <3>3
  <2> QED
    BY <1>5, <1>9, <1>13, <1>14, <2>1, <2>2 DEF Sound
<1>25. q = NULL => m = root /\ n = m
  BY <1>17, <1>18
<1>26. Cuts(tree.up, tree.kid, tree.root, inside, m, c1, q, t.up, t.kid, r)
  BY <1>2, <1>3, <1>4, <1>12
<1>27. Unhooked(n, m, c1, q, t, r)
  BY <1>4, <1>9, <1>10, <1>16, <1>19, <1>20, <1>21, <1>22, <1>23, <1>24, <1>25, <1>26 DEF Unhooked
<1> QED
  BY <1>6, <1>27

LEMMA RemoveInv ==
    ASSUME IInv, NEW n \in Node, Remove(n)
    PROVE  IInv'
<1>1. /\ kind' = kind /\ key' = key /\ inside' = inside \ {n} /\ pc = "out" /\ n \in inside
      /\ x' = n /\ seen' = seen
  BY DEF Remove
<1>2. PICK m : m = Spliced(tree, n)
  OBVIOUS
<1>3. PICK c1 : c1 = OnlyKid(tree, m)
  OBVIOUS
<1>4. PICK q : q = tree.up[m]
  OBVIOUS
<1>5. PICK t : t = SpliceOut(tree, n, m)
  OBVIOUS
<1>6. /\ y' = m /\ c' = c1 /\ p' = q
      /\ \/ /\ kind = "bst" \/ t.root = NULL \/ tree.red[m]
            /\ tree' = t /\ pc' = "replace"
         \/ /\ kind = "rbt" /\ t.root # NULL /\ ~tree.red[m]
            /\ IF Red(t, c1) THEN tree' = Blackened(t, c1) /\ pc' = "replace"
                             ELSE tree' = t /\ pc' = "remove"
  BY <1>2, <1>3, <1>4, <1>5 DEF Remove
<1>7. m \in inside /\ \E r : Unhooked(n, m, c1, q, t, r)
  BY <1>1, <1>2, <1>3, <1>4, <1>5, SpliceSound
<1>8. PICK r : Unhooked(n, m, c1, q, t, r)
  BY <1>7
<1>9. PICK K : K = IF n = m THEN {key} ELSE {key, [key EXCEPT ![n] = key[m]]}
  OBVIOUS
<1>10. /\ t \in Trees /\ t.red = tree.red /\ Untouched(tree, t, inside)
       /\ Sound(t, r, inside \ {m}, K)
       /\ c1 \in Pointer /\ q \in Pointer
       /\ r = IF q = NULL THEN c1 ELSE tree.root
       /\ r = IF n # m /\ t.root = m THEN n ELSE t.root
       /\ n # m => t.root # n /\ q \in Under(t.kid, n)
       /\ q = NULL => m = tree.root /\ n = m
       /\ q # NULL => q \in inside \ {m} /\ \E s \in Side : t.kid[q][s] = c1
  BY <1>8, <1>9 DEF Unhooked
<1>11. PICK t2 : t2 = Blackened(t, c1)
  OBVIOUS
<1>12. Sound(t2, r, inside \ {m}, K) /\ IsColoured(t, {c1}, FALSE, t2)
  BY <1>10, <1>11, ColourSound DEF Blackened
<1>13. /\ tree' \in Trees /\ tree'.kid = t.kid /\ tree'.up = t.up /\ tree'.root = t.root
       /\ Sound(tree', r, inside \ {m}, K)
       /\ \A e \in Node : tree'.red[e] => tree.red[e]
       /\ tree' = t \/ \A e \in Node : tree'.red[e] = IF e = c1 THEN FALSE ELSE tree.red[e]
       /\ pc' \in {"remove", "replace"}
       /\ pc' = "remove" => kind = "rbt"
  BY <1>6, <1>10, <1>11, <1>12 DEF IsColoured
<1>14. x = NULL /\ inside \in SUBSET Node /\ NULL \notin Node /\ m \in Node
       /\ key \in [Node -> Int] /\ kind \in {"bst", "rbt"}
  BY <1>1, <1>7, TypeIs, NullIsNoNode DEF IInv, Loops
<1>15. Removing'
  BY <1>13 DEF Removing
<1>16. Top' = r /\ Keys' = K
  BY <1>1, <1>6, <1>9, <1>10, <1>13, <1>15 DEF Top, Keys
<1>17. Present' = inside \ {m}
  <2>1. CASE n = m
    BY <1>1, <1>6, <2>1 DEF Present
  <2>2. CASE n # m
    <3>1. Present' = ((inside \ {n}) \cup {n}) \ {m}
      BY <1>1, <1>6, <1>15, <2>2 DEF Present
    <3> QED
      BY <1>1, <3>1
  <2> QED
    BY <2>1, <2>2
<1>18. TypeOK'
  BY <1>1, <1>6, <1>10, <1>13, <1>14 DEF IInv, TypeOK, Trees, Pointer
<1>19. TreeInv'
  BY <1>13, <1>16, <1>17 DEF TreeInv
<1>20. Clean'
  <2>1. ASSUME NEW e \in Node, e \notin inside', e # n
        PROVE  tree'.kid[e] = NoKids /\ tree'.up[e] = NULL
    <3>1. e \notin inside /\ e # x
      BY <1>1, <1>14, <2>1
    <3>2. tree.kid[e] = NoKids /\ tree.up[e] = NULL
      BY <1>1, <3>1 DEF IInv, Clean
    <3> QED
      BY <1>10, <1>13, <3>1, <3>2 DEF Untouched
  <2> QED
    BY <1>1, <2>1 DEF Clean
<1>21. Loops'
  <2>1. x' \in Node \ inside' /\ y' \in Node
    BY <1>1, <1>6, <1>14
  <2>2. x' # y' => y' \in inside' /\ tree'.root # x'
    BY <1>1, <1>6, <1>7, <1>10, <1>13
  <2> QED
    BY <1>1, <1>13, <2>1, <2>2 DEF Loops
<1>22. InLoop'
  <2>1. p' # NULL => p' \in Present' /\ \E d \in Side : tree'.kid[p'][d] = c'
    BY <1>6, <1>10, <1>13, <1>17
  <2> QED
    BY <2>1 DEF InLoop
<1>23. OnWay'
  <2>1. x' # y' => p' \in Under(tree'.kid, x')
    BY <1>1, <1>6, <1>10, <1>13
  <2> QED
    BY <2>1 DEF OnWay
<1>24. RootRule'
  <2>1. ASSUME kind = "rbt"
        PROVE  (pc' = "remove" /\ c1 = r) \/ ~Red(tree', r)
    <3>1. ~Red(tree, tree.root)
      BY <1>1, <2>1 DEF IInv, RootRule
    <3>2. CASE q # NULL
      <4>1. r = tree.root /\ r \in Pointer
        BY <1>10, <1>13, <3>2 DEF Sound
      <4> QED
        BY <1>13, <3>1, <4>1, Fields DEF Red
    <3>3. CASE q = NULL
      <4>1. r = c1 /\ m = tree.root /\ n = m /\ r = t.root
        BY <1>10, <3>3
      <4>2. ~tree.red[m]
        BY <1>14, <3>1, <4>1 DEF Red
      <4>3. CASE t.root = NULL
        BY <4>1, <4>3 DEF Red
      <4>4. CASE t.root # NULL /\ Red(t, c1)
        <5>1. tree' = t2
          BY <1>6, <1>11, <2>1, <4>2, <4>4
        <5> QED
          BY <1>10, <1>12, <4>1, <4>4, <5>1, Fields DEF IsColoured, Red
      <4>5. CASE t.root # NULL /\ ~Red(t, c1)
        BY <1>6, <2>1, <4>1, <4>2, <4>5
      <4> QED
        BY <4>3, <4>4, <4>5
    <3> QED
      BY <3>2, <3>3
  <2>2. pc' # "out" /\ pc' # "travel"
    BY <1>13
  <2>3. kind' = "rbt" => /\ pc' = "remove" => c' = Top' \/ ~Red(tree', Top')
                         /\ pc' = "replace" => ~Red(tree', Top')
    BY <1>1, <1>6, <1>16, <2>1
  <2> QED
    BY <2>2, <2>3 DEF RootRule, Red
<1> QED
  BY <1>18, <1>19, <1>20, <1>21, <1>22, <1>23, <1>24 DEF IInv
-----------------------------------------------------------------------------
LEMMA NextInv ==
    ASSUME IInv, [Next]_vars
    PROVE  IInv'
<1>1. CASE Loop
  BY <1>1, InsertDoneInv, InsertRecolourInv, InsertRotateInv, RemoveDoneInv, RemoveLoopInv,
     ReplaceInv, FreeHeadInv, FreeDoneInv, VisitInv, TravelDoneInv DEF Loop
<1>2. CASE FreeAll \/ Travel
  BY <1>2, FreeAllInv, TravelInv
<1>3. ASSUME NEW n \in Node, Insert(n) \/ Remove(n) \/ \E m \in Node : ReplaceNode(n, m)
      PROVE  IInv'
  BY <1>3, InsertInv, RemoveInv, ReplaceNodeInv
<1>4. CASE UNCHANGED vars
  BY <1>4, StutterInv
<1> QED
  BY <1>1, <1>2, <1>3, <1>4 DEF Next

THEOREM Inductive == Spec => []IInv
<1>1. Init => IInv
  BY InitInv
<1>2. IInv /\ [Next]_vars => IInv'
  BY NextInv
<1> QED
  BY <1>1, <1>2, PTL DEF Spec

\* What Linked and Sorted say with Below, in the terms of the proofs.
LEMMA Pointers ==
    ASSUME IInv, pc # "free"
    PROVE  /\ Sound(tree, Top, Present, Keys) /\ tree.kid \in KIDS /\ Present \in SUBSET Node
           /\ Shape(tree.up, tree.kid, Top, Present)
           /\ Below(Top) = Present
           /\ \A n \in Present : \A d \in Side :
                 Below(tree.kid[n][d]) = Under(tree.kid, tree.kid[n][d])
<1>1. Sound(tree, Top, Present, Keys) /\ TypeOK
  BY DEF IInv, TreeInv
<1>2. tree.kid \in KIDS /\ Shape(tree.up, tree.kid, Top, Present) /\ Top \in Pointer
      /\ Present \in SUBSET Node
  BY <1>1, Fields DEF Sound, Shape
<1>3. Below(Top) = Under(tree.kid, Top)
  BY <1>1, <1>2, BelowIs
<1>4. Under(tree.kid, Top) = Present
  BY <1>2, UnderRoot
<1>5. ASSUME NEW n \in Present, NEW d \in Side
      PROVE  Below(tree.kid[n][d]) = Under(tree.kid, tree.kid[n][d])
  <2>1. tree.kid[n][d] \in Pointer
    BY <1>2 DEF KIDS
  <2> QED
    BY <1>1, <2>1, BelowIs
<1> QED
  BY <1>1, <1>2, <1>3, <1>4, <1>5

\* After every step of every call, whatever nodes, keys and bounds there are,
\* the pointers spell one tree that holds the client's nodes and no others,
\* with parents and children in agreement.
THEOREM TreeIsLinked == Spec => []Linked
<1>1. ASSUME IInv PROVE Linked
  <2>1. TypeOK
    BY <1>1 DEF IInv
  <2>2. ASSUME pc # "free"
        PROVE  /\ Below(Top) = Present
               /\ Top # NULL => tree.up[Top] = NULL
               /\ \A n \in Present, d \in Side :
                     tree.kid[n][d] # NULL => tree.up[tree.kid[n][d]] = n
               /\ \A n \in Present : tree.kid[n]["left"] = NULL
                                     \/ tree.kid[n]["left"] # tree.kid[n]["right"]
    <3>1. Shape(tree.up, tree.kid, Top, Present) /\ Below(Top) = Present
      BY <1>1, <2>2, Pointers
    <3>2. "left" \in Side /\ Other("left") = "right"
      BY DEF Side, Other
    <3> QED
      BY <3>1, <3>2 DEF Shape
  <2> QED
    BY <2>1, <2>2 DEF Linked
<1>2. IInv => Linked
  BY <1>1
<1> QED
  BY <1>2, Inductive, PTL

\* Smaller keys are to the left of every node and larger ones to the right, in
\* the middle of a call too; equal keys may be on both sides.
THEOREM TreeIsSorted == Spec => []Sorted
<1>1. ASSUME IInv PROVE Sorted
  <2> SUFFICES ASSUME pc # "free", NEW n \in Present
               PROVE  /\ \A m \in Below(tree.kid[n]["left"]) : key[m] <= key[n]
                      /\ \A m \in Below(tree.kid[n]["right"]) : key[m] >= key[n]
    BY DEF Sorted
  <2>1. /\ Sound(tree, Top, Present, Keys)
        /\ \A d \in Side : Below(tree.kid[n][d]) = Under(tree.kid, tree.kid[n][d])
    BY <1>1, Pointers
  <2>2. key \in Keys /\ "left" \in Side /\ "right" \in Side
    BY DEF Keys, Side
  <2>3. Ordered(tree.kid, Present, key)
    BY <2>1, <2>2 DEF Sound
  <2>4. \A m \in Below(tree.kid[n]["left"]) : Fits("left", key[m], key[n])
    BY <2>1, <2>2, <2>3 DEF Ordered
  <2>5. \A m \in Below(tree.kid[n]["right"]) : Fits("right", key[m], key[n])
    BY <2>1, <2>2, <2>3 DEF Ordered
  <2> QED
    BY <2>4, <2>5 DEF Fits
<1>2. IInv => Sorted
  BY <1>1
<1> QED
  BY <1>2, Inductive, PTL
-----------------------------------------------------------------------------
\* The colours.  Over(up, n) is what Above computes.
Over(up, n) == Reach([m \in Node |-> {up[m]}], {n} \ {NULL})
GrowUp(T, up) == T \cup ((UNION {{up[m]} : m \in T}) \ {NULL})
UpGrow(f, up) ==
    f = [T \in SUBSET Node |-> IF GrowUp(T, up) = T THEN T ELSE f[GrowUp(T, up)]]

LEMMA AboveIs ==
    ASSUME TypeOK, NEW n \in Pointer
    PROVE  Above(n) = Over(tree.up, n)
<1> DEFINE step == [m \in Node |-> {tree.up[m]}]
<1>1. step \in Leads
  BY DEF TypeOK, Leads
<1>2. {n} \ {NULL} \in SUBSET Node
  BY DEF Pointer
<1>3. Above(n) = (CHOOSE f : UpGrow(f, tree.up))[{n} \ {NULL}]
  BY DEF Above, Closure, UpGrow, GrowUp
<1>4. \A f : UpGrow(f, tree.up) <=> Grows(f, step)
  <2>1. \A T \in SUBSET Node : {{tree.up[m]} : m \in T} = {step[m] : m \in T}
    OBVIOUS
  <2>2. \A T \in SUBSET Node : Grow(T, step) = GrowUp(T, tree.up)
    BY <2>1, Zenon DEF Grow, GrowUp
  <2> HIDE DEF step
  <2> QED
    BY <2>2, Zenon DEF Grows, UpGrow
<1>5. Above(n) = (CHOOSE f : Grows(f, step))[{n} \ {NULL}]
  <2> HIDE DEF step
  <2> QED
    BY <1>3, <1>4, Zenon
<1> HIDE DEF step
<1> QED
  BY <1>1, <1>2, <1>5, ClosureIs DEF Over, step

\* The way up from a node is the node and the way up from its parent.
LEMMA OverIs ==
    ASSUME NEW up \in UPS, NEW kid \in KIDS, NEW r, NEW P, Shape(up, kid, r, P), NEW n \in P
    PROVE  /\ Over(up, n) \in SUBSET P
           /\ n = r => Over(up, n) = {n}
           /\ n # r => /\ Over(up, n) = {n} \cup Over(up, up[n])
                       /\ n \notin Over(up, up[n])
<1>1. PICK step : step = [m \in Node |-> {up[m]}]
  OBVIOUS
<1>2. step \in Leads
  BY <1>1 DEF Leads, UPS
<1>3. /\ P \in SUBSET Node /\ NULL \notin P /\ NULL \notin Node
      /\ (r # NULL => r \in P /\ up[r] = NULL) /\ r # NULL
      /\ \A e \in P : e # r => up[e] \in P /\ \E d \in Side : kid[up[e]][d] = e
  BY NullIsNoNode DEF Shape
<1>4. \A C \in SUBSET Node : Shut(step, C) <=> \A e \in C : up[e] # NULL => up[e] \in C
  BY <1>1 DEF Shut
<1>5. ASSUME NEW m \in P
      PROVE  /\ Over(up, m) = Reach(step, {m}) /\ Over(up, m) \in SUBSET Node
             /\ m \in Over(up, m)
             /\ \A e \in Over(up, m) : up[e] # NULL => up[e] \in Over(up, m)
             /\ \A C \in SUBSET Node :
                  m \in C /\ (\A e \in C : up[e] # NULL => up[e] \in C) => Over(up, m) \subseteq C
  <2>1. {m} \ {NULL} = {m} /\ {m} \in SUBSET Node
    BY <1>3
  <2>2. Over(up, m) = Reach(step, {m})
    BY <1>1, <2>1 DEF Over
  <2>3. /\ Over(up, m) \in SUBSET Node /\ {m} \subseteq Over(up, m) /\ Shut(step, Over(up, m))
        /\ \A C \in SUBSET Node : {m} \subseteq C /\ Shut(step, C) => Over(up, m) \subseteq C
    BY <1>2, <2>1, <2>2, ReachIs
  <2> QED
    BY <1>4, <2>2, <2>3
<1>6. Over(up, n) \in SUBSET P
  <2>1. \A e \in P : up[e] # NULL => up[e] \in P
    BY <1>3
  <2> QED
    BY <1>3, <1>5, <2>1
<1>7. ASSUME n = r PROVE Over(up, n) = {n}
  <2>1. \A e \in {n} : up[e] # NULL => up[e] \in {n}
    BY <1>3, <1>7
  <2>2. {n} \in SUBSET Node
    BY <1>3
  <2>3. Over(up, n) \subseteq {n}
    BY <1>5, <2>1, <2>2
  <2>4. n \in Over(up, n)
    BY <1>5
  <2> QED
    BY <2>3, <2>4
<1>8. ASSUME n # r
      PROVE  /\ Over(up, n) = {n} \cup Over(up, up[n])
             /\ n \notin Over(up, up[n])
  <2>1. PICK q \in P : q = up[n] /\ \E d \in Side : kid[q][d] = n
    BY <1>3, <1>8
  <2>2. Over(up, n) \subseteq {n} \cup Over(up, q)
    <3>1. \A e \in {n} \cup Over(up, q) : up[e] # NULL => up[e] \in {n} \cup Over(up, q)
      BY <1>5, <2>1
    <3>2. {n} \cup Over(up, q) \in SUBSET Node
      BY <1>3, <1>5
    <3> QED
      BY <1>5, <3>1, <3>2
  <2>3. Over(up, q) \subseteq Over(up, n)
    <3>1. q \in Over(up, n)
      BY <1>3, <1>5, <2>1
    <3> QED
      BY <1>5, <3>1
  <2>4. ASSUME n \in Over(up, q) PROVE FALSE
    <3>1. PICK C : C = {e \in P : q \in Under(kid, e)}
      OBVIOUS
    <3>2. q \in C
      BY <1>3, <2>1, <3>1, UnderIs DEF KIDS, Pointer
    <3>3. ASSUME NEW e \in C, up[e] # NULL PROVE up[e] \in C
      <4>1. e \in P /\ e # r
        BY <1>3, <3>1, <3>3
      <4>2. PICK d \in Side : kid[up[e]][d] = e
        BY <1>3, <4>1
      <4>3. up[e] \in P /\ up[e] \in Node /\ e # NULL
        BY <1>3, <4>1
      <4>4. Under(kid, kid[up[e]][d]) \subseteq Under(kid, up[e])
        BY <4>2, <4>3, UnderKid
      <4> QED
        BY <3>1, <4>2, <4>3, <4>4
    <3>4. C \in SUBSET Node
      BY <1>3, <3>1
    <3>5. n \in C
      BY <1>5, <2>1, <2>4, <3>2, <3>3, <3>4
    <3>6. q \in Under(kid, n)
      BY <3>1, <3>5
    <3>7. Under(kid, n) \in SUBSET P /\ n \in Under(kid, n)
      <4>1. Closed(kid, P) /\ n \in Pointer /\ n # NULL
        BY <1>3 DEF Shape, Closed, Pointer
      <4> QED
        BY <1>3, <4>1, UnderIs DEF KIDS
    <3>8. \A e \in Under(kid, n) : up[e] \in Under(kid, n)
      BY <2>1, <3>6, UpUnder
    <3> QED
      BY <3>7, <3>8 DEF Shape
  <2>5. n \in Over(up, n)
    BY <1>5
  <2>6. Over(up, n) = {n} \cup Over(up, q)
    BY <2>2, <2>3, <2>5
  <2> QED
    BY <2>1, <2>4, <2>6
<1> QED
  BY <1>6, <1>7, <1>8
-----------------------------------------------------------------------------
\* Every node has a height, which counts the black nodes on every way down from
\* it, itself included; on side b of q one is missing.
Weight(red, n) == IF red[n] THEN 0 ELSE 1
Height(h, n) == IF n = NULL THEN 0 ELSE h[n]
Lack(n, s, q, b) == IF n = q /\ s = b THEN 1 ELSE 0
Balanced(kid, red, P, h, q, b) ==
    /\ h \in [Node -> Nat]
    /\ \A n \in P : \A s \in Side : h[n] = Weight(red, n) + Height(h, kid[n][s]) + Lack(n, s, q, b)

\* The black nodes above a node and its height make the height of the root.
BlackOver(up, red, n) == Cardinality({m \in Over(up, n) : ~red[m]})
Credit(up, kid, q, b, n) == IF q # NULL /\ kid[q][b] \in Over(up, n) THEN 1 ELSE 0

LEMMA Levels ==
    ASSUME NEW up \in UPS, NEW kid \in KIDS, NEW r, NEW P, Shape(up, kid, r, P),
           NEW red \in [Node -> BOOLEAN], NEW h, NEW q, NEW b, Balanced(kid, red, P, h, q, b),
           q # NULL => q \in P /\ b \in Side, NEW n \in P
    PROVE  /\ BlackOver(up, red, n) \in Nat
           /\ BlackOver(up, red, n) + Credit(up, kid, q, b, n) + h[n] = h[r] + Weight(red, n)
<1>1. /\ P \in SUBSET Node /\ NULL \notin Node /\ r \in P /\ up[r] = NULL
      /\ \A e \in P : e # r => up[e] \in P /\ \E d \in Side : kid[up[e]][d] = e
      /\ \A e \in P : \A d \in Side :
            kid[e][d] # NULL => kid[e][d] \in P /\ up[kid[e][d]] = e
      /\ \A e \in P : \A d \in Side :
            kid[e][d] # NULL => kid[e][d] # kid[e][Other(d)]
  BY NullIsNoNode DEF Shape
<1>2. \A e \in P : h[e] \in Nat /\ Weight(red, e) \in {0, 1}
  BY <1>1 DEF Balanced, Weight
<1>3. ASSUME NEW e \in P
      PROVE  /\ Over(up, e) \in SUBSET P /\ IsFiniteSet({m \in Over(up, e) : ~red[m]})
             /\ BlackOver(up, red, e) \in Nat
  <2>1. Over(up, e) \in SUBSET P
    BY OverIs
  <2>2. {m \in Over(up, e) : ~red[m]} \in SUBSET Node
    BY <1>1, <2>1
  <2>3. IsFiniteSet({m \in Over(up, e) : ~red[m]})
    BY <2>2, NodesFinite, FS_Subset
  <2> QED
    BY <2>1, <2>3, FS_CardinalityType DEF BlackOver
<1>4. PICK S \in SUBSET P : S = {e \in P : BlackOver(up, red, e) + Credit(up, kid, q, b, e) + h[e]
                                           # h[r] + Weight(red, e)}
  OBVIOUS
<1>5. ASSUME S # {} PROVE FALSE
  <2>1. PICK e \in S : up[e] \notin S
    BY <1>5 DEF Shape
  <2>2. e \in P /\ BlackOver(up, red, e) + Credit(up, kid, q, b, e) + h[e] # h[r] + Weight(red, e)
    BY <1>4
  <2>3. CASE e = r
    <3>1. Over(up, e) = {e}
      BY <2>2, <2>3, OverIs
    <3>2. BlackOver(up, red, e) = Weight(red, e)
      <4>1. CASE red[e]
        <5>1. {m \in Over(up, e) : ~red[m]} = {}
          BY <3>1, <4>1
        <5> QED
          BY <4>1, <5>1, FS_EmptySet DEF BlackOver, Weight
      <4>2. CASE ~red[e]
        <5>1. {m \in Over(up, e) : ~red[m]} = {e}
          BY <3>1, <4>2
        <5> QED
          BY <4>2, <5>1, FS_Singleton DEF BlackOver, Weight
      <4> QED
        BY <4>1, <4>2
    <3>3. Credit(up, kid, q, b, e) = 0
      <4>1. ASSUME q # NULL, kid[q][b] = e PROVE FALSE
        <5>1. up[e] = q
          BY <1>1, <2>2, <4>1
        <5> QED
          BY <1>1, <2>3, <4>1, <5>1
      <4> QED
        BY <3>1, <4>1 DEF Credit
    <3> QED
      BY <1>2, <1>3, <2>2, <2>3, <3>2, <3>3
  <2>4. CASE e # r
    <3>1. PICK a \in P : a = up[e]
      BY <1>1, <2>2, <2>4
    <3>2. BlackOver(up, red, a) + Credit(up, kid, q, b, a) + h[a] = h[r] + Weight(red, a)
      BY <1>4, <2>1, <3>1
    <3>3. Over(up, e) = {e} \cup Over(up, a) /\ e \notin Over(up, a)
      BY <2>2, <2>4, <3>1, OverIs
    <3>4. BlackOver(up, red, e) = BlackOver(up, red, a) + Weight(red, e)
      <4>1. CASE red[e]
        <5>1. {m \in Over(up, e) : ~red[m]} = {m \in Over(up, a) : ~red[m]}
          BY <3>3, <4>1
        <5>2. BlackOver(up, red, e) = BlackOver(up, red, a) /\ Weight(red, e) = 0
          BY <4>1, <5>1 DEF BlackOver, Weight
        <5>3. BlackOver(up, red, a) \in Nat
          BY <1>3, <3>1
        <5>4. \A i \in Nat : i = i + 0
          OBVIOUS
        <5> QED
          BY <5>2, <5>3, <5>4
      <4>2. CASE ~red[e]
        <5>1. {m \in Over(up, e) : ~red[m]} = {m \in Over(up, a) : ~red[m]} \cup {e}
          BY <3>3, <4>2
        <5>2. e \notin {m \in Over(up, a) : ~red[m]}
          BY <3>3
        <5>3. Cardinality({m \in Over(up, a) : ~red[m]} \cup {e})
               = Cardinality({m \in Over(up, a) : ~red[m]}) + 1
          BY <1>3, <5>2, FS_AddElement
        <5> QED
          BY <4>2, <5>1, <5>3 DEF BlackOver, Weight
      <4> QED
        BY <4>1, <4>2
    <3>5. PICK s \in Side : kid[a][s] = e
      BY <1>1, <2>2, <2>4, <3>1
    <3>6. h[a] = Weight(red, a) + h[e] + Lack(a, s, q, b)
      BY <1>1, <2>2, <3>5 DEF Balanced, Height
    <3>7. Credit(up, kid, q, b, e) = Credit(up, kid, q, b, a) + Lack(a, s, q, b)
      <4>1. CASE q = NULL
        BY <1>1, <4>1 DEF Credit, Lack
      <4>2. CASE q # NULL /\ a = q /\ s = b
        <5>1. kid[q][b] = e
          BY <3>5, <4>2
        <5> QED
          BY <3>3, <4>2, <5>1 DEF Credit, Lack
      <4>3. CASE q # NULL /\ ~(a = q /\ s = b)
        <5>1. kid[q][b] # e
          <6>1. ASSUME kid[q][b] = e PROVE FALSE
            <7>1. up[e] = q /\ a = q
              BY <1>1, <2>2, <3>1, <4>3, <6>1
            <7>2. s = Other(b)
              BY <4>3, <7>1, Sides
            <7>3. kid[q][b] # kid[q][Other(b)]
              BY <1>1, <2>2, <4>3, <6>1
            <7> QED
              BY <3>5, <6>1, <7>1, <7>2, <7>3
          <6> QED
            BY <6>1
        <5> QED
          BY <3>3, <4>3, <5>1 DEF Credit, Lack
      <4> QED
        BY <4>1, <4>2, <4>3
    <3>8. Credit(up, kid, q, b, a) \in {0, 1} /\ Lack(a, s, q, b) \in {0, 1}
      BY DEF Credit, Lack
    <3>9. PICK be \in Nat, ba \in Nat : be = BlackOver(up, red, e) /\ ba = BlackOver(up, red, a)
      BY <1>3, <2>2
    <3>10. PICK ca \in Nat, la \in Nat : ca = Credit(up, kid, q, b, a) /\ la = Lack(a, s, q, b)
      BY <3>8
    <3>11. PICK wa \in Nat, we \in Nat : wa = Weight(red, a) /\ we = Weight(red, e)
      BY <1>2, <2>2
    <3>12. PICK ha \in Nat, he \in Nat, hr \in Nat : ha = h[a] /\ he = h[e] /\ hr = h[r]
      BY <1>1, <1>2, <2>2
    <3>13. ba + ca + ha = hr + wa /\ be = ba + we /\ ha = wa + he + la
      BY <3>2, <3>4, <3>6, <3>9, <3>10, <3>11, <3>12
    <3>14. be + (ca + la) + he = hr + we
      BY <3>13
    <3> QED
      BY <2>2, <3>7, <3>9, <3>10, <3>11, <3>12, <3>14
  <2> QED
    BY <2>3, <2>4
<1> QED
  BY <1>3, <1>4, <1>5
-----------------------------------------------------------------------------
\* Every way down passes the same number of black nodes, but for one on side b of q.
Even(kid, red, P, q, b) == \E h : Balanced(kid, red, P, h, q, b)

\* A red node has no red child, except for the child a and below b.
Ruled(kid, red, P, a, b) ==
    \A n \in P : \A s \in Side :
        red[n] /\ kid[n][s] # NULL /\ red[kid[n][s]] => kid[n][s] = a \/ n = b

\* m, a child of n, comes up, and n goes down on side d; the two exchange their
\* colours, red and any other.
Lifts(up, kid, P, n, m, d, kid2) ==
    /\ n \in P /\ m \in P /\ m # n /\ d \in Side /\ kid[n][Other(d)] = m /\ up[m] = n
    /\ \A e \in P : \A s \in Side :
          kid2[e][s] = IF e = n /\ s = Other(d) THEN kid[m][d] ELSE IF e = m /\ s = d THEN n
                       ELSE IF e = up[n] /\ kid[e][s] = n THEN m ELSE kid[e][s]
Exchanged(red, P, n, m, red2) ==
    /\ red[m]
    /\ \A e \in P : red2[e] = IF e = n THEN TRUE ELSE IF e = m THEN red[n] ELSE red[e]

\* No node is its own parent, nor the parent of its parent.
LEMMA NoTwoRing ==
    ASSUME NEW up, NEW kid, NEW r, NEW P, Shape(up, kid, r, P), NEW e \in P, NEW f \in P
    PROVE  up[e] # e /\ ~(up[e] = f /\ up[f] = e)
<1>1. {e} \in SUBSET P /\ {e} # {} /\ {e, f} \in SUBSET P /\ {e, f} # {}
  OBVIOUS
<1>2. \E z \in {e} : up[z] \notin {e}
  BY <1>1 DEF Shape
<1>3. \E z \in {e, f} : up[z] \notin {e, f}
  BY <1>1 DEF Shape
<1> QED
  BY <1>2, <1>3

\* What Shape says of one pointer.
LEMMA KidFacts ==
    ASSUME NEW up, NEW kid, NEW r, NEW P, Shape(up, kid, r, P)
    PROVE  /\ P \in SUBSET Node /\ NULL \notin P /\ NULL \notin Node
           /\ \A e \in P : \A s \in Side :
                kid[e][s] # NULL => kid[e][s] \in P /\ up[kid[e][s]] = e /\ kid[e][s] # e
           /\ \A e \in P : \A s \in Side : kid[e][s] # NULL => kid[e][s] # kid[e][Other(s)]
           /\ \A e \in P : e # r => up[e] \in P /\ \E s \in Side : kid[up[e]][s] = e
           /\ r # NULL => r \in P /\ up[r] = NULL
           /\ r = NULL => P = {}
           /\ \A e \in P : \A s \in Side : \A f \in P : \A u \in Side :
                kid[e][s] # NULL /\ kid[e][s] = kid[f][u] => e = f /\ s = u
<1>1. /\ P \in SUBSET Node /\ NULL \notin P /\ NULL \notin Node
      /\ \A e \in P : \A s \in Side :
            kid[e][s] # NULL => kid[e][s] \in P /\ up[kid[e][s]] = e /\ kid[e][s] # kid[e][Other(s)]
      /\ \A e \in P : e # r => up[e] \in P /\ \E s \in Side : kid[up[e]][s] = e
      /\ r # NULL => r \in P /\ up[r] = NULL
      /\ r = NULL => P = {}
  BY NullIsNoNode DEF Shape
<1>2. ASSUME NEW e \in P, NEW s \in Side, kid[e][s] = e PROVE FALSE
  <2>1. e \in P /\ up[e] = e
    BY <1>1, <1>2
  <2> QED
    BY <2>1, NoTwoRing
<1>3. ASSUME NEW e \in P, NEW s \in Side, NEW f \in P, NEW u \in Side,
             kid[e][s] # NULL, kid[e][s] = kid[f][u]
      PROVE  e = f /\ s = u
  <2>1. e = f
    BY <1>1, <1>3
  <2>2. u = s \/ u = Other(s)
    BY Sides
  <2> QED
    BY <1>1, <1>3, <2>1, <2>2
<1> QED
  BY <1>1, <1>2, <1>3

LEMMA WeightIs ==
    \A red, n : /\ Weight(red, n) \in Nat
                /\ red[n] = TRUE => Weight(red, n) = 0
                /\ red[n] = FALSE => Weight(red, n) = 1
  BY DEF Weight

Levelled(kid, red, P, h, q, b) ==
    /\ h \in [Node -> Nat]
    /\ \A n \in P : /\ h[n] \in Nat
                    /\ \A s \in Side : /\ Height(h, kid[n][s]) \in Nat
                                       /\ Lack(n, s, q, b) \in {0, 1}
                                       /\ h[n] = Weight(red, n) + Height(h, kid[n][s]) + Lack(n, s, q, b)

LEMMA BalanceIs ==
    ASSUME NEW kid \in KIDS, NEW red, NEW P \in SUBSET Node, NEW h, NEW q, NEW b,
           Balanced(kid, red, P, h, q, b)
    PROVE  Levelled(kid, red, P, h, q, b)
<1>1. h \in [Node -> Nat]
  BY DEF Balanced
<1>2. ASSUME NEW n \in P, NEW s \in Side PROVE Height(h, kid[n][s]) \in Nat
  <2>1. kid[n][s] \in Pointer
    BY DEF KIDS
  <2> QED
    BY <1>1, <2>1 DEF Height, Pointer
<1>3. \A n, s : Lack(n, s, q, b) \in {0, 1}
  BY DEF Lack
<1> QED
  BY <1>1, <1>2, <1>3 DEF Balanced, Levelled

LEMMA LiftBalanced ==
    ASSUME NEW up \in UPS, NEW kid \in KIDS, NEW r, NEW P, Shape(up, kid, r, P),
           NEW red \in [Node -> BOOLEAN], NEW red2 \in [Node -> BOOLEAN],
           NEW q, NEW b, Even(kid, red, P, q, b),
           NEW n, NEW m, NEW d, NEW kid2, Lifts(up, kid, P, n, m, d, kid2),
           m # q, n # q \/ b # Other(d), Exchanged(red, P, n, m, red2)
    PROVE  Even(kid2, red2, P, q, b)
<1>0. PICK h : Balanced(kid, red, P, h, q, b)
  BY DEF Even
<1>1. PICK h2 : h2 = [e \in Node |-> IF e = n THEN h[m] ELSE IF e = m THEN h[n] ELSE h[e]]
  OBVIOUS
<1>2. /\ n \in P /\ m \in P /\ m # n /\ d \in Side /\ kid[n][Other(d)] = m /\ up[m] = n /\ red[m]
      /\ Other(d) \in Side /\ Other(Other(d)) = d /\ Other(d) # d
  BY Sides DEF Lifts, Exchanged
<1>3. /\ P \in SUBSET Node /\ NULL \notin P /\ NULL \notin Node
      /\ \A e \in P : \A s \in Side :
           kid[e][s] # NULL => kid[e][s] \in P /\ up[kid[e][s]] = e /\ kid[e][s] # e
      /\ \A e \in P : \A s \in Side : \A f \in P : \A u \in Side :
           kid[e][s] # NULL /\ kid[e][s] = kid[f][u] => e = f /\ s = u
  BY KidFacts
<1>4. /\ h \in [Node -> Nat]
      /\ \A e \in P : /\ h[e] \in Nat
                      /\ \A s \in Side : /\ Height(h, kid[e][s]) \in Nat
                                         /\ Lack(e, s, q, b) \in {0, 1}
                                         /\ h[e] = Weight(red, e) + Height(h, kid[e][s]) + Lack(e, s, q, b)
  <2>1. P \in SUBSET Node
    BY <1>3
  <2>2. Levelled(kid, red, P, h, q, b)
    BY <1>0, <2>1, BalanceIs
  <2> QED
    BY <2>2 DEF Levelled
<1>5. h2 \in [Node -> Nat]
  BY <1>1, <1>2, <1>3, <1>4
<1>6. h2[n] = h[m] /\ h2[m] = h[n] /\ \A e \in Node : e # n /\ e # m => h2[e] = h[e]
  BY <1>1, <1>2, <1>3
<1>7. Weight(red, m) = 0 /\ Weight(red2, n) = 0 /\ Weight(red2, m) = Weight(red, n)
      /\ Weight(red, n) \in Nat
      /\ \A e \in P : e # n /\ e # m => Weight(red2, e) = Weight(red, e)
  BY <1>2, WeightIs DEF Exchanged, Weight
<1>8. \A s \in Side : Lack(m, s, q, b) = 0
  BY DEF Lack
<1>9. Lack(n, Other(d), q, b) = 0
  BY DEF Lack
<1>10. \A s \in Side : h[m] = Height(h, kid[m][s])
  BY <1>2, <1>4, <1>7, <1>8
<1>11. h[n] = Weight(red, n) + h[m]
  <2>1. Height(h, kid[n][Other(d)]) = h[m]
    BY <1>2, <1>3 DEF Height
  <2> QED
    BY <1>2, <1>4, <1>7, <1>9, <2>1
<1>12. Height(h, kid[n][d]) + Lack(n, d, q, b) = h[m]
  <2>1. h[n] = Weight(red, n) + Height(h, kid[n][d]) + Lack(n, d, q, b)
    BY <1>2, <1>4
  <2>2. Height(h, kid[n][d]) \in Nat /\ Lack(n, d, q, b) \in Nat /\ h[m] \in Nat
    BY <1>2, <1>4
  <2> QED
    BY <1>7, <1>11, <2>1, <2>2
<1>13. \A e \in Pointer : e # n /\ e # m => Height(h2, e) = Height(h, e)
  BY <1>6 DEF Height, Pointer
<1>14. ASSUME NEW e \in P, NEW s \in Side
       PROVE  h2[e] = Weight(red2, e) + Height(h2, kid2[e][s]) + Lack(e, s, q, b)
  <2>1. kid2[e][s] = IF e = n /\ s = Other(d) THEN kid[m][d] ELSE IF e = m /\ s = d THEN n
                     ELSE IF e = up[n] /\ kid[e][s] = n THEN m ELSE kid[e][s]
    BY DEF Lifts
  <2>2. kid[e][s] \in Pointer /\ kid[m][d] \in Pointer
    BY <1>2, <1>3 DEF KIDS
  <2>3. kid[m][d] # m /\ kid[m][d] # n
    <3>1. ASSUME kid[m][d] = n PROVE FALSE
      <4>1. up[n] = m /\ up[m] = n
        BY <1>2, <1>3, <3>1
      <4> QED
        BY <1>2, <4>1, NoTwoRing
    <3> QED
      BY <1>2, <1>3, <3>1
  <2>4. CASE e = n /\ s = Other(d)
    <3>1. Height(h2, kid2[e][s]) = Height(h, kid[m][d])
      BY <1>13, <2>1, <2>2, <2>3, <2>4
    <3> QED
      BY <1>2, <1>4, <1>6, <1>7, <1>9, <1>10, <2>4, <3>1
  <2>5. CASE e = n /\ s # Other(d)
    <3>1. s = d
      BY <2>5, <1>2, Sides
    <3>2. up[n] # n /\ kid[n][d] # n /\ kid[n][d] # m
      <4>1. up[n] # n
        BY <1>2, NoTwoRing
      <4> QED
        BY <1>2, <1>3, <4>1
    <3>3. Height(h2, kid2[e][s]) = Height(h, kid[n][d])
      BY <1>2, <1>13, <2>1, <2>2, <2>5, <3>1, <3>2
    <3>4. PICK i \in Nat, j \in Nat, k \in Nat : i = Height(h, kid[n][d]) /\ j = Lack(n, d, q, b) /\ k = h[m]
      BY <1>2, <1>4
    <3>5. k = 0 + i + j
      BY <1>12, <3>4
    <3> QED
      BY <1>6, <1>7, <2>5, <3>1, <3>3, <3>4, <3>5
  <2>6. CASE e = m /\ s = d
    <3>1. Height(h2, kid2[e][s]) = h[m]
      <4>1. kid2[e][s] = n /\ n # NULL
        BY <1>2, <1>3, <2>1, <2>6
      <4> QED
        BY <1>6, <4>1 DEF Height
    <3>2. PICK i \in Nat, k \in Nat, j \in Nat : i = Weight(red, n) /\ k = h[m] /\ j = h[n]
      BY <1>2, <1>4, <1>7
    <3>3. j = i + k + 0
      BY <1>11, <3>2
    <3> QED
      BY <1>6, <1>7, <1>8, <2>6, <3>1, <3>2, <3>3
  <2>7. CASE e = m /\ s # d
    <3>1. kid2[e][s] = kid[m][s] /\ kid[m][s] # m /\ kid[m][s] # n
      <4>1. ASSUME kid[m][s] = n PROVE FALSE
        <5>1. up[n] = m /\ up[m] = n
          BY <1>2, <1>3, <4>1
        <5> QED
          BY <1>2, <5>1, NoTwoRing
      <4> QED
        BY <1>2, <1>3, <2>1, <2>7, <4>1
    <3>2. Height(h2, kid2[e][s]) = h[m]
      BY <1>10, <1>13, <2>2, <2>7, <3>1
    <3>3. PICK i \in Nat, k \in Nat, j \in Nat : i = Weight(red, n) /\ k = h[m] /\ j = h[n]
      BY <1>2, <1>4, <1>7
    <3>4. j = i + k + 0
      BY <1>11, <3>3
    <3> QED
      BY <1>6, <1>7, <1>8, <2>7, <3>2, <3>3, <3>4
  <2>8. CASE e # n /\ e # m
    <3>1. Height(h2, kid2[e][s]) = Height(h, kid[e][s])
      <4>1. CASE kid[e][s] = n
        <5>1. up[n] = e /\ kid2[e][s] = m /\ m # NULL /\ n # NULL
          BY <1>2, <1>3, <2>1, <2>8, <4>1
        <5> QED
          BY <1>6, <4>1, <5>1 DEF Height
      <4>2. CASE kid[e][s] # n
        <5>1. kid2[e][s] = kid[e][s] /\ kid[e][s] # m
          BY <1>2, <1>3, <2>1, <2>8, <4>2
        <5> QED
          BY <1>13, <2>2, <4>2, <5>1
      <4> QED
        BY <4>1, <4>2
    <3>2. h2[e] = h[e] /\ Weight(red2, e) = Weight(red, e)
      BY <1>3, <1>6, <1>7, <2>8
    <3> QED
      BY <1>4, <3>1, <3>2
  <2> QED
    BY <2>4, <2>5, <2>6, <2>7, <2>8
<1> QED
  BY <1>5, <1>14 DEF Balanced, Even
-----------------------------------------------------------------------------
\* In the rotations of the loops the node that comes up is black then.
LEMMA LiftRuled ==
    ASSUME NEW up \in UPS, NEW kid \in KIDS, NEW r, NEW P, Shape(up, kid, r, P),
           NEW red \in [Node -> BOOLEAN], NEW red2 \in [Node -> BOOLEAN],
           NEW n, NEW m, NEW d, NEW kid2, Lifts(up, kid, P, n, m, d, kid2),
           \A e \in P : red2[e] => e = n \/ (e # m /\ red[e]),
           \A e \in P : \A s \in Side :
               e # n /\ e # m /\ red[e] /\ kid[e][s] # NULL => ~red[kid[e][s]],
           kid[n][d] # NULL => ~red[kid[n][d]], kid[m][d] # NULL => ~red[kid[m][d]]
    PROVE  Ruled(kid2, red2, P, NULL, NULL)
<1>1. /\ n \in P /\ m \in P /\ m # n /\ d \in Side /\ kid[n][Other(d)] = m /\ up[m] = n
      /\ Other(d) \in Side /\ Other(Other(d)) = d /\ Other(d) # d
  BY Sides DEF Lifts
<1>2. /\ P \in SUBSET Node /\ NULL \notin P /\ NULL \notin Node
      /\ \A e \in P : \A s \in Side :
           kid[e][s] # NULL => kid[e][s] \in P /\ up[kid[e][s]] = e /\ kid[e][s] # e
      /\ \A e \in P : \A s \in Side : \A f \in P : \A u \in Side :
           kid[e][s] # NULL /\ kid[e][s] = kid[f][u] => e = f /\ s = u
  BY KidFacts
<1>3. ~red2[m]
  BY <1>1
<1>4. ASSUME NEW e \in P, NEW s \in Side, red2[e], kid2[e][s] # NULL, red2[kid2[e][s]]
      PROVE  FALSE
  <2>1. kid2[e][s] = IF e = n /\ s = Other(d) THEN kid[m][d] ELSE IF e = m /\ s = d THEN n
                     ELSE IF e = up[n] /\ kid[e][s] = n THEN m ELSE kid[e][s]
    BY DEF Lifts
  <2>2. e # m
    BY <1>3, <1>4
  <2>3. CASE e = n /\ s = Other(d)
    <3>1. kid[m][d] \in P /\ kid[m][d] # n /\ kid2[e][s] = kid[m][d]
      BY <1>1, <1>2, <1>4, <2>1, <2>3, NoTwoRing
    <3> QED
      BY <1>1, <1>4, <3>1
  <2>4. CASE e = n /\ s # Other(d)
    <3>1. s = d
      BY <1>1, <2>4, Sides
    <3>2. kid2[e][s] = kid[n][d] /\ up[n] # n /\ kid[n][d] \in P /\ kid[n][d] # n
      BY <1>1, <1>2, <1>4, <2>1, <2>4, <3>1, NoTwoRing
    <3> QED
      BY <1>1, <1>4, <3>2
  <2>5. CASE e # n
    <3>1. kid2[e][s] # m
      BY <1>3, <1>4
    <3>2. kid2[e][s] = kid[e][s] /\ kid[e][s] \in P /\ kid[e][s] # n
      BY <1>1, <1>2, <1>4, <2>1, <2>2, <2>5, <3>1
    <3> QED
      BY <1>1, <1>4, <2>2, <2>5, <3>2
  <2> QED
    BY <2>3, <2>4, <2>5
<1> QED
  BY <1>4 DEF Ruled

\* k is on side b of q, or the root.
At(kid, r, P, q, b, k) == (q = NULL /\ k = r) \/ (q \in P /\ b \in Side /\ kid[q][b] = k)
Gives(red, P, m, red2) == ~red[m] /\ \A e \in P : red2[e] = IF e = m THEN TRUE ELSE red[e]

\* The sibling of the place where a black node is missing becomes red: then it
\* is missing one level up.
LEMMA UpBalanced ==
    ASSUME NEW up \in UPS, NEW kid \in KIDS, NEW r, NEW P, Shape(up, kid, r, P),
           NEW red \in [Node -> BOOLEAN], NEW red2 \in [Node -> BOOLEAN],
           NEW n \in P, NEW d \in Side, Even(kid, red, P, n, d),
           NEW m \in P, kid[n][Other(d)] = m, Gives(red, P, m, red2),
           NEW q, NEW b, At(kid, r, P, q, b, n)
    PROVE  Even(kid, red2, P, q, b)
<1>0. PICK h : Balanced(kid, red, P, h, n, d)
  BY DEF Even
<1>1. PICK h2 : h2 = [e \in Node |-> IF e = n \/ e = m THEN h[e] - 1 ELSE h[e]]
  OBVIOUS
<1>2. /\ P \in SUBSET Node /\ NULL \notin P /\ NULL \notin Node
      /\ \A e \in P : \A s \in Side :
           kid[e][s] # NULL => kid[e][s] \in P /\ up[kid[e][s]] = e /\ kid[e][s] # e
      /\ \A e \in P : \A s \in Side : \A f \in P : \A u \in Side :
           kid[e][s] # NULL /\ kid[e][s] = kid[f][u] => e = f /\ s = u
      /\ r # NULL => r \in P /\ up[r] = NULL
  BY KidFacts
<1>3. Levelled(kid, red, P, h, n, d)
  BY <1>0, <1>2, BalanceIs
<1>4. /\ h \in [Node -> Nat]
      /\ \A e \in P : /\ h[e] \in Nat
                      /\ \A s \in Side : /\ Height(h, kid[e][s]) \in Nat
                                         /\ Lack(e, s, n, d) \in {0, 1}
                                         /\ h[e] = Weight(red, e) + Height(h, kid[e][s]) + Lack(e, s, n, d)
  BY <1>3 DEF Levelled
<1>5. Other(d) \in Side /\ Other(d) # d /\ m # n /\ up[m] = n
  BY <1>2, Sides
<1>6. Weight(red, m) = 1 /\ Weight(red2, m) = 0 /\ \A e \in P : e # m => Weight(red2, e) = Weight(red, e)
  BY DEF Weight, Gives
<1>7. \A e \in P : Weight(red, e) \in Nat
  BY WeightIs
<1>8. Lack(n, d, n, d) = 1 /\ \A e, s : e # n \/ s # d => Lack(e, s, n, d) = 0
  BY DEF Lack
<1>9. h[n] - 1 \in Nat /\ h[m] - 1 \in Nat
  <2>1. \E i, j \in Nat : h[n] = i + j + 1
    BY <1>4, <1>7, <1>8
  <2>2. \E i, j \in Nat : h[m] = 1 + i + j
    <3>1. Height(h, kid[m][d]) \in Nat /\ Lack(m, d, n, d) \in Nat
      BY <1>4
    <3> QED
      BY <1>4, <1>6, <3>1
  <2> QED
    BY <2>1, <2>2
<1>10. h2 \in [Node -> Nat]
  BY <1>1, <1>2, <1>4, <1>9
<1>11. h2[n] = h[n] - 1 /\ h2[m] = h[m] - 1 /\ \A e \in Node : e # n /\ e # m => h2[e] = h[e]
  BY <1>1, <1>2
<1>12. \A e \in Pointer : e # n /\ e # m => Height(h2, e) = Height(h, e)
  BY <1>11 DEF Height, Pointer
<1>13. q # n /\ q # m
  <2>1. ASSUME kid[q][b] = n, q \in P, b \in Side, q = n \/ q = m PROVE FALSE
    <3>1. up[n] = q /\ n # q
      BY <1>2, <2>1
    <3> QED
      BY <1>5, <2>1, <3>1, NoTwoRing
  <2> QED
    BY <1>2, <2>1 DEF At
<1>14. ASSUME NEW e \in P, NEW s \in Side
       PROVE  h2[e] = Weight(red2, e) + Height(h2, kid[e][s]) + Lack(e, s, q, b)
  <2>1. kid[e][s] \in Pointer
    BY <1>2 DEF KIDS
  <2>2. PICK he \in Nat, we \in Nat, hk \in Nat :
           he = h[e] /\ we = Weight(red, e) /\ hk = Height(h, kid[e][s])
    BY <1>4, <1>7
  <2>3. CASE e = n /\ s = d
    <3>1. kid[e][s] # n /\ kid[e][s] # m
      BY <1>2, <1>5, <2>3
    <3>2. Height(h2, kid[e][s]) = hk /\ Lack(e, s, q, b) = 0 /\ Weight(red2, e) = we
      BY <1>5, <1>6, <1>12, <1>13, <2>1, <2>2, <2>3, <3>1 DEF Lack
    <3>3. he = we + hk + 1
      BY <1>4, <1>8, <2>2, <2>3
    <3>4. h2[e] = he - 1
      BY <1>11, <2>2, <2>3
    <3> QED
      BY <3>2, <3>3, <3>4
  <2>4. CASE e = n /\ s # d
    <3>1. kid[e][s] = m /\ m # NULL
      BY <1>2, <2>4, Sides
    <3>2. Height(h2, kid[e][s]) = hk - 1 /\ Lack(e, s, q, b) = 0 /\ Weight(red2, e) = we
      BY <1>5, <1>6, <1>11, <1>13, <2>2, <2>4, <3>1 DEF Lack, Height
    <3>3. he = we + hk + 0
      BY <1>4, <1>8, <2>2, <2>4
    <3>4. h2[e] = he - 1
      BY <1>11, <2>2, <2>4
    <3> QED
      BY <3>2, <3>3, <3>4
  <2>5. CASE e = m
    <3>1. kid[e][s] # m /\ kid[e][s] # n
      BY <1>2, <1>5, <2>5, NoTwoRing
    <3>2. Height(h2, kid[e][s]) = hk /\ Lack(e, s, q, b) = 0 /\ Weight(red2, e) = 0
      BY <1>6, <1>12, <1>13, <2>1, <2>2, <2>5, <3>1 DEF Lack
    <3>3. he = 1 + hk + 0
      BY <1>4, <1>5, <1>6, <1>8, <2>2, <2>5
    <3>4. h2[e] = he - 1
      BY <1>11, <2>2, <2>5
    <3> QED
      BY <3>2, <3>3, <3>4
  <2>6. CASE e # n /\ e # m /\ kid[e][s] = n
    <3>1. e = q /\ s = b
      BY <1>2, <2>6 DEF At
    <3>2. Height(h2, kid[e][s]) = hk - 1 /\ Lack(e, s, q, b) = 1 /\ Weight(red2, e) = we
      BY <1>2, <1>6, <1>11, <2>2, <2>6, <3>1 DEF Lack, Height
    <3>3. he = we + hk + 0
      BY <1>4, <1>8, <2>2, <2>6
    <3>4. h2[e] = he
      BY <1>2, <1>11, <2>2, <2>6
    <3> QED
      BY <3>2, <3>3, <3>4
  <2>7. CASE e # n /\ e # m /\ kid[e][s] # n
    <3>1. kid[e][s] # m /\ ~(e = q /\ s = b)
      BY <1>2, <1>5, <2>7 DEF At
    <3>2. Height(h2, kid[e][s]) = hk /\ Lack(e, s, q, b) = 0 /\ Weight(red2, e) = we
      BY <1>6, <1>12, <2>1, <2>2, <2>7, <3>1 DEF Lack
    <3>3. he = we + hk + 0
      BY <1>4, <1>8, <2>2, <2>7
    <3>4. h2[e] = he
      BY <1>2, <1>11, <2>2, <2>7
    <3> QED
      BY <3>2, <3>3, <3>4
  <2> QED
    BY <2>3, <2>4, <2>5, <2>6, <2>7
<1> QED
  BY <1>10, <1>14 DEF Balanced, Even
-----------------------------------------------------------------------------
Blackens(red, P, k, red2) == \A e \in P : red2[e] = IF e = k THEN FALSE ELSE red[e]

\* A red node becomes black: the root, or the one above which a black node is
\* missing.
LEMMA FillBalanced ==
    ASSUME NEW up \in UPS, NEW kid \in KIDS, NEW r, NEW P, Shape(up, kid, r, P),
           NEW red \in [Node -> BOOLEAN], NEW red2 \in [Node -> BOOLEAN],
           NEW q, NEW b, Even(kid, red, P, q, b),
           NEW k \in P, red[k], At(kid, r, P, q, b, k), Blackens(red, P, k, red2)
    PROVE  Even(kid, red2, P, NULL, "left")
<1>0. PICK h : Balanced(kid, red, P, h, q, b)
  BY DEF Even
<1>1. PICK h2 : h2 = [e \in Node |-> IF e = k THEN h[e] + 1 ELSE h[e]]
  OBVIOUS
<1>2. /\ P \in SUBSET Node /\ NULL \notin P /\ NULL \notin Node
      /\ \A e \in P : \A s \in Side :
           kid[e][s] # NULL => kid[e][s] \in P /\ up[kid[e][s]] = e /\ kid[e][s] # e
      /\ \A e \in P : \A s \in Side : \A f \in P : \A u \in Side :
           kid[e][s] # NULL /\ kid[e][s] = kid[f][u] => e = f /\ s = u
      /\ r # NULL => r \in P /\ up[r] = NULL
  BY KidFacts
<1>3. Levelled(kid, red, P, h, q, b)
  BY <1>0, <1>2, BalanceIs
<1>4. /\ h \in [Node -> Nat]
      /\ \A e \in P : /\ h[e] \in Nat
                      /\ \A s \in Side : /\ Height(h, kid[e][s]) \in Nat
                                         /\ Lack(e, s, q, b) \in {0, 1}
                                         /\ h[e] = Weight(red, e) + Height(h, kid[e][s]) + Lack(e, s, q, b)
  BY <1>3 DEF Levelled
<1>5. Weight(red, k) = 0 /\ Weight(red2, k) = 1 /\ \A e \in P : e # k => Weight(red2, e) = Weight(red, e)
  BY DEF Weight, Blackens
<1>6. \A e \in P : Weight(red, e) \in Nat
  BY WeightIs
<1>7. \A e \in P : \A s : Lack(e, s, NULL, "left") = 0
  BY <1>2 DEF Lack
<1>8. h2 \in [Node -> Nat]
  BY <1>1, <1>4
<1>9. h2[k] = h[k] + 1 /\ \A e \in Node : e # k => h2[e] = h[e]
  BY <1>1, <1>2
<1>10. \A e \in Pointer : e # k => Height(h2, e) = Height(h, e)
  BY <1>9 DEF Height, Pointer
<1>11. ASSUME NEW e \in P, NEW s \in Side
       PROVE  h2[e] = Weight(red2, e) + Height(h2, kid[e][s]) + Lack(e, s, NULL, "left")
  <2>1. kid[e][s] \in Pointer
    BY <1>2 DEF KIDS
  <2>2. PICK he \in Nat, we \in Nat, hk \in Nat :
           he = h[e] /\ we = Weight(red, e) /\ hk = Height(h, kid[e][s])
    BY <1>4, <1>6
  <2>3. CASE e = k
    <3>1. kid[e][s] # k /\ q # k
      BY <1>2, <2>3 DEF At
    <3>2. Height(h2, kid[e][s]) = hk /\ Lack(e, s, q, b) = 0 /\ Weight(red2, e) = 1
      BY <1>5, <1>10, <2>1, <2>2, <2>3, <3>1 DEF Lack
    <3>3. he = 0 + hk + 0
      BY <1>4, <1>5, <2>2, <2>3, <3>2
    <3>4. h2[e] = he + 1
      BY <1>9, <2>2, <2>3
    <3> QED
      BY <1>7, <3>2, <3>3, <3>4
  <2>4. CASE e # k /\ kid[e][s] = k
    <3>1. e = q /\ s = b
      BY <1>2, <2>4 DEF At
    <3>2. Height(h2, kid[e][s]) = hk + 1 /\ Lack(e, s, q, b) = 1 /\ Weight(red2, e) = we
      BY <1>2, <1>5, <1>9, <2>2, <2>4, <3>1 DEF Lack, Height
    <3>3. he = we + hk + 1
      BY <1>4, <2>2, <3>2
    <3>4. h2[e] = he
      BY <1>2, <1>9, <2>2, <2>4
    <3> QED
      BY <1>7, <3>2, <3>3, <3>4
  <2>5. CASE e # k /\ kid[e][s] # k
    <3>1. Height(h2, kid[e][s]) = hk /\ Lack(e, s, q, b) = 0 /\ Weight(red2, e) = we
      BY <1>2, <1>5, <1>10, <2>1, <2>2, <2>5 DEF Lack, At
    <3>2. he = we + hk + 0
      BY <1>4, <2>2, <3>1
    <3>3. h2[e] = he
      BY <1>2, <1>9, <2>2, <2>5
    <3> QED
      BY <1>7, <3>1, <3>2, <3>3
  <2> QED
    BY <2>3, <2>4, <2>5
<1> QED
  BY <1>8, <1>11 DEF Balanced, Even

Reddens(kid, red, P, g, red2) ==
    /\ ~red[g] /\ \A s \in Side : kid[g][s] # NULL /\ red[kid[g][s]]
    /\ \A e \in P : red2[e] = IF e = g THEN TRUE
                              ELSE IF \E s \in Side : e = kid[g][s] THEN FALSE ELSE red[e]

\* A black node and its two red children exchange their colours.
LEMMA RecolourBalanced ==
    ASSUME NEW up \in UPS, NEW kid \in KIDS, NEW r, NEW P, Shape(up, kid, r, P),
           NEW red \in [Node -> BOOLEAN], NEW red2 \in [Node -> BOOLEAN],
           Even(kid, red, P, NULL, "left"),
           NEW g \in P, Reddens(kid, red, P, g, red2)
    PROVE  Even(kid, red2, P, NULL, "left")
<1>0. PICK h : Balanced(kid, red, P, h, NULL, "left")
  BY DEF Even
<1>1. PICK h2 : h2 = [e \in Node |-> IF \E s \in Side : e = kid[g][s] THEN h[e] + 1 ELSE h[e]]
  OBVIOUS
<1>2. /\ P \in SUBSET Node /\ NULL \notin P /\ NULL \notin Node
      /\ \A e \in P : \A s \in Side :
           kid[e][s] # NULL => kid[e][s] \in P /\ up[kid[e][s]] = e /\ kid[e][s] # e
  BY KidFacts
<1>3. Levelled(kid, red, P, h, NULL, "left")
  BY <1>0, <1>2, BalanceIs
<1>4. /\ h \in [Node -> Nat]
      /\ \A e \in P : /\ h[e] \in Nat
                      /\ \A s \in Side : /\ Height(h, kid[e][s]) \in Nat
                                         /\ h[e] = Weight(red, e) + Height(h, kid[e][s]) + Lack(e, s, NULL, "left")
  BY <1>3 DEF Levelled
<1>5. \A e \in P : \A s : Lack(e, s, NULL, "left") = 0
  BY <1>2 DEF Lack
<1>6. h2 \in [Node -> Nat]
  BY <1>1, <1>4
<1>7. \A e \in Node : h2[e] = IF \E s \in Side : e = kid[g][s] THEN h[e] + 1 ELSE h[e]
  BY <1>1
<1>8. \A s \in Side : kid[g][s] \in P /\ kid[g][s] # g /\ red[kid[g][s]]
  BY <1>2 DEF Reddens
<1>9. ASSUME NEW e \in P, NEW s \in Side
      PROVE  h2[e] = Weight(red2, e) + Height(h2, kid[e][s]) + Lack(e, s, NULL, "left")
  <2>1. kid[e][s] \in Pointer
    BY <1>2 DEF KIDS
  <2>2. PICK he \in Nat, hk \in Nat : he = h[e] /\ hk = Height(h, kid[e][s])
    BY <1>4
  <2>3. CASE e = g
    <3>1. Height(h2, kid[e][s]) = hk + 1
      BY <1>2, <1>7, <1>8, <2>2, <2>3 DEF Height
    <3>2. Weight(red, e) = 1 /\ Weight(red2, e) = 0
      BY <2>3 DEF Weight, Reddens
    <3>3. he = 1 + hk + 0
      BY <1>4, <1>5, <2>2, <3>2
    <3>4. h2[e] = he
      BY <1>2, <1>7, <1>8, <2>2, <2>3
    <3> QED
      BY <1>5, <3>1, <3>2, <3>3, <3>4
  <2>4. CASE e # g
    <3>1. ~ \E u \in Side : kid[e][s] = kid[g][u]
      <4>1. ASSUME NEW u \in Side, kid[e][s] = kid[g][u] PROVE FALSE
        <5>1. up[kid[g][u]] = e /\ up[kid[g][u]] = g
          BY <1>2, <1>8, <4>1
        <5> QED
          BY <2>4, <5>1
      <4> QED
        BY <4>1
    <3>2. Height(h2, kid[e][s]) = hk
      BY <1>7, <2>1, <2>2, <3>1 DEF Height, Pointer
    <3>3. CASE \E u \in Side : e = kid[g][u]
      <4>1. Weight(red, e) = 0 /\ Weight(red2, e) = 1
        BY <1>8, <2>4, <3>3, ZenonT(30) DEF Weight, Reddens
      <4>2. he = 0 + hk + 0
        BY <1>4, <1>5, <2>2, <4>1
      <4>3. h2[e] = he + 1
        BY <1>2, <1>7, <2>2, <3>3
      <4> QED
        BY <1>5, <3>2, <4>1, <4>2, <4>3
    <3>4. CASE ~ \E u \in Side : e = kid[g][u]
      <4>1. Weight(red2, e) = Weight(red, e)
        BY <2>4, <3>4 DEF Weight, Reddens
      <4>2. PICK we \in Nat : we = Weight(red, e)
        BY WeightIs
      <4>3. he = we + hk + 0
        BY <1>4, <1>5, <2>2, <4>2
      <4>4. h2[e] = he
        BY <1>2, <1>7, <2>2, <3>4
      <4> QED
        BY <1>5, <3>2, <4>1, <4>2, <4>3, <4>4
    <3> QED
      BY <3>3, <3>4
  <2> QED
    BY <2>3, <2>4
<1> QED
  BY <1>6, <1>9 DEF Balanced, Even

Settles(kid, red, P, n, m, d, z, red2) ==
    /\ kid[m][Other(d)] = z /\ red[z] /\ ~red[m]
    /\ \A e \in P : red2[e] = IF e = m THEN red[n] ELSE IF e = n \/ e = z THEN FALSE ELSE red[e]

\* The last rotation of a removal: m, black, comes up with a red child z on
\* the outer side.
LEMMA LastBalanced ==
    ASSUME NEW up \in UPS, NEW kid \in KIDS, NEW r, NEW P, Shape(up, kid, r, P),
           NEW red \in [Node -> BOOLEAN], NEW red2 \in [Node -> BOOLEAN],
           NEW n, NEW m, NEW d, NEW kid2, Lifts(up, kid, P, n, m, d, kid2),
           Even(kid, red, P, n, d),
           NEW z \in P, Settles(kid, red, P, n, m, d, z, red2)
    PROVE  Even(kid2, red2, P, NULL, "left")
<1>0. PICK h : Balanced(kid, red, P, h, n, d)
  BY DEF Even
<1>1. PICK h2 : h2 = [e \in Node |-> IF e = n THEN h[m] ELSE IF e = m THEN h[n]
                                     ELSE IF e = z THEN h[z] + 1 ELSE h[e]]
  OBVIOUS
<1>2. /\ n \in P /\ m \in P /\ m # n /\ d \in Side /\ kid[n][Other(d)] = m /\ up[m] = n
      /\ Other(d) \in Side /\ Other(Other(d)) = d /\ Other(d) # d /\ kid[m][Other(d)] = z
  BY Sides DEF Lifts, Settles
<1>3. /\ P \in SUBSET Node /\ NULL \notin P /\ NULL \notin Node
      /\ \A e \in P : \A s \in Side :
           kid[e][s] # NULL => kid[e][s] \in P /\ up[kid[e][s]] = e /\ kid[e][s] # e
      /\ \A e \in P : \A s \in Side : \A f \in P : \A u \in Side :
           kid[e][s] # NULL /\ kid[e][s] = kid[f][u] => e = f /\ s = u
  BY KidFacts
<1>4. Levelled(kid, red, P, h, n, d)
  BY <1>0, <1>3, BalanceIs
<1>5. /\ h \in [Node -> Nat]
      /\ \A e \in P : /\ h[e] \in Nat
                      /\ \A s \in Side : /\ Height(h, kid[e][s]) \in Nat
                                         /\ h[e] = Weight(red, e) + Height(h, kid[e][s]) + Lack(e, s, n, d)
  BY <1>4 DEF Levelled
<1>6. \A e \in P : \A s : Lack(e, s, NULL, "left") = 0
  BY <1>3 DEF Lack
<1>7. \A e, s : Lack(e, s, n, d) = IF e = n /\ s = d THEN 1 ELSE 0
  BY DEF Lack
<1>8. z # m /\ z # n /\ up[z] = m /\ up[n] # n /\ up[n] # m /\ z # NULL
  BY <1>2, <1>3, NoTwoRing
<1>9. h2 \in [Node -> Nat]
  BY <1>1, <1>2, <1>3, <1>5
<1>10. /\ h2[n] = h[m] /\ h2[m] = h[n] /\ h2[z] = h[z] + 1
       /\ \A e \in Node : e # n /\ e # m /\ e # z => h2[e] = h[e]
  BY <1>1, <1>2, <1>3, <1>8
<1>11. \A e \in Pointer : e # n /\ e # m /\ e # z => Height(h2, e) = Height(h, e)
  BY <1>10 DEF Height, Pointer
<1>12. /\ Weight(red, m) = 1 /\ Weight(red, z) = 0 /\ Weight(red2, z) = 1 /\ Weight(red2, n) = 1
       /\ Weight(red2, m) = Weight(red, n)
       /\ \A e \in P : e # n /\ e # m /\ e # z => Weight(red2, e) = Weight(red, e)
  BY <1>2, <1>8 DEF Weight, Settles
<1>13. PICK hm \in Nat, hn \in Nat, hz \in Nat, wn \in Nat :
          hm = h[m] /\ hn = h[n] /\ hz = h[z] /\ wn = Weight(red, n)
  BY <1>2, <1>5, WeightIs
<1>14. PICK hc \in Nat, hi \in Nat : hc = Height(h, kid[n][d]) /\ hi = Height(h, kid[m][d])
  BY <1>2, <1>5
<1>15. hn = wn + hm /\ hn = wn + hc + 1 /\ hm = 1 + hi /\ hm = 1 + hz
  <2>1. Height(h, kid[n][Other(d)]) = hm /\ Height(h, kid[m][Other(d)]) = hz
    BY <1>2, <1>3, <1>8, <1>13 DEF Height
  <2>2. /\ Lack(n, Other(d), n, d) = 0 /\ Lack(n, d, n, d) = 1
        /\ Lack(m, d, n, d) = 0 /\ Lack(m, Other(d), n, d) = 0
    BY <1>2, <1>7
  <2>3. hn = wn + hm + 0
    BY <1>2, <1>5, <1>13, <2>1, <2>2
  <2>4. hn = wn + hc + 1
    BY <1>2, <1>5, <1>13, <1>14, <2>2
  <2>5. hm = 1 + hi + 0
    BY <1>2, <1>5, <1>12, <1>13, <1>14, <2>2
  <2>6. hm = 1 + hz + 0
    BY <1>2, <1>5, <1>12, <1>13, <2>1, <2>2
  <2> QED
    BY <2>3, <2>4, <2>5, <2>6
<1>16. ASSUME NEW e \in P, NEW s \in Side
       PROVE  h2[e] = Weight(red2, e) + Height(h2, kid2[e][s]) + Lack(e, s, NULL, "left")
  <2>1. kid2[e][s] = IF e = n /\ s = Other(d) THEN kid[m][d] ELSE IF e = m /\ s = d THEN n
                     ELSE IF e = up[n] /\ kid[e][s] = n THEN m ELSE kid[e][s]
    BY DEF Lifts
  <2>2. kid[e][s] \in Pointer /\ kid[m][d] \in Pointer
    BY <1>2, <1>3 DEF KIDS
  <2>3. CASE e = n /\ s = Other(d)
    <3>1. kid2[e][s] = kid[m][d] /\ kid[m][d] # m /\ kid[m][d] # n /\ kid[m][d] # z
      BY <1>2, <1>3, <1>8, <2>1, <2>3
    <3>2. Height(h2, kid2[e][s]) = hi
      BY <1>11, <1>14, <2>2, <3>1
    <3> QED
      BY <1>6, <1>10, <1>12, <1>13, <1>15, <2>3, <3>2
  <2>4. CASE e = n /\ s # Other(d)
    <3>1. s = d
      BY <1>2, <2>4, Sides
    <3>2. kid2[e][s] = kid[n][d] /\ kid[n][d] # n /\ kid[n][d] # m /\ kid[n][d] # z
      BY <1>2, <1>3, <1>8, <2>1, <2>4, <3>1
    <3>3. Height(h2, kid2[e][s]) = hc
      BY <1>11, <1>14, <2>2, <2>4, <3>1, <3>2
    <3>4. hm = 1 + hc + 0
      BY <1>15
    <3> QED
      BY <1>6, <1>10, <1>12, <1>13, <2>4, <3>3, <3>4
  <2>5. CASE e = m /\ s = d
    <3>1. kid2[e][s] = n /\ n # NULL
      BY <1>2, <1>3, <2>1, <2>5
    <3>2. Height(h2, kid2[e][s]) = hm
      BY <1>10, <1>13, <3>1 DEF Height
    <3>3. hn = wn + hm + 0
      BY <1>15
    <3> QED
      BY <1>6, <1>10, <1>12, <1>13, <2>5, <3>2, <3>3
  <2>6. CASE e = m /\ s # d
    <3>1. s = Other(d)
      BY <1>2, <2>6, Sides
    <3>2. kid2[e][s] = z
      BY <1>2, <1>3, <1>8, <2>1, <2>6, <3>1
    <3>3. Height(h2, kid2[e][s]) = hz + 1
      BY <1>8, <1>10, <1>13, <3>2 DEF Height
    <3>4. hn = wn + (hz + 1) + 0
      BY <1>15
    <3> QED
      BY <1>6, <1>10, <1>12, <1>13, <2>6, <3>3, <3>4
  <2>7. CASE e = z
    <3>1. kid[e][s] # n /\ kid[e][s] # m /\ kid[e][s] # z
      <4>1. ASSUME kid[z][s] = n PROVE FALSE
        <5>1. up[n] = z
          BY <1>2, <1>3, <4>1
        <5>2. {n, m, z} \in SUBSET P /\ {n, m, z} # {}
          BY <1>2
        <5>3. \E k \in {n, m, z} : up[k] \notin {n, m, z}
          BY <5>2 DEF Shape
        <5> QED
          BY <1>2, <1>8, <5>1, <5>3
      <4>2. kid[z][s] # m
        BY <1>2, <1>3, <1>8
      <4> QED
        BY <1>3, <2>7, <4>1, <4>2
    <3>2. PICK hk \in Nat : hk = Height(h, kid[e][s])
      BY <1>5
    <3>3. Height(h2, kid2[e][s]) = hk
      BY <1>8, <1>11, <2>1, <2>2, <2>7, <3>1, <3>2
    <3>4. hz = 0 + hk + 0
      BY <1>5, <1>7, <1>8, <1>12, <1>13, <2>7, <3>2
    <3>5. h2[e] = hz + 1
      BY <1>10, <1>13, <2>7
    <3> QED
      BY <1>6, <1>12, <2>7, <3>3, <3>4, <3>5
  <2>8. CASE e # n /\ e # m /\ e # z
    <3>1. PICK hk \in Nat, he \in Nat, we \in Nat :
             hk = Height(h, kid[e][s]) /\ he = h[e] /\ we = Weight(red, e)
      BY <1>5, WeightIs
    <3>2. Height(h2, kid2[e][s]) = hk
      <4>1. CASE kid[e][s] = n
        <5>1. kid2[e][s] = m /\ m # NULL /\ n # NULL
          BY <1>2, <1>3, <2>1, <2>8, <4>1
        <5> QED
          BY <1>10, <3>1, <4>1, <5>1 DEF Height
      <4>2. CASE kid[e][s] # n
        <5>1. kid2[e][s] = kid[e][s] /\ kid[e][s] # m /\ kid[e][s] # z
          BY <1>2, <1>3, <1>8, <2>1, <2>8, <4>2
        <5> QED
          BY <1>11, <2>2, <3>1, <4>2, <5>1
      <4> QED
        BY <4>1, <4>2
    <3>3. he = we + hk + 0
      BY <1>5, <1>7, <2>8, <3>1
    <3>4. h2[e] = he /\ Weight(red2, e) = we
      BY <1>3, <1>10, <1>12, <2>8, <3>1
    <3> QED
      BY <1>6, <3>2, <3>3, <3>4
  <2> QED
    BY <2>3, <2>4, <2>5, <2>6, <2>7, <2>8
<1> QED
  BY <1>9, <1>16 DEF Balanced, Even
-----------------------------------------------------------------------------
\* The rules hold but for the child a, below b, and for a black node missing
\* on side s of q.
Coloured(kid, red, P, a, b, q, s) ==
    Ruled(kid, red, P, a, b) /\ Even(kid, red, P, q, s)

\* What is outside the tree does not matter.
LEMMA SameColoured ==
    ASSUME NEW kid, NEW red, NEW P, NEW a, NEW b, NEW q, NEW s, Coloured(kid, red, P, a, b, q, s),
           NEW kid2, NEW red2,
           \A e \in P : red2[e] = red[e] /\ \A u \in Side : kid2[e][u] = kid[e][u],
           \A e \in P : \A u \in Side : kid[e][u] # NULL => kid[e][u] \in P
    PROVE  Coloured(kid2, red2, P, a, b, q, s)
<1>1. PICK h : Balanced(kid, red, P, h, q, s)
  BY DEF Coloured, Even
<1>2. Balanced(kid2, red2, P, h, q, s)
  BY <1>1 DEF Balanced, Weight
<1>3. Ruled(kid2, red2, P, a, b)
  BY DEF Ruled, Coloured
<1> QED
  BY <1>2, <1>3 DEF Coloured, Even

\* A tree without nodes.
LEMMA EmptyColoured ==
    ASSUME NEW kid, NEW red, NEW a, NEW b, NEW q, NEW s
    PROVE  Coloured(kid, red, {}, a, b, q, s)
<1>1. PICK h : h = [e \in Node |-> 0]
  OBVIOUS
<1>2. Balanced(kid, red, {}, h, q, s)
  BY <1>1 DEF Balanced
<1> QED
  BY <1>2 DEF Coloured, Even, Ruled

\* The new leaf is red.
LEMMA HangColoured ==
    ASSUME NEW up \in UPS, NEW kid \in KIDS, NEW r, NEW P, Shape(up, kid, r, P),
           NEW n, NEW q, NEW d, NEW up2, NEW kid2, NEW r2,
           Hangs(up, kid, r, P, n, q, d, up2, kid2, r2),
           NEW red, NEW red2, red2[n] = TRUE, \A e \in P : red2[e] = red[e],
           Coloured(kid, red, P, NULL, NULL, NULL, "left")
    PROVE  Coloured(kid2, red2, P \cup {n}, n, NULL, NULL, "left")
<1>1. PICK h : Balanced(kid, red, P, h, NULL, "left")
  BY DEF Coloured, Even
<1>2. /\ P \in SUBSET Node /\ NULL \notin P /\ NULL \notin Node /\ n \in Node /\ n \notin P
      /\ r = NULL => P = {}
      /\ \A e \in P : \A s \in Side : kid[e][s] # NULL => kid[e][s] \in P
      /\ r # NULL => q \in P /\ kid[q][d] = NULL
      /\ \A s \in Side : kid2[n][s] = NULL
      /\ \A e \in P : \A s \in Side : kid2[e][s] = IF e = q /\ s = d THEN n ELSE kid[e][s]
  BY KidFacts DEF Hangs
<1>3. PICK h2 : h2 = [h EXCEPT ![n] = 0]
  OBVIOUS
<1>4. h \in [Node -> Nat] /\ Levelled(kid, red, P, h, NULL, "left")
  BY <1>1, <1>2, BalanceIs DEF Balanced
<1>5. h2 \in [Node -> Nat] /\ h2[n] = 0 /\ \A e \in Node : e # n => h2[e] = h[e]
  BY <1>2, <1>3, <1>4
<1>6. ASSUME NEW e \in P \cup {n}, NEW s \in Side
      PROVE  h2[e] = Weight(red2, e) + Height(h2, kid2[e][s]) + Lack(e, s, NULL, "left")
  <2>1. CASE e = n
    <3>1. Height(h2, kid2[e][s]) = 0 /\ Weight(red2, e) = 0 /\ Lack(e, s, NULL, "left") = 0
      BY <1>2, <2>1 DEF Height, Weight, Lack
    <3> QED
      BY <1>5, <2>1, <3>1
  <2>2. CASE e # n
    <3>1. h[e] = Weight(red, e) + Height(h, kid[e][s]) + Lack(e, s, NULL, "left")
      BY <1>1, <2>2 DEF Balanced
    <3>2. h2[e] = h[e] /\ Weight(red2, e) = Weight(red, e)
      BY <1>2, <1>5, <2>2 DEF Weight
    <3>3. Height(h2, kid2[e][s]) = Height(h, kid[e][s])
      <4>1. CASE e = q /\ s = d
        <5>1. kid2[e][s] = n /\ kid[e][s] = NULL
          BY <1>2, <2>2, <4>1
        <5> QED
          BY <1>5, <5>1 DEF Height
      <4>2. CASE ~(e = q /\ s = d)
        <5>1. kid2[e][s] = kid[e][s] /\ kid[e][s] \in P \cup {NULL}
          BY <1>2, <2>2, <4>2
        <5> QED
          BY <1>2, <1>5, <5>1 DEF Height
      <4> QED
        BY <4>1, <4>2
    <3> QED
      BY <3>1, <3>2, <3>3
  <2> QED
    BY <2>1, <2>2
<1>7. Balanced(kid2, red2, P \cup {n}, h2, NULL, "left")
  BY <1>5, <1>6 DEF Balanced
<1>8. ASSUME NEW e \in P \cup {n}, NEW s \in Side,
             red2[e], kid2[e][s] # NULL, red2[kid2[e][s]], kid2[e][s] # n
      PROVE  FALSE
  <2>1. e \in P /\ kid2[e][s] = kid[e][s] /\ kid[e][s] \in P
    BY <1>2, <1>8
  <2>2. red[e] /\ red[kid[e][s]]
    BY <1>8, <2>1
  <2>3. Ruled(kid, red, P, NULL, NULL) /\ e # NULL /\ kid[e][s] # NULL
    BY <1>2, <2>1 DEF Coloured, Even
  <2> QED
    BY <2>1, <2>2, <2>3 DEF Ruled
<1>9. Ruled(kid2, red2, P \cup {n}, n, NULL)
  BY <1>8 DEF Ruled
<1> QED
  BY <1>7, <1>9 DEF Coloured, Even

\* Another node takes the place of n and its colour.
LEMMA ReplaceColoured ==
    ASSUME NEW up \in UPS, NEW kid \in KIDS, NEW r, NEW P, Shape(up, kid, r, P),
           NEW n, NEW m, NEW up2, NEW kid2, NEW r2,
           Replaces(up, kid, r, P, n, m, up2, kid2, r2),
           NEW red, NEW red2, red2[m] = red[n], \A e \in P : e # n => red2[e] = red[e],
           Coloured(kid, red, P, NULL, NULL, NULL, "left")
    PROVE  Coloured(kid2, red2, (P \ {n}) \cup {m}, NULL, NULL, NULL, "left")
<1>1. PICK h : Balanced(kid, red, P, h, NULL, "left")
  BY DEF Coloured, Even
<1>2. /\ P \in SUBSET Node /\ NULL \notin P /\ NULL \notin Node
      /\ n \in P /\ m \in Node /\ m \notin P /\ m # n
      /\ \A s \in Side : kid2[m][s] = kid[n][s]
      /\ \A e \in P : \A s \in Side :
            e # n => kid2[e][s] = IF e = up[n] /\ kid[e][s] = n THEN m ELSE kid[e][s]
      /\ \A e \in P : \A s \in Side :
           kid[e][s] # NULL => kid[e][s] \in P /\ up[kid[e][s]] = e /\ kid[e][s] # e
  BY KidFacts DEF Replaces
<1>3. PICK h2 : h2 = [h EXCEPT ![m] = h[n]]
  OBVIOUS
<1>4. h \in [Node -> Nat]
  BY <1>1 DEF Balanced
<1>5. h2 \in [Node -> Nat] /\ h2[m] = h[n] /\ \A e \in Node : e # m => h2[e] = h[e]
  BY <1>2, <1>3, <1>4
\* The nodes stand where others stood.
<1>6. PICK old : old = [e \in Node |-> IF e = m THEN n ELSE e]
  OBVIOUS
<1>7. ASSUME NEW e \in (P \ {n}) \cup {m}
      PROVE  /\ old[e] \in P /\ h2[e] = h[old[e]] /\ red2[e] = red[old[e]]
             /\ \A s \in Side : /\ kid2[e][s] = NULL <=> kid[old[e]][s] = NULL
                                /\ kid2[e][s] # NULL => /\ kid2[e][s] \in (P \ {n}) \cup {m}
                                                        /\ old[kid2[e][s]] = kid[old[e]][s]
  <2>1. old[e] \in P /\ h2[e] = h[old[e]] /\ red2[e] = red[old[e]]
    BY <1>2, <1>5, <1>6
  <2>2. ASSUME NEW s \in Side
        PROVE  /\ kid2[e][s] = NULL <=> kid[old[e]][s] = NULL
               /\ kid2[e][s] # NULL => /\ kid2[e][s] \in (P \ {n}) \cup {m}
                                       /\ old[kid2[e][s]] = kid[old[e]][s]
    <3>1. CASE e = m
      <4>1. old[e] = n /\ kid2[e][s] = kid[n][s]
        BY <1>2, <1>6, <3>1
      <4>2. kid[n][s] # NULL => kid[n][s] \in P /\ kid[n][s] # n /\ kid[n][s] # m
        BY <1>2
      <4> QED
        BY <1>2, <1>6, <4>1, <4>2
    <3>2. CASE e # m
      <4>1. e \in P /\ e # n /\ old[e] = e
        BY <1>2, <1>6, <3>2
      <4>2. CASE kid[e][s] = n
        <5>1. kid2[e][s] = m /\ n # NULL /\ m # NULL
          BY <1>2, <4>1, <4>2
        <5> QED
          BY <1>2, <1>6, <4>1, <4>2, <5>1
      <4>3. CASE kid[e][s] # n
        <5>1. kid2[e][s] = kid[e][s]
          BY <1>2, <4>1, <4>3
        <5>2. kid[e][s] # NULL => kid[e][s] \in P /\ kid[e][s] # m
          BY <1>2, <4>1
        <5> QED
          BY <1>2, <1>6, <4>1, <4>3, <5>1, <5>2
      <4> QED
        BY <4>2, <4>3
    <3> QED
      BY <3>1, <3>2
  <2> QED
    BY <2>1, <2>2
<1>8. ASSUME NEW e \in (P \ {n}) \cup {m}, NEW s \in Side
      PROVE  h2[e] = Weight(red2, e) + Height(h2, kid2[e][s]) + Lack(e, s, NULL, "left")
  <2>1. h[old[e]] = Weight(red, old[e]) + Height(h, kid[old[e]][s]) + Lack(old[e], s, NULL, "left")
    BY <1>1, <1>7 DEF Balanced
  <2>2. Weight(red2, e) = Weight(red, old[e])
    BY <1>7 DEF Weight
  <2>3. Height(h2, kid2[e][s]) = Height(h, kid[old[e]][s])
    <3>1. CASE kid2[e][s] = NULL
      BY <1>7, <3>1 DEF Height
    <3>2. CASE kid2[e][s] # NULL
      <4>1. kid2[e][s] \in (P \ {n}) \cup {m} /\ old[kid2[e][s]] = kid[old[e]][s] /\ kid[old[e]][s] # NULL
        BY <1>7, <3>2
      <4>2. h2[kid2[e][s]] = h[kid[old[e]][s]]
        BY <1>7, <4>1
      <4> QED
        BY <3>2, <4>1, <4>2 DEF Height
    <3> QED
      BY <3>1, <3>2
  <2>4. Lack(e, s, NULL, "left") = 0 /\ Lack(old[e], s, NULL, "left") = 0
    BY <1>2, <1>7 DEF Lack
  <2>5. h2[e] = h[old[e]]
    BY <1>7
  <2> QED
    BY <2>1, <2>2, <2>3, <2>4, <2>5
<1>9. Balanced(kid2, red2, (P \ {n}) \cup {m}, h2, NULL, "left")
  BY <1>5, <1>8 DEF Balanced
<1>10. ASSUME NEW e \in (P \ {n}) \cup {m}, NEW s \in Side,
              red2[e], kid2[e][s] # NULL, red2[kid2[e][s]]
       PROVE  FALSE
  <2>1. old[e] \in P /\ red[old[e]] /\ kid[old[e]][s] # NULL /\ kid2[e][s] \in (P \ {n}) \cup {m}
        /\ old[kid2[e][s]] = kid[old[e]][s]
    BY <1>7, <1>10
  <2>2. red[kid[old[e]][s]]
    BY <1>7, <1>10, <2>1
  <2>3. Ruled(kid, red, P, NULL, NULL) /\ old[e] # NULL
    BY <1>2, <2>1 DEF Coloured, Even
  <2> QED
    BY <2>1, <2>2, <2>3 DEF Ruled
<1>11. Ruled(kid2, red2, (P \ {n}) \cup {m}, NULL, NULL)
  BY <1>10 DEF Ruled
<1> QED
  BY <1>9, <1>11 DEF Coloured, Even
-----------------------------------------------------------------------------
\* The child of a node with one child at most is red.  When a red node leaves
\* its place, nothing is missing; when a black one does, its child has to make
\* up for it.
CutFacts(kid, red, P, m, c1, q, kid2) ==
    /\ \A s \in Side : kid[m][s] # NULL => red[kid[m][s]] /\ ~red[m]
    /\ \A b : (q = NULL \/ (b \in Side /\ kid[q][b] = m)) /\ ~red[m] =>
           Coloured(kid2, red, P \ {m}, c1, NULL, q, b)
    /\ red[m] => Coloured(kid2, red, P \ {m}, NULL, NULL, NULL, "left")

LEMMA CutColoured ==
    ASSUME NEW up \in UPS, NEW kid \in KIDS, NEW r, NEW P, Shape(up, kid, r, P),
           NEW m, NEW c1, NEW q, NEW up2, NEW kid2, NEW r2,
           Cuts(up, kid, r, P, m, c1, q, up2, kid2, r2),
           NEW red \in [Node -> BOOLEAN], Coloured(kid, red, P, NULL, NULL, NULL, "left")
    PROVE  CutFacts(kid, red, P, m, c1, q, kid2)
<1>1. PICK h : Balanced(kid, red, P, h, NULL, "left")
  BY DEF Coloured, Even
<1>2. PICK u \in Side : kid[m][u] = c1 /\ kid[m][Other(u)] = NULL
  BY DEF Cuts
<1>3. /\ P \in SUBSET Node /\ NULL \notin P /\ NULL \notin Node /\ m \in P /\ q = up[m]
      /\ \A e \in P : \A s \in Side :
            e # m => kid2[e][s] = IF e = q /\ kid[e][s] = m THEN c1 ELSE kid[e][s]
      /\ \A e \in P : \A s \in Side :
           kid[e][s] # NULL => kid[e][s] \in P /\ up[kid[e][s]] = e /\ kid[e][s] # e
      /\ \A e \in P : \A s \in Side : \A f \in P : \A v \in Side :
           kid[e][s] # NULL /\ kid[e][s] = kid[f][v] => e = f /\ s = v
      /\ Other(u) \in Side /\ \A s \in Side : s = u \/ s = Other(u)
  BY KidFacts, Sides DEF Cuts
<1>4. Levelled(kid, red, P, h, NULL, "left")
  BY <1>1, <1>3, BalanceIs
<1>5. /\ h \in [Node -> Nat]
      /\ \A e \in P : /\ h[e] \in Nat
                      /\ \A s \in Side : /\ Height(h, kid[e][s]) \in Nat
                                         /\ h[e] = Weight(red, e) + Height(h, kid[e][s]) + Lack(e, s, NULL, "left")
  BY <1>4 DEF Levelled
<1>6. \A e \in P : \A s : Lack(e, s, NULL, "left") = 0
  BY <1>3 DEF Lack
<1>7. Ruled(kid, red, P, NULL, NULL)
  BY DEF Coloured, Even
<1>8. h[m] = Weight(red, m) /\ Height(h, c1) = 0
  <2>1. PICK hm \in Nat, w \in Nat, hc \in Nat : hm = h[m] /\ w = Weight(red, m) /\ hc = Height(h, c1)
    BY <1>2, <1>3, <1>5, WeightIs
  <2>2. hm = w + hc + 0
    BY <1>2, <1>3, <1>5, <1>6, <2>1
  <2>3. hm = w + 0 + 0
    BY <1>2, <1>3, <1>5, <1>6, <2>1 DEF Height
  <2>4. hm = w /\ hc = 0
    BY <2>2, <2>3
  <2> QED
    BY <2>1, <2>4
<1>9. c1 # NULL => c1 \in P /\ red[c1] /\ ~red[m]
  <2> SUFFICES ASSUME c1 # NULL PROVE c1 \in P /\ red[c1] /\ ~red[m]
    OBVIOUS
  <2>1. c1 \in P /\ c1 \in Node
    BY <1>2, <1>3
  <2>2. h[c1] = 0
    BY <1>8 DEF Height
  <2>3. PICK w \in Nat, hk \in Nat : w = Weight(red, c1) /\ hk = Height(h, kid[c1][u])
    BY <1>5, <2>1, WeightIs
  <2>4. 0 = w + hk + 0
    BY <1>5, <1>6, <2>1, <2>2, <2>3
  <2>5. w = 0
    BY <2>4
  <2>6. red[c1]
    BY <2>1, <2>3, <2>5 DEF Weight
  <2>7. ~red[m]
    BY <1>2, <1>3, <1>7, <2>1, <2>6 DEF Ruled
  <2> QED
    BY <2>1, <2>6, <2>7
<1>10. \A s \in Side : kid[m][s] # NULL => red[kid[m][s]] /\ ~red[m]
  BY <1>2, <1>3, <1>9
<1>11. \A e \in P : \A s \in Side : e # m /\ kid[e][s] = m => e = q /\ kid2[e][s] = c1
  BY <1>3
<1>12. \A e \in P : \A s \in Side : e # m /\ kid[e][s] # m => kid2[e][s] = kid[e][s]
  BY <1>3
<1>13. ASSUME NEW g, NEW b, ~red[m] => (g = q /\ (q = NULL \/ (b \in Side /\ kid[q][b] = m))),
              red[m] => g = NULL
       PROVE  Balanced(kid2, red, P \ {m}, h, g, b)
  <2> SUFFICES ASSUME NEW e \in P \ {m}, NEW s \in Side
               PROVE  h[e] = Weight(red, e) + Height(h, kid2[e][s]) + Lack(e, s, g, b)
    BY <1>5 DEF Balanced
  <2>1. PICK he \in Nat, w \in Nat, hk \in Nat :
           he = h[e] /\ w = Weight(red, e) /\ hk = Height(h, kid[e][s])
    BY <1>5, WeightIs
  <2>2. he = w + hk + 0
    BY <1>5, <1>6, <2>1
  <2>3. CASE kid[e][s] = m
    <3>1. e = q /\ kid2[e][s] = c1 /\ e # NULL /\ m # NULL
      BY <1>3, <1>11, <2>3
    <3>2. hk = Weight(red, m)
      BY <1>8, <2>1, <2>3, <3>1 DEF Height
    <3>3. CASE red[m]
      <4>1. Lack(e, s, g, b) = 0 /\ hk = 0
        BY <1>13, <3>1, <3>2, <3>3 DEF Lack, Weight
      <4> QED
        BY <1>8, <2>1, <2>2, <3>1, <4>1
    <3>4. CASE ~red[m]
      <4>1. s = b
        BY <1>3, <1>13, <2>3, <3>1, <3>4
      <4>2. Lack(e, s, g, b) = 1 /\ hk = 1
        BY <1>13, <3>1, <3>2, <3>4, <4>1 DEF Lack, Weight
      <4>3. he = w + 0 + 1
        BY <2>2, <4>2
      <4> QED
        BY <1>8, <2>1, <3>1, <4>2, <4>3
    <3> QED
      BY <3>3, <3>4
  <2>4. CASE kid[e][s] # m
    <3>1. kid2[e][s] = kid[e][s]
      BY <1>12, <2>4
    <3>2. Lack(e, s, g, b) = 0
      BY <1>3, <1>13, <2>4 DEF Lack
    <3> QED
      BY <2>1, <2>2, <3>1, <3>2
  <2> QED
    BY <2>3, <2>4
<1>14. ASSUME NEW a, c1 = a \/ c1 = NULL
       PROVE  Ruled(kid2, red, P \ {m}, a, NULL)
  <2> SUFFICES ASSUME NEW e \in P \ {m}, NEW s \in Side,
                      red[e], kid2[e][s] # NULL, red[kid2[e][s]], kid2[e][s] # a
               PROVE  FALSE
    BY DEF Ruled
  <2>1. kid2[e][s] = kid[e][s]
    BY <1>11, <1>12, <1>14
  <2>2. e # NULL
    BY <1>3
  <2> QED
    BY <1>7, <2>1, <2>2 DEF Ruled
<1>15. ASSUME NEW b, (q = NULL \/ (b \in Side /\ kid[q][b] = m)) /\ ~red[m]
       PROVE  Coloured(kid2, red, P \ {m}, c1, NULL, q, b)
  <2>1. Balanced(kid2, red, P \ {m}, h, q, b)
    BY <1>13, <1>15
  <2>2. Ruled(kid2, red, P \ {m}, c1, NULL)
    BY <1>14
  <2> QED
    BY <2>1, <2>2 DEF Coloured, Even
<1>16. ASSUME red[m]
       PROVE  Coloured(kid2, red, P \ {m}, NULL, NULL, NULL, "left")
  <2>1. Balanced(kid2, red, P \ {m}, h, NULL, "left")
    BY <1>13, <1>16
  <2>2. c1 = NULL
    BY <1>9, <1>16
  <2>3. Ruled(kid2, red, P \ {m}, NULL, NULL)
    BY <1>14, <2>2
  <2> QED
    BY <2>1, <2>3 DEF Coloured, Even
<1> QED
  BY <1>10, <1>15, <1>16 DEF CutFacts
-----------------------------------------------------------------------------
\* The rules hold at every step, but for x, below c, and where c is short of a
\* black node.
Holed == pc = "remove" /\ c # tree.root /\ p # NULL
RBInv == kind = "rbt" /\ pc # "free" =>
    /\ pc \in {"out", "travel", "replace"} =>
           Coloured(tree.kid, tree.red, Present, NULL, NULL, NULL, "left")
    /\ pc = "insert" => Coloured(tree.kid, tree.red, Present, x, NULL, NULL, "left")
    /\ pc = "remove" /\ ~Holed => /\ Coloured(tree.kid, tree.red, Present, NULL, c, NULL, "left")
                                  /\ p = NULL => c = Top
    /\ Holed => \E d \in Side : /\ tree.kid[p][d] = c
                                /\ Coloured(tree.kid, tree.red, Present, NULL, c, p, d)

LEMMA RestRB ==
    ASSUME pc' \in {"out", "travel"},
           kind' = "rbt" => Coloured(tree'.kid, tree'.red, inside', NULL, NULL, NULL, "left")
    PROVE  RBInv'
<1>1. Present' = inside'
  BY DEF Present, Removing
<1> QED
  BY <1>1 DEF RBInv, Holed

LEMMA AtRestRB ==
    ASSUME RBInv, kind = "rbt", pc \in {"out", "travel"}
    PROVE  Coloured(tree.kid, tree.red, inside, NULL, NULL, NULL, "left")
<1>1. Present = inside
  BY DEF Present, Removing
<1> QED
  BY <1>1 DEF RBInv

LEMMA InitRB ==
    ASSUME Init
    PROVE  RBInv
<1>1. Present = {} /\ pc = "out"
  BY DEF Init, Present, Removing
<1>2. Coloured(tree.kid, tree.red, Present, NULL, NULL, NULL, "left")
  BY <1>1, EmptyColoured
<1> QED
  BY <1>1, <1>2 DEF RBInv, Holed

LEMMA StutterRB ==
    ASSUME RBInv, UNCHANGED vars
    PROVE  RBInv'
  BY DEF RBInv, Holed, Present, Top, Removing, vars

\* The steps that read the tree only, and those that take it down.
LEMMA QuietRB ==
    ASSUME RBInv, FreeAll \/ FreeHead \/ FreeDone \/ Travel \/ Visit \/ TravelDone
    PROVE  RBInv'
<1>1. CASE FreeAll \/ FreeHead
  <2>1. pc' = "free"
    BY <1>1 DEF FreeAll, FreeHead
  <2> QED
    BY <2>1 DEF RBInv
<1>2. CASE FreeDone
  <2>1. pc' = "out" /\ inside' = {}
    BY <1>2 DEF FreeDone, Return
  <2>2. Coloured(tree'.kid, tree'.red, inside', NULL, NULL, NULL, "left")
    BY <2>1, EmptyColoured
  <2> QED
    BY <2>1, <2>2, RestRB
<1>3. CASE Travel \/ Visit \/ TravelDone
  <2>1. /\ pc \in {"out", "travel"} /\ pc' \in {"out", "travel"}
        /\ tree' = tree /\ inside' = inside /\ kind' = kind
    BY <1>3 DEF Travel, Visit, TravelDone, Return
  <2>2. kind' = "rbt" => Coloured(tree'.kid, tree'.red, inside', NULL, NULL, NULL, "left")
    BY <2>1, AtRestRB
  <2> QED
    BY <2>1, <2>2, RestRB
<1> QED
  BY <1>1, <1>2, <1>3
-----------------------------------------------------------------------------
\* The places of x outside the removals, as the loop of rbt_insert_node sees them.
LEMMA InsertingIs ==
    ASSUME IInv, RBInv, pc = "insert"
    PROVE  /\ kind = "rbt" /\ x \in inside /\ tree.red[x]
           /\ Coloured(tree.kid, tree.red, inside, x, NULL, NULL, "left")
           /\ tree \in Trees /\ tree.up \in UPS /\ tree.kid \in KIDS /\ tree.red \in [Node -> BOOLEAN]
           /\ Shape(tree.up, tree.kid, tree.root, inside)
           /\ inside \in SUBSET Node /\ NULL \notin inside
<1>1. kind = "rbt" /\ x \in inside /\ tree.red[x]
  BY DEF IInv, Loops
<1>2. Present = inside
  BY DEF Present, Removing
<1>3. Coloured(tree.kid, tree.red, inside, x, NULL, NULL, "left")
  BY <1>1, <1>2 DEF RBInv
<1>4. Sound(tree, tree.root, inside, {key})
  BY AtRest
<1>5. tree \in Trees /\ Shape(tree.up, tree.kid, tree.root, inside)
  BY <1>4 DEF Sound
<1>6. tree.up \in UPS /\ tree.kid \in KIDS /\ tree.red \in [Node -> BOOLEAN]
  BY <1>5, Fields
<1>7. inside \in SUBSET Node /\ NULL \notin inside
  BY <1>5, KidFacts
<1> QED
  BY <1>1, <1>3, <1>5, <1>6, <1>7

LEMMA InsertDoneRB ==
    ASSUME IInv, RBInv, InsertDone
    PROVE  RBInv'
<1>1. pc = "insert" /\ pc' = "out" /\ kind' = kind /\ inside' = inside /\ ~Red(tree, Parent)
      /\ tree' = Colour(tree, {tree.root}, FALSE)
  BY DEF InsertDone, Return
<1>2. /\ kind = "rbt" /\ x \in inside /\ tree.red[x]
      /\ Coloured(tree.kid, tree.red, inside, x, NULL, NULL, "left")
      /\ tree \in Trees /\ tree.up \in UPS /\ tree.kid \in KIDS /\ tree.red \in [Node -> BOOLEAN]
      /\ Shape(tree.up, tree.kid, tree.root, inside)
      /\ inside \in SUBSET Node /\ NULL \notin inside
  BY <1>1, InsertingIs
<1>3. IsColoured(tree, {tree.root}, FALSE, tree')
  BY <1>1, <1>2, ColourIs
<1>4. /\ tree' \in Trees /\ tree'.kid = tree.kid
      /\ \A e \in Node : tree'.red[e] = IF e = tree.root THEN FALSE ELSE tree.red[e]
  BY <1>3 DEF IsColoured
<1>5. PICK red2 \in [Node -> BOOLEAN] : red2 = tree'.red
  BY <1>4, Fields
<1>6. Ruled(tree.kid, red2, inside, NULL, NULL)
  <2> SUFFICES ASSUME NEW e \in inside, NEW s \in Side,
                      red2[e], tree.kid[e][s] # NULL, red2[tree.kid[e][s]]
               PROVE  FALSE
    BY DEF Ruled
  <2>1. tree.kid[e][s] \in inside /\ tree.up[tree.kid[e][s]] = e
    BY <1>2, KidFacts
  <2>2. tree.red[e] /\ tree.red[tree.kid[e][s]]
    BY <1>2, <1>4, <1>5, <2>1
  <2>3. tree.kid[e][s] = x
    BY <1>2, <2>1, <2>2 DEF Coloured, Ruled
  <2>4. e = Parent /\ Red(tree, e)
    BY <1>2, <2>1, <2>2, <2>3 DEF Parent, Red
  <2> QED
    BY <1>1, <2>4
<1>7. Even(tree.kid, tree.red, inside, NULL, "left")
  BY <1>2 DEF Coloured
<1>8. Even(tree.kid, red2, inside, NULL, "left")
  <2>1. tree.root \in inside
    BY <1>2, KidFacts
  <2>2. Blackens(tree.red, inside, tree.root, red2)
    BY <1>2, <1>4, <1>5 DEF Blackens
  <2>3. CASE tree.red[tree.root]
    <3>1. At(tree.kid, tree.root, inside, NULL, "left", tree.root)
      BY DEF At
    <3> QED
      BY <1>2, <1>5, <1>7, <2>1, <2>2, <2>3, <3>1, FillBalanced
  <2>4. CASE ~tree.red[tree.root]
    <3>1. \A e \in inside : Weight(red2, e) = Weight(tree.red, e)
      BY <2>2, <2>4 DEF Weight, Blackens
    <3> QED
      BY <1>7, <3>1 DEF Balanced, Even
  <2> QED
    BY <2>3, <2>4
<1>9. Coloured(tree'.kid, tree'.red, inside', NULL, NULL, NULL, "left")
  BY <1>1, <1>4, <1>5, <1>6, <1>8 DEF Coloured
<1> QED
  BY <1>1, <1>9, RestRB
-----------------------------------------------------------------------------
\* The parent of two red nodes above each other is black.
LEMMA GrandBlack ==
    ASSUME IInv, RBInv, pc = "insert", Red(tree, Parent)
    PROVE  /\ x \in inside /\ Parent \in inside /\ Grand \in inside /\ Parent # tree.root
           /\ x # Parent /\ Parent # Grand /\ x # Grand
           /\ tree.red[x] /\ tree.red[Parent] /\ ~tree.red[Grand]
           /\ \E d \in Side : tree.kid[Grand][d] = Parent
           /\ \E d \in Side : tree.kid[Parent][d] = x
<1>1. /\ x \in inside /\ Parent \in inside /\ Grand \in inside /\ Parent # tree.root
      /\ x # Parent /\ Parent # Grand /\ x # Grand /\ ~tree.red[tree.root]
  BY GrandIs
<1>2. /\ tree.red[x] /\ Coloured(tree.kid, tree.red, inside, x, NULL, NULL, "left")
      /\ Shape(tree.up, tree.kid, tree.root, inside) /\ NULL \notin inside
  BY InsertingIs
<1>3. tree.red[Parent]
  BY DEF Red
<1>4. \A e \in inside : e # tree.root => tree.up[e] \in inside /\ \E s \in Side : tree.kid[tree.up[e]][s] = e
  BY <1>2, KidFacts
<1>5. x # tree.root
  BY <1>1, <1>2
<1>6. PICK d \in Side : tree.kid[Grand][d] = Parent
  BY <1>1, <1>4 DEF Grand
<1>7. PICK s \in Side : tree.kid[Parent][s] = x
  BY <1>1, <1>4, <1>5 DEF Parent
<1>8. ~tree.red[Grand]
  BY <1>1, <1>2, <1>3, <1>6 DEF Coloured, Ruled
<1> QED
  BY <1>1, <1>2, <1>3, <1>6, <1>7, <1>8

LEMMA InsertRecolourRB ==
    ASSUME IInv, RBInv, InsertRecolour
    PROVE  RBInv'
<1>1. pc = "insert" /\ pc' = pc /\ kind' = kind /\ inside' = inside /\ Red(tree, Parent)
      /\ x' = Grand /\ \A d \in Side : Red(tree, tree.kid[Grand][d])
  BY DEF InsertRecolour
<1>2. /\ kind = "rbt" /\ x \in inside /\ tree.red[x]
      /\ Coloured(tree.kid, tree.red, inside, x, NULL, NULL, "left")
      /\ tree \in Trees /\ tree.up \in UPS /\ tree.kid \in KIDS /\ tree.red \in [Node -> BOOLEAN]
      /\ Shape(tree.up, tree.kid, tree.root, inside)
      /\ inside \in SUBSET Node /\ NULL \notin inside
  BY <1>1, InsertingIs
<1>3. PICK g : g = Grand
  OBVIOUS
<1>4. PICK n : n = Parent
  OBVIOUS
<1>5. /\ n \in inside /\ g \in inside /\ x # n /\ n # g /\ x # g
      /\ tree.red[n] /\ ~tree.red[g] /\ tree.up[x] = n
      /\ \E d \in Side : tree.kid[g][d] = n
  <2>1. tree.up[x] = Parent
    BY DEF Parent
  <2> QED
    BY <1>1, <1>3, <1>4, <2>1, GrandBlack
<1>6. PICK kids : kids = {tree.kid[g][d] : d \in Side}
  OBVIOUS
<1>7. PICK t1 : t1 = Colour(tree, kids, FALSE)
  OBVIOUS
<1>8. tree' = Colour(t1, {g}, TRUE)
  BY <1>3, <1>6, <1>7 DEF InsertRecolour
<1>9. IsColoured(tree, kids, FALSE, t1)
  BY <1>2, <1>7, ColourIs
<1>10. IsColoured(t1, {g}, TRUE, tree')
  <2>1. t1 \in Trees
    BY <1>9 DEF IsColoured
  <2> QED
    BY <1>8, <2>1, ColourIs
<1>11. /\ tree' \in Trees /\ tree'.kid = tree.kid
       /\ \A e \in Node : tree'.red[e] = IF e = g THEN TRUE ELSE IF e \in kids THEN FALSE ELSE tree.red[e]
  BY <1>9, <1>10 DEF IsColoured
<1>12. PICK red2 \in [Node -> BOOLEAN] : red2 = tree'.red
  BY <1>11, Fields
<1>13. \A e \in inside : red2[e] = IF e = g THEN TRUE
                                   ELSE IF \E s \in Side : e = tree.kid[g][s] THEN FALSE ELSE tree.red[e]
  BY <1>2, <1>6, <1>11, <1>12
<1>14. \A s \in Side : tree.kid[g][s] # NULL /\ tree.red[tree.kid[g][s]]
  BY <1>1, <1>3 DEF Red
<1>15. Even(tree.kid, red2, inside, NULL, "left")
  <2>1. Even(tree.kid, tree.red, inside, NULL, "left")
    BY <1>2 DEF Coloured
  <2>2. Reddens(tree.kid, tree.red, inside, g, red2)
    BY <1>5, <1>13, <1>14 DEF Reddens
  <2> QED
    BY <1>2, <1>5, <1>12, <2>1, <2>2, RecolourBalanced
<1>16. Ruled(tree.kid, red2, inside, g, NULL)
  <2> SUFFICES ASSUME NEW e \in inside, NEW s \in Side,
                      red2[e], tree.kid[e][s] # NULL, red2[tree.kid[e][s]], tree.kid[e][s] # g
               PROVE  FALSE
    BY DEF Ruled
  <2>1. tree.kid[e][s] \in inside /\ tree.up[tree.kid[e][s]] = e
    BY <1>2, KidFacts
  <2>2. e # g /\ tree.red[e] /\ tree.red[tree.kid[e][s]]
    BY <1>13, <2>1
  <2>3. tree.kid[e][s] = x
    BY <1>2, <2>1, <2>2 DEF Coloured, Ruled
  <2>4. e = n
    BY <1>5, <2>1, <2>3
  <2> QED
    BY <1>5, <1>13, <2>4
<1>17. Present' = inside
  BY <1>1 DEF Present, Removing
<1>18. Coloured(tree'.kid, tree'.red, Present', x', NULL, NULL, "left")
  BY <1>1, <1>3, <1>11, <1>12, <1>15, <1>16, <1>17 DEF Coloured
<1> QED
  BY <1>1, <1>18 DEF RBInv, Holed
-----------------------------------------------------------------------------
LEMMA InsertRB ==
    ASSUME IInv, RBInv, NEW n \in Node, Insert(n)
    PROVE  RBInv'
<1>1. /\ pc = "out" /\ n \notin inside /\ inside' = inside \cup {n} /\ kind' = kind
      /\ tree' = Hung(tree, n)
      /\ IF kind = "bst" THEN pc' = pc /\ x' = x ELSE pc' = "insert" /\ x' = n
  BY DEF Insert
<1>2. CASE kind # "rbt"
  BY <1>1, <1>2 DEF RBInv
<1>3. CASE kind = "rbt"
  <2>1. Sound(tree, tree.root, inside, {key}) /\ key \in [Node -> Int]
    BY <1>1, AtRest, TypeIs DEF IInv
  <2>2. tree \in Trees /\ Shape(tree.up, tree.kid, tree.root, inside)
    BY <2>1 DEF Sound
  <2>3. tree.up \in UPS /\ tree.kid \in KIDS /\ tree.red \in [Node -> BOOLEAN] /\ tree.root \in Pointer
    BY <2>2, Fields
  <2>4. inside \in SUBSET Node /\ NULL \notin inside
    BY <2>2, KidFacts
  <2>5. PICK q : q = LastOnPath(tree, key[n])
    OBVIOUS
  <2>6. PICK d \in Side : d = GoesTo(key[n], q)
    BY DEF GoesTo, Side
  <2>7. tree.root # NULL => q \in inside /\ tree.kid[q][d] = NULL
    BY <1>1, <2>1, <2>5, <2>6, LastOnPathIs
  <2>8. tree.root # NULL => q \in Node /\ q # n
    BY <1>1, <2>4, <2>7
  <2>9. IsHung(tree, n, q, d, Hung(tree, n))
    BY <2>2, <2>5, <2>6, <2>8, HungIs
  <2>10. PICK t2 : t2 = tree'
    OBVIOUS
  <2>11. IsHung(tree, n, q, d, t2)
    BY <1>1, <2>9, <2>10
  <2>12. t2 \in Trees
    BY <2>11 DEF IsHung
  <2>13. t2.kid \in KIDS
    BY <2>12, Fields
  <2>14. PICK r2 : r2 = IF tree.root = NULL THEN n ELSE tree.root
    OBVIOUS
  <2>15. Hangs(tree.up, tree.kid, tree.root, inside, n, q, d, t2.up, t2.kid, r2)
    <3>1. tree.root = NULL => inside = {}
      BY <2>2, KidFacts
    <3>2. \A e \in inside : e # n /\ e \in Node
      BY <1>1, <2>4
    <3>3. \A e \in inside : t2.up[e] = tree.up[e]
      BY <2>11, <3>2 DEF IsHung
    <3>4. t2.up[n] = IF tree.root = NULL THEN NULL ELSE q
      BY <2>11 DEF IsHung
    <3>5. \A s \in Side : t2.kid[n][s] = NULL
      BY <2>11 DEF IsHung
    <3>6. \A e \in inside : \A s \in Side : t2.kid[e][s] = IF e = q /\ s = d THEN n ELSE tree.kid[e][s]
      BY <2>11, <3>1, <3>2 DEF IsHung
    <3> QED
      BY <1>1, <2>4, <2>6, <2>7, <2>13, <2>14, <3>3, <3>4, <3>5, <3>6 DEF Hangs
  <2>16. t2.red[n] = TRUE /\ \A e \in inside : t2.red[e] = tree.red[e]
    BY <1>1, <1>3, <2>4, <2>11 DEF IsHung
  <2>17. Coloured(tree.kid, tree.red, inside, NULL, NULL, NULL, "left")
    BY <1>1, <1>3, AtRestRB
  <2>18. Coloured(t2.kid, t2.red, inside \cup {n}, n, NULL, NULL, "left")
    BY <2>2, <2>3, <2>15, <2>16, <2>17, HangColoured
  <2>19. pc' = "insert" /\ x' = n
    BY <1>1, <1>3
  <2>20. Present' = inside \cup {n}
    BY <1>1, <2>19 DEF Present, Removing
  <2> QED
    BY <2>10, <2>18, <2>19, <2>20 DEF RBInv, Holed
<1> QED
  BY <1>2, <1>3
-----------------------------------------------------------------------------
LEMMA RotationLifts ==
    ASSUME NEW t, NEW r, NEW P, NEW K, Sound(t, r, P, K), NEW n \in P, NEW d \in Side,
           NEW m, m = t.kid[n][Other(d)], m # NULL,
           NEW t2, t2 = Rotate(t, n, d)
    PROVE  \E r2 : Rotation(t, r, P, K, n, m, d, t2, r2) /\ Lifts(t.up, t.kid, P, n, m, d, t2.kid)
<1>1. PICK r2 : Rotation(t, r, P, K, n, m, d, t2, r2)
  BY RotationIs
<1>2. Lifts(t.up, t.kid, P, n, m, d, t2.kid)
  BY <1>1 DEF Rotation, Lifts
<1> QED
  BY <1>1, <1>2

LEMMA SoundIs ==
    ASSUME NEW t, NEW r, NEW P, NEW K, Sound(t, r, P, K)
    PROVE  /\ t \in Trees /\ t.up \in UPS /\ t.kid \in KIDS /\ t.red \in [Node -> BOOLEAN]
           /\ Shape(t.up, t.kid, r, P) /\ P \in SUBSET Node /\ NULL \notin P
<1>1. t \in Trees /\ Shape(t.up, t.kid, r, P)
  BY DEF Sound
<1>2. t.up \in UPS /\ t.kid \in KIDS /\ t.red \in [Node -> BOOLEAN]
  BY <1>1, Fields
<1>3. P \in SUBSET Node /\ NULL \notin P
  BY <1>1, KidFacts
<1> QED
  BY <1>1, <1>2, <1>3

\* The tree before the rotation at Grand: m and its parent g are the only two
\* nodes that are in the way of the rules.
Ready(t, g, m, d) ==
    /\ Sound(t, tree.root, inside, {key}) /\ t.red = tree.red /\ t.kid[g][d] = m
    /\ m \in inside /\ m # g /\ tree.red[m]
    /\ Even(t.kid, tree.red, inside, NULL, "left")
    /\ \A e \in inside : \A s \in Side :
          e # g /\ e # m /\ tree.red[e] /\ t.kid[e][s] # NULL => ~tree.red[t.kid[e][s]]
    /\ t.kid[g][Other(d)] # NULL => ~tree.red[t.kid[g][Other(d)]]
    /\ t.kid[m][Other(d)] # NULL => ~tree.red[t.kid[m][Other(d)]]

LEMMA StraightIs ==
    ASSUME IInv, RBInv, pc = "insert", Red(tree, Parent),
           \E d \in Side : ~Red(tree, tree.kid[Grand][d]),
           NEW d, d = SideOf(tree, Parent), NEW s, s = Straightened(tree, x, Parent, d)
    PROVE  d \in Side /\ Ready(s.t, Grand, s.top, d)
<1>1. PICK n : n = Parent
  OBVIOUS
<1>2. PICK g : g = Grand
  OBVIOUS
<1>3. /\ x \in inside /\ n \in inside /\ g \in inside /\ x # n /\ n # g /\ x # g
      /\ tree.red[x] /\ tree.red[n] /\ ~tree.red[g]
      /\ tree.up[x] = n /\ tree.up[n] = g
      /\ \E b \in Side : tree.kid[g][b] = n
  <2>1. tree.up[x] = Parent /\ tree.up[Parent] = Grand
    BY DEF Parent, Grand
  <2> QED
    BY <1>1, <1>2, <2>1, GrandBlack
<1>4. Sound(tree, tree.root, inside, {key})
  BY AtRest
<1>5. /\ tree.up \in UPS /\ tree.kid \in KIDS /\ tree.red \in [Node -> BOOLEAN]
      /\ Shape(tree.up, tree.kid, tree.root, inside) /\ inside \in SUBSET Node /\ NULL \notin inside
  BY <1>4, SoundIs
<1>6. /\ Ruled(tree.kid, tree.red, inside, x, NULL)
      /\ Even(tree.kid, tree.red, inside, NULL, "left")
  BY InsertingIs DEF Coloured
<1>7. /\ \A e \in inside : \A a \in Side :
            tree.kid[e][a] # NULL => /\ tree.kid[e][a] \in inside /\ tree.up[tree.kid[e][a]] = e
                                     /\ tree.kid[e][a] # e
      /\ \A e \in inside : \A a \in Side : tree.kid[e][a] # NULL => tree.kid[e][a] # tree.kid[e][Other(a)]
  BY <1>5, KidFacts
<1>8. d \in Side /\ Other(d) \in Side /\ Other(Other(d)) = d /\ Other(d) # d /\ tree.kid[g][d] = n
  <2>1. d = IF tree.kid[g]["left"] = n THEN "left" ELSE "right"
    BY <1>1, <1>3 DEF SideOf
  <2> QED
    BY <1>3, <2>1, Sides DEF Side
<1>9. tree.kid[g][Other(d)] # NULL => ~tree.red[tree.kid[g][Other(d)]]
  <2>1. \E b \in Side : ~Red(tree, tree.kid[g][b])
    BY <1>2
  <2>2. Red(tree, tree.kid[g][d])
    BY <1>3, <1>5, <1>8 DEF Red
  <2>3. ~Red(tree, tree.kid[g][Other(d)])
    BY <1>8, <2>1, <2>2, Sides
  <2> QED
    BY <2>3 DEF Red
<1>10. \A e \in inside : \A a \in Side :
          tree.red[e] /\ tree.kid[e][a] # NULL /\ tree.kid[e][a] # x => ~tree.red[tree.kid[e][a]]
  BY <1>5, <1>6 DEF Ruled
<1>11. tree.kid[g][Other(d)] # n
  BY <1>3, <1>5, <1>7, <1>8
<1>12. CASE tree.kid[n][Other(d)] = x
  <2>1. PICK ta : ta = Rotate(tree, n, d)
    OBVIOUS
  <2>2. s = [t |-> Rotate(tree, n, d), top |-> x]
    BY <1>1, <1>12 DEF Straightened
  <2>3. s.t = ta /\ s.top = x
    BY <2>1, <2>2
  <2>4. x # NULL
    BY <1>3, <1>5
  <2>5. PICK r2 : Rotation(tree, tree.root, inside, {key}, n, x, d, ta, r2)
                  /\ Lifts(tree.up, tree.kid, inside, n, x, d, ta.kid)
    <3>1. x = tree.kid[n][Other(d)]
      BY <1>12
    <3> QED
      BY <1>3, <1>4, <1>8, <2>1, <2>4, <3>1, RotationLifts
  <2>6. tree.up[n] # NULL
    BY <1>3, <1>5
  <2>7. Sound(ta, tree.root, inside, {key}) /\ ta.red = tree.red
    BY <2>5, <2>6 DEF Rotation
  <2>8. \A e \in inside : \A a \in Side :
          ta.kid[e][a] = IF e = n /\ a = Other(d) THEN tree.kid[x][d] ELSE IF e = x /\ a = d THEN n
                         ELSE IF e = g /\ tree.kid[e][a] = n THEN x ELSE tree.kid[e][a]
    BY <1>3, <2>5 DEF Lifts
  <2>9. ta.kid[g][d] = x /\ ta.kid[g][Other(d)] = tree.kid[g][Other(d)]
        /\ ta.kid[x][Other(d)] = tree.kid[x][Other(d)]
    BY <1>3, <1>8, <1>11, <2>8
  <2>10. Even(ta.kid, tree.red, inside, NULL, "left")
    <3>1. Exchanged(tree.red, inside, n, x, tree.red)
      BY <1>3, <1>5 DEF Exchanged
    <3>2. x # NULL /\ (n # NULL \/ "left" # Other(d))
      BY <1>3, <1>5
    <3> QED
      BY <1>5, <1>6, <2>5, <3>1, <3>2, LiftBalanced
  <2>11. ASSUME NEW e \in inside, NEW a \in Side,
                e # g, e # x, tree.red[e], ta.kid[e][a] # NULL, tree.red[ta.kid[e][a]]
         PROVE  FALSE
    <3>1. CASE e = n /\ a = Other(d)
      <4>1. ta.kid[e][a] = tree.kid[x][d] /\ tree.kid[x][d] # x
        BY <1>3, <1>7, <1>8, <2>8, <2>11, <3>1
      <4> QED
        BY <1>3, <1>8, <1>10, <2>11, <4>1
    <3>2. CASE e = n /\ a # Other(d)
      <4>1. a = d
        BY <1>8, <3>2, Sides
      <4>2. ta.kid[e][a] = tree.kid[n][d] /\ tree.kid[n][d] # x
        BY <1>3, <1>7, <1>8, <1>12, <2>8, <2>11, <3>2, <4>1
      <4> QED
        BY <1>3, <1>8, <1>10, <2>11, <4>2
    <3>3. CASE e # n
      <4>1. ta.kid[e][a] = tree.kid[e][a]
        BY <2>8, <2>11, <3>3
      <4>2. tree.kid[e][a] # x
        BY <1>3, <1>7, <2>11, <3>3, <4>1
      <4> QED
        BY <1>10, <2>11, <4>1, <4>2
    <3> QED
      BY <3>1, <3>2, <3>3
  <2>12. tree.kid[x][Other(d)] # NULL => ~tree.red[tree.kid[x][Other(d)]]
    BY <1>3, <1>7, <1>8, <1>10
  <2>13. \A e \in inside : \A a \in Side :
           e # g /\ e # x /\ tree.red[e] /\ ta.kid[e][a] # NULL => ~tree.red[ta.kid[e][a]]
    BY <2>11
  <2>14. Ready(ta, g, x, d)
    BY <1>3, <1>9, <2>7, <2>9, <2>10, <2>12, <2>13 DEF Ready
  <2> QED
    BY <1>2, <1>8, <2>3, <2>14
<1>13. CASE tree.kid[n][Other(d)] # x
  <2>1. s.t = tree /\ s.top = n
    BY <1>1, <1>13 DEF Straightened
  <2>2. ASSUME NEW e \in inside, NEW a \in Side,
               e # g, e # n, tree.red[e], tree.kid[e][a] # NULL, tree.red[tree.kid[e][a]]
        PROVE  FALSE
    <3>1. tree.kid[e][a] # x
      BY <1>3, <1>7, <2>2
    <3> QED
      BY <1>10, <2>2, <3>1
  <2>3. tree.kid[n][Other(d)] # NULL => ~tree.red[tree.kid[n][Other(d)]]
    BY <1>3, <1>8, <1>10, <1>13
  <2>4. \A e \in inside : \A a \in Side :
           e # g /\ e # n /\ tree.red[e] /\ tree.kid[e][a] # NULL => ~tree.red[tree.kid[e][a]]
    BY <2>2
  <2>5. Ready(tree, g, n, d)
    BY <1>3, <1>4, <1>6, <1>8, <1>9, <2>3, <2>4 DEF Ready
  <2> QED
    BY <1>2, <1>8, <2>1, <2>5
<1> QED
  BY <1>12, <1>13

LEMMA InsertRotateRB ==
    ASSUME IInv, RBInv, InsertRotate
    PROVE  RBInv'
<1>1. /\ kind' = kind /\ inside' = inside /\ pc' = "out" /\ pc = "insert" /\ Red(tree, Parent)
      /\ \E d \in Side : ~Red(tree, tree.kid[Grand][d])
  BY DEF InsertRotate, Return
<1>2. PICK d : d = SideOf(tree, Parent)
  OBVIOUS
<1>3. PICK g : g = Grand
  OBVIOUS
<1>4. PICK s : s = Straightened(tree, x, Parent, d)
  OBVIOUS
<1>5. PICK t2 : t2 = Rotate(s.t, g, Other(d))
  OBVIOUS
<1>6. tree' = Colour(Colour(t2, {s.top}, FALSE), {g}, TRUE)
  BY <1>2, <1>3, <1>4, <1>5 DEF InsertRotate
<1>7. g \in inside /\ ~tree.red[g]
  BY <1>1, <1>3, GrandBlack
<1>8. PICK ts : ts = s.t
  OBVIOUS
<1>9. PICK m : m = s.top
  OBVIOUS
<1>10. d \in Side /\ Ready(ts, g, m, d)
  <2>1. d \in Side /\ Ready(s.t, Grand, s.top, d)
    BY <1>1, <1>2, <1>4, StraightIs
  <2> QED
    BY <1>3, <1>8, <1>9, <2>1
<1>11. Other(d) \in Side /\ Other(Other(d)) = d
  BY <1>10, Sides
<1>12. /\ Sound(ts, tree.root, inside, {key}) /\ ts.red = tree.red /\ ts.kid[g][d] = m
       /\ m \in inside /\ m # g /\ tree.red[m]
       /\ Even(ts.kid, tree.red, inside, NULL, "left")
  BY <1>10 DEF Ready
<1>13. /\ ts.up \in UPS /\ ts.kid \in KIDS /\ tree.red \in [Node -> BOOLEAN]
       /\ Shape(ts.up, ts.kid, tree.root, inside) /\ inside \in SUBSET Node /\ NULL \notin inside
  <2>1. ts.red \in [Node -> BOOLEAN]
    BY <1>12, SoundIs
  <2> QED
    BY <1>12, <2>1, SoundIs
<1>14. PICK r2 : /\ Rotation(ts, tree.root, inside, {key}, g, m, Other(d), t2, r2)
                 /\ Lifts(ts.up, ts.kid, inside, g, m, Other(d), t2.kid)
  <2>1. m = ts.kid[g][Other(Other(d))] /\ m # NULL
    BY <1>11, <1>12, <1>13
  <2>2. t2 = Rotate(ts, g, Other(d))
    BY <1>5, <1>8
  <2> QED
    BY <1>7, <1>11, <1>12, <2>1, <2>2, RotationLifts
<1>15. t2 \in Trees /\ t2.red = tree.red
  BY <1>12, <1>14, SoundIs DEF Rotation
<1>16. PICK t3 : t3 = Colour(t2, {m}, FALSE)
  OBVIOUS
<1>17. IsColoured(t2, {m}, FALSE, t3)
  BY <1>15, <1>16, ColourIs
<1>18. IsColoured(t3, {g}, TRUE, tree')
  <2>1. t3 \in Trees /\ tree' = Colour(t3, {g}, TRUE)
    BY <1>6, <1>9, <1>16, <1>17 DEF IsColoured
  <2> QED
    BY <2>1, ColourIs
<1>19. /\ tree' \in Trees /\ tree'.kid = t2.kid
       /\ \A e \in Node : tree'.red[e] = IF e = g THEN TRUE ELSE IF e = m THEN FALSE ELSE tree.red[e]
  BY <1>15, <1>17, <1>18 DEF IsColoured
<1>20. PICK red2 \in [Node -> BOOLEAN] : red2 = tree'.red
  BY <1>19, Fields
<1>21. Even(t2.kid, red2, inside, NULL, "left")
  <2>1. Exchanged(tree.red, inside, g, m, red2)
    BY <1>7, <1>12, <1>13, <1>19, <1>20 DEF Exchanged
  <2>2. m # NULL /\ (g # NULL \/ "left" # Other(Other(d)))
    BY <1>7, <1>12, <1>13
  <2> QED
    BY <1>12, <1>13, <1>14, <2>1, <2>2, LiftBalanced
<1>22. Ruled(t2.kid, red2, inside, NULL, NULL)
  <2>1. \A e \in inside : red2[e] => e = g \/ (e # m /\ tree.red[e])
    BY <1>13, <1>19, <1>20
  <2>2. /\ \A e \in inside : \A a \in Side :
             e # g /\ e # m /\ tree.red[e] /\ ts.kid[e][a] # NULL => ~tree.red[ts.kid[e][a]]
        /\ ts.kid[g][Other(d)] # NULL => ~tree.red[ts.kid[g][Other(d)]]
        /\ ts.kid[m][Other(d)] # NULL => ~tree.red[ts.kid[m][Other(d)]]
    BY <1>10 DEF Ready
  <2> QED
    BY <1>13, <1>14, <2>1, <2>2, LiftRuled
<1>23. Coloured(tree'.kid, tree'.red, inside', NULL, NULL, NULL, "left")
  BY <1>1, <1>19, <1>20, <1>21, <1>22 DEF Coloured
<1> QED
  BY <1>1, <1>23, RestRB
-----------------------------------------------------------------------------
\* While a node is being removed.
LEMMA RemovingIs ==
    ASSUME IInv, Removing
    PROVE  /\ tree \in Trees /\ tree.up \in UPS /\ tree.kid \in KIDS /\ tree.red \in [Node -> BOOLEAN]
           /\ Shape(tree.up, tree.kid, Top, Present) /\ Present \in SUBSET Node /\ NULL \notin Present
           /\ x \in Node /\ x \notin inside /\ y \in Node
           /\ x = y => Present = inside /\ Top = tree.root
           /\ x # y => /\ x \in Present /\ y \notin Present /\ (Present \ {x}) \cup {y} = inside
                       /\ Top = IF tree.root = y THEN x ELSE tree.root
           /\ tree.root \in Present => Top = tree.root
<1>1. Sound(tree, Top, Present, Keys)
  BY DEF IInv, TreeInv, Removing
<1>2. x \in Node /\ x \notin inside /\ y \in Node /\ (x # y => y \in inside)
  BY DEF IInv, Loops
<1>3. x = y => Present = inside /\ Top = tree.root
  BY DEF Present, Top
<1>4. x # y => Present = (inside \cup {x}) \ {y} /\ Top = IF tree.root = y THEN x ELSE tree.root
  BY DEF Present, Top
<1>5. x # y => x \in Present /\ y \notin Present /\ (Present \ {x}) \cup {y} = inside
  BY <1>2, <1>4
<1>6. tree.root \in Present => Top = tree.root
  BY <1>3, <1>4, <1>5
<1>7. /\ tree \in Trees /\ tree.up \in UPS /\ tree.kid \in KIDS /\ tree.red \in [Node -> BOOLEAN]
      /\ Shape(tree.up, tree.kid, Top, Present) /\ Present \in SUBSET Node /\ NULL \notin Present
  BY <1>1, SoundIs
<1> QED
  BY <1>2, <1>3, <1>4, <1>5, <1>6, <1>7

LEMMA RemoveDoneRB ==
    ASSUME IInv, RBInv, RemoveDone
    PROVE  RBInv'
<1>1. /\ kind' = kind /\ inside' = inside /\ pc = "remove" /\ pc' = "replace" /\ ~Missing
      /\ x' = x /\ y' = y /\ tree' = Colour(tree, {c}, FALSE)
  BY DEF RemoveDone
<1>2. Removing /\ Removing' /\ kind = "rbt"
  BY <1>1 DEF IInv, Loops, Removing
<1>3. /\ tree \in Trees /\ tree.up \in UPS /\ tree.kid \in KIDS /\ tree.red \in [Node -> BOOLEAN]
      /\ Shape(tree.up, tree.kid, Top, Present) /\ Present \in SUBSET Node /\ NULL \notin Present
      /\ tree.root \in Present => Top = tree.root
  BY <1>2, RemovingIs
<1>4. Present' = Present
  BY <1>1, <1>2 DEF Present
<1>5. IsColoured(tree, {c}, FALSE, tree')
  BY <1>1, <1>3, ColourIs
<1>6. /\ tree' \in Trees /\ tree'.kid = tree.kid
      /\ \A e \in Node : tree'.red[e] = IF e = c THEN FALSE ELSE tree.red[e]
  BY <1>5 DEF IsColoured
<1>7. PICK red2 \in [Node -> BOOLEAN] : red2 = tree'.red
  BY <1>6, Fields
<1>8. Blackens(tree.red, Present, c, red2)
  BY <1>3, <1>6, <1>7 DEF Blackens
<1>9. PICK g, b : /\ Coloured(tree.kid, tree.red, Present, NULL, c, g, b)
                  /\ c \in Present => At(tree.kid, Top, Present, g, b, c)
                  /\ (g = NULL /\ b = "left") \/ (c \in Present /\ tree.red[c])
  <2>1. CASE Holed
    <3>1. PICK d \in Side : tree.kid[p][d] = c /\ Coloured(tree.kid, tree.red, Present, NULL, c, p, d)
      BY <1>1, <1>2, <2>1 DEF RBInv
    <3>2. p \in Present /\ c # tree.root /\ p # NULL
      BY <1>1, <2>1 DEF IInv, InLoop, Holed
    <3>3. Red(tree, c)
      BY <1>1, <3>2 DEF Missing
    <3>4. c # NULL /\ tree.red[c]
      BY <3>3 DEF Red
    <3>5. c \in Present
      BY <1>3, <3>1, <3>2, <3>4, KidFacts
    <3>6. At(tree.kid, Top, Present, p, d, c)
      BY <3>1, <3>2 DEF At
    <3> QED
      BY <3>1, <3>4, <3>5, <3>6
  <2>2. CASE ~Holed
    <3>1. Coloured(tree.kid, tree.red, Present, NULL, c, NULL, "left") /\ (p = NULL => c = Top)
      BY <1>1, <1>2, <2>2 DEF RBInv
    <3>2. c = tree.root \/ p = NULL
      BY <1>1, <2>2 DEF Holed
    <3>3. c \in Present => At(tree.kid, Top, Present, NULL, "left", c)
      BY <1>3, <3>1, <3>2 DEF At
    <3> QED
      BY <3>1, <3>3
  <2> QED
    BY <2>1, <2>2
<1>10. Even(tree.kid, tree.red, Present, g, b)
  BY <1>9 DEF Coloured
<1>11. Even(tree.kid, red2, Present, NULL, "left")
  <2>1. CASE c \in Present /\ tree.red[c]
    <3>1. At(tree.kid, Top, Present, g, b, c)
      BY <1>9, <2>1
    <3> QED
      BY <1>3, <1>7, <1>8, <1>10, <2>1, <3>1, FillBalanced
  <2>2. CASE ~(c \in Present /\ tree.red[c])
    <3>1. \A e \in Present : Weight(red2, e) = Weight(tree.red, e)
      BY <1>8, <2>2 DEF Blackens, Weight
    <3>2. Even(tree.kid, tree.red, Present, NULL, "left")
      BY <1>9, <1>10, <2>2
    <3> QED
      BY <3>1, <3>2 DEF Even, Balanced
  <2> QED
    BY <2>1, <2>2
<1>12. Ruled(tree.kid, red2, Present, NULL, NULL)
  <2> SUFFICES ASSUME NEW e \in Present, NEW s \in Side,
                      red2[e], tree.kid[e][s] # NULL, red2[tree.kid[e][s]]
               PROVE  FALSE
    BY DEF Ruled
  <2>1. tree.kid[e][s] \in Present
    BY <1>3, KidFacts
  <2>2. e # c /\ tree.red[e] /\ tree.red[tree.kid[e][s]]
    BY <1>8, <2>1 DEF Blackens
  <2>3. Ruled(tree.kid, tree.red, Present, NULL, c)
    BY <1>9 DEF Coloured
  <2> QED
    BY <2>2, <2>3 DEF Ruled
<1>13. Coloured(tree'.kid, tree'.red, Present', NULL, NULL, NULL, "left")
  BY <1>4, <1>6, <1>7, <1>11, <1>12 DEF Coloured
<1> QED
  BY <1>1, <1>13 DEF RBInv, Holed

LEMMA SwapColoured ==
    ASSUME NEW t \in Trees, NEW r, NEW P, Shape(t.up, t.kid, r, P), NEW n, NEW m, NEW t2,
           Swapped(t, r, P, n, m, t2), Coloured(t.kid, t.red, P, NULL, NULL, NULL, "left")
    PROVE  Coloured(t2.kid, t2.red, (P \ {n}) \cup {m}, NULL, NULL, NULL, "left")
<1>1. t.up \in UPS /\ t.kid \in KIDS
  BY Fields
<1>2. PICK r2 : Replaces(t.up, t.kid, r, P, n, m, t2.up, t2.kid, r2)
  BY DEF Swapped
<1>3. t2.red[m] = t.red[n] /\ \A e \in P : e # n => t2.red[e] = t.red[e]
  BY DEF Swapped
<1> QED
  BY <1>1, <1>2, <1>3, ReplaceColoured

LEMMA ReplaceRB ==
    ASSUME IInv, RBInv, Replace
    PROVE  RBInv'
<1>1. /\ kind' = kind /\ inside' = inside /\ pc = "replace" /\ pc' = "out"
      /\ tree' = Cleared(IF x = y THEN tree ELSE Succeeds(tree, x, y), x)
  BY DEF Replace, Return
<1>2. CASE kind # "rbt"
  BY <1>1, <1>2, RestRB
<1>3. CASE kind = "rbt"
  <2>1. Removing
    BY <1>1 DEF Removing
  <2>2. /\ tree \in Trees /\ Shape(tree.up, tree.kid, Top, Present) /\ Present \in SUBSET Node
        /\ x \in Node /\ x \notin inside /\ y \in Node
        /\ x = y => Present = inside
        /\ x # y => x \in Present /\ y \notin Present /\ (Present \ {x}) \cup {y} = inside
    BY <2>1, RemovingIs
  <2>3. Coloured(tree.kid, tree.red, Present, NULL, NULL, NULL, "left")
    BY <1>1, <1>3 DEF RBInv
  <2>4. CASE x = y
    <3>1. IsCleared(tree, x, tree')
      BY <1>1, <2>2, <2>4, ClearedIs
    <3>2. \A e \in Present : tree'.red[e] = tree.red[e] /\ \A u \in Side : tree'.kid[e][u] = tree.kid[e][u]
      BY <2>2, <2>4, <3>1 DEF IsCleared
    <3>3. \A e \in Present : \A u \in Side : tree.kid[e][u] # NULL => tree.kid[e][u] \in Present
      BY <2>2, Fields, KidFacts
    <3>4. Coloured(tree'.kid, tree'.red, Present, NULL, NULL, NULL, "left")
      BY <2>3, <3>2, <3>3, SameColoured
    <3> QED
      BY <1>1, <2>2, <2>4, <3>4, RestRB
  <2>5. CASE x # y
    <3>1. tree' = Cleared(Succeeds(tree, x, y), x)
      BY <1>1, <2>5
    <3>2. Holds(tree, tree.up[x], x)
      BY <2>2, <2>5, HeldIs
    <3>3. PICK s : s = Succeeds(tree, x, y)
      OBVIOUS
    <3>4. s \in Trees
      <4>1. IsPutIn(tree, x, y, s)
        BY <2>2, <3>2, <3>3, SucceedsIs
      <4> QED
        BY <4>1 DEF IsPutIn
    <3>5. PICK P : P = Present
      OBVIOUS
    <3>6. PICK r : r = Top
      OBVIOUS
    <3>7. Shape(tree.up, tree.kid, r, P) /\ x \in P /\ y \notin P /\ tree' = Cleared(s, x)
      BY <2>2, <2>5, <3>1, <3>3, <3>5, <3>6
    <3>8. Swapped(tree, r, P, x, y, tree')
      <4>1. s.up = Succeeds(tree, x, y).up /\ s.kid = Succeeds(tree, x, y).kid
            /\ s.red = Succeeds(tree, x, y).red
        BY <3>3
      <4> QED
        BY <2>2, <3>4, <3>7, <4>1, SwapIs
    <3>9. Coloured(tree'.kid, tree'.red, (P \ {x}) \cup {y}, NULL, NULL, NULL, "left")
      BY <2>2, <2>3, <3>5, <3>7, <3>8, SwapColoured
    <3> QED
      BY <1>1, <2>2, <2>5, <3>5, <3>9, RestRB
  <2> QED
    BY <2>4, <2>5
<1> QED
  BY <1>2, <1>3
-----------------------------------------------------------------------------
LEMMA ReplaceNodeRB ==
    ASSUME IInv, RBInv, NEW n \in Node, NEW m \in Node, ReplaceNode(n, m)
    PROVE  RBInv'
<1>1. kind' = kind /\ inside' = (inside \ {n}) \cup {m} /\ pc = "out" /\ pc' = "out"
  BY DEF ReplaceNode
<1>2. PICK r : r = tree.root
  OBVIOUS
<1>3. Sound(tree, tree.root, inside, {key})
  BY <1>1, AtRest
<1>4. tree \in Trees /\ Shape(tree.up, tree.kid, r, inside)
  BY <1>2, <1>3 DEF Sound
<1>5. Swapped(tree, r, inside, n, m, tree')
  BY <1>2, ReplaceNodeIs
<1>6. kind = "rbt" => Coloured(tree'.kid, tree'.red, (inside \ {n}) \cup {m}, NULL, NULL, NULL, "left")
  BY <1>1, <1>4, <1>5, AtRestRB, SwapColoured
<1> QED
  BY <1>1, <1>6, RestRB

\* The red child of the node that left is blackened, and nothing is missing.
LEMMA BlackenedIs ==
    ASSUME NEW t \in Trees, NEW r, NEW P, Shape(t.up, t.kid, r, P),
           NEW c1, NEW q, NEW s, Coloured(t.kid, t.red, P, c1, NULL, q, s),
           c1 \in P, t.red[c1], At(t.kid, r, P, q, s, c1)
    PROVE  LET t2 == Blackened(t, c1) IN Coloured(t2.kid, t2.red, P, NULL, NULL, NULL, "left")
<1>1. PICK t2 : t2 = Blackened(t, c1)
  OBVIOUS
<1>2. IsColoured(t, {c1}, FALSE, t2)
  BY <1>1, ColourIs DEF Blackened
<1>3. /\ t2 \in Trees /\ t2.kid = t.kid
      /\ \A e \in Node : t2.red[e] = IF e = c1 THEN FALSE ELSE t.red[e]
  BY <1>2 DEF IsColoured
<1>4. PICK red2 \in [Node -> BOOLEAN] : red2 = t2.red
  BY <1>3, Fields
<1>5. t.up \in UPS /\ t.kid \in KIDS /\ t.red \in [Node -> BOOLEAN] /\ P \in SUBSET Node /\ NULL \notin P
  BY Fields, KidFacts
<1>6. Blackens(t.red, P, c1, red2)
  BY <1>3, <1>4, <1>5 DEF Blackens
<1>7. Even(t.kid, t.red, P, q, s)
  BY DEF Coloured
<1>8. Even(t.kid, red2, P, NULL, "left")
  BY <1>4, <1>5, <1>6, <1>7, FillBalanced
<1>9. Ruled(t.kid, red2, P, NULL, NULL)
  <2> SUFFICES ASSUME NEW e \in P, NEW v \in Side, red2[e], t.kid[e][v] # NULL, red2[t.kid[e][v]]
               PROVE  FALSE
    BY DEF Ruled
  <2>1. t.kid[e][v] \in P
    BY <1>5, KidFacts
  <2>2. t.kid[e][v] # c1 /\ t.red[e] /\ t.red[t.kid[e][v]] /\ e # NULL
    BY <1>5, <1>6, <2>1 DEF Blackens
  <2>3. Ruled(t.kid, t.red, P, c1, NULL)
    BY DEF Coloured
  <2> QED
    BY <2>2, <2>3 DEF Ruled
<1>10. Coloured(t2.kid, t2.red, P, NULL, NULL, NULL, "left")
  BY <1>3, <1>4, <1>8, <1>9 DEF Coloured
<1> QED
  BY <1>1, <1>10

LEMMA RemoveRB ==
    ASSUME IInv, RBInv, NEW n \in Node, Remove(n)
    PROVE  RBInv'
<1>1. /\ kind' = kind /\ inside' = inside \ {n} /\ pc = "out" /\ n \in inside /\ x' = n
  BY DEF Remove
<1>2. PICK m : m = Spliced(tree, n)
  OBVIOUS
<1>3. PICK c1 : c1 = OnlyKid(tree, m)
  OBVIOUS
<1>4. PICK q : q = tree.up[m]
  OBVIOUS
<1>5. PICK t : t = SpliceOut(tree, n, m)
  OBVIOUS
<1>6. /\ y' = m /\ c' = c1 /\ p' = q
      /\ \/ /\ kind = "bst" \/ t.root = NULL \/ tree.red[m]
            /\ tree' = t /\ pc' = "replace"
         \/ /\ kind = "rbt" /\ t.root # NULL /\ ~tree.red[m]
            /\ IF Red(t, c1) THEN tree' = Blackened(t, c1) /\ pc' = "replace"
                             ELSE tree' = t /\ pc' = "remove"
  BY <1>2, <1>3, <1>4, <1>5 DEF Remove
<1>7. m \in inside /\ \E r : Unhooked(n, m, c1, q, t, r)
  BY <1>1, <1>2, <1>3, <1>4, <1>5, SpliceSound
<1>8. PICK r : Unhooked(n, m, c1, q, t, r)
  BY <1>7
<1>9. PICK P : P = inside \ {m}
  OBVIOUS
<1>10. /\ t \in Trees /\ t.red = tree.red
       /\ \E K : Sound(t, r, P, K)
       /\ Cuts(tree.up, tree.kid, tree.root, inside, m, c1, q, t.up, t.kid, r)
       /\ r = IF q = NULL THEN c1 ELSE tree.root
       /\ r = IF n # m /\ t.root = m THEN n ELSE t.root
       /\ n # m => t.root # n
       /\ q = NULL => m = tree.root /\ n = m
       /\ q # NULL => q \in P /\ \E s \in Side : t.kid[q][s] = c1
  BY <1>8, <1>9 DEF Unhooked
<1>11. Shape(t.up, t.kid, r, P) /\ t.up \in UPS /\ t.kid \in KIDS /\ t.red \in [Node -> BOOLEAN]
  BY <1>10, Fields DEF Sound
<1>12. Sound(tree, tree.root, inside, {key})
  BY <1>1, AtRest
<1>13. /\ tree \in Trees /\ Shape(tree.up, tree.kid, tree.root, inside)
       /\ tree.up \in UPS /\ tree.kid \in KIDS /\ tree.red \in [Node -> BOOLEAN]
       /\ inside \in SUBSET Node /\ NULL \notin inside /\ NULL \notin Node
  BY <1>12, Fields, NullIsNoNode DEF Sound, Shape
<1>14. /\ pc' \in {"remove", "replace"} /\ (pc' = "remove" => kind = "rbt")
       /\ tree'.root = t.root
  <2>1. Blackened(t, c1).root = t.root
    <3>1. IsColoured(t, {c1}, FALSE, Blackened(t, c1))
      BY <1>10, ColourIs DEF Blackened
    <3> QED
      BY <3>1 DEF IsColoured
  <2> QED
    BY <1>6, <2>1
<1>15. Removing'
  BY <1>14 DEF Removing
<1>16. Top' = r
  BY <1>1, <1>6, <1>10, <1>14, <1>15 DEF Top
<1>17. Present' = P
  <2>1. CASE n = m
    BY <1>1, <1>6, <1>9, <2>1 DEF Present
  <2>2. CASE n # m
    <3>1. Present' = ((inside \ {n}) \cup {n}) \ {m}
      BY <1>1, <1>6, <1>15, <2>2 DEF Present
    <3> QED
      BY <1>1, <1>9, <3>1
  <2> QED
    BY <2>1, <2>2
<1>18. CASE kind # "rbt"
  BY <1>1, <1>18 DEF RBInv
<1>19. CASE kind = "rbt"
  <2>1. Coloured(tree.kid, tree.red, inside, NULL, NULL, NULL, "left")
    BY <1>1, <1>19, AtRestRB
  <2>2. CutFacts(tree.kid, tree.red, inside, m, c1, q, t.kid)
    BY <1>10, <1>13, <2>1, CutColoured
  <2>3. tree.red[m] => Coloured(t.kid, t.red, P, NULL, NULL, NULL, "left")
    BY <1>9, <1>10, <2>2 DEF CutFacts
  <2>4. ASSUME ~tree.red[m], NEW b, q = NULL \/ (b \in Side /\ tree.kid[q][b] = m)
        PROVE  Coloured(t.kid, t.red, P, c1, NULL, q, b)
    BY <1>9, <1>10, <2>2, <2>4 DEF CutFacts
  <2>5. c1 = NULL \/ (c1 \in P /\ tree.red[c1] /\ ~tree.red[m])
    <3>1. PICK u \in Side : tree.kid[m][u] = c1
      BY <1>10 DEF Cuts
    <3>2. c1 # NULL => c1 \in inside /\ c1 # m
      BY <1>7, <1>13, <3>1, KidFacts
    <3> QED
      BY <1>9, <2>2, <3>1, <3>2 DEF CutFacts
  <2>6. q # NULL => \E b \in Side : tree.kid[q][b] = m /\ t.kid[q][b] = c1 /\ q \in P
    <3> SUFFICES ASSUME q # NULL PROVE \E b \in Side : tree.kid[q][b] = m /\ t.kid[q][b] = c1 /\ q \in P
      OBVIOUS
    <3>1. m # tree.root
      BY <1>4, <1>13, <1>7 DEF Shape
    <3>2. PICK b \in Side : tree.kid[q][b] = m
      BY <1>4, <1>7, <1>13, <3>1 DEF Shape
    <3>3. q \in inside /\ q # m
      BY <1>9, <1>10
    <3>4. t.kid[q][b] = c1
      BY <1>10, <3>2, <3>3 DEF Cuts
    <3> QED
      BY <1>10, <3>2, <3>4
  <2>7. CASE pc' = "replace"
    <3>1. Coloured(tree'.kid, tree'.red, P, NULL, NULL, NULL, "left")
      <4>1. CASE tree.red[m]
        BY <1>6, <2>3, <4>1
      <4>2. CASE ~tree.red[m] /\ t.root = NULL
        <5>1. r = NULL
          BY <1>7, <1>10, <1>13, <4>2
        <5>2. P = {}
          BY <1>11, <5>1 DEF Shape
        <5> QED
          BY <1>6, <4>2, <5>2, EmptyColoured
      <4>3. CASE ~tree.red[m] /\ t.root # NULL
        <5>1. Red(t, c1) /\ tree' = Blackened(t, c1)
          BY <1>6, <1>19, <2>7, <4>3
        <5>2. c1 \in P /\ t.red[c1]
          BY <2>5, <5>1 DEF Red
        <5>3. PICK b : Coloured(t.kid, t.red, P, c1, NULL, q, b) /\ At(t.kid, r, P, q, b, c1)
          <6>1. CASE q = NULL
            <7>1. At(t.kid, r, P, q, "left", c1)
              BY <1>10, <6>1 DEF At
            <7> QED
              BY <2>4, <4>3, <6>1, <7>1
          <6>2. CASE q # NULL
            <7>1. PICK b \in Side : tree.kid[q][b] = m /\ t.kid[q][b] = c1 /\ q \in P
              BY <2>6, <6>2
            <7>2. At(t.kid, r, P, q, b, c1)
              BY <7>1 DEF At
            <7> QED
              BY <2>4, <4>3, <7>1, <7>2
          <6> QED
            BY <6>1, <6>2
        <5>4. LET t2 == Blackened(t, c1) IN Coloured(t2.kid, t2.red, P, NULL, NULL, NULL, "left")
          BY <1>10, <1>11, <5>2, <5>3, BlackenedIs
        <5> QED
          BY <5>1, <5>4
      <4> QED
        BY <4>1, <4>2, <4>3
    <3> QED
      BY <1>17, <2>7, <3>1 DEF RBInv, Holed
  <2>8. CASE pc' = "remove"
    <3>1. tree' = t /\ ~Red(t, c1) /\ ~tree.red[m] /\ t.root # NULL
      BY <1>6, <2>8
    <3>2. c1 = NULL
      BY <1>10, <2>5, <3>1 DEF Red
    <3>3. CASE q = NULL
      <4>1. Coloured(t.kid, t.red, P, NULL, NULL, NULL, "left")
        BY <2>4, <3>1, <3>2, <3>3
      <4>2. c' = NULL /\ p' = NULL /\ Top' = c'
        BY <1>6, <1>10, <1>16, <3>2, <3>3
      <4> QED
        BY <1>17, <2>8, <3>1, <4>1, <4>2 DEF RBInv, Holed
    <3>4. CASE q # NULL
      <4>1. PICK b \in Side : tree.kid[q][b] = m /\ t.kid[q][b] = c1 /\ q \in P
        BY <2>6, <3>4
      <4>2. Coloured(t.kid, t.red, P, NULL, NULL, q, b)
        BY <2>4, <3>1, <3>2, <4>1
      <4>3. c' = NULL /\ p' = q
        BY <1>6, <3>2
      <4>4. Holed' /\ \E d \in Side : /\ tree'.kid[p'][d] = c'
                                      /\ Coloured(tree'.kid, tree'.red, Present', NULL, c', p', d)
        BY <1>17, <2>8, <3>1, <3>2, <3>4, <4>1, <4>2, <4>3 DEF Holed
      <4> QED
        BY <2>8, <4>4 DEF RBInv
    <3> QED
      BY <3>3, <3>4
  <2> QED
    BY <1>14, <2>7, <2>8
<1> QED
  BY <1>18, <1>19
-----------------------------------------------------------------------------
\* A turn of the loop of rbt_remove_node, when the sibling of c is black: a
\* black node is missing at c and the rules hold for the colours.
Hollow(t, d) ==
    /\ Even(t.kid, t.red, Present, p, d) /\ Ruled(t.kid, t.red, Present, NULL, NULL)
    /\ ~Red(t, c) /\ ~Red(t, t.kid[p][Other(d)])

LEMMA RuledAnyway ==
    ASSUME NEW kid, NEW red, NEW P, NULL \notin P, Ruled(kid, red, P, NULL, NULL)
    PROVE  \A a, b : Ruled(kid, red, P, a, b)
  BY DEF Ruled

LEMMA GoingHoled ==
    ASSUME IInv, pc = "remove", NEW t, NEW r, NEW d, Going(t, r, d)
    PROVE  /\ c # t.root /\ p # NULL
           /\ p # r => p # t.root
<1>1. /\ Shape(t.up, t.kid, r, Present) /\ d \in Side /\ p \in Present /\ t.kid[p][d] = c
      /\ r \in Pointer /\ NULL \notin Present
  BY GoingIs, KidFacts
<1>2. /\ r = IF x # y /\ t.root = y THEN x ELSE t.root
      /\ x # y => y \notin Present
  BY DEF Going
<1>3. r # NULL /\ t.up[r] = NULL
  BY <1>1, KidFacts
<1>4. \A e \in Present : e = t.root => e = r
  BY <1>2
<1>5. c # NULL => c \in Present /\ t.up[c] = p
  BY <1>1, KidFacts
<1>6. c # t.root
  <2>1. CASE c = NULL
    <3>1. y \in Node
      BY RemovingIs DEF Removing
    <3> QED
      BY <1>2, <1>3, <2>1, <3>1, NullIsNoNode
  <2>2. CASE c # NULL
    BY <1>1, <1>3, <1>4, <1>5, <2>2
  <2> QED
    BY <2>1, <2>2
<1> QED
  BY <1>1, <1>4, <1>6

LEMMA HoleIs ==
    ASSUME IInv, RBInv, pc = "remove", Missing,
           NEW d, d = IF tree.kid[p]["left"] = c THEN "left" ELSE "right"
    PROVE  /\ Even(tree.kid, tree.red, Present, p, d) /\ Ruled(tree.kid, tree.red, Present, NULL, NULL)
           /\ ~Red(tree, c)
<1>1. Going(tree, Top, d)
  BY GoingNow
<1>2. /\ tree.kid \in KIDS /\ Shape(tree.up, tree.kid, Top, Present)
      /\ Present \in SUBSET Node /\ NULL \notin Node
      /\ d \in Side /\ p \in Present /\ tree.kid[p][d] = c
  BY <1>1, GoingIs
<1>3. Holed /\ kind = "rbt"
  BY DEF Holed, Missing, IInv, Loops
<1>4. PICK b \in Side : tree.kid[p][b] = c /\ Coloured(tree.kid, tree.red, Present, NULL, c, p, b)
  BY <1>3 DEF RBInv
<1>5. PICK h : Balanced(tree.kid, tree.red, Present, h, p, b)
  BY <1>4 DEF Coloured, Even
<1>6. Levelled(tree.kid, tree.red, Present, h, p, b)
  BY <1>2, <1>5, BalanceIs
<1>7. b = d
  <2>1. CASE c # NULL
    <3>1. \A e \in Present : \A s \in Side : \A f \in Present : \A u \in Side :
             tree.kid[e][s] # NULL /\ tree.kid[e][s] = tree.kid[f][u] => e = f /\ s = u
      BY <1>2, KidFacts
    <3> QED
      BY <1>2, <1>4, <2>1, <3>1
  <2>2. CASE c = NULL
    <3> SUFFICES ASSUME b # d PROVE FALSE
      OBVIOUS
    <3>1. /\ h[p] = Weight(tree.red, p) + Height(h, tree.kid[p][b]) + Lack(p, b, p, b)
          /\ h[p] = Weight(tree.red, p) + Height(h, tree.kid[p][d]) + Lack(p, d, p, b)
          /\ h[p] \in Nat
      BY <1>2, <1>4, <1>6 DEF Levelled
    <3>2. Height(h, tree.kid[p][b]) = 0 /\ Height(h, tree.kid[p][d]) = 0
      BY <1>2, <1>4, <2>2 DEF Height
    <3>3. p # NULL
      BY <1>2
    <3>4. Lack(p, b, p, b) = 1 /\ Lack(p, d, p, b) = 0
      BY <3>3 DEF Lack
    <3>5. PICK w \in Nat : w = Weight(tree.red, p)
      BY WeightIs
    <3>6. h[p] = w + 0 + 1 /\ h[p] = w + 0 + 0
      BY <3>1, <3>2, <3>4, <3>5
    <3> QED
      BY <3>6
  <2> QED
    BY <2>1, <2>2
<1>8. Even(tree.kid, tree.red, Present, p, d)
  BY <1>4, <1>7 DEF Coloured
<1>9. ~Red(tree, c)
  BY DEF Missing
<1>10. Ruled(tree.kid, tree.red, Present, NULL, NULL)
  <2>1. Ruled(tree.kid, tree.red, Present, NULL, c)
    BY <1>4 DEF Coloured
  <2>2. \A e \in Present : tree.red[e] => e # c
    BY <1>2, <1>9 DEF Red
  <2> QED
    BY <2>1, <2>2 DEF Ruled
<1> QED
  BY <1>8, <1>9, <1>10

\* The siblings of the hole change their places and their colours.
LEMMA AlignedHollow ==
    ASSUME IInv, RBInv, pc = "remove", Missing,
           NEW d, d = IF tree.kid[p]["left"] = c THEN "left" ELSE "right",
           NEW t, t = Aligned(tree, d)
    PROVE  Hollow(t, d)
<1>1. PICK r : r = Top
  OBVIOUS
<1>2. Going(tree, r, d)
  BY <1>1, GoingNow
<1>3. PICK w : w = tree.kid[p][Other(d)]
  OBVIOUS
<1>4. /\ Even(tree.kid, tree.red, Present, p, d) /\ Ruled(tree.kid, tree.red, Present, NULL, NULL)
      /\ ~Red(tree, c)
  BY HoleIs
<1>5. CASE ~Red(tree, w)
  <2>1. t = tree
    BY <1>3, <1>5 DEF Aligned
  <2> QED
    BY <1>3, <1>4, <1>5, <2>1 DEF Hollow
<1>6. CASE Red(tree, w)
  <2>1. w # NULL /\ tree.red[w]
    BY <1>6 DEF Red
  <2>2. PICK t1 : t1 = Colour(tree, {w}, FALSE)
    OBVIOUS
  <2>3. Going(t1, r, d) /\ IsColoured(tree, {w}, FALSE, t1)
    BY <1>2, <2>2, GoingColour
  <2>4. PICK t2 : t2 = Colour(t1, {p}, TRUE)
    OBVIOUS
  <2>5. Going(t2, r, d) /\ IsColoured(t1, {p}, TRUE, t2)
    BY <2>3, <2>4, GoingColour
  <2>6. t = Rotate(t2, p, d)
    BY <1>3, <1>6, <2>2, <2>4 DEF Aligned
  <2>7. /\ t2.kid = tree.kid /\ t2.up = tree.up
        /\ \A e \in Node : t2.red[e] = IF e = p THEN TRUE ELSE IF e = w THEN FALSE ELSE tree.red[e]
    BY <2>3, <2>5 DEF IsColoured
  <2>8. PICK P : P = Present
    OBVIOUS
  <2>9. /\ tree.up \in UPS /\ tree.kid \in KIDS /\ Shape(tree.up, tree.kid, r, P)
        /\ d \in Side /\ Other(d) \in Side /\ Other(Other(d)) = d /\ Other(d) # d
        /\ P \in SUBSET Node /\ NULL \notin P /\ p \in P /\ tree.kid[p][d] = c
        /\ tree.red \in [Node -> BOOLEAN]
    BY <1>2, <2>8, GoingIs, Fields
  <2>10. /\ w \in P /\ tree.up[w] = p /\ w # p /\ w # c /\ c # p
    BY <1>2, <1>3, <2>1, <2>8, SiblingIs
  <2>11. Sound(t2, r, P, Keys)
    BY <2>5, <2>8 DEF Going
  <2>12. PICK r2 : Rotation(t2, r, P, Keys, p, w, d, t, r2) /\ Lifts(t2.up, t2.kid, P, p, w, d, t.kid)
    <3>1. w = t2.kid[p][Other(d)]
      BY <1>3, <2>7
    <3> QED
      BY <2>1, <2>6, <2>9, <2>11, <3>1, RotationLifts
  <2>13. t.red = t2.red /\ Lifts(tree.up, tree.kid, P, p, w, d, t.kid)
    BY <2>7, <2>12 DEF Rotation
  <2>14. PICK red2 \in [Node -> BOOLEAN] : red2 = t2.red
    BY <2>11, SoundIs
  <2>15. \A e \in P : red2[e] = IF e = p THEN TRUE ELSE IF e = w THEN FALSE ELSE tree.red[e]
    BY <2>7, <2>9, <2>14
  <2>16. \A e \in P : \A s \in Side :
            tree.red[e] /\ tree.kid[e][s] # NULL => ~tree.red[tree.kid[e][s]]
    BY <1>4, <2>8, <2>9 DEF Ruled
  <2>17. ~tree.red[p]
    BY <1>3, <2>1, <2>9, <2>16
  <2>18. Even(t.kid, red2, P, p, d)
    <3>1. Exchanged(tree.red, P, p, w, red2)
      BY <2>1, <2>9, <2>10, <2>15, <2>17 DEF Exchanged
    <3>2. Even(tree.kid, tree.red, P, p, d) /\ w # p /\ (p # p \/ d # Other(d))
      BY <1>4, <2>8, <2>9, <2>10
    <3> QED
      BY <2>9, <2>13, <3>1, <3>2, LiftBalanced
  <2>19. Ruled(t.kid, red2, P, NULL, NULL)
    <3>1. \A e \in P : red2[e] => e = p \/ (e # w /\ tree.red[e])
      BY <2>15
    <3>2. \A e \in P : \A s \in Side :
             e # p /\ e # w /\ tree.red[e] /\ tree.kid[e][s] # NULL => ~tree.red[tree.kid[e][s]]
      BY <2>16
    <3>3. tree.kid[p][d] # NULL => ~tree.red[tree.kid[p][d]]
      BY <1>4, <2>9 DEF Red
    <3>4. tree.kid[w][d] # NULL => ~tree.red[tree.kid[w][d]]
      BY <2>1, <2>9, <2>10, <2>16
    <3> QED
      BY <2>9, <2>13, <3>1, <3>2, <3>3, <3>4, LiftRuled
  <2>20. ~Red(t, c)
    <3>1. c # NULL => c \in P
      BY <2>9, KidFacts
    <3>2. c # NULL => ~red2[c]
      BY <1>4, <2>10, <2>15, <3>1 DEF Red
    <3> QED
      BY <2>13, <2>14, <3>2 DEF Red
  <2>21. ~Red(t, t.kid[p][Other(d)])
    <3>1. t.kid[p][Other(d)] = tree.kid[w][d]
      BY <2>9, <2>13 DEF Lifts
    <3>2. PICK e : e = tree.kid[w][d]
      OBVIOUS
    <3>3. e # NULL => e \in P /\ e # p /\ ~tree.red[e]
      <4>1. e # NULL => e \in P /\ tree.up[e] = w
        BY <2>9, <2>10, <3>2, KidFacts
      <4>2. e # p
        BY <2>9, <2>10, <4>1, NoTwoRing
      <4> QED
        BY <2>1, <2>9, <2>10, <2>16, <3>2, <4>1, <4>2
    <3>4. e # NULL => ~red2[e]
      BY <2>15, <3>3
    <3> QED
      BY <2>13, <2>14, <3>1, <3>2, <3>4 DEF Red
  <2> QED
    BY <2>8, <2>13, <2>14, <2>18, <2>19, <2>20, <2>21 DEF Hollow
<1> QED
  BY <1>5, <1>6
-----------------------------------------------------------------------------
\* In a turn of the loop of rbt_remove_node.
LEMMA LoopIs ==
    ASSUME IInv, pc = "remove", UNCHANGED <<kind, key, inside, pc, x, y, seen>>,
           NEW t, NEW r \in Pointer, NEW d, Going(t, r, d), Hollow(t, d),
           NEW w, w = t.kid[p][Other(d)], w # NULL
    PROVE  /\ kind' = kind /\ pc' = "remove" /\ Present' = Present
           /\ t \in Trees /\ t.up \in UPS /\ t.kid \in KIDS /\ t.red \in [Node -> BOOLEAN]
           /\ Shape(t.up, t.kid, r, Present)
           /\ d \in Side /\ Other(d) \in Side /\ Other(Other(d)) = d /\ Other(d) # d
           /\ Present \in SUBSET Node /\ NULL \notin Present
           /\ p \in Present /\ t.kid[p][d] = c
           /\ w \in Present /\ t.up[w] = p /\ w # c /\ w # p /\ w # r /\ c # p
           /\ Even(t.kid, t.red, Present, p, d)
           /\ \A e \in Present : \A s \in Side :
                 t.red[e] /\ t.kid[e][s] # NULL => ~t.red[t.kid[e][s]]
           /\ ~t.red[w] /\ (c # NULL => ~t.red[c])
<1>1. kind' = kind /\ pc' = "remove" /\ Present' = Present
  BY DEF Present, Removing
<1>2. /\ t \in Trees /\ t.up \in UPS /\ t.kid \in KIDS /\ t.red \in [Node -> BOOLEAN]
      /\ Shape(t.up, t.kid, r, Present)
      /\ d \in Side /\ Other(d) \in Side /\ Other(Other(d)) = d /\ Other(d) # d
      /\ Present \in SUBSET Node /\ NULL \notin Present
      /\ p \in Present /\ t.kid[p][d] = c
  BY GoingIs, Fields
<1>3. w \in Present /\ t.up[w] = p /\ w # c /\ w # p /\ w # r /\ c # p
  BY SiblingIs
<1>4. /\ Even(t.kid, t.red, Present, p, d) /\ Ruled(t.kid, t.red, Present, NULL, NULL)
      /\ ~t.red[w] /\ (c # NULL => ~t.red[c])
  BY DEF Hollow, Red
<1>5. \A e \in Present : \A s \in Side :
         t.red[e] /\ t.kid[e][s] # NULL => ~t.red[t.kid[e][s]]
  BY <1>2, <1>4 DEF Ruled
<1> QED
  BY <1>1, <1>2, <1>3, <1>4, <1>5

LEMMA RemoveUpRB ==
    ASSUME IInv, pc = "remove", UNCHANGED <<kind, key, inside, pc, x, y, seen>>,
           NEW t, NEW r \in Pointer, NEW d, Going(t, r, d), Hollow(t, d),
           NEW w, w = t.kid[p][Other(d)], w # NULL, RemoveUp(t, d, w)
    PROVE  RBInv'
<1>1. tree' = Colour(t, {w}, TRUE) /\ c' = p /\ p' = t.up[p]
      /\ \A s \in Side : ~Red(t, t.kid[w][s])
  BY DEF RemoveUp
<1>2. PICK P : P = Present
  OBVIOUS
<1>3. /\ kind' = kind /\ pc' = "remove" /\ Present' = P
      /\ t \in Trees /\ t.up \in UPS /\ t.kid \in KIDS /\ t.red \in [Node -> BOOLEAN]
      /\ Shape(t.up, t.kid, r, P)
      /\ d \in Side /\ Other(d) \in Side
      /\ P \in SUBSET Node /\ NULL \notin P
      /\ p \in P /\ t.kid[p][d] = c
      /\ w \in P /\ t.up[w] = p /\ w # c /\ w # p /\ w # r /\ c # p
      /\ Even(t.kid, t.red, P, p, d)
      /\ \A e \in P : \A s \in Side :
            t.red[e] /\ t.kid[e][s] # NULL => ~t.red[t.kid[e][s]]
      /\ ~t.red[w] /\ (c # NULL => ~t.red[c])
  BY <1>2, LoopIs
<1>4. IsColoured(t, {w}, TRUE, tree')
  BY <1>1, <1>3, ColourIs
<1>5. /\ tree' \in Trees /\ tree'.kid = t.kid /\ tree'.up = t.up /\ tree'.root = t.root
      /\ \A e \in Node : tree'.red[e] = IF e = w THEN TRUE ELSE t.red[e]
  BY <1>4 DEF IsColoured
<1>6. PICK red2 \in [Node -> BOOLEAN] : red2 = tree'.red
  BY <1>5, Fields
<1>7. Gives(t.red, P, w, red2)
  BY <1>3, <1>5, <1>6 DEF Gives
<1>8. ASSUME NEW q, NEW b, At(t.kid, r, P, q, b, p)
      PROVE  Even(t.kid, red2, P, q, b)
  BY <1>3, <1>7, <1>8, UpBalanced
<1>9. Ruled(t.kid, red2, P, NULL, p)
  <2> SUFFICES ASSUME NEW e \in P, NEW s \in Side,
                      red2[e], t.kid[e][s] # NULL, red2[t.kid[e][s]], e # p
               PROVE  FALSE
    BY DEF Ruled
  <2>1. t.kid[e][s] \in P /\ t.up[t.kid[e][s]] = e
    BY <1>3, KidFacts
  <2>2. t.kid[e][s] # w /\ t.red[t.kid[e][s]]
    BY <1>3, <1>7, <2>1 DEF Gives
  <2>3. CASE e = w
    BY <1>1, <2>2, <2>3 DEF Red
  <2>4. CASE e # w
    BY <1>3, <1>7, <2>2, <2>4 DEF Gives
  <2> QED
    BY <2>3, <2>4
<1>10. p = r <=> t.up[p] = NULL
  BY <1>3, KidFacts
<1>11. CASE p = r
  <2>1. At(t.kid, r, P, NULL, "left", p)
    BY <1>11 DEF At
  <2>2. Coloured(tree'.kid, tree'.red, Present', NULL, c', NULL, "left")
    BY <1>1, <1>3, <1>5, <1>6, <1>8, <1>9, <2>1 DEF Coloured
  <2>3. p' = NULL /\ ~Holed'
    BY <1>1, <1>10, <1>11 DEF Holed
  <2>4. c' = Top'
    <3>1. r = IF x # y /\ t.root = y THEN x ELSE t.root
      BY DEF Going
    <3>2. Top' = IF x # y /\ t.root = y THEN x ELSE t.root
      BY <1>3, <1>5 DEF Top, Removing
    <3> QED
      BY <1>1, <1>11, <3>1, <3>2
  <2> QED
    BY <1>3, <2>2, <2>3, <2>4 DEF RBInv
<1>12. CASE p # r
  <2>1. t.up[p] \in P /\ \E s \in Side : t.kid[t.up[p]][s] = p
    BY <1>3, <1>12, KidFacts
  <2>2. PICK q \in P : q = t.up[p]
    BY <2>1
  <2>3. PICK b \in Side : t.kid[q][b] = p
    BY <2>1, <2>2
  <2>4. At(t.kid, r, P, q, b, p)
    BY <2>3 DEF At
  <2>5. Coloured(t.kid, red2, P, NULL, p, q, b)
    BY <1>8, <1>9, <2>4 DEF Coloured
  <2>6. p # t.root
    BY <1>12, GoingHoled
  <2>7. Holed'
    BY <1>1, <1>3, <1>5, <2>2, <2>6 DEF Holed
  <2>8. \E s \in Side : /\ tree'.kid[p'][s] = c'
                        /\ Coloured(tree'.kid, tree'.red, Present', NULL, c', p', s)
    BY <1>1, <1>3, <1>5, <1>6, <2>2, <2>3, <2>5
  <2> QED
    BY <1>3, <2>7, <2>8 DEF RBInv
<1> QED
  BY <1>11, <1>12

LEMMA RemoveTurnRB ==
    ASSUME IInv, pc = "remove", UNCHANGED <<kind, key, inside, pc, x, y, seen>>,
           NEW t, NEW r \in Pointer, NEW d, Going(t, r, d), Hollow(t, d),
           NEW w, w = t.kid[p][Other(d)], w # NULL, RemoveTurn(t, d, w)
    PROVE  RBInv'
<1>1. PICK m : m = t.kid[w][d]
  OBVIOUS
<1>2. /\ m # NULL /\ t.red[m] /\ ~Red(t, t.kid[w][Other(d)]) /\ c' = c /\ p' = p
      /\ tree' = Rotate(Colour(Colour(t, {m}, FALSE), {w}, TRUE), w, Other(d))
  BY <1>1 DEF RemoveTurn, Red
<1>3. PICK P : P = Present
  OBVIOUS
<1>4. /\ kind' = kind /\ pc' = "remove" /\ Present' = P
      /\ t \in Trees /\ t.up \in UPS /\ t.kid \in KIDS /\ t.red \in [Node -> BOOLEAN]
      /\ Shape(t.up, t.kid, r, P)
      /\ d \in Side /\ Other(d) \in Side /\ Other(Other(d)) = d /\ Other(d) # d
      /\ P \in SUBSET Node /\ NULL \notin P
      /\ p \in P /\ t.kid[p][d] = c
      /\ w \in P /\ t.up[w] = p /\ w # c /\ w # p /\ w # r /\ c # p
      /\ Even(t.kid, t.red, P, p, d)
      /\ \A e \in P : \A s \in Side :
            t.red[e] /\ t.kid[e][s] # NULL => ~t.red[t.kid[e][s]]
      /\ ~t.red[w] /\ (c # NULL => ~t.red[c])
  BY <1>3, LoopIs
<1>5. PICK t1 : t1 = Colour(t, {m}, FALSE)
  OBVIOUS
<1>6. Going(t1, r, d) /\ IsColoured(t, {m}, FALSE, t1)
  BY <1>5, GoingColour
<1>7. PICK t2 : t2 = Colour(t1, {w}, TRUE)
  OBVIOUS
<1>8. Going(t2, r, d) /\ IsColoured(t1, {w}, TRUE, t2)
  BY <1>6, <1>7, GoingColour
<1>9. /\ t2.kid = t.kid /\ t2.up = t.up
      /\ \A e \in Node : t2.red[e] = IF e = w THEN TRUE ELSE IF e = m THEN FALSE ELSE t.red[e]
  BY <1>6, <1>8 DEF IsColoured
<1>10. PICK t3 : t3 = Rotate(t2, w, Other(d))
  OBVIOUS
<1>11. tree' = t3
  BY <1>2, <1>5, <1>7, <1>10
<1>12. m = t2.kid[w][Other(Other(d))] /\ w = t2.kid[p][Other(d)]
  BY <1>1, <1>4, <1>9
<1>13. Going(t3, r, d)
  <2>1. m # NULL
    BY <1>2
  <2>2. w # NULL /\ w # r
    BY <1>4
  <2> QED
    BY <1>8, <1>10, <1>12, <2>1, <2>2, GoingTurn
<1>14. PICK r2 : Rotation(t2, r, P, Keys, w, m, Other(d), t3, r2) /\ Lifts(t2.up, t2.kid, P, w, m, Other(d), t3.kid)
  <2>1. Sound(t2, r, P, Keys)
    BY <1>3, <1>8 DEF Going
  <2> QED
    BY <1>2, <1>4, <1>10, <1>12, <2>1, RotationLifts
<1>15. t3.red = t2.red /\ Lifts(t.up, t.kid, P, w, m, Other(d), t3.kid)
  BY <1>9, <1>14 DEF Rotation
<1>16. PICK red2 \in [Node -> BOOLEAN] : red2 = t2.red
  BY <1>8, GoingIs, Fields
<1>17. m \in P /\ t.up[m] = w /\ m # w /\ m # p
  <2>1. m \in P /\ t.up[m] = w /\ m # w
    <3>1. m # NULL
      BY <1>2
    <3>2. Shape(t.up, t.kid, r, P) /\ w \in P /\ d \in Side
      BY <1>4
    <3> QED
      BY <1>1, <3>1, <3>2, KidFacts
  <2> QED
    BY <1>4, <2>1, NoTwoRing
<1>18. \A e \in P : red2[e] = IF e = w THEN TRUE ELSE IF e = m THEN FALSE ELSE t.red[e]
  BY <1>4, <1>9, <1>16
<1>19. Even(t3.kid, red2, P, p, d)
  <2>1. Exchanged(t.red, P, w, m, red2)
    BY <1>2, <1>4, <1>17, <1>18 DEF Exchanged
  <2>2. m # p /\ (w # p \/ d # Other(Other(d)))
    BY <1>4, <1>17
  <2> QED
    BY <1>4, <1>15, <2>1, <2>2, LiftBalanced
<1>20. Ruled(t3.kid, red2, P, NULL, NULL)
  <2>1. \A e \in P : red2[e] => e = w \/ (e # m /\ t.red[e])
    BY <1>18
  <2>2. \A e \in P : \A s \in Side :
           e # w /\ e # m /\ t.red[e] /\ t.kid[e][s] # NULL => ~t.red[t.kid[e][s]]
    BY <1>4
  <2>3. t.kid[w][Other(d)] # NULL => ~t.red[t.kid[w][Other(d)]]
    BY <1>2 DEF Red
  <2>4. t.kid[m][Other(d)] # NULL => ~t.red[t.kid[m][Other(d)]]
    BY <1>2, <1>4, <1>17
  <2> QED
    BY <1>4, <1>15, <2>1, <2>2, <2>3, <2>4, LiftRuled
<1>21. Coloured(t3.kid, t3.red, P, NULL, c, p, d)
  <2>1. Ruled(t3.kid, red2, P, NULL, c)
    BY <1>4, <1>20, RuledAnyway
  <2> QED
    BY <1>15, <1>16, <1>19, <2>1 DEF Coloured
<1>22. c # t3.root /\ p # NULL /\ t3.kid[p][d] = c
  BY <1>13, GoingHoled, GoingIs
<1>23. Holed'
  BY <1>2, <1>4, <1>11, <1>22 DEF Holed
<1>24. \E s \in Side : /\ tree'.kid[p'][s] = c'
                       /\ Coloured(tree'.kid, tree'.red, Present', NULL, c', p', s)
  BY <1>2, <1>4, <1>11, <1>21, <1>22
<1> QED
  BY <1>4, <1>23, <1>24 DEF RBInv
-----------------------------------------------------------------------------
LEMMA RemoveLastRB ==
    ASSUME IInv, pc = "remove", UNCHANGED <<kind, key, inside, pc, x, y, seen>>,
           NEW t, NEW r \in Pointer, NEW d, Going(t, r, d), Hollow(t, d),
           NEW w, w = t.kid[p][Other(d)], w # NULL, RemoveLast(t, d, w)
    PROVE  RBInv'
<1>1. PICK m : m = t.kid[w][Other(d)]
  OBVIOUS
<1>2. PICK P : P = Present
  OBVIOUS
<1>3. /\ kind' = kind /\ pc' = "remove" /\ Present' = P
      /\ t \in Trees /\ t.up \in UPS /\ t.kid \in KIDS /\ t.red \in [Node -> BOOLEAN]
      /\ Shape(t.up, t.kid, r, P)
      /\ d \in Side /\ Other(d) \in Side /\ Other(Other(d)) = d /\ Other(d) # d
      /\ P \in SUBSET Node /\ NULL \notin P
      /\ p \in P /\ t.kid[p][d] = c
      /\ w \in P /\ t.up[w] = p /\ w # c /\ w # p /\ w # r /\ c # p
      /\ Even(t.kid, t.red, P, p, d)
      /\ \A e \in P : \A s \in Side :
            t.red[e] /\ t.kid[e][s] # NULL => ~t.red[t.kid[e][s]]
      /\ ~t.red[w] /\ (c # NULL => ~t.red[c])
  BY <1>2, LoopIs
<1>4. PICK t1 : t1 = Colour(t, {w}, t.red[p])
  OBVIOUS
<1>5. PICK t2 : t2 = Colour(t1, {p, m}, FALSE)
  OBVIOUS
<1>6. PICK t3 : t3 = Rotate(t2, p, d)
  OBVIOUS
<1>7. tree' = t3 /\ c' = t3.root /\ p' = p /\ m # NULL /\ t.red[m]
  BY <1>1, <1>4, <1>5, <1>6 DEF RemoveLast, Red
<1>8. t.red[p] \in BOOLEAN
  BY <1>3
<1>9. Going(t1, r, d) /\ IsColoured(t, {w}, t.red[p], t1)
  BY <1>4, <1>8, GoingColour
<1>10. Going(t2, r, d) /\ IsColoured(t1, {p, m}, FALSE, t2)
  BY <1>5, <1>9, GoingColour
<1>11. /\ t2.kid = t.kid /\ t2.up = t.up
       /\ \A e \in Node : t2.red[e] = IF e \in {p, m} THEN FALSE ELSE IF e = w THEN t.red[p] ELSE t.red[e]
  BY <1>9, <1>10 DEF IsColoured
<1>12. PICK r2 : Rotation(t2, r, P, Keys, p, w, d, t3, r2) /\ Lifts(t2.up, t2.kid, P, p, w, d, t3.kid)
  <2>1. Sound(t2, r, P, Keys) /\ w = t2.kid[p][Other(d)]
    BY <1>2, <1>10, <1>11 DEF Going
  <2> QED
    BY <1>3, <1>6, <2>1, RotationLifts
<1>13. t3.red = t2.red /\ Lifts(t.up, t.kid, P, p, w, d, t3.kid)
  BY <1>11, <1>12 DEF Rotation
<1>14. PICK red2 \in [Node -> BOOLEAN] : red2 = t2.red
  BY <1>10, GoingIs, Fields
<1>15. m \in P /\ t.up[m] = w /\ m # w /\ m # p
  <2>1. m \in P /\ t.up[m] = w /\ m # w
    BY <1>1, <1>3, <1>7, KidFacts
  <2> QED
    BY <1>3, <2>1, NoTwoRing
<1>16. \A e \in P : red2[e] = IF e = w THEN t.red[p] ELSE IF e = p \/ e = m THEN FALSE ELSE t.red[e]
  BY <1>3, <1>11, <1>14, <1>15
<1>17. Even(t3.kid, red2, P, NULL, "left")
  <2>1. Settles(t.kid, t.red, P, p, w, d, m, red2)
    BY <1>1, <1>3, <1>7, <1>16 DEF Settles
  <2> QED
    BY <1>3, <1>13, <1>15, <2>1, LastBalanced
<1>18. Ruled(t3.kid, red2, P, NULL, NULL)
  <2> SUFFICES ASSUME NEW e \in P, NEW s \in Side,
                      red2[e], t3.kid[e][s] # NULL, red2[t3.kid[e][s]]
               PROVE  FALSE
    BY DEF Ruled
  <2>1. t3.kid[e][s] = IF e = p /\ s = Other(d) THEN t.kid[w][d] ELSE IF e = w /\ s = d THEN p
                       ELSE IF e = t.up[p] /\ t.kid[e][s] = p THEN w ELSE t.kid[e][s]
    BY <1>13 DEF Lifts
  <2>2. e # p /\ e # m /\ ~red2[p] /\ ~red2[m]
    BY <1>3, <1>15, <1>16
  <2>3. CASE e = w
    <3>1. s = d \/ s = Other(d)
      BY <1>3, Sides
    <3>2. t.kid[w][s] # p
      <4>1. t.kid[w][s] = p => t.up[p] = w
        BY <1>3, KidFacts
      <4> QED
        BY <1>3, <4>1, NoTwoRing
    <3> QED
      BY <1>1, <2>1, <2>2, <2>3, <3>1, <3>2
  <2>4. CASE e # w
    <3>1. t.red[e]
      BY <1>16, <2>2, <2>4
    <3>2. CASE t.kid[e][s] = p
      <4>1. e = t.up[p] /\ p # NULL
        BY <1>3, <3>2, KidFacts
      <4>2. t3.kid[e][s] = w
        BY <2>1, <2>2, <2>4, <3>2, <4>1
      <4>3. t.red[p]
        BY <1>3, <1>16, <4>2
      <4> QED
        BY <1>3, <3>1, <3>2, <4>1, <4>3
    <3>3. CASE t.kid[e][s] # p
      <4>1. t3.kid[e][s] = t.kid[e][s]
        BY <2>1, <2>2, <2>4, <3>3
      <4>2. t.kid[e][s] \in P /\ t.up[t.kid[e][s]] = e
        BY <1>3, <4>1, KidFacts
      <4>3. t.red[t.kid[e][s]]
        BY <1>3, <1>16, <2>2, <4>1, <4>2
      <4> QED
        BY <1>3, <3>1, <4>1, <4>3
    <3> QED
      BY <3>2, <3>3
  <2> QED
    BY <2>3, <2>4
<1>19. Coloured(t3.kid, t3.red, P, NULL, c', NULL, "left")
  <2>1. Ruled(t3.kid, red2, P, NULL, c')
    BY <1>3, <1>18, RuledAnyway
  <2> QED
    BY <1>13, <1>14, <1>17, <2>1 DEF Coloured
<1>20. ~Holed' /\ p' # NULL
  BY <1>3, <1>7 DEF Holed
<1> QED
  BY <1>3, <1>7, <1>19, <1>20 DEF RBInv

LEMMA RemoveLoopRB ==
    ASSUME IInv, RBInv, RemoveLoop
    PROVE  RBInv'
<1>1. pc = "remove" /\ Missing /\ UNCHANGED <<kind, key, inside, pc, x, y, seen>>
  BY DEF RemoveLoop
<1>2. PICK d : d = IF tree.kid[p]["left"] = c THEN "left" ELSE "right"
  OBVIOUS
<1>3. PICK t : t = Aligned(tree, d)
  OBVIOUS
<1>4. PICK w : w = t.kid[p][Other(d)]
  OBVIOUS
<1>5. w # NULL /\ (RemoveUp(t, d, w) \/ RemoveTurn(t, d, w) \/ RemoveLast(t, d, w))
  BY <1>2, <1>3, <1>4 DEF RemoveLoop
<1>6. PICK r \in Pointer : Going(t, r, d)
  BY <1>1, <1>2, <1>3, AlignedIs
<1>7. Hollow(t, d)
  BY <1>1, <1>2, <1>3, AlignedHollow
<1> QED
  BY <1>1, <1>4, <1>5, <1>6, <1>7, RemoveUpRB, RemoveTurnRB, RemoveLastRB

LEMMA NextRB ==
    ASSUME IInv, RBInv, [Next]_vars
    PROVE  RBInv'
<1>1. CASE Loop
  BY <1>1, InsertDoneRB, InsertRecolourRB, InsertRotateRB, RemoveDoneRB, RemoveLoopRB, ReplaceRB,
     QuietRB DEF Loop
<1>2. CASE FreeAll \/ Travel
  BY <1>2, QuietRB
<1>3. ASSUME NEW n \in Node, Insert(n) \/ Remove(n) \/ \E m \in Node : ReplaceNode(n, m)
      PROVE  RBInv'
  BY <1>3, InsertRB, RemoveRB, ReplaceNodeRB
<1>4. CASE UNCHANGED vars
  BY <1>4, StutterRB
<1> QED
  BY <1>1, <1>2, <1>3, <1>4 DEF Next
-----------------------------------------------------------------------------
\* From the heights to the black nodes that RedBlack counts on the ways down.
LEMMA RootOver ==
    ASSUME NEW up \in UPS, NEW kid \in KIDS, NEW r, NEW P, Shape(up, kid, r, P), NEW n \in P
    PROVE  r \in Over(up, n)
<1>1. PICK S \in SUBSET P : S = {e \in P : r \notin Over(up, e)}
  OBVIOUS
<1>2. ASSUME S # {} PROVE FALSE
  <2>1. PICK e \in S : up[e] \notin S
    BY <1>2 DEF Shape
  <2>2. e \in P /\ r \notin Over(up, e)
    BY <1>1
  <2>3. e # r
    BY <2>2, OverIs
  <2>4. up[e] \in P /\ Over(up, e) = {e} \cup Over(up, up[e])
    BY <2>2, <2>3, OverIs, KidFacts
  <2> QED
    BY <1>1, <2>1, <2>2, <2>4
<1> QED
  BY <1>1, <1>2
-----------------------------------------------------------------------------
\* Where a side of a node is free, the black nodes above it, and one where one
\* is missing, make the height of the root.
LEMMA EndIs ==
    ASSUME NEW up \in UPS, NEW kid \in KIDS, NEW r, NEW P, Shape(up, kid, r, P),
           NEW red \in [Node -> BOOLEAN], NEW h, NEW q, NEW b, Balanced(kid, red, P, h, q, b),
           q # NULL => q \in P /\ b \in Side,
           NEW n \in P, NEW s \in Side, kid[n][s] = NULL
    PROVE  /\ h[r] \in Nat /\ BlackOver(up, red, n) \in Nat
           /\ BlackOver(up, red, n) + Credit(up, kid, q, b, n)
              + (IF q # NULL /\ kid[q][b] = NULL /\ q = n THEN 1 ELSE 0) = h[r]
<1>1. P \in SUBSET Node /\ NULL \notin P /\ r \in P
  BY KidFacts
<1>2. Levelled(kid, red, P, h, q, b)
  BY <1>1, BalanceIs
<1>3. h[r] \in Nat /\ h[n] \in Nat
  BY <1>1, <1>2 DEF Levelled
<1>4. BlackOver(up, red, n) \in Nat
      /\ BlackOver(up, red, n) + Credit(up, kid, q, b, n) + h[n] = h[r] + Weight(red, n)
  BY Levels
<1>5. \A u \in Side : h[n] = Weight(red, n) + Height(h, kid[n][u]) + Lack(n, u, q, b)
  BY <1>2 DEF Levelled
<1>6. Height(h, kid[n][s]) = 0
  BY DEF Height
<1>7. (IF q # NULL /\ kid[q][b] = NULL /\ q = n THEN 1 ELSE 0) = Lack(n, s, q, b)
  <2>1. CASE n = q /\ s = b
    BY <1>1, <2>1 DEF Lack
  <2>2. CASE n # q
    BY <2>2 DEF Lack
  <2>3. CASE n = q /\ s # b
    <3>1. ASSUME kid[n][b] = NULL PROVE FALSE
      <4>1. Height(h, kid[n][b]) = 0 /\ Lack(n, b, q, b) = 1 /\ Lack(n, s, q, b) = 0 /\ b \in Side
        BY <1>1, <2>3, <3>1 DEF Height, Lack
      <4>2. PICK w \in Nat : w = Weight(red, n)
        BY WeightIs
      <4>3. h[n] = w + 0 + 1 /\ h[n] = w + 0 + 0
        BY <1>5, <1>6, <4>1, <4>2
      <4> QED
        BY <4>2, <4>3
    <3> QED
      BY <2>3, <3>1 DEF Lack
  <2> QED
    BY <2>1, <2>2, <2>3
<1>8. PICK k \in Nat, cr \in Nat, w \in Nat, l \in Nat, hn \in Nat, hr \in Nat :
         /\ k = BlackOver(up, red, n) /\ cr = Credit(up, kid, q, b, n) /\ w = Weight(red, n)
         /\ l = Lack(n, s, q, b) /\ hn = h[n] /\ hr = h[r]
  <2>1. Credit(up, kid, q, b, n) \in Nat /\ Weight(red, n) \in Nat /\ Lack(n, s, q, b) \in Nat
    BY WeightIs DEF Credit, Lack
  <2> QED
    BY <1>3, <1>4, <2>1
<1>9. k + cr + hn = hr + w /\ hn = w + 0 + l
  BY <1>4, <1>5, <1>6, <1>8
<1>10. k + cr + l = hr
  BY <1>9
<1> QED
  BY <1>3, <1>4, <1>7, <1>8, <1>10

LEMMA BlacksIs ==
    ASSUME TypeOK, NEW n \in Node
    PROVE  /\ Above(n) = Over(tree.up, n)
           /\ Cardinality({m \in Above(n) : ~tree.red[m]}) = BlackOver(tree.up, tree.red, n)
<1>1. Above(n) = Over(tree.up, n)
  <2>1. n \in Pointer
    BY DEF Pointer
  <2> QED
    BY <2>1, AboveIs
<1> QED
  BY <1>1 DEF BlackOver

LEMMA EndsAreLevel ==
    ASSUME IInv, RBInv, kind = "rbt", pc # "free"
    PROVE  \E v : \A e \in Ends : BlacksTo(e) = v
<1>1. Sound(tree, Top, Present, Keys) /\ TypeOK
  BY DEF IInv, TreeInv
<1>2. PICK r : r = Top
  OBVIOUS
<1>3. PICK P : P = Present
  OBVIOUS
<1>4. /\ tree \in Trees /\ tree.up \in UPS /\ tree.kid \in KIDS /\ tree.red \in [Node -> BOOLEAN]
      /\ Shape(tree.up, tree.kid, r, P) /\ P \in SUBSET Node /\ NULL \notin P
  BY <1>1, <1>2, <1>3, SoundIs
<1>5. \A e \in Ends : \E n \in P : \E s \in Side : e[1] = n /\ tree.kid[n][s] = NULL
  BY <1>3 DEF Ends
<1>6. ASSUME NEW v, NEW n \in P, NEW s \in Side, NEW e, e[1] = n, tree.kid[n][s] = NULL
      PROVE  BlacksTo(e) = BlackOver(tree.up, tree.red, n)
                           + (IF pc = "remove" /\ c \in Over(tree.up, n) THEN 1 ELSE 0)
                           + (IF pc = "remove" /\ c = NULL /\ p = n THEN 1 ELSE 0)
  BY <1>1, <1>4, <1>6, BlacksIs DEF BlacksTo, Blacks
<1>7. CASE pc = "remove" /\ Holed
  <2>1. PICK d \in Side : tree.kid[p][d] = c /\ Coloured(tree.kid, tree.red, P, NULL, c, p, d)
    BY <1>3, <1>7 DEF RBInv
  <2>2. p \in P /\ p # NULL
    BY <1>3, <1>7 DEF IInv, InLoop, Holed
  <2>3. PICK h : Balanced(tree.kid, tree.red, P, h, p, d)
    BY <2>1 DEF Coloured, Even
  <2>4. ASSUME NEW e \in Ends PROVE BlacksTo(e) = h[r]
    <3>1. PICK n \in P : \E s \in Side : e[1] = n /\ tree.kid[n][s] = NULL
      BY <1>5
    <3>2. PICK s \in Side : e[1] = n /\ tree.kid[n][s] = NULL
      BY <3>1
    <3>3. BlackOver(tree.up, tree.red, n) + Credit(tree.up, tree.kid, p, d, n)
          + (IF p # NULL /\ tree.kid[p][d] = NULL /\ p = n THEN 1 ELSE 0) = h[r]
      BY <1>4, <2>2, <2>3, <3>2, EndIs
    <3>4. Credit(tree.up, tree.kid, p, d, n)
          = IF pc = "remove" /\ c \in Over(tree.up, n) THEN 1 ELSE 0
      BY <1>7, <2>1, <2>2 DEF Credit
    <3>5. (IF p # NULL /\ tree.kid[p][d] = NULL /\ p = n THEN 1 ELSE 0)
          = IF pc = "remove" /\ c = NULL /\ p = n THEN 1 ELSE 0
      BY <1>7, <2>1, <2>2
    <3> QED
      BY <1>6, <3>2, <3>3, <3>4, <3>5
  <2> QED
    BY <2>4
<1>8. CASE pc # "remove" \/ ~Holed
  <2>1. \E h : Balanced(tree.kid, tree.red, P, h, NULL, "left")
    <3>1. \E a, b : Coloured(tree.kid, tree.red, P, a, b, NULL, "left")
      <4>1. pc \in {"out", "insert", "remove", "replace", "travel"}
        BY <1>1 DEF TypeOK
      <4>2. CASE pc \in {"out", "travel", "replace"}
        BY <1>3, <4>2 DEF RBInv
      <4>3. CASE pc = "insert"
        BY <1>3, <4>3 DEF RBInv
      <4>4. CASE pc = "remove"
        BY <1>3, <1>8, <4>4 DEF RBInv
      <4> QED
        BY <4>1, <4>2, <4>3, <4>4
    <3> QED
      BY <3>1 DEF Coloured, Even
  <2>2. PICK h : Balanced(tree.kid, tree.red, P, h, NULL, "left")
    BY <2>1
  <2>3. PICK v : v = h[r] + (IF pc = "remove" /\ c = r THEN 1 ELSE 0)
    OBVIOUS
  <2>4. ASSUME NEW e \in Ends PROVE BlacksTo(e) = v
    <3>1. PICK n \in P : \E s \in Side : e[1] = n /\ tree.kid[n][s] = NULL
      BY <1>5
    <3>2. PICK s \in Side : e[1] = n /\ tree.kid[n][s] = NULL
      BY <3>1
    <3>3. PICK k \in Nat, hr \in Nat : k = BlackOver(tree.up, tree.red, n) /\ hr = h[r] /\ k = hr
      <4>1. /\ h[r] \in Nat /\ BlackOver(tree.up, tree.red, n) \in Nat
            /\ BlackOver(tree.up, tree.red, n) + Credit(tree.up, tree.kid, NULL, "left", n)
               + (IF NULL # NULL /\ tree.kid[NULL]["left"] = NULL /\ NULL = n THEN 1 ELSE 0) = h[r]
        BY <1>4, <2>2, <3>2, EndIs
      <4>2. Credit(tree.up, tree.kid, NULL, "left", n) = 0
        BY DEF Credit
      <4>3. PICK k \in Nat, hr \in Nat : k = BlackOver(tree.up, tree.red, n) /\ hr = h[r]
        BY <4>1
      <4>4. k + 0 + 0 = hr
        BY <4>1, <4>2, <4>3
      <4> QED
        BY <4>3, <4>4
    <3>4. r # NULL /\ r \in P /\ r \in Over(tree.up, n) /\ Over(tree.up, n) \subseteq P
      BY <1>4, KidFacts, RootOver, OverIs
    <3>5. ASSUME pc = "remove" PROVE (c \in Over(tree.up, n) <=> c = r) /\ ~(c = NULL /\ p = n)
      <4>1. c = tree.root \/ (p = NULL /\ c = r)
        BY <1>2, <1>3, <1>8, <3>5 DEF RBInv, Holed
      <4>2. Removing /\ y \in Node /\ (x # y => y \notin P)
            /\ r = IF x # y /\ tree.root = y THEN x ELSE tree.root
        BY <1>2, <1>3, <3>5, RemovingIs DEF Removing, Top
      <4> QED
        BY <1>4, <3>4, <4>1, <4>2, NullIsNoNode
    <3>6. (IF pc = "remove" /\ c \in Over(tree.up, n) THEN 1 ELSE 0)
          = (IF pc = "remove" /\ c = r THEN 1 ELSE 0)
          /\ (IF pc = "remove" /\ c = NULL /\ p = n THEN 1 ELSE 0) = 0
      BY <3>5
    <3>7. BlacksTo(e) = k + (IF pc = "remove" /\ c = r THEN 1 ELSE 0) + 0
      BY <1>6, <3>2, <3>3, <3>6
    <3> QED
      BY <2>3, <3>3, <3>7
  <2> QED
    BY <2>4
<1> QED
  BY <1>7, <1>8

\* The red-black rules, whatever nodes and keys there are: outside the calls
\* they hold, and inside one but for the exception that its loop is about to
\* repair.
THEOREM TreeIsRedBlack == Spec => []RedBlack
<1>1. ASSUME IInv, RBInv PROVE RedBlack
  <2> SUFFICES ASSUME kind = "rbt", pc # "free"
               PROVE  /\ pc = "out" => ~Red(tree, tree.root)
                      /\ \A n \in Present, d \in Side :
                            Red(tree, n) /\ Red(tree, tree.kid[n][d])
                                => \/ pc = "insert" /\ tree.kid[n][d] = x
                                   \/ pc = "remove" /\ n = c
                      /\ Cardinality({BlacksTo(e) : e \in Ends}) <= 1
    BY DEF RedBlack
  <2>1. pc = "out" => ~Red(tree, tree.root)
    BY <1>1 DEF IInv, RootRule
  <2>2. ASSUME NEW n \in Present, NEW d \in Side, Red(tree, n), Red(tree, tree.kid[n][d])
        PROVE  \/ pc = "insert" /\ tree.kid[n][d] = x
               \/ pc = "remove" /\ n = c
    <3>1. n # NULL /\ tree.red[n] /\ tree.kid[n][d] # NULL /\ tree.red[tree.kid[n][d]]
      BY <2>2 DEF Red
    <3>2. pc \in {"out", "insert", "remove", "replace", "travel"}
      BY <1>1 DEF IInv, TypeOK
    <3>3. CASE pc \in {"out", "travel", "replace"}
      BY <1>1, <3>1, <3>3 DEF RBInv, Coloured, Ruled
    <3>4. CASE pc = "insert"
      BY <1>1, <3>1, <3>4 DEF RBInv, Coloured, Ruled
    <3>5. CASE pc = "remove"
      <4>1. Ruled(tree.kid, tree.red, Present, NULL, c)
        BY <1>1, <3>5 DEF RBInv, Coloured
      <4> QED
        BY <3>1, <3>5, <4>1 DEF Ruled
    <3> QED
      BY <3>2, <3>3, <3>4, <3>5
  <2>3. Cardinality({BlacksTo(e) : e \in Ends}) <= 1
    <3>1. PICK v : \A e \in Ends : BlacksTo(e) = v
      BY <1>1, EndsAreLevel
    <3>2. {BlacksTo(e) : e \in Ends} \in SUBSET {v}
      BY <3>1
    <3>3. IsFiniteSet({v}) /\ Cardinality({v}) = 1
      BY FS_Singleton
    <3>4. Cardinality({BlacksTo(e) : e \in Ends}) <= Cardinality({v})
      BY <3>2, <3>3, FS_Subset
    <3> QED
      BY <3>3, <3>4
  <2> QED
    BY <2>1, <2>2, <2>3
<1>2. IInv /\ RBInv => RedBlack
  BY <1>1
<1>3. Init => RBInv
  BY InitRB
<1>4. IInv /\ RBInv /\ [Next]_vars => RBInv'
  BY NextRB
<1> QED
  BY <1>2, <1>3, <1>4, Inductive, PTL DEF Spec
-----------------------------------------------------------------------------
\* The code goes through these pointers without a test: the grandparent of x
\* below a red parent, and the sibling of c ("w can't be NULL").
NoNullIsRead ==
    /\ pc = "insert" /\ Red(tree, Parent) => Grand # NULL
    /\ pc = "remove" /\ Missing =>
         LET d == IF tree.kid[p]["left"] = c THEN "left" ELSE "right"
         IN Aligned(tree, d).kid[p][Other(d)] # NULL

\* The short side of p makes the other one higher than an empty side, before
\* and after a red sibling is rotated away: the guard w # NULL of RemoveLoop
\* never stops the loop.
THEOREM SiblingIsThere == Spec => []NoNullIsRead
<1>1. ASSUME IInv, RBInv PROVE NoNullIsRead
  <2>1. ASSUME pc = "insert", Red(tree, Parent) PROVE Grand # NULL
    BY <1>1, <2>1, GrandBlack, InsertingIs
  <2>2. ASSUME pc = "remove", Missing, NEW d, d = IF tree.kid[p]["left"] = c THEN "left" ELSE "right"
        PROVE  Aligned(tree, d).kid[p][Other(d)] # NULL
    <3>1. PICK t : t = Aligned(tree, d)
      OBVIOUS
    <3>2. PICK r \in Pointer : Going(t, r, d)
      BY <1>1, <2>2, <3>1, AlignedIs
    <3>3. Hollow(t, d)
      BY <1>1, <2>2, <3>1, AlignedHollow
    <3>4. /\ t.kid \in KIDS /\ Present \in SUBSET Node /\ p \in Present
          /\ d \in Side /\ Other(d) \in Side /\ Other(d) # d
      BY <3>2, GoingIs
    <3>5. PICK h : Balanced(t.kid, t.red, Present, h, p, d)
      BY <3>3 DEF Hollow, Even
    <3>6. Levelled(t.kid, t.red, Present, h, p, d)
      BY <3>4, <3>5, BalanceIs
    <3>7. SUFFICES ASSUME t.kid[p][Other(d)] = NULL PROVE FALSE
      BY <3>1
    <3>8. PICK w \in Nat, hc \in Nat : w = Weight(t.red, p) /\ hc = Height(h, t.kid[p][d])
      BY <3>4, <3>6, WeightIs DEF Levelled
    <3>9. Lack(p, d, p, d) = 1 /\ Lack(p, Other(d), p, d) = 0 /\ Height(h, t.kid[p][Other(d)]) = 0
      BY <3>4, <3>7 DEF Lack, Height
    <3>10. h[p] = w + hc + 1 /\ h[p] = w + 0 + 0
      BY <3>4, <3>6, <3>8, <3>9 DEF Levelled
    <3> QED
      BY <3>8, <3>10
  <2> QED
    BY <2>1, <2>2 DEF NoNullIsRead
<1>2. IInv /\ RBInv => NoNullIsRead
  BY <1>1
<1>3. Init => RBInv
  BY InitRB
<1>4. IInv /\ RBInv /\ [Next]_vars => RBInv'
  BY NextRB
<1> QED
  BY <1>2, <1>3, <1>4, Inductive, PTL DEF Spec
===============================================================================
