--------------------------- MODULE DataExchanger ---------------------------
(***************************************************************************)
(* The multi-writer, multi-reader exchanger of M_data_exchanger.c (the     *)
(* __M_CFG_ATOMIC branch), at the level of its pointers: de->head and the  *)
(* next field of every node.                                               *)
(*                                                                         *)
(* An insertion links the last node of the caller's list to the head it    *)
(* has seen and exchanges the head for the first node; when the head has   *)
(* changed, the value the exchange returned is linked instead.  A removal  *)
(* tests the head and then exchanges it for NULL.  Nodes are reused: a     *)
(* thread inserts again what it has taken, so a head that left and came    *)
(* back (the ABA case) does occur.                                         *)
(*                                                                         *)
(* de_insert is the insertion of a list of one node.  MaxList bounds the   *)
(* length of the lists that de_insert_list is given.                       *)
(***************************************************************************)
EXTENDS Naturals, Sequences, FiniteSets

CONSTANTS Thread, Node, NULL, MaxList

ASSUME NullIsNoNode == NULL \notin Node
ASSUME NodesFinite == IsFiniteSet(Node)
ASSUME MaxListPositive == MaxList \in Nat \ {0}

VARIABLES head,     \* de->head
          next,     \* the next field of every node
          pc,       \* where each thread is
          list,     \* the nodes a thread is inserting, first to last
          tmp,      \* local tmp: the head a thread saw last
          pool,     \* the nodes each thread may use (its own, or taken)
          content   \* history: the nodes put and not yet taken, newest first

vars == <<head, next, pc, list, tmp, pool, content>>

Ptr == Node \cup {NULL}
Nodes(s) == {s[i] : i \in 1 .. Len(s)}

\* The lists of distinct nodes that can be made of a set of nodes.
Lists(S) == {s \in UNION {[1 .. n -> S] : n \in 1 .. MaxList} :
                \A i, j \in 1 .. Len(s) : s[i] = s[j] => i = j}

TypeOK ==
    /\ head \in Ptr /\ next \in [Node -> Ptr]
    /\ pc \in [Thread -> {"out", "link", "cas", "xchg"}]
    /\ tmp \in [Thread -> Ptr]
    /\ pool \in [Thread -> SUBSET Node]
    /\ content \in Seq(Node) /\ list \in [Thread -> Seq(Node)]
    /\ \A t \in Thread : Nodes(list[t]) \subseteq pool[t]

Init ==
    /\ head = NULL
    /\ next = [n \in Node |-> NULL]
    /\ pc = [t \in Thread |-> "out"]
    /\ list = [t \in Thread |-> <<>>]
    /\ tmp = [t \in Thread |-> NULL]
    /\ pool \in [Thread -> SUBSET Node]
    /\ \A n \in Node : \E t \in Thread :
           \A u \in Thread : n \in pool[u] <=> u = t
    /\ content = <<>>

Goto(t, loc) == pc' = [pc EXCEPT ![t] = loc]

\* The caller has chained the nodes of s with slist_insert; the call loads the
\* head.
BeginInsert(t) ==
    /\ pc[t] = "out"
    /\ \E s \in Lists(pool[t]) :
          /\ list' = [list EXCEPT ![t] = s]
          /\ next' = [n \in Node |->
                         IF \E i \in 1 .. Len(s) - 1 : s[i] = n
                         THEN s[1 + CHOOSE i \in 1 .. Len(s) - 1 : s[i] = n]
                         ELSE next[n]]
    /\ tmp' = [tmp EXCEPT ![t] = head]
    /\ Goto(t, "link")
    /\ UNCHANGED <<head, pool, content>>

\* oldv = tmp; tail->next = tmp.
LinkTo(t) == tmp[t]

Link(t) ==
    /\ pc[t] = "link"
    /\ next' = [next EXCEPT ![list[t][Len(list[t])]] = LinkTo(t)]
    /\ Goto(t, "cas")
    /\ UNCHANGED <<head, list, tmp, pool, content>>

\* atomic_cmpxchg(&de->head, oldv, node) returned oldv.
StoreAnyway(t) == TRUE                  \* defect: a store, not an exchange
CasWins(t) == head = tmp[t]

\* Where a lost exchange goes on: the last node is linked again.
ToCas(t) == Goto(t, "cas")              \* defect: the old link is kept
ToLink(t) == Goto(t, "link")

\* What a lost exchange goes on with: the head it returned.
KeepOldHead(t) == tmp                   \* defect: the old head is kept
NewHead(t) == [tmp EXCEPT ![t] = head]

CasInsert(t) ==
    /\ pc[t] = "cas"
    /\ \/ /\ CasWins(t)
          /\ head' = list[t][1]
          /\ pool' = [pool EXCEPT ![t] = @ \ Nodes(list[t])]
          /\ content' = list[t] \o content
          /\ list' = [list EXCEPT ![t] = <<>>]
          /\ Goto(t, "out")
          /\ UNCHANGED tmp
       \/ /\ ~CasWins(t)
          /\ tmp' = NewHead(t)
          /\ ToLink(t)
          /\ UNCHANGED <<head, list, pool, content>>
    /\ UNCHANGED next

\* de_remove first looks whether there is anything: if not, it returns NULL.
TestEmpty(t) ==
    /\ pc[t] = "out" /\ head # NULL
    /\ Goto(t, "xchg")
    /\ UNCHANGED <<head, next, list, tmp, pool, content>>

\* atomic_xchg_return(&de->head, NULL): the caller now has the whole list, or
\* nothing when another thread took it since the test.
LeaveHead == head                       \* defect: the head is not reset
NoHead == NULL

Take(t) ==
    /\ pc[t] = "xchg"
    /\ head' = NoHead
    /\ pool' = [pool EXCEPT ![t] = @ \cup Nodes(content)]
    /\ content' = <<>>
    /\ Goto(t, "out")
    /\ UNCHANGED <<next, list, tmp>>

Step(t) == Link(t) \/ CasInsert(t) \/ Take(t)

Next == \E t \in Thread : BeginInsert(t) \/ TestEmpty(t) \/ Step(t)

Spec == Init /\ [][Next]_vars

\* Threads inside a call keep running; nobody has to begin one.
Fairness == \A t \in Thread : WF_vars(Step(t))

FairSpec == Spec /\ Fairness
-----------------------------------------------------------------------------
\* The pointers from p spell the list s.
Spells(p, s) ==
    IF s = <<>> THEN p = NULL
    ELSE /\ p = s[1]
         /\ \A i \in 1 .. Len(s) - 1 : next[s[i]] = s[i + 1]
         /\ next[s[Len(s)]] = NULL

\* Whatever the interleaving, a reader that takes the head finds, following
\* the next fields, exactly the nodes that were inserted and not yet taken, in
\* order, up to a NULL: nothing lost, nothing twice, no cycle.
HeadSpellsContent == Spells(head, content)

\* The list a client finds when it walks from p.
Walk(p) ==
    LET at[k \in 0 .. Cardinality(Node)] ==
            IF k = 0 THEN p
            ELSE IF at[k - 1] = NULL THEN NULL ELSE next[at[k - 1]]
        len == Cardinality({k \in DOMAIN at : at[k] # NULL})
    IN [k \in 1 .. len |-> at[k - 1]]

\* What a thread has taken, or not yet put, is its own: nobody else can reach
\* it through the head.
TakenIsPrivate ==
    \A t \in Thread : pool[t] \cap Nodes(Walk(head)) = {}

\* The pointers do what an exchanger promises.
Abstract == INSTANCE Exchanger WITH content <- Walk(head)
ImplementsExchanger == Abstract!Spec

\* Somebody always gets through: if insertions stay unfinished, nodes keep
\* going in or out.
Inserting(t) == pc[t] \in {"link", "cas"}
Progress == \/ []<>(\A t \in Thread : ~Inserting(t))
            \/ []<><<content' # content>>_vars
=============================================================================
