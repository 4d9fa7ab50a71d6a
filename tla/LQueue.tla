------------------------------- MODULE LQueue -------------------------------
(***************************************************************************)
(* The lockless queue of M_lqueue.c (__M_CFG_ATOMIC and                    *)
(* __M_CFG_COUNT_LQUEUE): many writers, one reader.  Writers insert into a *)
(* data exchanger, whose list is newest first; the reader exchanges that   *)
(* list for an empty one, reverses it and keeps the rest of it in a        *)
(* private tail list.  A separate word counts the nodes.                   *)
(*                                                                         *)
(* An insertion into the exchanger and the exchange of its whole list are  *)
(* each one step here, as module Exchanger promises and DataExchanger      *)
(* implements; the count is changed in a step of its own, so it runs ahead *)
(* of or behind the lists.                                                 *)
(*                                                                         *)
(* Modes lists, for each way of using the queue, the removal calls that    *)
(* the reader makes.  MaxAsk bounds the number of nodes it asks            *)
(* lqueue_remove_list_bycount for.                                         *)
(***************************************************************************)
EXTENDS Integers, Sequences, FiniteSets

CONSTANTS Writer, Node, Modes, MaxAsk

ASSUME ModesKnown == Modes \subseteq SUBSET {"remove", "remove_list", "bycount"}
ASSUME MaxAskNat == MaxAsk \in Nat
ASSUME FiniteParts == IsFiniteSet(Writer) /\ IsFiniteSet(Node)

VARIABLES calls,    \* the removal calls this reader makes
          content,  \* the list of the exchanger, newest first
          tail,     \* the reader's private list, oldest first
          count,    \* lq->count
          wpc,      \* where each writer is
          rpc,      \* where the reader is
          ret,      \* the list the reader is about to return
          asked,    \* *count on entry to lqueue_remove_list_bycount
          told,     \* *count as that call leaves it
          free      \* the nodes that are not in the queue

queue_vars == <<calls, content, tail, count, wpc, rpc, ret, asked, told, free>>

Nodes(s) == {s[i] : i \in 1 .. Len(s)}
Reversed(s) == [i \in 1 .. Len(s) |-> s[Len(s) + 1 - i]]

\* The nodes in the queue, oldest first.
Queue == tail \o Reversed(content)

QueueInit ==
    /\ calls \in Modes
    /\ content = <<>> /\ tail = <<>> /\ count = 0
    /\ wpc = [w \in Writer |-> "out"]
    /\ rpc = "out" /\ ret = <<>> /\ asked = 0 /\ told = 0
    /\ free = Node

-----------------------------------------------------------------------------
\* lqueue_insert: the node goes into the exchanger, then it is counted.
Insert(w) ==
    /\ wpc[w] = "out"
    /\ \E n \in free :
          /\ content' = <<n>> \o content
          /\ free' = free \ {n}
    /\ wpc' = [wpc EXCEPT ![w] = "inc"]
    /\ UNCHANGED <<calls, tail, count, rpc, ret, asked, told>>

Inc(w) ==
    /\ wpc[w] = "inc"
    /\ count' = count + 1
    /\ wpc' = [wpc EXCEPT ![w] = "out"]
    /\ UNCHANGED <<calls, content, tail, rpc, ret, asked, told, free>>

-----------------------------------------------------------------------------
\* The tail list after the exchange that refills it when it is empty.
NotReversed ==                          \* defect: the refill is not reversed
    IF tail = <<>> THEN content ELSE tail
Refilled == IF tail = <<>> THEN Reversed(content) ELSE tail
KeepHead == UNCHANGED content           \* defect: the old list stays inside
Refill == content' = IF tail = <<>> THEN <<>> ELSE content

Calling(call) == rpc = "out" /\ call \in calls

\* lqueue_remove: return NULL when the count is 0, else count one less ...
RemoveTest ==
    /\ Calling("remove") /\ count # 0
    /\ rpc' = "dec"
    /\ UNCHANGED <<calls, content, tail, count, wpc, ret, asked, told, free>>

SameCount == count                      \* defect: the node is not counted out
CountedOut == count - 1

RemoveDec ==
    /\ rpc = "dec"
    /\ count' = CountedOut
    /\ rpc' = "pop"
    /\ UNCHANGED <<calls, content, tail, wpc, ret, asked, told, free>>

\* ... refill the tail list if it is empty, and take its first node.  The code
\* reads ret->next whether or not there is a node.
RemovePop ==
    /\ rpc = "pop"
    /\ Refill
    /\ \/ /\ Refilled # <<>>
          /\ tail' = Tail(Refilled)
          /\ ret' = <<Head(Refilled)>>
          /\ free' = free \cup {Head(Refilled)}
          /\ rpc' = "out"
       \/ /\ Refilled = <<>>
          /\ rpc' = "crashed"
          /\ UNCHANGED <<tail, ret, free>>
    /\ UNCHANGED <<calls, count, wpc, asked, told>>

-----------------------------------------------------------------------------
\* lqueue_remove_list with a tail list: that list is returned, uncounted.
ListFromTail ==
    /\ Calling("remove_list") /\ tail # <<>>
    /\ ret' = tail
    /\ tail' = <<>>
    /\ free' = free \cup Nodes(tail)
    /\ UNCHANGED <<calls, content, count, wpc, rpc, asked, told>>

\* Without one: take the exchanger's list (de_remove looks first), reverse and
\* count it, and count it out.
ListTest ==
    /\ Calling("remove_list") /\ tail = <<>> /\ content # <<>>
    /\ rpc' = "list_xchg"
    /\ UNCHANGED <<calls, content, tail, count, wpc, ret, asked, told, free>>

ListXchg ==
    /\ rpc = "list_xchg"
    /\ ret' = Refilled
    /\ Refill
    /\ rpc' = "list_sub"
    /\ UNCHANGED <<calls, tail, count, wpc, asked, told, free>>

ListSub ==
    /\ rpc = "list_sub"
    /\ count' = count - Len(ret)
    /\ free' = free \cup Nodes(ret)
    /\ rpc' = "out"
    /\ UNCHANGED <<calls, content, tail, wpc, ret, asked, told>>

-----------------------------------------------------------------------------
\* lqueue_remove_list_bycount: NULL when the count is 0, and *count is left
\* as the caller set it ...
ByTest ==
    /\ Calling("bycount")
    /\ asked' \in 0 .. MaxAsk
    /\ told' = asked'
    /\ IF count = 0 THEN ret' = <<>> /\ rpc' = "out"
                    ELSE UNCHANGED ret /\ rpc' = "by_xchg"
    /\ UNCHANGED <<calls, content, tail, count, wpc, free>>

\* ... else cut off the first nodes: the loop starts at 1, so at least one, and
\* stops at the number asked for or at the end of the list.
CutAt(k, len) == IF len = 0 THEN 0
                 ELSE IF k <= 1 THEN 1
                 ELSE IF k <= len THEN k ELSE len

DropRest(k, s) == <<>>                  \* defect: the cut loses the rest
Rest(k, s) == SubSeq(s, k + 1, Len(s))

ByXchg ==
    /\ rpc = "by_xchg"
    /\ Refill
    /\ told' = CutAt(asked, Len(Refilled))
    /\ ret' = SubSeq(Refilled, 1, told')
    /\ tail' = Rest(told', Refilled)
    /\ rpc' = "by_sub"
    /\ UNCHANGED <<calls, count, wpc, asked, free>>

BySub ==
    /\ rpc = "by_sub"
    /\ count' = count - told
    /\ free' = free \cup Nodes(ret)
    /\ rpc' = "out"
    /\ UNCHANGED <<calls, content, tail, wpc, ret, asked, told>>

-----------------------------------------------------------------------------
Read == \/ RemoveTest \/ RemoveDec \/ RemovePop
        \/ ListFromTail \/ ListTest \/ ListXchg \/ ListSub
        \/ ByTest \/ ByXchg \/ BySub

ReaderRuns == rpc # "crashed"

QueueNext == \/ ReaderRuns /\ Read
             \/ \E w \in Writer : ReaderRuns /\ (Insert(w) \/ Inc(w))

QueueSpec == QueueInit /\ [][QueueNext]_queue_vars

\* A writer that has inserted goes on to count; the reader calls again and
\* again, as the consumers of the unit test do.
QueueFairness == WF_queue_vars(Read) /\ \A w \in Writer : WF_queue_vars(Inc(w))
-----------------------------------------------------------------------------
\* The reader never takes a node from an empty list: a count that is not 0
\* always promises a node.
NeverTakesNull == rpc # "crashed"

\* The count is the number of nodes in the queue, but for the insertions not
\* yet counted and the removal in progress.
Uncounted == Cardinality({w \in Writer : wpc[w] = "inc"})
InRemoval == CASE rpc = "pop" -> -1
               [] rpc \in {"list_sub", "by_sub"} -> Len(ret)
               [] OTHER -> 0
CountAccounts ==
    rpc # "crashed" => count = Len(Queue) - Uncounted + InRemoval

\* Nodes leave in the order they were inserted, each exactly once.
InOrder == INSTANCE Fifo WITH queue <- Queue
ImplementsFifo == InOrder!Spec

\* Every node that is inserted comes out.
EveryNodeComesOut == \A n \in Node : n \notin free ~> n \in free
=============================================================================
