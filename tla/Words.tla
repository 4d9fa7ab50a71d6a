------------------------------- MODULE Words -------------------------------
(***************************************************************************)
(* What a radix tree is to whoever uses it: a set of words.  A node is     *)
(* named by the word that the pieces from the root down to it spell; there *)
(* is a node for every key, and one for every word at which keys part.     *)
(***************************************************************************)
EXTENDS Integers, FiniteSets, SequencesExt

Extended(K, w) == \E a \in K : IsStrictPrefix(w, a)
Parts(K, w) == \E a, b \in K : /\ IsStrictPrefix(w, a) /\ IsStrictPrefix(w, b)
                               /\ a[Len(w) + 1] # b[Len(w) + 1]
Tree(K) == K \cup {w \in UNION {Prefixes(k) : k \in K} : Parts(K, w)}

LongestOf(S) == CHOOSE w \in S : \A v \in S : Len(v) <= Len(w)
=============================================================================
