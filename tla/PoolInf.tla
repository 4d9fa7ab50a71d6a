------------------------------ MODULE PoolInf ------------------------------
(***************************************************************************)
(* M_poolinf.c: a list of at most MaxBlocks free blocks of one size, in    *)
(* front of a heap.  The blocks on the list are alike; heap counts the     *)
(* blocks taken from the heap and not given back.                          *)
(***************************************************************************)
EXTENDS Naturals

CONSTANT MaxBlocks
ASSUME MaxBlocksNat == MaxBlocks \in Nat

NoBlocks == [nr_blocks |-> 0, heap |-> 0]

PiAlloc(p) == IF p.nr_blocks > 0 THEN [p EXCEPT !.nr_blocks = @ - 1]
                                 ELSE [p EXCEPT !.heap = @ + 1]
PiFree(p) == IF p.nr_blocks < MaxBlocks THEN [p EXCEPT !.nr_blocks = @ + 1]
                                        ELSE [p EXCEPT !.heap = @ - 1]
PiDestroy(p) == [nr_blocks |-> 0, heap |-> p.heap - p.nr_blocks]
=============================================================================
