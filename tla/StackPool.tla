----------------------------- MODULE StackPool -----------------------------
(***************************************************************************)
(* M_stackpool.c: one block of memory given out from the bottom up.  Only  *)
(* the piece that was given out last can be taken back, and only once; the *)
(* rest comes back when the block itself is freed.  A piece is named by    *)
(* the address it starts at.  The build keeps a word in front of each      *)
(* piece (__M_CFG_POOL_LEAK, M_types.h), so a piece takes room even when   *)
(* nothing was asked for; that word and the marks of sp_hwm are left out.  *)
(***************************************************************************)
EXTENDS Integers

NoPiece == -1                           \* last_ptr = NULL

SpInit(pool_size) == [cur |-> 0, last |-> NoPiece, size |-> pool_size]

SpFits(sp, n) == sp.cur + n <= sp.size
SpAlloc(sp, n) == [sp EXCEPT !.cur = @ + n, !.last = sp.cur]

SpFree(sp, piece) ==
    IF sp.last = piece THEN [sp EXCEPT !.cur = piece, !.last = NoPiece] ELSE sp
=============================================================================
