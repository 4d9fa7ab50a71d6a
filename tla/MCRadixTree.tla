---------------------------- MODULE MCRadixTree ----------------------------
(***************************************************************************)
(* Keys over three letters: a chain of prefixes, places where two and      *)
(* three keys part at different depths, and a place at the root.           *)
(***************************************************************************)
EXTENDS RadixTree

Keys == {<<1, 1>>, <<1, 1, 1, 1>>, <<1, 1, 1, 2>>, <<1, 1, 2>>, <<1, 1, 3>>, <<1, 2>>, <<2, 1>>}
=============================================================================
