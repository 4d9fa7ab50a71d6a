-------------------------------- MODULE MCTls --------------------------------
(***************************************************************************)
(* Tls for TLC: values are interchangeable.                                *)
(***************************************************************************)
EXTENDS Tls, TLC

ValueSymmetry == Permutations(Value)
=============================================================================
