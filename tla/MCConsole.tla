----------------------------- MODULE MCConsole -----------------------------
(***************************************************************************)
(* Console for TLC: the chains of the store are interchangeable.           *)
(***************************************************************************)
EXTENDS Console, TLC

Symmetry == Permutations(Call)
=============================================================================
