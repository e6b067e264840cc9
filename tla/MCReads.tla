------------------------------ MODULE MCReads ------------------------------
(***************************************************************************)
(* Reads for TLC: the writing requests are interchangeable.                *)
(***************************************************************************)
EXTENDS Reads

Symmetry == Permutations(Request)
=============================================================================
