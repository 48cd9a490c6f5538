----------------------------- MODULE MCWritePath -----------------------------
(***************************************************************************)
(* WritePath for TLC.  The requests are interchangeable: no definition and *)
(* no property tells one member of Writers from another.                   *)
(***************************************************************************)
EXTENDS WritePath, TLC

Symmetry == Permutations(Writers)
=============================================================================
