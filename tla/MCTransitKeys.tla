---------------------------- MODULE MCTransitKeys ----------------------------
(***************************************************************************)
(* TransitKeys for TLC: the workers are interchangeable.                   *)
(***************************************************************************)
EXTENDS TransitKeys, TLC

Symmetry == Permutations(Workers)
=============================================================================
