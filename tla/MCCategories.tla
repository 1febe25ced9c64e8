----------------------------- MODULE MCCategories -----------------------------
(***************************************************************************)
(* Instances of Categories for TLC.                                        *)
(***************************************************************************)
EXTENDS Categories, TLC

Symmetry == Permutations(Cats) \cup Permutations(Products) \cup Permutations(Requests)
=============================================================================
