------------------------------ MODULE MCSessions ------------------------------
(***************************************************************************)
(* Instances of Sessions for TLC: the seeded administrator and one more    *)
(* user, who gets every role in turn.                                      *)
(***************************************************************************)
EXTENDS Sessions, TLC

Symmetry ==
  Permutations(Requests) \cup Permutations(RefreshTokens) \cup Permutations(AccessTokens)
=============================================================================
