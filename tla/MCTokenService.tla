--------------------------- MODULE MCTokenService ---------------------------
(* Small instances of TokenService for TLC. *)
EXTENDS TokenService, TLC

Symmetry == Permutations(Users) \cup Permutations(Pairs) \cup Permutations(Requests)
=============================================================================
