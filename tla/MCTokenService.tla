--------------------------- MODULE MCTokenService ---------------------------
(* TLC instances of TokenService: request slots and jtis are interchangeable. *)
EXTENDS TokenService, TLC

Symmetry == Permutations(Requests) \cup Permutations(Tokens)
=============================================================================
