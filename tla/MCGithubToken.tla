--------------------------- MODULE MCGithubToken ---------------------------
(* TLC instances of GithubToken: slots and grants are interchangeable. *)
EXTENDS GithubToken, TLC

Symmetry == Permutations(Requests) \cup Permutations(Logins) \cup Permutations(Grants)
=============================================================================
