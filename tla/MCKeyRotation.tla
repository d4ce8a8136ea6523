--------------------------- MODULE MCKeyRotation ---------------------------
(* TLC instance of KeyRotation: checks and recordings are interchangeable. *)
EXTENDS KeyRotation, TLC

Symmetry == Permutations(Checks) \cup Permutations(Recorders)
=============================================================================
