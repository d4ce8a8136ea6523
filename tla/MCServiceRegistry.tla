------------------------- MODULE MCServiceRegistry -------------------------
(* TLC instances of ServiceRegistry: ids, keys and slots are interchangeable. *)
EXTENDS ServiceRegistry, TLC

Symmetry == Permutations(Ids) \cup Permutations(Keys) \cup Permutations(Requests)
                \cup Permutations(Operators)
=============================================================================
