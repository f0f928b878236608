-------------------------- MODULE MCGraphCollections --------------------------
(* Clients are interchangeable. *)
EXTENDS GraphCollections, TLC

Symmetry == Permutations(Clients)
=============================================================================
