--------------------------- MODULE MCGraphDocuments ---------------------------
(* Clients, segments, entities and the copies of an entity are interchangeable. *)
EXTENDS GraphDocuments, TLC

Symmetry == Permutations(Clients) \cup Permutations(Segments)
            \cup Permutations(Entities) \cup Permutations(Copies)
=============================================================================
