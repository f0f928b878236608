-------------------------------- MODULE MCIngest --------------------------------
(* Texts of up to six bytes and options small enough for every shape of the tree. *)
EXTENDS Ingest

Options(cuts, size, overlap, maxDepth, multiplier, concurrent, caller) ==
  [kind |-> "structured", cuts |-> cuts, size |-> size, overlap |-> overlap,
   maxDepth |-> maxDepth, multiplier |-> multiplier, concurrent |-> concurrent,
   caller |-> caller, unit |-> size, levels |-> maxDepth, context |-> 0, asks |-> 0]

\* The semantic chunker with windows of context bytes.
Segmented(cuts, unit, context, overlap, levels, asks, caller) ==
  [kind |-> "semantic", cuts |-> cuts, size |-> unit, overlap |-> overlap,
   maxDepth |-> levels, multiplier |-> 3, concurrent |-> 2,
   caller |-> caller, unit |-> unit, levels |-> levels, context |-> context, asks |-> asks]

\* A character of two bytes that ends the text, cut by the last window.
CutTail == Options({0, 1, 3, 5}, 3, 1, 1, 3, 2, "AddFile")

MCStructuredUses ==
  { CutTail,
    Options({0, 2, 4, 5}, 3, 1, 0, 0, 0, "AddFile"),
    Options({0}, 2, 1, 3, 0, 2, "AddFile"),
    Options(0..6, 2, 1, 2, 2, 2, "AddFile"),
    Options(0..5, 2, 1, 2, 1, 2, "user"),
    Options(0..4, 1, 0, 3, 2, 2, "user"),
    Options({0, 2, 4, 6}, 3, 0, 1, 3, 1, "user") }

MCSemanticUses ==
  { Segmented(0..4, 1, 3, 1, 2, 2, "AddFile"),
    Segmented(0..3, 1, 2, 1, 2, 2, "AddFile"),
    Segmented(0..3, 3, 3, 1, 3, 2, "AddFile"),
    Segmented(0..2, 2, 2, 1, 1, 1, "user") }

MCUses == MCStructuredUses \cup MCSemanticUses

MCEmptyUses == {CutTail}
=============================================================================
