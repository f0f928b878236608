--------------------------- MODULE MCSegmentFeedback ---------------------------
(* Two votes, one positive and one negative; clients are interchangeable. *)
EXTENDS SegmentFeedback, TLC

CONSTANTS v1, v2

MCVotes == {v1, v2}
MCKinds == <<"positive", "negative">>
MCKindOf == (v1 :> "positive" @@ v2 :> "negative")
Symmetry == Permutations(Clients)
=============================================================================
