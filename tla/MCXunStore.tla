----------------------------- MODULE MCXunStore -----------------------------
(***************************************************************************)
(* XunStore for TLC.  Writers are serialised by Store.mu and keep nothing  *)
(* outside it, so one stands for any number; readers do not see each other.*)
(***************************************************************************)
EXTENDS XunStore, TLC

\* Keys are interchangeable; used by the runs without liveness properties.
KeySymmetry == Permutations(Keys)
=============================================================================
