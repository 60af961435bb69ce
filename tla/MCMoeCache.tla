----------------------------- MODULE MCMoeCache -----------------------------
(* The slot table alone, driven by every legal and stale call. *)
EXTENDS MoeCache, TLC

KeySymmetry == Permutations(Key)
=============================================================================
