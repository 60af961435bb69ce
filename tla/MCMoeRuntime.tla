---------------------------- MODULE MCMoeRuntime ----------------------------
(* Two layouts, a compute budget that two shapes exceed.      *)
EXTENDS MoeRuntime

CONSTANTS l1, l2

MCLayoutOf == (l1 :> 1) @@ (l2 :> 2)
=============================================================================
