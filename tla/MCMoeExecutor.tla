--------------------------- MODULE MCMoeExecutor ---------------------------
(* The executor over a cache smaller than the routings it is given. *)
EXTENDS MoeExecutor

CONSTANTS l1, l2, e1, e2, e3, e4

MCKey == Layer \X Expert
=============================================================================
