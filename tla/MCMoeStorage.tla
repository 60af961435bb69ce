---------------------------- MODULE MCMoeStorage ----------------------------
(* The device arena and its stream, loaded through a staging buffer; direct
   copies occur in the executor's hybrid run. *)
EXTENDS MoeStorage
=============================================================================
