-------------------------------- MODULE Sums --------------------------------
(* The sum of a sequence of integers: bytes of checkpoints, loads of       *)
(* caches.                                                                 *)
EXTENDS Integers, Sequences

Sum(s) ==
    LET upTo[i \in 0..Len(s)] == IF i = 0 THEN 0 ELSE upTo[i - 1] + s[i]
    IN  upTo[Len(s)]
=============================================================================
