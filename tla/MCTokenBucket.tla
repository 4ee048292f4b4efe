----------------------------- MODULE MCTokenBucket -----------------------------
(* TLC instance of TokenBucket: a burst of two largest packets, as in the code. *)
EXTENDS TokenBucket

MCSizes == 0 .. 3
================================================================================
