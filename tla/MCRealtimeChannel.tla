--------------------------- MODULE MCRealtimeChannel ---------------------------
(* TLC instance of RealtimeChannel. *)
EXTENDS RealtimeChannel, TLC

\* Packets are told apart by equality only, and so are producers.
Symmetry == Permutations(Packet) \cup Permutations(Producer)
================================================================================
