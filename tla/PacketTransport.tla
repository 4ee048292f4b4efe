---------------------------- MODULE PacketTransport ----------------------------
(***************************************************************************)
(* What a realtime channel promises about the packets it accepts: each is  *)
(* delivered at most once, unaltered, in the order of acceptance, and      *)
(* never after the channel is closed.  Delivery is best effort: a packet   *)
(* may be dropped instead (discard, a failed send, stop).                  *)
(***************************************************************************)
EXTENDS Naturals, Sequences

CONSTANT Packet

VARIABLES queue,       \* accepted packets, neither delivered nor dropped yet
          delivered,   \* the packets handed to the network, in that order
          closed       \* stop() has returned

vars == <<queue, delivered, closed>>

Init == queue = <<>> /\ delivered = <<>> /\ closed = FALSE

Accept(p) ==
  /\ queue' = Append(queue, p)
  /\ UNCHANGED <<delivered, closed>>

Deliver ==
  /\ ~closed
  /\ queue # <<>>
  /\ delivered' = Append(delivered, Head(queue))
  /\ queue' = Tail(queue)
  /\ UNCHANGED closed

Drop(i) ==
  /\ queue' = SubSeq(queue, 1, i - 1) \o SubSeq(queue, i + 1, Len(queue))
  /\ UNCHANGED <<delivered, closed>>

Close == closed' = TRUE /\ UNCHANGED <<queue, delivered>>

Next ==
  \/ \E p \in Packet : Accept(p)
  \/ Deliver
  \/ \E i \in 1 .. Len(queue) : Drop(i)
  \/ Close

Spec == Init /\ [][Next]_vars

================================================================================
