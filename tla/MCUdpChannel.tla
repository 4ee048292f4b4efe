------------------------------ MODULE MCUdpChannel ------------------------------
(* Two senders and two slots: the ring wraps and the slots run out.  As the     *)
(* channel never pushes to a full ring, the ring is also run alone, under any   *)
(* sequence of calls.                                                           *)
EXTENDS UdpChannel

MCSlot == 0 .. 1

\* No channel: its threads have nothing to run on.
AloneInit == Init /\ ChannelInit /\ owner = "absent"

AloneNext ==
    /\ Next
    /\ UNCHANGED <<pool, senders, worker, owner, flags, inbox, crashed, history>>

MCInit == UdpInit \/ AloneInit

MCNext == (owner # "absent" /\ UdpNext) \/ (owner = "absent" /\ AloneNext)

MCSpec == MCInit /\ [][MCNext]_udpVars /\ (owner # "absent" => ThreadsRun)
=================================================================================
