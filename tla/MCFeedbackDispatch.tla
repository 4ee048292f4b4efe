------------------------ MODULE MCFeedbackDispatch ------------------------
\* Two motors with the same CAN identifier on two ports of one driver.
EXTENDS FeedbackDispatch

CONSTANTS m1, m2

MCAddressOf == [m \in Motor |-> [port |-> IF m = m1 THEN 0 ELSE 1, id |-> 1]]

Body(type) == [type |-> type]
Query(code) == [type |-> "query", code |-> code]
Fragment(k) == [type |-> "query", code |-> "mcu_uuid", index |-> k]
To(m, body) == [valid |-> TRUE, address |-> MCAddressOf[m], body |-> body]
At(port, id, body) == [valid |-> TRUE, address |-> [port |-> port, id |-> id], body |-> body]
Invalid(m, body) == [valid |-> FALSE, address |-> MCAddressOf[m], body |-> body]

Datagram(frames) == [intact |-> TRUE, frames |-> frames]

\* Each kind of feedback alone, two for one motor, a status for each motor,
\* the frames nobody is bound to, and a datagram with an invalid entry.
MCPacket ==
    {Datagram(<<To(m1, body)>>) : body \in
        {Body("status"), Body("position"), Body("velocity"), Body("brake"),
         Body("config_ack"), Query("pvt_kp_range"), Fragment(1), Fragment(4)}}
    \cup
    {Datagram(<<To(m1, Body("status")), To(m1, Query("velocity"))>>),
     Datagram(<<To(m1, Body("status")), To(m2, Body("status"))>>),
     Datagram(<<To(m2, Body("status")), Invalid(m2, Body("status")), To(m2, Body("brake"))>>),
     Datagram(<<At(0, 2047, Body("status")), To(m2, Unparsable)>>),
     [intact |-> FALSE, frames |-> <<To(m1, Body("status"))>>]}
=============================================================================
