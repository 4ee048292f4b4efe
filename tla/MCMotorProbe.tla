---------------------------- MODULE MCMotorProbe ----------------------------
\* Every small configuration is built, and those whose channels may not be
\* constructible; four are then used: one motor given any pair of commands, three
\* motors on two ports and channels given some of them, a motor of other full
\* scales given PVT commands, and the diagnostic program with two motors.
EXTENDS MotorProbe

Small == "EC-A2806-P2-36"
Medium == "EC-A4310-P2-36"
Large == "EC-A10020-P1-12/6"

\* Of the local ports, 8000 is refused by the machine.
Channel == [name : {"", "a", "b"}, bandwidth : {0, 1}, slots : {1},
            remote_address : {"127.0.0.1"}, local_port : {0}]
           \cup [name : {"a"}, bandwidth : {1}, slots : {0},
                 remote_address : {"127.0.0.1"}, local_port : {0}]
Built == [name : {"a", "b", "c"}, bandwidth : {1}, slots : {8388607, 8388608},
          remote_address : {"127.0.0.1"}, local_port : {0, 7000}]
         \cup [name : {"a", "b"}, bandwidth : {1}, slots : {1},
               remote_address : {"127.0.0.1"}, local_port : {8000}]
         \cup [name : {"a", "b"}, bandwidth : {1}, slots : {1},
               remote_address : {"localhost"}, local_port : {7000}]
AnyMotor == [name : {"m"}, channel : {"a", "b"}, model : {Small, "other"}, port : {0, 1}, id : {5}]
            \cup [name : {"n"}, channel : {"a", "b"}, model : {Small}, port : {0, 1}, id : {5, 9}]
            \cup [name : {"", "o"}, channel : {"a"}, model : {Small}, port : {0}, id : {5, 2048}]

UpTo(S, n) == UNION {[1..k -> S] : k \in 0..n}

OnAB == [name : {"m"}, channel : {"a", "b"}, model : {Small, "other"}, port : {0}, id : {5}]
        \cup [name : {"n"}, channel : {"a", "b"}, model : {Small}, port : {1}, id : {5}]

Chan(name) == [name |-> name, bandwidth |-> 1, slots |-> 1, remote_address |-> "127.0.0.1",
               local_port |-> 0]
Motor(name, channel, model, port, id) ==
    [name |-> name, channel |-> channel, model |-> model, port |-> port, id |-> id]

OneMotor == [channels |-> <<Chan("a")>>, motors |-> <<Motor("m", "a", Medium, 1, 5)>>]
TwoMotors == [channels |-> <<Chan("b"), Chan("a")>>,
              motors |-> <<Motor("m", "a", Small, 0, 5), Motor("n", "a", Medium, 1, 5),
                           Motor("o", "b", Small, 0, BROADCAST_CAN_ID)>>]
LargeMotor == [channels |-> <<Chan("a")>>, motors |-> <<Motor("m", "a", Large, 0, 3)>>]
Probed == [channels |-> <<Chan("a")>>,
           motors |-> <<Motor("m", "a", Small, 0, 1), Motor("n", "a", Small, 1, 1)>>]

Pvt(kp, kd, position, velocity, torque) ==
    [type |-> "pvt", kp |-> kp, kd |-> kd, position |-> position, velocity |-> velocity,
     torque |-> torque]
Position(position, velocity, current, reply) ==
    [type |-> "position", position |-> position, velocity_limit |-> velocity,
     current_limit |-> current, reply |-> reply]
Velocity(velocity, current, reply) ==
    [type |-> "velocity", velocity |-> velocity, current_limit |-> current, reply |-> reply]
Brake(control, threshold, open) ==
    [type |-> "brake", control |-> control, current_threshold |-> threshold, open |-> open,
     reply |-> "none"]
Set(kind, code, values) == [type |-> "config", kind |-> kind, code |-> code, values |-> values]
Query(code) == [type |-> "query", code |-> code]

Control == {
    Pvt(500000, 5000, 12500, 18000, 30000), Pvt(0, 0, -12500, -18000, -30000),
    Pvt(70000, 1200, 3141, -2345, 6000), Pvt(61, 4, 1, 17995, 7), Pvt(0, 0, 0, 0, 30001 + 100), Pvt(NaN, 0, 0, 0, 0),
    Position(-725500, 3276700, 409500, "status1"), Position(90000, 3276800, 100, "position"),
    Position(NaN, 1040, 7760, "position"), Velocity(-5000, 6553500, "velocity"),
    Velocity(5000, -100, "none"), [type |-> "torque", torque |-> -1234, reply |-> "velocity"],
    [type |-> "torque", torque |-> 327680, reply |-> "none"],
    [type |-> "current", current |-> 7777, reply |-> "status1"],
    Brake("damping", 0, FALSE), Brake("energy", 2500, FALSE), Brake("regen", -1500, FALSE),
    Brake("engage", 0, TRUE), Brake("engage", 0, FALSE)}

Configuring == {
    Set("double", "torque_ratio", <<1250>>), Set("float", "accel", <<12340>>),
    Set("range_u16", "pvt_kp", <<0, 500000>>), Set("range_float", "pvt_kd", <<400, 50000>>),
    Set("range_float", "pvt_position_limit", <<-12500, 12504>>),
    Set("range_float", "pvt_velocity_limit", <<-327680, 327670>>),
    Set("range_float", "pvt_torque_limit", <<-12000, 12000>>),
    Set("range_float", "pvt_current_limit", <<-1249, 1251>>),
    Set("milliseconds", "can_timeout", <<65535>>), Set("milliseconds", "can_timeout", <<65536>>),
    Set("gains", "current_loop", <<125, 6000000>>), Set("gains", "velocity_loop", <<655, 20>>),
    Set("gains", "position_loop", <<31, 0>>), Set("float", "torque_ratio", <<1000>>),
    Set("uint8", "comm_mode", <<2>>), Set("uint8", "accel", <<2>>)}

Asking == {Query(code) : code \in DOMAIN QueryCode}

\* Pairs that a test would not pick are left to the two calls of a behaviour.
MCCalling ==
    [c \in {OneMotor, TwoMotors, LargeMotor} |->
        IF c = OneMotor THEN [device : {1}, command : Control \cup Configuring \cup Asking]
        ELSE IF c = LargeMotor
        THEN [device : {1}, command : {Pvt(1000, 2000, 0, 0, 0), Pvt(0, 5000, 0, 0, 30000)}]
        ELSE [device : {1, 2, 3},
              command : {Pvt(0, 0, -12500, 18000, 6000), Velocity(-5000, 800, "velocity"),
                         Set("range_float", "pvt_torque_limit", <<-12000, 12000>>),
                         Query("pvt_torque_limit"), Query("position"), Brake("engage", 0, TRUE)}]]

MCConfig == [channels : UpTo(Channel, 2), motors : UpTo(AnyMotor, 2)]
            \cup [channels : {<<Chan("b"), Chan("a")>>}, motors : UpTo(AnyMotor, 3)]
            \cup [channels : UpTo(Built, 2), motors : UpTo(OnAB, 2)]
            \cup {OneMotor, TwoMotors, LargeMotor, Probed}

MCFactory ==
    [accel |-> <<1000>>, comm_mode |-> <<1>>, torque_ratio |-> <<100>>, pvt_kp |-> <<0, 500>>,
     pvt_kd |-> <<0, 5>>, pvt_position_limit |-> <<64286, 1250>>,
     pvt_velocity_limit |-> <<63736, 1800>>, pvt_torque_limit |-> <<65416, 120>>,
     pvt_current_limit |-> <<65436, 100>>, can_timeout |-> <<1000>>,
     current_loop |-> <<1000, 100>>, velocity_loop |-> <<500, 50>>, position_loop |-> <<300, 3>>]

\* Each motor's sensors read something no other motor's do.
MCPhysical ==
    [d \in 1..3 |->
        [position |-> 360000 * d - 500000, velocity |-> 11000 * d, current |-> -1003 * d,
         power |-> 7000 + d, shaft |-> 4000 * d - 7000, speed |-> 1152 * d]]

Garbled(id, extended, len) ==
    [port |-> 0, id |-> id, extended |-> extended, len |-> len, data |-> 0..63]

\* Nothing; an acknowledgement; frames too short or of no known type; a
\* broadcast; and entries no valid frame has, which end the datagram.
AnyNoise == {<<>>} \cup {<<f>> : f \in
    Filled([port |-> 1, id |-> 5], 3, <<<<FeedbackType, 4>>, <<Key, 11>>, <<Byte(2), 1>>>>)
    \cup Filled([port |-> 0, id |-> 5], 5, <<<<FeedbackType, 1>>>>)
    \cup {Garbled(5, FALSE, 8), Garbled(BROADCAST_CAN_ID, FALSE, 8), Garbled(77, FALSE, 8),
          Garbled(2048, FALSE, 8), Garbled(77, TRUE, 9)}}

MCNoise == [c \in {OneMotor, TwoMotors} |-> AnyNoise]

MCProbing == {Probed}
MCQueries == <<"position", "can_timeout">>
=============================================================================
