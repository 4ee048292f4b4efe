------------------------------ MODULE CanCodec ------------------------------
(***************************************************************************)
(* can_codec and bit_codec: how a command becomes the bits of a CAN frame  *)
(* and how a reply's bits become feedback.  Everything here is a function  *)
(* of its arguments; MotorLink composes it with the bus and the motors.    *)
(*                                                                         *)
(* Physical values are integers, in thousandths of their unit.  What may   *)
(* fail is a set: the one result, or {} once a write or a range check has  *)
(* been refused.  A raw float32 stands for its 32 bits by sign and         *)
(* magnitude, below 2^30.                                                  *)
(***************************************************************************)
EXTENDS Integers, Sequences

CONSTANT NaN            \* a float that is not a finite number

ASSUME NaNIsNoNumber == NaN \notin Int

MAX_CAN_DATA_LEN == 8
BROADCAST_CAN_ID == 2047
-----------------------------------------------------------------------------
(* bit_codec *)

Bits(offset, len) == [offset |-> offset, len |-> len]

BitOf(raw, exponent) == IF exponent > 30 THEN 0 ELSE (raw \div 2^exponent) % 2

\* A raw value fits when no bit above the field is set.
Fits(field, raw) == field.len > 30 \/ raw < 2^field.len

Within(field, len) == field.offset + field.len <= 8 * len

Covered(field) == field.offset .. field.offset + field.len - 1

\* The data of a frame is the set of its bits that are 1.  Bit 0 is the highest
\* of byte 0: fields are big-endian.
Overwritten(data, field, raw) ==
    (data \ Covered(field))
    \cup {bit \in Covered(field) : BitOf(raw, field.offset + field.len - 1 - bit) = 1}

\* write<Field>
Write(frames, field, raw) ==
    {[frame EXCEPT !.data = Overwritten(@, field, raw)] :
        frame \in {f \in frames : Fits(field, raw) /\ Within(field, f.len)}}

\* The number the field's bits make, the first bit highest.
NumberOf(data, field) ==
    LET upTo[n \in 0 .. field.len] ==
            IF n = 0 THEN 0
            ELSE 2 * upTo[n - 1] + IF field.offset + n - 1 \in data THEN 1 ELSE 0
    IN  upTo[field.len]

\* read<Field>
Read(frame, field) == IF Within(field, frame.len) THEN {NumberOf(frame.data, field)} ELSE {}

Address == [port : Nat, id : Nat]
Frame == [port : Nat, id : Nat, extended : BOOLEAN, len : Nat, data : SUBSET Nat]

\* init_frame: standard identifier, all bits 0.
InitFrame(address, len) ==
    [port |-> address.port, id |-> address.id, extended |-> FALSE, len |-> len, data |-> {}]

\* A frame of len bytes after a sequence of writes <<field, raw>>.
Filled(address, len, writes) ==
    LET after[i \in 0 .. Len(writes)] ==
            IF i = 0 THEN {InitFrame(address, len)}
            ELSE Write(after[i - 1], writes[i][1], writes[i][2])
    IN  after[Len(writes)]

\* f32_to_bits and bits_to_f32
F32Bits(value) == CASE value = NaN -> 2^30
                    [] OTHER -> IF value >= 0 THEN value ELSE 2^30 - value
BitsF32(raw) == CASE raw < 2^30 -> raw
                  [] raw - 2^30 \in 1 .. 2^30 - 1 -> 2^30 - raw
                  [] OTHER -> NaN

\* A 16-bit word as int16_t, and back.
Signed(raw) == IF raw < 32768 THEN raw ELSE raw - 65536
Unsigned(value) == IF value < 0 THEN value + 65536 ELSE value
-----------------------------------------------------------------------------
(* Physical values to raw values *)

\* n / d to the nearest integer, halves away from zero (std::round, llround).
Rounded(n, d) ==
    IF n >= 0 THEN (n + (d \div 2)) \div d ELSE -(((d \div 2) - n) \div d)

AcceptedAlways(raw, min, max) == {raw}

Accepted(raw, min, max) == IF raw < min \/ raw > max THEN {} ELSE {raw}

\* checked_u16_scaled and checked_i16_scaled
Scaled(value, scale, min, max) ==
    IF value = NaN THEN {} ELSE Accepted(Rounded(value * scale, 1000), min, max)

ScaledU16(value, scale) == Scaled(value, scale, 0, 65535)
ScaledI16(value, scale) == Scaled(value, scale, -32768, 32767)

\* checked_symmetric
Symmetric(value, range, center, max) ==
    IF value = NaN THEN {} ELSE Accepted(Rounded((value + range) * center, range), 0, max)

\* checked_pvt_gain
PvtGain(value, range, max) ==
    IF value = NaN THEN {} ELSE Accepted(Rounded(value * max, range), 0, max)

\* decode_symmetric
DecodeSymmetric(raw, range, max) == Rounded(2 * range * raw, max) - range

\* decode_linear
DecodeLinear(raw, min, max, maxRaw) == min + Rounded((max - min) * raw, maxRaw)
-----------------------------------------------------------------------------
(* Commands *)

CommandCode == [pvt |-> 0, position |-> 1, velocity |-> 2, torque |-> 3, brake |-> 4,
                config |-> 6, query |-> 7]
TorqueMode == [current |-> 0, torque |-> 1, damping_brake |-> 2, regenerative_brake |-> 4]
ReplyMode == [none |-> 0, status1 |-> 1, position |-> 2, velocity |-> 3]

Mode == Bits(0, 3)
State == Bits(3, 3)
Reply == Bits(6, 2)
Key == Bits(8, 8)
PvtKp == Bits(3, 12)
PvtKd == Bits(15, 9)
PvtPosition == Bits(24, 16)
PvtVelocity == Bits(40, 12)
PvtTorque == Bits(52, 12)

\* The full scales of make_pvt, the same for every model.
KpRange == 500000
KdRange == 5000
PositionRange == 12500
VelocityRange == 18000
TorqueRange == 30000

MakePvt(address, c) ==
    UNION {Filled(address, 8, <<<<Mode, CommandCode.pvt>>, <<PvtKp, kp>>, <<PvtKd, kd>>,
                                <<PvtPosition, position>>, <<PvtVelocity, velocity>>,
                                <<PvtTorque, torque>>>>) :
        kp \in PvtGain(c.kp, KpRange, 4095), kd \in PvtGain(c.kd, KdRange, 511),
        position \in Symmetric(c.position, PositionRange, 32767, 65535),
        velocity \in Symmetric(c.velocity, VelocityRange, 2047, 4095),
        torque \in Symmetric(c.torque, TorqueRange, 2047, 4095)}

PositionDeg == Bits(3, 32)
PositionVelocityX10 == Bits(35, 15)
PositionCurrentX10 == Bits(50, 12)
PositionReply == Bits(62, 2)

\* The target itself is not checked.
MakePosition(address, c) ==
    UNION {Filled(address, 8, <<<<Mode, CommandCode.position>>, <<PositionDeg, F32Bits(c.position)>>,
                                <<PositionVelocityX10, velocity>>, <<PositionCurrentX10, current>>,
                                <<PositionReply, ReplyMode[c.reply]>>>>) :
        velocity \in Scaled(c.velocity_limit, 10, 0, 32767),
        current \in Scaled(c.current_limit, 10, 0, 4095)}

VelocityRpm == Bits(8, 32)
VelocityCurrentX10 == Bits(40, 16)

MakeVelocity(address, c) ==
    UNION {Filled(address, 7, <<<<Mode, CommandCode.velocity>>, <<State, 0>>,
                                <<Reply, ReplyMode[c.reply]>>, <<VelocityRpm, F32Bits(c.velocity)>>,
                                <<VelocityCurrentX10, current>>>>) :
        current \in ScaledU16(c.current_limit, 10)}

Value == Bits(8, 16)

\* encode_torque_control
MakeTorqueControl(address, mode, value, reply) ==
    UNION {Filled(address, 3, <<<<Mode, CommandCode.torque>>, <<State, TorqueMode[mode]>>,
                                <<Reply, ReplyMode[reply]>>, <<Value, Unsigned(raw)>>>>) :
        raw \in ScaledI16(value, 100)}

MakeTorque(address, c) == MakeTorqueControl(address, "torque", c.torque, c.reply)
MakeCurrent(address, c) == MakeTorqueControl(address, "current", c.current, c.reply)

BrakeEngaged == Bits(8, 8)

MakeBrake(address, c) ==
    CASE c.control = "damping" -> MakeTorqueControl(address, "damping_brake", 0, c.reply)
      [] c.control \in {"energy", "regen"} ->
            MakeTorqueControl(address, "regenerative_brake", c.current_threshold, c.reply)
      [] c.control = "engage" ->
            Filled(address, 2, <<<<Mode, CommandCode.brake>>, <<Bits(3, 5), 0>>,
                                 <<BrakeEngaged, IF c.open THEN 1 ELSE 0>>>>)
-----------------------------------------------------------------------------
(* Configuration *)

SetCode == [accel |-> 1, comm_mode |-> 2, torque_ratio |-> 4, pvt_kp |-> 5, pvt_kd |-> 6,
            pvt_position_limit |-> 7, pvt_velocity_limit |-> 8, pvt_torque_limit |-> 9,
            pvt_current_limit |-> 10, can_timeout |-> 11, current_loop |-> 12,
            velocity_loop |-> 13, position_loop |-> 14]

U16(scale) == [scale |-> scale, min |-> 0, max |-> 65535]
I16(scale) == [scale |-> scale, min |-> -32768, max |-> 32767]

\* encode_config_payload: for each alternative of config_set_value the codes
\* it may be used with, and how its one or two words are scaled.
ConfigWords ==
    [double |-> [torque_ratio |-> <<U16(100)>>],
     float |-> [accel |-> <<U16(100)>>],
     milliseconds |-> [can_timeout |-> <<U16(1000)>>],
     range_u16 |-> [pvt_kp |-> <<U16(1), U16(1)>>, pvt_kd |-> <<U16(1), U16(1)>>],
     range_float |-> [pvt_kp |-> <<U16(1), U16(1)>>, pvt_kd |-> <<U16(1), U16(1)>>,
                      pvt_position_limit |-> <<I16(100), I16(100)>>,
                      pvt_velocity_limit |-> <<I16(100), I16(100)>>,
                      pvt_torque_limit |-> <<I16(10), I16(10)>>,
                      pvt_current_limit |-> <<I16(10), I16(10)>>],
     gains |-> [current_loop |-> <<U16(10000), U16(10)>>,
                velocity_loop |-> <<U16(100000), U16(100000)>>,
                position_loop |-> <<U16(100000), U16(100000)>>]]

ConfigMin == Bits(16, 16)
ConfigMax == Bits(32, 16)

ScaledBy(value, form) == Scaled(value, form.scale, form.min, form.max)

ConfigHead(code) == <<<<Mode, CommandCode.config>>, <<Key, SetCode[code]>>>>

\* make_config_value has one word, make_config_range two.
MakeConfigWords(address, c, forms) ==
    IF Len(forms) = 1
    THEN UNION {Filled(address, 4, ConfigHead(c.code) \o <<<<ConfigMin, Unsigned(v)>>>>) :
                   v \in ScaledBy(c.values[1], forms[1])}
    ELSE UNION {Filled(address, 6, ConfigHead(c.code) \o <<<<ConfigMin, Unsigned(v)>>,
                                                          <<ConfigMax, Unsigned(w)>>>>) :
                   v \in ScaledBy(c.values[1], forms[1]), w \in ScaledBy(c.values[2], forms[2])}

MakeConfigByte(address, c) ==
    IF c.code # "comm_mode" THEN {}
    ELSE Filled(address, 3, ConfigHead(c.code) \o <<<<Bits(16, 8), c.values[1]>>>>)

MakeConfig(address, c) ==
    IF c.kind = "uint8" THEN MakeConfigByte(address, c)
    ELSE IF c.code \in DOMAIN ConfigWords[c.kind]
    THEN MakeConfigWords(address, c, ConfigWords[c.kind][c.code]) ELSE {}

QueryCode == [position |-> 1, velocity |-> 2, current |-> 3, power |-> 4, acceleration |-> 5,
              flux_observer_gain |-> 6, disturbance_compensation |-> 7,
              feedback_compensation |-> 8, damping |-> 9, torque_ratio |-> 22, pvt_kp |-> 23,
              pvt_kd |-> 24, pvt_position_limit |-> 25, pvt_velocity_limit |-> 26,
              pvt_torque_limit |-> 27, pvt_current_limit |-> 28, mcu_uuid |-> 29, version |-> 30,
              can_timeout |-> 31, current_loop |-> 32, velocity_loop |-> 33,
              position_loop |-> 34, brake_status |-> 37]

MakeConfigQuery(address, c) ==
    Filled(address, 2, <<<<Mode, CommandCode.query>>, <<Key, QueryCode[c.code]>>>>)

\* The commands of the interface.
Number == Int \cup {NaN}
Replies == DOMAIN ReplyMode

ControlCommand ==
    [type : {"pvt"}, kp : Number, kd : Number, position : Number, velocity : Number,
     torque : Number]
    \cup [type : {"position"}, position : Number, velocity_limit : Number,
          current_limit : Number, reply : Replies]
    \cup [type : {"velocity"}, velocity : Number, current_limit : Number, reply : Replies]
    \cup [type : {"torque"}, torque : Number, reply : Replies]
    \cup [type : {"current"}, current : Number, reply : Replies]
    \cup [type : {"brake"}, control : {"damping", "energy", "regen", "engage"},
          current_threshold : Number, open : BOOLEAN, reply : Replies]

ConfigCommand ==
    [type : {"config"}, kind : {"uint8"}, code : DOMAIN SetCode, values : [1..1 -> 0..255]]
    \cup [type : {"config"}, kind : {"double", "float", "milliseconds"}, code : DOMAIN SetCode,
          values : [1..1 -> Number]]
    \cup [type : {"config"}, kind : {"range_u16", "range_float", "gains"}, code : DOMAIN SetCode,
          values : [1..2 -> Number]]

QueryCommand == [type : {"query"}, code : DOMAIN QueryCode]

\* A value F32Bits can carry.
RawFloat(value) == value = NaN \/ value \in 1 - 2^30 .. 2^30 - 1

Command(c) ==
    /\ c \in ControlCommand \cup ConfigCommand \cup QueryCommand
    /\ c.type = "position" => RawFloat(c.position)
    /\ c.type = "velocity" => RawFloat(c.velocity)

\* can_codec::encode
Encode(address, c) ==
    CASE c.type = "pvt" -> MakePvt(address, c)
      [] c.type = "position" -> MakePosition(address, c)
      [] c.type = "velocity" -> MakeVelocity(address, c)
      [] c.type = "torque" -> MakeTorque(address, c)
      [] c.type = "current" -> MakeCurrent(address, c)
      [] c.type = "brake" -> MakeBrake(address, c)
      [] c.type = "config" -> MakeConfig(address, c)
      [] c.type = "query" -> MakeConfigQuery(address, c)
-----------------------------------------------------------------------------
(* Replies *)

FeedbackType == Bits(0, 3)
FeedbackError == Bits(3, 5)
StatusPosition == Bits(8, 16)
StatusVelocity == Bits(24, 12)
StatusCurrent == Bits(36, 12)
ReplyFloat == Bits(8, 32)
ReplyCurrentX100 == Bits(40, 16)
Byte(i) == Bits(8 * i, 8)

\* parse_error
ParseError(raw) == IF raw \in 0..7 \cup {30} THEN raw ELSE 31

\* u8_temp_to_celsius, in thousandths
Celsius(raw) == (raw - 50) * 500

\* i16_x100_to_f32
Hundredths(raw) == Signed(raw) * 10

\* parse_status1_response; a motor whose model has no current range reports a
\* fraction of full scale.
ParseStatus1(frame, error, currentRange) ==
    {[type |-> "status", error |-> error,
      position |-> DecodeSymmetric(position, PositionRange, 65535),
      velocity |-> DecodeSymmetric(velocity, VelocityRange, 4095),
      current |-> DecodeLinear(current, currentRange.min, currentRange.max, 4095),
      motor_temp |-> Celsius(motorTemp), mosfet_temp |-> Celsius(mosfetTemp)] :
        position \in Read(frame, StatusPosition), velocity \in Read(frame, StatusVelocity),
        current \in Read(frame, StatusCurrent),
        motorTemp \in Read(frame, Byte(6)), mosfetTemp \in Read(frame, Byte(7))}

\* parse_position_response and parse_velocity_response
ParseMotion(type, frame, error) ==
    {[type |-> type, error |-> error, value |-> BitsF32(value),
      current |-> Hundredths(current), motor_temp |-> Celsius(temp)] :
        value \in Read(frame, ReplyFloat), current \in Read(frame, ReplyCurrentX100),
        temp \in Read(frame, Byte(7))}

ParseConfigAck(frame, error) ==
    {[type |-> "config_ack", error |-> error, code |-> key, accepted |-> status = 1] :
        key \in Read(frame, Key), status \in Read(frame, Byte(2))}

ParseBrake(frame, error) ==
    {[type |-> "brake", error |-> error, engaged |-> engaged # 0] :
        engaged \in Read(frame, BrakeEngaged)}

\* A raw word in thousandths of the unit it counts divisor of.
Divided(raw, divisor) == Rounded(raw * 1000, divisor)

Word(frame, i) == Read(frame, Bits(16 + 16 * i, 16))

\* decode_query_result: the codes answered by one or two words, and the
\* divisor of each word; a limit's words are signed.
QueryDivisors ==
    [acceleration |-> <<1>>, flux_observer_gain |-> <<1>>, disturbance_compensation |-> <<1>>,
     feedback_compensation |-> <<1>>, damping |-> <<1>>, torque_ratio |-> <<100>>,
     can_timeout |-> <<1000>>, pvt_kp |-> <<1, 1>>, pvt_kd |-> <<1, 1>>,
     pvt_position_limit |-> <<100, 100>>, pvt_velocity_limit |-> <<100, 100>>,
     pvt_torque_limit |-> <<10, 10>>, pvt_current_limit |-> <<10, 10>>,
     current_loop |-> <<10000, 10>>, velocity_loop |-> <<100000, 100000>>,
     position_loop |-> <<100000, 100000>>]

NoSignedQueries == {}

SignedQueries == {"pvt_position_limit", "pvt_velocity_limit", "pvt_torque_limit",
                  "pvt_current_limit"}
FloatQueries == {"position", "velocity", "current", "power"}
ByteQueries == [mcu_uuid |-> 5, version |-> 6]

QueryWord(code, raw, i) ==
    Divided(IF code \in SignedQueries THEN Signed(raw) ELSE raw, QueryDivisors[code][i])

QueryValue(frame, code) ==
    CASE code \in FloatQueries -> {<<BitsF32(raw)>> : raw \in Read(frame, Bits(16, 32))}
      [] code \in DOMAIN QueryDivisors ->
            IF Len(QueryDivisors[code]) = 1
            THEN {<<QueryWord(code, v, 1)>> : v \in Word(frame, 0)}
            ELSE {<<QueryWord(code, v, 1), QueryWord(code, w, 2)>> :
                     v \in Word(frame, 0), w \in Word(frame, 1)}
      [] code \in DOMAIN ByteQueries ->
            {<<raw>> : raw \in IF frame.len < 2 + ByteQueries[code] THEN {}
                               ELSE Read(frame, Byte(2))}
      [] code = "brake_status" -> {<<raw # 0>> : raw \in Read(frame, Byte(2))}

\* parse_query_response; an unknown code is unsupported.
ParseQuery(frame, error) ==
    UNION {{[type |-> "query", error |-> error, code |-> code, value |-> value] :
               value \in QueryValue(frame, code)} :
           code \in {q \in DOMAIN QueryCode : QueryCode[q] \in Read(frame, Key)}}

\* parse_feedback of a frame that is no broadcast; the error bits are only
\* named, every parser checks the length it needs.
ParseFeedback(frame, currentRange) ==
    UNION {CASE type = 1 -> ParseStatus1(frame, ParseError(error), currentRange)
             [] type = 2 -> ParseMotion("position", frame, ParseError(error))
             [] type = 3 -> ParseMotion("velocity", frame, ParseError(error))
             [] type = 4 -> ParseConfigAck(frame, ParseError(error))
             [] type = 5 -> ParseQuery(frame, ParseError(error))
             [] type = 6 -> ParseBrake(frame, ParseError(error))
             [] OTHER -> {} :
           type \in Read(frame, FeedbackType), error \in Read(frame, FeedbackError)}
=============================================================================
