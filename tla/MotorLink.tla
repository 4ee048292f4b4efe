------------------------------ MODULE MotorLink ------------------------------
(***************************************************************************)
(* A bound runtime (Topology) in use: commands become CAN frames           *)
(* (CanCodec), the frames of a driver one datagram (motor_codec), the      *)
(* gateway puts them on its CAN ports, motors execute them and answer, and *)
(* the driver hands each answer to the device of its address.              *)
(*                                                                         *)
(* External: the network, which keeps the order of a channel's datagrams   *)
(* and may lose any of them; the gateway; the motors, which read a frame   *)
(* by the fields and full scales the codec and EC_MOTOR_TABLE name, keep a *)
(* configuration as the words they are sent, and answer from their state.  *)
(***************************************************************************)
EXTENDS Topology, CanCodec
LOCAL INSTANCE TLC

CONSTANTS
    Calling,        \* for some configurations, the calls made of the runtime
    MaxCalls,       \* bound: how many commands a caller gives
    MaxInFlight,    \* bound: the datagrams of a channel under way each way
    MaxFaults,      \* bound: how many datagrams are lost or refused
    Factory,        \* the configuration words of a motor at first
    Physical,       \* what each motor's sensors read
    Noise           \* for some configurations, what a gateway may put before a
                    \* motor's answer

ASSUME CallsAreCommands ==
    /\ DOMAIN Calling \subseteq Config
    /\ \A c \in DOMAIN Calling : \A call \in Calling[c] :
          call.device \in 1..Len(c.motors) /\ Command(call.command)

\* A motor's words have 16 bits, and as many answer a query as a set takes.
ASSUME FactoryIsWords ==
    /\ Factory \in [DOMAIN SetCode -> Seq(Nat)]
    /\ \A code \in DOMAIN SetCode : \A i \in Index(Factory[code]) : Factory[code][i] <= 65535
    /\ \A code \in DOMAIN SetCode \cap DOMAIN QueryDivisors :
          Len(Factory[code]) = Len(QueryDivisors[code])

ASSUME NoiseIsFrames == \A c \in DOMAIN Noise : Noise[c] \subseteq Seq(Frame)

VARIABLES
    toGateway,      \* the datagrams under way to each channel's gateway
    toHost,         \* and back
    motors,         \* the motors: target, brake and configuration words
    samples,        \* motor_device: the samples received, by name
    given,          \* history: the commands but queries each device accepted
    calls,          \* how many commands the caller has given
    faults          \* how many datagrams have been lost or refused

network == <<toGateway, toHost>>
link == <<toGateway, toHost, motors, samples, given, calls, faults>>
topology == <<config, phase, visited, drivers, bindings>>
-----------------------------------------------------------------------------
(* EC_MOTOR_TABLE: the full scales of kd, torque and current by model. The  *)
(* others are the same for all: kp 500, speed 18, position 12.5.           *)

Scales(kd, torque, current) ==
    [kd |-> kd * 1000, torque |-> torque * 1000, current |-> current * 1000]

EcMotorTable ==
    "EC-A2806-P2-36" :> Scales(5, 12, 10) @@ "EC-A4310-P2-36" :> Scales(5, 30, 30)
    @@ "EC-A4315-P2-36" :> Scales(5, 70, 30) @@ "EC-A6408-P2-25" :> Scales(5, 60, 60)
    @@ "EC-A6416-P2-25" :> Scales(5, 120, 60) @@ "EC-A8112-P1-18" :> Scales(5, 90, 60)
    @@ "EC-A8116-P1-18" :> Scales(5, 150, 70) @@ "EC-A10020-P1-12/6" :> Scales(50, 150, 70)
    @@ "EC-A13720-P1-11.4" :> Scales(50, 400, 220)
    @@ "EC-A13715-P1-12.67" :> Scales(50, 320, 220)
    @@ "EC-A4310-P2-36H" :> Scales(5, 30, 30) @@ "EC-A6408-P2-16H" :> Scales(5, 45, 30)
    @@ "EC-A6408-P2-30.25H" :> Scales(5, 60, 60) @@ "EC-A6408-P2-30.25HB" :> Scales(5, 60, 60)
    @@ "EC-A6416-P2-30.25H" :> Scales(5, 120, 60) @@ "EC-A8112-P1-18H" :> Scales(5, 90, 60)
    @@ "EC-A8116-P1-18H" :> Scales(5, 130, 70) @@ "EC-A10020-P2-24" :> Scales(50, 300, 140)
    @@ "EC-A3814-H14-107" :> Scales(5, 60, 20) @@ "EC-A5013-H17-100" :> Scales(5, 90, 30)
    @@ "EC-A6013-H20-100" :> Scales(5, 130, 35)

\* find_motor_ec_spec
SpecOf(device) == EcMotorTable[config.motors[device].model]
RangeOf(model) == [min |-> -EcMotorTable[model].current, max |-> EcMotorTable[model].current]
CurrentRange(device) == RangeOf(config.motors[device].model)

ASSUME KnownModelsInTable ==
    \A model \in KnownModel :
        model \in DOMAIN EcMotorTable /\ EcMotorTable[model].current \in Nat \ {0}

Measured(value, range) == value \in Int /\ -range <= value /\ value <= range

\* What a motor's sensors read fits the fields of its replies.
ASSUME SensorsFit ==
    \A c \in Config : \A d \in Index(c.motors) : c.motors[d].model \in KnownModel =>
        LET sensor == Physical[d]
        IN  /\ \A name \in FloatQueries : sensor[name] # NaN /\ RawFloat(sensor[name])
            /\ Measured(sensor.shaft, PositionRange) /\ Measured(sensor.speed, VelocityRange)
            /\ Measured(sensor.current, EcMotorTable[c.motors[d].model].current)
            /\ Measured(sensor.current, 327670)

Device == Index(config.motors)
ChannelNames == {config.channels[i].name : i \in Index(config.channels)}
AddressOf(device) == [port |-> config.motors[device].port, id |-> config.motors[device].id]
-----------------------------------------------------------------------------
(* motor_codec *)

\* can_frame::valid
FrameValid(frame) ==
    /\ frame.id <= IF frame.extended THEN 536870911 ELSE 2047
    /\ frame.len <= MAX_CAN_DATA_LEN

\* What a gateway sends unasked and a motor's device would take is at most an
\* acknowledgement.
ASSUME NoiseSaysNothing ==
    \A c \in DOMAIN Noise : \A noise \in Noise[c] : \A i \in Index(noise), d \in Index(c.motors) :
        /\ FrameValid(noise[i]) /\ noise[i].id # BROADCAST_CAN_ID
        /\ noise[i].port = c.motors[d].port /\ noise[i].id = c.motors[d].id
        /\ c.motors[d].model \in KnownModel
        => \A feedback \in ParseFeedback(noise[i], RangeOf(c.motors[d].model)) :
              feedback.type = "config_ack"

\* decode_each: the entries up to the first invalid one.
Decoded(packet) ==
    SubSeq(packet, 1, CHOOSE n \in 0 .. Len(packet) :
                          /\ \A i \in 1..n : FrameValid(packet[i])
                          /\ n < Len(packet) => ~FrameValid(packet[n + 1]))
-----------------------------------------------------------------------------
(* Sending: batch_commands::push of each command, then flush of each driver. *)

\* The frame of a command for a device, or {} when encoding refuses it.
FrameFor(device, command) == Encode(AddressOf(CommandTarget(device)), command)

\* The devices of a channel in a batch, in the order of the batch.
Batched(batch, channel) ==
    LET upTo[n \in 0 .. Len(config.motors)] ==
            IF n = 0 THEN <<>>
            ELSE IF /\ n \in DOMAIN batch /\ CommandChannel(n) = channel
                    /\ FrameFor(n, batch[n]) # {}
                 THEN Append(upTo[n - 1], n)
                 ELSE upTo[n - 1]
    IN  upTo[Len(config.motors)]

MAX_FRAMES_PER_PACKET == 32

\* A batch of one command for each device is one datagram for each channel; how
\* the code flushes one that is full is module CommandDispatch's.
ASSUME BatchFitsDatagram == \A c \in Config : Len(c.motors) <= MAX_FRAMES_PER_PACKET

PacketFor(batch, channel) ==
    LET devices == Batched(batch, channel)
    IN  [i \in Index(devices) |-> CHOOSE f \in FrameFor(devices[i], batch[devices[i]]) : TRUE]

Sent(batch, busy) ==
    {d \in DOMAIN batch : FrameFor(d, batch[d]) # {} /\ CommandChannel(d) \notin busy}

\* A channel without a free slot refuses its packet; the others still send.
Transmit(batch, busy) ==
    /\ toGateway' = [channel \in ChannelNames |->
          IF channel \in busy \/ PacketFor(batch, channel) = <<>>
          THEN toGateway[channel] ELSE Append(toGateway[channel], PacketFor(batch, channel))]
    /\ given' = [d \in Device |-> IF d \in Sent(batch, busy) /\ batch[d].type # "query"
                                   THEN given[d] \cup {batch[d]} ELSE given[d]]
    /\ faults' = faults + Cardinality(busy)
    /\ faults' <= MaxFaults
    /\ UNCHANGED <<toHost, motors, samples>>

RoomOnWire == \A channel \in ChannelNames : Len(toGateway[channel]) < MaxInFlight

\* command(...) of one device.
Call(device, command) ==
    /\ phase = "bound"
    /\ calls < MaxCalls /\ RoomOnWire
    /\ calls' = calls + 1
    /\ Transmit([d \in {device} |-> command], {})
    /\ UNCHANGED topology
-----------------------------------------------------------------------------
(* The motors (external) *)

NoTarget == [type |-> "none"]

The(S) == CHOOSE x \in S : TRUE
Field(frame, field) == The(Read(frame, field))

\* A motor reads its torque by the full scale of its own model.
ReadPvt(device, frame) ==
    [type |-> "pvt",
     kp |-> DecodeLinear(Field(frame, PvtKp), 0, KpRange, 4095),
     kd |-> DecodeLinear(Field(frame, PvtKd), 0, SpecOf(device).kd, 511),
     position |-> DecodeSymmetric(Field(frame, PvtPosition), PositionRange, 65535),
     velocity |-> DecodeSymmetric(Field(frame, PvtVelocity), VelocityRange, 4095),
     torque |-> DecodeSymmetric(Field(frame, PvtTorque), SpecOf(device).torque, 4095)]

ReadPosition(frame) ==
    [type |-> "position", position |-> BitsF32(Field(frame, PositionDeg)),
     velocity_limit |-> Field(frame, PositionVelocityX10) * 100,
     current_limit |-> Field(frame, PositionCurrentX10) * 100]

ReadVelocity(frame) ==
    [type |-> "velocity", velocity |-> BitsF32(Field(frame, VelocityRpm)),
     current_limit |-> Field(frame, VelocityCurrentX10) * 100]

ReadTorque(frame) ==
    [type |-> "torque_control", state |-> Field(frame, State),
     value |-> Signed(Field(frame, Value)) * 10]

TargetOf(device, frame) ==
    LET mode == Field(frame, Mode)
    IN  CASE mode = CommandCode.pvt -> ReadPvt(device, frame)
          [] mode = CommandCode.position -> ReadPosition(frame)
          [] mode = CommandCode.velocity -> ReadVelocity(frame)
          [] mode = CommandCode.torque -> ReadTorque(frame)

\* The words of a configuration frame, and the code they are for.
ConfigCode(frame) == The({c \in DOMAIN SetCode : SetCode[c] = Field(frame, Key)})
ConfigValue(frame) ==
    CASE frame.len = 3 -> <<Field(frame, Byte(2))>>
      [] frame.len = 4 -> <<Field(frame, ConfigMin)>>
      [] frame.len = 6 -> <<Field(frame, ConfigMin), Field(frame, ConfigMax)>>

Executed(device, motor, frame) ==
    LET mode == Field(frame, Mode)
    IN  CASE mode \in 0..3 -> [motor EXCEPT !.target = TargetOf(device, frame)]
          [] mode = CommandCode.brake ->
                [motor EXCEPT !.released = Field(frame, BrakeEngaged) = 1]
          [] mode = CommandCode.config ->
                [motor EXCEPT !.words[ConfigCode(frame)] = ConfigValue(frame)]
          [] mode = CommandCode.query -> motor

\* What a frame asks to be answered with: PVT always with the status, the
\* other control commands with what their reply field says.
AnswerKind(frame) ==
    LET mode == Field(frame, Mode)
    IN  CASE mode = CommandCode.pvt -> 1
          [] mode = CommandCode.position -> Field(frame, PositionReply)
          [] mode \in {CommandCode.velocity, CommandCode.torque} -> Field(frame, Reply)
          [] mode = CommandCode.brake -> 6
          [] mode = CommandCode.query -> 5
          [] mode = CommandCode.config -> 0

StatusRaw(value, range, max) == Rounded((value + range) * max, 2 * range)

SetCodeOf(code) == IF code = "acceleration" THEN "accel" ELSE code

QueryPayload(device, motor, code) ==
    CASE code \in FloatQueries -> <<<<Bits(16, 32), F32Bits(Physical[device][code])>>>>
      [] code = "brake_status" -> <<<<Byte(2), IF motor.released THEN 1 ELSE 0>>>>
      [] SetCodeOf(code) \in DOMAIN motor.words ->
            [i \in Index(motor.words[SetCodeOf(code)]) |->
                <<Bits(16 * i, 16), motor.words[SetCodeOf(code)][i]>>]
      [] OTHER -> <<<<Byte(2), 1>>>>

QueriedCode(frame) == The({c \in DOMAIN QueryCode : QueryCode[c] = Field(frame, Key)})

Answer(device, motor, frame) ==
    LET sensor == Physical[device]
        kind == AnswerKind(frame)
        reply(writes) ==
            Filled(AddressOf(device), 8, <<<<FeedbackType, kind>>, <<FeedbackError, 0>>>> \o writes)
        motion(value) == <<<<ReplyFloat, F32Bits(value)>>,
                           <<ReplyCurrentX100, Unsigned(sensor.current \div 10)>>, <<Byte(7), 90>>>>
    IN  CASE kind = 0 -> {}
          [] kind = 1 ->
               reply(<<<<StatusPosition, StatusRaw(sensor.shaft, PositionRange, 65535)>>,
                       <<StatusVelocity, StatusRaw(sensor.speed, VelocityRange, 4095)>>,
                       <<StatusCurrent, StatusRaw(sensor.current, SpecOf(device).current, 4095)>>,
                       <<Byte(6), 90>>, <<Byte(7), 90>>>>)
          [] kind = 2 -> reply(motion(sensor.position))
          [] kind = 3 -> reply(motion(sensor.velocity))
          [] kind = 5 -> LET code == QueriedCode(frame)
                         IN  reply(<<<<Key, QueryCode[code]>>>> \o QueryPayload(device, motor, code))
          [] kind = 6 -> reply(<<<<BrakeEngaged, IF motor.released THEN 1 ELSE 0>>>>)

\* At most one frame.
AnswerSent(device, motor, frame) ==
    IF Answer(device, motor, frame) = {} THEN <<>> ELSE <<The(Answer(device, motor, frame))>>

\* The motor a frame of this channel reaches.
Reached(channel, frame) ==
    {d \in Device : /\ config.motors[d].channel = channel
                    /\ AddressOf(d) = [port |-> frame.port, id |-> frame.id]}

\* One frame, executed and answered.
Handle(state, channel, frame) ==
    IF Reached(channel, frame) = {} THEN state
    ELSE LET device == The(Reached(channel, frame))
             motor == Executed(device, state.motors[device], frame)
         IN  [motors |-> [state.motors EXCEPT ![device] = motor],
              answers |-> state.answers \o AnswerSent(device, motor, frame)]

\* The frames of a datagram, in order.
Handled(channel, packet) ==
    LET after[i \in 0 .. Len(packet)] ==
            IF i = 0 THEN [motors |-> motors, answers |-> <<>>]
            ELSE Handle(after[i - 1], channel, packet[i])
    IN  after[Len(packet)]

NoiseHere == IF config \in DOMAIN Noise THEN Noise[config] ELSE {<<>>}

\* The gateway puts a datagram on its ports and packs the answers; frames that
\* no command asked for may come first.
GatewayHandles(channel) ==
    /\ phase = "bound"
    /\ toGateway[channel] # <<>>
    /\ Len(toHost[channel]) < MaxInFlight
    /\ LET done == Handled(channel, Head(toGateway[channel]))
       IN  /\ motors' = done.motors
           /\ \E noise \in NoiseHere : toHost' = [toHost EXCEPT ![channel] =
                 IF done.answers = <<>> THEN @ ELSE Append(@, noise \o done.answers)]
    /\ toGateway' = [toGateway EXCEPT ![channel] = Tail(@)]
    /\ UNCHANGED <<topology, samples, given, calls, faults>>

MoreFaults == faults < MaxFaults /\ faults' = faults + 1

LoseCommand(channel) ==
    /\ MoreFaults
    /\ toGateway[channel] # <<>>
    /\ toGateway' = [toGateway EXCEPT ![channel] = Tail(@)]
    /\ UNCHANGED <<topology, toHost, motors, samples, given, calls>>

LoseAnswer(channel) ==
    /\ MoreFaults
    /\ toHost[channel] # <<>>
    /\ toHost' = [toHost EXCEPT ![channel] = Tail(@)]
    /\ UNCHANGED <<topology, toGateway, motors, samples, given, calls>>
-----------------------------------------------------------------------------
(* Receiving: motor_driver::handle_packet, motor_device::apply *)

\* rad_to_deg and radps_to_rpm
Degrees(rad) == Rounded(rad * 57296, 1000)
Rpm(radps) == Rounded(radps * 9549, 1000)

\* apply_feedback_value: the samples a piece of feedback sets.  The fragments
\* of the identifier are gathered in module FeedbackDispatch.
Updates(feedback) ==
    CASE feedback.type = "status" ->
            [error |-> feedback.error, position |-> Degrees(feedback.position),
             velocity |-> Rpm(feedback.velocity), current |-> feedback.current,
             motor_temp |-> feedback.motor_temp, mosfet_temp |-> feedback.mosfet_temp]
      [] feedback.type = "position" ->
            [error |-> feedback.error, position |-> feedback.value, current |-> feedback.current,
             motor_temp |-> feedback.motor_temp]
      [] feedback.type = "velocity" ->
            [error |-> feedback.error, velocity |-> feedback.value, current |-> feedback.current,
             motor_temp |-> feedback.motor_temp]
      [] feedback.type = "brake" -> [error |-> feedback.error, brake_status |-> feedback.engaged]
      [] feedback.type = "config_ack" -> <<>>
      [] feedback.type = "query" ->
            [name \in {"error"} \cup ({feedback.code} \ {"mcu_uuid"}) |->
                IF name = "error" THEN feedback.error
                ELSE IF Len(feedback.value) = 1 THEN feedback.value[1] ELSE feedback.value]

\* The samples known, and those of an update over them.
Updated(known, update) ==
    [name \in DOMAIN known \cup DOMAIN update |->
        IF name \in DOMAIN update THEN update[name] ELSE known[name]]

RoutedByIdentifier(channel, frame) ==
    UNION {FeedbackTarget(channel, port, frame.id) : port \in {config.motors[d].port : d \in Device}}

\* handle_frame: broadcasts and frames of no route are dropped, and so is what
\* does not parse.
Routed(channel, frame) ==
    IF frame.id = BROADCAST_CAN_ID THEN {} ELSE FeedbackTarget(channel, frame.port, frame.id)

HandleFrame(known, channel, frame) ==
    [d \in Device |->
        IF d \notin Routed(channel, frame) THEN known[d]
        ELSE LET parsed == ParseFeedback(frame, CurrentRange(d))
             IN  IF parsed = {} THEN known[d] ELSE Updated(known[d], Updates(The(parsed)))]

\* The valid frames of a datagram, in order.
SamplesAfter(channel, packet) ==
    LET after[i \in 0 .. Len(packet)] ==
            IF i = 0 THEN samples ELSE HandleFrame(after[i - 1], channel, packet[i])
    IN  after[Len(packet)]

HostReceives(channel) ==
    /\ phase = "bound"
    /\ toHost[channel] # <<>>
    /\ samples' = SamplesAfter(channel, Decoded(Head(toHost[channel])))
    /\ toHost' = [toHost EXCEPT ![channel] = Tail(@)]
    /\ UNCHANGED <<topology, toGateway, motors, given, calls, faults>>
-----------------------------------------------------------------------------
LinkInit ==
    /\ Init
    /\ toGateway = [channel \in ChannelNames |-> <<>>] /\ toHost = toGateway
    /\ motors = [d \in Device |-> [target |-> NoTarget, released |-> FALSE, words |-> Factory]]
    /\ samples = [d \in Device |-> <<>>]
    /\ given = [d \in Device |-> {}]
    /\ calls = 0 /\ faults = 0

NetworkStep(channel) ==
    GatewayHandles(channel) \/ LoseCommand(channel) \/ LoseAnswer(channel) \/ HostReceives(channel)

LinkNext ==
    \/ Next /\ UNCHANGED link
    \/ /\ config \in DOMAIN Calling
       /\ \E call \in Calling[config] : Call(call.device, call.command)
    \/ \E channel \in ChannelNames : NetworkStep(channel)
-----------------------------------------------------------------------------
(* What the link promises *)

Near(a, b, step) == a - b \in -step .. step

\* A motor's target follows a command: the same mode, every value within half a
\* step of its field, but the PVT velocity and torque within one and a half: their
\* middle is sent as 2047, where the field's own is 2047.5.  The codec's full
\* scales of kd and torque, 5 and 30, are those of some models only; what the
\* others do is PvtAsCommanded's.
Follows(device, target, c) ==
    CASE target.type = "pvt" ->
            /\ c.type = "pvt" /\ Near(target.kp, c.kp, 61)
            /\ Near(target.position, c.position, 1) /\ Near(target.velocity, c.velocity, 13)
            /\ SpecOf(device).kd = 5000 => Near(target.kd, c.kd, 5)
            /\ SpecOf(device).torque = 30000 => Near(target.torque, c.torque, 22)
      [] target.type = "position" ->
            /\ c.type = "position" /\ target.position = c.position
            /\ Near(target.velocity_limit, c.velocity_limit, 50)
            /\ Near(target.current_limit, c.current_limit, 50)
      [] target.type = "velocity" ->
            /\ c.type = "velocity" /\ target.velocity = c.velocity
            /\ Near(target.current_limit, c.current_limit, 50)
      [] target.type = "torque_control" ->
            \/ c.type = "torque" /\ target.state = 1 /\ Near(target.value, c.torque, 5)
            \/ c.type = "current" /\ target.state = 0 /\ Near(target.value, c.current, 5)
            \/ c.type = "brake" /\ c.control = "damping" /\ target.state = 2
            \/ /\ c.type = "brake" /\ c.control \in {"energy", "regen"} /\ target.state = 4
               /\ Near(target.value, c.current_threshold, 5)

\* Every motor does what some command told its own device to do: no frame goes
\* to another motor, no field runs into another, no value is scaled or rounded
\* away by more than its step, and the brake opens only for a command to open it.
CommandsUnderstood ==
    \A d \in Device :
        /\ motors[d].target # NoTarget => \E c \in given[d] : Follows(d, motors[d].target, c)
        /\ motors[d].released =>
              \E c \in given[d] : c.type = "brake" /\ c.control = "engage" /\ c.open

\* The torque and the damping a motor applies are those of one command, each
\* within the steps of its field.
PvtAsCommanded ==
    \A d \in Device :
        motors[d].target.type = "pvt" =>
            \E c \in given[d] :
                /\ c.type = "pvt"
                /\ Near(motors[d].target.torque, c.torque, (3 * SpecOf(d).torque) \div 4095 + 1)
                /\ Near(motors[d].target.kd, c.kd, SpecOf(d).kd \div 511 + 1)

\* What a sensor's sample may say: what the motor's sensors read, within a
\* step of the field that carried it.  A current comes in hundredths or as a
\* part of the model's full scale.
SensorSays(device, name, value) ==
    LET sensor == Physical[device]
    IN  CASE name = "position" -> \/ value = sensor.position
                                  \/ Near(value, Degrees(sensor.shaft), 23)
          [] name = "velocity" -> \/ value = sensor.velocity
                                  \/ Near(value, Rpm(sensor.speed), 85)
          [] name = "current" ->
                \/ Near(value, sensor.current, 9)
                \/ Near(value, sensor.current, (2 * SpecOf(device).current) \div 4095 + 1)
          [] name = "power" -> value = sensor.power

\* Every sample of a device is something its own motor measured: replies go to
\* the device they came from, each field into its own sample, in its unit.  A
\* motor at the broadcast identifier is never heard.
SamplesTrue ==
    \A d \in Device :
        /\ \A name \in DOMAIN samples[d] \cap FloatQueries : SensorSays(d, name, samples[d][name])
        /\ config.motors[d].id = BROADCAST_CAN_ID => samples[d] = <<>>

\* How the words of a configuration code are scaled on their way out.
FormsOf(code) ==
    The({ConfigWords[kind][code] : kind \in {k \in DOMAIN ConfigWords : code \in DOMAIN ConfigWords[k]}})

\* What a word sent in this form says, in thousandths.
Meant(word, form) ==
    Rounded(1000 * (IF form.min < 0 THEN Signed(word) ELSE word), form.scale)

\* The values a configuration code may have: as given, or from the factory.
Configured(device, code) ==
    {c.values : c \in {g \in given[device] : g.type = "config" /\ g.code = code}}
    \cup {[i \in Index(Factory[code]) |-> Meant(Factory[code][i], FormsOf(code)[i])]}

\* A configuration value as received is one the device was given.
ComesBack(device, code, received) ==
    LET forms == FormsOf(code)
        values == IF Len(forms) = 1 THEN <<received>> ELSE received
    IN  \E wanted \in Configured(device, code) : \A i \in Index(forms) :
            Near(values[i], wanted[i], 500 \div forms[i].scale)

\* A configuration value set and queried comes back as it was given, within
\* half a step, although it is scaled on its way out, kept raw by the motor and
\* scaled back on its way in.  Acceleration is not asked for: it is sent in
\* hundredths and read back in units.
ConfigComesBack ==
    \A d \in Device : \A code \in DOMAIN samples[d] \cap DOMAIN Factory :
        ComesBack(d, code, samples[d][code])
=============================================================================
