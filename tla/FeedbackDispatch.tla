------------------------- MODULE FeedbackDispatch -------------------------
(***************************************************************************)
(* The receive side of one motor_driver: routes bound at start-up, the     *)
(* receive thread that decodes a datagram into CAN frames and applies each *)
(* to the motor_device it is routed to.  The getters of a device read under *)
(* the lock its updates are made under, so what another thread can read at  *)
(* any moment is an operator on the state (Snapshot, PvtKpRange).           *)
(*                                                                         *)
(* A frame's payload is abstracted to what it reports (Feedback), and the  *)
(* value of a sample to the arrival number of the frame it came from, so   *)
(* that two samples hold the same value exactly when one frame set both.   *)
(* The queries of one kind of field behave alike: "power" stands for every *)
(* field only a query reports, "pvt_kp_range" for those with a table value *)
(* to fall back on.  The extended flag of a frame does not matter: the     *)
(* code routes on the identifier without it.                               *)
(***************************************************************************)
EXTENDS Integers, Sequences

CONSTANTS
    Motor,          \* motor_device objects bound to the driver
    NoMotor,        \* the null device of an empty route
    Port, CanId,    \* bus numbers and CAN identifiers that occur
    BroadcastId,    \* BROADCAST_CAN_ID
    AddressOf,      \* each motor's configured [port, id]
    Packet,         \* the datagrams the network may deliver
    MaxFrames,      \* bound: CAN frames handled
    MaxTime         \* bound: the last tick of the clock

Address == [port : Port, id : CanId]

PvtField == {"error", "position", "velocity", "current"}
UuidIndex == 1..3
Field == PvtField \cup {"motor_temp", "mosfet_temp", "brake", "power",
                        "pvt_kp_range", "mcu_uuid"}
QueryCode == {"position", "velocity", "current", "power", "pvt_kp_range", "brake"}

\* The alternatives of `feedback`; an identifier fragment carries its index.
Feedback == [type : {"status", "position", "velocity", "brake", "config_ack"}]
            \cup [type : {"query"}, code : QueryCode]
            \cup [type : {"query"}, code : {"mcu_uuid"}, index : 0..4]
Unparsable == [type |-> "unparsable"]
Frame == [valid : BOOLEAN, address : Address, body : Feedback \cup {Unparsable}]

ASSUME AddressesDistinct ==
    /\ AddressOf \in [Motor -> Address]
    /\ \A m, n \in Motor : AddressOf[m] = AddressOf[n] => m = n
ASSUME NoMotorIsNone == NoMotor \notin Motor
ASSUME PacketsAreDatagrams == Packet \subseteq [intact : BOOLEAN, frames : Seq(Frame)]
ASSUME BoundsAreNat == MaxFrames \in Nat /\ MaxTime \in Nat

VARIABLES
    bound,          \* devices_
    routes,         \* motor_routes_
    rx,             \* where the receive thread is
    rest,           \* the entries of its datagram it has not read
    receivedAt,     \* decode_context.received_at
    sampleSeq,      \* sample_seq_ of each device
    sample,         \* the samples of each device
    uuid,           \* the fragments of each device's identifier, 0 if missing
    updatedAt,      \* updated_at_ of each device
    clock,          \* steady_clock
    log             \* history: every valid frame decoded, in order

vars == <<bound, routes, rx, rest, receivedAt, sampleSeq, sample, uuid,
          updatedAt, clock, log>>
wiring == <<bound, routes>>
device == <<sampleSeq, sample, uuid, updatedAt>>

Never == [time |-> 0, seq |-> 0, value |-> 0]

Init ==
    /\ bound = <<>>
    /\ routes = [a \in Address |-> NoMotor]
    /\ rx = "unstarted" /\ rest = <<>> /\ receivedAt = 0
    /\ sampleSeq = [m \in Motor |-> 0]
    /\ sample = [m \in Motor |-> [f \in Field |-> Never]]
    /\ uuid = [m \in Motor |-> [i \in UuidIndex |-> 0]]
    /\ updatedAt = [m \in Motor |-> 0]
    /\ clock = 0
    /\ log = <<>>
-----------------------------------------------------------------------------
(* Start-up: the runtime binds every motor, then starts the channel. *)

BindMotor(m) ==
    /\ rx = "unstarted"
    /\ \A i \in 1..Len(bound) : bound[i] # m
    /\ bound' = Append(bound, m)
    /\ routes' = [routes EXCEPT ![AddressOf[m]] = m]
    /\ UNCHANGED <<rx, rest, receivedAt, device, clock, log>>

Start ==
    /\ rx = "unstarted"
    /\ \A m \in Motor : \E i \in 1..Len(bound) : bound[i] = m
    /\ rx' = "idle"
    /\ UNCHANGED <<wiring, rest, receivedAt, device, clock, log>>
-----------------------------------------------------------------------------
(* The receive thread. *)

\* A datagram that fails the header, length or CRC check yields no frame.
HandlePacket(p) ==
    /\ rx = "idle"
    /\ p.intact => Len(log) + Len(p.frames) <= MaxFrames
    /\ rx' = "decoding"
    /\ rest' = IF p.intact THEN p.frames ELSE <<>>
    /\ receivedAt' = clock
    /\ UNCHANGED <<wiring, device, clock, log>>

DecodeEnds ==
    /\ rx = "decoding" /\ rest = <<>>
    /\ rx' = "idle"
    /\ UNCHANGED <<wiring, rest, receivedAt, device, clock, log>>

\* An entry that is no valid frame ends the datagram; what was applied stays.
DecodeFails ==
    /\ rx = "decoding" /\ rest # <<>>
    /\ ~Head(rest).valid
    /\ rest' = <<>>
    /\ UNCHANGED <<wiring, rx, receivedAt, device, clock, log>>

RouteByIdOnly(frame) ==
    IF frame.address.id = BroadcastId THEN NoMotor
    ELSE IF \E a \in Address : a.id = frame.address.id /\ routes[a] # NoMotor
         THEN routes[CHOOSE a \in Address :
                        a.id = frame.address.id /\ routes[a] # NoMotor]
         ELSE NoMotor

\* The device of a frame, if it has one; broadcasts are parsed and dropped.
Route(frame) ==
    IF frame.address.id = BroadcastId THEN NoMotor ELSE routes[frame.address]

NumberStatusOnly(m) ==
    IF Head(rest).body.type = "query" THEN sampleSeq[m] ELSE sampleSeq[m] + 1
NumberInBothOverloads(m) == sampleSeq[m] + 2

\* motor_device::apply takes its number before it takes the lock.
NextSeq(m) == sampleSeq[m] + 1

HandleFrame ==
    /\ rx = "decoding" /\ rest # <<>>
    /\ Head(rest).valid
    /\ rest' = Tail(rest)
    /\ log' = Append(log, Head(rest))
    /\ LET frame == Head(rest)
           m == Route(frame)
       IN  IF m = NoMotor \/ frame.body = Unparsable
           THEN UNCHANGED <<rx, sampleSeq>>
           ELSE /\ sampleSeq' = [sampleSeq EXCEPT ![m] = NextSeq(m)]
                /\ rx' = "applying"
    /\ UNCHANGED <<wiring, receivedAt, sample, uuid, updatedAt, clock>>

\* The frame being applied, its device, and its arrival number.
Current == log[Len(log)]
Target == Route(Current)

IsFragment(body) == body.type = "query" /\ body.code = "mcu_uuid"

\* The samples a feedback sets.
Reports(body) ==
    CASE body.type = "status" -> PvtField \cup {"motor_temp", "mosfet_temp"}
      [] body.type = "position" -> {"error", "position", "current", "motor_temp"}
      [] body.type = "velocity" -> {"error", "velocity", "current", "motor_temp"}
      [] body.type = "brake" -> {"error", "brake"}
      [] body.type = "config_ack" -> {}
      [] IsFragment(body) -> {"error"} \cup
                             (IF body.index \in UuidIndex THEN {"mcu_uuid"} ELSE {})
      [] OTHER -> {"error", body.code}

SetSample(m, fields) ==
    sample' = [sample EXCEPT ![m] = [f \in Field |->
                  IF f \in fields
                  THEN [time |-> receivedAt, seq |-> sampleSeq[m], value |-> Len(log)]
                  ELSE sample[m][f]]]

SetFragment(m, body) ==
    uuid' = IF IsFragment(body) /\ "mcu_uuid" \in Reports(body)
            THEN [uuid EXCEPT ![m][body.index] = Len(log)]
            ELSE uuid

TouchStatusOnly(m, body) ==
    updatedAt' = IF body.type # "status" THEN updatedAt
                 ELSE [updatedAt EXCEPT ![m] = receivedAt]

\* set_updated_at ends every apply_feedback_value but that of config_ack.
Touch(m, body) ==
    updatedAt' = IF body.type = "config_ack" THEN updatedAt
                 ELSE [updatedAt EXCEPT ![m] = receivedAt]

\* apply_feedback_value, under state_mutex_.
ApplyFeedback ==
    /\ rx = "applying"
    /\ rx' = "decoding"
    /\ SetSample(Target, Reports(Current.body))
    /\ SetFragment(Target, Current.body)
    /\ Touch(Target, Current.body)
    /\ UNCHANGED <<wiring, rest, receivedAt, sampleSeq, clock, log>>
-----------------------------------------------------------------------------
(* What another thread reads, under the same lock. *)

\* motor_device::pvt_feedback
Snapshot(m) == [f \in PvtField |-> sample[m][f]]

\* A motor bound by the runtime always has a table entry to fall back on.
TableSample == [time |-> clock, seq |-> 1, value |-> 0]

\* motor_device::pvt_kp_range
PvtKpRange(m) ==
    IF sample[m].pvt_kp_range.seq # 0 THEN sample[m].pvt_kp_range ELSE TableSample

Tick ==
    /\ clock < MaxTime
    /\ clock' = clock + 1
    /\ UNCHANGED <<wiring, rx, rest, receivedAt, device, log>>

Next ==
    \/ \E m \in Motor : BindMotor(m)
    \/ Start
    \/ \E p \in Packet : HandlePacket(p)
    \/ DecodeEnds \/ DecodeFails \/ HandleFrame \/ ApplyFeedback
    \/ Tick

Spec == Init /\ [][Next]_vars
-----------------------------------------------------------------------------
Sample == [time : 0..MaxTime, seq : 0..MaxFrames, value : 0..MaxFrames]

\* Every variable stays in the set its C++ declaration promises; at most one
\* sample number is handed out per frame.
TypeOK ==
    /\ bound \in Seq(Motor)
    /\ routes \in [Address -> Motor \cup {NoMotor}]
    /\ rx \in {"unstarted", "idle", "decoding", "applying"}
    /\ rest \in Seq(Frame)
    /\ receivedAt \in 0..MaxTime
    /\ sampleSeq \in [Motor -> 0..MaxFrames]
    /\ sample \in [Motor -> [Field -> Sample]]
    /\ uuid \in [Motor -> [UuidIndex -> 0..MaxFrames]]
    /\ updatedAt \in [Motor -> 0..MaxTime]
    /\ clock \in 0..MaxTime
    /\ log \in Seq(Frame) /\ Len(log) <= MaxFrames

\* The frames that reached m and that its samples must reflect by now.
Applied == 1..(IF rx = "applying" THEN Len(log) - 1 ELSE Len(log))
Addressed(m) == {i \in Applied : /\ log[i].address = AddressOf[m]
                                 /\ log[i].address.id # BroadcastId
                                 /\ log[i].body # Unparsable}
Newest(S) == IF S = {} THEN 0 ELSE CHOOSE i \in S : \A j \in S : j <= i

\* Every sample, and every fragment of the identifier, is that of the last
\* frame addressed to this motor that reports it: no frame of another port, of
\* the broadcast identifier or of an undecodable kind leaks in, and none is
\* skipped or applied out of order.
LatestWins ==
    \A m \in Motor :
        /\ \A f \in Field :
              sample[m][f].value = Newest({i \in Addressed(m) : f \in Reports(log[i].body)})
        /\ \A k \in UuidIndex :
              uuid[m][k] = Newest({i \in Addressed(m) :
                                      IsFragment(log[i].body) /\ log[i].body.index = k})

\* pvt_feedback_snapshot::coherent.
Coherent(snapshot) ==
    /\ \A f \in PvtField : snapshot[f].seq # 0
    /\ \A f, g \in PvtField : /\ snapshot[f].seq = snapshot[g].seq
                              /\ snapshot[f].time = snapshot[g].time

\* A snapshot that calls itself coherent is one status frame of that motor,
\* whole: the control loop never acts on a mixture of two frames.
SnapshotIsOneStatus ==
    \A m \in Motor : Coherent(Snapshot(m)) =>
        \E i \in 1..Len(log) :
            /\ log[i].address = AddressOf[m]
            /\ log[i].body.type = "status"
            /\ \A f \in PvtField : Snapshot(m)[f].value = i

\* updated_at is the time of the newest sample, and among the samples of one
\* motor a later number never has an earlier time.
TimesFollowNumbers ==
    \A m \in Motor :
        /\ \A f, g \in Field : sample[m][f].seq < sample[m][g].seq =>
                                   sample[m][f].time <= sample[m][g].time
        /\ \A f \in Field : sample[m][f].time <= updatedAt[m]
        /\ updatedAt[m] # 0 => \E f \in Field : sample[m][f].time = updatedAt[m]

\* What a thread reads never goes back: a sample read later has a number and a
\* time no smaller, and it is a different sample only if its number is larger.
SamplesAdvance ==
    [][\A m \in Motor, f \in Field :
          /\ sample'[m][f].time >= sample[m][f].time
          /\ sample'[m][f] # sample[m][f] => sample'[m][f].seq > sample[m][f].seq]_vars

\* device.h says of sample_t: seq # 0 means the field was received at least
\* once.  A range that falls back on the motor table says so too: TLC refutes
\* this as soon as a motor is bound, and no run states it.
ReceivedWasReceived ==
    \A m \in Motor : rx # "unstarted" /\ PvtKpRange(m).seq # 0 =>
        \E i \in 1..Len(log) : /\ log[i].address = AddressOf[m]
                               /\ "pvt_kp_range" \in Reports(log[i].body)
=============================================================================
