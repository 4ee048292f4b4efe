----------------------------- MODULE Topology -----------------------------
(***************************************************************************)
(* runtime_t::init: a configuration is validated, a driver is made for     *)
(* each channel some motor uses, and every motor is bound to the driver of *)
(* its channel.  Commands are routed by the bindings, feedback by the      *)
(* routes of the drivers.  The runtime is private to init() meanwhile, so  *)
(* the phases are sequential.  Of what is external, a driver's constructor *)
(* is taken to find memory, a socket and, when it asks for any, a port     *)
(* that no channel is configured with.                                     *)
(***************************************************************************)
EXTENDS Integers, Sequences, FiniteSets

CONSTANTS
    Config,         \* the configurations init may be given
    KnownModel,     \* the models of EC_MOTOR_TABLE
    EmptyName,      \* ""
    MaxCanId,       \* 0x7FF
    MaxSlots,       \* UINT32_MAX / MOTOR_UDP_PACKET_CAP
    Parsable,       \* the texts asio::ip::make_address accepts
    Unavailable     \* the local ports the machine refuses: taken or reserved

\* A channel of this local_port takes any free one.
AnyPort == 0

ASSUME AnyPortIsFree == AnyPort \notin Unavailable

ASSUME SlotsAreBounded == MaxSlots \in Nat

\* bandwidth and slots are unsigned in the code, and so are addresses.
ASSUME ConfigsAreRecords ==
    \A c \in Config :
        /\ Len(c.channels) \in Nat /\ Len(c.motors) \in Nat
        /\ \A i \in 1..Len(c.channels) : /\ c.channels[i].bandwidth \in Nat
                                         /\ c.channels[i].slots \in Nat
                                         /\ c.channels[i].local_port \in Nat
        /\ \A i \in 1..Len(c.motors) : c.motors[i].port \in Nat /\ c.motors[i].id \in Nat

VARIABLES
    config,         \* options_
    phase,          \* how far init has come, or how it failed: "rejected" is
                    \* invalid_argument, "failed" io_error
    visited,        \* the channels init_drivers has come past
    drivers,        \* motor_drivers_: the channel, devices and routes of each
    bindings        \* device_bindings_, one per motor bound

vars == <<config, phase, visited, drivers, bindings>>

Init ==
    /\ config \in Config
    /\ phase = "constructed"
    /\ visited = 0
    /\ drivers = <<>> /\ bindings = <<>>

Index(s) == 1..Len(s)
Uses(c, channel) == \E i \in Index(c.motors) : c.motors[i].channel = channel.name

ChannelNamesValid(c) ==
    \A i \in Index(c.channels) :
        /\ c.channels[i].name # EmptyName
        /\ \A j \in Index(c.channels) : c.channels[j].name = c.channels[i].name => j = i

\* validate_device
DeviceValid(c, motor) ==
    /\ motor.name # EmptyName
    /\ Cardinality({j \in Index(c.motors) : c.motors[j].name = motor.name}) = 1
    /\ \E k \in Index(c.channels) : c.channels[k].name = motor.channel

SameAddress(m, n) == m.channel = n.channel /\ m.port = n.port /\ m.id = n.id

AddressUnchecked(c, motor) == motor.id <= MaxCanId

AddressValid(c, motor) ==
    /\ motor.id <= MaxCanId
    /\ Cardinality({j \in Index(c.motors) : SameAddress(c.motors[j], motor)}) = 1

ChannelUsable(c, channel) ==
    Uses(c, channel) => channel.bandwidth # 0 /\ channel.slots # 0

ValidateConfig(c) ==
    /\ ChannelNamesValid(c)
    /\ \A i \in Index(c.motors) : DeviceValid(c, c.motors[i]) /\ AddressValid(c, c.motors[i])
    /\ \A i \in Index(c.channels) : ChannelUsable(c, c.channels[i])

Validate ==
    /\ phase = "constructed"
    /\ phase' = IF ValidateConfig(config) THEN "validated" ELSE "rejected"
    /\ UNCHANGED <<config, visited, drivers, bindings>>

NewDriver(channel) ==
    [channel |-> channel.name, local_port |-> channel.local_port, devices |-> <<>>, routes |-> {}]

\* Only the channels of some motor get a driver.
NeedsDriver(c, channel) == Uses(c, channel)

\* The constructors of realtime_udp_channel and of its send queue: the address
\* does not parse, the slots overflow, or the port cannot be bound, which a
\* driver made before may hold.
Throws(channel) ==
    \/ channel.remote_address \notin Parsable
    \/ channel.slots > MaxSlots
    \/ channel.local_port \in Unavailable
    \/ /\ channel.local_port # AnyPort
       /\ \E d \in Index(drivers) : drivers[d].local_port = channel.local_port

InitDrivers ==
    /\ phase = "validated"
    /\ visited < Len(config.channels)
    /\ LET channel == config.channels[visited + 1]
       IN  \/ ~NeedsDriver(config, channel) /\ UNCHANGED drivers
          \/ /\ NeedsDriver(config, channel)
             /\ ~Throws(channel)
             /\ drivers' = Append(drivers, NewDriver(channel))
    /\ visited' = visited + 1
    /\ UNCHANGED <<config, phase, bindings>>

\* A driver's constructor throws: init catches it and answers io_error.
InitThrows ==
    /\ phase = "validated"
    /\ visited < Len(config.channels)
    /\ LET channel == config.channels[visited + 1]
       IN  NeedsDriver(config, channel) /\ Throws(channel)
    /\ phase' = "failed"
    /\ UNCHANGED <<config, visited, drivers, bindings>>

DriversReady ==
    /\ phase = "validated"
    /\ visited = Len(config.channels)
    /\ phase' = "binding"
    /\ UNCHANGED <<config, visited, drivers, bindings>>

\* find_driver_slot: at most one, as a set.
DriverSlot(channel) ==
    {d \in Index(drivers) : /\ drivers[d].channel = channel
                            /\ \A e \in 1..(d - 1) : drivers[e].channel # channel}

SlotAfterPush(driver) == Len(driver.devices) + 2

\* devices_.size() before the device is pushed, counting from 1.
DeviceSlot(driver) == Len(driver.devices) + 1

\* motor_driver::bind_motor; a second device of an address takes its route.
Bind(driver, device, motor) ==
    [driver EXCEPT
        !.devices = Append(@, device),
        !.routes = {r \in @ : r.port # motor.port \/ r.id # motor.id}
                   \cup {[port |-> motor.port, id |-> motor.id, device |-> device]}]

BindMotor ==
    /\ phase = "binding"
    /\ Len(bindings) < Len(config.motors)
    /\ LET device == Len(bindings) + 1
           motor == config.motors[device]
           slots == DriverSlot(motor.channel)
       IN  IF slots = {} \/ motor.model \notin KnownModel
           THEN phase' = "rejected" /\ UNCHANGED <<drivers, bindings>>
           ELSE \E d \in slots :
                   /\ drivers' = [drivers EXCEPT ![d] = Bind(@, device, motor)]
                   /\ bindings' = Append(bindings, [driver |-> d,
                                                    device |-> DeviceSlot(drivers[d])])
                   /\ UNCHANGED phase
    /\ UNCHANGED <<config, visited>>

BindEnds ==
    /\ phase = "binding"
    /\ Len(bindings) = Len(config.motors)
    /\ phase' = "bound"
    /\ UNCHANGED <<config, visited, drivers, bindings>>

Next == Validate \/ InitDrivers \/ InitThrows \/ DriversReady \/ BindMotor \/ BindEnds

Spec == Init /\ [][Next]_vars /\ WF_vars(Next)
-----------------------------------------------------------------------------
(* How the finished runtime resolves a device id and a received frame. *)

\* batch_commands::push: the device whose address the command is encoded for.
CommandTarget(device) ==
    LET b == bindings[device] IN drivers[b.driver].devices[b.device]

CommandChannel(device) == drivers[bindings[device].driver].channel

\* handle_frame: the devices a frame from this channel and address is for.
FeedbackTarget(channel, port, id) ==
    {r.device : r \in UNION {{q \in drivers[d].routes : q.port = port /\ q.id = id} :
                                d \in {e \in Index(drivers) : drivers[e].channel = channel}}}
-----------------------------------------------------------------------------
\* A bound runtime sends each motor's commands to that motor on the channel it
\* is configured with, and hands the motor every frame of its address and no
\* other motor's: the two directions of routing agree.
RoutesAgree ==
    phase = "bound" =>
        \A i \in Index(config.motors) :
            LET motor == config.motors[i]
            IN  /\ i \in Index(bindings)
                /\ bindings[i].driver \in Index(drivers)
                /\ bindings[i].device \in Index(drivers[bindings[i].driver].devices)
                /\ CommandTarget(i) = i
                /\ CommandChannel(i) = motor.channel
                /\ FeedbackTarget(motor.channel, motor.port, motor.id) = {i}

\* What makes a configuration acceptable, said without the code's loops.
WellFormed(c) ==
    /\ \A i, j \in Index(c.channels) : c.channels[i].name = c.channels[j].name => i = j
    /\ \A i, j \in Index(c.motors) : /\ c.motors[i].name = c.motors[j].name => i = j
                                     /\ SameAddress(c.motors[i], c.motors[j]) => i = j
    /\ EmptyName \notin {c.channels[i].name : i \in Index(c.channels)}
                        \cup {c.motors[i].name : i \in Index(c.motors)}
    /\ \A i \in Index(c.motors) :
          /\ c.motors[i].id <= MaxCanId
          /\ c.motors[i].model \in KnownModel
          /\ \E k \in Index(c.channels) : /\ c.channels[k].name = c.motors[i].channel
                                          /\ c.channels[k].bandwidth > 0
                                          /\ c.channels[k].slots > 0

\* What makes the drivers of a configuration constructible, said without the
\* order they are made in.
Constructible(c) ==
    \A i \in Index(c.channels) : Uses(c, c.channels[i]) =>
        /\ c.channels[i].remote_address \in Parsable
        /\ c.channels[i].slots <= MaxSlots
        /\ c.channels[i].local_port \notin Unavailable
        /\ c.channels[i].local_port # AnyPort =>
              \A j \in Index(c.channels) : Uses(c, c.channels[j]) =>
                  (c.channels[j].local_port = c.channels[i].local_port => i = j)

\* However init ends: it succeeds exactly for the well-formed configurations whose
\* drivers can be constructed, and its error blames what is wrong, invalid_argument
\* the configuration and io_error the construction.  Its loops and lookups
\* leave none of the conditions out and add none.
AcceptsWellFormed ==
    /\ phase = "bound" => WellFormed(config) /\ Constructible(config)
    /\ phase = "rejected" => ~WellFormed(config)
    /\ phase = "failed" => ~Constructible(config)
=============================================================================
