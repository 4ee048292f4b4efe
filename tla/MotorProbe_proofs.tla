--------------------------- MODULE MotorProbe_proofs ---------------------------
(***************************************************************************)
(* Proofs about the whole way of a command, for every configuration: the   *)
(* runtime is built right (Topology), a field written is the field read    *)
(* (CanCodec), and a motor does what its device was told (MotorLink) while *)
(* the diagnostic program runs (MotorProbe).                               *)
(***************************************************************************)
EXTENDS MotorProbe, FiniteSetTheorems, SequenceTheorems, WellFoundedInduction, TLAPS

(***************************************************************************)
(* Topology: building the runtime.                                         *)
(***************************************************************************)

\* The types of the runtime under construction.
Route == [port : Nat, id : Nat, device : Nat]
Driver == [channel : ChannelNames, local_port : Nat, devices : Seq(Nat), routes : SUBSET Route]
Binding == [driver : Nat, device : Nat]

TopologyTypes ==
    /\ config \in Config
    /\ phase \in {"constructed", "validated", "rejected", "failed", "binding", "bound"}
    /\ visited \in 0..Len(config.channels)
    /\ drivers \in Seq(Driver)
    /\ bindings \in Seq(Binding)
    /\ Len(bindings) <= Len(config.motors)

\* What the phases say of the configuration.
PhaseTells ==
    /\ phase \in {"validated", "binding", "bound"} => ValidateConfig(config)
    /\ phase \in {"constructed", "validated"} => bindings = <<>>
    /\ phase = "constructed" => visited = 0
    /\ phase \in {"binding", "bound"} => visited = Len(config.channels)
    /\ phase = "rejected" => ~WellFormed(config)
    /\ phase = "failed" => ~Constructible(config)
    /\ phase = "bound" => Len(bindings) = Len(config.motors)

\* One driver for each channel come past that some motor uses.
OneDriverEach ==
    /\ \A d \in Index(drivers) : \E i \in 1..visited : drivers[d].channel = config.channels[i].name
    /\ \A d, e \in Index(drivers) : drivers[d].channel = drivers[e].channel => d = e
    /\ \A i \in 1..visited : Uses(config, config.channels[i]) =>
          \E d \in Index(drivers) : drivers[d].channel = config.channels[i].name

\* What the constructor of a channel's driver needs, whatever was made before.
Opens(channel) ==
    /\ channel.remote_address \in Parsable
    /\ channel.slots <= MaxSlots
    /\ channel.local_port \notin Unavailable

\* Two channels that ask for one port.
SamePort(i, j) ==
    /\ config.channels[i].local_port # AnyPort
    /\ config.channels[j].local_port = config.channels[i].local_port

\* The drivers hold the ports of the channels come past, which all could be opened.
DriversMade ==
    /\ \A d \in Index(drivers) : \E i \in 1..visited :
          /\ Uses(config, config.channels[i])
          /\ drivers[d].local_port = config.channels[i].local_port
    /\ \A i \in 1..visited : Uses(config, config.channels[i]) =>
          /\ Opens(config.channels[i])
          /\ \E d \in Index(drivers) : drivers[d].local_port = config.channels[i].local_port
    /\ \A i, j \in 1..visited :
          Uses(config, config.channels[i]) /\ Uses(config, config.channels[j]) /\ SamePort(i, j)
          => i = j

BindingAgrees(i) ==
    /\ bindings[i].driver \in Index(drivers)
    /\ bindings[i].device \in Index(drivers[bindings[i].driver].devices)
    /\ drivers[bindings[i].driver].devices[bindings[i].device] = i
    /\ drivers[bindings[i].driver].channel = config.motors[i].channel
    /\ config.motors[i].model \in KnownModel

BindingsAgree == \A i \in Index(bindings) : BindingAgrees(i)

RouteTo(i) == [port |-> config.motors[i].port, id |-> config.motors[i].id, device |-> i]

\* A driver has a route to every motor of its channel that is bound, and no other.
RoutesComplete ==
    \A d \in Index(drivers) :
        drivers[d].routes =
            {RouteTo(i) : i \in {j \in Index(bindings) :
                                    config.motors[j].channel = drivers[d].channel}}

TopologyInv ==
    TopologyTypes /\ PhaseTells /\ OneDriverEach /\ DriversMade /\ BindingsAgree /\ RoutesComplete

\* A set of positions that has one of them has no other when it counts 1.
LEMMA CountsOne ==
  ASSUME NEW n \in Nat, NEW S \in SUBSET (1..n), NEW i \in S
  PROVE  Cardinality(S) = 1 <=> \A j \in S : j = i
<1>1. IsFiniteSet(S)
  <2>1. IsFiniteSet(1..n)
    BY FS_Interval
  <2> QED
    BY <2>1, FS_Subset
<1>2. Cardinality(S) = 1 <=> \E x : S = {x}
  BY <1>1, FS_Singleton
<1>3. (\E x : S = {x}) <=> \A j \in S : j = i
  <2>1. (\A j \in S : j = i) => S = {i}
    OBVIOUS
  <2> QED
    BY <2>1
<1> QED
  BY <1>2, <1>3

\* What validate_config and the search of the motor table accept is what is
\* well-formed.
LEMMA ValidMeansWellFormed ==
  ASSUME NEW c \in Config
  PROVE  WellFormed(c) <=>
            ValidateConfig(c) /\ \A i \in Index(c.motors) : c.motors[i].model \in KnownModel
<1> DEFINE Names(i) == {j \in Index(c.motors) : c.motors[j].name = c.motors[i].name}
           Addresses(i) == {j \in Index(c.motors) : SameAddress(c.motors[j], c.motors[i])}
<1>1. ASSUME NEW i \in Index(c.motors)
      PROVE  /\ Cardinality(Names(i)) = 1 <=> \A j \in Names(i) : j = i
             /\ Cardinality(Addresses(i)) = 1 <=> \A j \in Addresses(i) : j = i
  <2>1. Len(c.motors) \in Nat /\ i \in Names(i) /\ i \in Addresses(i)
    BY ConfigsAreRecords DEF SameAddress, Index
  <2>2. Names(i) \in SUBSET (1..Len(c.motors)) /\ Addresses(i) \in SUBSET (1..Len(c.motors))
    BY DEF Index
  <2> HIDE DEF Names, Addresses
  <2> QED
    BY <2>1, <2>2, CountsOne
<1>2. (\A i \in Index(c.motors) : Cardinality(Names(i)) = 1)
         <=> \A i, j \in Index(c.motors) : c.motors[i].name = c.motors[j].name => i = j
  BY <1>1
<1>3. (\A i \in Index(c.motors) : Cardinality(Addresses(i)) = 1)
         <=> \A i, j \in Index(c.motors) : SameAddress(c.motors[i], c.motors[j]) => i = j
  BY <1>1
<1>4. ChannelNamesValid(c) <=>
         /\ \A i, j \in Index(c.channels) : c.channels[i].name = c.channels[j].name => i = j
         /\ EmptyName \notin {c.channels[i].name : i \in Index(c.channels)}
  BY DEF ChannelNamesValid
<1>5. ASSUME NEW i \in Index(c.motors), NEW k \in Index(c.channels),
             c.channels[k].name = c.motors[i].channel
      PROVE  ChannelUsable(c, c.channels[k]) <=>
                c.channels[k].bandwidth > 0 /\ c.channels[k].slots > 0
  <2>1. c.channels[k].bandwidth \in Nat /\ c.channels[k].slots \in Nat
    BY ConfigsAreRecords DEF Index
  <2> QED
    BY <1>5, <2>1 DEF ChannelUsable, Uses
<1>6. ASSUME NEW k \in Index(c.channels), ~Uses(c, c.channels[k])
      PROVE  ChannelUsable(c, c.channels[k])
  BY <1>6 DEF ChannelUsable
<1>7. ASSUME \A i \in Index(c.motors) : \E k \in Index(c.channels) :
                c.channels[k].name = c.motors[i].channel,
             \A i, j \in Index(c.channels) : c.channels[i].name = c.channels[j].name => i = j
      PROVE  (\A i \in Index(c.channels) : ChannelUsable(c, c.channels[i]))
                <=> \A i \in Index(c.motors) : \E k \in Index(c.channels) :
                       /\ c.channels[k].name = c.motors[i].channel
                       /\ c.channels[k].bandwidth > 0
                       /\ c.channels[k].slots > 0
  <2>1. ASSUME \A i \in Index(c.motors) : \E k \in Index(c.channels) :
                  /\ c.channels[k].name = c.motors[i].channel
                  /\ c.channels[k].bandwidth > 0
                  /\ c.channels[k].slots > 0,
               NEW k \in Index(c.channels), Uses(c, c.channels[k])
        PROVE  ChannelUsable(c, c.channels[k])
    <3>1. PICK i \in Index(c.motors) : c.motors[i].channel = c.channels[k].name
      BY <2>1 DEF Uses
    <3>2. c.channels[k].bandwidth > 0 /\ c.channels[k].slots > 0
      BY <2>1, <3>1, <1>7
    <3> QED
      BY <3>1, <3>2, <1>5
  <2>2. ASSUME \A i \in Index(c.channels) : ChannelUsable(c, c.channels[i]),
               NEW i \in Index(c.motors)
        PROVE  \E k \in Index(c.channels) :
                       /\ c.channels[k].name = c.motors[i].channel
                       /\ c.channels[k].bandwidth > 0
                       /\ c.channels[k].slots > 0
    BY <2>2, <1>7, <1>5
  <2> QED
    BY <2>1, <2>2, <1>6
<1>8. ValidateConfig(c) <=>
         /\ ChannelNamesValid(c)
         /\ \A i \in Index(c.motors) :
               /\ c.motors[i].name # EmptyName
               /\ Cardinality(Names(i)) = 1
               /\ \E k \in Index(c.channels) : c.channels[k].name = c.motors[i].channel
               /\ c.motors[i].id <= MaxCanId
               /\ Cardinality(Addresses(i)) = 1
         /\ \A i \in Index(c.channels) : ChannelUsable(c, c.channels[i])
  BY DEF ValidateConfig, DeviceValid, AddressValid
<1> HIDE DEF Names, Addresses
<1> QED
  BY <1>2, <1>3, <1>4, <1>7, <1>8 DEF WellFormed

\* The names of a valid configuration tell its channels apart, and every motor
\* is on one of them.
LEMMA ValidChannels ==
  ASSUME NEW c \in Config, ValidateConfig(c)
  PROVE  /\ \A i, j \in Index(c.channels) : c.channels[i].name = c.channels[j].name => i = j
         /\ \A i \in Index(c.motors) : \E k \in Index(c.channels) :
               c.channels[k].name = c.motors[i].channel
         /\ \A i, j \in Index(c.motors) : SameAddress(c.motors[i], c.motors[j]) => i = j
<1>1. \A i, j \in Index(c.motors) : SameAddress(c.motors[i], c.motors[j]) => i = j
  <2> SUFFICES ASSUME NEW i \in Index(c.motors), NEW j \in Index(c.motors),
                      SameAddress(c.motors[i], c.motors[j])
               PROVE  i = j
    OBVIOUS
  <2> DEFINE S == {k \in Index(c.motors) : SameAddress(c.motors[k], c.motors[j])}
  <2>0. AddressValid(c, c.motors[j])
    BY DEF ValidateConfig
  <2>1. Cardinality(S) = 1
    BY <2>0 DEF AddressValid
  <2>2. Len(c.motors) \in Nat /\ S \in SUBSET (1..Len(c.motors)) /\ j \in S /\ i \in S
    BY ConfigsAreRecords DEF SameAddress, Index
  <2> HIDE DEF S
  <2> QED
    BY <2>1, <2>2, CountsOne
<1> QED
  BY <1>1 DEF ValidateConfig, ChannelNamesValid, DeviceValid

\* Nothing is built yet.
LEMMA TopologyInit == Init => TopologyInv
  BY ConfigsAreRecords DEF Init, TopologyInv, TopologyTypes, PhaseTells, OneDriverEach,
     DriversMade, BindingsAgree, RoutesComplete, Index

\* What is known of the drivers stays while they and the bindings do.
LEMMA DriversStay ==
  ASSUME UNCHANGED <<config, visited, drivers, bindings>>
  PROVE  /\ OneDriverEach => OneDriverEach'
         /\ DriversMade => DriversMade'
         /\ BindingsAgree => BindingsAgree'
         /\ RoutesComplete => RoutesComplete'
<1>1. OneDriverEach => OneDriverEach'
  BY DEF OneDriverEach
<1>2. DriversMade => DriversMade'
  BY DEF DriversMade, SamePort
<1>3. BindingsAgree => BindingsAgree'
  BY DEF BindingsAgree, BindingAgrees
<1>4. RoutesComplete => RoutesComplete'
  BY DEF RoutesComplete, RouteTo
<1> QED
  BY <1>1, <1>2, <1>3, <1>4

\* What is known of the ports stays while each driver keeps its own.
LEMMA PortsStay ==
  ASSUME UNCHANGED <<config, visited>>, Index(drivers') = Index(drivers),
         \A d \in Index(drivers) : drivers'[d].local_port = drivers[d].local_port,
         DriversMade
  PROVE  DriversMade'
<1>1. \A d \in Index(drivers') : \E i \in 1..visited' :
         /\ Uses(config', config'.channels[i])
         /\ drivers'[d].local_port = config'.channels[i].local_port
  BY DEF DriversMade
<1>2. \A i \in 1..visited' : Uses(config', config'.channels[i]) =>
         /\ Opens(config'.channels[i])
         /\ \E d \in Index(drivers') : drivers'[d].local_port = config'.channels[i].local_port
  BY DEF DriversMade
<1>3. \A i, j \in 1..visited' :
         Uses(config', config'.channels[i]) /\ Uses(config', config'.channels[j])
         /\ SamePort(i, j)' => i = j
  BY DEF DriversMade, SamePort
<1> QED
  BY <1>1, <1>2, <1>3 DEF DriversMade

\* A configuration passes validation or the runtime is rejected.
LEMMA ValidateInv == TopologyInv /\ Validate => TopologyInv'
<1> SUFFICES ASSUME TopologyInv, Validate PROVE TopologyInv'
  OBVIOUS
<1> USE DEF TopologyInv
<1>1. UNCHANGED <<config, visited, drivers, bindings>>
  BY DEF Validate
<1>2. TopologyTypes' /\ phase' \in {"validated", "rejected"}
  BY <1>1 DEF Validate, TopologyTypes, Driver, ChannelNames
<1>3. PhaseTells'
  BY <1>1, ValidMeansWellFormed DEF Validate, TopologyTypes, PhaseTells
<1> QED
  BY <1>1, <1>2, <1>3, DriversStay

\* A channel is come past: it gets the only driver of its name if a motor uses it.
LEMMA InitDriversInv == TopologyInv /\ InitDrivers => TopologyInv'
<1> SUFFICES ASSUME TopologyInv, InitDrivers PROVE TopologyInv'
  OBVIOUS
<1> USE DEF TopologyInv
<1> DEFINE next == visited + 1
           channel == config.channels[next]
<1>1. /\ UNCHANGED <<config, phase, bindings>>
      /\ phase = "validated" /\ bindings = <<>>
      /\ visited \in Nat /\ Len(config.channels) \in Nat
      /\ next \in Index(config.channels) /\ visited' = next
      /\ channel.name \in ChannelNames
  BY ConfigsAreRecords DEF InitDrivers, TopologyTypes, PhaseTells, Index, ChannelNames
<1>2. Index(bindings) = {}
  BY <1>1 DEF Index
<1>3. NewDriver(channel) \in Driver
  <2>1. channel.local_port \in Nat
    BY <1>1, ConfigsAreRecords DEF TopologyTypes, Index
  <2> QED
    BY <1>1, <2>1 DEF NewDriver, Driver, Route
<1>4. ChannelNames' = ChannelNames /\ Driver' = Driver
  BY <1>1 DEF ChannelNames, Driver
<1>5. drivers' = IF Uses(config, channel) THEN Append(drivers, NewDriver(channel)) ELSE drivers
  BY DEF InitDrivers, NeedsDriver
<1>13. Uses(config, channel) => ~Throws(channel)
  BY DEF InitDrivers, NeedsDriver
<1> HIDE DEF channel
<1>6. TopologyTypes'
  <2>1. drivers' \in Seq(Driver)
    BY <1>3, <1>5 DEF TopologyTypes
  <2> QED
    BY <1>1, <1>4, <2>1 DEF TopologyTypes, Index
<1>7. PhaseTells'
  BY <1>1 DEF PhaseTells
<1>8. ValidateConfig(config)
  BY <1>1 DEF PhaseTells
<1>9. \A i, j \in Index(config.channels) :
         config.channels[i].name = config.channels[j].name => i = j
  BY <1>8, ValidChannels DEF TopologyTypes
<1>10. \A d \in Index(drivers) : drivers[d].channel # channel.name
  <2> SUFFICES ASSUME NEW d \in Index(drivers), drivers[d].channel = channel.name
               PROVE  FALSE
    OBVIOUS
  <2>1. PICK i \in 1..visited : drivers[d].channel = config.channels[i].name
    BY DEF OneDriverEach
  <2>2. i \in Index(config.channels) /\ i # next
    BY <1>1 DEF Index
  <2> QED
    BY <2>1, <2>2, <1>1, <1>9 DEF channel
<1>11. CASE ~Uses(config, channel)
  <2>1. drivers' = drivers
    BY <1>5, <1>11
  <2>2. \A i \in 1..next : i \in 1..visited \/ config.channels[i] = channel
    BY <1>1 DEF channel
  <2>3. OneDriverEach'
    <3>1. \A i \in 1..visited : i \in 1..next
      BY <1>1
    <3> QED
      BY <1>1, <1>11, <2>1, <2>2, <3>1 DEF OneDriverEach
  <2>4. DriversMade'
    <3>1. \A i \in 1..visited : i \in 1..next
      BY <1>1
    <3> QED
      BY <1>1, <1>11, <2>1, <2>2, <3>1 DEF DriversMade, SamePort
  <2> QED
    BY <1>1, <1>2, <1>6, <1>7, <2>1, <2>3, <2>4 DEF BindingsAgree, RoutesComplete, RouteTo
<1>12. CASE Uses(config, channel)
  <2> DEFINE new == Len(drivers) + 1
  <2>1. /\ drivers' = Append(drivers, NewDriver(channel))
        /\ Len(drivers) \in Nat /\ drivers \in Seq(Driver)
    BY <1>5, <1>12 DEF TopologyTypes
  <2>2. /\ Len(drivers') = new
        /\ Index(drivers') = Index(drivers) \cup {new} /\ new \notin Index(drivers)
        /\ \A d \in Index(drivers) : drivers'[d] = drivers[d]
        /\ drivers'[new] = NewDriver(channel)
    BY <2>1, <1>3 DEF Index
  <2> HIDE DEF new
  <2>3. /\ NewDriver(channel).channel = channel.name /\ NewDriver(channel).routes = {}
        /\ NewDriver(channel).local_port = channel.local_port
    BY DEF NewDriver
  <2>4. \A d \in Index(drivers') : \E i \in 1..visited' :
            drivers'[d].channel = config'.channels[i].name
    <3> SUFFICES ASSUME NEW d \in Index(drivers')
                 PROVE  \E i \in 1..next : drivers'[d].channel = config.channels[i].name
      BY <1>1
    <3>1. CASE d = new
      BY <3>1, <2>2, <2>3, <1>1 DEF channel
    <3>2. CASE d \in Index(drivers)
      BY <3>2, <2>2, <1>1 DEF OneDriverEach
    <3> QED
      BY <3>1, <3>2, <2>2
  <2>5. \A d, e \in Index(drivers') : drivers'[d].channel = drivers'[e].channel => d = e
    BY <2>2, <2>3, <1>10 DEF OneDriverEach
  <2>6. \A i \in 1..visited' : Uses(config', config'.channels[i]) =>
           \E d \in Index(drivers') : drivers'[d].channel = config'.channels[i].name
    <3> SUFFICES ASSUME NEW i \in 1..next, Uses(config, config.channels[i])
                 PROVE  \E d \in Index(drivers') : drivers'[d].channel = config.channels[i].name
      BY <1>1
    <3>1. CASE i = next
      BY <3>1, <2>2, <2>3 DEF channel
    <3>2. CASE i \in 1..visited
      BY <3>2, <2>2 DEF OneDriverEach
    <3> QED
      BY <3>1, <3>2, <1>1
  <2>7. OneDriverEach'
    BY <2>4, <2>5, <2>6 DEF OneDriverEach
  <2>8. BindingsAgree' /\ RoutesComplete'
    <3>1. Index(bindings') = {}
      BY <1>1, <1>2
    <3>2. \A d \in Index(drivers') : drivers'[d].routes = {}
      <4>1. \A d \in Index(drivers) : drivers[d].routes = {}
        BY <1>2 DEF RoutesComplete
      <4> QED
        BY <4>1, <2>2, <2>3
    <3> QED
      BY <3>1, <3>2 DEF BindingsAgree, RoutesComplete
  <2>9. Opens(channel) /\ (channel.local_port # AnyPort =>
            \A d \in Index(drivers) : drivers[d].local_port # channel.local_port)
    <3>1. channel.slots \in Nat /\ MaxSlots \in Nat
      BY <1>1, ConfigsAreRecords, SlotsAreBounded DEF channel, TopologyTypes, Index
    <3>2. ~Throws(channel)
      BY <1>12, <1>13
    <3> QED
      BY <3>1, <3>2 DEF Throws, Opens
  <2>10. \A d \in Index(drivers') : \E i \in 1..visited' :
            /\ Uses(config', config'.channels[i])
            /\ drivers'[d].local_port = config'.channels[i].local_port
    <3> SUFFICES ASSUME NEW d \in Index(drivers')
                 PROVE  \E i \in 1..next : /\ Uses(config, config.channels[i])
                                          /\ drivers'[d].local_port = config.channels[i].local_port
      BY <1>1
    <3>1. CASE d = new
      BY <3>1, <2>2, <2>3, <1>1, <1>12 DEF channel
    <3>2. CASE d \in Index(drivers)
      BY <3>2, <2>2, <1>1 DEF DriversMade
    <3> QED
      BY <3>1, <3>2, <2>2
  <2>11. \A i \in 1..visited' : Uses(config', config'.channels[i]) =>
            /\ Opens(config'.channels[i])
            /\ \E d \in Index(drivers') : drivers'[d].local_port = config'.channels[i].local_port
    <3> SUFFICES ASSUME NEW i \in 1..next, Uses(config, config.channels[i])
                 PROVE  /\ Opens(config.channels[i])
                        /\ \E d \in Index(drivers') :
                              drivers'[d].local_port = config.channels[i].local_port
      BY <1>1
    <3>1. CASE i = next
      BY <3>1, <2>2, <2>3, <2>9 DEF channel
    <3>2. CASE i \in 1..visited
      BY <3>2, <2>2 DEF DriversMade
    <3> QED
      BY <3>1, <3>2, <1>1
  <2>12. \A i, j \in 1..visited' :
            Uses(config', config'.channels[i]) /\ Uses(config', config'.channels[j])
            /\ SamePort(i, j)' => i = j
    <3> SUFFICES ASSUME NEW i \in 1..next, NEW j \in 1..next,
                        Uses(config, config.channels[i]), Uses(config, config.channels[j]),
                        SamePort(i, j), i # j
                 PROVE  FALSE
      BY <1>1 DEF SamePort
    <3>1. \A k \in 1..visited : Uses(config, config.channels[k]) =>
             ~(SamePort(next, k) \/ SamePort(k, next))
      BY <2>9 DEF DriversMade, SamePort, channel
    <3>2. CASE i = next \/ j = next
      BY <3>1, <3>2, <1>1
    <3>3. CASE i \in 1..visited /\ j \in 1..visited
      BY <3>3 DEF DriversMade
    <3> QED
      BY <3>2, <3>3, <1>1
  <2>13. DriversMade'
    BY <2>10, <2>11, <2>12 DEF DriversMade
  <2> QED
    BY <1>6, <1>7, <2>7, <2>8, <2>13
<1> QED
  BY <1>11, <1>12

\* A constructor that throws tells that the drivers cannot be constructed.
LEMMA InitThrowsInv == TopologyInv /\ InitThrows => TopologyInv'
<1> SUFFICES ASSUME TopologyInv, InitThrows PROVE TopologyInv'
  OBVIOUS
<1> USE DEF TopologyInv
<1> DEFINE next == visited + 1
           channel == config.channels[next]
<1>1. /\ UNCHANGED <<config, visited, drivers, bindings>>
      /\ phase = "validated" /\ bindings = <<>> /\ phase' = "failed"
      /\ visited \in Nat /\ Len(config.channels) \in Nat
      /\ next \in Index(config.channels)
      /\ Uses(config, channel) /\ Throws(channel)
  BY ConfigsAreRecords DEF InitThrows, NeedsDriver, TopologyTypes, PhaseTells, Index
<1>2. ~Constructible(config)
  <2>0. channel.slots \in Nat /\ MaxSlots \in Nat
    BY <1>1, ConfigsAreRecords, SlotsAreBounded DEF TopologyTypes, Index
  <2>1. CASE ~Opens(channel)
    BY <1>1, <2>1 DEF Constructible, Opens
  <2>2. CASE Opens(channel)
    <3>1. PICK d \in Index(drivers) : /\ channel.local_port # AnyPort
                                       /\ drivers[d].local_port = channel.local_port
      BY <1>1, <2>0, <2>2 DEF Throws, Opens
    <3>2. PICK i \in 1..visited : /\ Uses(config, config.channels[i])
                                   /\ drivers[d].local_port = config.channels[i].local_port
      BY DEF DriversMade
    <3>3. i \in Index(config.channels) /\ i # next
      BY <1>1 DEF Index
    <3> QED
      BY <1>1, <3>1, <3>2, <3>3 DEF Constructible
  <2> QED
    BY <2>1, <2>2
<1>3. TopologyTypes' /\ PhaseTells'
  BY <1>1, <1>2 DEF TopologyTypes, PhaseTells, Driver, ChannelNames
<1> QED
  BY <1>1, <1>3, DriversStay

\* Binding begins when every channel has been come past.
LEMMA DriversReadyInv == TopologyInv /\ DriversReady => TopologyInv'
<1> SUFFICES ASSUME TopologyInv, DriversReady PROVE TopologyInv'
  OBVIOUS
<1> USE DEF TopologyInv
<1>1. UNCHANGED <<config, visited, drivers, bindings>>
  BY DEF DriversReady
<1>2. TopologyTypes' /\ PhaseTells'
  BY <1>1 DEF DriversReady, TopologyTypes, PhaseTells, Driver, ChannelNames
<1> QED
  BY <1>1, <1>2, DriversStay

\* The runtime is bound when every motor is.
LEMMA BindEndsInv == TopologyInv /\ BindEnds => TopologyInv'
<1> SUFFICES ASSUME TopologyInv, BindEnds PROVE TopologyInv'
  OBVIOUS
<1> USE DEF TopologyInv
<1>1. UNCHANGED <<config, visited, drivers, bindings>>
  BY DEF BindEnds
<1>2. TopologyTypes' /\ PhaseTells'
  BY <1>1 DEF BindEnds, TopologyTypes, PhaseTells, Driver, ChannelNames
<1> QED
  BY <1>1, <1>2, DriversStay

\* Binding the next motor: its driver exists, gets the device as its last and
\* the only route of the motor's address.
LEMMA BindMotorInv == TopologyInv /\ BindMotor => TopologyInv'
<1> SUFFICES ASSUME TopologyInv, BindMotor PROVE TopologyInv'
  OBVIOUS
<1> USE DEF TopologyInv
<1> DEFINE device == Len(bindings) + 1
           motor == config.motors[device]
           slots == DriverSlot(motor.channel)
<1>1. /\ UNCHANGED <<config, visited>>
      /\ phase = "binding" /\ ValidateConfig(config) /\ config \in Config
      /\ Len(bindings) \in Nat /\ Len(config.motors) \in Nat
      /\ device \in Index(config.motors) /\ device \in Nat
      /\ motor.port \in Nat /\ motor.id \in Nat
  BY ConfigsAreRecords DEF BindMotor, TopologyTypes, PhaseTells, Index
<1>2. ChannelNames' = ChannelNames /\ Driver' = Driver
  BY <1>1 DEF ChannelNames, Driver
<1>3. \E d \in Index(drivers) : drivers[d].channel = motor.channel
  <2>1. PICK k \in Index(config.channels) : config.channels[k].name = motor.channel
    BY <1>1, ValidChannels
  <2>2. visited = Len(config.channels)
    BY <1>1 DEF PhaseTells
  <2>3. Uses(config, config.channels[k])
    BY <2>1, <1>1 DEF Uses
  <2> QED
    BY <2>1, <2>2, <2>3 DEF OneDriverEach, Index
<1>4. PICK d \in slots : d \in Index(drivers) /\ drivers[d].channel = motor.channel
  <2>1. PICK d \in Index(drivers) : drivers[d].channel = motor.channel
    BY <1>3
  <2>2. \A e \in 1..(d - 1) : drivers[e].channel # motor.channel
    BY <2>1 DEF OneDriverEach, TopologyTypes, Index
  <2> QED
    BY <2>1, <2>2 DEF DriverSlot
<1>5. \A e \in slots : e = d
  BY <1>4 DEF DriverSlot, OneDriverEach
<1>6. CASE motor.model \notin KnownModel
  <2>1. phase' = "rejected" /\ UNCHANGED <<drivers, bindings>>
    BY <1>6, <1>4 DEF BindMotor
  <2>2. ~WellFormed(config)
    BY <1>6, <1>1, ValidMeansWellFormed
  <2>3. TopologyTypes' /\ PhaseTells'
    BY <1>1, <1>2, <2>1, <2>2 DEF TopologyTypes, PhaseTells
  <2> QED
    BY <1>1, <2>1, <2>3, DriversStay
<1>7. CASE motor.model \in KnownModel
  <2> DEFINE bound == Bind(drivers[d], device, motor)
             binding == [driver |-> d, device |-> DeviceSlot(drivers[d])]
  <2>1. /\ drivers' = [drivers EXCEPT ![d] = bound]
        /\ bindings' = Append(bindings, binding)
        /\ UNCHANGED phase
    BY <1>7, <1>4, <1>5 DEF BindMotor
  <2>2. /\ drivers[d] \in Driver
        /\ drivers[d].devices \in Seq(Nat)
        /\ d \in Nat
    <3>1. drivers[d] \in Driver /\ d \in Nat
      BY <1>4 DEF TopologyTypes, Index
    <3> QED
      BY <3>1 DEF Driver
  <2>3. /\ bound.channel = drivers[d].channel
        /\ bound.local_port = drivers[d].local_port
        /\ bound.devices = Append(drivers[d].devices, device)
        /\ bound.routes = {r \in drivers[d].routes : r.port # motor.port \/ r.id # motor.id}
                           \cup {RouteTo(device)}
    BY <2>2 DEF Bind, Driver, RouteTo
  <2>4. bound \in Driver
    <3>1. RouteTo(device) \in Route
      BY <1>1 DEF RouteTo, Route
    <3>2. Append(drivers[d].devices, device) \in Seq(Nat)
      BY <2>2, <1>1
    <3>3. drivers[d].routes \in SUBSET Route
      BY <2>2 DEF Driver
    <3> QED
      BY <2>2, <3>1, <3>2, <3>3, <1>1 DEF Bind, Driver, RouteTo
  <2> HIDE DEF bound
  <2>5. /\ Index(drivers') = Index(drivers)
        /\ drivers'[d] = bound
        /\ \A e \in Index(drivers) : e # d => drivers'[e] = drivers[e]
        /\ \A e \in Index(drivers) : /\ drivers'[e].channel = drivers[e].channel
                                     /\ drivers'[e].local_port = drivers[e].local_port
    BY <2>1, <2>3, <1>4 DEF TopologyTypes, Index
  <2>6. binding \in Binding
    BY <2>2 DEF Binding, DeviceSlot
  <2>7. /\ Len(bindings') = device
        /\ Index(bindings') = Index(bindings) \cup {device} /\ device \notin Index(bindings)
        /\ \A i \in Index(bindings) : bindings'[i] = bindings[i]
        /\ bindings'[device] = binding
    BY <2>1, <2>6 DEF TopologyTypes, Index
  <2>8. TopologyTypes'
    <3>1. drivers' \in Seq(Driver)
      BY <2>1, <2>4, <1>4 DEF TopologyTypes, Index
    <3>2. bindings' \in Seq(Binding)
      BY <2>1, <2>6 DEF TopologyTypes
    <3> QED
      BY <1>1, <1>2, <2>1, <2>7, <3>1, <3>2 DEF TopologyTypes, Index
  <2>9. PhaseTells'
    BY <1>1, <2>1 DEF PhaseTells
  <2>10. OneDriverEach'
    BY <1>1, <2>5 DEF OneDriverEach
  <2>11. BindingsAgree'
    <3> SUFFICES ASSUME NEW i \in Index(bindings') PROVE BindingAgrees(i)'
      BY DEF BindingsAgree
    <3>1. CASE i = device
      <4>1. /\ bindings'[i].driver = d
            /\ bindings'[i].device = Len(drivers[d].devices) + 1
        BY <3>1, <2>7 DEF DeviceSlot
      <4>2. /\ drivers'[d].devices = Append(drivers[d].devices, device)
            /\ drivers'[d].channel = motor.channel
        BY <2>3, <2>5, <1>4
      <4> QED
        BY <3>1, <4>1, <4>2, <2>2, <2>5, <1>1, <1>4, <1>7 DEF BindingAgrees, Index
    <3>2. CASE i \in Index(bindings)
      <4> DEFINE b == bindings[i]
      <4>1. BindingAgrees(i) /\ bindings'[i] = b
        BY <3>2, <2>7 DEF BindingsAgree
      <4>2. CASE b.driver # d
        BY <4>1, <4>2, <2>5, <1>1 DEF BindingAgrees
      <4>3. CASE b.driver = d
        <5>1. drivers'[d].devices = Append(drivers[d].devices, device)
          BY <2>3, <2>5
        <5>2. b.device \in 1..Len(drivers[d].devices)
          BY <4>1, <4>3 DEF BindingAgrees, Index
        <5>3. /\ b.device \in 1..Len(drivers'[d].devices)
              /\ drivers'[d].devices[b.device] = drivers[d].devices[b.device]
          BY <5>1, <5>2, <2>2
        <5> HIDE DEF b
        <5> QED
          BY <4>1, <4>3, <5>3, <2>5, <1>1 DEF BindingAgrees, Index, b
      <4> QED
        BY <4>2, <4>3
    <3> QED
      BY <3>1, <3>2, <2>7
  <2>12. RoutesComplete'
    <3> SUFFICES ASSUME NEW e \in Index(drivers)
                 PROVE  drivers'[e].routes =
                           {RouteTo(i) : i \in {j \in Index(bindings) \cup {device} :
                              config.motors[j].channel = drivers[e].channel}}
      BY <1>1, <2>5, <2>7 DEF RoutesComplete, RouteTo
    <3>1. drivers[e].routes = {RouteTo(i) : i \in {j \in Index(bindings) :
                                              config.motors[j].channel = drivers[e].channel}}
      BY DEF RoutesComplete
    <3>2. CASE e # d
      <4>1. drivers[e].channel # motor.channel
        BY <3>2, <1>4 DEF OneDriverEach
      <4> QED
        BY <4>1, <3>1, <3>2, <2>5
    <3>3. CASE e = d
      <4>1. ASSUME NEW i \in Index(bindings), config.motors[i].channel = drivers[d].channel
            PROVE  RouteTo(i).port # motor.port \/ RouteTo(i).id # motor.id
        <5>1. i \in Index(config.motors) /\ i # device
          BY <1>1, <2>7 DEF TopologyTypes, Index
        <5>2. ~SameAddress(config.motors[i], motor)
          BY <5>1, <1>1, ValidChannels
        <5> QED
          BY <5>2, <4>1, <1>4 DEF SameAddress, RouteTo
      <4>2. {r \in drivers[d].routes : r.port # motor.port \/ r.id # motor.id} = drivers[d].routes
        BY <4>1, <3>1, <3>3
      <4>3. drivers'[d].routes = drivers[d].routes \cup {RouteTo(device)}
        BY <4>2, <2>3, <2>5
      <4> QED
        BY <4>3, <3>1, <3>3, <1>4
    <3> QED
      BY <3>2, <3>3
  <2>13. DriversMade'
    BY <1>1, <2>5, PortsStay
  <2> QED
    BY <2>8, <2>9, <2>10, <2>11, <2>12, <2>13
<1> QED
  BY <1>6, <1>7

\* Every step of init keeps the invariant.
LEMMA TopologyNext == TopologyInv /\ [Next]_vars => TopologyInv'
<1> SUFFICES ASSUME TopologyInv, [Next]_vars PROVE TopologyInv'
  OBVIOUS
<1>1. CASE UNCHANGED vars
  <2>1. TopologyTypes' /\ PhaseTells'
    BY <1>1 DEF vars, TopologyInv, TopologyTypes, Driver, ChannelNames, PhaseTells
  <2> QED
    BY <1>1, <2>1, DriversStay DEF vars, TopologyInv
<1> QED
  BY <1>1, ValidateInv, InitDriversInv, InitThrowsInv, DriversReadyInv, BindMotorInv,
     BindEndsInv DEF Next

\* A frame of a motor's address goes to it and to no other.
LEMMA FeedbackTargets ==
  ASSUME TopologyInv, phase = "bound", NEW i \in Index(config.motors)
  PROVE  FeedbackTarget(config.motors[i].channel, config.motors[i].port, config.motors[i].id) = {i}
<1> USE DEF TopologyInv
<1> DEFINE motor == config.motors[i]
<1>1. i \in Index(bindings) /\ Index(bindings) = Index(config.motors)
  BY DEF PhaseTells, Index
<1>2. PICK d \in Index(drivers) : drivers[d].channel = motor.channel
  BY <1>1 DEF BindingsAgree, BindingAgrees
<1>3. {e \in Index(drivers) : drivers[e].channel = motor.channel} = {d}
  BY <1>2 DEF OneDriverEach
<1>4. {q \in drivers[d].routes : q.port = motor.port /\ q.id = motor.id} = {RouteTo(i)}
  <2>1. \A j \in Index(config.motors) : SameAddress(config.motors[j], motor) => j = i
    BY ValidChannels DEF PhaseTells, TopologyTypes
  <2>2. drivers[d].routes = {RouteTo(j) : j \in {k \in Index(config.motors) :
                                config.motors[k].channel = motor.channel}}
    BY <1>1, <1>2 DEF RoutesComplete
  <2> QED
    BY <2>1, <2>2 DEF RouteTo, SameAddress
<1>5. UNION {{q \in drivers[e].routes : q.port = motor.port /\ q.id = motor.id} :
                e \in {f \in Index(drivers) : drivers[f].channel = motor.channel}} = {RouteTo(i)}
  BY <1>3, <1>4
<1>6. {r.device : r \in {RouteTo(i)}} = {i}
  BY DEF RouteTo
<1> QED
  BY <1>5, <1>6 DEF FeedbackTarget

\* The invariant makes the two directions of routing agree.
LEMMA InvRoutesAgree == TopologyInv => RoutesAgree
<1> SUFFICES ASSUME TopologyInv, phase = "bound", NEW i \in Index(config.motors)
             PROVE  /\ i \in Index(bindings)
                    /\ BindingAgrees(i)
                    /\ FeedbackTarget(config.motors[i].channel, config.motors[i].port,
                                      config.motors[i].id) = {i}
  BY DEF RoutesAgree, BindingAgrees, CommandTarget, CommandChannel
<1> QED
  BY FeedbackTargets DEF TopologyInv, PhaseTells, BindingsAgree, Index

\* The invariant makes init accept what is well-formed and constructible, and
\* nothing else.
LEMMA InvAcceptsWellFormed == TopologyInv => AcceptsWellFormed
<1> SUFFICES ASSUME TopologyInv, phase = "bound" PROVE WellFormed(config) /\ Constructible(config)
  BY DEF AcceptsWellFormed, TopologyInv, PhaseTells
<1>1. \A i \in Index(config.motors) : config.motors[i].model \in KnownModel
  BY DEF TopologyInv, PhaseTells, BindingsAgree, BindingAgrees, Index
<1>2. WellFormed(config)
  BY <1>1, ValidMeansWellFormed DEF TopologyInv, TopologyTypes, PhaseTells
<1>3. Index(config.channels) = 1..visited
  BY DEF TopologyInv, PhaseTells, Index
<1>4. Constructible(config)
  BY <1>3 DEF TopologyInv, DriversMade, Opens, SamePort, Constructible
<1> QED
  BY <1>2, <1>4

(***************************************************************************)
(* Induction and recursion up to a number.  The library states both with   *)
(* an operator; said of sets and functions they can be used.               *)
(***************************************************************************)

\* A set that has 0 and, with a number, the next one, has all numbers up to n.
LEMMA UpTo ==
  ASSUME NEW n \in Nat, NEW G \in SUBSET (0..n), 0 \in G,
         \A i \in 1..n : i - 1 \in G => i \in G
  PROVE  G = 0..n
<1> SUFFICES ASSUME G # 0..n PROVE FALSE
  OBVIOUS
<1> DEFINE S == (0..n) \ G
<1>1. S # {} /\ S \subseteq Nat
  <2>1. PICK x \in 0..n : x \notin G
    OBVIOUS
  <2> QED
    BY <2>1
<1>2. \E x \in S : \A y \in S : ~(<<y, x>> \in OpToRel(<, Nat))
  BY <1>1, NatLessThanWellFounded, WFMin
<1>3. PICK x \in S : \A y \in S : ~(y < x)
  BY <1>1, <1>2 DEF OpToRel
<1>4. x \in 1..n
  OBVIOUS
<1>5. x - 1 \in 0..n /\ x - 1 < x
  BY <1>4
<1>6. x - 1 \in G
  BY <1>3, <1>5
<1> QED
  BY <1>4, <1>6

\* A function may be defined by its value at 0 and each value by the one before.
Recursive(n, S, a, next) == n \in Nat /\ a \in S /\ next \in [1..n -> [S -> S]]
Iterates(f, n, a, next) == f[0] = a /\ \A i \in 1..n : f[i] = next[i][f[i - 1]]

\* Such a function exists.
LEMMA Recursion ==
  ASSUME NEW n, NEW S, NEW a, NEW next, Recursive(n, S, a, next)
  PROVE  \E f \in [0..n -> S] : Iterates(f, n, a, next)
<1> USE DEF Recursive
<1> DEFINE Good(f, i) == f[0] = a /\ \A j \in 1..i : f[j] = next[j][f[j - 1]]
           G == {i \in 0..n : \E f \in [0..i -> S] : Good(f, i)}
<1>1. 0 \in G
  <2> DEFINE f == [j \in 0..0 |-> a]
  <2>1. f \in [0..0 -> S] /\ f[0] = a /\ 1..0 = {} /\ 0 \in 0..n
    OBVIOUS
  <2> HIDE DEF f
  <2>2. Good(f, 0)
    BY <2>1
  <2> QED
    BY <2>1, <2>2
<1>2. ASSUME NEW i \in 1..n, i - 1 \in G PROVE i \in G
  <2>1. PICK f \in [0..(i - 1) -> S] : Good(f, i - 1)
    BY <1>2
  <2> DEFINE g == [j \in 0..i |-> IF j = i THEN next[i][f[i - 1]] ELSE f[j]]
  <2>2. f[i - 1] \in S
    BY <2>1
  <2>3. g \in [0..i -> S]
    BY <2>1, <2>2
  <2>4. g[0] = a
    BY <2>1
  <2>5. ASSUME NEW j \in 1..i PROVE g[j] = next[j][g[j - 1]]
    <3>1. CASE j = i
      <4>1. i - 1 \in 0..i /\ i - 1 # i /\ i \in 0..i
        OBVIOUS
      <4>2. g[i - 1] = f[i - 1] /\ g[i] = next[i][f[i - 1]]
        BY <4>1
      <4> QED
        BY <3>1, <4>2
    <3>2. CASE j # i
      <4>1. j \in 1..(i - 1) /\ j - 1 \in 0..(i - 1) /\ j - 1 # i /\ j \in 0..i /\ j - 1 \in 0..i
        BY <3>2
      <4>2. g[j] = f[j] /\ g[j - 1] = f[j - 1]
        BY <4>1
      <4> QED
        BY <2>1, <4>1, <4>2
    <3> QED
      BY <3>1, <3>2
  <2> HIDE DEF g
  <2> QED
    <3>1. Good(g, i) /\ i \in 0..n
      BY <2>4, <2>5
    <3> QED
      BY <2>3, <3>1
<1> HIDE DEF G
<1>3. G = 0..n
  <2>1. G \in SUBSET (0..n)
    BY DEF G
  <2> QED
    BY <1>1, <1>2, <2>1, UpTo
<1>4. PICK f \in [0..n -> S] : Good(f, n)
  <2>1. n \in G
    BY <1>3
  <2> QED
    BY <2>1 DEF G
<1> QED
  BY <1>4 DEF Iterates

(***************************************************************************)
(* bit_codec: a number written into a field is read back.                  *)
(***************************************************************************)

BitField == [offset : Nat, len : 1..32]

\* What a field can carry: the model's raw values have at most 31 bits.
IsRaw(raw) == raw \in Nat /\ raw < 2^31
Carries(field, raw) == IsRaw(raw) /\ Fits(field, raw)

\* The field's bits are the number's, the highest first.
Stored(data, field, raw) ==
    \A bit \in Covered(field) :
        bit \in data <=> BitOf(raw, field.offset + field.len - 1 - bit) = 1

\* The number without its lowest bits.
Shifted(raw, exponent) == IF exponent > 30 THEN 0 ELSE raw \div 2^exponent

\* Shifting by one more bit halves the number and drops that bit.
LEMMA ShiftByOne ==
  ASSUME NEW raw \in Nat, raw < 2^31, NEW e \in 0..31
  PROVE  /\ Shifted(raw, e) = 2 * Shifted(raw, e + 1) + BitOf(raw, e)
         /\ Shifted(raw, e) \in Nat /\ BitOf(raw, e) \in {0, 1}
<1>0. CASE e = 0
  BY <1>0 DEF Shifted, BitOf
<1>1. CASE e = 1
  BY <1>1 DEF Shifted, BitOf
<1>2. CASE e = 2
  BY <1>2 DEF Shifted, BitOf
<1>3. CASE e = 3
  BY <1>3 DEF Shifted, BitOf
<1>4. CASE e = 4
  BY <1>4 DEF Shifted, BitOf
<1>5. CASE e = 5
  BY <1>5 DEF Shifted, BitOf
<1>6. CASE e = 6
  BY <1>6 DEF Shifted, BitOf
<1>7. CASE e = 7
  BY <1>7 DEF Shifted, BitOf
<1>8. CASE e = 8
  BY <1>8 DEF Shifted, BitOf
<1>9. CASE e = 9
  BY <1>9 DEF Shifted, BitOf
<1>10. CASE e = 10
  BY <1>10 DEF Shifted, BitOf
<1>11. CASE e = 11
  BY <1>11 DEF Shifted, BitOf
<1>12. CASE e = 12
  BY <1>12 DEF Shifted, BitOf
<1>13. CASE e = 13
  BY <1>13 DEF Shifted, BitOf
<1>14. CASE e = 14
  BY <1>14 DEF Shifted, BitOf
<1>15. CASE e = 15
  BY <1>15 DEF Shifted, BitOf
<1>16. CASE e = 16
  BY <1>16 DEF Shifted, BitOf
<1>17. CASE e = 17
  BY <1>17 DEF Shifted, BitOf
<1>18. CASE e = 18
  BY <1>18 DEF Shifted, BitOf
<1>19. CASE e = 19
  BY <1>19 DEF Shifted, BitOf
<1>20. CASE e = 20
  BY <1>20 DEF Shifted, BitOf
<1>21. CASE e = 21
  BY <1>21 DEF Shifted, BitOf
<1>22. CASE e = 22
  BY <1>22 DEF Shifted, BitOf
<1>23. CASE e = 23
  BY <1>23 DEF Shifted, BitOf
<1>24. CASE e = 24
  BY <1>24 DEF Shifted, BitOf
<1>25. CASE e = 25
  BY <1>25 DEF Shifted, BitOf
<1>26. CASE e = 26
  BY <1>26 DEF Shifted, BitOf
<1>27. CASE e = 27
  BY <1>27 DEF Shifted, BitOf
<1>28. CASE e = 28
  BY <1>28 DEF Shifted, BitOf
<1>29. CASE e = 29
  BY <1>29 DEF Shifted, BitOf
<1>30. CASE e = 30
  BY <1>30 DEF Shifted, BitOf
<1>31. CASE e = 31
  BY <1>31 DEF Shifted, BitOf
<1> QED
  BY <1>0, <1>1, <1>2, <1>3, <1>4, <1>5, <1>6, <1>7, <1>8, <1>9, <1>10, <1>11, <1>12, <1>13,
     <1>14, <1>15, <1>16, <1>17, <1>18, <1>19, <1>20, <1>21, <1>22, <1>23, <1>24, <1>25, <1>26,
     <1>27, <1>28, <1>29, <1>30, <1>31

\* A number that fits is shifted out of its field.
LEMMA ShiftOut ==
  ASSUME NEW raw \in Nat, NEW n \in 1..32, n > 30 \/ raw < 2^n
  PROVE  Shifted(raw, n) = 0
<1>1. CASE n = 1
  BY <1>1 DEF Shifted
<1>2. CASE n = 2
  BY <1>2 DEF Shifted
<1>3. CASE n = 3
  BY <1>3 DEF Shifted
<1>4. CASE n = 4
  BY <1>4 DEF Shifted
<1>5. CASE n = 5
  BY <1>5 DEF Shifted
<1>6. CASE n = 6
  BY <1>6 DEF Shifted
<1>7. CASE n = 7
  BY <1>7 DEF Shifted
<1>8. CASE n = 8
  BY <1>8 DEF Shifted
<1>9. CASE n = 9
  BY <1>9 DEF Shifted
<1>10. CASE n = 10
  BY <1>10 DEF Shifted
<1>11. CASE n = 11
  BY <1>11 DEF Shifted
<1>12. CASE n = 12
  BY <1>12 DEF Shifted
<1>13. CASE n = 13
  BY <1>13 DEF Shifted
<1>14. CASE n = 14
  BY <1>14 DEF Shifted
<1>15. CASE n = 15
  BY <1>15 DEF Shifted
<1>16. CASE n = 16
  BY <1>16 DEF Shifted
<1>17. CASE n = 17
  BY <1>17 DEF Shifted
<1>18. CASE n = 18
  BY <1>18 DEF Shifted
<1>19. CASE n = 19
  BY <1>19 DEF Shifted
<1>20. CASE n = 20
  BY <1>20 DEF Shifted
<1>21. CASE n = 21
  BY <1>21 DEF Shifted
<1>22. CASE n = 22
  BY <1>22 DEF Shifted
<1>23. CASE n = 23
  BY <1>23 DEF Shifted
<1>24. CASE n = 24
  BY <1>24 DEF Shifted
<1>25. CASE n = 25
  BY <1>25 DEF Shifted
<1>26. CASE n = 26
  BY <1>26 DEF Shifted
<1>27. CASE n = 27
  BY <1>27 DEF Shifted
<1>28. CASE n = 28
  BY <1>28 DEF Shifted
<1>29. CASE n = 29
  BY <1>29 DEF Shifted
<1>30. CASE n = 30
  BY <1>30 DEF Shifted
<1>31. CASE n > 30
  BY <1>31 DEF Shifted
<1> QED
  BY <1>1, <1>2, <1>3, <1>4, <1>5, <1>6, <1>7, <1>8, <1>9, <1>10, <1>11, <1>12, <1>13, <1>14,
     <1>15, <1>16, <1>17, <1>18, <1>19, <1>20, <1>21, <1>22, <1>23, <1>24, <1>25, <1>26, <1>27,
     <1>28, <1>29, <1>30, <1>31

\* The number read is built bit by bit.
LEMMA NumberSteps ==
  ASSUME NEW field \in BitField, NEW data
  PROVE  \E f \in [0..field.len -> Nat] :
            /\ NumberOf(data, field) = f[field.len]
            /\ f[0] = 0
            /\ \A n \in 1..field.len :
                  f[n] = 2 * f[n - 1] + IF field.offset + n - 1 \in data THEN 1 ELSE 0
<1> DEFINE len == field.len
           Bit(n) == IF field.offset + n - 1 \in data THEN 1 ELSE 0
           next == [n \in 1..len |-> [u \in Nat |-> 2 * u + Bit(n)]]
           Is(f) == f = [n \in 0..len |-> IF n = 0 THEN 0 ELSE 2 * f[n - 1] + Bit(n)]
<1>1. len \in Nat
  BY DEF BitField
<1>2. \A n : Bit(n) \in {0, 1}
  OBVIOUS
<1> HIDE DEF len, Bit
<1>3. next \in [1..len -> [Nat -> Nat]]
  BY <1>2
<1>4. PICK f \in [0..len -> Nat] : f[0] = 0 /\ \A n \in 1..len : f[n] = next[n][f[n - 1]]
  <2> HIDE DEF next, Is
  <2>1. Recursive(len, Nat, 0, next)
    BY <1>1, <1>3 DEF Recursive
  <2> QED
    BY <2>1, Recursion DEF Iterates
<1>5. Is(f)
  <2>1. ASSUME NEW n \in 1..len PROVE f[n] = 2 * f[n - 1] + Bit(n)
    <3>1. f[n - 1] \in Nat
      BY <1>1
    <3> QED
      BY <1>4, <3>1
  <2> HIDE DEF next
  <2>2. \A n \in 0..len : f[n] = IF n = 0 THEN 0 ELSE 2 * f[n - 1] + Bit(n)
    <3>1. \A n \in 0..len : n = 0 \/ n \in 1..len
      BY <1>1
    <3> QED
      BY <1>4, <2>1, <3>1
  <2> QED
    BY <2>2
<1>6. \A g : Is(g) => g \in [0..len -> Nat] /\ g[0] = 0
                       /\ \A n \in 1..len : g[n] = 2 * g[n - 1] + Bit(n)
  <2> SUFFICES ASSUME NEW g, Is(g)
               PROVE  g \in [0..len -> Nat] /\ g[0] = 0
                       /\ \A n \in 1..len : g[n] = 2 * g[n - 1] + Bit(n)
    OBVIOUS
  <2>1. g[0] = 0 /\ \A n \in 1..len : g[n] = 2 * g[n - 1] + Bit(n)
    BY <1>1
  <2> DEFINE G == {n \in 0..len : g[n] \in Nat}
  <2>2. ASSUME NEW n \in 1..len, n - 1 \in G PROVE n \in G
    BY <2>1, <2>2, <1>2
  <2>3. 0 \in G
    BY <2>1, <1>1
  <2>4. G = 0..len
    <3>1. G \in SUBSET (0..len)
      OBVIOUS
    <3> HIDE DEF G
    <3> QED
      BY <1>1, <2>2, <2>3, <3>1, UpTo
  <2>5. \A n \in 0..len : g[n] \in Nat
    BY <2>4
  <2> QED
    BY <2>1, <2>5
<1>7. NumberOf(data, field) = (CHOOSE g : Is(g))[len]
  BY DEF NumberOf, len, Bit
<1>8. Is(CHOOSE g : Is(g))
  BY <1>5
<1> QED
  BY <1>6, <1>7, <1>8 DEF len, Bit

\* What is stored in a field is what is read from it.
LEMMA StoredIsRead ==
  ASSUME NEW field \in BitField, NEW data, NEW raw, Carries(field, raw), Stored(data, field, raw)
  PROVE  NumberOf(data, field) = raw
<1> DEFINE len == field.len
<1>1. PICK f \in [0..len -> Nat] :
            /\ NumberOf(data, field) = f[len]
            /\ f[0] = 0
            /\ \A n \in 1..len :
                  f[n] = 2 * f[n - 1] + IF field.offset + n - 1 \in data THEN 1 ELSE 0
  BY NumberSteps
<1>2. /\ len \in 1..32 /\ field.offset \in Nat /\ raw \in Nat /\ raw < 2^31
      /\ len > 30 \/ raw < 2^len
      /\ Covered(field) = field.offset .. field.offset + len - 1
      /\ \A bit \in Covered(field) : bit \in data <=> BitOf(raw, field.offset + len - 1 - bit) = 1
  BY DEF BitField, Carries, IsRaw, Fits, Covered, Stored
<1> HIDE DEF len
<1> DEFINE G == {n \in 0..len : f[n] = Shifted(raw, len - n)}
<1>3. 0 \in G
  <2>1. Shifted(raw, len) = 0
    BY <1>2, ShiftOut
  <2>2. 0 \in 0..len /\ len - 0 = len
    BY <1>2
  <2> QED
    BY <1>1, <2>1, <2>2
<1>4. ASSUME NEW n \in 1..len, n - 1 \in G PROVE n \in G
  <2> DEFINE e == len - n
  <2>1. e \in 0..31 /\ len - (n - 1) = e + 1
    BY <1>2
  <2>2. f[n - 1] = Shifted(raw, e + 1)
    BY <1>4, <2>1
  <2>3. /\ field.offset + n - 1 \in Covered(field)
        /\ field.offset + len - 1 - (field.offset + n - 1) = e
    <3>1. \A o \in Nat : o + n - 1 \in o .. o + len - 1 /\ o + len - 1 - (o + n - 1) = e
      BY <1>2
    <3> QED
      BY <1>2, <3>1
  <2>4. field.offset + n - 1 \in data <=> BitOf(raw, e) = 1
    BY <1>2, <2>3
  <2> HIDE DEF e
  <2>5. f[n] = 2 * Shifted(raw, e + 1) + BitOf(raw, e)
    BY <1>1, <1>2, <2>1, <2>2, <2>4, ShiftByOne
  <2>6. f[n] = Shifted(raw, e)
    BY <1>2, <2>1, <2>5, ShiftByOne
  <2> QED
    BY <2>6 DEF e
<1>5. G = 0..len
  <2>1. G \in SUBSET (0..len) /\ len \in Nat
    BY <1>2
  <2> HIDE DEF G, len
  <2> QED
    BY <1>3, <1>4, <2>1, UpTo
<1>6. f[len] = Shifted(raw, 0)
  <2>1. len \in G /\ len - len = 0
    <3>1. len \in 0..len /\ len - len = 0
      BY <1>2
    <3> QED
      BY <1>5, <3>1
  <2> QED
    BY <2>1
<1>7. Shifted(raw, 0) = raw
  BY <1>2 DEF Shifted
<1> QED
  BY <1>1, <1>6, <1>7 DEF len

(***************************************************************************)
(* A frame filled by writes to one field after the other has every number  *)
(* in its field.                                                           *)
(***************************************************************************)

\* Every field lies behind the ones written before it.
InOrder(writes) ==
    /\ Len(writes) \in Nat
    /\ \A i \in 1..Len(writes) : writes[i][1] \in BitField
    /\ \A i, j \in 1..Len(writes) :
          i < j => writes[i][1].offset + writes[i][1].len <= writes[j][1].offset

Made(frame, address, len) ==
    /\ frame \in Frame
    /\ frame.port = address.port /\ frame.id = address.id
    /\ frame.extended = FALSE /\ frame.len = len

HasWritten(frame, writes, i) ==
    /\ Within(writes[i][1], frame.len)
    /\ Fits(writes[i][1], writes[i][2])
    /\ Stored(frame.data, writes[i][1], writes[i][2])

\* A write stores its number and leaves the fields before its own alone.
LEMMA WriteStores ==
  ASSUME NEW field \in BitField, NEW data, NEW raw
  PROVE  Stored(Overwritten(data, field, raw), field, raw)
  BY DEF Stored, Overwritten

\* Writing a field leaves the fields before it alone.
LEMMA WriteKeeps ==
  ASSUME NEW field \in BitField, NEW data, NEW raw,
         NEW other \in BitField, NEW otherRaw, other.offset + other.len <= field.offset,
         Stored(data, other, otherRaw)
  PROVE  Stored(Overwritten(data, field, raw), other, otherRaw)
<1>1. \A bit \in Covered(other) : bit \notin Covered(field)
  BY DEF Covered, BitField
<1> QED
  BY <1>1 DEF Stored, Overwritten

\* The frames after each write.
FilledStepwise(f, address, len, writes) ==
    /\ f \in [0..Len(writes) -> SUBSET Frame]
    /\ Filled(address, len, writes) = f[Len(writes)]
    /\ f[0] = {InitFrame(address, len)}
    /\ \A i \in 1..Len(writes) : f[i] = Write(f[i - 1], writes[i][1], writes[i][2])

\* The frames after each write exist, and the last is the frame filled.
LEMMA FillSteps ==
  ASSUME NEW address \in Address, NEW len \in Nat, NEW writes, InOrder(writes)
  PROVE  \E f : FilledStepwise(f, address, len, writes)
<1> DEFINE n == Len(writes)
           S == SUBSET Frame
           first == {InitFrame(address, len)}
           next == [i \in 1..n |-> [F \in S |-> Write(F, writes[i][1], writes[i][2])]]
           Is(f) == f = [i \in 0..n |-> IF i = 0 THEN first
                                        ELSE Write(f[i - 1], writes[i][1], writes[i][2])]
<1>1. n \in Nat /\ \A i \in 1..n : writes[i][1] \in BitField
  BY DEF InOrder
<1>2. first \in S
  BY DEF InitFrame, Address, Frame
<1>3. ASSUME NEW F \in S, NEW i \in 1..n PROVE Write(F, writes[i][1], writes[i][2]) \in S
  <2> DEFINE field == writes[i][1]
             raw == writes[i][2]
  <2>1. field \in BitField
    BY <1>1
  <2>2. Covered(field) \subseteq Nat
    BY <2>1 DEF Covered, BitField
  <2>3. ASSUME NEW frame \in F
        PROVE  [frame EXCEPT !.data = Overwritten(@, field, raw)] \in Frame
    <3>1. frame \in Frame /\ frame.data \in SUBSET Nat
      BY DEF Frame
    <3>2. Overwritten(frame.data, field, raw) \in SUBSET Nat
      BY <2>2, <3>1 DEF Overwritten
    <3> QED
      BY <3>1, <3>2 DEF Frame
  <2> HIDE DEF field, raw
  <2>4. Write(F, field, raw) \in S
    BY <2>3 DEF Write
  <2> QED
    BY <2>4 DEF field, raw
<1> HIDE DEF n, S, first
<1>4. PICK f \in [0..n -> S] : Iterates(f, n, first, next)
  <2>1. next \in [1..n -> [S -> S]]
    BY <1>3
  <2> HIDE DEF next
  <2> QED
    BY <1>1, <1>2, <2>1, Recursion DEF Recursive
<1>5. Is(f)
  <2>1. ASSUME NEW i \in 1..n PROVE f[i] = Write(f[i - 1], writes[i][1], writes[i][2])
    <3>1. f[i - 1] \in S
      BY <1>1
    <3> QED
      BY <1>4, <3>1 DEF Iterates
  <2> HIDE DEF next
  <2>2. \A i \in 0..n : f[i] = IF i = 0 THEN first ELSE Write(f[i - 1], writes[i][1], writes[i][2])
    <3>1. \A i \in 0..n : i = 0 \/ i \in 1..n
      BY <1>1
    <3> QED
      BY <1>4, <2>1, <3>1 DEF Iterates
  <2> QED
    BY <2>2
<1>6. \A g : Is(g) => g \in [0..n -> S] /\ g[0] = first
                      /\ \A i \in 1..n : g[i] = Write(g[i - 1], writes[i][1], writes[i][2])
  <2> SUFFICES ASSUME NEW g, Is(g)
               PROVE  g \in [0..n -> S] /\ g[0] = first
                      /\ \A i \in 1..n : g[i] = Write(g[i - 1], writes[i][1], writes[i][2])
    OBVIOUS
  <2>1. g[0] = first /\ \A i \in 1..n : g[i] = Write(g[i - 1], writes[i][1], writes[i][2])
    BY <1>1
  <2> DEFINE G == {i \in 0..n : g[i] \in S}
  <2>2. ASSUME NEW i \in 1..n, i - 1 \in G PROVE i \in G
    BY <2>1, <2>2, <1>3
  <2>3. 0 \in G
    BY <2>1, <1>1, <1>2
  <2>4. G = 0..n
    <3>1. G \in SUBSET (0..n)
      OBVIOUS
    <3> HIDE DEF G
    <3> QED
      BY <1>1, <2>2, <2>3, <3>1, UpTo
  <2>5. \A i \in 0..n : g[i] \in S
    BY <2>4
  <2> QED
    BY <2>1, <2>5
<1>7. Filled(address, len, writes) = (CHOOSE g : Is(g))[n]
  BY DEF Filled, n, first
<1>8. Is(CHOOSE g : Is(g))
  BY <1>5
<1> HIDE DEF Is
<1> QED
  BY <1>6, <1>7, <1>8 DEF n, S, first, FilledStepwise

\* What a filled frame is, and what is in it.
LEMMA FilledFields ==
  ASSUME NEW address \in Address, NEW len \in Nat, NEW writes, InOrder(writes),
         NEW frame \in Filled(address, len, writes)
  PROVE  /\ Made(frame, address, len)
         /\ \A i \in 1..Len(writes) : HasWritten(frame, writes, i)
<1> DEFINE n == Len(writes)
<1>a. PICK f : FilledStepwise(f, address, len, writes)
  BY FillSteps
<1>1. /\ f \in [0..n -> SUBSET Frame]
      /\ Filled(address, len, writes) = f[n]
      /\ f[0] = {InitFrame(address, len)}
      /\ \A i \in 1..n : f[i] = Write(f[i - 1], writes[i][1], writes[i][2])
  BY <1>a DEF FilledStepwise
<1>2. n \in Nat
  BY DEF InOrder
<1> DEFINE Good(i) == \A g \in f[i] : Made(g, address, len) /\ \A j \in 1..i : HasWritten(g, writes, j)
           G == {i \in 0..n : Good(i)}
<1>3. 0 \in G
  <2>1. Made(InitFrame(address, len), address, len)
    BY DEF Made, InitFrame, Frame, Address
  <2> QED
    BY <1>1, <1>2, <2>1
<1>4. ASSUME NEW i \in 1..n, i - 1 \in G PROVE i \in G
  <2> DEFINE field == writes[i][1]
             raw == writes[i][2]
  <2>1. field \in BitField /\ i - 1 \in 0..n /\ Good(i - 1)
    BY <1>2, <1>4 DEF InOrder
  <2> SUFFICES ASSUME NEW g \in f[i]
               PROVE  Made(g, address, len) /\ \A j \in 1..i : HasWritten(g, writes, j)
    OBVIOUS
  <2>2. PICK h \in f[i - 1] : /\ Fits(field, raw) /\ Within(field, h.len)
                              /\ g = [h EXCEPT !.data = Overwritten(@, field, raw)]
    <3>1. g \in Write(f[i - 1], field, raw)
      BY <1>1
    <3> HIDE DEF field, raw
    <3> QED
      BY <3>1 DEF Write
  <2>3. h \in Frame /\ g \in Frame
    <3>1. f[i] \in SUBSET Frame /\ f[i - 1] \in SUBSET Frame
      BY <1>1, <1>2, <2>1
    <3> QED
      BY <3>1
  <2>4. /\ g.port = h.port /\ g.id = h.id /\ g.extended = h.extended /\ g.len = h.len
        /\ g.data = Overwritten(h.data, field, raw)
    BY <2>2, <2>3 DEF Frame
  <2>5. Made(h, address, len) /\ \A j \in 1..(i - 1) : HasWritten(h, writes, j)
    BY <2>1
  <2>6. Made(g, address, len)
    BY <2>3, <2>4, <2>5 DEF Made
  <2>7. HasWritten(g, writes, i)
    BY <2>1, <2>2, <2>4, WriteStores DEF HasWritten
  <2>8. ASSUME NEW j \in 1..(i - 1) PROVE HasWritten(g, writes, j)
    <3>1. j \in 1..n /\ j < i
      BY <1>2
    <3>2. /\ writes[j][1] \in BitField
          /\ writes[j][1].offset + writes[j][1].len <= field.offset
      BY <3>1 DEF InOrder
    <3>3. HasWritten(h, writes, j)
      BY <2>5
    <3> HIDE DEF field, raw
    <3> QED
      BY <3>2, <3>3, <2>1, <2>4, WriteKeeps DEF HasWritten
  <2>9. \A j \in 1..i : j = i \/ j \in 1..(i - 1)
    BY <1>2
  <2> QED
    BY <2>6, <2>7, <2>8, <2>9
<1>5. G = 0..n
  <2>1. G \in SUBSET (0..n)
    OBVIOUS
  <2> HIDE DEF G
  <2> QED
    BY <1>2, <1>3, <1>4, <2>1, UpTo
<1>6. Good(n)
  <2>1. n \in G
    BY <1>2, <1>5
  <2> HIDE DEF Good
  <2> QED
    BY <2>1
<1> QED
  BY <1>1, <1>6

\* Every number written is read back.
LEMMA FilledReads ==
  ASSUME NEW address \in Address, NEW len \in Nat, NEW writes, InOrder(writes),
         NEW frame \in Filled(address, len, writes)
  PROVE  \A i \in 1..Len(writes) :
            IsRaw(writes[i][2]) => Read(frame, writes[i][1]) = {writes[i][2]}
<1> SUFFICES ASSUME NEW i \in 1..Len(writes), IsRaw(writes[i][2])
             PROVE  Read(frame, writes[i][1]) = {writes[i][2]}
  OBVIOUS
<1>1. HasWritten(frame, writes, i)
  BY FilledFields
<1>2. writes[i][1] \in BitField
  BY DEF InOrder
<1> QED
  BY <1>1, <1>2, StoredIsRead DEF HasWritten, Read, Carries

(***************************************************************************)
(* The frames of the commands: each field carries its number.              *)
(***************************************************************************)

\* What the range checks accept.
LEMMA RoundedIsInt ==
  ASSUME NEW n \in Int, NEW d \in Nat \ {0}
  PROVE  Rounded(n, d) \in Int
  BY DEF Rounded

\* The number the range check passes is the rounded one and lies in the range.
InRange(raw, min, max) == raw \in Int /\ min <= raw /\ raw <= max

\* What PvtGain accepts.
LEMMA GainAccepted ==
  ASSUME NEW value \in Number, NEW range \in Nat \ {0}, NEW max \in Nat,
         NEW raw \in PvtGain(value, range, max)
  PROVE  value \in Int /\ raw = Rounded(value * max, range) /\ InRange(raw, 0, max)
<1>1. value \in Int
  BY DEF PvtGain, Number
<1>2. value * max \in Int
  BY <1>1
<1> QED
  BY <1>1, <1>2, RoundedIsInt, NaNIsNoNumber DEF PvtGain, Accepted, InRange

\* What Symmetric accepts.
LEMMA SymmetricAccepted ==
  ASSUME NEW value \in Number, NEW range \in Nat \ {0}, NEW center \in Nat, NEW max \in Nat,
         NEW raw \in Symmetric(value, range, center, max)
  PROVE  value \in Int /\ raw = Rounded((value + range) * center, range) /\ InRange(raw, 0, max)
<1>1. value \in Int
  BY DEF Symmetric, Number
<1>2. (value + range) * center \in Int
  BY <1>1
<1> QED
  BY <1>1, <1>2, RoundedIsInt, NaNIsNoNumber DEF Symmetric, Accepted, InRange

\* What Scaled accepts.
LEMMA ScaledAccepted ==
  ASSUME NEW value \in Number, NEW scale \in Nat, NEW min \in Int, NEW max \in Int,
         NEW raw \in Scaled(value, scale, min, max)
  PROVE  value \in Int /\ raw = Rounded(value * scale, 1000) /\ InRange(raw, min, max)
<1>1. value \in Int
  BY DEF Scaled, Number
<1>2. value * scale \in Int
  BY <1>1
<1> QED
  BY <1>1, <1>2, RoundedIsInt, NaNIsNoNumber DEF Scaled, Accepted, InRange

\* 31 bits are enough for every number in a field.
LEMMA SmallIsRaw ==
  ASSUME NEW raw \in Nat, raw < 65536
  PROVE  IsRaw(raw)
  BY DEF IsRaw

\* Rounding loses half a step: what is read back of a kp, position, velocity.
LEMMA KpRounds ==
  ASSUME NEW value \in Int, NEW raw \in Nat, raw = Rounded(value * 4095, 500000)
  PROVE  Near(DecodeLinear(raw, 0, 500000, 4095), value, 61)
  BY SMTT(60) DEF Rounded, DecodeLinear, Near

\* A PVT position read back.
LEMMA PositionRounds ==
  ASSUME NEW value \in Int, NEW raw \in Nat, raw <= 65535,
         raw = Rounded((value + 12500) * 32767, 12500)
  PROVE  Near(DecodeSymmetric(raw, 12500, 65535), value, 1)
  BY SMTT(60) DEF Rounded, DecodeSymmetric, Near

\* A PVT kd read back, where the model's full scale is the codec's.
LEMMA KdRounds ==
  ASSUME NEW value \in Int, NEW raw \in Nat, raw = Rounded(value * 511, 5000)
  PROVE  Near(DecodeLinear(raw, 0, 5000, 511), value, 5)
  BY SMTT(60) DEF Rounded, DecodeLinear, Near

\* A PVT torque read back, where the model's full scale is the codec's.
LEMMA TorqueRounds ==
  ASSUME NEW value \in Int, NEW raw \in Nat, raw <= 4095,
         raw = Rounded((value + 30000) * 2047, 30000)
  PROVE  Near(DecodeSymmetric(raw, 30000, 4095), value, 22)
  BY SMTT(60) DEF Rounded, DecodeSymmetric, Near

\* A PVT velocity read back: the middle of its field is a step and a half off.
LEMMA VelocityRounds ==
  ASSUME NEW value \in Int, NEW raw \in Nat, raw <= 4095,
         raw = Rounded((value + 18000) * 2047, 18000)
  PROVE  Near(DecodeSymmetric(raw, 18000, 4095), value, 13)
  BY SMTT(60) DEF Rounded, DecodeSymmetric, Near

\* A limit sent in tenths read back.
LEMMA TenthsRound ==
  ASSUME NEW value \in Int, NEW raw \in Int, raw = Rounded(value * 10, 1000)
  PROVE  Near(raw * 100, value, 50)
  BY SMTT(60) DEF Rounded, Near

\* A value sent in hundredths read back.
LEMMA HundredthsRound ==
  ASSUME NEW value \in Int, NEW raw \in Int, raw = Rounded(value * 100, 1000)
  PROVE  Near(raw * 10, value, 5)
  BY SMTT(60) DEF Rounded, Near

\* A float and a signed word survive their encoding.
LEMMA FloatComesBack ==
  ASSUME NEW value, RawFloat(value)
  PROVE  IsRaw(F32Bits(value)) /\ BitsF32(F32Bits(value)) = value
  BY NaNIsNoNumber DEF RawFloat, IsRaw, F32Bits, BitsF32

\* A signed word survives its encoding.
LEMMA WordComesBack ==
  ASSUME NEW value, InRange(value, -32768, 32767)
  PROVE  IsRaw(Unsigned(value)) /\ Signed(Unsigned(value)) = value
  BY DEF InRange, IsRaw, Signed, Unsigned

\* Every number written is the one a motor reads in its field.
CarriesAll(frame, address, len, writes) ==
    /\ Made(frame, address, len)
    /\ \A i \in 1..Len(writes) :
          IsRaw(writes[i][2]) => Field(frame, writes[i][1]) = writes[i][2]

\* A frame filled in order carries every number that fits.
LEMMA FilledCarries ==
  ASSUME NEW address \in Address, NEW len \in Nat, NEW writes, InOrder(writes),
         NEW frame \in Filled(address, len, writes)
  PROVE  CarriesAll(frame, address, len, writes)
<1>1. Made(frame, address, len)
  BY FilledFields
<1>2. \A i \in 1..Len(writes) : IsRaw(writes[i][2]) => Read(frame, writes[i][1]) = {writes[i][2]}
  BY FilledReads
<1> QED
  BY <1>1, <1>2 DEF CarriesAll, Field, The

\* A field within a frame is a number, whatever the frame holds.
LEMMA FieldIsNat ==
  ASSUME NEW frame, NEW field \in BitField, Within(field, frame.len)
  PROVE  /\ Read(frame, field) = {NumberOf(frame.data, field)}
         /\ NumberOf(frame.data, field) \in Nat
         /\ Field(frame, field) = NumberOf(frame.data, field)
<1>1. field.len \in 0..field.len
  BY DEF BitField
<1>2. NumberOf(frame.data, field) \in Nat
  BY <1>1, NumberSteps
<1> QED
  BY <1>2 DEF Read, Field, The

\* The PVT command.
PvtWrites(kp, kd, position, velocity, torque) ==
    <<<<Mode, CommandCode.pvt>>, <<PvtKp, kp>>, <<PvtKd, kd>>, <<PvtPosition, position>>,
      <<PvtVelocity, velocity>>, <<PvtTorque, torque>>>>

\* The fields of a PVT command lie one behind the other.
LEMMA PvtInOrder ==
  ASSUME NEW kp, NEW kd, NEW position, NEW velocity, NEW torque
  PROVE  InOrder(PvtWrites(kp, kd, position, velocity, torque))
  BY DEF InOrder, PvtWrites, BitField, Mode, PvtKp, PvtKd, PvtPosition, PvtVelocity, PvtTorque, Bits

\* A PVT frame carries its numbers.
LEMMA PvtCarried ==
  ASSUME NEW address \in Address, NEW kp, NEW kd, NEW position, NEW velocity, NEW torque,
         NEW frame \in Filled(address, 8, PvtWrites(kp, kd, position, velocity, torque)),
         IsRaw(kp), IsRaw(kd), IsRaw(position), IsRaw(velocity), IsRaw(torque)
  PROVE  /\ Made(frame, address, 8)
         /\ Field(frame, Mode) = 0
         /\ Field(frame, PvtKp) = kp /\ Field(frame, PvtKd) = kd
         /\ Field(frame, PvtPosition) = position
         /\ Field(frame, PvtVelocity) = velocity
         /\ Field(frame, PvtTorque) = torque
<1> DEFINE writes == PvtWrites(kp, kd, position, velocity, torque)
<1>1. /\ Len(writes) = 6
      /\ writes[1] = <<Mode, 0>> /\ writes[2] = <<PvtKp, kp>> /\ writes[3] = <<PvtKd, kd>>
      /\ writes[4] = <<PvtPosition, position>> /\ writes[5] = <<PvtVelocity, velocity>>
      /\ writes[6] = <<PvtTorque, torque>>
  BY DEF PvtWrites, CommandCode
<1>2. InOrder(writes) /\ frame \in Filled(address, 8, writes)
  BY PvtInOrder
<1>3. \A zero : zero = 0 => IsRaw(zero)
  BY SmallIsRaw
<1> HIDE DEF writes
<1>4. CarriesAll(frame, address, 8, writes)
  BY <1>2, FilledCarries
<1> QED
  BY <1>1, <1>3, <1>4 DEF CarriesAll

\* A PVT frame is filled with numbers its range checks accepted.
LEMMA PvtMade ==
  ASSUME NEW address, NEW c, NEW frame \in MakePvt(address, c)
  PROVE  \E kp \in PvtGain(c.kp, KpRange, 4095), kd \in PvtGain(c.kd, KdRange, 511),
            position \in Symmetric(c.position, PositionRange, 32767, 65535),
            velocity \in Symmetric(c.velocity, VelocityRange, 2047, 4095),
            torque \in Symmetric(c.torque, TorqueRange, 2047, 4095) :
            frame \in Filled(address, 8, PvtWrites(kp, kd, position, velocity, torque))
<1>1. MakePvt(address, c) =
        UNION {Filled(address, 8, PvtWrites(kp, kd, position, velocity, torque)) :
                  kp \in PvtGain(c.kp, KpRange, 4095), kd \in PvtGain(c.kd, KdRange, 511),
                  position \in Symmetric(c.position, PositionRange, 32767, 65535),
                  velocity \in Symmetric(c.velocity, VelocityRange, 2047, 4095),
                  torque \in Symmetric(c.torque, TorqueRange, 2047, 4095)}
  BY DEF MakePvt, PvtWrites
<1> QED
  BY <1>1

\* A motor reads a PVT command within the steps of its fields.
LEMMA PvtFollowed ==
  ASSUME NEW address \in Address, NEW device,
         NEW c \in [type : {"pvt"}, kp : Number, kd : Number, position : Number,
                    velocity : Number, torque : Number],
         NEW frame \in MakePvt(address, c)
  PROVE  /\ Made(frame, address, 8)
         /\ Field(frame, Mode) = 0
         /\ Follows(device, ReadPvt(device, frame), c)
<1>1. /\ c.kp \in Number /\ c.kd \in Number /\ c.torque \in Number
      /\ c.position \in Number /\ c.velocity \in Number /\ c.type = "pvt"
  OBVIOUS
<1>2. PICK kp \in PvtGain(c.kp, KpRange, 4095), kd \in PvtGain(c.kd, KdRange, 511),
           position \in Symmetric(c.position, PositionRange, 32767, 65535),
           velocity \in Symmetric(c.velocity, VelocityRange, 2047, 4095),
           torque \in Symmetric(c.torque, TorqueRange, 2047, 4095) :
           frame \in Filled(address, 8, PvtWrites(kp, kd, position, velocity, torque))
  BY PvtMade
<1>3. c.kp \in Int /\ kp = Rounded(c.kp * 4095, 500000) /\ InRange(kp, 0, 4095)
  BY <1>1, GainAccepted DEF KpRange
<1>4. /\ c.position \in Int /\ position = Rounded((c.position + 12500) * 32767, 12500)
      /\ InRange(position, 0, 65535)
  BY <1>1, SymmetricAccepted DEF PositionRange
<1>5. /\ c.velocity \in Int /\ velocity = Rounded((c.velocity + 18000) * 2047, 18000)
      /\ InRange(velocity, 0, 4095)
  BY <1>1, SymmetricAccepted DEF VelocityRange
<1>6. c.kd \in Int /\ kd = Rounded(c.kd * 511, 5000) /\ InRange(kd, 0, 511)
  BY <1>1, GainAccepted DEF KdRange
<1>7. /\ c.torque \in Int /\ torque = Rounded((c.torque + 30000) * 2047, 30000)
       /\ InRange(torque, 0, 4095)
  BY <1>1, SymmetricAccepted DEF TorqueRange
<1>8. /\ kp \in Nat /\ kd \in Nat /\ position \in Nat /\ velocity \in Nat /\ torque \in Nat
      /\ kp <= 4095 /\ kd <= 511 /\ position <= 65535 /\ velocity <= 4095 /\ torque <= 4095
  BY <1>3, <1>4, <1>5, <1>6, <1>7 DEF InRange
<1>9. IsRaw(kp) /\ IsRaw(kd) /\ IsRaw(position) /\ IsRaw(velocity) /\ IsRaw(torque)
  BY <1>8, SmallIsRaw
<1>10. /\ Made(frame, address, 8) /\ Field(frame, Mode) = 0 /\ Field(frame, PvtKp) = kp
      /\ Field(frame, PvtKd) = kd /\ Field(frame, PvtPosition) = position
      /\ Field(frame, PvtVelocity) = velocity /\ Field(frame, PvtTorque) = torque
  BY <1>2, <1>9, PvtCarried
<1> DEFINE target == ReadPvt(device, frame)
<1>11. /\ target.type = "pvt" /\ target.kp = DecodeLinear(kp, 0, 500000, 4095)
      /\ target.position = DecodeSymmetric(position, 12500, 65535)
      /\ target.velocity = DecodeSymmetric(velocity, 18000, 4095)
      /\ target.kd = DecodeLinear(kd, 0, SpecOf(device).kd, 511)
      /\ target.torque = DecodeSymmetric(torque, SpecOf(device).torque, 4095)
  BY <1>10 DEF ReadPvt, KpRange, PositionRange, VelocityRange
<1> HIDE DEF target
<1>12. Near(target.kp, c.kp, 61)
  BY <1>3, <1>8, <1>11, KpRounds
<1>13. Near(target.position, c.position, 1)
  BY <1>4, <1>8, <1>11, PositionRounds
<1>14. Near(target.velocity, c.velocity, 13)
  BY <1>5, <1>8, <1>11, VelocityRounds
<1>15. SpecOf(device).kd = 5000 => Near(target.kd, c.kd, 5)
  BY <1>6, <1>8, <1>11, KdRounds
<1>16. SpecOf(device).torque = 30000 => Near(target.torque, c.torque, 22)
  BY <1>7, <1>8, <1>11, TorqueRounds
<1>17. Follows(device, target, c)
  BY <1>1, <1>11, <1>12, <1>13, <1>14, <1>15, <1>16 DEF Follows
<1> QED
  BY <1>10, <1>17 DEF target

\* The position command.
PositionWrites(target, velocity, current, reply) ==
    <<<<Mode, CommandCode.position>>, <<PositionDeg, target>>, <<PositionVelocityX10, velocity>>,
      <<PositionCurrentX10, current>>, <<PositionReply, reply>>>>

\* The fields of a position command lie one behind the other.
LEMMA PositionInOrder ==
  ASSUME NEW target, NEW velocity, NEW current, NEW reply
  PROVE  InOrder(PositionWrites(target, velocity, current, reply))
  BY DEF InOrder, PositionWrites, BitField, Mode, PositionDeg, PositionVelocityX10,
         PositionCurrentX10, PositionReply, Bits

\* A position frame carries its numbers.
LEMMA PositionCarried ==
  ASSUME NEW address \in Address, NEW target, NEW velocity, NEW current, NEW reply,
         NEW frame \in Filled(address, 8, PositionWrites(target, velocity, current, reply)),
         IsRaw(target), IsRaw(velocity), IsRaw(current)
  PROVE  /\ Made(frame, address, 8)
         /\ Field(frame, Mode) = 1
         /\ Field(frame, PositionDeg) = target
         /\ Field(frame, PositionVelocityX10) = velocity
         /\ Field(frame, PositionCurrentX10) = current
<1> DEFINE writes == PositionWrites(target, velocity, current, reply)
<1>1. /\ Len(writes) = 5
      /\ writes[1] = <<Mode, 1>> /\ writes[2] = <<PositionDeg, target>>
      /\ writes[3] = <<PositionVelocityX10, velocity>>
      /\ writes[4] = <<PositionCurrentX10, current>>
  BY DEF PositionWrites, CommandCode
<1>2. InOrder(writes) /\ frame \in Filled(address, 8, writes)
  BY PositionInOrder
<1>3. \A one : one = 1 => IsRaw(one)
  BY SmallIsRaw
<1> HIDE DEF writes
<1>4. CarriesAll(frame, address, 8, writes)
  BY <1>2, FilledCarries
<1> QED
  BY <1>1, <1>3, <1>4 DEF CarriesAll

\* A position frame is filled with numbers its range checks accepted.
LEMMA PositionMade ==
  ASSUME NEW address, NEW c, NEW frame \in MakePosition(address, c)
  PROVE  \E velocity \in Scaled(c.velocity_limit, 10, 0, 32767),
            current \in Scaled(c.current_limit, 10, 0, 4095) :
            frame \in Filled(address, 8,
                PositionWrites(F32Bits(c.position), velocity, current, ReplyMode[c.reply]))
<1>1. MakePosition(address, c) =
        UNION {Filled(address, 8,
                   PositionWrites(F32Bits(c.position), velocity, current, ReplyMode[c.reply])) :
                  velocity \in Scaled(c.velocity_limit, 10, 0, 32767),
                  current \in Scaled(c.current_limit, 10, 0, 4095)}
  BY DEF MakePosition, PositionWrites
<1> QED
  BY <1>1

\* A motor reads a position command within the steps of its fields.
LEMMA PositionFollowed ==
  ASSUME NEW address \in Address,
         NEW c \in [type : {"position"}, position : Number, velocity_limit : Number,
                    current_limit : Number, reply : Replies],
         RawFloat(c.position), NEW frame \in MakePosition(address, c)
  PROVE  /\ Made(frame, address, 8)
         /\ Field(frame, Mode) = 1
         /\ \A device : Follows(device, ReadPosition(frame), c)
<1>1. c.velocity_limit \in Number /\ c.current_limit \in Number /\ c.type = "position"
  OBVIOUS
<1>2. PICK velocity \in Scaled(c.velocity_limit, 10, 0, 32767),
           current \in Scaled(c.current_limit, 10, 0, 4095) :
           frame \in Filled(address, 8,
               PositionWrites(F32Bits(c.position), velocity, current, ReplyMode[c.reply]))
  BY PositionMade
<1>3. /\ c.velocity_limit \in Int /\ velocity = Rounded(c.velocity_limit * 10, 1000)
      /\ InRange(velocity, 0, 32767)
  BY <1>1, ScaledAccepted
<1>4. /\ c.current_limit \in Int /\ current = Rounded(c.current_limit * 10, 1000)
      /\ InRange(current, 0, 4095)
  BY <1>1, ScaledAccepted
<1>5. velocity \in Nat /\ current \in Nat /\ velocity < 65536 /\ current < 65536
  BY <1>3, <1>4 DEF InRange
<1>6. IsRaw(velocity) /\ IsRaw(current)
  BY <1>5, SmallIsRaw
<1>7. IsRaw(F32Bits(c.position)) /\ BitsF32(F32Bits(c.position)) = c.position
  BY FloatComesBack
<1>8. /\ Made(frame, address, 8) /\ Field(frame, Mode) = 1
      /\ Field(frame, PositionDeg) = F32Bits(c.position)
      /\ Field(frame, PositionVelocityX10) = velocity
      /\ Field(frame, PositionCurrentX10) = current
  BY <1>2, <1>6, <1>7, PositionCarried
<1> DEFINE target == ReadPosition(frame)
<1>9. /\ target.type = "position" /\ target.position = c.position
      /\ target.velocity_limit = velocity * 100 /\ target.current_limit = current * 100
  BY <1>7, <1>8 DEF ReadPosition
<1> HIDE DEF target
<1>10. Near(target.velocity_limit, c.velocity_limit, 50)
  BY <1>3, <1>5, <1>9, TenthsRound
<1>11. Near(target.current_limit, c.current_limit, 50)
  BY <1>4, <1>5, <1>9, TenthsRound
<1>12. \A device : Follows(device, target, c)
  BY <1>1, <1>9, <1>10, <1>11 DEF Follows
<1> QED
  BY <1>8, <1>12 DEF target

\* The velocity command.
VelocityWrites(reply, target, current) ==
    <<<<Mode, CommandCode.velocity>>, <<State, 0>>, <<Reply, reply>>, <<VelocityRpm, target>>,
      <<VelocityCurrentX10, current>>>>

\* The fields of a velocity command lie one behind the other.
LEMMA VelocityInOrder ==
  ASSUME NEW reply, NEW target, NEW current
  PROVE  InOrder(VelocityWrites(reply, target, current))
  BY DEF InOrder, VelocityWrites, BitField, Mode, State, Reply, VelocityRpm, VelocityCurrentX10, Bits

\* A velocity frame carries its numbers.
LEMMA VelocityCarried ==
  ASSUME NEW address \in Address, NEW reply, NEW target, NEW current,
         NEW frame \in Filled(address, 7, VelocityWrites(reply, target, current)),
         IsRaw(target), IsRaw(current)
  PROVE  /\ Made(frame, address, 7)
         /\ Field(frame, Mode) = 2
         /\ Field(frame, VelocityRpm) = target
         /\ Field(frame, VelocityCurrentX10) = current
<1> DEFINE writes == VelocityWrites(reply, target, current)
<1>1. /\ Len(writes) = 5
      /\ writes[1] = <<Mode, 2>> /\ writes[4] = <<VelocityRpm, target>>
      /\ writes[5] = <<VelocityCurrentX10, current>>
  BY DEF VelocityWrites, CommandCode
<1>2. InOrder(writes) /\ frame \in Filled(address, 7, writes)
  BY VelocityInOrder
<1>3. \A two : two = 2 => IsRaw(two)
  BY SmallIsRaw
<1> HIDE DEF writes
<1>4. CarriesAll(frame, address, 7, writes)
  BY <1>2, FilledCarries
<1> QED
  BY <1>1, <1>3, <1>4 DEF CarriesAll

\* A velocity frame is filled with numbers its range check accepted.
LEMMA VelocityMade ==
  ASSUME NEW address, NEW c, NEW frame \in MakeVelocity(address, c)
  PROVE  \E current \in Scaled(c.current_limit, 10, 0, 65535) :
            frame \in Filled(address, 7,
                VelocityWrites(ReplyMode[c.reply], F32Bits(c.velocity), current))
<1>1. MakeVelocity(address, c) =
        UNION {Filled(address, 7, VelocityWrites(ReplyMode[c.reply], F32Bits(c.velocity), current)) :
                  current \in Scaled(c.current_limit, 10, 0, 65535)}
  BY DEF MakeVelocity, VelocityWrites, ScaledU16
<1> QED
  BY <1>1

\* A motor reads a velocity command within the steps of its fields.
LEMMA VelocityFollowed ==
  ASSUME NEW address \in Address,
         NEW c \in [type : {"velocity"}, velocity : Number, current_limit : Number, reply : Replies],
         RawFloat(c.velocity), NEW frame \in MakeVelocity(address, c)
  PROVE  /\ Made(frame, address, 7)
         /\ Field(frame, Mode) = 2
         /\ \A device : Follows(device, ReadVelocity(frame), c)
<1>1. c.current_limit \in Number /\ c.type = "velocity"
  OBVIOUS
<1>2. PICK current \in Scaled(c.current_limit, 10, 0, 65535) :
           frame \in Filled(address, 7,
               VelocityWrites(ReplyMode[c.reply], F32Bits(c.velocity), current))
  BY VelocityMade
<1>3. /\ c.current_limit \in Int /\ current = Rounded(c.current_limit * 10, 1000)
      /\ InRange(current, 0, 65535)
  BY <1>1, ScaledAccepted
<1>4. current \in Nat /\ current < 65536
  BY <1>3 DEF InRange
<1>5. IsRaw(current)
  BY <1>4, SmallIsRaw
<1>6. IsRaw(F32Bits(c.velocity)) /\ BitsF32(F32Bits(c.velocity)) = c.velocity
  BY FloatComesBack
<1>7. /\ Made(frame, address, 7) /\ Field(frame, Mode) = 2
      /\ Field(frame, VelocityRpm) = F32Bits(c.velocity)
      /\ Field(frame, VelocityCurrentX10) = current
  BY <1>2, <1>5, <1>6, VelocityCarried
<1> DEFINE target == ReadVelocity(frame)
<1>8. /\ target.type = "velocity" /\ target.velocity = c.velocity
      /\ target.current_limit = current * 100
  BY <1>6, <1>7 DEF ReadVelocity
<1> HIDE DEF target
<1>9. Near(target.current_limit, c.current_limit, 50)
  BY <1>3, <1>4, <1>8, TenthsRound
<1>10. \A device : Follows(device, target, c)
  BY <1>1, <1>8, <1>9 DEF Follows
<1> QED
  BY <1>7, <1>10 DEF target

\* The torque, current and braking commands.
TorqueWrites(state, reply, value) ==
    <<<<Mode, CommandCode.torque>>, <<State, state>>, <<Reply, reply>>, <<Value, value>>>>

\* The fields of a torque control frame lie one behind the other.
LEMMA TorqueInOrder ==
  ASSUME NEW state, NEW reply, NEW value
  PROVE  InOrder(TorqueWrites(state, reply, value))
  BY DEF InOrder, TorqueWrites, BitField, Mode, State, Reply, Value, Bits

\* A torque control frame carries its numbers.
LEMMA TorqueCarried ==
  ASSUME NEW address \in Address, NEW state, NEW reply, NEW value,
         NEW frame \in Filled(address, 3, TorqueWrites(state, reply, value)),
         IsRaw(state), IsRaw(value)
  PROVE  /\ Made(frame, address, 3)
         /\ Field(frame, Mode) = 3
         /\ Field(frame, State) = state
         /\ Field(frame, Value) = value
<1> DEFINE writes == TorqueWrites(state, reply, value)
<1>1. /\ Len(writes) = 4
      /\ writes[1] = <<Mode, 3>> /\ writes[2] = <<State, state>> /\ writes[4] = <<Value, value>>
  BY DEF TorqueWrites, CommandCode
<1>2. InOrder(writes) /\ frame \in Filled(address, 3, writes)
  BY TorqueInOrder
<1>3. \A three : three = 3 => IsRaw(three)
  BY SmallIsRaw
<1> HIDE DEF writes
<1>4. CarriesAll(frame, address, 3, writes)
  BY <1>2, FilledCarries
<1> QED
  BY <1>1, <1>3, <1>4 DEF CarriesAll

\* A torque control frame is filled with a number its range check accepted.
LEMMA TorqueMade ==
  ASSUME NEW address, NEW mode, NEW value, NEW reply,
         NEW frame \in MakeTorqueControl(address, mode, value, reply)
  PROVE  \E raw \in Scaled(value, 100, -32768, 32767) :
            frame \in Filled(address, 3,
                TorqueWrites(TorqueMode[mode], ReplyMode[reply], Unsigned(raw)))
<1>1. MakeTorqueControl(address, mode, value, reply) =
        UNION {Filled(address, 3, TorqueWrites(TorqueMode[mode], ReplyMode[reply], Unsigned(raw))) :
                  raw \in Scaled(value, 100, -32768, 32767)}
  BY DEF MakeTorqueControl, TorqueWrites, ScaledI16
<1> QED
  BY <1>1

\* What a motor reads from a torque control frame.
LEMMA TorqueRead ==
  ASSUME NEW address \in Address, NEW mode \in {"current", "torque", "damping_brake", "regenerative_brake"},
         NEW value \in Number, NEW reply,
         NEW frame \in MakeTorqueControl(address, mode, value, reply)
  PROVE  /\ Made(frame, address, 3)
         /\ Field(frame, Mode) = 3
         /\ ReadTorque(frame).type = "torque_control"
         /\ ReadTorque(frame).state = TorqueMode[mode]
         /\ Near(ReadTorque(frame).value, value, 5)
<1>1. PICK raw \in Scaled(value, 100, -32768, 32767) :
           frame \in Filled(address, 3,
               TorqueWrites(TorqueMode[mode], ReplyMode[reply], Unsigned(raw)))
  BY TorqueMade
<1>2. /\ value \in Int /\ raw = Rounded(value * 100, 1000)
      /\ InRange(raw, -32768, 32767) /\ raw \in Int
  BY ScaledAccepted DEF InRange
<1>3. TorqueMode[mode] \in Nat /\ TorqueMode[mode] < 65536
  BY DEF TorqueMode
<1>4. IsRaw(TorqueMode[mode])
  BY <1>3, SmallIsRaw
<1>5. IsRaw(Unsigned(raw)) /\ Signed(Unsigned(raw)) = raw
  BY <1>2, WordComesBack
<1>6. /\ Made(frame, address, 3) /\ Field(frame, Mode) = 3 /\ Field(frame, State) = TorqueMode[mode]
      /\ Field(frame, Value) = Unsigned(raw)
  BY <1>1, <1>4, <1>5, TorqueCarried
<1> DEFINE target == ReadTorque(frame)
<1>7. /\ target.type = "torque_control" /\ target.state = TorqueMode[mode]
      /\ target.value = raw * 10
  BY <1>5, <1>6 DEF ReadTorque
<1> HIDE DEF target
<1>8. Near(target.value, value, 5)
  BY <1>2, <1>7, HundredthsRound
<1> QED
  BY <1>6, <1>7, <1>8 DEF target

\* A motor reads a torque command within a step.
LEMMA TorqueFollowed ==
  ASSUME NEW address \in Address,
         NEW c \in [type : {"torque"}, torque : Number, reply : Replies],
         NEW frame \in MakeTorque(address, c)
  PROVE  /\ Made(frame, address, 3)
         /\ Field(frame, Mode) = 3
         /\ \A device : Follows(device, ReadTorque(frame), c)
<1>1. c.torque \in Number /\ c.type = "torque"
  OBVIOUS
<1>2. frame \in MakeTorqueControl(address, "torque", c.torque, c.reply)
  BY DEF MakeTorque
<1>3. TorqueMode["torque"] = 1
  BY DEF TorqueMode
<1>4. /\ Made(frame, address, 3) /\ Field(frame, Mode) = 3
      /\ ReadTorque(frame).type = "torque_control" /\ ReadTorque(frame).state = 1
      /\ Near(ReadTorque(frame).value, c.torque, 5)
  BY <1>1, <1>2, <1>3, TorqueRead
<1> QED
  BY <1>1, <1>4 DEF Follows

\* A motor reads a current command within a step.
LEMMA CurrentFollowed ==
  ASSUME NEW address \in Address,
         NEW c \in [type : {"current"}, current : Number, reply : Replies],
         NEW frame \in MakeCurrent(address, c)
  PROVE  /\ Made(frame, address, 3)
         /\ Field(frame, Mode) = 3
         /\ \A device : Follows(device, ReadTorque(frame), c)
<1>1. c.current \in Number /\ c.type = "current"
  OBVIOUS
<1>2. frame \in MakeTorqueControl(address, "current", c.current, c.reply)
  BY DEF MakeCurrent
<1>3. TorqueMode["current"] = 0
  BY DEF TorqueMode
<1>4. /\ Made(frame, address, 3) /\ Field(frame, Mode) = 3
      /\ ReadTorque(frame).type = "torque_control" /\ ReadTorque(frame).state = 0
      /\ Near(ReadTorque(frame).value, c.current, 5)
  BY <1>1, <1>2, <1>3, TorqueRead
<1> QED
  BY <1>1, <1>4 DEF Follows

BrakeCommand == [type : {"brake"}, control : {"damping", "energy", "regen", "engage"},
                 current_threshold : Number, open : BOOLEAN, reply : Replies]

\* A motor reads the damping and regenerative brakes as what they are.
LEMMA BrakingFollowed ==
  ASSUME NEW address \in Address, NEW c \in BrakeCommand, c.control # "engage",
         NEW frame \in MakeBrake(address, c)
  PROVE  /\ Made(frame, address, 3)
         /\ Field(frame, Mode) = 3
         /\ \A device : Follows(device, ReadTorque(frame), c)
<1>1. /\ c.current_threshold \in Number /\ c.type = "brake"
      /\ c.control = "damping" \/ c.control \in {"energy", "regen"}
  BY DEF BrakeCommand
<1>2. /\ TorqueMode["damping_brake"] = 2
      /\ TorqueMode["regenerative_brake"] = 4
      /\ 0 \in Number
  BY DEF TorqueMode, Number
<1>3. CASE c.control = "damping"
  <2>1. frame \in MakeTorqueControl(address, "damping_brake", 0, c.reply)
    BY <1>3 DEF MakeBrake
  <2>2. /\ Made(frame, address, 3) /\ Field(frame, Mode) = 3
        /\ ReadTorque(frame).type = "torque_control" /\ ReadTorque(frame).state = 2
    BY <1>2, <2>1, TorqueRead
  <2> QED
    BY <1>1, <1>3, <2>2 DEF Follows
<1>4. CASE c.control \in {"energy", "regen"}
  <2>1. frame \in MakeTorqueControl(address, "regenerative_brake", c.current_threshold, c.reply)
    BY <1>4 DEF MakeBrake
  <2>2. /\ Made(frame, address, 3) /\ Field(frame, Mode) = 3
        /\ ReadTorque(frame).type = "torque_control" /\ ReadTorque(frame).state = 4
        /\ Near(ReadTorque(frame).value, c.current_threshold, 5)
    BY <1>1, <1>2, <2>1, TorqueRead
  <2> QED
    BY <1>1, <1>4, <2>2 DEF Follows
<1> QED
  BY <1>1, <1>3, <1>4

\* The brake itself.
EngageWrites(open) ==
    <<<<Mode, CommandCode.brake>>, <<Bits(3, 5), 0>>, <<BrakeEngaged, open>>>>

\* The fields of a brake frame lie one behind the other.
LEMMA EngageInOrder ==
  ASSUME NEW open
  PROVE  InOrder(EngageWrites(open))
  BY DEF InOrder, EngageWrites, BitField, Mode, BrakeEngaged, Bits

\* A brake frame opens the brake only for a command to open it.
LEMMA EngageCarried ==
  ASSUME NEW address \in Address, NEW c \in BrakeCommand, c.control = "engage",
         NEW frame \in MakeBrake(address, c)
  PROVE  /\ Made(frame, address, 2)
         /\ Field(frame, Mode) = 4
         /\ Field(frame, BrakeEngaged) = 1 => c.open
<1> DEFINE open == IF c.open THEN 1 ELSE 0
           writes == EngageWrites(open)
<1>1. frame \in Filled(address, 2, writes)
  BY DEF MakeBrake, EngageWrites
<1>2. Len(writes) = 3 /\ writes[1] = <<Mode, 4>> /\ writes[3] = <<BrakeEngaged, open>>
  BY DEF EngageWrites, CommandCode
<1>3. InOrder(writes)
  BY EngageInOrder
<1>4. \A raw : raw \in {0, 1, 4} => IsRaw(raw)
  BY SmallIsRaw
<1>5. (open = 1 => c.open) /\ (open \in {0, 1, 4})
  OBVIOUS
<1> HIDE DEF writes, open
<1>6. CarriesAll(frame, address, 2, writes)
  BY <1>1, <1>2, <1>3, FilledCarries
<1> QED
  BY <1>2, <1>4, <1>5, <1>6 DEF CarriesAll

\* A configuration command: its code, and one byte, one word or two.
ByteWrites(code, byte) ==
    <<<<Mode, CommandCode.config>>, <<Key, SetCode[code]>>, <<Bits(16, 8), byte>>>>
WordWrites(code, word) ==
    <<<<Mode, CommandCode.config>>, <<Key, SetCode[code]>>, <<ConfigMin, word>>>>
TwoWordWrites(code, low, high) ==
    <<<<Mode, CommandCode.config>>, <<Key, SetCode[code]>>, <<ConfigMin, low>>, <<ConfigMax, high>>>>

\* The fields of a configuration frame lie one behind the other.
LEMMA ConfigInOrder ==
  ASSUME NEW code, NEW low, NEW high
  PROVE  /\ InOrder(ByteWrites(code, low)) /\ InOrder(WordWrites(code, low))
         /\ InOrder(TwoWordWrites(code, low, high))
<1>1. InOrder(ByteWrites(code, low))
  BY DEF InOrder, ByteWrites, BitField, Mode, Key, Bits
<1>2. InOrder(WordWrites(code, low))
  BY DEF InOrder, WordWrites, BitField, Mode, Key, ConfigMin, Bits
<1>3. InOrder(TwoWordWrites(code, low, high))
  BY DEF InOrder, TwoWordWrites, BitField, Mode, Key, ConfigMin, ConfigMax, Bits
<1> QED
  BY <1>1, <1>2, <1>3

\* Short sequences, one after the other.
LEMMA TwoAndOne ==
  ASSUME NEW a, NEW b, NEW c
  PROVE  <<a, b>> \o <<c>> = <<a, b, c>>
<1> DEFINE S == {a, b, c}
           s == <<a, b>>
           t == <<c>>
           u == <<a, b, c>>
<1>1. /\ s \in Seq(S) /\ t \in Seq(S) /\ u \in Seq(S) /\ Len(s) = 2 /\ Len(t) = 1 /\ Len(u) = 3
      /\ s[1] = a /\ s[2] = b /\ t[1] = c /\ u[1] = a /\ u[2] = b /\ u[3] = c
  OBVIOUS
<1> HIDE DEF S, s, t, u
<1>a. s \in Seq(S) /\ t \in Seq(S)
  BY <1>1
<1>b. /\ s \o t \in Seq(S) /\ Len(s \o t) = Len(s) + Len(t)
      /\ \A i \in 1..Len(s) + Len(t) : (s \o t)[i] = IF i <= Len(s) THEN s[i] ELSE t[i - Len(s)]
  BY <1>a, ConcatProperties
<1>2. /\ s \o t \in Seq(S) /\ Len(s \o t) = 3
      /\ \A i \in 1..3 : (s \o t)[i] = IF i <= 2 THEN s[i] ELSE t[i - 2]
  BY <1>1, <1>b
<1>3. \A i \in 1..3 : (s \o t)[i] = u[i]
  BY <1>1, <1>2
<1>4. s \o t = u
  BY <1>1, <1>2, <1>3, SeqEqual
<1> QED
  BY <1>4 DEF s, t, u

\* Two writes joined to two.
LEMMA TwoAndTwo ==
  ASSUME NEW a, NEW b, NEW c, NEW d
  PROVE  <<a, b>> \o <<c, d>> = <<a, b, c, d>>
<1> DEFINE S == {a, b, c, d}
           s == <<a, b>>
           t == <<c, d>>
           u == <<a, b, c, d>>
<1>1. /\ s \in Seq(S) /\ t \in Seq(S) /\ u \in Seq(S) /\ Len(s) = 2 /\ Len(t) = 2 /\ Len(u) = 4
      /\ s[1] = a /\ s[2] = b /\ t[1] = c /\ t[2] = d
      /\ u[1] = a /\ u[2] = b /\ u[3] = c /\ u[4] = d
  OBVIOUS
<1> HIDE DEF S, s, t, u
<1>a. s \in Seq(S) /\ t \in Seq(S)
  BY <1>1
<1>b. /\ s \o t \in Seq(S) /\ Len(s \o t) = Len(s) + Len(t)
      /\ \A i \in 1..Len(s) + Len(t) : (s \o t)[i] = IF i <= Len(s) THEN s[i] ELSE t[i - Len(s)]
  BY <1>a, ConcatProperties
<1>2. /\ s \o t \in Seq(S) /\ Len(s \o t) = 4
      /\ \A i \in 1..4 : (s \o t)[i] = IF i <= 2 THEN s[i] ELSE t[i - 2]
  BY <1>1, <1>b
<1>3. \A i \in 1..4 : (s \o t)[i] = u[i]
  BY <1>1, <1>2
<1>4. s \o t = u
  BY <1>1, <1>2, <1>3, SeqEqual
<1> QED
  BY <1>4 DEF s, t, u

\* A configuration frame of one or two words is filled in order.
LEMMA ConfigWordsMade ==
  ASSUME NEW address, NEW c, NEW forms, NEW frame \in MakeConfigWords(address, c, forms)
  PROVE  \/ /\ Len(forms) = 1
            /\ \E v \in ScaledBy(c.values[1], forms[1]) :
                  frame \in Filled(address, 4, WordWrites(c.code, Unsigned(v)))
         \/ /\ Len(forms) # 1
            /\ \E v \in ScaledBy(c.values[1], forms[1]), w \in ScaledBy(c.values[2], forms[2]) :
                  frame \in Filled(address, 6, TwoWordWrites(c.code, Unsigned(v), Unsigned(w)))
<1>1. \A word : ConfigHead(c.code) \o <<<<ConfigMin, word>>>> = WordWrites(c.code, word)
  BY TwoAndOne DEF ConfigHead, WordWrites
<1>2. \A low, high : ConfigHead(c.code) \o <<<<ConfigMin, low>>, <<ConfigMax, high>>>>
                     = TwoWordWrites(c.code, low, high)
  BY TwoAndTwo DEF ConfigHead, TwoWordWrites
<1>3. \/ /\ Len(forms) = 1
         /\ \E v \in ScaledBy(c.values[1], forms[1]) :
               frame \in Filled(address, 4, ConfigHead(c.code) \o <<<<ConfigMin, Unsigned(v)>>>>)
      \/ /\ Len(forms) # 1
         /\ \E v \in ScaledBy(c.values[1], forms[1]), w \in ScaledBy(c.values[2], forms[2]) :
               frame \in Filled(address, 6, ConfigHead(c.code) \o <<<<ConfigMin, Unsigned(v)>>,
                                                                 <<ConfigMax, Unsigned(w)>>>>)
  BY DEF MakeConfigWords
<1> QED
  BY <1>1, <1>2, <1>3

\* Every configuration frame is one of the three.
LEMMA ConfigMade ==
  ASSUME NEW address, NEW c \in ConfigCommand, NEW frame \in MakeConfig(address, c)
  PROVE  \/ \E byte : frame \in Filled(address, 3, ByteWrites(c.code, byte))
         \/ \E word : frame \in Filled(address, 4, WordWrites(c.code, word))
         \/ \E low, high : frame \in Filled(address, 6, TwoWordWrites(c.code, low, high))
<1>1. CASE c.kind = "uint8"
  <2>1. ConfigHead(c.code) \o <<<<Bits(16, 8), c.values[1]>>>> = ByteWrites(c.code, c.values[1])
    BY TwoAndOne DEF ConfigHead, ByteWrites
  <2>2. frame \in Filled(address, 3, ByteWrites(c.code, c.values[1]))
    BY <1>1, <2>1 DEF MakeConfig, MakeConfigByte
  <2> QED
    BY <2>2
<1>2. CASE c.kind # "uint8"
  <2>1. frame \in MakeConfigWords(address, c, ConfigWords[c.kind][c.code])
    BY <1>2 DEF MakeConfig
  <2> QED
    BY <2>1, ConfigWordsMade
<1> QED
  BY <1>1, <1>2

\* A configuration frame says so and holds words.
LEMMA ConfigCarried ==
  ASSUME NEW address \in Address, NEW c \in ConfigCommand, NEW frame \in MakeConfig(address, c)
  PROVE  /\ \E len \in Nat : Made(frame, address, len)
         /\ Field(frame, Mode) = 6
         /\ ConfigValue(frame) \in Seq(Nat)
<1>1. \A raw : raw = 6 => IsRaw(raw)
  BY SmallIsRaw
<1>2. ASSUME NEW len \in {3, 4, 6}, NEW writes, InOrder(writes), Len(writes) \in Nat \ {0},
             writes[1] = <<Mode, 6>>, frame \in Filled(address, len, writes)
      PROVE  Made(frame, address, len) /\ Field(frame, Mode) = 6
  <2>1. CarriesAll(frame, address, len, writes)
    BY <1>2, FilledCarries
  <2> QED
    BY <1>1, <1>2, <2>1 DEF CarriesAll
<1>3. \E len \in {3, 4, 6} : Made(frame, address, len) /\ Field(frame, Mode) = 6
  <2>1. ASSUME NEW byte, frame \in Filled(address, 3, ByteWrites(c.code, byte))
        PROVE  Made(frame, address, 3) /\ Field(frame, Mode) = 6
    <3>1. Len(ByteWrites(c.code, byte)) = 3 /\ ByteWrites(c.code, byte)[1] = <<Mode, 6>>
      BY DEF ByteWrites, CommandCode
    <3>2. InOrder(ByteWrites(c.code, byte))
      BY ConfigInOrder
    <3> QED
      BY <1>2, <2>1, <3>1, <3>2
  <2>2. ASSUME NEW word, frame \in Filled(address, 4, WordWrites(c.code, word))
        PROVE  Made(frame, address, 4) /\ Field(frame, Mode) = 6
    <3>1. Len(WordWrites(c.code, word)) = 3 /\ WordWrites(c.code, word)[1] = <<Mode, 6>>
      BY DEF WordWrites, CommandCode
    <3>2. InOrder(WordWrites(c.code, word))
      BY ConfigInOrder
    <3> QED
      BY <1>2, <2>2, <3>1, <3>2
  <2>3. ASSUME NEW low, NEW high, frame \in Filled(address, 6, TwoWordWrites(c.code, low, high))
        PROVE  Made(frame, address, 6) /\ Field(frame, Mode) = 6
    <3>1. Len(TwoWordWrites(c.code, low, high)) = 4 /\ TwoWordWrites(c.code, low, high)[1] = <<Mode, 6>>
      BY DEF TwoWordWrites, CommandCode
    <3>2. InOrder(TwoWordWrites(c.code, low, high))
      BY ConfigInOrder
    <3> QED
      BY <1>2, <2>3, <3>1, <3>2
  <2> QED
    BY <2>1, <2>2, <2>3, ConfigMade
<1>4. PICK len \in {3, 4, 6} : Made(frame, address, len)
  BY <1>3
<1>5. frame.len = len
  BY <1>4 DEF Made
<1>6. ConfigValue(frame) \in Seq(Nat)
  <2>1. \A field \in BitField : Within(field, len) => Field(frame, field) \in Nat
    BY <1>5, FieldIsNat
  <2>2. /\ Byte(2) \in BitField /\ Within(Byte(2), 3)
        /\ ConfigMin \in BitField /\ Within(ConfigMin, 4) /\ Within(ConfigMin, 6)
        /\ ConfigMax \in BitField /\ Within(ConfigMax, 6)
    BY DEF Byte, ConfigMin, ConfigMax, Bits, BitField, Within
  <2>3. CASE len = 3
    <3>1. Field(frame, Byte(2)) \in Nat /\ ConfigValue(frame) = <<Field(frame, Byte(2))>>
      BY <1>5, <2>1, <2>2, <2>3 DEF ConfigValue
    <3> QED
      BY <3>1
  <2>4. CASE len = 4
    <3>1. /\ Field(frame, ConfigMin) \in Nat
          /\ ConfigValue(frame) = <<Field(frame, ConfigMin)>>
      BY <1>5, <2>1, <2>2, <2>4 DEF ConfigValue
    <3> QED
      BY <3>1
  <2>5. CASE len = 6
    <3>1. /\ Field(frame, ConfigMin) \in Nat /\ Field(frame, ConfigMax) \in Nat
          /\ ConfigValue(frame) = <<Field(frame, ConfigMin), Field(frame, ConfigMax)>>
      BY <1>5, <2>1, <2>2, <2>5 DEF ConfigValue
    <3> QED
      BY <3>1
  <2> QED
    BY <2>3, <2>4, <2>5
<1> QED
  BY <1>3, <1>4, <1>6

\* A query asks for its code.
QueryWrites(code) == <<<<Mode, CommandCode.query>>, <<Key, QueryCode[code]>>>>

\* A query frame says so.
LEMMA QueryCarried ==
  ASSUME NEW address \in Address, NEW c \in QueryCommand, NEW frame \in MakeConfigQuery(address, c)
  PROVE  Made(frame, address, 2) /\ Field(frame, Mode) = 7
<1> DEFINE writes == QueryWrites(c.code)
<1>1. InOrder(writes)
  BY DEF InOrder, QueryWrites, BitField, Mode, Key, Bits
<1>2. Len(writes) = 2 /\ writes[1] = <<Mode, 7>>
  BY DEF QueryWrites, CommandCode
<1>3. frame \in Filled(address, 2, writes)
  BY DEF MakeConfigQuery, QueryWrites
<1>4. \A seven : seven = 7 => IsRaw(seven)
  BY SmallIsRaw
<1> HIDE DEF writes
<1>5. CarriesAll(frame, address, 2, writes)
  BY <1>1, <1>3, FilledCarries
<1> QED
  BY <1>2, <1>4, <1>5 DEF CarriesAll

(***************************************************************************)
(* A motor executes a frame.                                               *)
(***************************************************************************)

\* A command is of one sort.
LEMMA CommandSorts ==
  ASSUME NEW c, Command(c)
  PROVE  \/ /\ c.type = "pvt"
            /\ c \in [type : {"pvt"}, kp : Number, kd : Number, position : Number,
                      velocity : Number, torque : Number]
         \/ /\ c.type = "position" /\ RawFloat(c.position)
            /\ c \in [type : {"position"}, position : Number, velocity_limit : Number,
                      current_limit : Number, reply : Replies]
         \/ /\ c.type = "velocity" /\ RawFloat(c.velocity)
            /\ c \in [type : {"velocity"}, velocity : Number, current_limit : Number,
                      reply : Replies]
         \/ c.type = "torque" /\ c \in [type : {"torque"}, torque : Number, reply : Replies]
         \/ c.type = "current" /\ c \in [type : {"current"}, current : Number, reply : Replies]
         \/ c.type = "brake" /\ c \in BrakeCommand
         \/ c.type = "config" /\ c \in ConfigCommand
         \/ c.type = "query" /\ c \in QueryCommand
<1>1. c \in ConfigCommand => c.type = "config"
  BY DEF ConfigCommand
<1>2. c \in QueryCommand => c.type = "query"
  BY DEF QueryCommand
<1>3. CASE c \in ControlCommand
  BY <1>3 DEF Command, ControlCommand, BrakeCommand
<1> QED
  BY <1>1, <1>2, <1>3 DEF Command

\* The parts of a motor.
IsMotor(m) ==
    /\ m = [target |-> m.target, released |-> m.released, words |-> m.words]
    /\ m.words \in [DOMAIN SetCode -> Seq(Nat)]

\* What a command may change of a motor, n after m.
Obeys(d, n, m, c) ==
    /\ n.target = m.target \/ (c.type # "query" /\ Follows(d, n.target, c))
    /\ n.released => m.released \/ (c.type = "brake" /\ c.control = "engage" /\ c.open)

\* A frame of a control mode sets the target and nothing else.
LEMMA TargetSet ==
  ASSUME NEW d, NEW m, IsMotor(m), NEW frame, NEW c, c.type # "query",
         Field(frame, Mode) \in 0..3, Follows(d, TargetOf(d, frame), c)
  PROVE  IsMotor(Executed(d, m, frame)) /\ Obeys(d, Executed(d, m, frame), m, c)
<1> DEFINE n == Executed(d, m, frame)
           target == TargetOf(d, frame)
<1>1. n = [m EXCEPT !.target = target]
  BY DEF Executed, CommandCode
<1> HIDE DEF n, target
<1>2. n.target = target /\ n.released = m.released /\ n.words = m.words
  BY <1>1 DEF IsMotor
<1>3. n = [target |-> n.target, released |-> n.released, words |-> n.words]
  BY <1>1, <1>2 DEF IsMotor
<1>4. IsMotor(n) /\ Obeys(d, n, m, c)
  BY <1>2, <1>3 DEF IsMotor, Obeys, target
<1> QED
  BY <1>4 DEF n

\* A motor does what the command of its frame says, and nothing else.
LEMMA Obeyed ==
  ASSUME NEW d, NEW address \in Address, NEW c, Command(c), NEW frame \in Encode(address, c),
         NEW m, IsMotor(m)
  PROVE  /\ \E len \in Nat : Made(frame, address, len)
         /\ IsMotor(Executed(d, m, frame)) /\ Obeys(d, Executed(d, m, frame), m, c)
<1> DEFINE Goal == /\ \E len \in Nat : Made(frame, address, len)
                   /\ IsMotor(Executed(d, m, frame)) /\ Obeys(d, Executed(d, m, frame), m, c)
<1>0. ASSUME NEW len \in Nat, Made(frame, address, len), Field(frame, Mode) \in 0..3,
             c.type # "query", Follows(d, TargetOf(d, frame), c)
      PROVE  Goal
  BY <1>0, TargetSet
<1>1. ASSUME c.type = "pvt",
             c \in [type : {"pvt"}, kp : Number, kd : Number, position : Number,
                    velocity : Number, torque : Number]
      PROVE  Goal
  <2>1. frame \in MakePvt(address, c)
    BY <1>1 DEF Encode
  <2>2. Made(frame, address, 8) /\ Field(frame, Mode) = 0 /\ Follows(d, ReadPvt(d, frame), c)
    BY <1>1, <2>1, PvtFollowed
  <2>3. TargetOf(d, frame) = ReadPvt(d, frame)
    BY <2>2 DEF TargetOf, CommandCode
  <2> QED
    BY <1>0, <1>1, <2>2, <2>3
<1>2. ASSUME c.type = "position", RawFloat(c.position),
             c \in [type : {"position"}, position : Number, velocity_limit : Number,
                    current_limit : Number, reply : Replies]
      PROVE  Goal
  <2>1. frame \in MakePosition(address, c)
    BY <1>2 DEF Encode
  <2>2. Made(frame, address, 8) /\ Field(frame, Mode) = 1 /\ Follows(d, ReadPosition(frame), c)
    BY <1>2, <2>1, PositionFollowed
  <2>3. TargetOf(d, frame) = ReadPosition(frame)
    BY <2>2 DEF TargetOf, CommandCode
  <2> QED
    BY <1>0, <1>2, <2>2, <2>3
<1>3. ASSUME c.type = "velocity", RawFloat(c.velocity),
             c \in [type : {"velocity"}, velocity : Number, current_limit : Number,
                    reply : Replies]
      PROVE  Goal
  <2>1. frame \in MakeVelocity(address, c)
    BY <1>3 DEF Encode
  <2>2. Made(frame, address, 7) /\ Field(frame, Mode) = 2 /\ Follows(d, ReadVelocity(frame), c)
    BY <1>3, <2>1, VelocityFollowed
  <2>3. TargetOf(d, frame) = ReadVelocity(frame)
    BY <2>2 DEF TargetOf, CommandCode
  <2> QED
    BY <1>0, <1>3, <2>2, <2>3
<1>4. ASSUME c.type \in {"torque", "current", "brake"},
             Made(frame, address, 3), Field(frame, Mode) = 3, Follows(d, ReadTorque(frame), c)
      PROVE  Goal
  <2>1. TargetOf(d, frame) = ReadTorque(frame)
    BY <1>4 DEF TargetOf, CommandCode
  <2> QED
    BY <1>0, <1>4, <2>1
<1>5. ASSUME c.type = "torque", c \in [type : {"torque"}, torque : Number, reply : Replies]
      PROVE  Goal
  <2>1. frame \in MakeTorque(address, c)
    BY <1>5 DEF Encode
  <2> QED
    BY <1>4, <1>5, <2>1, TorqueFollowed
<1>6. ASSUME c.type = "current", c \in [type : {"current"}, current : Number, reply : Replies]
      PROVE  Goal
  <2>1. frame \in MakeCurrent(address, c)
    BY <1>6 DEF Encode
  <2> QED
    BY <1>4, <1>6, <2>1, CurrentFollowed
<1>7. ASSUME c.type = "brake", c \in BrakeCommand
      PROVE  Goal
  <2>1. frame \in MakeBrake(address, c)
    BY <1>7 DEF Encode
  <2>2. CASE c.control # "engage"
    BY <1>4, <1>7, <2>1, <2>2, BrakingFollowed
  <2>3. CASE c.control = "engage"
    <3>1. /\ Made(frame, address, 2) /\ Field(frame, Mode) = 4
          /\ Field(frame, BrakeEngaged) = 1 => c.open
      BY <1>7, <2>1, <2>3, EngageCarried
    <3> DEFINE n == Executed(d, m, frame)
    <3>2. n = [m EXCEPT !.released = Field(frame, BrakeEngaged) = 1]
      BY <3>1 DEF Executed, CommandCode
    <3> HIDE DEF n
    <3>3. /\ n.target = m.target /\ n.words = m.words
          /\ n.released = (Field(frame, BrakeEngaged) = 1)
      BY <3>2 DEF IsMotor
    <3>4. n = [target |-> n.target, released |-> n.released, words |-> n.words]
      BY <3>2, <3>3 DEF IsMotor
    <3>5. IsMotor(n) /\ Obeys(d, n, m, c)
      BY <1>7, <2>3, <3>1, <3>3, <3>4 DEF IsMotor, Obeys
    <3> QED
      BY <3>1, <3>5 DEF n
  <2> QED
    BY <2>2, <2>3
<1>8. ASSUME c.type = "config", c \in ConfigCommand
      PROVE  Goal
  <2>1. frame \in MakeConfig(address, c)
    BY <1>8 DEF Encode
  <2>2. /\ \E len \in Nat : Made(frame, address, len)
        /\ Field(frame, Mode) = 6 /\ ConfigValue(frame) \in Seq(Nat)
    BY <1>8, <2>1, ConfigCarried
  <2> DEFINE n == Executed(d, m, frame)
             value == ConfigValue(frame)
             code == ConfigCode(frame)
  <2>3. n = [m EXCEPT !.words[code] = value]
    BY <2>2 DEF Executed, CommandCode
  <2> HIDE DEF n, value, code
  <2>4. /\ n.target = m.target /\ n.released = m.released
        /\ n.words = [m.words EXCEPT ![code] = value]
    BY <2>3 DEF IsMotor
  <2>5. n = [target |-> n.target, released |-> n.released, words |-> n.words]
    BY <2>3, <2>4 DEF IsMotor
  <2>6. n.words \in [DOMAIN SetCode -> Seq(Nat)]
    <3>1. value \in Seq(Nat) /\ m.words \in [DOMAIN SetCode -> Seq(Nat)]
      BY <2>2 DEF value, IsMotor
    <3> QED
      BY <2>4, <3>1
  <2>7. IsMotor(n) /\ Obeys(d, n, m, c)
    BY <2>4, <2>5, <2>6 DEF IsMotor, Obeys
  <2> QED
    BY <2>2, <2>7 DEF n
<1>9. ASSUME c.type = "query", c \in QueryCommand
      PROVE  Goal
  <2>1. frame \in MakeConfigQuery(address, c)
    BY <1>9 DEF Encode
  <2>2. Made(frame, address, 2) /\ Field(frame, Mode) = 7
    BY <1>9, <2>1, QueryCarried
  <2>3. Executed(d, m, frame) = m
    BY <2>2 DEF Executed, CommandCode
  <2> QED
    BY <2>2, <2>3 DEF Obeys
<1> HIDE DEF Goal
<1>10. Goal
  BY <1>1, <1>2, <1>3, <1>5, <1>6, <1>7, <1>8, <1>9, CommandSorts
<1> QED
  BY <1>10 DEF Goal

(***************************************************************************)
(* The frames of a datagram are executed one after the other.              *)
(***************************************************************************)

IsSeq(s) == \E S : s \in Seq(S)

\* A motor does what some command told it, the brake included.
Understood(d, m, commands) ==
    /\ m.target # NoTarget => \E c \in commands : Follows(d, m.target, c)
    /\ m.released => \E c \in commands : c.type = "brake" /\ c.control = "engage" /\ c.open

\* The motors of a runtime, each with what its device was given.
MotorsUnderstand(ms) ==
    /\ ms = [d \in Device |-> ms[d]]
    /\ \A d \in Device : IsMotor(ms[d]) /\ Understood(d, ms[d], given[d])

GivenTypes ==
    /\ given = [d \in Device |-> given[d]]
    /\ \A d \in Device : \A c \in given[d] : Command(c)

\* A frame some command made, for a device of this channel.
CommandedFor(d, frame) == \E c \in given[d] \cup QueryCommand : frame \in Encode(AddressOf(d), c)

Commanded(channel, frame) ==
    \E d \in Device : config.motors[d].channel = channel /\ CommandedFor(d, frame)

HandledState(s) ==
    /\ s = [motors |-> s.motors, answers |-> s.answers]
    /\ MotorsUnderstand(s.motors) /\ IsSeq(s.answers)

\* Sequences joined are a sequence.
LEMMA JoinedIsSeq ==
  ASSUME NEW s, NEW t, IsSeq(s), IsSeq(t)
  PROVE  IsSeq(s \o t)
<1>1. PICK S : s \in Seq(S)
  BY DEF IsSeq
<1>2. PICK T : t \in Seq(T)
  BY DEF IsSeq
<1>3. s \in Seq(S \cup T) /\ t \in Seq(S \cup T)
  BY <1>1, <1>2
<1>4. s \o t \in Seq(S \cup T)
  BY <1>3
<1> QED
  BY <1>4 DEF IsSeq

\* A motor that obeys one of its device's commands still does what it was told.
LEMMA StillUnderstood ==
  ASSUME NEW d, NEW n, NEW m, NEW commands, NEW c, c \in commands \/ c.type = "query",
         Understood(d, m, commands), Obeys(d, n, m, c)
  PROVE  Understood(d, n, commands)
<1>1. n.target # NoTarget => \E g \in commands : Follows(d, n.target, g)
  BY DEF Understood, Obeys
<1>2. n.released => \E g \in commands : g.type = "brake" /\ g.control = "engage" /\ g.open
  BY DEF Understood, Obeys
<1> QED
  BY <1>1, <1>2 DEF Understood

\* The motor a commanded frame reaches is the one it was made for.
LEMMA ReachedMotor ==
  ASSUME TopologyInv, phase = "bound", GivenTypes,
         NEW channel, NEW frame, Commanded(channel, frame), Reached(channel, frame) # {}
  PROVE  LET device == The(Reached(channel, frame))
         IN  /\ device \in Device /\ config.motors[device].channel = channel
             /\ AddressOf(device) \in Address
             /\ \E c : /\ Command(c) /\ frame \in Encode(AddressOf(device), c)
                       /\ c \in given[device] \/ c.type = "query"
<1> DEFINE device == The(Reached(channel, frame))
<1>1. device \in Reached(channel, frame)
  BY DEF The
<1>2. /\ device \in Device /\ config.motors[device].channel = channel
      /\ config.motors[device].port = frame.port /\ config.motors[device].id = frame.id
  BY <1>1 DEF Reached, AddressOf
<1>3. PICK d \in Device : config.motors[d].channel = channel /\ CommandedFor(d, frame)
  BY DEF Commanded
<1>4. PICK c \in given[d] \cup QueryCommand : frame \in Encode(AddressOf(d), c)
  BY <1>3 DEF CommandedFor
<1>5. Command(c) /\ (c \in given[d] \/ c.type = "query")
  BY <1>4 DEF GivenTypes, Command, QueryCommand
<1>6. AddressOf(d) \in Address /\ AddressOf(d).port = config.motors[d].port
      /\ AddressOf(d).id = config.motors[d].id
  BY ConfigsAreRecords DEF AddressOf, Address, Device, Index, TopologyInv, TopologyTypes
<1> HIDE DEF device
<1>7. frame.port = AddressOf(d).port /\ frame.id = AddressOf(d).id
  <2> DEFINE m == [target |-> NoTarget, released |-> FALSE, words |-> Factory]
  <2>1. IsMotor(m)
    BY FactoryIsWords DEF IsMotor
  <2> HIDE DEF m
  <2>2. \E len \in Nat : Made(frame, AddressOf(d), len)
    BY <1>4, <1>5, <1>6, <2>1, Obeyed
  <2> QED
    BY <2>2 DEF Made
<1>8. device = d
  <2>1. SameAddress(config.motors[device], config.motors[d])
    BY <1>2, <1>3, <1>6, <1>7 DEF SameAddress
  <2> QED
    BY <1>2, <1>3, <2>1, ValidChannels DEF TopologyInv, TopologyTypes, PhaseTells, Device
<1> QED
  BY <1>2, <1>4, <1>5, <1>6, <1>8 DEF device

\* A frame reaches the motor it was made for or none.
LEMMA HandleUnderstood ==
  ASSUME TopologyInv, phase = "bound", GivenTypes,
         NEW channel, NEW frame, Commanded(channel, frame), NEW s, HandledState(s)
  PROVE  HandledState(Handle(s, channel, frame))
<1>1. CASE Reached(channel, frame) = {}
  BY <1>1 DEF Handle
<1>2. CASE Reached(channel, frame) # {}
  <2> DEFINE device == The(Reached(channel, frame))
             m == s.motors[device]
             n == Executed(device, m, frame)
             sent == AnswerSent(device, n, frame)
  <2>1. device \in Device
    BY <1>2, ReachedMotor
  <2>2. PICK c : /\ Command(c) /\ AddressOf(device) \in Address
                 /\ frame \in Encode(AddressOf(device), c)
                 /\ c \in given[device] \/ c.type = "query"
    BY <1>2, ReachedMotor
  <2>3. IsMotor(m) /\ Understood(device, m, given[device])
    BY <2>1 DEF HandledState, MotorsUnderstand
  <2> HIDE DEF device, m
  <2>4. IsMotor(n) /\ Obeys(device, n, m, c)
    BY <2>2, <2>3, Obeyed
  <2> HIDE DEF n, sent
  <2>5. Understood(device, n, given[device])
    BY <2>2, <2>3, <2>4, StillUnderstood
  <2>6. IsSeq(sent)
    <3>1. sent = <<>> \/ \E a : sent = <<a>>
      BY DEF sent, AnswerSent
    <3>2. <<>> \in Seq({})
      OBVIOUS
    <3>3. ASSUME NEW a PROVE <<a>> \in Seq({a})
      OBVIOUS
    <3> QED
      BY <3>1, <3>2, <3>3 DEF IsSeq
  <2> DEFINE ms == [s.motors EXCEPT ![device] = n]
             answers == s.answers \o sent
             t == [motors |-> ms, answers |-> answers]
  <2>7. Handle(s, channel, frame) = t
    BY <1>2 DEF Handle, device, m, n, sent
  <2>8. MotorsUnderstand(ms)
    <3>1. MotorsUnderstand(s.motors)
      BY DEF HandledState
    <3> QED
      BY <3>1, <2>1, <2>4, <2>5 DEF MotorsUnderstand
  <2>9. IsSeq(answers)
    BY <2>6, JoinedIsSeq DEF HandledState
  <2> HIDE DEF ms, answers
  <2>10. HandledState(t)
    BY <2>8, <2>9 DEF HandledState
  <2> QED
    BY <2>7, <2>10
<1> QED
  BY <1>1, <1>2

\* A sequence has a length and is a function of its positions.
LEMMA SeqIsFunction ==
  ASSUME NEW s, IsSeq(s)
  PROVE  Len(s) \in Nat /\ s = [i \in 1..Len(s) |-> s[i]]
<1>1. PICK S : s \in Seq(S)
  BY DEF IsSeq
<1> QED
  BY <1>1

\* The states of the motors while a datagram is handled, frame by frame.
HandlesStepwise(f, n, channel, packet) ==
    /\ f[0] = [motors |-> motors, answers |-> <<>>]
    /\ \A i \in 1..n : f[i] = Handle(f[i - 1], channel, packet[i])

\* The states after each frame exist, and the last is what Handled is.
LEMMA HandledSteps ==
  ASSUME NEW channel, NEW packet, NEW n \in Nat, n = Len(packet)
  PROVE  \E f : Handled(channel, packet) = f[n] /\ HandlesStepwise(f, n, channel, packet)
<1> DEFINE first == [motors |-> motors, answers |-> <<>>]
           Is(f, k) == f = [i \in 0..k |-> IF i = 0 THEN first
                                           ELSE Handle(f[i - 1], channel, packet[i])]
           G == {k \in 0..n : \E f : Is(f, k)}
<1> HIDE DEF first
<1>1. 0 \in G
  <2> DEFINE f == [i \in 0..0 |-> first]
  <2>1. Is(f, 0)
    OBVIOUS
  <2> HIDE DEF Is, f
  <2>2. 0 \in 0..n
    OBVIOUS
  <2> QED
    BY <2>1, <2>2
<1>2. ASSUME NEW k \in 1..n, k - 1 \in G PROVE k \in G
  <2>1. PICK f : Is(f, k - 1)
    BY <1>2
  <2> DEFINE g == [i \in 0..k |-> IF i = k THEN Handle(f[k - 1], channel, packet[k]) ELSE f[i]]
  <2>2. ASSUME NEW i \in 0..k
        PROVE  g[i] = IF i = 0 THEN first ELSE Handle(g[i - 1], channel, packet[i])
    <3>1. CASE i = 0
      BY <2>1, <3>1
    <3>2. CASE i = k
      <4>1. k - 1 \in 0..k /\ k - 1 # k /\ k # 0 /\ k \in 0..k
        OBVIOUS
      <4>2. g[k - 1] = f[k - 1] /\ g[k] = Handle(f[k - 1], channel, packet[k])
        BY <4>1
      <4> QED
        BY <3>2, <4>1, <4>2
    <3>3. CASE i # 0 /\ i # k
      <4>1. i \in 0..(k - 1) /\ i - 1 \in 0..(k - 1) /\ i - 1 # k /\ i \in 0..k /\ i - 1 \in 0..k
        BY <3>3
      <4>2. g[i] = f[i] /\ g[i - 1] = f[i - 1]
        BY <3>3, <4>1
      <4>3. f[i] = Handle(f[i - 1], channel, packet[i])
        BY <2>1, <3>3, <4>1
      <4> QED
        BY <3>3, <4>2, <4>3
    <3> QED
      BY <3>1, <3>2, <3>3
  <2>3. g = [i \in 0..k |-> g[i]]
    OBVIOUS
  <2> HIDE DEF g
  <2>4. Is(g, k)
    BY <2>2, <2>3
  <2> QED
    BY <2>4
<1>3. n \in G
  <2> HIDE DEF Is
  <2>1. G \in SUBSET (0..n)
    OBVIOUS
  <2> HIDE DEF G
  <2> QED
    BY <1>1, <1>2, <2>1, UpTo
<1>4. \E f : Is(f, n)
  BY <1>3
<1> DEFINE after == CHOOSE f : Is(f, n)
<1>5. Is(after, n)
  BY <1>4
<1>6. Handled(channel, packet) = after[n]
  BY DEF Handled, first
<1> HIDE DEF after
<1>7. after[0] = first /\ \A i \in 1..n : after[i] = Handle(after[i - 1], channel, packet[i])
  BY <1>5
<1> QED
  BY <1>6, <1>7 DEF HandlesStepwise, first

\* The motors do what they were told after every frame of a commanded datagram.
LEMMA HandledUnderstood ==
  ASSUME TopologyInv, phase = "bound", GivenTypes, MotorsUnderstand(motors),
         NEW channel, NEW packet, IsSeq(packet),
         \A i \in 1..Len(packet) : Commanded(channel, packet[i])
  PROVE  HandledState(Handled(channel, packet))
<1> DEFINE n == Len(packet)
<1>1. n \in Nat
  BY SeqIsFunction
<1>2. PICK f : Handled(channel, packet) = f[n] /\ HandlesStepwise(f, n, channel, packet)
  BY <1>1, HandledSteps
<1> DEFINE G == {i \in 0..n : HandledState(f[i])}
<1>3. 0 \in G
  <2>1. IsSeq(<<>>)
    <3>1. <<>> \in Seq({})
      OBVIOUS
    <3> QED
      BY <3>1 DEF IsSeq
  <2>2. HandledState(f[0])
    BY <1>2, <2>1 DEF HandlesStepwise, HandledState
  <2> QED
    BY <1>1, <2>2
<1>4. ASSUME NEW i \in 1..n, i - 1 \in G PROVE i \in G
  <2>1. HandledState(f[i - 1]) /\ f[i] = Handle(f[i - 1], channel, packet[i])
    BY <1>2, <1>4 DEF HandlesStepwise
  <2>2. HandledState(f[i])
    BY <2>1, HandleUnderstood
  <2> QED
    BY <1>1, <2>2
<1>5. n \in G
  <2>1. G \in SUBSET (0..n)
    OBVIOUS
  <2> HIDE DEF G
  <2> QED
    BY <1>1, <1>3, <1>4, <2>1, UpTo
<1> QED
  BY <1>2, <1>5

\* The samples while a datagram is handed over, frame by frame.
SamplesStepwise(f, n, channel, packet) ==
    f[0] = samples /\ \A i \in 1..n : f[i] = HandleFrame(f[i - 1], channel, packet[i])

\* The samples after each frame exist, and the last are what SamplesAfter is.
LEMMA SamplesSteps ==
  ASSUME NEW channel, NEW packet, NEW n \in Nat, n = Len(packet)
  PROVE  \E f : SamplesAfter(channel, packet) = f[n] /\ SamplesStepwise(f, n, channel, packet)
<1> DEFINE Is(f, k) == f = [i \in 0..k |-> IF i = 0 THEN samples
                                           ELSE HandleFrame(f[i - 1], channel, packet[i])]
           G == {k \in 0..n : \E f : Is(f, k)}
<1>1. 0 \in G
  <2> DEFINE f == [i \in 0..0 |-> samples]
  <2>1. Is(f, 0)
    OBVIOUS
  <2> HIDE DEF Is, f
  <2>2. 0 \in 0..n
    OBVIOUS
  <2> QED
    BY <2>1, <2>2
<1>2. ASSUME NEW k \in 1..n, k - 1 \in G PROVE k \in G
  <2>1. PICK f : Is(f, k - 1)
    BY <1>2
  <2> DEFINE g == [i \in 0..k |-> IF i = k THEN HandleFrame(f[k - 1], channel, packet[k]) ELSE f[i]]
  <2>2. ASSUME NEW i \in 0..k
        PROVE  g[i] = IF i = 0 THEN samples ELSE HandleFrame(g[i - 1], channel, packet[i])
    <3>1. CASE i = 0
      BY <2>1, <3>1
    <3>2. CASE i = k
      <4>1. k - 1 \in 0..k /\ k - 1 # k /\ k # 0 /\ k \in 0..k
        OBVIOUS
      <4>2. g[k - 1] = f[k - 1] /\ g[k] = HandleFrame(f[k - 1], channel, packet[k])
        BY <4>1
      <4> QED
        BY <3>2, <4>1, <4>2
    <3>3. CASE i # 0 /\ i # k
      <4>1. i \in 0..(k - 1) /\ i - 1 \in 0..(k - 1) /\ i - 1 # k /\ i \in 0..k /\ i - 1 \in 0..k
        BY <3>3
      <4>2. g[i] = f[i] /\ g[i - 1] = f[i - 1]
        BY <3>3, <4>1
      <4>3. f[i] = HandleFrame(f[i - 1], channel, packet[i])
        BY <2>1, <3>3, <4>1
      <4> QED
        BY <3>3, <4>2, <4>3
    <3> QED
      BY <3>1, <3>2, <3>3
  <2>3. g = [i \in 0..k |-> g[i]]
    OBVIOUS
  <2> HIDE DEF g
  <2>4. Is(g, k)
    BY <2>2, <2>3
  <2> QED
    BY <2>4
<1>3. n \in G
  <2> HIDE DEF Is
  <2>1. G \in SUBSET (0..n)
    OBVIOUS
  <2> HIDE DEF G
  <2> QED
    BY <1>1, <1>2, <2>1, UpTo
<1>4. \E f : Is(f, n)
  BY <1>3
<1> DEFINE after == CHOOSE f : Is(f, n)
<1>5. Is(after, n)
  BY <1>4
<1>6. SamplesAfter(channel, packet) = after[n]
  BY DEF SamplesAfter
<1> HIDE DEF after
<1>7. after[0] = samples /\ \A i \in 1..n : after[i] = HandleFrame(after[i - 1], channel, packet[i])
  BY <1>5
<1> QED
  BY <1>6, <1>7 DEF SamplesStepwise

(***************************************************************************)
(* The samples a datagram leaves behind.                                   *)
(***************************************************************************)

\* What the probe takes from the samples is fit to be sent again.
SampleFits(known) ==
    /\ "position" \in DOMAIN known => known["position"] \in Number /\ RawFloat(known["position"])
    /\ "can_timeout" \in DOMAIN known => known["can_timeout"] \in Number

SamplesFit(known) ==
    /\ known = [d \in Device |-> known[d]]
    /\ \A d \in Device : SampleFits(known[d])

\* A number read from a field is not negative; one of 16 bits is below 2^16.
LEMMA ReadIsNat ==
  ASSUME NEW field \in BitField, NEW frame, NEW raw \in Read(frame, field)
  PROVE  raw \in Nat /\ (field.len = 16 => raw <= 65535)
<1> DEFINE data == frame.data
           Bit(n) == IF field.offset + n - 1 \in data THEN 1 ELSE 0
<1>1. raw = NumberOf(data, field) /\ field.len \in Nat
  BY DEF Read, BitField
<1>2. PICK f \in [0..field.len -> Nat] :
         /\ NumberOf(data, field) = f[field.len]
         /\ f[0] = 0
         /\ \A n \in 1..field.len : f[n] = 2 * f[n - 1] + Bit(n)
  BY NumberSteps
<1>3. raw \in Nat
  BY <1>1, <1>2
<1>4. ASSUME field.len = 16 PROVE raw <= 65535
  <2> HIDE DEF Bit
  <2>1. f \in [0..16 -> Nat] /\ \A n \in 1..16 : f[n] = 2 * f[n - 1] + Bit(n)
    <3>1. 0..field.len = 0..16 /\ 1..field.len = 1..16
      BY <1>4
    <3>2. f \in [0..16 -> Nat]
      BY <3>1
    <3>3. \A n \in 1..field.len : f[n] = 2 * f[n - 1] + Bit(n)
      BY <1>2
    <3> QED
      BY <3>1, <3>2, <3>3
  <2>2. ASSUME NEW n \in 1..16, NEW b \in Nat, f[n - 1] <= b PROVE f[n] <= 2 * b + 1
    <3>1. Bit(n) \in {0, 1}
      BY DEF Bit
    <3>2. f[n] = 2 * f[n - 1] + Bit(n) /\ f[n - 1] \in Nat
      BY <2>1, n - 1 \in 0..16
    <3> QED
      BY <2>2, <3>1, <3>2
  <2>3. ASSUME NEW n \in 0..12, NEW b \in Nat, f[n] <= b PROVE f[n + 4] <= 16 * b + 15
    <3>1. f[n + 1] <= 2 * b + 1
      BY <2>2, <2>3, n + 1 \in 1..16, (n + 1) - 1 = n
    <3>2. f[n + 2] <= 4 * b + 3
      BY <2>2, <3>1, n + 2 \in 1..16, (n + 2) - 1 = n + 1, 2 * b + 1 \in Nat
    <3>3. f[n + 3] <= 8 * b + 7
      BY <2>2, <3>2, n + 3 \in 1..16, (n + 3) - 1 = n + 2, 4 * b + 3 \in Nat
    <3> QED
      BY <2>2, <3>3, n + 4 \in 1..16, (n + 4) - 1 = n + 3, 8 * b + 7 \in Nat
  <2>4. f[4] <= 15
    BY <1>2, <2>3, f[0] <= 0, 0 + 4 = 4
  <2>5. f[8] <= 255
    BY <2>3, <2>4, 4 + 4 = 8
  <2>6. f[12] <= 4095
    BY <2>3, <2>5, 8 + 4 = 12
  <2>7. f[16] <= 65535
    BY <2>3, <2>6, 12 + 4 = 16
  <2> QED
    BY <1>1, <1>2, <1>4, <2>7
<1> QED
  BY <1>3, <1>4

\* A float read from a frame can be written into one.
LEMMA RawIsFloat ==
  ASSUME NEW raw \in Nat
  PROVE  BitsF32(raw) \in Number /\ RawFloat(BitsF32(raw))
  BY DEF BitsF32, RawFloat, Number

\* The position of a status can be written into a frame.
LEMMA ShaftIsFloat ==
  ASSUME NEW raw \in Nat, raw <= 65535
  PROVE  LET value == Degrees(DecodeSymmetric(raw, PositionRange, 65535))
         IN  value \in Number /\ RawFloat(value)
<1> DEFINE rad == DecodeSymmetric(raw, PositionRange, 65535)
<1>1. rad \in Int /\ -12500 <= rad /\ rad <= 12500
  BY SMTT(30) DEF DecodeSymmetric, PositionRange, Rounded
<1> HIDE DEF rad
<1>2. Degrees(rad) \in Int /\ -1000000 <= Degrees(rad) /\ Degrees(rad) <= 1000000
  BY <1>1, SMTT(30) DEF Degrees, Rounded
<1> HIDE DEF Degrees
<1>3. Degrees(rad) \in Number /\ RawFloat(Degrees(rad))
  BY <1>2 DEF Number, RawFloat
<1> QED
  BY <1>3 DEF rad

\* Samples that fit are updated by samples that fit.
LEMMA UpdatedFits ==
  ASSUME NEW known, NEW update, SampleFits(known), SampleFits(update)
  PROVE  SampleFits(Updated(known, update))
<1> DEFINE all == Updated(known, update)
<1>1. ASSUME NEW name \in DOMAIN all
      PROVE  \/ name \in DOMAIN update /\ all[name] = update[name]
             \/ name \in DOMAIN known /\ all[name] = known[name]
  BY DEF Updated
<1> HIDE DEF all
<1>2. SampleFits(all)
  BY <1>1 DEF SampleFits
<1> QED
  BY <1>2 DEF all

\* Each kind of feedback leaves samples that fit.
LEMMA StatusFits ==
  ASSUME NEW frame, NEW error, NEW range, NEW feedback \in ParseStatus1(frame, error, range)
  PROVE  SampleFits(Updates(feedback))
<1>1. PICK raw \in Read(frame, StatusPosition) :
         /\ feedback.type = "status"
         /\ feedback.position = DecodeSymmetric(raw, PositionRange, 65535)
  BY DEF ParseStatus1
<1>2. raw \in Nat /\ raw <= 65535
  <2>1. StatusPosition \in BitField /\ StatusPosition.len = 16
    BY DEF StatusPosition, Bits, BitField
  <2> QED
    BY <2>1, ReadIsNat
<1> DEFINE value == Degrees(feedback.position)
<1>3. value \in Number /\ RawFloat(value)
  BY <1>1, <1>2, ShaftIsFloat
<1> HIDE DEF value
<1>4. /\ "can_timeout" \notin DOMAIN Updates(feedback)
      /\ Updates(feedback)["position"] = value
  BY <1>1 DEF Updates, value
<1> QED
  BY <1>3, <1>4 DEF SampleFits

\* A position or velocity reply leaves samples that fit.
LEMMA MotionFits ==
  ASSUME NEW type \in {"position", "velocity"}, NEW frame, NEW error,
         NEW feedback \in ParseMotion(type, frame, error)
  PROVE  SampleFits(Updates(feedback))
<1>1. PICK raw \in Read(frame, ReplyFloat) :
         feedback.type = type /\ feedback.value = BitsF32(raw)
  BY DEF ParseMotion
<1>2. raw \in Nat
  <2>1. ReplyFloat \in BitField
    BY DEF ReplyFloat, Bits, BitField
  <2> QED
    BY <2>1, ReadIsNat
<1>3. feedback.value \in Number /\ RawFloat(feedback.value)
  BY <1>1, <1>2, RawIsFloat
<1>4. CASE type = "position"
  <2>1. /\ "can_timeout" \notin DOMAIN Updates(feedback)
        /\ Updates(feedback)["position"] = feedback.value
    BY <1>1, <1>4 DEF Updates
  <2> QED
    BY <1>3, <2>1 DEF SampleFits
<1>5. CASE type = "velocity"
  <2>1. "can_timeout" \notin DOMAIN Updates(feedback) /\ "position" \notin DOMAIN Updates(feedback)
    BY <1>1, <1>5 DEF Updates
  <2> QED
    BY <2>1 DEF SampleFits
<1> QED
  BY <1>4, <1>5

\* An acknowledgement and a brake reply touch neither sample.
LEMMA OthersFit ==
  ASSUME NEW frame, NEW error,
         NEW feedback \in ParseConfigAck(frame, error) \cup ParseBrake(frame, error)
  PROVE  SampleFits(Updates(feedback))
<1>1. feedback.type = "brake" \/ feedback.type = "config_ack"
  BY DEF ParseConfigAck, ParseBrake
<1>2. "can_timeout" \notin DOMAIN Updates(feedback) /\ "position" \notin DOMAIN Updates(feedback)
  <2>1. CASE feedback.type = "brake"
    BY <2>1 DEF Updates
  <2>2. CASE feedback.type = "config_ack"
    <3>1. Updates(feedback) = <<>>
      BY <2>2 DEF Updates
    <3>2. DOMAIN <<>> = {}
      OBVIOUS
    <3> QED
      BY <3>1, <3>2
  <2> QED
    BY <1>1, <2>1, <2>2
<1> QED
  BY <1>2 DEF SampleFits

\* The answer to a query leaves samples that fit.
LEMMA QueryFits ==
  ASSUME NEW frame, NEW error, NEW feedback \in ParseQuery(frame, error)
  PROVE  SampleFits(Updates(feedback))
<1>1. PICK code \in DOMAIN QueryCode : \E v \in QueryValue(frame, code) :
         feedback = [type |-> "query", error |-> error, code |-> code, value |-> v]
  BY DEF ParseQuery
<1>2. PICK v \in QueryValue(frame, code) :
         feedback = [type |-> "query", error |-> error, code |-> code, value |-> v]
  BY <1>1
<1>3. Updates(feedback) =
         [name \in {"error"} \cup ({code} \ {"mcu_uuid"}) |->
             IF name = "error" THEN error ELSE IF Len(v) = 1 THEN v[1] ELSE v]
  BY <1>2 DEF Updates
<1>4. CASE code = "position"
  <2>1. PICK raw \in Read(frame, Bits(16, 32)) : v = <<BitsF32(raw)>>
    <3>1. /\ code \in FloatQueries /\ code \notin DOMAIN QueryDivisors
          /\ code \notin DOMAIN ByteQueries /\ code # "brake_status"
      BY <1>4 DEF FloatQueries, QueryDivisors, ByteQueries
    <3>2. QueryValue(frame, code) = {<<BitsF32(raw)>> : raw \in Read(frame, Bits(16, 32))}
      BY <3>1 DEF QueryValue
    <3> QED
      BY <1>2, <3>2
  <2>2. raw \in Nat
    <3>1. Bits(16, 32) \in BitField
      BY DEF Bits, BitField
    <3> QED
      BY <3>1, ReadIsNat
  <2> DEFINE value == BitsF32(raw)
  <2>3. value \in Number /\ RawFloat(value)
    BY <2>2, RawIsFloat
  <2> HIDE DEF value
  <2>4. Len(v) = 1 /\ v[1] = value
    BY <2>1 DEF value
  <2>5. Updates(feedback)["position"] = value /\ "can_timeout" \notin DOMAIN Updates(feedback)
    BY <1>3, <1>4, <2>4
  <2> QED
    BY <2>3, <2>5 DEF SampleFits
<1>5. CASE code = "can_timeout"
  <2>1. Len(QueryDivisors[code]) = 1 /\ QueryDivisors[code][1] = 1000 /\ code \in DOMAIN QueryDivisors
    BY <1>5 DEF QueryDivisors
  <2>2. PICK raw \in Word(frame, 0) : v = <<QueryWord(code, raw, 1)>>
    <3>1. /\ code \notin FloatQueries /\ code \notin DOMAIN ByteQueries /\ code # "brake_status"
      BY <1>5 DEF FloatQueries, ByteQueries
    <3>2. QueryValue(frame, code) = {<<QueryWord(code, raw, 1)>> : raw \in Word(frame, 0)}
      BY <2>1, <3>1 DEF QueryValue
    <3> QED
      BY <1>2, <3>2
  <2>3. raw \in Nat
    <3>1. Bits(16 + 16 * 0, 16) \in BitField
      BY DEF Bits, BitField
    <3> QED
      BY <2>2, <3>1, ReadIsNat DEF Word
  <2> DEFINE value == QueryWord(code, raw, 1)
  <2>4. value \in Number
    <3>1. value = Rounded(raw * 1000, 1000)
      BY <1>5, <2>1 DEF QueryWord, SignedQueries, Divided
    <3> QED
      BY <2>3, <3>1, RoundedIsInt DEF Number
  <2> HIDE DEF value
  <2>5. Len(v) = 1 /\ v[1] = value
    BY <2>2 DEF value
  <2>6. Updates(feedback)["can_timeout"] = value /\ "position" \notin DOMAIN Updates(feedback)
    BY <1>3, <1>5, <2>5
  <2> QED
    BY <2>4, <2>6 DEF SampleFits
<1>6. CASE code # "position" /\ code # "can_timeout"
  <2>1. "can_timeout" \notin DOMAIN Updates(feedback) /\ "position" \notin DOMAIN Updates(feedback)
    BY <1>3, <1>6
  <2> QED
    BY <2>1 DEF SampleFits
<1> QED
  BY <1>4, <1>5, <1>6

\* Whatever a frame is parsed to, it leaves samples that fit.
LEMMA ParsedFits ==
  ASSUME NEW frame, NEW range, NEW feedback \in ParseFeedback(frame, range)
  PROVE  SampleFits(Updates(feedback))
<1>1. PICK type, error :
         feedback \in CASE type = 1 -> ParseStatus1(frame, ParseError(error), range)
                        [] type = 2 -> ParseMotion("position", frame, ParseError(error))
                        [] type = 3 -> ParseMotion("velocity", frame, ParseError(error))
                        [] type = 4 -> ParseConfigAck(frame, ParseError(error))
                        [] type = 5 -> ParseQuery(frame, ParseError(error))
                        [] type = 6 -> ParseBrake(frame, ParseError(error))
                        [] OTHER -> {}
  BY DEF ParseFeedback
<1>2. \/ feedback \in ParseStatus1(frame, ParseError(error), range)
      \/ feedback \in ParseMotion("position", frame, ParseError(error))
      \/ feedback \in ParseMotion("velocity", frame, ParseError(error))
      \/ feedback \in ParseConfigAck(frame, ParseError(error)) \cup ParseBrake(frame, ParseError(error))
      \/ feedback \in ParseQuery(frame, ParseError(error))
  BY <1>1
<1> QED
  BY <1>2, StatusFits, MotionFits, OthersFit, QueryFits

\* So does a frame handed to the device of its address.
LEMMA HandleFrameFits ==
  ASSUME NEW known, SamplesFit(known), NEW channel, NEW frame
  PROVE  SamplesFit(HandleFrame(known, channel, frame))
<1> DEFINE after == HandleFrame(known, channel, frame)
<1>1. ASSUME NEW d \in Device PROVE SampleFits(after[d])
  <2> DEFINE parsed == ParseFeedback(frame, CurrentRange(d))
  <2>1. SampleFits(known[d])
    BY DEF SamplesFit
  <2>2. CASE d \notin Routed(channel, frame) \/ parsed = {}
    <3>1. after[d] = known[d]
      BY <2>2 DEF HandleFrame
    <3> QED
      BY <2>1, <3>1
  <2>3. CASE d \in Routed(channel, frame) /\ parsed # {}
    <3>1. after[d] = Updated(known[d], Updates(The(parsed)))
      BY <2>3 DEF HandleFrame
    <3>2. The(parsed) \in parsed
      BY <2>3 DEF The
    <3>3. SampleFits(Updates(The(parsed)))
      BY <3>2, ParsedFits
    <3> QED
      BY <2>1, <3>1, <3>3, UpdatedFits
  <2> QED
    BY <2>2, <2>3
<1>2. after = [d \in Device |-> after[d]]
  BY DEF HandleFrame
<1> HIDE DEF after
<1>3. SamplesFit(after)
  BY <1>1, <1>2 DEF SamplesFit
<1> QED
  BY <1>3 DEF after

\* So does a whole datagram.
LEMMA SamplesAfterFit ==
  ASSUME SamplesFit(samples), NEW channel, NEW packet, Len(packet) \in Nat
  PROVE  SamplesFit(SamplesAfter(channel, packet))
<1> DEFINE n == Len(packet)
<1>1. PICK f : SamplesAfter(channel, packet) = f[n] /\ SamplesStepwise(f, n, channel, packet)
  BY SamplesSteps
<1> DEFINE G == {i \in 0..n : SamplesFit(f[i])}
<1>2. 0 \in G
  BY <1>1 DEF SamplesStepwise
<1>3. ASSUME NEW i \in 1..n, i - 1 \in G PROVE i \in G
  BY <1>1, <1>3, HandleFrameFits DEF SamplesStepwise
<1>4. n \in G
  <2>1. G \in SUBSET (0..n)
    OBVIOUS
  <2> HIDE DEF G
  <2> QED
    BY <1>2, <1>3, <2>1, UpTo
<1> QED
  BY <1>1, <1>4

\* Decoding stops at the first invalid frame.
LEMMA DecodedIsSeq ==
  ASSUME NEW packet, IsSeq(packet)
  PROVE  /\ Len(Decoded(packet)) \in Nat
         /\ \A i \in 1..Len(Decoded(packet)) :
               /\ FrameValid(Decoded(packet)[i])
               /\ i \in 1..Len(packet) /\ Decoded(packet)[i] = packet[i]
<1> DEFINE n == Len(packet)
           Stops(k) == /\ \A i \in 1..k : FrameValid(packet[i])
                       /\ k < n => ~FrameValid(packet[k + 1])
           G == {k \in 0..n : \A i \in 1..k : FrameValid(packet[i])}
<1>1. n \in Nat
  BY SeqIsFunction
<1>2. \E k \in 0..n : Stops(k)
  <2> SUFFICES ASSUME \A k \in 0..n : ~Stops(k) PROVE FALSE
    OBVIOUS
  <2> HIDE DEF FrameValid
  <2>1. 0 \in G
    BY <1>1
  <2>2. ASSUME NEW k \in 1..n, k - 1 \in G PROVE k \in G
    <3>1. k - 1 \in 0..n /\ \A i \in 1..(k - 1) : FrameValid(packet[i])
      BY <2>2
    <3>2. FrameValid(packet[k])
      <4>1. ~Stops(k - 1)
        <5> HIDE DEF Stops
        <5> QED
          BY <3>1
      <4>2. (k - 1) + 1 = k /\ k - 1 < n
        BY <1>1
      <4> QED
        BY <3>1, <4>1, <4>2
    <3>3. \A i \in 1..k : i = k \/ i \in 1..(k - 1)
      OBVIOUS
    <3> QED
      BY <1>1, <3>1, <3>2, <3>3
  <2>3. n \in G
    <3>1. G \in SUBSET (0..n)
      OBVIOUS
    <3> HIDE DEF G
    <3> QED
      BY <1>1, <2>1, <2>2, <3>1, UpTo
  <2>4. Stops(n)
    BY <1>1, <2>3
  <2> QED
    BY <1>1, <2>4
<1> DEFINE k == CHOOSE x \in 0..n : Stops(x)
<1>3. k \in 0..n /\ \A i \in 1..k : FrameValid(packet[i])
  BY <1>2
<1>4. Decoded(packet) = SubSeq(packet, 1, k)
  BY DEF Decoded
<1> HIDE DEF k
<1>5. PICK S : packet \in Seq(S)
  BY DEF IsSeq
<1>6. /\ Len(SubSeq(packet, 1, k)) = k
      /\ \A i \in 1..k : SubSeq(packet, 1, k)[i] = packet[i] /\ i \in 1..n
  BY <1>1, <1>3, <1>5
<1> QED
  BY <1>3, <1>4, <1>6

(***************************************************************************)
(* The invariant of the link, and what sending does to it.                 *)
(***************************************************************************)

CommandPacket(channel, packet) ==
    IsSeq(packet) /\ \A i \in 1..Len(packet) : Commanded(channel, packet[i])

CommandWires ==
    /\ toGateway = [channel \in ChannelNames |-> toGateway[channel]]
    /\ \A channel \in ChannelNames :
          /\ IsSeq(toGateway[channel])
          /\ \A k \in 1..Len(toGateway[channel]) : CommandPacket(channel, toGateway[channel][k])

AnswerWires ==
    /\ toHost = [channel \in ChannelNames |-> toHost[channel]]
    /\ \A channel \in ChannelNames :
          /\ IsSeq(toHost[channel])
          /\ \A k \in 1..Len(toHost[channel]) : IsSeq(toHost[channel][k])

LinkInv ==
    /\ TopologyInv /\ CommandWires /\ AnswerWires
    /\ GivenTypes /\ MotorsUnderstand(motors) /\ SamplesFit(samples)

\* What is in a sequence with an element appended.
LEMMA Appended ==
  ASSUME NEW q, IsSeq(q), NEW x
  PROVE  /\ IsSeq(Append(q, x))
         /\ \A k \in 1..Len(Append(q, x)) :
               Append(q, x)[k] = x \/ \E j \in 1..Len(q) : Append(q, x)[k] = q[j]
<1>1. PICK S : q \in Seq(S)
  BY DEF IsSeq
<1>2. q \in Seq(S \cup {x}) /\ x \in S \cup {x}
  BY <1>1
<1>3. Append(q, x) \in Seq(S \cup {x}) /\ Len(Append(q, x)) = Len(q) + 1 /\ Len(q) \in Nat
  BY <1>2
<1>4. ASSUME NEW k \in 1..(Len(q) + 1)
      PROVE  Append(q, x)[k] = x \/ \E j \in 1..Len(q) : Append(q, x)[k] = q[j]
  BY <1>2, <1>3
<1> QED
  BY <1>3, <1>4 DEF IsSeq

\* What is in the rest of a sequence.
LEMMA Tailed ==
  ASSUME NEW q, IsSeq(q), q # <<>>
  PROVE  /\ IsSeq(Tail(q)) /\ \A k \in 1..Len(Tail(q)) : \E j \in 1..Len(q) : Tail(q)[k] = q[j]
         /\ 1 \in 1..Len(q) /\ Head(q) = q[1]
<1>1. PICK S : q \in Seq(S)
  BY DEF IsSeq
<1>2. Tail(q) \in Seq(S) /\ Len(Tail(q)) = Len(q) - 1 /\ Len(q) \in Nat \ {0} /\ Head(q) = q[1]
  BY <1>1
<1>3. ASSUME NEW k \in 1..(Len(q) - 1) PROVE k + 1 \in 1..Len(q) /\ Tail(q)[k] = q[k + 1]
  BY <1>1, <1>2
<1> QED
  BY <1>2, <1>3 DEF IsSeq

\* The devices of a channel in a batch.
Addressed(batch, channel) ==
    {d \in DOMAIN batch \cap Device : CommandChannel(d) = channel /\ FrameFor(d, batch[d]) # {}}

\* A batch is gone through in the order of its devices.
LEMMA BatchedDevices ==
  ASSUME Len(config.motors) \in Nat, NEW batch, NEW channel
  PROVE  Batched(batch, channel) \in Seq(Addressed(batch, channel))
<1> DEFINE A == Addressed(batch, channel)
           S == Seq(A)
           N == Len(config.motors)
           Takes(n) == n \in DOMAIN batch /\ CommandChannel(n) = channel /\ FrameFor(n, batch[n]) # {}
           next == [n \in 1..N |-> [s \in S |-> IF Takes(n) THEN Append(s, n) ELSE s]]
           Is(f) == f = [n \in 0..N |-> IF n = 0 THEN <<>>
                                        ELSE IF Takes(n) THEN Append(f[n - 1], n) ELSE f[n - 1]]
<1>1. \A n \in 1..N : Takes(n) => n \in A
  BY DEF Addressed, Device, Index
<1>2. Batched(batch, channel) = (CHOOSE f : Is(f))[N]
  BY DEF Batched
<1> HIDE DEF A, Takes
<1>3. \A n \in 1..N, s \in S : (IF Takes(n) THEN Append(s, n) ELSE s) \in S
  BY <1>1
<1>4. <<>> \in S
  OBVIOUS
<1>5. PICK f \in [0..N -> S] : Iterates(f, N, <<>>, next)
  <2>1. next \in [1..N -> [S -> S]]
    BY <1>3
  <2> HIDE DEF next, N, S
  <2>2. N \in Nat
    BY DEF N
  <2> QED
    BY <1>4, <2>1, <2>2, Recursion DEF Recursive
<1> HIDE DEF S, N
<1>6. N \in Nat
  BY DEF N
<1>7. Is(f)
  <2>1. ASSUME NEW n \in 1..N PROVE f[n] = IF Takes(n) THEN Append(f[n - 1], n) ELSE f[n - 1]
    <3>1. f[n - 1] \in S
      BY <1>6
    <3> QED
      BY <1>5, <3>1 DEF Iterates
  <2> HIDE DEF next
  <2>2. \A n \in 0..N : f[n] = IF n = 0 THEN <<>>
                               ELSE IF Takes(n) THEN Append(f[n - 1], n) ELSE f[n - 1]
    <3>1. \A n \in 0..N : n = 0 \/ n \in 1..N
      BY <1>6
    <3> QED
      BY <1>5, <2>1, <3>1 DEF Iterates
  <2> QED
    BY <2>2
<1> DEFINE g == CHOOSE h : Is(h)
<1>8. Is(g)
  BY <1>7
<1> HIDE DEF g
<1>9. g[0] = <<>> /\ \A n \in 1..N : g[n] = IF Takes(n) THEN Append(g[n - 1], n) ELSE g[n - 1]
  <2>1. 0 \in 0..N /\ \A n \in 1..N : n \in 0..N /\ n # 0
    BY <1>6
  <2>2. g[0] = <<>>
    BY <1>8, <2>1
  <2>3. ASSUME NEW n \in 1..N PROVE g[n] = IF Takes(n) THEN Append(g[n - 1], n) ELSE g[n - 1]
    <3>1. n \in 0..N /\ n # 0
      BY <2>1
    <3> QED
      BY <1>8, <3>1
  <2> HIDE DEF Is
  <2> QED
    BY <2>2, <2>3
<1> DEFINE G == {n \in 0..N : g[n] \in S}
<1>10. N \in G
  <2>1. 0 \in G
    BY <1>4, <1>6, <1>9
  <2>2. ASSUME NEW n \in 1..N, n - 1 \in G PROVE n \in G
    BY <1>3, <1>9, <2>2
  <2>3. G \in SUBSET (0..N)
    OBVIOUS
  <2> HIDE DEF G
  <2> QED
    BY <1>6, <2>1, <2>2, <2>3, UpTo
<1> QED
  BY <1>2, <1>10 DEF g, S, A, N

\* The packet for a channel has one frame for each of its devices.
LEMMA PacketFrames ==
  ASSUME Len(config.motors) \in Nat, NEW batch, NEW channel
  PROVE  /\ IsSeq(PacketFor(batch, channel))
         /\ \A i \in 1..Len(PacketFor(batch, channel)) :
               \E d \in Addressed(batch, channel) :
                   PacketFor(batch, channel)[i] \in FrameFor(d, batch[d])
<1> DEFINE devices == Batched(batch, channel)
           n == Len(devices)
           FrameOf(i) == CHOOSE f \in FrameFor(devices[i], batch[devices[i]]) : TRUE
           packet == [i \in 1..n |-> FrameOf(i)]
           S == {FrameOf(i) : i \in 1..n}
<1>1. devices \in Seq(Addressed(batch, channel)) /\ n \in Nat
  BY BatchedDevices
<1>2. \A i \in 1..n : devices[i] \in Addressed(batch, channel)
  BY <1>1
<1>3. PacketFor(batch, channel) = packet
  BY DEF PacketFor, Index
<1> HIDE DEF devices
<1>4. ASSUME NEW i \in 1..n PROVE FrameOf(i) \in FrameFor(devices[i], batch[devices[i]])
  BY <1>2 DEF Addressed
<1> HIDE DEF n, FrameOf
<1>5. packet \in Seq(S) /\ Len(packet) = n /\ \A i \in 1..n : packet[i] = FrameOf(i)
  <2>1. n \in Nat
    BY <1>1
  <2>2. packet \in [1..n -> S]
    OBVIOUS
  <2>3. \A i \in 1..n : packet[i] = FrameOf(i)
    OBVIOUS
  <2> HIDE DEF packet, S
  <2> QED
    BY <2>1, <2>2, <2>3
<1> HIDE DEF packet
<1>6. IsSeq(packet)
  BY <1>5 DEF IsSeq
<1>7. ASSUME NEW i \in 1..Len(packet)
      PROVE  \E d \in Addressed(batch, channel) : packet[i] \in FrameFor(d, batch[d])
  <2>1. i \in 1..n
    BY <1>5
  <2> QED
    BY <1>2, <1>4, <1>5, <2>1
<1> DEFINE Goal(p) == /\ IsSeq(p)
                      /\ \A i \in 1..Len(p) : \E d \in Addressed(batch, channel) :
                            p[i] \in FrameFor(d, batch[d])
<1>8. Goal(packet)
  BY <1>6, <1>7
<1> HIDE DEF Goal
<1>9. Goal(PacketFor(batch, channel))
  BY <1>3, <1>8
<1> QED
  BY <1>9 DEF Goal

\* What was commanded stays commanded.
GivenGrows == config' = config /\ \A d \in Device : given[d] \subseteq given'[d]

\* A datagram stays one of commands while commands are only added.
LEMMA CommandedStays ==
  ASSUME GivenGrows, NEW channel, NEW packet, CommandPacket(channel, packet)
  PROVE  CommandPacket(channel, packet)'
<1>1. ASSUME NEW frame, Commanded(channel, frame) PROVE Commanded(channel, frame)'
  BY <1>1 DEF GivenGrows, Commanded, CommandedFor, AddressOf, Device
<1> QED
  BY <1>1 DEF CommandPacket

\* A motor stays in agreement with its commands while they are only added.
LEMMA UnderstoodStays ==
  ASSUME NEW d, NEW m, NEW few, NEW many, few \subseteq many, Understood(d, m, few)
  PROVE  Understood(d, m, many)
  BY DEF Understood

\* What a command means to a motor does not change with the state.
LEMMA UnderstoodAlike ==
  ASSUME UNCHANGED config, NEW d, NEW m, NEW commands
  PROVE  Understood(d, m, commands)' <=> Understood(d, m, commands)
<1>1. SpecOf(d)' = SpecOf(d)
  BY DEF SpecOf
<1>2. \A target, c : Follows(d, target, c)' <=> Follows(d, target, c)
  BY <1>1 DEF Follows
<1> QED
  BY <1>2 DEF Understood

\* A batch goes to the motors it names, and what it sends is on record.
LEMMA TransmitKeeps ==
  ASSUME LinkInv, phase = "bound", UNCHANGED topology, NEW batch, DOMAIN batch \subseteq Device,
         \A d \in DOMAIN batch : Command(batch[d]), NEW busy, Transmit(batch, busy)
  PROVE  LinkInv'
<1> USE DEF LinkInv
<1>1. UNCHANGED <<config, phase, visited, drivers, bindings, toHost, motors, samples>>
  BY DEF topology, Transmit
<1>2. Device' = Device /\ ChannelNames' = ChannelNames
  BY <1>1 DEF Device, ChannelNames
<1>3. /\ toGateway' = [channel \in ChannelNames |->
            IF channel \in busy \/ PacketFor(batch, channel) = <<>>
            THEN toGateway[channel] ELSE Append(toGateway[channel], PacketFor(batch, channel))]
      /\ given' = [d \in Device |-> IF d \in Sent(batch, busy) /\ batch[d].type # "query"
                                     THEN given[d] \cup {batch[d]} ELSE given[d]]
  BY DEF Transmit
<1>4. GivenGrows
  BY <1>1, <1>3 DEF GivenGrows
<1>5. GivenTypes'
  <2>1. ASSUME NEW d \in Device, NEW c \in given'[d] PROVE Command(c)
    <3>1. c \in given[d] \/ (d \in DOMAIN batch /\ c = batch[d])
      BY <1>3, <2>1 DEF Sent
    <3> QED
      BY <3>1 DEF GivenTypes
  <2>2. given' = [d \in Device |-> given'[d]]
    BY <1>3
  <2> QED
    BY <1>2, <2>1, <2>2 DEF GivenTypes
<1>6. MotorsUnderstand(motors)'
  <2>1. ASSUME NEW d \in Device PROVE IsMotor(motors[d]) /\ Understood(d, motors[d], given'[d])
    BY <1>4, UnderstoodStays DEF GivenGrows, MotorsUnderstand
  <2> QED
    BY <1>1, <1>2, <2>1, UnderstoodAlike DEF MotorsUnderstand
<1>7. CommandWires'
  <2>1. ASSUME NEW channel \in ChannelNames, channel \notin busy
        PROVE  \A p : p = PacketFor(batch, channel) => CommandPacket(channel, p)'
    <3> SUFFICES ASSUME NEW packet, packet = PacketFor(batch, channel)
                 PROVE  CommandPacket(channel, packet)'
      OBVIOUS
    <3>1. Len(config.motors) \in Nat
      BY ConfigsAreRecords DEF TopologyInv, TopologyTypes
    <3>2. /\ IsSeq(packet)
          /\ \A i \in 1..Len(packet) : \E d \in Addressed(batch, channel) :
                packet[i] \in FrameFor(d, batch[d])
      BY <3>1, PacketFrames
    <3>3. ASSUME NEW d \in Addressed(batch, channel), NEW frame \in FrameFor(d, batch[d])
          PROVE  Commanded(channel, frame)'
      <4>1. /\ d \in Device /\ d \in DOMAIN batch /\ CommandChannel(d) = channel
            /\ FrameFor(d, batch[d]) # {}
        BY DEF Addressed
      <4>2. CommandTarget(d) = d /\ CommandChannel(d) = config.motors[d].channel
        BY <4>1, InvRoutesAgree DEF RoutesAgree, Device
      <4>3. frame \in Encode(AddressOf(d), batch[d])
        BY <4>2 DEF FrameFor
      <4>4. d \in Sent(batch, busy)
        BY <2>1, <4>1 DEF Sent
      <4>5. batch[d].type = "query" => batch[d] \in QueryCommand
        <5>1. Command(batch[d])
          BY <4>1
        <5> QED
          BY <5>1, CommandSorts
      <4>6. batch[d] \in given'[d] \cup QueryCommand
        BY <1>3, <4>1, <4>4, <4>5
      <4>7. AddressOf(d)' = AddressOf(d)
        BY <1>1 DEF AddressOf
      <4> QED
        BY <1>1, <1>2, <4>1, <4>2, <4>3, <4>6, <4>7 DEF Commanded, CommandedFor
    <3>4. \A i \in 1..Len(packet) : Commanded(channel, packet[i])'
      BY <3>2, <3>3
    <3> QED
      BY <3>2, <3>4 DEF CommandPacket
  <2>2. ASSUME NEW channel \in ChannelNames
        PROVE  /\ IsSeq(toGateway'[channel])
               /\ \A k \in 1..Len(toGateway'[channel]) : \A p :
                     p = toGateway'[channel][k] => CommandPacket(channel, p)'
    <3> DEFINE q == toGateway[channel]
               x == PacketFor(batch, channel)
    <3>1. /\ IsSeq(q) /\ \A k \in 1..Len(q) : CommandPacket(channel, q[k])
      BY DEF CommandWires
    <3>2. \A k \in 1..Len(q) : \A p : p = q[k] => CommandPacket(channel, p)'
      BY <1>4, <3>1, CommandedStays
    <3> HIDE DEF q, x
    <3>3. CASE toGateway'[channel] = q
      BY <3>1, <3>2, <3>3
    <3>4. CASE channel \notin busy /\ toGateway'[channel] = Append(q, x)
      <4>1. IsSeq(Append(q, x)) /\ \A k \in 1..Len(Append(q, x)) :
               Append(q, x)[k] = x \/ \E j \in 1..Len(q) : Append(q, x)[k] = q[j]
        BY <3>1, Appended
      <4>2. \A p : p = x => CommandPacket(channel, p)'
        BY <2>1, <3>4 DEF x
      <4> QED
        BY <3>2, <3>4, <4>1, <4>2
    <3> QED
      BY <1>3, <3>3, <3>4 DEF q, x
  <2>3. toGateway' = [channel \in ChannelNames |-> toGateway'[channel]]
    BY <1>3
  <2> QED
    BY <1>2, <2>2, <2>3 DEF CommandWires
<1>8. TopologyInv' /\ AnswerWires' /\ SamplesFit(samples)'
  <2>1. TopologyInv'
    BY <1>1, TopologyNext DEF vars
  <2>2. AnswerWires'
    BY <1>1, <1>2 DEF AnswerWires
  <2>3. SamplesFit(samples)'
    BY <1>1, <1>2 DEF SamplesFit
  <2> QED
    BY <2>1, <2>2, <2>3
<1> QED
  BY <1>5, <1>6, <1>7, <1>8

(***************************************************************************)
(* Every step of the link keeps its invariant.                             *)
(***************************************************************************)

\* A step that changes neither configuration nor commands keeps what was sent.
LEMMA SameGiven ==
  ASSUME LinkInv, UNCHANGED <<config, given>>
  PROVE  /\ GivenTypes' /\ Device' = Device /\ ChannelNames' = ChannelNames /\ GivenGrows
         /\ UNCHANGED motors => MotorsUnderstand(motors)'
         /\ UNCHANGED toGateway => CommandWires'
         /\ UNCHANGED toHost => AnswerWires'
         /\ UNCHANGED samples => SamplesFit(samples)'
<1> USE DEF LinkInv
<1>1. Device' = Device /\ ChannelNames' = ChannelNames
  BY DEF Device, ChannelNames
<1>2. GivenGrows
  BY DEF GivenGrows
<1>3. GivenTypes'
  BY <1>1 DEF GivenTypes
<1>4. ASSUME UNCHANGED motors PROVE MotorsUnderstand(motors)'
  BY <1>1, <1>4, UnderstoodAlike DEF MotorsUnderstand
<1>5. ASSUME UNCHANGED toGateway PROVE CommandWires'
  <2>1. ASSUME NEW channel \in ChannelNames, NEW k \in 1..Len(toGateway[channel])
        PROVE  \A p : p = toGateway[channel][k] => CommandPacket(channel, p)'
    BY <1>2, CommandedStays DEF CommandWires
  <2> QED
    BY <1>1, <1>5, <2>1 DEF CommandWires
<1>6. ASSUME UNCHANGED toHost PROVE AnswerWires'
  BY <1>1, <1>6 DEF AnswerWires
<1>7. ASSUME UNCHANGED samples PROVE SamplesFit(samples)'
  BY <1>1, <1>7 DEF SamplesFit
<1> QED
  BY <1>1, <1>2, <1>3, <1>4, <1>5, <1>6, <1>7

\* A step that leaves the runtime alone keeps its invariant.
LEMMA TopologyStays == TopologyInv /\ UNCHANGED topology => TopologyInv'
  BY TopologyNext DEF topology, vars

\* The first datagram of a channel leaves its wire.
LEMMA CommandLeaves ==
  ASSUME LinkInv, UNCHANGED <<config, given>>, NEW channel \in ChannelNames,
         toGateway[channel] # <<>>,
         toGateway' = [toGateway EXCEPT ![channel] = Tail(@)]
  PROVE  CommandWires' /\ CommandPacket(channel, Head(toGateway[channel]))
<1> USE DEF LinkInv
<1>1. GivenGrows /\ ChannelNames' = ChannelNames
  BY SameGiven
<1> DEFINE q == toGateway[channel]
<1>2. IsSeq(q) /\ \A k \in 1..Len(q) : CommandPacket(channel, q[k])
  BY DEF CommandWires
<1>3. /\ IsSeq(Tail(q)) /\ \A k \in 1..Len(Tail(q)) : \E j \in 1..Len(q) : Tail(q)[k] = q[j]
      /\ 1 \in 1..Len(q) /\ Head(q) = q[1]
  BY <1>2, Tailed
<1>4. \A k \in 1..Len(q) : \A p : p = q[k] => CommandPacket(channel, p)'
  BY <1>1, <1>2, CommandedStays
<1> HIDE DEF q
<1>5. ASSUME NEW other \in ChannelNames
      PROVE  /\ IsSeq(toGateway'[other])
             /\ \A k \in 1..Len(toGateway'[other]) : \A p :
                   p = toGateway'[other][k] => CommandPacket(other, p)'
  <2>1. CASE other = channel
    <3>1. toGateway'[other] = Tail(q)
      BY <2>1 DEF CommandWires, q
    <3>2. ASSUME NEW k \in 1..Len(Tail(q)), NEW p, p = Tail(q)[k]
          PROVE  CommandPacket(channel, p)'
      BY <1>3, <1>4, <3>2
    <3>3. ASSUME NEW p, CommandPacket(channel, p)' PROVE CommandPacket(other, p)'
      BY <2>1, <3>3 DEF CommandPacket, Commanded
    <3> QED
      BY <1>3, <3>1, <3>2, <3>3
  <2>2. CASE other # channel
    <3>1. toGateway'[other] = toGateway[other]
      BY <2>2 DEF CommandWires
    <3>2. /\ IsSeq(toGateway[other])
          /\ \A k \in 1..Len(toGateway[other]) : CommandPacket(other, toGateway[other][k])
      BY DEF CommandWires
    <3>3. \A k \in 1..Len(toGateway[other]) : \A p :
             p = toGateway[other][k] => CommandPacket(other, p)'
      BY <1>1, <3>2, CommandedStays
    <3> QED
      BY <3>1, <3>2, <3>3
  <2> QED
    BY <2>1, <2>2
<1>6. toGateway' = [c \in ChannelNames |-> toGateway'[c]]
  BY DEF CommandWires
<1>7. CommandWires'
  BY <1>1, <1>5, <1>6 DEF CommandWires
<1>8. CommandPacket(channel, Head(q))
  BY <1>2, <1>3
<1> QED
  BY <1>7, <1>8 DEF q

\* The first answer of a channel leaves its wire.
LEMMA AnswerLeaves ==
  ASSUME LinkInv, UNCHANGED <<config, given>>, NEW channel \in ChannelNames,
         toHost[channel] # <<>>,
         toHost' = [toHost EXCEPT ![channel] = Tail(@)]
  PROVE  AnswerWires' /\ IsSeq(Head(toHost[channel]))
<1> USE DEF LinkInv
<1>1. ChannelNames' = ChannelNames
  BY SameGiven
<1> DEFINE q == toHost[channel]
<1>2. IsSeq(q) /\ \A k \in 1..Len(q) : IsSeq(q[k])
  BY DEF AnswerWires
<1>3. /\ IsSeq(Tail(q)) /\ \A k \in 1..Len(Tail(q)) : \E j \in 1..Len(q) : Tail(q)[k] = q[j]
      /\ 1 \in 1..Len(q) /\ Head(q) = q[1]
  BY <1>2, Tailed
<1> HIDE DEF q
<1>4. ASSUME NEW other \in ChannelNames
      PROVE  /\ IsSeq(toHost'[other])
             /\ \A k \in 1..Len(toHost'[other]) : IsSeq(toHost'[other][k])
  <2>1. CASE other = channel
    <3>1. toHost'[other] = Tail(q)
      BY <2>1 DEF AnswerWires, q
    <3> QED
      BY <1>2, <1>3, <3>1
  <2>2. CASE other # channel
    <3>1. toHost'[other] = toHost[other]
      BY <2>2 DEF AnswerWires
    <3> QED
      BY <3>1 DEF AnswerWires
  <2> QED
    BY <2>1, <2>2
<1>5. toHost' = [c \in ChannelNames |-> toHost'[c]]
  BY DEF AnswerWires
<1>6. AnswerWires'
  BY <1>1, <1>4, <1>5 DEF AnswerWires
<1>7. IsSeq(Head(q))
  BY <1>2, <1>3
<1> QED
  BY <1>6, <1>7 DEF q

\* A lost command changes no motor.
LEMMA LoseCommandKeeps ==
  ASSUME LinkInv, NEW channel \in ChannelNames, LoseCommand(channel)
  PROVE  LinkInv'
<1>1. /\ UNCHANGED <<config, toHost, motors, samples, given>> /\ UNCHANGED topology
      /\ toGateway[channel] # <<>> /\ toGateway' = [toGateway EXCEPT ![channel] = Tail(@)]
  BY DEF LoseCommand, topology
<1> QED
  BY <1>1, SameGiven, CommandLeaves, TopologyStays DEF LinkInv

\* A lost answer changes no sample.
LEMMA LoseAnswerKeeps ==
  ASSUME LinkInv, NEW channel \in ChannelNames, LoseAnswer(channel)
  PROVE  LinkInv'
<1>1. /\ UNCHANGED <<config, toGateway, motors, samples, given>> /\ UNCHANGED topology
      /\ toHost[channel] # <<>> /\ toHost' = [toHost EXCEPT ![channel] = Tail(@)]
  BY DEF LoseAnswer, topology
<1> QED
  BY <1>1, SameGiven, AnswerLeaves, TopologyStays DEF LinkInv

\* A datagram received only updates the samples.
LEMMA HostReceivesKeeps ==
  ASSUME LinkInv, NEW channel \in ChannelNames, HostReceives(channel)
  PROVE  LinkInv'
<1> DEFINE packet == Decoded(Head(toHost[channel]))
<1>1. /\ UNCHANGED <<config, toGateway, motors, given>> /\ UNCHANGED topology
      /\ toHost[channel] # <<>> /\ toHost' = [toHost EXCEPT ![channel] = Tail(@)]
      /\ samples' = SamplesAfter(channel, packet)
  BY DEF HostReceives, topology
<1>2. AnswerWires' /\ IsSeq(Head(toHost[channel]))
  BY <1>1, AnswerLeaves
<1>3. Len(packet) \in Nat
  BY <1>2, DecodedIsSeq
<1> HIDE DEF packet
<1>4. \A s : s = samples' => SamplesFit(s)
  BY <1>1, <1>3, SamplesAfterFit DEF LinkInv
<1>5. Device' = Device
  BY <1>1, SameGiven
<1>6. SamplesFit(samples)'
  BY <1>4, <1>5 DEF SamplesFit
<1> QED
  BY <1>1, <1>2, <1>6, SameGiven, TopologyStays DEF LinkInv

\* A datagram handled leaves every motor as it was told.
LEMMA GatewayHandlesKeeps ==
  ASSUME LinkInv, NEW channel \in ChannelNames, GatewayHandles(channel)
  PROVE  LinkInv'
<1> DEFINE done == Handled(channel, Head(toGateway[channel]))
<1>1. /\ UNCHANGED <<config, samples, given>> /\ UNCHANGED topology /\ phase = "bound"
      /\ toGateway[channel] # <<>> /\ toGateway' = [toGateway EXCEPT ![channel] = Tail(@)]
      /\ motors' = done.motors
  BY DEF GatewayHandles, topology
<1>2. CommandWires' /\ CommandPacket(channel, Head(toGateway[channel]))
  BY <1>1, CommandLeaves
<1>3. HandledState(done)
  BY <1>1, <1>2, HandledUnderstood DEF LinkInv, CommandPacket
<1>4. PICK noise \in NoiseHere : toHost' = [toHost EXCEPT ![channel] =
         IF done.answers = <<>> THEN @ ELSE Append(@, noise \o done.answers)]
  BY DEF GatewayHandles
<1> HIDE DEF done
<1>5. MotorsUnderstand(motors)'
  <2>1. \A ms : ms = motors' => MotorsUnderstand(ms)
    BY <1>1, <1>3 DEF HandledState
  <2>2. Device' = Device
    BY <1>1, SameGiven
  <2> QED
    BY <1>1, <2>1, <2>2, UnderstoodAlike DEF MotorsUnderstand
<1>6. IsSeq(noise \o done.answers)
  <2>1. IsSeq(noise)
    <3>1. <<>> \in Seq({})
      OBVIOUS
    <3>2. noise \in Seq(Frame) \/ noise = <<>>
      BY NoiseIsFrames DEF NoiseHere
    <3> QED
      BY <3>1, <3>2 DEF IsSeq
  <2> QED
    BY <1>3, <2>1, JoinedIsSeq DEF HandledState
<1>7. AnswerWires'
  <2> DEFINE q == toHost[channel]
             x == noise \o done.answers
  <2>1. IsSeq(q) /\ \A k \in 1..Len(q) : IsSeq(q[k])
    BY DEF LinkInv, AnswerWires
  <2>2. /\ IsSeq(Append(q, x))
        /\ \A k \in 1..Len(Append(q, x)) :
              Append(q, x)[k] = x \/ \E j \in 1..Len(q) : Append(q, x)[k] = q[j]
    BY <2>1, Appended
  <2>3. IsSeq(x)
    BY <1>6
  <2>4. toHost'[channel] = q \/ toHost'[channel] = Append(q, x)
    BY <1>4 DEF LinkInv, AnswerWires
  <2> HIDE DEF q, x
  <2>5. ASSUME NEW other \in ChannelNames
        PROVE  /\ IsSeq(toHost'[other])
               /\ \A k \in 1..Len(toHost'[other]) : IsSeq(toHost'[other][k])
    <3>1. CASE other = channel
      BY <2>1, <2>2, <2>3, <2>4, <3>1
    <3>2. CASE other # channel
      <4>1. toHost'[other] = toHost[other]
        BY <1>4, <3>2 DEF LinkInv, AnswerWires
      <4> QED
        BY <4>1 DEF LinkInv, AnswerWires
    <3> QED
      BY <3>1, <3>2
  <2>6. toHost' = [c \in ChannelNames |-> toHost'[c]]
    BY <1>4 DEF LinkInv, AnswerWires
  <2>7. ChannelNames' = ChannelNames
    BY <1>1, SameGiven
  <2> QED
    BY <2>5, <2>6, <2>7 DEF AnswerWires
<1> QED
  BY <1>1, <1>2, <1>5, <1>7, SameGiven, TopologyStays DEF LinkInv

\* A command of one device is a batch of one.
LEMMA CallKeeps ==
  ASSUME LinkInv, config \in DOMAIN Calling, NEW call \in Calling[config],
         Call(call.device, call.command)
  PROVE  LinkInv'
<1> DEFINE batch == [d \in {call.device} |-> call.command]
<1>1. call.device \in Device /\ Command(call.command)
  BY CallsAreCommands DEF Device, Index
<1>2. DOMAIN batch \subseteq Device /\ \A d \in DOMAIN batch : Command(batch[d])
  BY <1>1
<1>3. phase = "bound" /\ UNCHANGED topology /\ Transmit(batch, {})
  BY DEF Call
<1> HIDE DEF batch
<1> QED
  BY <1>2, <1>3, TransmitKeeps

\* Every step of the link keeps its invariant.
LEMMA LinkNextKeeps == LinkInv /\ LinkNext => LinkInv'
<1> SUFFICES ASSUME LinkInv, LinkNext PROVE LinkInv'
  OBVIOUS
<1>1. CASE Next /\ UNCHANGED link
  <2>1. TopologyInv'
    BY <1>1, TopologyNext DEF LinkInv
  <2>2. UNCHANGED <<config, given, motors, toGateway, toHost, samples>>
    BY <1>1 DEF link, Next, Validate, InitDrivers, InitThrows, DriversReady, BindMotor, BindEnds
  <2> QED
    BY <2>1, <2>2, SameGiven DEF LinkInv
<1>2. CASE config \in DOMAIN Calling /\ \E call \in Calling[config] : Call(call.device, call.command)
  BY <1>2, CallKeeps
<1>3. CASE \E channel \in ChannelNames : NetworkStep(channel)
  BY <1>3, GatewayHandlesKeeps, LoseCommandKeeps, LoseAnswerKeeps, HostReceivesKeeps DEF NetworkStep
<1> QED
  BY <1>1, <1>2, <1>3 DEF LinkNext

\* Nothing is sent, and no motor has a target.
LEMMA LinkInitHolds == LinkInit => LinkInv
<1> SUFFICES ASSUME LinkInit PROVE LinkInv
  OBVIOUS
<1> USE DEF LinkInit
<1>1. TopologyInv
  BY TopologyInit
<1>2. IsSeq(<<>>) /\ Len(<<>>) = 0
  <2>1. <<>> \in Seq({})
    OBVIOUS
  <2> QED
    BY <2>1 DEF IsSeq
<1>3. CommandWires
  BY <1>2 DEF CommandWires
<1>4. AnswerWires
  BY <1>2 DEF AnswerWires
<1>5. GivenTypes
  BY DEF GivenTypes
<1>6. MotorsUnderstand(motors)
  <2>1. Factory \in [DOMAIN SetCode -> Seq(Nat)]
    BY FactoryIsWords
  <2> QED
    BY <2>1 DEF MotorsUnderstand, IsMotor, Understood
<1>7. SamplesFit(samples)
  <2>1. DOMAIN <<>> = {}
    OBVIOUS
  <2> QED
    BY <2>1 DEF SamplesFit, SampleFits
<1> QED
  BY <1>1, <1>3, <1>4, <1>5, <1>6, <1>7 DEF LinkInv

(***************************************************************************)
(* The diagnostic program.                                                 *)
(***************************************************************************)

Steps == QuerySteps \cup {"set", "restore", "smoke", "drive", "done"}

ProbePlaced ==
    config \in Probing =>
        /\ at \in Device /\ step \in Steps
        /\ step = "query" => index \in Index(Queries)
        /\ step = "smoke" => index \in 1..SmokeBatches
        /\ step \in {"set", "verify", "restore", "restored"} => original \in Number

ProbeInv == LinkInv /\ ProbePlaced

\* The program has a first motor and a first query.
LEMMA FirstOfProbe ==
  ASSUME LinkInv, config \in Probing
  PROVE  /\ Len(config.motors) \in Nat \ {0} /\ 1 \in Device /\ 1 \in Index(Queries)
         /\ Device = 1..Len(config.motors) /\ Len(Queries) \in Nat \ {0}
         /\ \A i \in Index(Queries) : Queries[i] \in DOMAIN QueryCode
<1>1. Len(config.motors) \in Nat \ {0}
  BY ProbingIsPart, ConfigsAreRecords
<1>2. Len(Queries) \in Nat \ {0} /\ \A i \in 1..Len(Queries) : Queries[i] \in DOMAIN QueryCode
  BY QueriesAreCodes
<1> QED
  BY <1>1, <1>2 DEF Device, Index

\* Where a step goes, the program is in place.
LEMMA GotoPlaced ==
  ASSUME LinkInv, config \in Probing, config' = config,
         NEW where \in Steps, NEW d \in Device, NEW i, Goto(where, d, i),
         where = "query" => i \in Index(Queries), where = "smoke" => i \in 1..SmokeBatches,
         where \in {"set", "verify", "restore", "restored"} => original' \in Number
  PROVE  ProbePlaced'
<1>1. step' = where /\ at' = d /\ index' = i
  BY DEF Goto
<1>2. Device' = Device
  BY DEF Device
<1> QED
  BY <1>1, <1>2 DEF ProbePlaced

\* The next motor, or the first of the control commands, is in place.
LEMMA NextMotorPlaced ==
  ASSUME LinkInv, config \in Probing, config' = config, at \in Device, NextMotor
  PROVE  ProbePlaced'
<1>1. /\ Len(config.motors) \in Nat \ {0} /\ 1 \in Device /\ 1 \in Index(Queries)
      /\ Device = 1..Len(config.motors)
  BY FirstOfProbe
<1>2. 1 \in 1..SmokeBatches /\ "query" \in Steps /\ "smoke" \in Steps
  BY DEF SmokeBatches, Steps, QuerySteps
<1>3. CASE at < Len(config.motors) /\ Goto("query", at + 1, 1)
  <2>1. at + 1 \in Device
    BY <1>1, <1>3
  <2> QED
    BY <1>1, <1>2, <1>3, <2>1, GotoPlaced
<1>4. CASE Goto("smoke", 1, 1)
  BY <1>1, <1>2, <1>4, GotoPlaced
<1> QED
  BY <1>3, <1>4 DEF NextMotor

\* What Ask sends is a query of a code there is.
LEMMA QuerySent ==
  ASSUME ProbeInv, Running, step \in QuerySteps
  PROVE  LET query == [d \in {at} |-> [type |-> "query", code |-> CodeAsked]]
         IN  DOMAIN query \subseteq Device /\ \A d \in DOMAIN query : Command(query[d])
<1>1. at \in Device /\ (step = "query" => index \in Index(Queries))
  BY DEF ProbeInv, ProbePlaced, Running
<1>2. CodeAsked \in DOMAIN QueryCode
  <2>1. CASE step = "query"
    <3>1. CodeAsked = Queries[index]
      BY <2>1 DEF CodeAsked
    <3> QED
      BY <1>1, <2>1, <3>1, FirstOfProbe DEF ProbeInv, Running
  <2>2. CASE step # "query"
    BY <2>2 DEF CodeAsked, QueryCode
  <2> QED
    BY <2>1, <2>2
<1> DEFINE c == [type |-> "query", code |-> CodeAsked]
<1>3. c \in QueryCommand /\ c.type = "query"
  BY <1>2 DEF QueryCommand
<1> HIDE DEF c
<1>4. Command(c)
  BY <1>3 DEF Command
<1> QED
  BY <1>1, <1>4 DEF c

\* A query is sent or refused.
LEMMA AskKeeps == ProbeInv /\ Ask => ProbeInv'
<1> SUFFICES ASSUME ProbeInv, Ask PROVE ProbeInv'
  OBVIOUS
<1> DEFINE query == [d \in {at} |-> [type |-> "query", code |-> CodeAsked]]
<1>1. /\ Running /\ step \in QuerySteps /\ UNCHANGED topology /\ config' = config
      /\ LinkInv /\ phase = "bound" /\ config \in Probing
      /\ at \in Device /\ (step = "query" => index \in Index(Queries))
  BY DEF Ask, Running, topology, ProbeInv, ProbePlaced
<1>2. DOMAIN query \subseteq Device /\ \A d \in DOMAIN query : Command(query[d])
  BY <1>1, QuerySent
<1>3. \E busy : Transmit(query, busy)
  BY DEF Ask
<1>4. LinkInv'
  <2> HIDE DEF query
  <2> QED
    BY <1>1, <1>2, <1>3, TransmitKeeps
<1> SUFFICES ProbePlaced'
  BY <1>4 DEF ProbeInv
<1>5. Device' = Device
  BY <1>1 DEF Device
<1>6. CASE UNCHANGED <<step, at, index, original>>
  BY <1>1, <1>5, <1>6 DEF ProbeInv, ProbePlaced
<1>7. CASE AskFailed
  <2>1. /\ Len(config.motors) \in Nat \ {0} /\ 1 \in Device
        /\ Device = 1..Len(config.motors) /\ Len(Queries) \in Nat \ {0}
    BY <1>1, FirstOfProbe
  <2>2. /\ "query" \in Steps /\ "find" \in Steps /\ "velocity" \in Steps /\ "done" \in Steps
    BY DEF Steps, QuerySteps
  <2>3. CASE step = "query" /\ index < Len(Queries) /\ Goto("query", at, index + 1)
    <3>1. index + 1 \in Index(Queries)
      BY <1>1, <2>1, <2>3 DEF Index
    <3> QED
      BY <1>1, <2>2, <2>3, <3>1, GotoPlaced
  <2>4. CASE Goto("find", at, 1)
    BY <1>1, <2>2, <2>4, GotoPlaced
  <2>5. CASE at < Len(config.motors) /\ Goto("velocity", at + 1, 1)
    <3>1. at + 1 \in Device
      BY <1>1, <2>1, <2>5
    <3> QED
      BY <1>1, <2>2, <2>5, <3>1, GotoPlaced
  <2>6. CASE Goto("done", at, 1)
    BY <1>1, <2>2, <2>6, GotoPlaced
  <2>7. CASE NextMotor
    BY <1>1, <2>7, NextMotorPlaced
  <2>8. \/ step = "query" /\ index < Len(Queries) /\ Goto("query", at, index + 1)
        \/ Goto("find", at, 1)
        \/ at < Len(config.motors) /\ Goto("velocity", at + 1, 1)
        \/ Goto("done", at, 1) \/ NextMotor
    <3>1. step = "query" => index < Len(Queries) \/ index = Len(Queries)
      BY <1>1, <2>1 DEF Index
    <3>2. at < Len(config.motors) \/ at = Len(config.motors)
      BY <1>1, <2>1
    <3>3. CASE step = "query"
      BY <1>7, <3>1, <3>3 DEF AskFailed
    <3>4. CASE step = "velocity"
      BY <1>7, <3>2, <3>4 DEF AskFailed
    <3>5. CASE step # "query" /\ step # "velocity"
      BY <1>7, <3>5 DEF AskFailed
    <3> QED
      BY <3>3, <3>4, <3>5
  <2> QED
    BY <2>3, <2>4, <2>5, <2>6, <2>7, <2>8
<1>8. UNCHANGED <<step, at, index, original>> \/ AskFailed
  BY DEF Ask
<1> QED
  BY <1>6, <1>7, <1>8

\* A step that only looks leaves the link as it is.
LEMMA LinkStays == LinkInv /\ UNCHANGED <<topology, link>> => LinkInv'
<1> SUFFICES ASSUME LinkInv, UNCHANGED <<topology, link>> PROVE LinkInv'
  OBVIOUS
<1>1. UNCHANGED <<config, given, motors, toGateway, toHost, samples>> /\ UNCHANGED topology
  BY DEF topology, link
<1> QED
  BY <1>1, SameGiven, TopologyStays DEF LinkInv

\* The steps of the program.
LEMMA StepNames ==
  /\ "query" \in Steps /\ "find" \in Steps /\ "velocity" \in Steps /\ "done" \in Steps
  /\ "set" \in Steps /\ "verify" \in Steps /\ "restore" \in Steps /\ "restored" \in Steps
  /\ "smoke" \in Steps /\ "drive" \in Steps
  BY DEF Steps, QuerySteps

\* A sample is looked at.
LEMMA LookKeeps == ProbeInv /\ Look => ProbeInv'
<1> SUFFICES ASSUME ProbeInv, Look PROVE ProbeInv'
  OBVIOUS
<1>1. /\ step \in {"query", "velocity"} /\ UNCHANGED <<topology, link>> /\ config' = config
      /\ LinkInv /\ config \in Probing
      /\ at \in Device /\ (step = "query" => index \in Index(Queries))
  BY DEF Look, Running, topology, ProbeInv, ProbePlaced
<1>2. LinkInv'
  BY <1>1, LinkStays
<1> SUFFICES ProbePlaced'
  BY <1>2 DEF ProbeInv
<1>3. /\ Len(config.motors) \in Nat \ {0} /\ 1 \in Device
      /\ Device = 1..Len(config.motors) /\ Len(Queries) \in Nat \ {0}
  BY <1>1, FirstOfProbe
<1>4. CASE step = "query" /\ index < Len(Queries) /\ Goto("query", at, index + 1)
  <2>1. index + 1 \in Index(Queries)
    BY <1>1, <1>3, <1>4 DEF Index
  <2> QED
    BY <1>1, <1>4, <2>1, StepNames, GotoPlaced
<1>5. CASE Goto("find", at, 1)
  BY <1>1, <1>5, StepNames, GotoPlaced
<1>6. CASE at < Len(config.motors) /\ Goto("velocity", at + 1, 1)
  <2>1. at + 1 \in Device
    BY <1>1, <1>3, <1>6
  <2> QED
    BY <1>1, <1>6, <2>1, StepNames, GotoPlaced
<1>7. CASE Goto("done", at, 1)
  BY <1>1, <1>7, StepNames, GotoPlaced
<1>8. CASE step = "query"
  <2>1. index < Len(Queries) \/ index = Len(Queries)
    BY <1>1, <1>3, <1>8 DEF Index
  <2>2. \/ index < Len(Queries) /\ Goto("query", at, index + 1)
        \/ Goto("find", at, 1)
    BY <1>8, <2>1 DEF Look
  <2> QED
    BY <1>4, <1>5, <1>8, <2>2
<1>9. CASE step = "velocity"
  <2>1. \/ at < Len(config.motors) /\ Goto("velocity", at + 1, 1)
        \/ Goto("done", at, 1)
    BY <1>9 DEF Look
  <2> QED
    BY <1>6, <1>7, <2>1
<1> QED
  BY <1>1, <1>8, <1>9

\* The timeout found is a number.
LEMMA FindTimeoutKeeps == ProbeInv /\ FindTimeout => ProbeInv'
<1> SUFFICES ASSUME ProbeInv, FindTimeout PROVE ProbeInv'
  OBVIOUS
<1>1. /\ UNCHANGED <<topology, link>> /\ config' = config
      /\ LinkInv /\ config \in Probing /\ at \in Device
  BY DEF FindTimeout, Running, topology, ProbeInv, ProbePlaced
<1>2. LinkInv'
  BY <1>1, LinkStays
<1> SUFFICES ProbePlaced'
  BY <1>2 DEF ProbeInv
<1>3. CASE HasSample("can_timeout") /\ original' = Timeout /\ Goto("set", at, 1)
  <2>1. original' \in Number
    BY <1>1, <1>3 DEF HasSample, Timeout, LinkInv, SamplesFit, SampleFits
  <2> QED
    BY <1>1, <1>3, <2>1, StepNames, GotoPlaced
<1>4. CASE NextMotor
  BY <1>1, <1>4, NextMotorPlaced
<1> QED
  BY <1>3, <1>4 DEF FindTimeout, GiveUpMotor

\* A set of the timeout to a number is a command.
LEMMA SetTimeoutIsCommand ==
  ASSUME NEW value \in Number
  PROVE  Command(SetTimeout(value))
<1>1. <<value>> \in [1..1 -> Number] /\ "can_timeout" \in DOMAIN SetCode
  BY DEF SetCode
<1> DEFINE c == SetTimeout(value)
<1>2. c \in ConfigCommand /\ c.type = "config"
  BY <1>1 DEF SetTimeout, ConfigCommand
<1> HIDE DEF c
<1>3. Command(c)
  BY <1>2 DEF Command
<1> QED
  BY <1>3 DEF c

\* A timeout is set or refused.
LEMMA SendTimeoutKeeps == ProbeInv /\ SendTimeout => ProbeInv'
<1> SUFFICES ASSUME ProbeInv, SendTimeout PROVE ProbeInv'
  OBVIOUS
<1> DEFINE value == IF step = "set" THEN Temporary ELSE original
           batch == [d \in {at} |-> SetTimeout(value)]
<1>1. /\ step \in {"set", "restore"} /\ UNCHANGED topology /\ config' = config
      /\ LinkInv /\ phase = "bound" /\ config \in Probing
      /\ at \in Device /\ original \in Number
  BY DEF SendTimeout, Running, topology, ProbeInv, ProbePlaced
<1>2. value \in Number
  BY <1>1 DEF Temporary, Number
<1>3. DOMAIN batch \subseteq Device /\ \A d \in DOMAIN batch : Command(batch[d])
  <2> HIDE DEF value
  <2> QED
    BY <1>1, <1>2, SetTimeoutIsCommand
<1>4. \E busy : Transmit(batch, busy)
  BY DEF SendTimeout
<1>5. LinkInv'
  <2> HIDE DEF batch
  <2> QED
    BY <1>1, <1>3, <1>4, TransmitKeeps
<1> SUFFICES ProbePlaced'
  BY <1>5 DEF ProbeInv
<1> DEFINE where == IF step = "set" THEN "verify" ELSE "restored"
<1>6. CASE Goto(where, at, 1) /\ UNCHANGED original
  <2>1. where \in {"verify", "restored"}
    OBVIOUS
  <2> HIDE DEF where
  <2>2. where \in Steps /\ where # "query" /\ where # "smoke" /\ original' \in Number
    BY <1>1, <1>6, <2>1, StepNames
  <2> QED
    BY <1>1, <1>6, <2>2, GotoPlaced
<1>7. CASE NextMotor
  BY <1>1, <1>7, NextMotorPlaced
<1> QED
  BY <1>6, <1>7 DEF SendTimeout, GiveUpMotor

\* A timeout is verified.
LEMMA VerifyKeeps == ProbeInv /\ (VerifyTimeout \/ VerifyRestored) => ProbeInv'
<1> SUFFICES ASSUME ProbeInv, VerifyTimeout \/ VerifyRestored PROVE ProbeInv'
  OBVIOUS
<1>1. /\ UNCHANGED <<topology, link>> /\ config' = config
      /\ LinkInv /\ config \in Probing /\ at \in Device /\ original \in Number
  BY DEF VerifyTimeout, VerifyRestored, Running, topology, ProbeInv, ProbePlaced
<1>2. LinkInv'
  BY <1>1, LinkStays
<1> SUFFICES ProbePlaced'
  BY <1>2 DEF ProbeInv
<1>3. CASE Goto("restore", at, 1) /\ UNCHANGED original
  BY <1>1, <1>3, StepNames, GotoPlaced
<1>4. CASE NextMotor
  BY <1>1, <1>4, NextMotorPlaced
<1> QED
  BY <1>3, <1>4 DEF VerifyTimeout, VerifyRestored, GiveUpMotor

\* Every command of the smoke test is one, whatever position was sampled.
LEMMA SmokeIsCommand ==
  ASSUME LinkInv, NEW d \in Device, NEW i \in 1..SmokeBatches
  PROVE  Command(SmokeCommand(d)[i])
<1> DEFINE position == IF "position" \in DOMAIN samples[d] THEN samples[d].position ELSE 0
<1>1. position \in Number /\ RawFloat(position)
  <2>1. SampleFits(samples[d])
    BY DEF LinkInv, SamplesFit
  <2> QED
    BY <2>1 DEF SampleFits, Number, RawFloat
<1> HIDE DEF position
<1>2. "status1" \in Replies /\ "none" \in Replies /\ \A n \in Int : n \in Number
  BY DEF Replies, ReplyMode, Number
<1> DEFINE pvt == [type |-> "pvt", kp |-> 0, kd |-> 0, position |-> 0, velocity |-> 0, torque |-> 0]
           move == [type |-> "position", velocity_limit |-> 5000, current_limit |-> 800,
                    reply |-> "status1", position |-> position]
           torque == [type |-> "torque", torque |-> 0, reply |-> "status1"]
           current == [type |-> "current", current |-> 0, reply |-> "status1"]
           brake == [type |-> "brake", control |-> "engage", current_threshold |-> 0,
                     open |-> FALSE, reply |-> "none"]
<1>3. Command(pvt)
  BY <1>2 DEF Command, ControlCommand
<1>4. Command(move)
  BY <1>1, <1>2 DEF Command, ControlCommand
<1>5. Command(DriveSlowly)
  BY <1>2 DEF DriveSlowly, Command, ControlCommand, RawFloat
<1>6. Command(torque)
  BY <1>2 DEF Command, ControlCommand
<1>7. Command(current)
  BY <1>2 DEF Command, ControlCommand
<1>8. Command(brake)
  BY <1>2 DEF Command, ControlCommand
<1>9. SmokeCommand(d) = <<pvt, move, DriveSlowly, torque, current, brake>>
  BY DEF SmokeCommand, position
<1> HIDE DEF pvt, move, torque, current, brake
<1>10. i \in {1, 2, 3, 4, 5, 6}
  BY DEF SmokeBatches
<1> QED
  BY <1>3, <1>4, <1>5, <1>6, <1>7, <1>8, <1>9, <1>10

\* What the drive sends is a command.
LEMMA DriveIsCommand == Command(DriveSlowly)
<1>1. "status1" \in Replies /\ \A n \in Int : n \in Number
  BY DEF Replies, ReplyMode, Number
<1> QED
  BY <1>1 DEF DriveSlowly, Command, ControlCommand, RawFloat

\* A batch of control commands is sent or refused.
LEMMA SendSmokeKeeps == ProbeInv /\ SendSmoke => ProbeInv'
<1> SUFFICES ASSUME ProbeInv, SendSmoke PROVE ProbeInv'
  OBVIOUS
<1> DEFINE batch == [d \in Device |-> SmokeCommand(d)[index]]
<1>1. /\ UNCHANGED topology /\ config' = config /\ LinkInv /\ phase = "bound"
      /\ config \in Probing /\ index \in 1..SmokeBatches
      /\ UNCHANGED original
  BY DEF SendSmoke, Running, topology, ProbeInv, ProbePlaced
<1>2. DOMAIN batch \subseteq Device /\ \A d \in DOMAIN batch : Command(batch[d])
  BY <1>1, SmokeIsCommand
<1>3. \E busy : Transmit(batch, busy)
  BY DEF SendSmoke
<1>4. LinkInv'
  <2> HIDE DEF batch
  <2> QED
    BY <1>1, <1>2, <1>3, TransmitKeeps
<1> SUFFICES ProbePlaced'
  BY <1>4 DEF ProbeInv
<1>5. 1 \in Device
  BY <1>1, FirstOfProbe
<1>6. CASE index < SmokeBatches /\ Goto("smoke", 1, index + 1)
  <2>1. index + 1 \in 1..SmokeBatches
    BY <1>1, <1>6 DEF SmokeBatches
  <2> QED
    BY <1>1, <1>5, <1>6, <2>1, StepNames, GotoPlaced
<1>7. CASE Goto("drive", 1, 1)
  BY <1>1, <1>5, <1>7, StepNames, GotoPlaced
<1> QED
  BY <1>6, <1>7 DEF SendSmoke

\* A round of the drive is sent or refused.
LEMMA DriveKeeps == ProbeInv /\ Drive => ProbeInv'
<1> SUFFICES ASSUME ProbeInv, Drive PROVE ProbeInv'
  OBVIOUS
<1> DEFINE batch == [d \in Device |-> DriveSlowly]
<1>1. /\ UNCHANGED topology /\ config' = config /\ LinkInv /\ phase = "bound"
      /\ config \in Probing /\ UNCHANGED original
  BY DEF Drive, Running, topology, ProbeInv
<1>2. DOMAIN batch \subseteq Device /\ \A d \in DOMAIN batch : Command(batch[d])
  BY DriveIsCommand
<1>3. \E busy : Transmit(batch, busy)
  BY DEF Drive
<1>4. LinkInv'
  <2> HIDE DEF batch
  <2> QED
    BY <1>1, <1>2, <1>3, TransmitKeeps
<1> SUFFICES ProbePlaced'
  BY <1>4 DEF ProbeInv
<1>5. 1 \in Device
  BY <1>1, FirstOfProbe
<1>6. CASE Goto("drive", 1, index + 1)
  BY <1>1, <1>5, <1>6, StepNames, GotoPlaced
<1>7. CASE Goto("done", 1, 1)
  BY <1>1, <1>5, <1>7, StepNames, GotoPlaced
<1> QED
  BY <1>6, <1>7 DEF Drive

\* The drive ends.
LEMMA DriveEndsKeeps == ProbeInv /\ DriveEnds => ProbeInv'
<1> SUFFICES ASSUME ProbeInv, DriveEnds PROVE ProbeInv'
  OBVIOUS
<1>1. /\ UNCHANGED <<topology, link>> /\ config' = config /\ LinkInv /\ config \in Probing
      /\ Goto("velocity", 1, 1)
  BY DEF DriveEnds, Running, topology, ProbeInv
<1>2. LinkInv' /\ 1 \in Device
  BY <1>1, LinkStays, FirstOfProbe
<1> QED
  BY <1>1, <1>2, StepNames, GotoPlaced DEF ProbeInv

\* Every step keeps the invariant.
LEMMA ProbeNextKeeps == ProbeInv /\ [ProbeNext]_allVars => ProbeInv'
<1> SUFFICES ASSUME ProbeInv, [ProbeNext]_allVars PROVE ProbeInv'
  OBVIOUS
<1>1. CASE UNCHANGED allVars
  <2>1. UNCHANGED <<topology, link>> /\ UNCHANGED <<config, step, at, index, original>>
    BY <1>1 DEF allVars, vars, topology, probe
  <2>2. LinkInv'
    BY <2>1, LinkStays DEF ProbeInv
  <2> QED
    BY <2>1, <2>2 DEF ProbeInv, ProbePlaced, Device
<1>2. CASE LinkNext /\ UNCHANGED probe
  <2>1. LinkInv'
    BY <1>2, LinkNextKeeps DEF ProbeInv
  <2>2. config' = config
    BY <1>2 DEF LinkNext, Call, NetworkStep, GatewayHandles, LoseCommand, LoseAnswer, HostReceives,
       topology, Next, Validate, InitDrivers, InitThrows, DriversReady, BindMotor, BindEnds
  <2>3. UNCHANGED <<step, at, index, original>>
    BY <1>2 DEF probe
  <2> QED
    BY <2>1, <2>2, <2>3 DEF ProbeInv, ProbePlaced, Device
<1>3. CASE ProbeStep
  BY <1>3, AskKeeps, LookKeeps, FindTimeoutKeeps, SendTimeoutKeeps, VerifyKeeps, SendSmokeKeeps,
     DriveKeeps, DriveEndsKeeps DEF ProbeStep
<1> QED
  BY <1>1, <1>2, <1>3 DEF ProbeNext

\* The program begins with its first query.
LEMMA ProbeInitHolds == ProbeInit => ProbeInv
<1> SUFFICES ASSUME ProbeInit PROVE ProbeInv
  OBVIOUS
<1>1. LinkInv
  BY LinkInitHolds DEF ProbeInit
<1>2. ProbePlaced
  BY <1>1, FirstOfProbe, StepNames DEF ProbeInit, ProbePlaced
<1> QED
  BY <1>1, <1>2 DEF ProbeInv

\* The inductive invariant: the runtime is built as TopologyInv says, every
\* datagram under way holds frames of commands its channel's devices accepted,
\* every motor does what it was told, and the program is at a motor and a query
\* there are, with a timeout it can send.
THEOREM ProbeInvariant == ProbeSpec => []ProbeInv
  BY ProbeInitHolds, ProbeNextKeeps, PTL DEF ProbeSpec

\* For every configuration: a bound runtime sends each motor's commands to that
\* motor on its channel and hands it every frame of its address and no other
\* (runtime.cc init and bind_motor, channel.cc handle_frame).
THEOREM RoutesAlwaysAgree == ProbeSpec => []RoutesAgree
<1>1. ProbeInv => RoutesAgree
  BY InvRoutesAgree DEF ProbeInv, LinkInv
<1> QED
  BY <1>1, ProbeInvariant, PTL

\* For every configuration: init succeeds only for one that is well-formed and whose
\* drivers can be constructed, and its error blames what is wrong, invalid_argument
\* the configuration and io_error the construction (runtime.cc init, validate_config,
\* init_drivers, find_driver_slot; channel.cc the constructors).
THEOREM AlwaysAcceptsWellFormed == ProbeSpec => []AcceptsWellFormed
<1>1. ProbeInv => AcceptsWellFormed
  BY InvAcceptsWellFormed DEF ProbeInv, LinkInv
<1> QED
  BY <1>1, ProbeInvariant, PTL

\* For every configuration, command, loss and order of delivery: a motor's target
\* is what some command, not necessarily the last, told its own device, every
\* field within its step, but the torque and kd of a PVT command only where the model's
\* full scale is the codec's; and its brake opens only for a command to open it
\* (codec_can.cc encode, bit_codec, codec_motor.cc, motor_driver).
THEOREM CommandsAlwaysUnderstood == ProbeSpec => []CommandsUnderstood
<1>1. ProbeInv => CommandsUnderstood
  BY DEF ProbeInv, LinkInv, MotorsUnderstand, Understood, CommandsUnderstood
<1> QED
  BY <1>1, ProbeInvariant, PTL

(***************************************************************************)
(* What a reply's frame is parsed to.                                      *)
(***************************************************************************)

\* A frame filled with a reply's type, its error bits, and the rest.
ReplyWrites(kind, rest) == <<<<FeedbackType, kind>>, <<FeedbackError, 0>>>> \o rest

Says(frame, field, raw) == Read(frame, field) = {raw}

\* Every number written that fits is read.
LEMMA FilledSays ==
  ASSUME NEW address \in Address, NEW len \in Nat, NEW writes, InOrder(writes),
         NEW frame \in Filled(address, len, writes)
  PROVE  /\ Made(frame, address, len)
         /\ \A i \in 1..Len(writes) :
               IsRaw(writes[i][2]) => Says(frame, writes[i][1], writes[i][2])
<1>1. Made(frame, address, len)
  BY FilledFields
<1>2. \A i \in 1..Len(writes) : IsRaw(writes[i][2]) => Read(frame, writes[i][1]) = {writes[i][2]}
  BY FilledReads
<1> QED
  BY <1>1, <1>2 DEF Says

\* The status reply.
StatusWrites(position, velocity, current) ==
    <<<<FeedbackType, 1>>, <<FeedbackError, 0>>, <<StatusPosition, position>>,
      <<StatusVelocity, velocity>>, <<StatusCurrent, current>>, <<Byte(6), 90>>, <<Byte(7), 90>>>>

\* The fields of a status frame lie one behind the other.
LEMMA StatusInOrder ==
  ASSUME NEW position, NEW velocity, NEW current
  PROVE  InOrder(StatusWrites(position, velocity, current))
  BY DEF InOrder, StatusWrites, BitField, FeedbackType, FeedbackError, StatusPosition,
         StatusVelocity, StatusCurrent, Byte, Bits

\* A status frame says what it was filled with.
LEMMA StatusSays ==
  ASSUME NEW address \in Address, NEW position, NEW velocity, NEW current,
         IsRaw(position), IsRaw(velocity), IsRaw(current),
         NEW frame \in Filled(address, 8, StatusWrites(position, velocity, current))
  PROVE  /\ Made(frame, address, 8)
         /\ Says(frame, FeedbackType, 1) /\ Says(frame, StatusPosition, position)
         /\ Says(frame, StatusVelocity, velocity) /\ Says(frame, StatusCurrent, current)
<1> DEFINE writes == StatusWrites(position, velocity, current)
<1>1. /\ Len(writes) = 7
      /\ writes[1] = <<FeedbackType, 1>> /\ writes[3] = <<StatusPosition, position>>
      /\ writes[4] = <<StatusVelocity, velocity>> /\ writes[5] = <<StatusCurrent, current>>
  BY DEF StatusWrites
<1>2. InOrder(writes) /\ frame \in Filled(address, 8, writes)
  BY StatusInOrder
<1>3. \A one : one = 1 => IsRaw(one)
  BY SmallIsRaw
<1> HIDE DEF writes
<1>4. /\ Made(frame, address, 8)
      /\ \A i \in 1..Len(writes) :
            IsRaw(writes[i][2]) => Says(frame, writes[i][1], writes[i][2])
  BY <1>2, FilledSays
<1> QED
  BY <1>1, <1>3, <1>4

\* The position and velocity replies.
MotionWrites(kind, value, current) ==
    <<<<FeedbackType, kind>>, <<FeedbackError, 0>>, <<ReplyFloat, value>>,
      <<ReplyCurrentX100, current>>, <<Byte(7), 90>>>>

\* The fields of a position or velocity frame lie one behind the other.
LEMMA MotionInOrder ==
  ASSUME NEW kind, NEW value, NEW current
  PROVE  InOrder(MotionWrites(kind, value, current))
  BY DEF InOrder, MotionWrites, BitField, FeedbackType, FeedbackError, ReplyFloat,
         ReplyCurrentX100, Byte, Bits

\* A position or velocity frame says what it was filled with.
LEMMA MotionSays ==
  ASSUME NEW address \in Address, NEW kind, NEW value, NEW current,
         IsRaw(kind), IsRaw(value), IsRaw(current),
         NEW frame \in Filled(address, 8, MotionWrites(kind, value, current))
  PROVE  /\ Made(frame, address, 8)
         /\ Says(frame, FeedbackType, kind) /\ Says(frame, ReplyFloat, value)
         /\ Says(frame, ReplyCurrentX100, current)
<1> DEFINE writes == MotionWrites(kind, value, current)
<1>1. /\ Len(writes) = 5
      /\ writes[1] = <<FeedbackType, kind>> /\ writes[3] = <<ReplyFloat, value>>
      /\ writes[4] = <<ReplyCurrentX100, current>>
  BY DEF MotionWrites
<1>2. InOrder(writes) /\ frame \in Filled(address, 8, writes)
  BY MotionInOrder
<1> HIDE DEF writes
<1>3. /\ Made(frame, address, 8)
      /\ \A i \in 1..Len(writes) :
            IsRaw(writes[i][2]) => Says(frame, writes[i][1], writes[i][2])
  BY <1>2, FilledSays
<1> QED
  BY <1>1, <1>3

\* The reply to the brake.
BrakeReplyWrites(engaged) ==
    <<<<FeedbackType, 6>>, <<FeedbackError, 0>>, <<BrakeEngaged, engaged>>>>

\* A brake reply says that it is one.
LEMMA BrakeReplySays ==
  ASSUME NEW address \in Address, NEW engaged,
         NEW frame \in Filled(address, 8, BrakeReplyWrites(engaged))
  PROVE  Made(frame, address, 8) /\ Says(frame, FeedbackType, 6)
<1> DEFINE writes == BrakeReplyWrites(engaged)
<1>1. Len(writes) = 3 /\ writes[1] = <<FeedbackType, 6>>
  BY DEF BrakeReplyWrites
<1>2. InOrder(writes)
  BY DEF InOrder, BrakeReplyWrites, BitField, FeedbackType, FeedbackError, BrakeEngaged, Bits
<1>3. \A six : six = 6 => IsRaw(six)
  BY SmallIsRaw
<1> HIDE DEF writes
<1>4. /\ Made(frame, address, 8)
      /\ \A i \in 1..Len(writes) :
            IsRaw(writes[i][2]) => Says(frame, writes[i][1], writes[i][2])
  BY <1>2, FilledSays DEF writes
<1> QED
  BY <1>1, <1>3, <1>4

\* Three writes before others.
LEMMA ThreeBefore ==
  ASSUME NEW a, NEW b, NEW k, NEW rest, IsSeq(rest)
  PROVE  LET all == <<a, b>> \o (<<k>> \o rest)
         IN  /\ Len(rest) \in Nat /\ Len(all) = Len(rest) + 3
             /\ all[1] = a /\ all[2] = b /\ all[3] = k
             /\ \A i \in 1..Len(rest) : all[i + 3] = rest[i]
<1>1. PICK S : rest \in Seq(S)
  BY DEF IsSeq
<1> DEFINE T == S \cup {a, b, k}
<1>2. rest \in Seq(T) /\ <<k>> \in Seq(T) /\ <<a, b>> \in Seq(T)
  BY <1>1
<1>3. Len(<<k>>) = 1 /\ <<k>>[1] = k /\ Len(<<a, b>>) = 2 /\ <<a, b>>[1] = a /\ <<a, b>>[2] = b
  OBVIOUS
<1> DEFINE back == <<k>> \o rest
           all == <<a, b>> \o back
<1>4. /\ back \in Seq(T) /\ Len(back) = Len(rest) + 1 /\ Len(rest) \in Nat
      /\ back[1] = k
      /\ \A i \in 1..Len(rest) : back[i + 1] = rest[i]
  BY <1>2, <1>3
<1> HIDE DEF back
<1>5. /\ Len(all) = Len(back) + 2 /\ all[1] = a /\ all[2] = b
      /\ \A i \in 1..Len(back) : all[i + 2] = back[i]
  BY <1>2, <1>3, <1>4
<1> HIDE DEF all
<1>6. all[3] = k
  <2>1. 1 \in 1..Len(back) /\ 1 + 2 = 3
    BY <1>4
  <2> QED
    BY <1>4, <1>5, <2>1
<1>7. ASSUME NEW i \in 1..Len(rest) PROVE all[i + 3] = rest[i]
  <2>1. i + 1 \in 1..Len(back) /\ (i + 1) + 2 = i + 3
    BY <1>4
  <2> QED
    BY <1>4, <1>5, <2>1
<1>8. /\ Len(rest) \in Nat /\ Len(all) = Len(rest) + 3
      /\ all[1] = a /\ all[2] = b /\ all[3] = k
      /\ \A i \in 1..Len(rest) : all[i + 3] = rest[i]
  BY <1>4, <1>5, <1>6, <1>7
<1> QED
  BY <1>8 DEF all, back

\* What answers a query: fields behind the key, one after the other.
Payload(payload) ==
    /\ IsSeq(payload)
    /\ \A i \in 1..Len(payload) : payload[i][1] \in BitField /\ payload[i][1].offset >= 16
    /\ \A i, j \in 1..Len(payload) :
          i < j => payload[i][1].offset + payload[i][1].len <= payload[j][1].offset

AnswerWrites(key, payload) == ReplyWrites(5, <<<<Key, key>>>> \o payload)

\* The answer to a query says which, and what it was filled with.
LEMMA QueryReplySays ==
  ASSUME NEW address \in Address, NEW key, IsRaw(key), NEW payload, Payload(payload),
         NEW frame \in Filled(address, 8, AnswerWrites(key, payload))
  PROVE  /\ Made(frame, address, 8)
         /\ Says(frame, FeedbackType, 5) /\ Says(frame, Key, key)
         /\ \A i \in 1..Len(payload) :
               /\ Fits(payload[i][1], payload[i][2])
               /\ IsRaw(payload[i][2]) => Says(frame, payload[i][1], payload[i][2])
<1> DEFINE writes == AnswerWrites(key, payload)
           n == Len(payload)
<1>1. /\ n \in Nat /\ Len(writes) = n + 3
      /\ writes[1] = <<FeedbackType, 5>> /\ writes[2] = <<FeedbackError, 0>>
      /\ writes[3] = <<Key, key>>
      /\ \A i \in 1..n : writes[i + 3] = payload[i]
  BY ThreeBefore DEF Payload, AnswerWrites, ReplyWrites
<1> HIDE DEF writes
<1>2. /\ FeedbackType \in BitField /\ FeedbackError \in BitField /\ Key \in BitField
      /\ FeedbackType.offset = 0 /\ FeedbackType.len = 3
      /\ FeedbackError.offset = 3 /\ FeedbackError.len = 5
      /\ Key.offset = 8 /\ Key.len = 8
  BY DEF FeedbackType, FeedbackError, Key, Bits, BitField
<1>3. ASSUME NEW i \in 1..(n + 3)
      PROVE  \/ i = 1 \/ i = 2 \/ i = 3
             \/ i - 3 \in 1..n /\ writes[i] = payload[i - 3]
  <2>1. CASE i > 3
    <3>1. i - 3 \in 1..n /\ (i - 3) + 3 = i
      BY <1>1, <2>1
    <3> QED
      BY <1>1, <3>1
  <2> QED
    BY <1>1, <2>1
<1>4. InOrder(writes)
  <2> USE DEF Payload
  <2> HIDE DEF n
  <2>0. n = Len(payload)
    BY DEF n
  <2>1. ASSUME NEW i \in 1..(n + 3) PROVE writes[i][1] \in BitField
    BY <1>1, <1>2, <1>3, <2>0
  <2>2. ASSUME NEW i \in 1..(n + 3), NEW j \in 1..(n + 3), i < j
        PROVE  writes[i][1].offset + writes[i][1].len <= writes[j][1].offset
    <3>1. CASE i > 3
      <4>1. i - 3 \in 1..n /\ j - 3 \in 1..n /\ i - 3 < j - 3
            /\ writes[i] = payload[i - 3] /\ writes[j] = payload[j - 3]
        BY <1>1, <1>3, <2>2, <3>1
      <4> QED
        BY <2>0, <4>1
    <3>2. CASE i <= 3 /\ j > 3
      <4>1. j - 3 \in 1..n /\ writes[j] = payload[j - 3]
        BY <1>1, <1>3, <3>2
      <4>2. writes[j][1].offset >= 16 /\ writes[j][1].offset \in Nat
        BY <2>0, <4>1 DEF BitField
      <4> QED
        BY <1>1, <1>2, <3>2, <4>2
    <3>3. CASE j <= 3
      BY <1>1, <1>2, <2>2, <3>3
    <3> QED
      BY <1>1, <3>1, <3>2, <3>3
  <2> QED
    BY <1>1, <2>1, <2>2 DEF InOrder
<1>5. frame \in Filled(address, 8, writes)
  BY DEF writes
<1>6. /\ Made(frame, address, 8)
      /\ \A i \in 1..Len(writes) :
            IsRaw(writes[i][2]) => Says(frame, writes[i][1], writes[i][2])
  BY <1>4, <1>5, FilledSays
<1>7. \A i \in 1..Len(writes) : HasWritten(frame, writes, i)
  BY <1>4, <1>5, FilledFields
<1>8. \A five : five = 5 => IsRaw(five)
  BY SmallIsRaw
<1>9. ASSUME NEW i \in 1..n
      PROVE  /\ Fits(payload[i][1], payload[i][2])
             /\ IsRaw(payload[i][2]) => Says(frame, payload[i][1], payload[i][2])
  <2>1. i + 3 \in 1..Len(writes) /\ writes[i + 3] = payload[i]
    BY <1>1
  <2> QED
    BY <1>6, <1>7, <2>1 DEF HasWritten
<1>10. Says(frame, FeedbackType, 5) /\ Says(frame, Key, key)
  <2>1. 1 \in 1..Len(writes) /\ 3 \in 1..Len(writes)
    BY <1>1
  <2> QED
    BY <1>1, <1>6, <1>8, <2>1
<1> QED
  BY <1>6, <1>9, <1>10

(***************************************************************************)
(* What is parsed from a reply is what the sensors measured.               *)
(***************************************************************************)

\* The position of the shaft comes back in a status.
LEMMA ShaftComesBack ==
  ASSUME NEW value, Measured(value, 12500)
  PROVE  LET raw == StatusRaw(value, 12500, 65535)
         IN  raw \in Nat /\ raw <= 65535 /\ DecodeSymmetric(raw, 12500, 65535) = value
<1> DEFINE raw == StatusRaw(value, 12500, 65535)
<1>1. value \in Int /\ -12500 <= value /\ value <= 12500
  BY DEF Measured
<1>2. raw = ((value + 12500) * 65535 + 12500) \div 25000
  BY <1>1 DEF StatusRaw, Rounded
<1> HIDE DEF raw
<1>3. raw \in Nat /\ raw <= 65535
  BY <1>1, <1>2
<1>4. DecodeSymmetric(raw, 12500, 65535) = (25000 * raw + 32767) \div 65535 - 12500
  BY <1>3 DEF DecodeSymmetric, Rounded
<1>5. (25000 * raw + 32767) \div 65535 = value + 12500
  BY <1>1, <1>2, <1>3, SMTT(60)
<1> QED
  BY <1>1, <1>3, <1>4, <1>5 DEF raw

\* Its speed within half a step.
LEMMA SpeedComesBack ==
  ASSUME NEW value, Measured(value, 18000)
  PROVE  LET raw == StatusRaw(value, 18000, 4095)
         IN  /\ raw \in Nat /\ raw <= 4095
             /\ Near(DecodeSymmetric(raw, 18000, 4095), value, 5)
             /\ DecodeSymmetric(raw, 18000, 4095) \in Int
<1> DEFINE raw == StatusRaw(value, 18000, 4095)
<1>1. value \in Int /\ -18000 <= value /\ value <= 18000
  BY DEF Measured
<1>2. raw = ((value + 18000) * 4095 + 18000) \div 36000
  BY <1>1 DEF StatusRaw, Rounded
<1> HIDE DEF raw
<1>3. raw \in Nat /\ raw <= 4095
  BY <1>1, <1>2
<1> DEFINE back == DecodeSymmetric(raw, 18000, 4095)
<1>4. back = (36000 * raw + 2047) \div 4095 - 18000
  BY <1>3 DEF DecodeSymmetric, Rounded
<1> HIDE DEF back
<1>5. back \in Int /\ Near(back, value, 5)
  BY <1>1, <1>2, <1>3, <1>4, SMTT(60) DEF Near
<1> QED
  BY <1>3, <1>5 DEF raw, back

\* In revolutions per minute too.
LEMMA RpmNear ==
  ASSUME NEW a \in Int, NEW b \in Int, Near(a, b, 5)
  PROVE  Near(Rpm(a), Rpm(b), 85)
  BY SMTT(60) DEF Near, Rpm, Rounded

\* A quotient as its product tells.
LEMMA Quotient ==
  ASSUME NEW n \in Int, NEW q \in Nat \ {0}
  PROVE  n \div q \in Int /\ q * (n \div q) <= n /\ n < q * (n \div q) + q
  OBVIOUS

\* The current comes back as a part of its full scale, whatever that is.
LEMMA CurrentComesBack ==
  ASSUME NEW scale \in Nat \ {0}, NEW value, Measured(value, scale)
  PROVE  LET raw == StatusRaw(value, scale, 4095)
         IN  /\ raw \in Nat /\ raw <= 4095
             /\ Near(DecodeLinear(raw, -scale, scale, 4095), value, (2 * scale) \div 4095 + 1)
<1> DEFINE raw == StatusRaw(value, scale, 4095)
           n == (value + scale) * 4095
<1>1. value \in Int /\ -scale <= value /\ value <= scale
  BY DEF Measured
<1>2. n \in Nat
  BY <1>1
<1>3. raw = (n + ((2 * scale) \div 2)) \div (2 * scale)
  BY <1>1, <1>2 DEF StatusRaw, Rounded
<1>4. (2 * scale) \div 2 = scale
  OBVIOUS
<1> HIDE DEF raw, n
<1>5. 2 * scale \in Nat \ {0} /\ n + scale \in Nat
  BY <1>2
<1> DEFINE product == 2 * scale * raw
<1>6. raw \in Int /\ product <= n + scale /\ n + scale < product + 2 * scale
  <2> DEFINE q == 2 * scale
             sum == n + scale
  <2>1. q \in Nat \ {0} /\ sum \in Int
    BY <1>5
  <2>2. raw = sum \div q
    BY <1>3, <1>4
  <2> HIDE DEF q, sum
  <2>3. raw \in Int /\ q * raw <= sum /\ sum < q * raw + q
    BY <2>1, <2>2, Quotient
  <2> QED
    BY <2>3 DEF q, sum
<1>7. raw \in Nat
  <2> SUFFICES ASSUME raw <= -1 PROVE FALSE
    BY <1>6
  <2>1. product <= -(2 * scale)
    <3> DEFINE below == -(raw + 1)
    <3>1. below \in Nat /\ raw = -below - 1
      BY <1>6
    <3>2. scale * below \in Nat
      BY <3>1
    <3> HIDE DEF below
    <3>3. 2 * scale * raw = -(2 * (scale * below)) - 2 * scale
      BY <3>1
    <3> QED
      BY <3>2, <3>3
  <2> QED
    BY <1>5, <1>6, <2>1
<1>a. raw <= 4095
  <2> SUFFICES ASSUME raw >= 4096 PROVE FALSE
    BY <1>7
  <2> DEFINE above == raw - 4096
  <2>1. above \in Nat /\ raw = above + 4096
    BY <1>7
  <2>2. scale * above \in Nat
    BY <2>1
  <2> HIDE DEF above
  <2>3. product = 2 * (scale * above) + 8192 * scale
    BY <2>1
  <2>4. n <= 8190 * scale
    BY <1>1 DEF n
  <2> DEFINE more == scale * above
  <2>5. more \in Nat /\ product = 2 * more + 8192 * scale
    BY <2>2, <2>3
  <2>6. n \in Int /\ product \in Int
    BY <1>2, <2>5
  <2> HIDE DEF more, product
  <2> QED
    BY <1>6, <2>4, <2>5, <2>6
<1>8. product \in Nat
  BY <1>7
<1> DEFINE back == DecodeLinear(raw, -scale, scale, 4095)
<1>9. back = -scale + (product + 2047) \div 4095
  <2>1. (scale - (-scale)) * raw = product
    BY <1>7
  <2> QED
    BY <1>8, <2>1 DEF DecodeLinear, Rounded
<1> HIDE DEF product, back
<1>10. Near(back, value, (2 * scale) \div 4095 + 1)
  BY <1>1, <1>6, <1>8, <1>9, SMTT(60) DEF n, Near
<1> QED
  BY <1>7, <1>a, <1>10 DEF raw, back

\* In hundredths it is rounded down.
LEMMA HundredthsComeBack ==
  ASSUME NEW value, Measured(value, 327670)
  PROVE  IsRaw(Unsigned(value \div 10)) /\ Near(Hundredths(Unsigned(value \div 10)), value, 9)
<1> DEFINE tenth == value \div 10
<1>1. value \in Int /\ -327670 <= value /\ value <= 327670
  BY DEF Measured
<1>2. InRange(tenth, -32768, 32767) /\ Near(tenth * 10, value, 9) /\ tenth \in Int
  BY <1>1 DEF InRange, Near
<1> HIDE DEF tenth
<1>3. IsRaw(Unsigned(tenth)) /\ Signed(Unsigned(tenth)) = tenth
  BY <1>2, WordComesBack
<1> QED
  BY <1>2, <1>3 DEF Hundredths, tenth

\* What samples may hold: what the motor measured, and what it was given.
Speaks(d, update) ==
    /\ \A name \in DOMAIN update \cap FloatQueries : SensorSays(d, name, update[name])
    /\ \A code \in DOMAIN update \cap DOMAIN Factory : ComesBack(d, code, update[code])

\* A frame the device of a motor may be handed.
TrueReply(d, frame) ==
    \A feedback \in ParseFeedback(frame, CurrentRange(d)) : Speaks(d, Updates(feedback))

FitSensors(d) ==
    /\ SpecOf(d).current \in Nat \ {0}
    /\ \A name \in FloatQueries : Physical[d][name] # NaN /\ RawFloat(Physical[d][name])
    /\ Measured(Physical[d].shaft, PositionRange) /\ Measured(Physical[d].speed, VelocityRange)
    /\ Measured(Physical[d].current, SpecOf(d).current) /\ Measured(Physical[d].current, 327670)

\* The sensors of a bound motor fit its replies.
LEMMA SensorsKnown ==
  ASSUME TopologyInv, phase = "bound", NEW d \in Device
  PROVE  FitSensors(d)
<1>1. config \in Config /\ d \in Index(config.motors)
  BY DEF TopologyInv, TopologyTypes, Device
<1>2. config.motors[d].model \in KnownModel
  BY <1>1 DEF TopologyInv, PhaseTells, BindingsAgree, BindingAgrees, Index
<1>3. SpecOf(d).current \in Nat \ {0}
  BY <1>2, KnownModelsInTable DEF SpecOf
<1>4. LET sensor == Physical[d]
      IN  /\ \A name \in FloatQueries : sensor[name] # NaN /\ RawFloat(sensor[name])
          /\ Measured(sensor.shaft, PositionRange) /\ Measured(sensor.speed, VelocityRange)
          /\ Measured(sensor.current, SpecOf(d).current)
          /\ Measured(sensor.current, 327670)
  BY <1>1, <1>2, SensorsFit DEF SpecOf
<1> QED
  BY <1>3, <1>4 DEF FitSensors

\* A frame is parsed by its type.
LEMMA ParsedByType ==
  ASSUME NEW frame, NEW range, NEW kind, Says(frame, FeedbackType, kind),
         NEW feedback \in ParseFeedback(frame, range)
  PROVE  \E error : /\ kind = 1 => feedback \in ParseStatus1(frame, error, range)
                    /\ kind = 2 => feedback \in ParseMotion("position", frame, error)
                    /\ kind = 3 => feedback \in ParseMotion("velocity", frame, error)
                    /\ kind = 5 => feedback \in ParseQuery(frame, error)
                    /\ kind = 6 => feedback \in ParseBrake(frame, error)
<1>1. PICK type \in Read(frame, FeedbackType), error \in Read(frame, FeedbackError) :
         feedback \in CASE type = 1 -> ParseStatus1(frame, ParseError(error), range)
                        [] type = 2 -> ParseMotion("position", frame, ParseError(error))
                        [] type = 3 -> ParseMotion("velocity", frame, ParseError(error))
                        [] type = 4 -> ParseConfigAck(frame, ParseError(error))
                        [] type = 5 -> ParseQuery(frame, ParseError(error))
                        [] type = 6 -> ParseBrake(frame, ParseError(error))
                        [] OTHER -> {}
  BY DEF ParseFeedback
<1>2. type = kind
  BY <1>1 DEF Says
<1>3. /\ kind = 1 => feedback \in ParseStatus1(frame, ParseError(error), range)
      /\ kind = 2 => feedback \in ParseMotion("position", frame, ParseError(error))
      /\ kind = 3 => feedback \in ParseMotion("velocity", frame, ParseError(error))
      /\ kind = 5 => feedback \in ParseQuery(frame, ParseError(error))
      /\ kind = 6 => feedback \in ParseBrake(frame, ParseError(error))
  BY <1>1, <1>2
<1> QED
  BY <1>3

\* No sensor and no configuration has the name of an error or a temperature.
LEMMA OtherNames ==
  /\ DOMAIN Factory = DOMAIN SetCode
  /\ {"error", "motor_temp", "mosfet_temp", "brake_status"} \cap (FloatQueries \cup DOMAIN SetCode) = {}
  /\ FloatQueries \cap DOMAIN SetCode = {}
<1>1. Factory \in [DOMAIN SetCode -> Seq(Nat)]
  BY FactoryIsWords
<1>2. DOMAIN Factory = DOMAIN SetCode
  BY <1>1
<1> QED
  BY <1>2 DEF SetCode, FloatQueries

\* What the samples of a position, a velocity and a current may come from.
LEMMA MotionSpeaks ==
  ASSUME NEW d, NEW update, DOMAIN Factory \cap DOMAIN update = {},
         \A name \in DOMAIN update \cap FloatQueries : SensorSays(d, name, update[name])
  PROVE  Speaks(d, update)
  BY DEF Speaks

\* A status says what the sensors read.
LEMMA StatusSpeaks ==
  ASSUME NEW d, NEW feedback, feedback.type = "status",
         Degrees(feedback.position) = Degrees(Physical[d].shaft),
         Degrees(Physical[d].shaft) \in Int,
         Near(Rpm(feedback.velocity), Rpm(Physical[d].speed), 85),
         Near(feedback.current, Physical[d].current, (2 * SpecOf(d).current) \div 4095 + 1)
  PROVE  Speaks(d, Updates(feedback))
<1> DEFINE update == Updates(feedback)
<1>1. /\ DOMAIN update \subseteq {"error", "motor_temp", "mosfet_temp"} \cup {"position", "velocity", "current"}
      /\ update["position"] = Degrees(feedback.position)
      /\ update["velocity"] = Rpm(feedback.velocity)
      /\ update["current"] = feedback.current
  BY DEF Updates
<1> HIDE DEF update
<1>2. {"position", "velocity", "current"} \subseteq FloatQueries
  BY DEF FloatQueries
<1>3. DOMAIN Factory \cap DOMAIN update = {}
  BY <1>1, <1>2, OtherNames
<1>4. SensorSays(d, "position", update["position"])
  <2>1. Near(Degrees(feedback.position), Degrees(Physical[d].shaft), 23)
    BY DEF Near
  <2> QED
    BY <1>1, <2>1 DEF SensorSays
<1>5. SensorSays(d, "velocity", update["velocity"])
  BY <1>1 DEF SensorSays
<1>6. SensorSays(d, "current", update["current"])
  BY <1>1 DEF SensorSays
<1>7. \A name \in DOMAIN update \cap FloatQueries : name \in {"position", "velocity", "current"}
  BY <1>1, OtherNames
<1>8. Speaks(d, update)
  BY <1>3, <1>4, <1>5, <1>6, <1>7, MotionSpeaks
<1> QED
  BY <1>8 DEF update

\* A status tells the truth.
LEMMA StatusTrue ==
  ASSUME NEW d, FitSensors(d), NEW address \in Address,
         NEW frame \in Filled(address, 8,
             StatusWrites(StatusRaw(Physical[d].shaft, PositionRange, 65535),
                          StatusRaw(Physical[d].speed, VelocityRange, 4095),
                          StatusRaw(Physical[d].current, SpecOf(d).current, 4095)))
  PROVE  Made(frame, address, 8) /\ TrueReply(d, frame)
<1> DEFINE scale == SpecOf(d).current
           shaft == StatusRaw(Physical[d].shaft, 12500, 65535)
           speed == StatusRaw(Physical[d].speed, 18000, 4095)
           current == StatusRaw(Physical[d].current, scale, 4095)
<1>0. PositionRange = 12500 /\ VelocityRange = 18000
  BY DEF PositionRange, VelocityRange
<1>s. /\ Measured(Physical[d].shaft, 12500) /\ Measured(Physical[d].speed, 18000)
      /\ Measured(Physical[d].current, scale) /\ scale \in Nat \ {0}
  BY <1>0 DEF FitSensors
<1>1. /\ shaft \in Nat /\ shaft <= 65535
      /\ DecodeSymmetric(shaft, 12500, 65535) = Physical[d].shaft
  BY <1>s, ShaftComesBack
<1>2. /\ speed \in Nat /\ speed <= 4095
      /\ Near(DecodeSymmetric(speed, 18000, 4095), Physical[d].speed, 5)
      /\ DecodeSymmetric(speed, 18000, 4095) \in Int
  BY <1>s, SpeedComesBack
<1>3. /\ current \in Nat /\ current <= 4095
      /\ Near(DecodeLinear(current, -scale, scale, 4095), Physical[d].current,
              (2 * scale) \div 4095 + 1)
  BY <1>s, CurrentComesBack
<1>4. frame \in Filled(address, 8, StatusWrites(shaft, speed, current))
  BY <1>0
<1> HIDE DEF shaft, speed, current
<1>5. IsRaw(shaft) /\ IsRaw(speed) /\ IsRaw(current)
  <2>1. shaft < 65536 /\ speed < 65536 /\ current < 65536
    BY <1>1, <1>2, <1>3
  <2> QED
    BY <1>1, <1>2, <1>3, <2>1, SmallIsRaw
<1>6. /\ Made(frame, address, 8)
      /\ Says(frame, FeedbackType, 1) /\ Says(frame, StatusPosition, shaft)
      /\ Says(frame, StatusVelocity, speed) /\ Says(frame, StatusCurrent, current)
  BY <1>4, <1>5, StatusSays
<1>7. Physical[d].shaft \in Int /\ Physical[d].speed \in Int
  BY <1>s DEF Measured
<1>8. Near(Rpm(DecodeSymmetric(speed, 18000, 4095)), Rpm(Physical[d].speed), 85)
  <2> DEFINE back == DecodeSymmetric(speed, 18000, 4095)
             was == Physical[d].speed
  <2>1. back \in Int /\ was \in Int /\ Near(back, was, 5)
    BY <1>2, <1>7
  <2> HIDE DEF back, was
  <2>2. Near(Rpm(back), Rpm(was), 85)
    BY <2>1, RpmNear
  <2> QED
    BY <2>2 DEF back, was
<1>9. Degrees(Physical[d].shaft) \in Int
  <2> DEFINE n == Physical[d].shaft * 57296
  <2>1. n \in Int /\ 1000 \in Nat \ {0}
    BY <1>7
  <2> HIDE DEF n
  <2>2. Rounded(n, 1000) \in Int
    BY <2>1, RoundedIsInt
  <2> QED
    BY <2>2 DEF Degrees, n
<1>10. ASSUME NEW feedback \in ParseFeedback(frame, CurrentRange(d))
       PROVE  Speaks(d, Updates(feedback))
  <2>1. PICK error : feedback \in ParseStatus1(frame, error, CurrentRange(d))
    BY <1>6, ParsedByType
  <2>2. CurrentRange(d).min = -scale /\ CurrentRange(d).max = scale
    BY DEF CurrentRange, RangeOf, SpecOf
  <2>3. PICK p \in Read(frame, StatusPosition), v \in Read(frame, StatusVelocity),
             i \in Read(frame, StatusCurrent) :
           /\ feedback.type = "status"
           /\ feedback.position = DecodeSymmetric(p, PositionRange, 65535)
           /\ feedback.velocity = DecodeSymmetric(v, VelocityRange, 4095)
           /\ feedback.current = DecodeLinear(i, CurrentRange(d).min, CurrentRange(d).max, 4095)
    <3> HIDE DEF Read, DecodeSymmetric, DecodeLinear
    <3> QED
      BY <2>1 DEF ParseStatus1
  <2>4. p = shaft /\ v = speed /\ i = current
    BY <1>6, <2>3 DEF Says
  <2>5. /\ feedback.position = Physical[d].shaft
        /\ feedback.velocity = DecodeSymmetric(speed, 18000, 4095)
        /\ feedback.current = DecodeLinear(current, -scale, scale, 4095)
    BY <1>0, <1>1, <2>2, <2>3, <2>4
  <2> QED
    BY <1>3, <1>8, <1>9, <2>3, <2>5, StatusSpeaks
<1> QED
  BY <1>6, <1>10 DEF TrueReply

\* A current in hundredths is one the sensor read.
LEMMA MotionUpdate ==
  ASSUME NEW d, NEW name \in {"position", "velocity"}, NEW feedback, feedback.type = name,
         feedback.value = Physical[d][name], Near(feedback.current, Physical[d].current, 9)
  PROVE  Speaks(d, Updates(feedback))
<1> DEFINE update == Updates(feedback)
<1>1. /\ DOMAIN update = {"error", "motor_temp", name, "current"}
      /\ update[name] = Physical[d][name]
      /\ update["current"] = feedback.current
  <2>1. CASE name = "position"
    BY <2>1 DEF Updates
  <2>2. CASE name = "velocity"
    BY <2>2 DEF Updates
  <2> QED
    BY <2>1, <2>2
<1> HIDE DEF update
<1>2. name \in FloatQueries /\ "current" \in FloatQueries
  BY DEF FloatQueries
<1>3. DOMAIN Factory \cap DOMAIN update = {}
  BY <1>1, <1>2, OtherNames
<1>4. SensorSays(d, name, update[name])
  BY <1>1 DEF SensorSays
<1>5. SensorSays(d, "current", update["current"])
  BY <1>1 DEF SensorSays
<1>6. \A n \in DOMAIN update \cap FloatQueries : n \in {name, "current"}
  BY <1>1, OtherNames
<1>7. Speaks(d, update)
  BY <1>3, <1>4, <1>5, <1>6, MotionSpeaks
<1> QED
  BY <1>7 DEF update

\* A position or velocity reply tells the truth.
LEMMA MotionTrue ==
  ASSUME NEW d, FitSensors(d), NEW address \in Address,
         NEW kind, NEW name, (kind = 2 /\ name = "position") \/ (kind = 3 /\ name = "velocity"),
         NEW frame \in Filled(address, 8,
             MotionWrites(kind, F32Bits(Physical[d][name]), Unsigned(Physical[d].current \div 10)))
  PROVE  Made(frame, address, 8) /\ TrueReply(d, frame)
<1> DEFINE bits == F32Bits(Physical[d][name])
           hundredths == Unsigned(Physical[d].current \div 10)
<1>1. name \in FloatQueries /\ name \in {"position", "velocity"}
  BY DEF FloatQueries
<1>2. RawFloat(Physical[d][name]) /\ Measured(Physical[d].current, 327670)
  BY <1>1 DEF FitSensors
<1>3. IsRaw(bits) /\ BitsF32(bits) = Physical[d][name]
  BY <1>2, FloatComesBack
<1>4. IsRaw(hundredths) /\ Near(Hundredths(hundredths), Physical[d].current, 9)
  BY <1>2, HundredthsComeBack
<1> HIDE DEF bits, hundredths
<1>5. IsRaw(kind)
  <2>1. \A raw : raw \in {2, 3} => IsRaw(raw)
    BY SmallIsRaw
  <2> QED
    BY <2>1
<1>6. frame \in Filled(address, 8, MotionWrites(kind, bits, hundredths))
  BY DEF bits, hundredths
<1>7. /\ Made(frame, address, 8)
      /\ Says(frame, FeedbackType, kind) /\ Says(frame, ReplyFloat, bits)
      /\ Says(frame, ReplyCurrentX100, hundredths)
  BY <1>3, <1>4, <1>5, <1>6, MotionSays
<1>8. ASSUME NEW feedback \in ParseFeedback(frame, CurrentRange(d))
      PROVE  Speaks(d, Updates(feedback))
  <2>1. PICK error : feedback \in ParseMotion(name, frame, error)
    BY <1>7, ParsedByType
  <2>2. PICK v \in Read(frame, ReplyFloat), i \in Read(frame, ReplyCurrentX100) :
           /\ feedback.type = name
           /\ feedback.value = BitsF32(v)
           /\ feedback.current = Hundredths(i)
    BY <2>1 DEF ParseMotion
  <2>3. v = bits /\ i = hundredths
    BY <1>7, <2>2 DEF Says
  <2> QED
    BY <1>1, <1>3, <1>4, <2>2, <2>3, MotionUpdate
<1> QED
  BY <1>7, <1>8 DEF TrueReply

\* The reply to the brake names no sensor and no configuration.
LEMMA BrakeReplyTrue ==
  ASSUME NEW d, NEW address \in Address, NEW engaged,
         NEW frame \in Filled(address, 8, BrakeReplyWrites(engaged))
  PROVE  Made(frame, address, 8) /\ TrueReply(d, frame)
<1>1. Made(frame, address, 8) /\ Says(frame, FeedbackType, 6)
  BY BrakeReplySays
<1>2. ASSUME NEW feedback \in ParseFeedback(frame, CurrentRange(d))
      PROVE  Speaks(d, Updates(feedback))
  <2>1. PICK error : feedback \in ParseBrake(frame, error)
    BY <1>1, ParsedByType
  <2>2. feedback.type = "brake"
    BY <2>1 DEF ParseBrake
  <2> DEFINE update == Updates(feedback)
  <2>3. DOMAIN update = {"error", "brake_status"}
    BY <2>2 DEF Updates
  <2> HIDE DEF update
  <2>4. DOMAIN update \cap DOMAIN Factory = {} /\ DOMAIN update \cap FloatQueries = {}
    BY <2>3, OtherNames
  <2>5. Speaks(d, update)
    BY <2>4 DEF Speaks
  <2> QED
    BY <2>5 DEF update
<1> QED
  BY <1>1, <1>2 DEF TrueReply

\* An acknowledgement updates nothing.
LEMMA AckSpeaks ==
  ASSUME NEW d, NEW feedback, feedback.type = "config_ack"
  PROVE  Speaks(d, Updates(feedback))
<1>1. Updates(feedback) = <<>>
  BY DEF Updates
<1>2. DOMAIN <<>> = {}
  OBVIOUS
<1> QED
  BY <1>1, <1>2 DEF Speaks

(***************************************************************************)
(* Configuration values come back.                                         *)
(***************************************************************************)

\* The codes that can be set and queried under one name.
Asked == {"torque_ratio", "pvt_kp", "pvt_kd", "pvt_position_limit", "pvt_velocity_limit",
          "pvt_torque_limit", "pvt_current_limit", "can_timeout", "current_loop",
          "velocity_loop", "position_loop"}

\* The codes a configuration is both set and queried by, acceleration apart.
LEMMA AskedCodes ==
  /\ DOMAIN SetCode \cap DOMAIN QueryDivisors = Asked
  /\ DOMAIN SetCode \cap DOMAIN QueryCode = Asked
  /\ Asked \subseteq DOMAIN QueryDivisors /\ Asked \subseteq DOMAIN SetCode
  /\ Asked \cap FloatQueries = {} /\ "brake_status" \notin Asked /\ "mcu_uuid" \notin Asked
  /\ "acceleration" \notin Asked /\ "error" \notin Asked
  /\ "comm_mode" \notin Asked /\ "accel" \notin Asked
  BY DEF SetCode, QueryDivisors, QueryCode, FloatQueries, Asked

\* The alternatives each code has.
LEMMA KindsOfWords ==
  /\ DOMAIN ConfigWords = {"double", "float", "milliseconds", "range_u16", "range_float", "gains"}
  /\ DOMAIN ConfigWords["double"] = {"torque_ratio"}
  /\ DOMAIN ConfigWords["float"] = {"accel"}
  /\ DOMAIN ConfigWords["milliseconds"] = {"can_timeout"}
  /\ DOMAIN ConfigWords["range_u16"] = {"pvt_kp", "pvt_kd"}
  /\ DOMAIN ConfigWords["range_float"] = {"pvt_kp", "pvt_kd", "pvt_position_limit",
        "pvt_velocity_limit", "pvt_torque_limit", "pvt_current_limit"}
  /\ DOMAIN ConfigWords["gains"] = {"current_loop", "velocity_loop", "position_loop"}
  BY DEF ConfigWords

\* And their words.
LEMMA WordsOfKinds ==
  /\ ConfigWords["double"]["torque_ratio"] = <<U16(100)>>
  /\ ConfigWords["milliseconds"]["can_timeout"] = <<U16(1000)>>
  /\ ConfigWords["range_u16"]["pvt_kp"] = <<U16(1), U16(1)>>
  /\ ConfigWords["range_float"]["pvt_kp"] = <<U16(1), U16(1)>>
  /\ ConfigWords["range_u16"]["pvt_kd"] = <<U16(1), U16(1)>>
  /\ ConfigWords["range_float"]["pvt_kd"] = <<U16(1), U16(1)>>
  /\ ConfigWords["range_float"]["pvt_position_limit"] = <<I16(100), I16(100)>>
  /\ ConfigWords["range_float"]["pvt_velocity_limit"] = <<I16(100), I16(100)>>
  /\ ConfigWords["range_float"]["pvt_torque_limit"] = <<I16(10), I16(10)>>
  /\ ConfigWords["range_float"]["pvt_current_limit"] = <<I16(10), I16(10)>>
  /\ ConfigWords["gains"]["current_loop"] = <<U16(10000), U16(10)>>
  /\ ConfigWords["gains"]["velocity_loop"] = <<U16(100000), U16(100000)>>
  /\ ConfigWords["gains"]["position_loop"] = <<U16(100000), U16(100000)>>
  BY DEF ConfigWords

\* A code whose alternatives agree has their words.
LEMMA OneForm ==
  ASSUME NEW code, NEW forms, NEW kind \in DOMAIN ConfigWords, code \in DOMAIN ConfigWords[kind],
         \A k \in DOMAIN ConfigWords :
            code \in DOMAIN ConfigWords[k] => ConfigWords[k][code] = forms
  PROVE  FormsOf(code) = forms
<1> DEFINE S == {ConfigWords[k][code] :
                    k \in {k \in DOMAIN ConfigWords : code \in DOMAIN ConfigWords[k]}}
<1>1. \A x \in S : x = forms
  OBVIOUS
<1>2. forms \in S
  OBVIOUS
<1>3. FormsOf(code) = CHOOSE x \in S : TRUE
  BY DEF FormsOf, The
<1> HIDE DEF S
<1> QED
  BY <1>1, <1>2, <1>3

\* What a code's words are scaled by on their way out is what they are divided
\* by on their way in, signed or not.
FormsFit(code, forms) ==
    /\ Len(forms) \in {1, 2} /\ Len(forms) = Len(QueryDivisors[code])
    /\ \A i \in 1..Len(forms) :
          /\ QueryDivisors[code][i] \in {1, 10, 100, 1000, 10000, 100000}
          /\ forms[i] = IF code \in SignedQueries THEN I16(QueryDivisors[code][i])
                                                  ELSE U16(QueryDivisors[code][i])

\* Every alternative of a code has the same words.
Uniform(code) ==
    /\ FormsFit(code, FormsOf(code))
    /\ \A kind \in DOMAIN ConfigWords :
          code \in DOMAIN ConfigWords[kind] => ConfigWords[kind][code] = FormsOf(code)

\* A code written the same way by every alternative that has it has that one form.
LEMMA FormsUniform ==
  ASSUME NEW code, NEW forms, NEW kind \in DOMAIN ConfigWords, code \in DOMAIN ConfigWords[kind],
         \A k \in DOMAIN ConfigWords :
            code \in DOMAIN ConfigWords[k] => ConfigWords[k][code] = forms,
         FormsFit(code, forms)
  PROVE  Uniform(code)
<1>1. FormsOf(code) = forms
  BY OneForm
<1> QED
  BY <1>1 DEF Uniform

\* So has each code that is set and queried.
LEMMA AskedForms == \A code \in Asked : Uniform(code)
<1>1. Uniform("torque_ratio")
  <2> DEFINE f == <<U16(100)>>
             g == QueryDivisors["torque_ratio"]
  <2>1. Len(f) = 1 /\ f[1] = U16(100)
    OBVIOUS
  <2>2. Len(g) = 1 /\ g[1] = 100
    BY DEF QueryDivisors
  <2>3. "torque_ratio" \notin SignedQueries
    BY DEF SignedQueries
  <2>4. \A k \in DOMAIN ConfigWords :
           "torque_ratio" \in DOMAIN ConfigWords[k] => ConfigWords[k]["torque_ratio"] = f
    BY KindsOfWords, WordsOfKinds
  <2>5. "double" \in DOMAIN ConfigWords /\ "torque_ratio" \in DOMAIN ConfigWords["double"]
    BY KindsOfWords
  <2> HIDE DEF f, g
  <2>6. FormsFit("torque_ratio", f)
    BY <2>1, <2>2, <2>3 DEF FormsFit, g
  <2> QED
    BY <2>4, <2>5, <2>6, FormsUniform
<1>2. Uniform("can_timeout")
  <2> DEFINE f == <<U16(1000)>>
             g == QueryDivisors["can_timeout"]
  <2>1. Len(f) = 1 /\ f[1] = U16(1000)
    OBVIOUS
  <2>2. Len(g) = 1 /\ g[1] = 1000
    BY DEF QueryDivisors
  <2>3. "can_timeout" \notin SignedQueries
    BY DEF SignedQueries
  <2>4. \A k \in DOMAIN ConfigWords :
           "can_timeout" \in DOMAIN ConfigWords[k] => ConfigWords[k]["can_timeout"] = f
    BY KindsOfWords, WordsOfKinds
  <2>5. "milliseconds" \in DOMAIN ConfigWords /\ "can_timeout" \in DOMAIN ConfigWords["milliseconds"]
    BY KindsOfWords
  <2> HIDE DEF f, g
  <2>6. FormsFit("can_timeout", f)
    BY <2>1, <2>2, <2>3 DEF FormsFit, g
  <2> QED
    BY <2>4, <2>5, <2>6, FormsUniform
<1>3. Uniform("pvt_kp")
  <2> DEFINE f == <<U16(1), U16(1)>>
             g == QueryDivisors["pvt_kp"]
  <2>1. Len(f) = 2 /\ f[1] = U16(1) /\ f[2] = U16(1)
    OBVIOUS
  <2>2. Len(g) = 2 /\ g[1] = 1 /\ g[2] = 1
    BY DEF QueryDivisors
  <2>3. "pvt_kp" \notin SignedQueries
    BY DEF SignedQueries
  <2>4. \A k \in DOMAIN ConfigWords :
           "pvt_kp" \in DOMAIN ConfigWords[k] => ConfigWords[k]["pvt_kp"] = f
    BY KindsOfWords, WordsOfKinds
  <2>5. "range_u16" \in DOMAIN ConfigWords /\ "pvt_kp" \in DOMAIN ConfigWords["range_u16"]
    BY KindsOfWords
  <2> HIDE DEF f, g
  <2>6. FormsFit("pvt_kp", f)
    BY <2>1, <2>2, <2>3 DEF FormsFit, g
  <2> QED
    BY <2>4, <2>5, <2>6, FormsUniform
<1>4. Uniform("pvt_kd")
  <2> DEFINE f == <<U16(1), U16(1)>>
             g == QueryDivisors["pvt_kd"]
  <2>1. Len(f) = 2 /\ f[1] = U16(1) /\ f[2] = U16(1)
    OBVIOUS
  <2>2. Len(g) = 2 /\ g[1] = 1 /\ g[2] = 1
    BY DEF QueryDivisors
  <2>3. "pvt_kd" \notin SignedQueries
    BY DEF SignedQueries
  <2>4. \A k \in DOMAIN ConfigWords :
           "pvt_kd" \in DOMAIN ConfigWords[k] => ConfigWords[k]["pvt_kd"] = f
    BY KindsOfWords, WordsOfKinds
  <2>5. "range_u16" \in DOMAIN ConfigWords /\ "pvt_kd" \in DOMAIN ConfigWords["range_u16"]
    BY KindsOfWords
  <2> HIDE DEF f, g
  <2>6. FormsFit("pvt_kd", f)
    BY <2>1, <2>2, <2>3 DEF FormsFit, g
  <2> QED
    BY <2>4, <2>5, <2>6, FormsUniform
<1>5. Uniform("pvt_position_limit")
  <2> DEFINE f == <<I16(100), I16(100)>>
             g == QueryDivisors["pvt_position_limit"]
  <2>1. Len(f) = 2 /\ f[1] = I16(100) /\ f[2] = I16(100)
    OBVIOUS
  <2>2. Len(g) = 2 /\ g[1] = 100 /\ g[2] = 100
    BY DEF QueryDivisors
  <2>3. "pvt_position_limit" \in SignedQueries
    BY DEF SignedQueries
  <2>4. \A k \in DOMAIN ConfigWords :
           "pvt_position_limit" \in DOMAIN ConfigWords[k] => ConfigWords[k]["pvt_position_limit"] = f
    BY KindsOfWords, WordsOfKinds
  <2>5. "range_float" \in DOMAIN ConfigWords /\ "pvt_position_limit" \in DOMAIN ConfigWords["range_float"]
    BY KindsOfWords
  <2> HIDE DEF f, g
  <2>6. FormsFit("pvt_position_limit", f)
    BY <2>1, <2>2, <2>3 DEF FormsFit, g
  <2> QED
    BY <2>4, <2>5, <2>6, FormsUniform
<1>6. Uniform("pvt_velocity_limit")
  <2> DEFINE f == <<I16(100), I16(100)>>
             g == QueryDivisors["pvt_velocity_limit"]
  <2>1. Len(f) = 2 /\ f[1] = I16(100) /\ f[2] = I16(100)
    OBVIOUS
  <2>2. Len(g) = 2 /\ g[1] = 100 /\ g[2] = 100
    BY DEF QueryDivisors
  <2>3. "pvt_velocity_limit" \in SignedQueries
    BY DEF SignedQueries
  <2>4. \A k \in DOMAIN ConfigWords :
           "pvt_velocity_limit" \in DOMAIN ConfigWords[k] => ConfigWords[k]["pvt_velocity_limit"] = f
    BY KindsOfWords, WordsOfKinds
  <2>5. "range_float" \in DOMAIN ConfigWords /\ "pvt_velocity_limit" \in DOMAIN ConfigWords["range_float"]
    BY KindsOfWords
  <2> HIDE DEF f, g
  <2>6. FormsFit("pvt_velocity_limit", f)
    BY <2>1, <2>2, <2>3 DEF FormsFit, g
  <2> QED
    BY <2>4, <2>5, <2>6, FormsUniform
<1>7. Uniform("pvt_torque_limit")
  <2> DEFINE f == <<I16(10), I16(10)>>
             g == QueryDivisors["pvt_torque_limit"]
  <2>1. Len(f) = 2 /\ f[1] = I16(10) /\ f[2] = I16(10)
    OBVIOUS
  <2>2. Len(g) = 2 /\ g[1] = 10 /\ g[2] = 10
    BY DEF QueryDivisors
  <2>3. "pvt_torque_limit" \in SignedQueries
    BY DEF SignedQueries
  <2>4. \A k \in DOMAIN ConfigWords :
           "pvt_torque_limit" \in DOMAIN ConfigWords[k] => ConfigWords[k]["pvt_torque_limit"] = f
    BY KindsOfWords, WordsOfKinds
  <2>5. "range_float" \in DOMAIN ConfigWords /\ "pvt_torque_limit" \in DOMAIN ConfigWords["range_float"]
    BY KindsOfWords
  <2> HIDE DEF f, g
  <2>6. FormsFit("pvt_torque_limit", f)
    BY <2>1, <2>2, <2>3 DEF FormsFit, g
  <2> QED
    BY <2>4, <2>5, <2>6, FormsUniform
<1>8. Uniform("pvt_current_limit")
  <2> DEFINE f == <<I16(10), I16(10)>>
             g == QueryDivisors["pvt_current_limit"]
  <2>1. Len(f) = 2 /\ f[1] = I16(10) /\ f[2] = I16(10)
    OBVIOUS
  <2>2. Len(g) = 2 /\ g[1] = 10 /\ g[2] = 10
    BY DEF QueryDivisors
  <2>3. "pvt_current_limit" \in SignedQueries
    BY DEF SignedQueries
  <2>4. \A k \in DOMAIN ConfigWords :
           "pvt_current_limit" \in DOMAIN ConfigWords[k] => ConfigWords[k]["pvt_current_limit"] = f
    BY KindsOfWords, WordsOfKinds
  <2>5. "range_float" \in DOMAIN ConfigWords /\ "pvt_current_limit" \in DOMAIN ConfigWords["range_float"]
    BY KindsOfWords
  <2> HIDE DEF f, g
  <2>6. FormsFit("pvt_current_limit", f)
    BY <2>1, <2>2, <2>3 DEF FormsFit, g
  <2> QED
    BY <2>4, <2>5, <2>6, FormsUniform
<1>9. Uniform("current_loop")
  <2> DEFINE f == <<U16(10000), U16(10)>>
             g == QueryDivisors["current_loop"]
  <2>1. Len(f) = 2 /\ f[1] = U16(10000) /\ f[2] = U16(10)
    OBVIOUS
  <2>2. Len(g) = 2 /\ g[1] = 10000 /\ g[2] = 10
    BY DEF QueryDivisors
  <2>3. "current_loop" \notin SignedQueries
    BY DEF SignedQueries
  <2>4. \A k \in DOMAIN ConfigWords :
           "current_loop" \in DOMAIN ConfigWords[k] => ConfigWords[k]["current_loop"] = f
    BY KindsOfWords, WordsOfKinds
  <2>5. "gains" \in DOMAIN ConfigWords /\ "current_loop" \in DOMAIN ConfigWords["gains"]
    BY KindsOfWords
  <2> HIDE DEF f, g
  <2>6. FormsFit("current_loop", f)
    BY <2>1, <2>2, <2>3 DEF FormsFit, g
  <2> QED
    BY <2>4, <2>5, <2>6, FormsUniform
<1>10. Uniform("velocity_loop")
  <2> DEFINE f == <<U16(100000), U16(100000)>>
             g == QueryDivisors["velocity_loop"]
  <2>1. Len(f) = 2 /\ f[1] = U16(100000) /\ f[2] = U16(100000)
    OBVIOUS
  <2>2. Len(g) = 2 /\ g[1] = 100000 /\ g[2] = 100000
    BY DEF QueryDivisors
  <2>3. "velocity_loop" \notin SignedQueries
    BY DEF SignedQueries
  <2>4. \A k \in DOMAIN ConfigWords :
           "velocity_loop" \in DOMAIN ConfigWords[k] => ConfigWords[k]["velocity_loop"] = f
    BY KindsOfWords, WordsOfKinds
  <2>5. "gains" \in DOMAIN ConfigWords /\ "velocity_loop" \in DOMAIN ConfigWords["gains"]
    BY KindsOfWords
  <2> HIDE DEF f, g
  <2>6. FormsFit("velocity_loop", f)
    BY <2>1, <2>2, <2>3 DEF FormsFit, g
  <2> QED
    BY <2>4, <2>5, <2>6, FormsUniform
<1>11. Uniform("position_loop")
  <2> DEFINE f == <<U16(100000), U16(100000)>>
             g == QueryDivisors["position_loop"]
  <2>1. Len(f) = 2 /\ f[1] = U16(100000) /\ f[2] = U16(100000)
    OBVIOUS
  <2>2. Len(g) = 2 /\ g[1] = 100000 /\ g[2] = 100000
    BY DEF QueryDivisors
  <2>3. "position_loop" \notin SignedQueries
    BY DEF SignedQueries
  <2>4. \A k \in DOMAIN ConfigWords :
           "position_loop" \in DOMAIN ConfigWords[k] => ConfigWords[k]["position_loop"] = f
    BY KindsOfWords, WordsOfKinds
  <2>5. "gains" \in DOMAIN ConfigWords /\ "position_loop" \in DOMAIN ConfigWords["gains"]
    BY KindsOfWords
  <2> HIDE DEF f, g
  <2>6. FormsFit("position_loop", f)
    BY <2>1, <2>2, <2>3 DEF FormsFit, g
  <2> QED
    BY <2>4, <2>5, <2>6, FormsUniform
<1> QED
  BY <1>1, <1>2, <1>3, <1>4, <1>5, <1>6, <1>7, <1>8, <1>9, <1>10, <1>11 DEF Asked

Divisors == {1, 10, 100, 1000, 10000, 100000}

\* A value scaled, rounded and divided again is within half a step.
LEMMA DividedBack ==
  ASSUME NEW scale \in Divisors, NEW value \in Int, NEW raw \in Int,
         raw = Rounded(value * scale, 1000)
  PROVE  Near(Rounded(1000 * raw, scale), value, 500 \div scale)
<1>1. CASE scale = 1
  BY <1>1, SMTT(30) DEF Near, Rounded
<1>2. CASE scale = 10
  BY <1>2, SMTT(30) DEF Near, Rounded
<1>3. CASE scale = 100
  BY <1>3, SMTT(30) DEF Near, Rounded
<1>4. CASE scale = 1000
  BY <1>4, SMTT(30) DEF Near, Rounded
<1>5. CASE scale = 10000
  BY <1>5, SMTT(30) DEF Near, Rounded
<1>6. CASE scale = 100000
  BY <1>6, SMTT(30) DEF Near, Rounded
<1> QED
  BY <1>1, <1>2, <1>3, <1>4, <1>5, <1>6 DEF Divisors

IsForm(form) == \E scale \in Divisors : form = U16(scale) \/ form = I16(scale)

\* A word of 16 bits.
IsWord(word) == word \in Nat /\ word <= 65535

\* A value sent as a word is meant by that word.
LEMMA WordMeans ==
  ASSUME NEW form, IsForm(form), NEW value \in Number, NEW raw \in ScaledBy(value, form)
  PROVE  /\ IsWord(Unsigned(raw))
         /\ Near(Meant(Unsigned(raw), form), value, 500 \div form.scale)
<1>1. PICK scale \in Divisors : form = U16(scale) \/ form = I16(scale)
  BY DEF IsForm
<1>2. scale \in Nat /\ form.scale = scale
  BY <1>1 DEF Divisors, U16, I16
<1> DEFINE min == form.min
           max == form.max
<1>3. \/ min = 0 /\ max = 65535
      \/ min = -32768 /\ max = 32767
  BY <1>1 DEF U16, I16
<1>4. raw \in Scaled(value, scale, min, max) /\ min \in Int /\ max \in Int
  BY <1>2, <1>3 DEF ScaledBy
<1>5. value \in Int /\ raw = Rounded(value * scale, 1000) /\ InRange(raw, min, max)
  <2> HIDE DEF min, max
  <2> QED
    BY <1>2, <1>4, ScaledAccepted
<1>6. raw \in Int /\ min <= raw /\ raw <= max
  BY <1>5 DEF InRange
<1> DEFINE word == Unsigned(raw)
<1>7. IsWord(word) /\ (IF min < 0 THEN Signed(word) ELSE word) = raw
  BY <1>3, <1>6 DEF IsWord, Unsigned, Signed
<1>8. Near(Rounded(1000 * raw, scale), value, 500 \div scale)
  BY <1>5, <1>6, DividedBack
<1>9. Meant(word, form) = Rounded(1000 * raw, scale)
  <2> HIDE DEF word
  <2> QED
    BY <1>2, <1>7 DEF Meant
<1> QED
  BY <1>2, <1>7, <1>8, <1>9

\* What the words of a code mean: a value its device was given, or what they
\* were at first.
Stands(d, code, words) ==
    \E wanted \in Configured(d, code) :
        \A i \in 1..Len(words) :
            Near(Meant(words[i], FormsOf(code)[i]), wanted[i], 500 \div FormsOf(code)[i].scale)

WordsFor(d, code, words) ==
    /\ words \in Seq(Nat) /\ Len(words) = Len(FormsOf(code))
    /\ \A i \in 1..Len(words) : IsWord(words[i])
    /\ Stands(d, code, words)

WordsKept(d, m) == \A code \in Asked : WordsFor(d, code, m.words[code])

\* The forms of a code that can be asked for.
LEMMA FormsKnown ==
  ASSUME NEW code \in Asked
  PROVE  /\ Len(FormsOf(code)) \in {1, 2} /\ Len(FormsOf(code)) = Len(QueryDivisors[code])
         /\ \A i \in 1..Len(FormsOf(code)) : IsForm(FormsOf(code)[i])
<1>1. FormsFit(code, FormsOf(code))
  BY AskedForms DEF Uniform
<1>2. ASSUME NEW i \in 1..Len(FormsOf(code)) PROVE IsForm(FormsOf(code)[i])
  <2> DEFINE divisor == QueryDivisors[code][i]
             form == FormsOf(code)[i]
  <2>1. divisor \in Divisors /\ (form = I16(divisor) \/ form = U16(divisor))
    BY <1>1 DEF FormsFit, Divisors
  <2> HIDE DEF divisor, form
  <2>2. IsForm(form)
    BY <2>1 DEF IsForm
  <2> QED
    BY <2>2 DEF form
<1> QED
  BY <1>1, <1>2 DEF FormsFit

\* What a word means is a whole number of thousandths.
LEMMA MeantIsInt ==
  ASSUME NEW form, IsForm(form), NEW word, IsWord(word)
  PROVE  Meant(word, form) \in Int /\ 500 \div form.scale \in Nat
<1>1. PICK scale \in Divisors : form = U16(scale) \/ form = I16(scale)
  BY DEF IsForm
<1>2. scale \in Nat \ {0} /\ form.scale = scale
  BY <1>1 DEF Divisors, U16, I16
<1>3. 500 \div scale \in Nat
  BY <1>1 DEF Divisors
<1> DEFINE n == 1000 * (IF form.min < 0 THEN Signed(word) ELSE word)
<1>4. n \in Int
  BY DEF IsWord, Signed
<1> HIDE DEF n
<1>5. Rounded(n, scale) \in Int
  BY <1>2, <1>4, RoundedIsInt
<1> QED
  BY <1>2, <1>3, <1>5 DEF Meant, n

\* At first every code means what it was.
LEMMA FactoryStands ==
  ASSUME NEW d
  PROVE  \A m : m.words = Factory => WordsKept(d, m)
<1> SUFFICES ASSUME NEW code \in Asked PROVE WordsFor(d, code, Factory[code])
  BY DEF WordsKept
<1> DEFINE words == Factory[code]
           wanted == [i \in Index(words) |-> Meant(words[i], FormsOf(code)[i])]
<1>1. code \in DOMAIN SetCode /\ code \in DOMAIN QueryDivisors
  BY AskedCodes
<1>2. /\ words \in Seq(Nat) /\ \A i \in Index(words) : words[i] <= 65535
      /\ Len(words) = Len(QueryDivisors[code])
  BY <1>1, FactoryIsWords
<1>3. /\ Len(words) = Len(FormsOf(code))
      /\ \A i \in 1..Len(words) : IsForm(FormsOf(code)[i])
  BY <1>2, FormsKnown
<1>4. wanted \in Configured(d, code)
  BY DEF Configured
<1> HIDE DEF words
<1>5. ASSUME NEW i \in 1..Len(words)
      PROVE  /\ IsWord(words[i])
             /\ Near(Meant(words[i], FormsOf(code)[i]), wanted[i], 500 \div FormsOf(code)[i].scale)
  <2> DEFINE meant == Meant(words[i], FormsOf(code)[i])
             half == 500 \div FormsOf(code)[i].scale
  <2>1. IsWord(words[i])
    BY <1>2 DEF IsWord, Index
  <2>2. meant \in Int /\ half \in Nat
    BY <1>3, <2>1, MeantIsInt
  <2>3. wanted[i] = meant
    BY DEF Index
  <2> HIDE DEF meant, half, wanted
  <2>4. Near(meant, wanted[i], half)
    BY <2>2, <2>3 DEF Near
  <2> QED
    BY <2>1, <2>4 DEF meant, half
<1> HIDE DEF wanted
<1>6. WordsFor(d, code, words)
  BY <1>2, <1>3, <1>4, <1>5 DEF WordsFor, Stands
<1> QED
  BY <1>6 DEF words

\* No two codes have one number.
LEMMA KeysDiffer ==
  /\ \A a, b \in DOMAIN SetCode : SetCode[a] = SetCode[b] => a = b
  /\ \A a \in DOMAIN SetCode : SetCode[a] \in Nat /\ SetCode[a] < 65536
  BY DEF SetCode

\* No two codes are queried by the same number.
LEMMA QueryKeysDiffer ==
  /\ \A a, b \in DOMAIN QueryCode : QueryCode[a] = QueryCode[b] => a = b
  /\ \A a \in DOMAIN QueryCode : QueryCode[a] \in Nat /\ QueryCode[a] < 65536
  BY DEF QueryCode

\* The motor knows the code by its number.
LEMMA KeyTells ==
  ASSUME NEW frame, NEW code \in DOMAIN SetCode, Field(frame, Key) = SetCode[code]
  PROVE  ConfigCode(frame) = code
<1> DEFINE S == {c \in DOMAIN SetCode : SetCode[c] = Field(frame, Key)}
<1>1. code \in S /\ \A c \in S : c = code
  BY KeysDiffer
<1>2. ConfigCode(frame) = CHOOSE c \in S : TRUE
  BY DEF ConfigCode, The
<1> HIDE DEF S
<1> QED
  BY <1>1, <1>2

\* Whatever a configuration frame sets, it is the code of its command.
LEMMA ConfigCodeTold ==
  ASSUME NEW address \in Address, NEW c \in ConfigCommand, NEW frame \in MakeConfig(address, c)
  PROVE  ConfigCode(frame) = c.code
<1>1. c.code \in DOMAIN SetCode
  BY DEF ConfigCommand
<1>2. IsRaw(SetCode[c.code])
  BY <1>1, KeysDiffer, SmallIsRaw
<1>3. ASSUME NEW len \in {3, 4, 6}, NEW writes, InOrder(writes), Len(writes) \in Nat, Len(writes) >= 2,
             writes[2] = <<Key, SetCode[c.code]>>, frame \in Filled(address, len, writes)
      PROVE  ConfigCode(frame) = c.code
  <2>1. CarriesAll(frame, address, len, writes)
    BY <1>3, FilledCarries
  <2>2. 2 \in 1..Len(writes)
    BY <1>3
  <2>3. Field(frame, Key) = SetCode[c.code]
    BY <1>2, <1>3, <2>1, <2>2 DEF CarriesAll
  <2> QED
    BY <1>1, <2>3, KeyTells
<1>4. ASSUME NEW byte, frame \in Filled(address, 3, ByteWrites(c.code, byte))
      PROVE  ConfigCode(frame) = c.code
  <2>1. Len(ByteWrites(c.code, byte)) = 3
        /\ ByteWrites(c.code, byte)[2] = <<Key, SetCode[c.code]>>
    BY DEF ByteWrites
  <2> QED
    BY <1>3, <1>4, <2>1, ConfigInOrder
<1>5. ASSUME NEW word, frame \in Filled(address, 4, WordWrites(c.code, word))
      PROVE  ConfigCode(frame) = c.code
  <2>1. Len(WordWrites(c.code, word)) = 3
        /\ WordWrites(c.code, word)[2] = <<Key, SetCode[c.code]>>
    BY DEF WordWrites
  <2> QED
    BY <1>3, <1>5, <2>1, ConfigInOrder
<1>6. ASSUME NEW low, NEW high, frame \in Filled(address, 6, TwoWordWrites(c.code, low, high))
      PROVE  ConfigCode(frame) = c.code
  <2>1. Len(TwoWordWrites(c.code, low, high)) = 4
        /\ TwoWordWrites(c.code, low, high)[2] = <<Key, SetCode[c.code]>>
    BY DEF TwoWordWrites
  <2> QED
    BY <1>3, <1>6, <2>1, ConfigInOrder
<1> QED
  BY <1>4, <1>5, <1>6, ConfigMade
\* What a motor reads from a configuration frame.
LEMMA ConfigRead ==
  ASSUME NEW address \in Address, NEW code, NEW low, NEW high,
         IsWord(low), IsWord(high), NEW frame
  PROVE  /\ frame \in Filled(address, 4, WordWrites(code, low)) =>
               ConfigValue(frame) = <<low>>
         /\ frame \in Filled(address, 6, TwoWordWrites(code, low, high)) =>
               ConfigValue(frame) = <<low, high>>
<1>1. IsRaw(low) /\ IsRaw(high)
  <2>1. low \in Nat /\ low < 65536 /\ high \in Nat /\ high < 65536
    BY DEF IsWord
  <2> QED
    BY <2>1, SmallIsRaw
<1>2. ASSUME frame \in Filled(address, 4, WordWrites(code, low))
      PROVE  ConfigValue(frame) = <<low>>
  <2> DEFINE writes == WordWrites(code, low)
  <2>1. Len(writes) = 3 /\ writes[3] = <<ConfigMin, low>>
    BY DEF WordWrites
  <2>2. InOrder(writes)
    BY ConfigInOrder
  <2> HIDE DEF writes
  <2>3. CarriesAll(frame, address, 4, writes)
    BY <1>2, <2>2, FilledCarries DEF writes
  <2>4. frame.len = 4 /\ Field(frame, ConfigMin) = low
    BY <1>1, <2>1, <2>3 DEF CarriesAll, Made
  <2> QED
    BY <2>4 DEF ConfigValue
<1>3. ASSUME frame \in Filled(address, 6, TwoWordWrites(code, low, high))
      PROVE  ConfigValue(frame) = <<low, high>>
  <2> DEFINE writes == TwoWordWrites(code, low, high)
  <2>1. Len(writes) = 4 /\ writes[3] = <<ConfigMin, low>> /\ writes[4] = <<ConfigMax, high>>
    BY DEF TwoWordWrites
  <2>2. InOrder(writes)
    BY ConfigInOrder
  <2> HIDE DEF writes
  <2>3. CarriesAll(frame, address, 6, writes)
    BY <1>3, <2>2, FilledCarries DEF writes
  <2>4. frame.len = 6 /\ Field(frame, ConfigMin) = low /\ Field(frame, ConfigMax) = high
    BY <1>1, <2>1, <2>3 DEF CarriesAll, Made
  <2> QED
    BY <2>4 DEF ConfigValue
<1> QED
  BY <1>2, <1>3

\* Two codes have one word, the others two.
LEMMA LengthsOfCodes ==
  ASSUME NEW code \in Asked
  PROVE  Len(FormsOf(code)) = IF code \in {"torque_ratio", "can_timeout"} THEN 1 ELSE 2
<1> DEFINE length == Len(QueryDivisors[code])
<1>1. code = "torque_ratio" => length = 1
  BY DEF QueryDivisors
<1>2. code = "can_timeout" => length = 1
  BY DEF QueryDivisors
<1>3. code = "pvt_kp" => length = 2
  BY DEF QueryDivisors
<1>4. code = "pvt_kd" => length = 2
  BY DEF QueryDivisors
<1>5. code = "pvt_position_limit" => length = 2
  BY DEF QueryDivisors
<1>6. code = "pvt_velocity_limit" => length = 2
  BY DEF QueryDivisors
<1>7. code = "pvt_torque_limit" => length = 2
  BY DEF QueryDivisors
<1>8. code = "pvt_current_limit" => length = 2
  BY DEF QueryDivisors
<1>9. code = "current_loop" => length = 2
  BY DEF QueryDivisors
<1>10. code = "velocity_loop" => length = 2
  BY DEF QueryDivisors
<1>11. code = "position_loop" => length = 2
  BY DEF QueryDivisors
<1>12. length = Len(FormsOf(code))
  BY FormsKnown
<1> HIDE DEF length
<1> QED
  BY <1>1, <1>2, <1>3, <1>4, <1>5, <1>6, <1>7, <1>8, <1>9,
     <1>10, <1>11, <1>12 DEF Asked

\* The alternatives of one value are those of the codes of one word.
LEMMA LengthsOfKinds ==
  ASSUME NEW kind \in DOMAIN ConfigWords, NEW code \in DOMAIN ConfigWords[kind], code \in Asked
  PROVE  kind \in {"double", "float", "milliseconds"} <=> code \in {"torque_ratio", "can_timeout"}
  BY KindsOfWords, AskedCodes

\* A configuration command of a code that can be asked for is of one or two
\* words in the code's own form.
LEMMA ConfigWordsSet ==
  ASSUME NEW address \in Address, NEW c \in ConfigCommand, NEW frame \in MakeConfig(address, c),
         c.code \in Asked
  PROVE  LET forms == FormsOf(c.code)
             words == ConfigValue(frame)
         IN  /\ words \in Seq(Nat) /\ Len(words) = Len(forms)
             /\ \A i \in 1..Len(words) :
                   /\ IsWord(words[i])
                   /\ Near(Meant(words[i], forms[i]), c.values[i], 500 \div forms[i].scale)
<1> DEFINE forms == FormsOf(c.code)
           words == ConfigValue(frame)
<1>1. c.code \in DOMAIN SetCode /\ c.code # "comm_mode"
  BY AskedCodes
<1>2. c.kind # "uint8"
  BY <1>1 DEF MakeConfig, MakeConfigByte
<1>3. /\ c.code \in DOMAIN ConfigWords[c.kind]
      /\ frame \in MakeConfigWords(address, c, ConfigWords[c.kind][c.code])
  BY <1>2 DEF MakeConfig
<1>4. /\ c.kind \in DOMAIN ConfigWords
      /\ \/ /\ c.kind \in {"double", "float", "milliseconds"} /\ c.values \in [1..1 -> Number]
         \/ /\ c.kind \in {"range_u16", "range_float", "gains"} /\ c.values \in [1..2 -> Number]
  BY <1>2, KindsOfWords DEF ConfigCommand
<1>5. ConfigWords[c.kind][c.code] = forms
  BY <1>3, <1>4, AskedForms DEF Uniform
<1>6. Len(forms) \in {1, 2} /\ \A i \in 1..Len(forms) : IsForm(forms[i])
  BY FormsKnown
<1>7. Len(forms) = 1 <=> c.kind \in {"double", "float", "milliseconds"}
  <2>1. Len(forms) = IF c.code \in {"torque_ratio", "can_timeout"} THEN 1 ELSE 2
    BY LengthsOfCodes
  <2>2. c.kind \in {"double", "float", "milliseconds"}
           <=> c.code \in {"torque_ratio", "can_timeout"}
    BY <1>3, <1>4, LengthsOfKinds
  <2> HIDE DEF forms
  <2> QED
    BY <2>1, <2>2
<1> HIDE DEF forms, words
<1>8. \/ /\ Len(forms) = 1
         /\ \E v \in ScaledBy(c.values[1], forms[1]) :
               frame \in Filled(address, 4, WordWrites(c.code, Unsigned(v)))
      \/ /\ Len(forms) = 2
         /\ \E v \in ScaledBy(c.values[1], forms[1]), w \in ScaledBy(c.values[2], forms[2]) :
               frame \in Filled(address, 6, TwoWordWrites(c.code, Unsigned(v), Unsigned(w)))
  BY <1>3, <1>5, <1>6, ConfigWordsMade
<1> DEFINE Good(i, word) == /\ IsWord(word)
                            /\ Near(Meant(word, forms[i]), c.values[i], 500 \div forms[i].scale)
<1>9. ASSUME NEW i \in 1..Len(forms), NEW v \in ScaledBy(c.values[i], forms[i])
      PROVE  Good(i, Unsigned(v))
  <2>1. c.values[i] \in Number
    BY <1>4, <1>6, <1>7
  <2> QED
    BY <1>6, <2>1, WordMeans
<1>10. CASE Len(forms) = 1
  <2>1. PICK v \in ScaledBy(c.values[1], forms[1]) :
           frame \in Filled(address, 4, WordWrites(c.code, Unsigned(v)))
    BY <1>8, <1>10
  <2> DEFINE word == Unsigned(v)
  <2>2. Good(1, word)
    BY <1>9, <1>10
  <2> HIDE DEF word
  <2>3. words = <<word>>
    BY <2>1, <2>2, ConfigRead DEF word, words
  <2>4. words \in Seq(Nat) /\ Len(words) = 1 /\ words[1] = word
    BY <2>2, <2>3 DEF IsWord
  <2> QED
    BY <1>10, <2>2, <2>3, <2>4 DEF forms, words
<1>11. CASE Len(forms) = 2
  <2>1. PICK v \in ScaledBy(c.values[1], forms[1]), w \in ScaledBy(c.values[2], forms[2]) :
           frame \in Filled(address, 6, TwoWordWrites(c.code, Unsigned(v), Unsigned(w)))
    BY <1>8, <1>11
  <2> DEFINE low == Unsigned(v)
             high == Unsigned(w)
  <2>2. Good(1, low) /\ Good(2, high)
    BY <1>9, <1>11
  <2> HIDE DEF low, high
  <2>3. words = <<low, high>>
    BY <2>1, <2>2, ConfigRead DEF low, high, words
  <2>4. words \in Seq(Nat) /\ Len(words) = 2 /\ words[1] = low /\ words[2] = high
    BY <2>2, <2>3 DEF IsWord
  <2> QED
    BY <1>11, <2>2, <2>3, <2>4 DEF forms, words
<1> QED
  BY <1>6, <1>10, <1>11

\* One field, or one for each word.
LEMMA OnePayload ==
  ASSUME NEW field \in BitField, field.offset >= 16, NEW raw
  PROVE  /\ Payload(<<<<field, raw>>>>) /\ Len(<<<<field, raw>>>>) = 1
         /\ <<<<field, raw>>>>[1] = <<field, raw>>
<1> DEFINE write == <<field, raw>>
           all == <<write>>
<1>1. write[1] = field
  OBVIOUS
<1> HIDE DEF write
<1>2. all \in Seq({write}) /\ Len(all) = 1 /\ all[1] = write
  OBVIOUS
<1> HIDE DEF all
<1>3. IsSeq(all)
  BY <1>2 DEF IsSeq
<1>4. Payload(all)
  BY <1>1, <1>2, <1>3 DEF Payload
<1> QED
  BY <1>2, <1>4 DEF all, write

\* Words laid out one after the other are a payload in order.
LEMMA WordsPayload ==
  ASSUME NEW words \in Seq(Nat)
  PROVE  LET all == [i \in Index(words) |-> <<Bits(16 * i, 16), words[i]>>]
         IN  /\ Payload(all) /\ Len(all) = Len(words)
             /\ \A i \in 1..Len(words) : all[i] = <<Bits(16 * i, 16), words[i]>>
<1> DEFINE n == Len(words)
           write(i) == <<Bits(16 * i, 16), words[i]>>
           all == [i \in 1..n |-> write(i)]
           S == {write(i) : i \in 1..n}
<1>1. n \in Nat
  OBVIOUS
<1>2. \A i \in 1..n : write(i)[1] = Bits(16 * i, 16)
  OBVIOUS
<1>3. \A i \in 1..n : /\ Bits(16 * i, 16) \in BitField
                      /\ Bits(16 * i, 16).offset = 16 * i /\ Bits(16 * i, 16).len = 16
  BY <1>1 DEF Bits, BitField
<1> HIDE DEF n, write
<1>4. all \in [1..n -> S] /\ \A i \in 1..n : all[i] = write(i)
  OBVIOUS
<1> HIDE DEF all, S
<1>5. all \in Seq(S) /\ Len(all) = n
  BY <1>1, <1>4
<1>6. IsSeq(all)
  BY <1>5 DEF IsSeq
<1>7. Payload(all)
  <2>1. ASSUME NEW i \in 1..Len(all)
        PROVE  all[i][1] \in BitField /\ all[i][1].offset = 16 * i /\ all[i][1].len = 16
    BY <1>2, <1>3, <1>4, <1>5
  <2>2. ASSUME NEW i \in 1..Len(all) PROVE all[i][1].offset >= 16
    BY <1>1, <1>5, <2>1
  <2>3. ASSUME NEW i \in 1..Len(all), NEW j \in 1..Len(all), i < j
        PROVE  all[i][1].offset + all[i][1].len <= all[j][1].offset
    BY <1>1, <1>5, <2>1, <2>3
  <2> QED
    BY <1>6, <2>1, <2>2, <2>3 DEF Payload
<1> QED
  BY <1>4, <1>5, <1>7 DEF all, n, write, Index

\* What a motor answers a query with is a payload in order.
LEMMA PayloadOrdered ==
  ASSUME NEW d, NEW m, IsMotor(m), NEW code
  PROVE  Payload(QueryPayload(d, m, code))
<1>0. Bits(16, 32) \in BitField /\ Bits(16, 32).offset = 16 /\ Byte(2) \in BitField /\ Byte(2).offset = 16
  BY DEF Bits, Byte, BitField
<1> DEFINE float == <<<<Bits(16, 32), F32Bits(Physical[d][code])>>>>
           brake == <<<<Byte(2), IF m.released THEN 1 ELSE 0>>>>
           words == [i \in Index(m.words[SetCodeOf(code)]) |->
                        <<Bits(16 * i, 16), m.words[SetCodeOf(code)][i]>>]
           other == <<<<Byte(2), 1>>>>
<1>1. Payload(float) /\ Payload(brake) /\ Payload(other)
  BY <1>0, OnePayload
<1>2. SetCodeOf(code) \in DOMAIN m.words => Payload(words)
  BY WordsPayload DEF IsMotor
<1>3. QueryPayload(d, m, code) =
        CASE code \in FloatQueries -> float
          [] code = "brake_status" -> brake
          [] SetCodeOf(code) \in DOMAIN m.words -> words
          [] OTHER -> other
  BY DEF QueryPayload
<1> HIDE DEF float, brake, words, other
<1>4. \/ QueryPayload(d, m, code) = float \/ QueryPayload(d, m, code) = brake
      \/ SetCodeOf(code) \in DOMAIN m.words /\ QueryPayload(d, m, code) = words
      \/ QueryPayload(d, m, code) = other
  BY <1>3
<1> QED
  BY <1>1, <1>2, <1>4

\* An answer is about the code asked for.
Tells(update, code, value) ==
    /\ DOMAIN update = {"error"} \cup ({code} \ {"mcu_uuid"})
    /\ code \notin {"error", "mcu_uuid"} =>
          update[code] = IF Len(value) = 1 THEN value[1] ELSE value

\* The answer to a query tells a value of the code it was asked for.
LEMMA QueryParsed ==
  ASSUME NEW frame, NEW code \in DOMAIN QueryCode, Says(frame, Key, QueryCode[code]),
         NEW error, NEW feedback \in ParseQuery(frame, error)
  PROVE  \E value \in QueryValue(frame, code) : Tells(Updates(feedback), code, value)
<1>1. PICK q \in DOMAIN QueryCode :
         /\ QueryCode[q] \in Read(frame, Key)
         /\ \E value \in QueryValue(frame, q) :
               feedback = [type |-> "query", error |-> error, code |-> q, value |-> value]
  BY DEF ParseQuery
<1>2. q = code
  BY <1>1, QueryKeysDiffer DEF Says
<1>3. PICK value \in QueryValue(frame, code) :
         feedback = [type |-> "query", error |-> error, code |-> code, value |-> value]
  BY <1>1, <1>2
<1>4. Updates(feedback) =
         [name \in {"error"} \cup ({code} \ {"mcu_uuid"}) |->
             IF name = "error" THEN error
             ELSE IF Len(value) = 1 THEN value[1] ELSE value]
  BY <1>3 DEF Updates
<1>5. Tells(Updates(feedback), code, value)
  BY <1>4 DEF Tells
<1> QED
  BY <1>5

\* The answer to a query of a sensor says what it reads.
LEMMA FloatAnswered ==
  ASSUME NEW d, FitSensors(d), NEW code \in FloatQueries, NEW frame,
         Says(frame, Bits(16, 32), F32Bits(Physical[d][code])),
         NEW value \in QueryValue(frame, code)
  PROVE  Len(value) = 1 /\ SensorSays(d, code, value[1])
<1>1. RawFloat(Physical[d][code]) /\ Measured(Physical[d].current, 327670)
  BY DEF FitSensors
<1> DEFINE sensed == Physical[d][code]
<1>2. BitsF32(F32Bits(sensed)) = sensed
  BY <1>1, FloatComesBack
<1>3. /\ code \notin DOMAIN QueryDivisors
      /\ code \notin DOMAIN ByteQueries /\ code # "brake_status"
  BY DEF FloatQueries, QueryDivisors, ByteQueries
<1>4. PICK raw \in Read(frame, Bits(16, 32)) : value = <<BitsF32(raw)>>
  BY <1>3 DEF QueryValue
<1>5. BitsF32(raw) = sensed
  <2>1. raw = F32Bits(sensed)
    BY <1>4 DEF Says
  <2> QED
    BY <1>2, <2>1
<1> HIDE DEF sensed
<1>6. Len(value) = 1 /\ value[1] = sensed
  BY <1>4, <1>5
<1>7. SensorSays(d, code, sensed)
  <2>1. CASE code = "current"
    <3>1. Near(sensed, Physical[d].current, 9)
      BY <1>1, <2>1 DEF sensed, Measured, Near
    <3> QED
      BY <2>1, <3>1 DEF SensorSays
  <2>2. CASE code \in {"position", "velocity", "power"}
    BY <2>2 DEF SensorSays, sensed
  <2> QED
    BY <2>1, <2>2 DEF FloatQueries
<1> QED
  BY <1>6, <1>7

\* A word of an answer is read as it was meant.
LEMMA WordAsMeant ==
  ASSUME NEW code \in Asked, NEW i \in 1..Len(FormsOf(code)), NEW word, IsWord(word)
  PROVE  QueryWord(code, word, i) = Meant(word, FormsOf(code)[i])
<1>1. FormsFit(code, FormsOf(code))
  BY AskedForms DEF Uniform
<1> DEFINE form == FormsOf(code)[i]
           divisor == QueryDivisors[code][i]
<1>2. form = IF code \in SignedQueries THEN I16(divisor) ELSE U16(divisor)
  BY <1>1 DEF FormsFit
<1> HIDE DEF form, divisor
<1>3. form.scale = divisor /\ (form.min < 0 <=> code \in SignedQueries)
  BY <1>2 DEF I16, U16
<1> DEFINE said == IF code \in SignedQueries THEN Signed(word) ELSE word
<1>4. said \in Int
  BY DEF IsWord, Signed
<1>5. said = IF form.min < 0 THEN Signed(word) ELSE word
  BY <1>3
<1> HIDE DEF said
<1>6. said * 1000 = 1000 * said
  BY <1>4
<1>7. QueryWord(code, word, i) = Rounded(said * 1000, divisor)
  BY DEF QueryWord, Divided, said, divisor
<1>8. Meant(word, form) = Rounded(1000 * said, form.scale)
  BY <1>5 DEF Meant
<1> QED
  BY <1>3, <1>6, <1>7, <1>8 DEF form

\* The answer to a query of a configuration is what was set.
LEMMA WordsAnswered ==
  ASSUME NEW d, NEW code \in Asked, NEW words, WordsFor(d, code, words), NEW frame,
         \A i \in 1..Len(words) : Says(frame, Bits(16 * i, 16), words[i]),
         NEW value \in QueryValue(frame, code)
  PROVE  ComesBack(d, code, IF Len(value) = 1 THEN value[1] ELSE value)
<1> DEFINE forms == FormsOf(code)
<1>1. /\ Len(forms) \in {1, 2} /\ Len(forms) = Len(QueryDivisors[code])
      /\ Len(words) = Len(forms)
      /\ \A i \in 1..Len(words) : IsWord(words[i])
  BY FormsKnown DEF WordsFor
<1>2. /\ code \in DOMAIN QueryDivisors /\ code \notin FloatQueries
      /\ code \notin DOMAIN ByteQueries /\ code # "brake_status"
  BY AskedCodes DEF Asked, ByteQueries
<1>3. QueryValue(frame, code) =
         IF Len(forms) = 1
         THEN {<<QueryWord(code, v, 1)>> : v \in Word(frame, 0)}
         ELSE {<<QueryWord(code, v, 1), QueryWord(code, w, 2)>> :
                  v \in Word(frame, 0), w \in Word(frame, 1)}
  BY <1>1, <1>2 DEF QueryValue
<1>4. PICK wanted \in Configured(d, code) :
         \A i \in 1..Len(words) : Near(Meant(words[i], forms[i]), wanted[i], 500 \div forms[i].scale)
  BY DEF WordsFor, Stands
<1> HIDE DEF forms
<1>5. \A i \in 1..Len(forms) : QueryWord(code, words[i], i) = Meant(words[i], forms[i])
  BY <1>1, WordAsMeant DEF forms
<1> DEFINE received == IF Len(value) = 1 THEN value[1] ELSE value
           values == IF Len(forms) = 1 THEN <<received>> ELSE received
<1>6. \A i \in 1..Len(forms) : values[i] = QueryWord(code, words[i], i)
  <2>1. CASE Len(forms) = 1
    <3>1. Word(frame, 0) = {words[1]}
      BY <1>1, <2>1 DEF Says, Word
    <3>2. value = <<QueryWord(code, words[1], 1)>>
      BY <1>3, <2>1, <3>1
    <3> QED
      BY <2>1, <3>2
  <2>2. CASE Len(forms) = 2
    <3>1. Word(frame, 0) = {words[1]} /\ Word(frame, 1) = {words[2]}
      <4>1. 1 \in 1..Len(words) /\ 2 \in 1..Len(words)
        BY <1>1, <2>2
      <4>2. Says(frame, Bits(16 * 1, 16), words[1]) /\ Says(frame, Bits(16 * 2, 16), words[2])
        BY <4>1
      <4>3. 16 * 1 = 16 + 16 * 0 /\ 16 * 2 = 16 + 16 * 1
        OBVIOUS
      <4> QED
        BY <4>2, <4>3 DEF Says, Word
    <3>2. value = <<QueryWord(code, words[1], 1), QueryWord(code, words[2], 2)>>
      BY <1>3, <2>2, <3>1
    <3>3. Len(value) = 2 /\ value[1] = QueryWord(code, words[1], 1) /\ value[2] = QueryWord(code, words[2], 2)
      BY <3>2
    <3>4. values = value
      BY <2>2, <3>3
    <3> QED
      BY <2>2, <3>3, <3>4
  <2> QED
    BY <1>1, <2>1, <2>2
<1>7. \A i \in 1..Len(forms) : Near(values[i], wanted[i], 500 \div forms[i].scale)
  BY <1>1, <1>4, <1>5, <1>6
<1> HIDE DEF received
<1>8. ComesBack(d, code, received)
  BY <1>7 DEF ComesBack, forms, Index
<1> QED
  BY <1>8 DEF received

\* What a code's answer may be about.
LEMMA QueriedNames ==
  ASSUME NEW code \in DOMAIN QueryCode, NEW names, names = {"error"} \cup ({code} \ {"mcu_uuid"})
  PROVE  /\ names \cap FloatQueries = IF code \in FloatQueries THEN {code} ELSE {}
         /\ names \cap DOMAIN Factory = IF code \in Asked THEN {code} ELSE {}
         /\ code # "error"
         /\ code \in FloatQueries \cup Asked => code \in names /\ code # "mcu_uuid"
<1>1. "mcu_uuid" \notin FloatQueries
  BY DEF FloatQueries
<1>2. "error" \notin DOMAIN QueryCode
  BY DEF QueryCode
<1> QED
  BY <1>1, <1>2, AskedCodes, OtherNames

\* What a motor answers a query with is true.
LEMMA QueryTrue ==
  ASSUME NEW d, FitSensors(d), NEW m, IsMotor(m), WordsKept(d, m),
         NEW address \in Address, NEW code \in DOMAIN QueryCode,
         NEW frame \in Filled(address, 8, AnswerWrites(QueryCode[code], QueryPayload(d, m, code)))
  PROVE  Made(frame, address, 8) /\ TrueReply(d, frame)
<1> DEFINE key == QueryCode[code]
           payload == QueryPayload(d, m, code)
<1>1. IsRaw(key)
  BY QueryKeysDiffer DEF IsRaw
<1>2. Payload(payload)
  BY PayloadOrdered
<1>3. /\ Made(frame, address, 8)
      /\ Says(frame, FeedbackType, 5) /\ Says(frame, Key, key)
      /\ \A i \in 1..Len(payload) :
            /\ Fits(payload[i][1], payload[i][2])
            /\ IsRaw(payload[i][2]) => Says(frame, payload[i][1], payload[i][2])
  <2> HIDE DEF key, payload
  <2> QED
    BY <1>1, <1>2, QueryReplySays DEF key, payload
<1> SUFFICES ASSUME NEW feedback \in ParseFeedback(frame, CurrentRange(d))
             PROVE  Speaks(d, Updates(feedback))
  BY <1>3 DEF TrueReply
<1>4. PICK error : feedback \in ParseQuery(frame, error)
  BY <1>3, ParsedByType
<1> DEFINE update == Updates(feedback)
<1>5. PICK value \in QueryValue(frame, code) : Tells(update, code, value)
  BY <1>3, <1>4, QueryParsed
<1> HIDE DEF update
<1>6. /\ DOMAIN update \cap FloatQueries = IF code \in FloatQueries THEN {code} ELSE {}
      /\ DOMAIN update \cap DOMAIN Factory = IF code \in Asked THEN {code} ELSE {}
      /\ code \in FloatQueries \cup Asked =>
            update[code] = IF Len(value) = 1 THEN value[1] ELSE value
  BY <1>5, QueriedNames DEF Tells
<1>7. code \in FloatQueries => SensorSays(d, code, update[code])
  <2> SUFFICES ASSUME code \in FloatQueries PROVE SensorSays(d, code, update[code])
    OBVIOUS
  <2> DEFINE raw == F32Bits(Physical[d][code])
  <2>1. payload = <<<<Bits(16, 32), raw>>>>
    <3>1. SetCodeOf(code) = code /\ code # "brake_status" /\ code \notin DOMAIN m.words
      BY OtherNames DEF SetCodeOf, IsMotor, FloatQueries
    <3> QED
      BY <3>1 DEF QueryPayload
  <2>2. IsRaw(raw)
    BY FloatComesBack DEF FitSensors
  <2> HIDE DEF raw, payload
  <2>3. Says(frame, Bits(16, 32), raw)
    <3>1. Len(payload) = 1 /\ payload[1][1] = Bits(16, 32) /\ payload[1][2] = raw
      BY <2>1
    <3> QED
      BY <1>3, <2>2, <3>1
  <2>4. Len(value) = 1 /\ SensorSays(d, code, value[1])
    BY <2>3, FloatAnswered DEF raw
  <2> QED
    BY <1>6, <2>4
<1>8. code \in Asked => ComesBack(d, code, update[code])
  <2> SUFFICES ASSUME code \in Asked PROVE ComesBack(d, code, update[code])
    OBVIOUS
  <2> DEFINE words == m.words[code]
  <2>1. WordsFor(d, code, words)
    BY DEF WordsKept
  <2>2. SetCodeOf(code) = code /\ code \in DOMAIN m.words /\ code \notin FloatQueries
        /\ code # "brake_status" /\ words \in Seq(Nat)
    BY AskedCodes DEF SetCodeOf, IsMotor
  <2>3. payload = [i \in Index(words) |-> <<Bits(16 * i, 16), words[i]>>]
    BY <2>2 DEF QueryPayload
  <2> HIDE DEF words, payload
  <2>4. /\ Len(payload) = Len(words)
        /\ \A i \in 1..Len(words) : payload[i] = <<Bits(16 * i, 16), words[i]>>
    BY <2>2, <2>3, WordsPayload
  <2>5. ASSUME NEW i \in 1..Len(words) PROVE Says(frame, Bits(16 * i, 16), words[i])
    <3>1. IsRaw(words[i])
      BY <2>1 DEF WordsFor, IsWord, IsRaw
    <3>2. payload[i][1] = Bits(16 * i, 16) /\ payload[i][2] = words[i]
      BY <2>4
    <3> QED
      BY <1>3, <2>4, <3>1, <3>2
  <2>6. ComesBack(d, code, IF Len(value) = 1 THEN value[1] ELSE value)
    BY <2>1, <2>5, WordsAnswered
  <2> QED
    BY <1>6, <2>6
<1>9. Speaks(d, update)
  BY <1>6, <1>7, <1>8 DEF Speaks
<1> QED
  BY <1>9 DEF update

(***************************************************************************)
(* A motor answers what it was asked with what is true.                    *)
(***************************************************************************)

\* A field written in order holds what was written.
LEMMA WrittenIsField ==
  ASSUME NEW address \in Address, NEW len \in Nat, NEW writes, InOrder(writes),
         NEW frame \in Filled(address, len, writes),
         NEW i \in 1..Len(writes), NEW field, NEW raw, writes[i] = <<field, raw>>, IsRaw(raw)
  PROVE  Field(frame, field) = raw
<1>1. CarriesAll(frame, address, len, writes)
  BY FilledCarries
<1> QED
  BY <1>1 DEF CarriesAll

\* The reply asked for is written into the frame.
LEMMA ReplyAsked ==
  ASSUME NEW address \in Address, NEW reply \in {0, 1, 2, 3}, NEW frame
  PROVE  /\ \A target, velocity, current :
               frame \in Filled(address, 8, PositionWrites(target, velocity, current, reply)) =>
                  Field(frame, PositionReply) = reply
         /\ \A target, current : frame \in Filled(address, 7, VelocityWrites(reply, target, current)) =>
               Field(frame, Reply) = reply
         /\ \A state, value : frame \in Filled(address, 3, TorqueWrites(state, reply, value)) =>
               Field(frame, Reply) = reply
<1>1. IsRaw(reply)
  BY SmallIsRaw
<1>2. ASSUME NEW target, NEW velocity, NEW current,
             frame \in Filled(address, 8, PositionWrites(target, velocity, current, reply))
      PROVE  Field(frame, PositionReply) = reply
  <2> DEFINE writes == PositionWrites(target, velocity, current, reply)
  <2>1. InOrder(writes) /\ 5 \in 1..Len(writes) /\ writes[5] = <<PositionReply, reply>>
    BY PositionInOrder DEF PositionWrites
  <2> HIDE DEF writes
  <2>2. frame \in Filled(address, 8, writes)
    BY <1>2 DEF writes
  <2> QED
    BY <1>1, <2>1, <2>2, WrittenIsField
<1>3. ASSUME NEW target, NEW current,
             frame \in Filled(address, 7, VelocityWrites(reply, target, current))
      PROVE  Field(frame, Reply) = reply
  <2> DEFINE writes == VelocityWrites(reply, target, current)
  <2>1. InOrder(writes) /\ 3 \in 1..Len(writes) /\ writes[3] = <<Reply, reply>>
    BY VelocityInOrder DEF VelocityWrites
  <2> HIDE DEF writes
  <2>2. frame \in Filled(address, 7, writes)
    BY <1>3 DEF writes
  <2> QED
    BY <1>1, <2>1, <2>2, WrittenIsField
<1>4. ASSUME NEW state, NEW value, frame \in Filled(address, 3, TorqueWrites(state, reply, value))
      PROVE  Field(frame, Reply) = reply
  <2> DEFINE writes == TorqueWrites(state, reply, value)
  <2>1. InOrder(writes) /\ 3 \in 1..Len(writes) /\ writes[3] = <<Reply, reply>>
    BY TorqueInOrder DEF TorqueWrites
  <2> HIDE DEF writes
  <2>2. frame \in Filled(address, 3, writes)
    BY <1>4 DEF writes
  <2> QED
    BY <1>1, <2>1, <2>2, WrittenIsField
<1> QED
  BY <1>2, <1>3, <1>4

\* A query asks for its own code.
LEMMA QueryAsked ==
  ASSUME NEW address \in Address, NEW c \in QueryCommand, NEW frame \in MakeConfigQuery(address, c)
  PROVE  QueriedCode(frame) = c.code
<1> DEFINE writes == QueryWrites(c.code)
           key == QueryCode[c.code]
<1>0. c.code \in DOMAIN QueryCode
  BY DEF QueryCommand
<1>1. InOrder(writes)
  BY DEF InOrder, QueryWrites, BitField, Mode, Key, Bits
<1>2. 2 \in 1..Len(writes) /\ writes[2] = <<Key, key>>
  BY DEF QueryWrites
<1>3. frame \in Filled(address, 2, writes)
  BY DEF MakeConfigQuery, QueryWrites
<1>4. IsRaw(key)
  BY <1>0, QueryKeysDiffer, SmallIsRaw
<1> HIDE DEF writes, key
<1>5. Field(frame, Key) = key
  BY <1>1, <1>2, <1>3, <1>4, WrittenIsField
<1>6. {q \in DOMAIN QueryCode : QueryCode[q] = Field(frame, Key)} = {c.code}
  BY <1>0, <1>5, QueryKeysDiffer DEF key
<1>7. \A x : The({x}) = x
  BY DEF The
<1> QED
  BY <1>6, <1>7 DEF QueriedCode

\* What a command asks to be answered with.
AskedFor(frame, c) ==
    \/ AnswerKind(frame) \in {0, 1, 2, 3, 6}
    \/ AnswerKind(frame) = 5 /\ c.type = "query" /\ QueriedCode(frame) = c.code

\* A motor answers what the command asked for.
LEMMA AnswerAsked ==
  ASSUME NEW address \in Address, NEW c, Command(c), NEW frame \in Encode(address, c)
  PROVE  AskedFor(frame, c)
<1>0. \A reply \in Replies : ReplyMode[reply] \in {0, 1, 2, 3}
  BY DEF Replies, ReplyMode
<1>1. ASSUME c.type = "pvt",
             c \in [type : {"pvt"}, kp : Number, kd : Number, position : Number,
                    velocity : Number, torque : Number]
      PROVE  AskedFor(frame, c)
  <2>1. frame \in MakePvt(address, c)
    BY <1>1 DEF Encode
  <2>2. Field(frame, Mode) = 0
    BY <1>1, <2>1, PvtFollowed
  <2> QED
    BY <2>2 DEF AskedFor, AnswerKind, CommandCode
<1>2. ASSUME c.type = "position", RawFloat(c.position),
             c \in [type : {"position"}, position : Number, velocity_limit : Number,
                    current_limit : Number, reply : Replies]
      PROVE  AskedFor(frame, c)
  <2>1. frame \in MakePosition(address, c)
    BY <1>2 DEF Encode
  <2>2. Field(frame, Mode) = 1
    BY <1>2, <2>1, PositionFollowed
  <2>3. Field(frame, PositionReply) \in {0, 1, 2, 3}
    <3> DEFINE reply == ReplyMode[c.reply]
    <3>1. reply \in {0, 1, 2, 3}
      BY <1>0, <1>2
    <3>2. \E target, velocity, current :
             frame \in Filled(address, 8, PositionWrites(target, velocity, current, reply))
      BY <2>1, PositionMade
    <3> HIDE DEF reply
    <3> QED
      BY <3>1, <3>2, ReplyAsked
  <2> QED
    BY <2>2, <2>3 DEF AskedFor, AnswerKind, CommandCode
<1>3. ASSUME c.type = "velocity", RawFloat(c.velocity),
             c \in [type : {"velocity"}, velocity : Number, current_limit : Number,
                    reply : Replies]
      PROVE  AskedFor(frame, c)
  <2>1. frame \in MakeVelocity(address, c)
    BY <1>3 DEF Encode
  <2>2. Field(frame, Mode) = 2
    BY <1>3, <2>1, VelocityFollowed
  <2>3. Field(frame, Reply) \in {0, 1, 2, 3}
    <3> DEFINE reply == ReplyMode[c.reply]
    <3>1. reply \in {0, 1, 2, 3}
      BY <1>0, <1>3
    <3>2. \E target, current :
             frame \in Filled(address, 7, VelocityWrites(reply, target, current))
      BY <2>1, VelocityMade
    <3> HIDE DEF reply
    <3> QED
      BY <3>1, <3>2, ReplyAsked
  <2> QED
    BY <2>2, <2>3 DEF AskedFor, AnswerKind, CommandCode
<1>4. ASSUME NEW mode \in {"current", "torque", "damping_brake", "regenerative_brake"},
             NEW value \in Number, c.reply \in Replies,
             frame \in MakeTorqueControl(address, mode, value, c.reply)
      PROVE  AskedFor(frame, c)
  <2>2. Field(frame, Mode) = 3
    BY <1>4, TorqueRead
  <2>3. Field(frame, Reply) \in {0, 1, 2, 3}
    <3> DEFINE reply == ReplyMode[c.reply]
    <3>1. reply \in {0, 1, 2, 3}
      BY <1>0, <1>4
    <3>2. \E state, raw :
             frame \in Filled(address, 3, TorqueWrites(state, reply, raw))
      BY <1>4, TorqueMade
    <3> HIDE DEF reply
    <3> QED
      BY <3>1, <3>2, ReplyAsked
  <2> QED
    BY <2>2, <2>3 DEF AskedFor, AnswerKind, CommandCode
<1>5. ASSUME c.type = "torque", c \in [type : {"torque"}, torque : Number, reply : Replies]
      PROVE  AskedFor(frame, c)
  <2>1. frame \in MakeTorqueControl(address, "torque", c.torque, c.reply)
    BY <1>5 DEF Encode, MakeTorque
  <2> QED
    BY <1>4, <1>5, <2>1
<1>6. ASSUME c.type = "current", c \in [type : {"current"}, current : Number, reply : Replies]
      PROVE  AskedFor(frame, c)
  <2>1. frame \in MakeTorqueControl(address, "current", c.current, c.reply)
    BY <1>6 DEF Encode, MakeCurrent
  <2> QED
    BY <1>4, <1>6, <2>1
<1>7. ASSUME c.type = "brake", c \in BrakeCommand
      PROVE  AskedFor(frame, c)
  <2>1. frame \in MakeBrake(address, c)
    BY <1>7 DEF Encode
  <2>2. c.reply \in Replies /\ c.current_threshold \in Number /\ 0 \in Number
        /\ c.control \in {"damping", "energy", "regen", "engage"}
    BY <1>7 DEF BrakeCommand, Number
  <2>3. CASE c.control = "damping"
    <3>1. frame \in MakeTorqueControl(address, "damping_brake", 0, c.reply)
      BY <2>1, <2>3 DEF MakeBrake
    <3> QED
      BY <1>4, <2>2, <3>1
  <2>4. CASE c.control \in {"energy", "regen"}
    <3>1. frame \in MakeTorqueControl(address, "regenerative_brake", c.current_threshold, c.reply)
      BY <2>1, <2>4 DEF MakeBrake
    <3> QED
      BY <1>4, <2>2, <3>1
  <2>5. CASE c.control = "engage"
    <3>1. Field(frame, Mode) = 4
      BY <1>7, <2>1, <2>5, EngageCarried
    <3> QED
      BY <3>1 DEF AskedFor, AnswerKind, CommandCode
  <2> QED
    BY <2>2, <2>3, <2>4, <2>5
<1>8. ASSUME c.type = "config", c \in ConfigCommand
      PROVE  AskedFor(frame, c)
  <2>1. frame \in MakeConfig(address, c)
    BY <1>8 DEF Encode
  <2>2. Field(frame, Mode) = 6
    BY <1>8, <2>1, ConfigCarried
  <2> QED
    BY <2>2 DEF AskedFor, AnswerKind, CommandCode
<1>9. ASSUME c.type = "query", c \in QueryCommand
      PROVE  AskedFor(frame, c)
  <2>1. frame \in MakeConfigQuery(address, c)
    BY <1>9 DEF Encode
  <2>2. Field(frame, Mode) = 7 /\ QueriedCode(frame) = c.code
    BY <1>9, <2>1, QueryCarried, QueryAsked
  <2> QED
    BY <1>9, <2>2 DEF AskedFor, AnswerKind, CommandCode
<1> QED
  BY <1>1, <1>2, <1>3, <1>5, <1>6, <1>7, <1>8, <1>9, CommandSorts

\* Three writes joined to two.
LEMMA TwoAndThree ==
  ASSUME NEW a, NEW b, NEW c, NEW d, NEW e
  PROVE  <<a, b>> \o <<c, d, e>> = <<a, b, c, d, e>>
<1> DEFINE S == {a, b, c, d, e}
           s == <<a, b>>
           t == <<c, d, e>>
           u == <<a, b, c, d, e>>
<1>1. /\ s \in Seq(S) /\ t \in Seq(S) /\ u \in Seq(S) /\ Len(s) = 2 /\ Len(t) = 3 /\ Len(u) = 5
      /\ s[1] = a /\ s[2] = b
      /\ t[1] = c /\ t[2] = d /\ t[3] = e
      /\ u[1] = a /\ u[2] = b /\ u[3] = c /\ u[4] = d /\ u[5] = e
  OBVIOUS
<1> HIDE DEF S, s, t, u
<1>a. s \in Seq(S) /\ t \in Seq(S)
  BY <1>1
<1>b. /\ s \o t \in Seq(S) /\ Len(s \o t) = Len(s) + Len(t)
      /\ \A i \in 1..Len(s) + Len(t) : (s \o t)[i] = IF i <= Len(s) THEN s[i] ELSE t[i - Len(s)]
  BY <1>a, ConcatProperties
<1>2. /\ s \o t \in Seq(S) /\ Len(s \o t) = 5
      /\ \A i \in 1..5 : (s \o t)[i] = IF i <= 2 THEN s[i] ELSE t[i - 2]
  BY <1>1, <1>b
<1>3. \A i \in 1..5 : (s \o t)[i] = u[i]
  BY <1>1, <1>2
<1>4. s \o t = u
  BY <1>1, <1>2, <1>3, SeqEqual
<1> QED
  BY <1>4 DEF s, t, u

\* Five writes joined to two.
LEMMA TwoAndFive ==
  ASSUME NEW a, NEW b, NEW c, NEW d, NEW e, NEW f, NEW g
  PROVE  <<a, b>> \o <<c, d, e, f, g>> = <<a, b, c, d, e, f, g>>
<1> DEFINE S == {a, b, c, d, e, f, g}
           s == <<a, b>>
           t == <<c, d, e, f, g>>
           u == <<a, b, c, d, e, f, g>>
<1>1. /\ s \in Seq(S) /\ t \in Seq(S) /\ u \in Seq(S) /\ Len(s) = 2 /\ Len(t) = 5 /\ Len(u) = 7
      /\ s[1] = a /\ s[2] = b
      /\ t[1] = c /\ t[2] = d /\ t[3] = e /\ t[4] = f /\ t[5] = g
      /\ u[1] = a /\ u[2] = b /\ u[3] = c /\ u[4] = d /\ u[5] = e /\ u[6] = f /\ u[7] = g
  OBVIOUS
<1> HIDE DEF S, s, t, u
<1>a. s \in Seq(S) /\ t \in Seq(S)
  BY <1>1
<1>b. /\ s \o t \in Seq(S) /\ Len(s \o t) = Len(s) + Len(t)
      /\ \A i \in 1..Len(s) + Len(t) : (s \o t)[i] = IF i <= Len(s) THEN s[i] ELSE t[i - Len(s)]
  BY <1>a, ConcatProperties
<1>2. /\ s \o t \in Seq(S) /\ Len(s \o t) = 7
      /\ \A i \in 1..7 : (s \o t)[i] = IF i <= 2 THEN s[i] ELSE t[i - 2]
  BY <1>1, <1>b
<1>3. ASSUME NEW i \in 1..7 PROVE (s \o t)[i] = u[i]
  <2>1. (s \o t)[i] = IF i <= 2 THEN s[i] ELSE t[i - 2]
    BY <1>2
  <2>2. i <= 2 => (s \o t)[i] = u[i]
    BY <1>1, <2>1
  <2>3. i = 3 => t[i - 2] = u[i]
    BY <1>1
  <2>4. i = 4 => t[i - 2] = u[i]
    BY <1>1
  <2>5. i = 5 => t[i - 2] = u[i]
    BY <1>1
  <2>6. i = 6 => t[i - 2] = u[i]
    BY <1>1
  <2>7. i = 7 => t[i - 2] = u[i]
    BY <1>1
  <2> QED
    BY <2>1, <2>2, <2>3, <2>4, <2>5, <2>6, <2>7
<1>4. s \o t = u
  BY <1>1, <1>2, <1>3, SeqEqual
<1> QED
  BY <1>4 DEF s, t, u

\* Whatever a motor answers a command with says what it measured and was given.
LEMMA AnswerTrue ==
  ASSUME NEW d, FitSensors(d), NEW m, IsMotor(m), WordsKept(d, m), AddressOf(d) \in Address,
         NEW c, Command(c), NEW frame, AskedFor(frame, c),
         NEW answer \in Answer(d, m, frame)
  PROVE  Made(answer, AddressOf(d), 8) /\ TrueReply(d, answer)
<1> DEFINE kind == AnswerKind(frame)
           address == AddressOf(d)
           Head2(k) == <<<<FeedbackType, k>>, <<FeedbackError, 0>>>>
           motion(value) == <<<<ReplyFloat, F32Bits(value)>>,
                           <<ReplyCurrentX100, Unsigned(Physical[d].current \div 10)>>, <<Byte(7), 90>>>>
           Goal == Made(answer, address, 8) /\ TrueReply(d, answer)
<1>0. \/ kind \in {0, 1, 2, 3, 6}
      \/ kind = 5 /\ c.type = "query" /\ QueriedCode(frame) = c.code
  BY DEF AskedFor
<1>1. CASE kind = 0
  BY <1>1 DEF Answer
<1>2. ASSUME kind = 1 PROVE Goal
  <2> DEFINE position == StatusRaw(Physical[d].shaft, PositionRange, 65535)
             velocity == StatusRaw(Physical[d].speed, VelocityRange, 4095)
             current == StatusRaw(Physical[d].current, SpecOf(d).current, 4095)
             rest == <<<<StatusPosition, position>>, <<StatusVelocity, velocity>>,
                       <<StatusCurrent, current>>, <<Byte(6), 90>>, <<Byte(7), 90>>>>
  <2>1. answer \in Filled(address, 8, Head2(1) \o rest)
    BY <1>2 DEF Answer
  <2>2. Head2(1) \o rest = StatusWrites(position, velocity, current)
    <3> HIDE DEF position, velocity, current
    <3> QED
      BY TwoAndFive DEF StatusWrites
  <2> HIDE DEF rest, Head2, position, velocity, current
  <2>3. answer \in Filled(address, 8, StatusWrites(position, velocity, current))
    BY <2>1, <2>2
  <2> QED
    BY <2>3, StatusTrue DEF position, velocity, current
<1>3. ASSUME NEW name, (kind = 2 /\ name = "position") \/ (kind = 3 /\ name = "velocity")
      PROVE  Goal
  <2> DEFINE value == F32Bits(Physical[d][name])
             current == Unsigned(Physical[d].current \div 10)
             rest == <<<<ReplyFloat, value>>, <<ReplyCurrentX100, current>>, <<Byte(7), 90>>>>
  <2>1. answer \in Filled(address, 8, Head2(kind) \o rest)
    <3>1. CASE kind = 2
      BY <1>3, <3>1 DEF Answer
    <3>2. CASE kind = 3
      BY <1>3, <3>2 DEF Answer
    <3> QED
      BY <1>3, <3>1, <3>2
  <2>2. Head2(kind) \o rest = MotionWrites(kind, value, current)
    <3> HIDE DEF value, current, kind
    <3> QED
      BY TwoAndThree DEF MotionWrites
  <2> HIDE DEF rest, Head2
  <2>3. answer \in Filled(address, 8, MotionWrites(kind, value, current))
    BY <2>1, <2>2
  <2> QED
    BY <1>3, <2>3, MotionTrue
<1>4. ASSUME kind = 6 PROVE Goal
  <2> DEFINE engaged == IF m.released THEN 1 ELSE 0
             rest == <<<<BrakeEngaged, engaged>>>>
  <2>1. answer \in Filled(address, 8, Head2(6) \o rest)
    BY <1>4 DEF Answer
  <2>2. Head2(6) \o rest = BrakeReplyWrites(engaged)
    <3> HIDE DEF engaged
    <3> QED
      BY TwoAndOne DEF BrakeReplyWrites
  <2> HIDE DEF rest, Head2
  <2> QED
    BY <2>1, <2>2, BrakeReplyTrue
<1>5. ASSUME kind = 5, c.type = "query", QueriedCode(frame) = c.code PROVE Goal
  <2> DEFINE code == c.code
             payload == QueryPayload(d, m, code)
  <2>1. answer \in Filled(address, 8, Head2(5) \o (<<<<Key, QueryCode[code]>>>> \o payload))
    BY <1>5 DEF Answer
  <2>2. answer \in Filled(address, 8, AnswerWrites(QueryCode[code], payload))
    BY <2>1 DEF AnswerWrites, ReplyWrites
  <2>3. code \in DOMAIN QueryCode
    <3>1. c \in QueryCommand
      BY <1>5, CommandSorts
    <3> QED
      BY <3>1 DEF QueryCommand
  <2> HIDE DEF code
  <2> QED
    BY <2>2, <2>3, QueryTrue
<1> HIDE DEF kind, Goal
<1>6. kind # 0 => Goal
  BY <1>0, <1>2, <1>3, <1>4, <1>5
<1> QED
  BY <1>1, <1>6 DEF Goal

\* A frame of another mode than these is a configuration.
LEMMA ModeOfFrame ==
  ASSUME NEW address \in Address, NEW c, Command(c), NEW frame \in Encode(address, c)
  PROVE  \/ Field(frame, Mode) \in {0, 1, 2, 3, 4, 7}
         \/ c.type = "config" /\ c \in ConfigCommand
<1> DEFINE Goal == Field(frame, Mode) \in {0, 1, 2, 3, 4, 7}
<1>1. ASSUME c.type = "pvt",
             c \in [type : {"pvt"}, kp : Number, kd : Number, position : Number,
                    velocity : Number, torque : Number]
      PROVE  Goal
  <2>1. frame \in MakePvt(address, c)
    BY <1>1 DEF Encode
  <2> QED
    BY <1>1, <2>1, PvtFollowed
<1>2. ASSUME c.type = "position", RawFloat(c.position),
             c \in [type : {"position"}, position : Number, velocity_limit : Number,
                    current_limit : Number, reply : Replies]
      PROVE  Goal
  <2>1. frame \in MakePosition(address, c)
    BY <1>2 DEF Encode
  <2> QED
    BY <1>2, <2>1, PositionFollowed
<1>3. ASSUME c.type = "velocity", RawFloat(c.velocity),
             c \in [type : {"velocity"}, velocity : Number, current_limit : Number,
                    reply : Replies]
      PROVE  Goal
  <2>1. frame \in MakeVelocity(address, c)
    BY <1>3 DEF Encode
  <2> QED
    BY <1>3, <2>1, VelocityFollowed
<1>5. ASSUME c.type = "torque", c \in [type : {"torque"}, torque : Number, reply : Replies]
      PROVE  Goal
  <2>1. frame \in MakeTorque(address, c)
    BY <1>5 DEF Encode
  <2> QED
    BY <1>5, <2>1, TorqueFollowed
<1>6. ASSUME c.type = "current", c \in [type : {"current"}, current : Number, reply : Replies]
      PROVE  Goal
  <2>1. frame \in MakeCurrent(address, c)
    BY <1>6 DEF Encode
  <2> QED
    BY <1>6, <2>1, CurrentFollowed
<1>7. ASSUME c.type = "brake", c \in BrakeCommand
      PROVE  Goal
  <2>1. frame \in MakeBrake(address, c)
    BY <1>7 DEF Encode
  <2> QED
    BY <1>7, <2>1, BrakingFollowed, EngageCarried
<1>9. ASSUME c.type = "query", c \in QueryCommand
      PROVE  Goal
  <2>1. frame \in MakeConfigQuery(address, c)
    BY <1>9 DEF Encode
  <2> QED
    BY <1>9, <2>1, QueryCarried
<1> HIDE DEF Goal
<1>10. \/ Goal
       \/ c.type = "config" /\ c \in ConfigCommand
  BY <1>1, <1>2, <1>3, <1>5, <1>6, <1>7, <1>9, CommandSorts
<1> QED
  BY <1>10 DEF Goal

\* Of the frames, only a configuration changes words, and it sets those of its
\* own code to what its command says.
LEMMA ExecutedWords ==
  ASSUME NEW d, NEW address \in Address, NEW c, Command(c), NEW frame \in Encode(address, c),
         c \in given[d] \/ c.type = "query",
         NEW m, IsMotor(m), WordsKept(d, m)
  PROVE  WordsKept(d, Executed(d, m, frame))
<1> DEFINE n == Executed(d, m, frame)
<1>1. ASSUME n.words = m.words PROVE WordsKept(d, n)
  BY <1>1 DEF WordsKept
<1>2. ASSUME Field(frame, Mode) \in 0..3 PROVE WordsKept(d, n)
  <2>1. n = [m EXCEPT !.target = TargetOf(d, frame)]
    BY <1>2 DEF Executed, CommandCode
  <2> QED
    BY <1>1, <2>1 DEF IsMotor
<1>3. ASSUME Field(frame, Mode) = 4 PROVE WordsKept(d, n)
  <2>1. n = [m EXCEPT !.released = Field(frame, BrakeEngaged) = 1]
    BY <1>3 DEF Executed, CommandCode
  <2> QED
    BY <1>1, <2>1 DEF IsMotor
<1>4. ASSUME Field(frame, Mode) = 7 PROVE WordsKept(d, n)
  <2>1. n = m
    BY <1>4 DEF Executed, CommandCode
  <2> QED
    BY <1>1, <2>1
<1>5. ASSUME c.type = "config", c \in ConfigCommand
      PROVE  WordsKept(d, n)
  <2>1. frame \in MakeConfig(address, c)
    BY <1>5 DEF Encode
  <2>2. Field(frame, Mode) = 6 /\ ConfigValue(frame) \in Seq(Nat)
    BY <1>5, <2>1, ConfigCarried
  <2>3. ConfigCode(frame) = c.code
    BY <1>5, <2>1, ConfigCodeTold
  <2> DEFINE value == ConfigValue(frame)
             forms == FormsOf(c.code)
  <2>4. n = [m EXCEPT !.words[c.code] = value]
    BY <2>2, <2>3 DEF Executed, CommandCode
  <2>5. c.code \in DOMAIN SetCode
    BY <1>5 DEF ConfigCommand
  <2>6. c.code \in Asked =>
           /\ value \in Seq(Nat) /\ Len(value) = Len(forms)
           /\ \A i \in 1..Len(value) :
                 /\ IsWord(value[i])
                 /\ Near(Meant(value[i], forms[i]), c.values[i], 500 \div forms[i].scale)
    BY <1>5, <2>1, ConfigWordsSet
  <2>7. c.values \in Configured(d, c.code)
    BY <1>5 DEF Configured
  <2> HIDE DEF value, n
  <2>8. n.words = [m.words EXCEPT ![c.code] = value]
    BY <2>4 DEF IsMotor
  <2>9. c.code \in Asked => WordsFor(d, c.code, value)
    BY <2>6, <2>7 DEF WordsFor, Stands
  <2>10. ASSUME NEW code \in Asked PROVE WordsFor(d, code, n.words[code])
    <3>1. CASE code = c.code
      <4>1. n.words[code] = value
        BY <2>5, <2>8, <3>1 DEF IsMotor
      <4> QED
        BY <2>9, <3>1, <4>1
    <3>2. CASE code # c.code
      <4>1. n.words[code] = m.words[code]
        BY <2>8, <3>2, AskedCodes DEF IsMotor
      <4> QED
        BY <4>1 DEF WordsKept
    <3> QED
      BY <3>1, <3>2
  <2> QED
    BY <2>10 DEF WordsKept
<1>6. \/ Field(frame, Mode) \in 0..3 \/ Field(frame, Mode) = 4 \/ Field(frame, Mode) = 7
      \/ c.type = "config" /\ c \in ConfigCommand
  BY ModeOfFrame
<1> HIDE DEF n
<1>7. WordsKept(d, n)
  BY <1>2, <1>3, <1>4, <1>5, <1>6
<1> QED
  BY <1>7 DEF n

(***************************************************************************)
(* What is on its way to the host is true, and so are the samples.         *)
(***************************************************************************)

\* The motors a frame may be handed to the devices of.
Heard(channel, frame) ==
    {d \in Device : /\ config.motors[d].channel = channel
                    /\ config.motors[d].port = frame.port /\ config.motors[d].id = frame.id
                    /\ frame.id # BROADCAST_CAN_ID}

TrueFrame(channel, frame) ==
    FrameValid(frame) => \A d \in Heard(channel, frame) : TrueReply(d, frame)

TruePacket(channel, packet) == \A i \in 1..Len(packet) : TrueFrame(channel, packet[i])

MotorsKeep(ms) == \A d \in Device : WordsKept(d, ms[d])

SampleTells(d, known) ==
    /\ Speaks(d, known)
    /\ config.motors[d].id = BROADCAST_CAN_ID => known = <<>>

SamplesTell(known) == \A d \in Device : SampleTells(d, known[d])

AnsweredState(channel, s) ==
    HandledState(s) /\ MotorsKeep(s.motors) /\ TruePacket(channel, s.answers)

\* What is in two sequences joined.
LEMMA JoinedParts ==
  ASSUME NEW s, NEW t, IsSeq(s), IsSeq(t), NEW i \in 1..Len(s \o t)
  PROVE  \/ \E j \in 1..Len(s) : (s \o t)[i] = s[j]
         \/ \E j \in 1..Len(t) : (s \o t)[i] = t[j]
<1>1. PICK S : s \in Seq(S)
  BY DEF IsSeq
<1>2. PICK T : t \in Seq(T)
  BY DEF IsSeq
<1>3. /\ Len(s) \in Nat /\ Len(t) \in Nat /\ Len(s \o t) = Len(s) + Len(t)
      /\ \A k \in 1..Len(s) + Len(t) : (s \o t)[k] = IF k <= Len(s) THEN s[k] ELSE t[k - Len(s)]
  <2>1. s \in Seq(S \cup T) /\ t \in Seq(S \cup T)
    BY <1>1, <1>2
  <2> QED
    BY <2>1, ConcatProperties
<1> HIDE DEF IsSeq
<1>4. (s \o t)[i] = IF i <= Len(s) THEN s[i] ELSE t[i - Len(s)]
  BY <1>3
<1>5. CASE i <= Len(s)
  <2>1. i \in 1..Len(s)
    BY <1>3, <1>5
  <2> QED
    BY <1>4, <1>5, <2>1
<1>6. CASE ~(i <= Len(s))
  <2>1. i - Len(s) \in 1..Len(t)
    BY <1>3, <1>6
  <2> QED
    BY <1>4, <1>6, <2>1
<1> QED
  BY <1>5, <1>6

\* Two true datagrams joined are one.
LEMMA JoinedTrue ==
  ASSUME NEW channel, NEW s, NEW t, IsSeq(s), IsSeq(t),
         TruePacket(channel, s), TruePacket(channel, t)
  PROVE  TruePacket(channel, s \o t)
  BY JoinedParts DEF TruePacket

\* A frame handled leaves every motor's words true, and so is what answers it.
LEMMA HandleTrue ==
  ASSUME TopologyInv, phase = "bound", GivenTypes,
         NEW channel, NEW frame, Commanded(channel, frame), NEW s, AnsweredState(channel, s)
  PROVE  AnsweredState(channel, Handle(s, channel, frame))
<1>0. HandledState(Handle(s, channel, frame))
  BY HandleUnderstood DEF AnsweredState
<1>1. CASE Reached(channel, frame) = {}
  BY <1>1 DEF Handle
<1>2. CASE Reached(channel, frame) # {}
  <2> DEFINE device == The(Reached(channel, frame))
             m == s.motors[device]
             n == Executed(device, m, frame)
             sent == AnswerSent(device, n, frame)
  <2>1. /\ device \in Device /\ config.motors[device].channel = channel
        /\ AddressOf(device) \in Address
    BY <1>2, ReachedMotor
  <2>2. PICK c : /\ Command(c) /\ frame \in Encode(AddressOf(device), c)
                 /\ c \in given[device] \/ c.type = "query"
    BY <1>2, ReachedMotor
  <2>3. IsMotor(m) /\ WordsKept(device, m)
    BY <2>1 DEF AnsweredState, HandledState, MotorsUnderstand, MotorsKeep
  <2> HIDE DEF device, m
  <2>4. IsMotor(n) /\ WordsKept(device, n)
    BY <2>1, <2>2, <2>3, Obeyed, ExecutedWords
  <2> HIDE DEF n
  <2>5. FitSensors(device)
    BY <2>1, SensorsKnown
  <2>6. AskedFor(frame, c)
    BY <2>1, <2>2, AnswerAsked
  <2>7. ASSUME NEW answer \in Answer(device, n, frame)
        PROVE  TrueFrame(channel, answer)
    <3>1. Made(answer, AddressOf(device), 8) /\ TrueReply(device, answer)
      BY <2>1, <2>2, <2>4, <2>5, <2>6, AnswerTrue
    <3>2. ASSUME NEW d \in Heard(channel, answer) PROVE d = device
      <4>1. SameAddress(config.motors[d], config.motors[device])
        BY <2>1, <3>1 DEF Heard, Made, AddressOf, SameAddress
      <4> QED
        BY <2>1, <4>1, ValidChannels DEF Heard, TopologyInv, TopologyTypes, PhaseTells, Device
    <3> QED
      BY <3>1, <3>2 DEF TrueFrame
  <2>8. IsSeq(sent) /\ TruePacket(channel, sent)
    <3>1. CASE Answer(device, n, frame) = {}
      <4>1. sent = <<>> /\ <<>> \in Seq({}) /\ Len(<<>>) = 0
        BY <3>1 DEF AnswerSent
      <4> QED
        BY <4>1 DEF IsSeq, TruePacket
    <3>2. CASE Answer(device, n, frame) # {}
      <4> DEFINE a == The(Answer(device, n, frame))
      <4>1. a \in Answer(device, n, frame)
        BY <3>2 DEF The
      <4>2. sent = <<a>>
        BY <3>2 DEF AnswerSent
      <4>3. TrueFrame(channel, a)
        BY <2>7, <4>1
      <4> HIDE DEF a, sent
      <4>4. sent \in Seq({a}) /\ Len(sent) = 1 /\ sent[1] = a
        BY <4>2
      <4> QED
        BY <4>3, <4>4 DEF IsSeq, TruePacket
    <3> QED
      BY <3>1, <3>2
  <2> DEFINE t == Handle(s, channel, frame)
  <2>9. t.motors = [s.motors EXCEPT ![device] = n] /\ t.answers = s.answers \o sent
    BY <1>2 DEF Handle, device, m, n
  <2> HIDE DEF t, sent
  <2>10. MotorsKeep(t.motors)
    BY <2>1, <2>4, <2>9 DEF MotorsKeep, AnsweredState, HandledState, MotorsUnderstand
  <2>11. TruePacket(channel, t.answers)
    BY <2>8, <2>9, JoinedTrue DEF AnsweredState, HandledState
  <2> QED
    BY <1>0, <2>10, <2>11 DEF AnsweredState, t
<1> QED
  BY <1>1, <1>2

\* A datagram handled leaves every word true, and so is what answers it.
LEMMA HandledTrue ==
  ASSUME TopologyInv, phase = "bound", GivenTypes, MotorsUnderstand(motors), MotorsKeep(motors),
         NEW channel, NEW packet, IsSeq(packet),
         \A i \in 1..Len(packet) : Commanded(channel, packet[i])
  PROVE  AnsweredState(channel, Handled(channel, packet))
<1> DEFINE n == Len(packet)
<1>1. n \in Nat
  BY SeqIsFunction
<1>2. PICK f : Handled(channel, packet) = f[n] /\ HandlesStepwise(f, n, channel, packet)
  BY <1>1, HandledSteps
<1> DEFINE G == {i \in 0..n : AnsweredState(channel, f[i])}
<1>3. 0 \in G
  <2>1. <<>> \in Seq({}) /\ Len(<<>>) = 0
    OBVIOUS
  <2>2. f[0] = [motors |-> motors, answers |-> <<>>]
    BY <1>2 DEF HandlesStepwise
  <2>3. AnsweredState(channel, f[0])
    BY <2>1, <2>2 DEF AnsweredState, HandledState, TruePacket, IsSeq
  <2> QED
    BY <1>1, <2>3
<1>4. ASSUME NEW i \in 1..n, i - 1 \in G PROVE i \in G
  <2>1. AnsweredState(channel, f[i - 1]) /\ f[i] = Handle(f[i - 1], channel, packet[i])
    BY <1>2, <1>4 DEF HandlesStepwise
  <2>2. AnsweredState(channel, f[i])
    BY <2>1, HandleTrue
  <2> QED
    BY <1>1, <2>2
<1>5. n \in G
  <2>1. G \in SUBSET (0..n)
    OBVIOUS
  <2> HIDE DEF G
  <2> QED
    BY <1>1, <1>3, <1>4, <2>1, UpTo
<1> QED
  BY <1>2, <1>5

\* A gateway's own frames say nothing of a sensor or a configuration.
LEMMA NoiseTrue ==
  ASSUME TopologyInv, phase = "bound", NEW channel, NEW noise \in NoiseHere
  PROVE  IsSeq(noise) /\ TruePacket(channel, noise)
<1>1. CASE noise = <<>>
  <2>1. <<>> \in Seq({}) /\ Len(<<>>) = 0
    OBVIOUS
  <2> QED
    BY <1>1, <2>1 DEF IsSeq, TruePacket
<1>2. CASE config \in DOMAIN Noise /\ noise \in Noise[config]
  <2>1. IsSeq(noise)
    BY <1>2, NoiseIsFrames DEF IsSeq
  <2>2. ASSUME NEW i \in 1..Len(noise), FrameValid(noise[i]), NEW d \in Heard(channel, noise[i]),
               NEW feedback \in ParseFeedback(noise[i], CurrentRange(d))
        PROVE  Speaks(d, Updates(feedback))
    <3>1. /\ d \in Device /\ noise[i].id # BROADCAST_CAN_ID
          /\ noise[i].port = config.motors[d].port /\ noise[i].id = config.motors[d].id
      BY <2>2 DEF Heard
    <3>2. config.motors[d].model \in KnownModel
      BY <3>1 DEF TopologyInv, BindingsAgree, BindingAgrees, PhaseTells, Device, Index
    <3>3. feedback \in ParseFeedback(noise[i], RangeOf(config.motors[d].model))
      BY <2>2 DEF CurrentRange
    <3>4. i \in Index(noise) /\ d \in Index(config.motors)
      BY <2>2, <3>1 DEF Index, Device
    <3>5. feedback.type = "config_ack"
      BY <1>2, <2>2, <3>1, <3>2, <3>3, <3>4, NoiseSaysNothing
    <3> QED
      BY <3>5, AckSpeaks
  <2> QED
    BY <2>1, <2>2 DEF TruePacket, TrueFrame, TrueReply
<1> QED
  BY <1>1, <1>2 DEF NoiseHere

\* A frame is handed to a device only if it is from its motor.
LEMMA RoutedIsHeard ==
  ASSUME TopologyInv, phase = "bound", NEW channel, NEW frame, NEW d \in Device,
         d \in Routed(channel, frame)
  PROVE  d \in Heard(channel, frame)
<1>1. frame.id # BROADCAST_CAN_ID /\ d \in FeedbackTarget(channel, frame.port, frame.id)
  BY DEF Routed
<1>2. PICK e \in Index(drivers) :
         /\ drivers[e].channel = channel
         /\ \E q \in drivers[e].routes : q.port = frame.port /\ q.id = frame.id /\ q.device = d
  BY <1>1 DEF FeedbackTarget
<1>3. PICK i \in Index(bindings) :
         /\ config.motors[i].channel = drivers[e].channel
         /\ RouteTo(i).port = frame.port /\ RouteTo(i).id = frame.id /\ RouteTo(i).device = d
  BY <1>2 DEF TopologyInv, RoutesComplete
<1> QED
  BY <1>1, <1>2, <1>3 DEF RouteTo, Heard

\* True samples are updated by true ones.
LEMMA UpdatedSpeaks ==
  ASSUME NEW d, NEW known, NEW update, Speaks(d, known), Speaks(d, update)
  PROVE  Speaks(d, Updated(known, update))
<1> DEFINE after == Updated(known, update)
<1>1. /\ DOMAIN after = DOMAIN known \cup DOMAIN update
      /\ \A name \in DOMAIN after :
            after[name] = IF name \in DOMAIN update THEN update[name] ELSE known[name]
  BY DEF Updated
<1> HIDE DEF after
<1>2. Speaks(d, after)
  BY <1>1 DEF Speaks
<1> QED
  BY <1>2 DEF after

\* A true frame handed to its device leaves the samples true.
LEMMA HandleFrameTells ==
  ASSUME TopologyInv, phase = "bound", NEW known, SamplesTell(known), NEW channel,
         NEW frame, FrameValid(frame), TrueFrame(channel, frame)
  PROVE  SamplesTell(HandleFrame(known, channel, frame))
<1> DEFINE after == HandleFrame(known, channel, frame)
<1>1. ASSUME NEW d \in Device PROVE SampleTells(d, after[d])
  <2> DEFINE parsed == ParseFeedback(frame, CurrentRange(d))
  <2>1. SampleTells(d, known[d])
    BY DEF SamplesTell
  <2>2. CASE d \notin Routed(channel, frame) \/ parsed = {}
    <3>1. after[d] = known[d]
      BY <2>2 DEF HandleFrame
    <3> QED
      BY <2>1, <3>1
  <2>3. CASE d \in Routed(channel, frame) /\ parsed # {}
    <3>1. after[d] = Updated(known[d], Updates(The(parsed)))
      BY <2>3 DEF HandleFrame
    <3>2. The(parsed) \in parsed
      BY <2>3 DEF The
    <3>3. d \in Heard(channel, frame)
      BY <2>3, RoutedIsHeard
    <3>4. Speaks(d, Updates(The(parsed)))
      BY <3>2, <3>3 DEF TrueFrame, TrueReply
    <3>5. Speaks(d, after[d])
      BY <2>1, <3>1, <3>4, UpdatedSpeaks DEF SampleTells
    <3> QED
      BY <3>3, <3>5 DEF SampleTells, Heard
  <2> QED
    BY <2>2, <2>3
<1> HIDE DEF after
<1>2. SamplesTell(after)
  BY <1>1 DEF SamplesTell
<1> QED
  BY <1>2 DEF after

\* So does a whole datagram.
LEMMA SamplesAfterTell ==
  ASSUME TopologyInv, phase = "bound", SamplesTell(samples), NEW channel,
         NEW packet, Len(packet) \in Nat,
         \A i \in 1..Len(packet) : FrameValid(packet[i]) /\ TrueFrame(channel, packet[i])
  PROVE  SamplesTell(SamplesAfter(channel, packet))
<1> DEFINE n == Len(packet)
<1>1. PICK f : SamplesAfter(channel, packet) = f[n] /\ SamplesStepwise(f, n, channel, packet)
  BY SamplesSteps
<1> DEFINE G == {i \in 0..n : SamplesTell(f[i])}
<1>2. 0 \in G
  BY <1>1 DEF SamplesStepwise
<1>3. ASSUME NEW i \in 1..n, i - 1 \in G PROVE i \in G
  <2>1. SamplesTell(f[i - 1]) /\ f[i] = HandleFrame(f[i - 1], channel, packet[i])
    BY <1>1, <1>3 DEF SamplesStepwise
  <2>2. SamplesTell(f[i])
    BY <2>1, HandleFrameTells
  <2> QED
    BY <2>2
<1>4. n \in G
  <2>1. G \in SUBSET (0..n)
    OBVIOUS
  <2> HIDE DEF G
  <2> QED
    BY <1>2, <1>3, <2>1, UpTo
<1> QED
  BY <1>1, <1>4

TrueWires ==
    \A channel \in ChannelNames : \A k \in 1..Len(toHost[channel]) :
        TruePacket(channel, toHost[channel][k])

\* The answers under way, the words of the motors and the samples are true.
Truth == TrueWires /\ MotorsKeep(motors) /\ SamplesTell(samples)

\* What a device was given stays given.
LEMMA ConfiguredStays ==
  ASSUME GivenGrows, NEW d \in Device, NEW code
  PROVE  Configured(d, code) \subseteq Configured(d, code)'
  BY DEF GivenGrows, Configured

\* What is true stays true when more commands are given.
LEMMA TruthStays ==
  ASSUME GivenGrows, NEW d \in Device
  PROVE  /\ \A update : Speaks(d, update) => Speaks(d, update)'
         /\ \A m : WordsKept(d, m) => WordsKept(d, m)'
<1>1. config' = config
  BY DEF GivenGrows
<1>2. ASSUME NEW name \in FloatQueries, NEW value, SensorSays(d, name, value)
      PROVE  SensorSays(d, name, value)'
  <2>1. SpecOf(d)' = SpecOf(d)
    BY <1>1 DEF SpecOf
  <2>2. CASE name = "position"
    BY <1>2, <2>2 DEF SensorSays
  <2>3. CASE name = "velocity"
    BY <1>2, <2>3 DEF SensorSays
  <2>4. CASE name = "power"
    BY <1>2, <2>4 DEF SensorSays
  <2>5. CASE name = "current"
    BY <1>2, <2>1, <2>5 DEF SensorSays
  <2> QED
    BY <2>2, <2>3, <2>4, <2>5 DEF FloatQueries
<1>3. ASSUME NEW code, NEW value, ComesBack(d, code, value) PROVE ComesBack(d, code, value)'
  BY <1>3, ConfiguredStays DEF ComesBack
<1>4. ASSUME NEW update, Speaks(d, update) PROVE Speaks(d, update)'
  BY <1>2, <1>3, <1>4 DEF Speaks
<1>5. ASSUME NEW code, NEW words, WordsFor(d, code, words) PROVE WordsFor(d, code, words)'
  BY <1>5, ConfiguredStays DEF WordsFor, Stands
<1>6. ASSUME NEW m, WordsKept(d, m) PROVE WordsKept(d, m)'
  BY <1>5, <1>6 DEF WordsKept
<1> QED
  BY <1>4, <1>6

\* A true datagram stays true when more commands are given.
LEMMA PacketStays ==
  ASSUME GivenGrows, NEW channel, NEW packet, TruePacket(channel, packet)
  PROVE  TruePacket(channel, packet)'
<1>1. config' = config /\ Device' = Device
  BY DEF GivenGrows, Device
<1>2. ASSUME NEW frame, NEW d \in Device, TrueReply(d, frame) PROVE TrueReply(d, frame)'
  <2>1. CurrentRange(d)' = CurrentRange(d)
    BY <1>1 DEF CurrentRange
  <2> QED
    BY <1>2, <2>1, TruthStays DEF TrueReply
<1>3. ASSUME NEW frame PROVE Heard(channel, frame)' = Heard(channel, frame)
  BY <1>1 DEF Heard
<1>4. ASSUME NEW frame, TrueFrame(channel, frame) PROVE TrueFrame(channel, frame)'
  <2>1. Heard(channel, frame) \subseteq Device
    BY DEF Heard
  <2> QED
    BY <1>2, <1>3, <1>4, <2>1 DEF TrueFrame
<1> QED
  BY <1>4 DEF TruePacket

\* So does every part of the invariant that no step touches.
LEMMA TruthKept ==
  ASSUME Truth, GivenGrows
  PROVE  /\ UNCHANGED toHost => TrueWires'
         /\ UNCHANGED motors => MotorsKeep(motors)'
         /\ UNCHANGED samples => SamplesTell(samples)'
<1>1. config' = config /\ Device' = Device /\ ChannelNames' = ChannelNames
  BY DEF GivenGrows, Device, ChannelNames
<1>2. UNCHANGED toHost => TrueWires'
  BY <1>1, PacketStays DEF Truth, TrueWires
<1>3. UNCHANGED motors => MotorsKeep(motors)'
  <2>1. ASSUME NEW d \in Device, NEW m, m = motors[d] PROVE WordsKept(d, m)'
    BY <2>1, TruthStays DEF Truth, MotorsKeep
  <2> QED
    BY <1>1, <2>1 DEF MotorsKeep
<1>4. UNCHANGED samples => SamplesTell(samples)'
  <2>1. ASSUME NEW d \in Device, NEW known, known = samples[d] PROVE SampleTells(d, known)'
    BY <1>1, <2>1, TruthStays DEF Truth, SamplesTell, SampleTells
  <2> QED
    BY <1>1, <2>1 DEF SamplesTell
<1> QED
  BY <1>2, <1>3, <1>4

\* Sending tells nobody anything new.
LEMMA TransmitTrue ==
  ASSUME Truth, config' = config, NEW batch, NEW busy, Transmit(batch, busy)
  PROVE  Truth'
<1>1. GivenGrows
  BY DEF Transmit, GivenGrows
<1>2. UNCHANGED <<toHost, motors, samples>>
  BY DEF Transmit
<1> QED
  BY <1>1, <1>2, TruthKept DEF Truth

\* A step that touches neither keeps it whole.
LEMMA StaysTrue ==
  ASSUME Truth, UNCHANGED <<config, given, toHost, motors, samples>>
  PROVE  Truth'
<1>1. GivenGrows
  BY DEF GivenGrows
<1> QED
  BY <1>1, TruthKept DEF Truth

\* One channel's wire changed, the others did not.
LEMMA WiresTrue ==
  ASSUME Truth, GivenGrows, NEW channel \in ChannelNames,
         \A other \in ChannelNames : other # channel => toHost'[other] = toHost[other],
         \A k \in 1..Len(toHost'[channel]) : \A packet :
            packet = toHost'[channel][k] => TruePacket(channel, packet)'
  PROVE  TrueWires'
<1>1. ChannelNames' = ChannelNames
  BY DEF GivenGrows, ChannelNames
<1>2. ASSUME NEW other \in ChannelNames, other # channel, NEW k \in 1..Len(toHost'[other]),
             NEW packet, packet = toHost'[other][k]
      PROVE  TruePacket(other, packet)'
  <2>1. TruePacket(other, packet)
    BY <1>2 DEF Truth, TrueWires
  <2> QED
    BY <2>1, PacketStays
<1>3. ASSUME NEW other \in ChannelNames, NEW k \in 1..Len(toHost'[other]),
             NEW packet, packet = toHost'[other][k]
      PROVE  TruePacket(other, packet)'
  <2>1. CASE other = channel
    BY <1>3, <2>1
  <2>2. CASE other # channel
    BY <1>2, <1>3, <2>2
  <2> QED
    BY <2>1, <2>2
<1> QED
  BY <1>1, <1>3 DEF TrueWires

\* The first datagram leaves its wire, and was true.
LEMMA AnswerLeavesTrue ==
  ASSUME LinkInv, Truth, UNCHANGED <<config, given>>, NEW channel \in ChannelNames,
         toHost[channel] # <<>>, toHost' = [toHost EXCEPT ![channel] = Tail(@)]
  PROVE  /\ TrueWires'
         /\ IsSeq(Head(toHost[channel])) /\ TruePacket(channel, Head(toHost[channel]))
<1> DEFINE q == toHost[channel]
<1>1. /\ IsSeq(q) /\ q # <<>> /\ toHost'[channel] = Tail(q)
      /\ \A k \in 1..Len(q) : IsSeq(q[k]) /\ TruePacket(channel, q[k])
  BY DEF LinkInv, AnswerWires, Truth, TrueWires
<1>2. GivenGrows
  BY DEF GivenGrows
<1>3. ASSUME NEW other \in ChannelNames, other # channel
      PROVE  toHost'[other] = toHost[other]
  BY <1>3 DEF LinkInv, AnswerWires
<1> HIDE DEF q
<1>4. /\ \A k \in 1..Len(Tail(q)) : \E j \in 1..Len(q) : Tail(q)[k] = q[j]
      /\ 1 \in 1..Len(q) /\ Head(q) = q[1]
  BY <1>1, Tailed
<1>5. ASSUME NEW k \in 1..Len(toHost'[channel]), NEW packet, packet = toHost'[channel][k]
      PROVE  TruePacket(channel, packet)'
  <2>1. TruePacket(channel, packet)
    BY <1>1, <1>4, <1>5
  <2> QED
    BY <1>2, <2>1, PacketStays
<1>6. TrueWires'
  BY <1>2, <1>3, <1>5, WiresTrue
<1> QED
  BY <1>1, <1>4, <1>6 DEF q

\* A lost answer tells nothing.
LEMMA LoseAnswerTrue ==
  ASSUME LinkInv, Truth, NEW channel \in ChannelNames, LoseAnswer(channel)
  PROVE  Truth'
<1>1. /\ UNCHANGED <<config, given, motors, samples>> /\ toHost[channel] # <<>>
      /\ toHost' = [toHost EXCEPT ![channel] = Tail(@)]
  BY DEF LoseAnswer, topology
<1>2. TrueWires'
  BY <1>1, AnswerLeavesTrue
<1> QED
  BY <1>1, <1>2, TruthKept DEF Truth, GivenGrows

\* A true datagram received leaves the samples true.
LEMMA HostReceivesTrue ==
  ASSUME LinkInv, Truth, NEW channel \in ChannelNames, HostReceives(channel)
  PROVE  Truth'
<1> DEFINE packet == Head(toHost[channel])
           frames == Decoded(packet)
           after == SamplesAfter(channel, frames)
<1>1. /\ UNCHANGED <<config, given, motors>> /\ phase = "bound" /\ toHost[channel] # <<>>
      /\ toHost' = [toHost EXCEPT ![channel] = Tail(@)]
      /\ samples' = after
  BY DEF HostReceives, topology
<1>2. TrueWires' /\ IsSeq(packet) /\ TruePacket(channel, packet)
  BY <1>1, AnswerLeavesTrue
<1> HIDE DEF packet
<1>3. /\ Len(frames) \in Nat
      /\ \A i \in 1..Len(frames) : FrameValid(frames[i]) /\ TrueFrame(channel, frames[i])
  BY <1>2, DecodedIsSeq DEF TruePacket
<1> HIDE DEF frames
<1>4. SamplesTell(after)
  BY <1>1, <1>3, SamplesAfterTell DEF LinkInv, Truth
<1> HIDE DEF after
<1>5. SamplesTell(samples)'
  <2>1. GivenGrows /\ Device' = Device
    BY <1>1 DEF GivenGrows, Device
  <2>2. ASSUME NEW d \in Device, NEW known, known = after[d] PROVE SampleTells(d, known)'
    BY <1>1, <1>4, <2>1, <2>2, TruthStays DEF SamplesTell, SampleTells
  <2> QED
    BY <1>1, <2>1, <2>2 DEF SamplesTell
<1> QED
  BY <1>1, <1>2, <1>5, TruthKept DEF Truth, GivenGrows

\* What the motors of a datagram answer joins the wire.
LEMMA GatewayHandlesTrue ==
  ASSUME LinkInv, Truth, NEW channel \in ChannelNames, GatewayHandles(channel)
  PROVE  Truth'
<1> DEFINE done == Handled(channel, Head(toGateway[channel]))
<1>1. /\ UNCHANGED <<config, samples, given>> /\ UNCHANGED topology /\ phase = "bound"
      /\ toGateway[channel] # <<>> /\ toGateway' = [toGateway EXCEPT ![channel] = Tail(@)]
      /\ motors' = done.motors
  BY DEF GatewayHandles, topology
<1>2. GivenGrows /\ Device' = Device
  BY <1>1 DEF GivenGrows, Device
<1>3. AnsweredState(channel, done)
  <2>1. CommandPacket(channel, Head(toGateway[channel]))
    BY <1>1, CommandLeaves
  <2> QED
    BY <1>1, <2>1, HandledTrue DEF LinkInv, CommandPacket, Truth
<1>4. PICK noise \in NoiseHere : toHost' = [toHost EXCEPT ![channel] =
         IF done.answers = <<>> THEN @ ELSE Append(@, noise \o done.answers)]
  BY DEF GatewayHandles
<1> HIDE DEF done
<1>5. MotorsKeep(motors)'
  <2>1. ASSUME NEW d \in Device, NEW m, m = done.motors[d] PROVE WordsKept(d, m)'
    BY <1>2, <1>3, <2>1, TruthStays DEF AnsweredState, MotorsKeep
  <2> QED
    BY <1>1, <1>2, <2>1 DEF MotorsKeep
<1> DEFINE q == toHost[channel]
           x == noise \o done.answers
<1>6. TruePacket(channel, x)
  <2>1. IsSeq(noise) /\ TruePacket(channel, noise)
    BY <1>1, NoiseTrue DEF LinkInv
  <2> QED
    BY <1>3, <2>1, JoinedTrue DEF AnsweredState, HandledState
<1>7. IsSeq(q) /\ \A k \in 1..Len(q) : TruePacket(channel, q[k])
  BY DEF LinkInv, AnswerWires, Truth, TrueWires
<1>8. \A k \in 1..Len(Append(q, x)) :
         Append(q, x)[k] = x \/ \E j \in 1..Len(q) : Append(q, x)[k] = q[j]
  BY <1>7, Appended
<1>9. toHost'[channel] = q \/ toHost'[channel] = Append(q, x)
  BY <1>4 DEF LinkInv, AnswerWires
<1> HIDE DEF q, x
<1>10. ASSUME NEW k \in 1..Len(toHost'[channel]), NEW packet, packet = toHost'[channel][k]
       PROVE  TruePacket(channel, packet)'
  <2>1. TruePacket(channel, packet)
    BY <1>6, <1>7, <1>8, <1>9, <1>10
  <2> QED
    BY <1>2, <2>1, PacketStays
<1>11. ASSUME NEW other \in ChannelNames, other # channel
       PROVE  toHost'[other] = toHost[other]
  BY <1>4, <1>11 DEF LinkInv, AnswerWires
<1>12. TrueWires'
  BY <1>1, <1>2, <1>10, <1>11, WiresTrue
<1> QED
  BY <1>1, <1>2, <1>5, <1>12, TruthKept DEF Truth

\* Every step of the link keeps what is known true.
LEMMA LinkNextTrue == LinkInv /\ Truth /\ LinkNext => Truth'
<1> SUFFICES ASSUME LinkInv, Truth, LinkNext PROVE Truth'
  OBVIOUS
<1>1. CASE Next /\ UNCHANGED link
  <2>1. UNCHANGED <<config, given, motors, toHost, samples>>
    BY <1>1 DEF link, Next, Validate, InitDrivers, InitThrows, DriversReady, BindMotor, BindEnds
  <2> QED
    BY <2>1, StaysTrue
<1>2. CASE config \in DOMAIN Calling /\ \E call \in Calling[config] : Call(call.device, call.command)
  <2>1. config' = config /\ \E batch : Transmit(batch, {})
    BY <1>2 DEF Call, topology
  <2> QED
    BY <2>1, TransmitTrue
<1>3. ASSUME NEW channel \in ChannelNames, NetworkStep(channel) PROVE Truth'
  <2>1. CASE LoseCommand(channel)
    BY <2>1, StaysTrue DEF LoseCommand, topology
  <2> QED
    BY <1>3, <2>1, GatewayHandlesTrue, LoseAnswerTrue, HostReceivesTrue DEF NetworkStep
<1> QED
  BY <1>1, <1>2, <1>3 DEF LinkNext

\* Nothing is known and the motors hold the factory's words.
LEMMA LinkInitTrue == LinkInit => Truth
<1> SUFFICES ASSUME LinkInit PROVE Truth
  OBVIOUS
<1>1. TrueWires
  <2>1. Len(<<>>) = 0
    OBVIOUS
  <2> QED
    BY <2>1 DEF LinkInit, TrueWires
<1>2. MotorsKeep(motors)
  <2>1. ASSUME NEW d \in Device PROVE motors[d].words = Factory
    BY DEF LinkInit
  <2> QED
    BY <2>1, FactoryStands DEF MotorsKeep
<1>3. SamplesTell(samples)
  <2>1. DOMAIN <<>> = {}
    OBVIOUS
  <2>2. \A d \in Device : samples[d] = <<>>
    BY DEF LinkInit
  <2> QED
    BY <2>1, <2>2 DEF SamplesTell, SampleTells, Speaks
<1> QED
  BY <1>1, <1>2, <1>3 DEF Truth

\* Every step of the program only sends or only looks.
LEMMA ProbeStepTrue == Truth /\ ProbeStep => Truth'
<1> SUFFICES ASSUME Truth, ProbeStep PROVE Truth'
  OBVIOUS
<1>1. CASE UNCHANGED <<topology, link>>
  BY <1>1, StaysTrue DEF topology, link
<1>2. ASSUME UNCHANGED topology, \E batch, busy : Transmit(batch, busy) PROVE Truth'
  BY <1>2, TransmitTrue DEF topology
<1>3. CASE Look \/ FindTimeout \/ VerifyTimeout \/ VerifyRestored \/ DriveEnds
  BY <1>1, <1>3 DEF Look, FindTimeout, VerifyTimeout, VerifyRestored, DriveEnds
<1>4. CASE Ask
  BY <1>2, <1>4 DEF Ask
<1>5. CASE SendTimeout
  BY <1>2, <1>5 DEF SendTimeout
<1>6. CASE SendSmoke
  BY <1>2, <1>6 DEF SendSmoke
<1>7. CASE Drive
  BY <1>2, <1>7 DEF Drive
<1> QED
  BY <1>3, <1>4, <1>5, <1>6, <1>7 DEF ProbeStep

\* Every step keeps what is known true.
LEMMA ProbeNextTrue == ProbeInv /\ Truth /\ [ProbeNext]_allVars => Truth'
<1> SUFFICES ASSUME ProbeInv, Truth, [ProbeNext]_allVars PROVE Truth'
  OBVIOUS
<1>1. CASE UNCHANGED allVars
  BY <1>1, StaysTrue DEF allVars, vars, link
<1>2. CASE LinkNext
  BY <1>2, LinkNextTrue DEF ProbeInv
<1>3. CASE ProbeStep
  BY <1>3, ProbeStepTrue
<1> QED
  BY <1>1, <1>2, <1>3 DEF ProbeNext

\* The inductive invariant behind the next two: every answer under way says of
\* the motor of its address what the motor's sensors or the words it was given say,
\* every motor holds words it was given or came with, and every sample is true.
THEOREM TruthInvariant == ProbeSpec => []Truth
<1>1. ProbeInit => Truth
  BY LinkInitTrue DEF ProbeInit
<1> QED
  BY <1>1, ProbeNextTrue, ProbeInvariant, PTL DEF ProbeSpec

\* For every configuration, command, loss and order of delivery: a sample is what
\* the sensors of that motor say, within the steps of the field it came in, and a
\* motor without an address of its own has none (codec_can.cc parse_feedback,
\* channel.cc handle_frame, device_motor.cc apply).
THEOREM SamplesAlwaysTrue == ProbeSpec => []SamplesTrue
<1>1. Truth => SamplesTrue
  BY DEF Truth, SamplesTell, SampleTells, Speaks, SamplesTrue
<1> QED
  BY <1>1, TruthInvariant, PTL

\* For every configuration, command, loss and order of delivery: a configuration
\* value received is one given to that device, or the factory's, within half a
\* step of its word (codec_can.cc encode and parse_query_response).
THEOREM ConfigAlwaysComesBack == ProbeSpec => []ConfigComesBack
<1>1. Truth => ConfigComesBack
  BY DEF Truth, SamplesTell, SampleTells, Speaks, ConfigComesBack
<1> QED
  BY <1>1, TruthInvariant, PTL

(***************************************************************************)
(* The command timeout of a motor on its way: from a command to the word   *)
(* of the motor, from there to an answer and to the sample.  The network   *)
(* keeps the order, so what is old never follows what is new.              *)
(***************************************************************************)

\* What the commands of a datagram may set a motor's timeout to.
SetsIn(channel, packet, d, V) ==
    \A i \in 1..Len(packet) :
        /\ d \in Reached(channel, packet[i])
        /\ Field(packet[i], Mode) = 6 /\ ConfigCode(packet[i]) = "can_timeout"
        => \E v \in V : ConfigValue(packet[i]) = <<v>>

\* What a sample's update may say of it.
KnownIn(known, V) == "can_timeout" \in DOMAIN known => known["can_timeout"] \in V

TellsFrame(frame, d, V) ==
    \A feedback \in ParseFeedback(frame, CurrentRange(d)) : KnownIn(Updates(feedback), V)

\* What the answers of a datagram may say of it to its device.
TellsIn(channel, packet, d, V) ==
    \A i \in 1..Len(packet) :
        FrameValid(packet[i]) /\ d \in Heard(channel, packet[i]) => TellsFrame(packet[i], d, V)

\* From the sample back to the last command: what comes after what is not old
\* is new.
Flows(channel, d, old, new, answers, commands, word, known) ==
    /\ word \in {<<old>>, <<new>>} /\ KnownIn(known, {old, new})
    /\ \A k \in 1..Len(answers) : TellsIn(channel, answers[k], d, {old, new})
    /\ \/ KnownIn(known, {old})
       \/ word = <<new>> /\ \A k \in 1..Len(answers) : TellsIn(channel, answers[k], d, {new})
    /\ \A k \in 1..Len(answers) :
          \/ TellsIn(channel, answers[k], d, {old})
          \/ /\ word = <<new>>
             /\ \A j \in 1..Len(answers) : j > k => TellsIn(channel, answers[j], d, {new})
    /\ word = <<old>> \/ \A k \in 1..Len(commands) : SetsIn(channel, commands[k], d, {new})
    /\ \A j, k \in 1..Len(commands) : j <= k =>
          SetsIn(channel, commands[j], d, {old}) \/ SetsIn(channel, commands[k], d, {new})

\* What is within a set is within a wider one.
LEMMA WiderTells ==
  ASSUME NEW channel, NEW packet, NEW d, NEW V, NEW W, V \subseteq W
  PROVE  /\ TellsIn(channel, packet, d, V) => TellsIn(channel, packet, d, W)
         /\ SetsIn(channel, packet, d, V) => SetsIn(channel, packet, d, W)
         /\ \A known : KnownIn(known, V) => KnownIn(known, W)
  BY DEF TellsIn, TellsFrame, KnownIn, SetsIn

\* Where nothing changes, anything may come next.
LEMMA FlowBegins ==
  ASSUME NEW channel, NEW d, NEW old, NEW new, NEW answers, NEW commands, NEW word, NEW known,
         Flows(channel, d, old, old, answers, commands, word, known)
  PROVE  Flows(channel, d, old, new, answers, commands, word, known)
<1>1. {old, old} \subseteq {old} /\ {old} \subseteq {old, new}
  OBVIOUS
<1>2. /\ word = <<old>> /\ KnownIn(known, {old})
      /\ \A k \in 1..Len(answers) : TellsIn(channel, answers[k], d, {old})
      /\ \A k \in 1..Len(commands) : SetsIn(channel, commands[k], d, {old})
  <2>1. \A k \in 1..Len(commands) : k <= k => SetsIn(channel, commands[k], d, {old})
    BY DEF Flows
  <2>2. ASSUME NEW k \in 1..Len(commands) PROVE SetsIn(channel, commands[k], d, {old})
    <3>1. k \in Int /\ k <= k
      OBVIOUS
    <3> QED
      BY <2>1, <3>1
  <2>3. word = <<old>> /\ KnownIn(known, {old, old})
    BY DEF Flows
  <2>4. \A k \in 1..Len(answers) : TellsIn(channel, answers[k], d, {old, old})
    BY DEF Flows
  <2>5. /\ \A p : TellsIn(channel, p, d, {old, old}) => TellsIn(channel, p, d, {old})
        /\ KnownIn(known, {old, old}) => KnownIn(known, {old})
    BY <1>1, WiderTells
  <2>6. \A k \in 1..Len(commands) : SetsIn(channel, commands[k], d, {old})
    BY <2>2
  <2>7. \A k \in 1..Len(answers) : TellsIn(channel, answers[k], d, {old})
    BY <2>4, <2>5
  <2> QED
    BY <2>3, <2>5, <2>6, <2>7
<1>3. /\ KnownIn(known, {old, new})
      /\ \A k \in 1..Len(answers) : TellsIn(channel, answers[k], d, {old, new})
  BY <1>1, <1>2, WiderTells
<1> QED
  BY <1>2, <1>3 DEF Flows

\* What has arrived as a sample has left nothing else behind it.
LEMMA FlowEnds ==
  ASSUME NEW channel, NEW d, NEW old, NEW new, NEW answers, NEW commands, NEW word, NEW known,
         Flows(channel, d, old, new, answers, commands, word, known), old # new,
         "can_timeout" \in DOMAIN known, known["can_timeout"] = new
  PROVE  Flows(channel, d, new, new, answers, commands, word, known)
<1>1. ~KnownIn(known, {old}) /\ KnownIn(known, {new}) /\ {new, new} = {new}
  BY DEF KnownIn
<1>2. <<new>> # <<old>>
  OBVIOUS
<1>3. /\ word = <<new>>
      /\ \A k \in 1..Len(answers) : TellsIn(channel, answers[k], d, {new})
  BY <1>1 DEF Flows
<1>4. \A k \in 1..Len(commands) : SetsIn(channel, commands[k], d, {new})
  BY <1>2, <1>3 DEF Flows
<1> QED
  BY <1>1, <1>3, <1>4 DEF Flows

\* What is left of a queue moves up by one.
LEMMA TailShifts ==
  ASSUME NEW q, IsSeq(q), q # <<>>
  PROVE  /\ Len(q) \in Nat \ {0} /\ Len(Tail(q)) \in Nat /\ Head(q) = q[1]
         /\ \A k \in 1..Len(Tail(q)) : k + 1 \in 1..Len(q) /\ Tail(q)[k] = q[k + 1]
<1>1. PICK S : q \in Seq(S)
  BY DEF IsSeq
<1>2. Len(q) \in Nat \ {0} /\ Len(Tail(q)) = Len(q) - 1 /\ Head(q) = q[1]
  BY <1>1
<1>3. \A k \in 1..Len(Tail(q)) : Tail(q)[k] = q[k + 1]
  BY <1>1, <1>2
<1>4. \A k \in 1..Len(Tail(q)) : k + 1 \in 1..Len(q)
  BY <1>2
<1> QED
  BY <1>2, <1>3, <1>4

\* What joins a queue is behind all of it.
LEMMA AppendExtends ==
  ASSUME NEW q, IsSeq(q), NEW x
  PROVE  /\ Len(q) \in Nat /\ Len(Append(q, x)) = Len(q) + 1
         /\ \A k \in 1..Len(q) : Append(q, x)[k] = q[k]
         /\ Append(q, x)[Len(q) + 1] = x
<1>1. PICK S : q \in Seq(S)
  BY DEF IsSeq
<1>2. q \in Seq(S \cup {x})
  BY <1>1
<1> QED
  BY <1>2

\* A lost answer changes no order.
LEMMA FlowLosesAnswer ==
  ASSUME NEW channel, NEW d, NEW old, NEW new, NEW answers, NEW commands, NEW word, NEW known,
         IsSeq(answers), answers # <<>>,
         Flows(channel, d, old, new, answers, commands, word, known)
  PROVE  Flows(channel, d, old, new, Tail(answers), commands, word, known)
<1> DEFINE rest == Tail(answers)
<1>1. /\ Len(rest) \in Nat
      /\ \A k \in 1..Len(rest) : k + 1 \in 1..Len(answers) /\ rest[k] = answers[k + 1]
  BY TailShifts
<1> HIDE DEF rest
<1>2. /\ \A k \in 1..Len(rest) : TellsIn(channel, rest[k], d, {old, new})
      /\ \/ KnownIn(known, {old})
         \/ word = <<new>> /\ \A k \in 1..Len(rest) : TellsIn(channel, rest[k], d, {new})
  BY <1>1 DEF Flows
<1>3. ASSUME NEW k \in 1..Len(rest), ~TellsIn(channel, rest[k], d, {old})
      PROVE  /\ word = <<new>>
             /\ \A j \in 1..Len(rest) : j > k => TellsIn(channel, rest[j], d, {new})
  <2>1. k + 1 \in 1..Len(answers) /\ ~TellsIn(channel, answers[k + 1], d, {old})
    BY <1>1, <1>3
  <2>2. /\ word = <<new>>
        /\ \A j \in 1..Len(answers) : j > k + 1 => TellsIn(channel, answers[j], d, {new})
    BY <2>1 DEF Flows
  <2>3. ASSUME NEW j \in 1..Len(rest), j > k PROVE j + 1 > k + 1
    BY <1>1, <2>3
  <2> QED
    BY <1>1, <2>2, <2>3
<1>4. Flows(channel, d, old, new, rest, commands, word, known)
  BY <1>2, <1>3 DEF Flows
<1> QED
  BY <1>4 DEF rest

\* Neither does a lost command.
LEMMA FlowLosesCommand ==
  ASSUME NEW channel, NEW d, NEW old, NEW new, NEW answers, NEW commands, NEW word, NEW known,
         IsSeq(commands), commands # <<>>,
         Flows(channel, d, old, new, answers, commands, word, known)
  PROVE  Flows(channel, d, old, new, answers, Tail(commands), word, known)
<1> DEFINE rest == Tail(commands)
<1>1. /\ Len(rest) \in Nat
      /\ \A k \in 1..Len(rest) : k + 1 \in 1..Len(commands) /\ rest[k] = commands[k + 1]
  BY TailShifts
<1> HIDE DEF rest
<1>2. word = <<old>> \/ \A k \in 1..Len(rest) : SetsIn(channel, rest[k], d, {new})
  BY <1>1 DEF Flows
<1>3. ASSUME NEW j \in 1..Len(rest), NEW k \in 1..Len(rest), j <= k
      PROVE  SetsIn(channel, rest[j], d, {old}) \/ SetsIn(channel, rest[k], d, {new})
  <2>1. j + 1 \in 1..Len(commands) /\ k + 1 \in 1..Len(commands) /\ j + 1 <= k + 1
    BY <1>1, <1>3
  <2>2. SetsIn(channel, commands[j + 1], d, {old}) \/ SetsIn(channel, commands[k + 1], d, {new})
    BY <2>1 DEF Flows
  <2> QED
    BY <1>1, <2>2
<1>4. Flows(channel, d, old, new, answers, rest, word, known)
  BY <1>2, <1>3 DEF Flows
<1> QED
  BY <1>4 DEF rest

\* A datagram sent sets what is new or nothing.
LEMMA FlowSends ==
  ASSUME NEW channel, NEW d, NEW old, NEW new, NEW answers, NEW commands, NEW word, NEW known,
         IsSeq(commands), NEW packet, SetsIn(channel, packet, d, {new}),
         Flows(channel, d, old, new, answers, commands, word, known)
  PROVE  Flows(channel, d, old, new, answers, Append(commands, packet), word, known)
<1> DEFINE all == Append(commands, packet)
           n == Len(commands)
<1>1. /\ n \in Nat /\ Len(all) = n + 1
      /\ \A k \in 1..n : all[k] = commands[k]
      /\ all[n + 1] = packet
  BY AppendExtends
<1>2. /\ word = <<old>> \/ \A k \in 1..n : SetsIn(channel, commands[k], d, {new})
      /\ \A j, k \in 1..n : j <= k =>
            SetsIn(channel, commands[j], d, {old}) \/ SetsIn(channel, commands[k], d, {new})
  BY DEF Flows
<1> HIDE DEF all, n
<1>3. ASSUME NEW k \in 1..Len(all)
      PROVE  k \in 1..n \/ (k = n + 1 /\ SetsIn(channel, all[k], d, {new}))
  BY <1>1
<1>4. word = <<old>> \/ \A k \in 1..Len(all) : SetsIn(channel, all[k], d, {new})
  BY <1>1, <1>2, <1>3
<1>5. ASSUME NEW j \in 1..Len(all), NEW k \in 1..Len(all), j <= k
      PROVE  SetsIn(channel, all[j], d, {old}) \/ SetsIn(channel, all[k], d, {new})
  <2>1. CASE k = n + 1
    BY <1>1, <2>1
  <2>2. CASE k # n + 1
    <3>1. k \in 1..n /\ j \in 1..n
      BY <1>1, <1>5, <2>2
    <3> QED
      BY <1>1, <1>2, <1>5, <3>1
  <2> QED
    BY <2>1, <2>2
<1>6. Flows(channel, d, old, new, answers, all, word, known)
  BY <1>4, <1>5 DEF Flows
<1> QED
  BY <1>6 DEF all

\* An answer that arrives tells the sample, and leaves the order as it was.
LEMMA FlowArrives ==
  ASSUME NEW channel, NEW d, NEW old, NEW new, NEW answers, NEW commands, NEW word, NEW known,
         IsSeq(answers), answers # <<>>,
         Flows(channel, d, old, new, answers, commands, word, known),
         NEW after, KnownIn(after, {old, new}),
         KnownIn(known, {old}) /\ TellsIn(channel, Head(answers), d, {old}) => KnownIn(after, {old})
  PROVE  Flows(channel, d, old, new, Tail(answers), commands, word, after)
<1> DEFINE rest == Tail(answers)
<1>1. Flows(channel, d, old, new, rest, commands, word, known)
  BY FlowLosesAnswer
<1>2. /\ Len(answers) \in Nat \ {0} /\ Len(rest) \in Nat /\ Head(answers) = answers[1]
      /\ \A k \in 1..Len(rest) : k + 1 \in 1..Len(answers) /\ rest[k] = answers[k + 1]
  BY TailShifts
<1> HIDE DEF rest
<1>3. \/ KnownIn(after, {old})
      \/ word = <<new>> /\ \A k \in 1..Len(rest) : TellsIn(channel, rest[k], d, {new})
  <2>1. CASE KnownIn(known, {old}) /\ TellsIn(channel, Head(answers), d, {old})
    BY <2>1
  <2>2. CASE ~KnownIn(known, {old})
    BY <1>2, <2>2 DEF Flows
  <2>3. CASE ~TellsIn(channel, Head(answers), d, {old})
    <3>1. 1 \in 1..Len(answers) /\ ~TellsIn(channel, answers[1], d, {old})
      BY <1>2, <2>3
    <3>2. /\ word = <<new>>
          /\ \A j \in 1..Len(answers) : j > 1 => TellsIn(channel, answers[j], d, {new})
      BY <3>1 DEF Flows
    <3>3. \A k \in 1..Len(rest) : k + 1 > 1
      BY <1>2
    <3> QED
      BY <1>2, <3>2, <3>3
  <2> QED
    BY <2>1, <2>2, <2>3
<1>4. Flows(channel, d, old, new, rest, commands, word, after)
  BY <1>1, <1>3 DEF Flows
<1> QED
  BY <1>4 DEF rest

\* What handling a datagram does to a motor's timeout, and what it answers:
\* from w, if it sets nothing but v.
Turns(channel, d, packet, word, after, answer, w, v) ==
    word = <<w>> /\ SetsIn(channel, packet, d, {v}) =>
        /\ after \in {<<w>>, <<v>>}
        /\ TellsIn(channel, answer, d, {w, v})
        /\ after = <<w>> => TellsIn(channel, answer, d, {w})

TurnsBetween(channel, d, packet, word, after, answer, old, new) ==
    \A w, v \in {old, new} : Turns(channel, d, packet, word, after, answer, w, v)

\* What is left of the order then.
Turned(channel, d, old, new, commands, word, after, answer) ==
    /\ after \in {<<old>>, <<new>>}
    /\ TellsIn(channel, answer, d, {old, new})
    /\ word = <<new>> => after = <<new>> /\ TellsIn(channel, answer, d, {new})
    /\ TellsIn(channel, answer, d, {old}) \/ after = <<new>>
    /\ \/ after = <<old>>
       \/ \A k \in 1..Len(commands) : SetsIn(channel, commands[k], d, {new})

\* New words are answered with new words.
LEMMA FlowTurns ==
  ASSUME NEW channel, NEW d, NEW old, NEW new, NEW answers, NEW commands, NEW word, NEW known,
         IsSeq(commands), commands # <<>>,
         Flows(channel, d, old, new, answers, commands, word, known),
         NEW after, NEW answer,
         TurnsBetween(channel, d, Head(commands), word, after, answer, old, new)
  PROVE  Turned(channel, d, old, new, commands, word, after, answer)
<1>1. 1 \in 1..Len(commands) /\ Head(commands) = commands[1] /\ \A k \in 1..Len(commands) : 1 <= k
  BY TailShifts
<1>2. ASSUME NEW k \in 1..Len(commands)
      PROVE  /\ SetsIn(channel, commands[1], d, {old}) \/ SetsIn(channel, commands[k], d, {new})
             /\ word = <<old>> \/ SetsIn(channel, commands[k], d, {new})
             /\ SetsIn(channel, commands[k], d, {old}) \/ SetsIn(channel, commands[k], d, {new})
  <2>1. 1 <= k /\ k <= k /\ 1 \in 1..Len(commands)
    BY <1>1
  <2> QED
    BY <2>1 DEF Flows
<1>3. {old} \subseteq {old, new} /\ {new} \subseteq {old, new}
  OBVIOUS
<1>4. word \in {<<old>>, <<new>>}
  BY DEF Flows
<1>5. CASE word = <<new>>
  <2>1. \A k \in 1..Len(commands) : SetsIn(channel, commands[k], d, {new})
    <3>1. CASE old = new
      BY <1>2, <3>1
    <3>2. CASE old # new
      <4>1. <<new>> # <<old>>
        BY <3>2
      <4> QED
        BY <1>2, <1>5, <4>1
    <3> QED
      BY <3>1, <3>2
  <2>2. Turns(channel, d, Head(commands), word, after, answer, new, new)
    BY DEF TurnsBetween
  <2>3. SetsIn(channel, Head(commands), d, {new})
    BY <1>1, <2>1
  <2>4. after = <<new>> /\ TellsIn(channel, answer, d, {new})
    BY <1>5, <2>2, <2>3 DEF Turns
  <2>5. TellsIn(channel, answer, d, {old, new})
    BY <1>3, <2>4, WiderTells
  <2> QED
    BY <2>1, <2>4, <2>5 DEF Turned
<1>6. CASE word = <<old>> /\ word # <<new>>
  <2>1. CASE SetsIn(channel, Head(commands), d, {old})
    <3>1. Turns(channel, d, Head(commands), word, after, answer, old, old)
      BY DEF TurnsBetween
    <3>2. after = <<old>> /\ TellsIn(channel, answer, d, {old})
      BY <1>6, <2>1, <3>1 DEF Turns
    <3>3. TellsIn(channel, answer, d, {old, new})
      BY <1>3, <3>2, WiderTells
    <3> QED
      BY <1>6, <3>2, <3>3 DEF Turned
  <2>2. CASE ~SetsIn(channel, Head(commands), d, {old})
    <3>1. \A k \in 1..Len(commands) : SetsIn(channel, commands[k], d, {new})
      BY <1>1, <1>2, <2>2
    <3>2. Turns(channel, d, Head(commands), word, after, answer, old, new)
      BY DEF TurnsBetween
    <3>3. SetsIn(channel, Head(commands), d, {new})
      BY <1>1, <3>1
    <3> QED
      BY <1>6, <3>1, <3>2, <3>3 DEF Turns, Turned
  <2> QED
    BY <2>1, <2>2
<1> QED
  BY <1>4, <1>5, <1>6

\* So the order stays when the motors have handled a datagram.
LEMMA FlowHandles ==
  ASSUME NEW channel, NEW d, NEW old, NEW new, NEW answers, NEW commands, NEW word, NEW known,
         IsSeq(answers), IsSeq(commands), commands # <<>>,
         Flows(channel, d, old, new, answers, commands, word, known),
         NEW after, NEW answer,
         TurnsBetween(channel, d, Head(commands), word, after, answer, old, new)
  PROVE  /\ Flows(channel, d, old, new, answers, Tail(commands), after, known)
         /\ Flows(channel, d, old, new, Append(answers, answer), Tail(commands), after, known)
<1> DEFINE left == Tail(commands)
           all == Append(answers, answer)
           n == Len(answers)
<1>1. /\ after \in {<<old>>, <<new>>}
      /\ TellsIn(channel, answer, d, {old, new})
      /\ word = <<new>> => after = <<new>> /\ TellsIn(channel, answer, d, {new})
      /\ TellsIn(channel, answer, d, {old}) \/ after = <<new>>
      /\ \/ after = <<old>>
         \/ \A k \in 1..Len(commands) : SetsIn(channel, commands[k], d, {new})
  <2>1. Turned(channel, d, old, new, commands, word, after, answer)
    BY FlowTurns
  <2> QED
    BY <2>1 DEF Turned
<1>2. Flows(channel, d, old, new, answers, left, word, known)
  BY FlowLosesCommand
<1>3. \A k \in 1..Len(left) : k + 1 \in 1..Len(commands) /\ left[k] = commands[k + 1]
  BY TailShifts
<1>4. /\ n \in Nat /\ Len(all) = n + 1
      /\ \A k \in 1..n : all[k] = answers[k]
      /\ all[n + 1] = answer
  BY AppendExtends
<1> HIDE DEF left, all
<1>5. after = <<old>> \/ \A k \in 1..Len(left) : SetsIn(channel, left[k], d, {new})
  BY <1>1, <1>3
<1>6. Flows(channel, d, old, new, answers, left, after, known)
  BY <1>1, <1>2, <1>5 DEF Flows
<1>7. ASSUME NEW k \in 1..Len(all) PROVE k \in 1..n \/ k = n + 1
  BY <1>4
<1>8. \A k \in 1..Len(all) : TellsIn(channel, all[k], d, {old, new})
  <2>1. \A k \in 1..n : TellsIn(channel, answers[k], d, {old, new})
    BY DEF Flows
  <2> QED
    BY <1>1, <1>4, <1>7, <2>1
<1>9. \/ KnownIn(known, {old})
      \/ after = <<new>> /\ \A k \in 1..Len(all) : TellsIn(channel, all[k], d, {new})
  <2>1. \/ KnownIn(known, {old})
        \/ word = <<new>> /\ \A k \in 1..n : TellsIn(channel, answers[k], d, {new})
    BY DEF Flows
  <2> QED
    BY <1>1, <1>4, <1>7, <2>1
<1>10. ASSUME NEW k \in 1..Len(all), ~TellsIn(channel, all[k], d, {old})
       PROVE  /\ after = <<new>>
              /\ \A j \in 1..Len(all) : j > k => TellsIn(channel, all[j], d, {new})
  <2>1. CASE k = n + 1
    <3>1. \A j \in 1..Len(all) : ~(j > k)
      BY <1>4, <2>1
    <3> QED
      BY <1>1, <1>4, <1>10, <2>1, <3>1
  <2>2. CASE k \in 1..n
    <3>1. ~TellsIn(channel, answers[k], d, {old})
      BY <1>4, <1>10, <2>2
    <3>2. /\ word = <<new>>
          /\ \A j \in 1..n : j > k => TellsIn(channel, answers[j], d, {new})
      BY <2>2, <3>1 DEF Flows
    <3> QED
      BY <1>1, <1>4, <1>7, <3>2
  <2> QED
    BY <1>7, <2>1, <2>2
<1>11. Flows(channel, d, old, new, all, left, after, known)
  BY <1>6, <1>8, <1>9, <1>10 DEF Flows
<1> QED
  BY <1>6, <1>11 DEF left, all

(***************************************************************************)
(* What a motor answers of its timeout, and what may set it.               *)
(***************************************************************************)

\* Only the answer to a query can tell it.
LEMMA OthersAreSilent ==
  ASSUME NEW d, NEW frame, NEW kind \in {1, 2, 3, 6}, Says(frame, FeedbackType, kind), NEW V
  PROVE  TellsFrame(frame, d, V)
<1> SUFFICES ASSUME NEW feedback \in ParseFeedback(frame, CurrentRange(d))
             PROVE  "can_timeout" \notin DOMAIN Updates(feedback)
  BY DEF TellsFrame, KnownIn
<1>1. PICK error :
         /\ kind = 1 => feedback \in ParseStatus1(frame, error, CurrentRange(d))
         /\ kind = 2 => feedback \in ParseMotion("position", frame, error)
         /\ kind = 3 => feedback \in ParseMotion("velocity", frame, error)
         /\ kind = 6 => feedback \in ParseBrake(frame, error)
  BY ParsedByType
<1>2. feedback.type \in {"status", "position", "velocity", "brake"}
  <2>1. CASE kind = 1
    BY <1>1, <2>1 DEF ParseStatus1
  <2>2. CASE kind = 2 \/ kind = 3
    BY <1>1, <2>2 DEF ParseMotion
  <2>3. CASE kind = 6
    BY <1>1, <2>3 DEF ParseBrake
  <2> QED
    BY <2>1, <2>2, <2>3
<1>3. CASE feedback.type = "status"
  BY <1>3 DEF Updates
<1>4. CASE feedback.type = "position"
  BY <1>4 DEF Updates
<1>5. CASE feedback.type = "velocity"
  BY <1>5 DEF Updates
<1>6. CASE feedback.type = "brake"
  BY <1>6 DEF Updates
<1> QED
  BY <1>2, <1>3, <1>4, <1>5, <1>6

\* A timeout is answered as it is kept.
LEMMA TimeoutAnswered ==
  ASSUME NEW frame, NEW w, IsWord(w), Says(frame, Bits(16, 16), w),
         NEW value \in QueryValue(frame, "can_timeout")
  PROVE  Len(value) = 1 /\ value[1] = w
<1>1. /\ "can_timeout" \in DOMAIN QueryDivisors /\ "can_timeout" \notin FloatQueries
      /\ "can_timeout" \notin DOMAIN ByteQueries
      /\ Len(QueryDivisors["can_timeout"]) = 1 /\ QueryDivisors["can_timeout"][1] = 1000
      /\ "can_timeout" \notin SignedQueries
  BY DEF QueryDivisors, FloatQueries, ByteQueries, SignedQueries
<1>2. QueryValue(frame, "can_timeout") = {<<QueryWord("can_timeout", v, 1)>> : v \in Word(frame, 0)}
  BY <1>1 DEF QueryValue
<1>3. Word(frame, 0) = {w}
  <2>1. 16 + 16 * 0 = 16
    OBVIOUS
  <2> QED
    BY <2>1 DEF Says, Word
<1>4. QueryWord("can_timeout", w, 1) = w
  <2>1. QueryWord("can_timeout", w, 1) = Rounded(w * 1000, 1000)
    BY <1>1 DEF QueryWord, Divided
  <2>2. Rounded(w * 1000, 1000) = w
    BY DEF Rounded, IsWord
  <2> QED
    BY <2>1, <2>2
<1> QED
  BY <1>2, <1>3, <1>4

\* The answer to a query tells the timeout the motor has, or none.
LEMMA QueryTellsTimeout ==
  ASSUME NEW d, NEW m, IsMotor(m), NEW w, IsWord(w), m.words["can_timeout"] = <<w>>,
         NEW address \in Address, NEW code \in DOMAIN QueryCode,
         NEW frame \in Filled(address, 8, AnswerWrites(QueryCode[code], QueryPayload(d, m, code)))
  PROVE  TellsFrame(frame, d, {w})
<1> DEFINE key == QueryCode[code]
           payload == QueryPayload(d, m, code)
<1>1. IsRaw(key)
  BY QueryKeysDiffer DEF IsRaw
<1>2. Payload(payload)
  BY PayloadOrdered
<1>3. /\ Says(frame, FeedbackType, 5) /\ Says(frame, Key, key)
      /\ \A i \in 1..Len(payload) :
            IsRaw(payload[i][2]) => Says(frame, payload[i][1], payload[i][2])
  <2> HIDE DEF key, payload
  <2> QED
    BY <1>1, <1>2, QueryReplySays DEF key, payload
<1> SUFFICES ASSUME NEW feedback \in ParseFeedback(frame, CurrentRange(d))
             PROVE  KnownIn(Updates(feedback), {w})
  BY DEF TellsFrame
<1>4. PICK error : feedback \in ParseQuery(frame, error)
  BY <1>3, ParsedByType
<1> DEFINE update == Updates(feedback)
<1>5. PICK value \in QueryValue(frame, code) : Tells(update, code, value)
  BY <1>3, <1>4, QueryParsed
<1> HIDE DEF update
<1>6. CASE code # "can_timeout"
  <2>1. "can_timeout" \notin DOMAIN update
    BY <1>5, <1>6 DEF Tells
  <2> QED
    BY <2>1 DEF KnownIn, update
<1>7. CASE code = "can_timeout"
  <2> DEFINE words == m.words["can_timeout"]
  <2>1. payload = [i \in Index(words) |-> <<Bits(16 * i, 16), words[i]>>]
    <3>1. SetCodeOf(code) = "can_timeout" /\ "can_timeout" \in DOMAIN m.words
          /\ code \notin FloatQueries /\ code # "brake_status"
      BY <1>7, AskedCodes DEF SetCodeOf, IsMotor, Asked
    <3> QED
      BY <3>1 DEF QueryPayload
  <2>2. words = <<w>> /\ words \in Seq(Nat) /\ Len(words) = 1 /\ words[1] = w
    <3>1. words = <<w>>
      OBVIOUS
    <3>2. <<w>> \in Seq(Nat) /\ Len(<<w>>) = 1 /\ <<w>>[1] = w
      BY DEF IsWord
    <3> HIDE DEF words
    <3> QED
      BY <3>1, <3>2
  <2> HIDE DEF words, payload
  <2>3. Len(payload) = 1 /\ payload[1] = <<Bits(16 * 1, 16), w>>
    <3>1. /\ Len(payload) = Len(words)
          /\ \A i \in 1..Len(words) : payload[i] = <<Bits(16 * i, 16), words[i]>>
      BY <2>1, <2>2, WordsPayload
    <3>2. 1 \in 1..Len(words)
      BY <2>2
    <3> QED
      BY <2>2, <3>1, <3>2
  <2>4. Says(frame, Bits(16, 16), w)
    <3>1. IsRaw(w) /\ 16 * 1 = 16
      BY DEF IsWord, IsRaw
    <3> QED
      BY <1>3, <2>3, <3>1
  <2>5. Len(value) = 1 /\ value[1] = w
    BY <1>5, <1>7, <2>4, TimeoutAnswered
  <2>6. update["can_timeout"] = w
    BY <1>5, <1>7, <2>5 DEF Tells
  <2> QED
    BY <2>6 DEF KnownIn, update
<1> QED
  BY <1>6, <1>7

\* A frame filled as another kind of answer tells no timeout.
LEMMA SilentByType ==
  ASSUME NEW d, NEW address \in Address, NEW writes, InOrder(writes), NEW kind \in {1, 2, 3, 6},
         1 \in 1..Len(writes), writes[1] = <<FeedbackType, kind>>,
         NEW frame \in Filled(address, 8, writes), NEW V
  PROVE  TellsFrame(frame, d, V)
<1>1. IsRaw(kind)
  BY SmallIsRaw
<1>2. \A i \in 1..Len(writes) : IsRaw(writes[i][2]) => Says(frame, writes[i][1], writes[i][2])
  BY FilledSays
<1>3. Says(frame, FeedbackType, kind)
  BY <1>1, <1>2
<1> QED
  BY <1>3, OthersAreSilent

\* The fields of a brake reply lie one behind the other.
LEMMA BrakeReplyInOrder ==
  ASSUME NEW engaged
  PROVE  InOrder(BrakeReplyWrites(engaged))
  BY DEF InOrder, BrakeReplyWrites, BitField, FeedbackType, FeedbackError, BrakeEngaged, Bits

\* Whatever a motor answers a command with tells the timeout it has, or none.
LEMMA AnswerTells ==
  ASSUME NEW d, NEW m, IsMotor(m), NEW w, IsWord(w), m.words["can_timeout"] = <<w>>,
         AddressOf(d) \in Address, NEW c, Command(c), NEW frame, AskedFor(frame, c),
         NEW answer \in Answer(d, m, frame)
  PROVE  TellsFrame(answer, d, {w})
<1> DEFINE kind == AnswerKind(frame)
           address == AddressOf(d)
           Head2(k) == <<<<FeedbackType, k>>, <<FeedbackError, 0>>>>
           Goal == TellsFrame(answer, d, {w})
<1>0. \/ kind \in {0, 1, 2, 3, 6}
      \/ kind = 5 /\ c.type = "query" /\ QueriedCode(frame) = c.code
  BY DEF AskedFor
<1>1. CASE kind = 0
  BY <1>1 DEF Answer
<1>2. ASSUME kind = 1 PROVE Goal
  <2> DEFINE position == StatusRaw(Physical[d].shaft, PositionRange, 65535)
             velocity == StatusRaw(Physical[d].speed, VelocityRange, 4095)
             current == StatusRaw(Physical[d].current, SpecOf(d).current, 4095)
             rest == <<<<StatusPosition, position>>, <<StatusVelocity, velocity>>,
                       <<StatusCurrent, current>>, <<Byte(6), 90>>, <<Byte(7), 90>>>>
             writes == StatusWrites(position, velocity, current)
  <2>1. answer \in Filled(address, 8, Head2(1) \o rest)
    BY <1>2 DEF Answer
  <2> HIDE DEF position, velocity, current
  <2>2. Head2(1) \o rest = writes
    BY TwoAndFive DEF StatusWrites
  <2>3. InOrder(writes) /\ 1 \in 1..Len(writes) /\ writes[1] = <<FeedbackType, 1>>
    BY StatusInOrder DEF StatusWrites
  <2> HIDE DEF rest, Head2, writes
  <2> QED
    BY <2>1, <2>2, <2>3, SilentByType
<1>3. ASSUME NEW name, (kind = 2 /\ name = "position") \/ (kind = 3 /\ name = "velocity")
      PROVE  Goal
  <2> DEFINE value == F32Bits(Physical[d][name])
             current == Unsigned(Physical[d].current \div 10)
             rest == <<<<ReplyFloat, value>>, <<ReplyCurrentX100, current>>, <<Byte(7), 90>>>>
             writes == MotionWrites(kind, value, current)
  <2>1. answer \in Filled(address, 8, Head2(kind) \o rest)
    <3>1. CASE kind = 2
      BY <1>3, <3>1 DEF Answer
    <3>2. CASE kind = 3
      BY <1>3, <3>2 DEF Answer
    <3> QED
      BY <1>3, <3>1, <3>2
  <2> HIDE DEF value, current, kind
  <2>2. Head2(kind) \o rest = writes
    BY TwoAndThree DEF MotionWrites
  <2>3. InOrder(writes) /\ 1 \in 1..Len(writes) /\ writes[1] = <<FeedbackType, kind>>
    BY MotionInOrder DEF MotionWrites
  <2> HIDE DEF rest, Head2, writes
  <2> QED
    BY <1>3, <2>1, <2>2, <2>3, SilentByType
<1>4. ASSUME kind = 6 PROVE Goal
  <2> DEFINE engaged == IF m.released THEN 1 ELSE 0
             rest == <<<<BrakeEngaged, engaged>>>>
             writes == BrakeReplyWrites(engaged)
  <2>1. answer \in Filled(address, 8, Head2(6) \o rest)
    BY <1>4 DEF Answer
  <2> HIDE DEF engaged
  <2>2. Head2(6) \o rest = writes
    BY TwoAndOne DEF BrakeReplyWrites
  <2>3. InOrder(writes) /\ 1 \in 1..Len(writes) /\ writes[1] = <<FeedbackType, 6>>
    BY BrakeReplyInOrder DEF BrakeReplyWrites
  <2> HIDE DEF rest, Head2, writes
  <2> QED
    BY <2>1, <2>2, <2>3, SilentByType
<1>5. ASSUME kind = 5, c.type = "query", QueriedCode(frame) = c.code PROVE Goal
  <2> DEFINE code == c.code
             payload == QueryPayload(d, m, code)
  <2>1. answer \in Filled(address, 8, Head2(5) \o (<<<<Key, QueryCode[code]>>>> \o payload))
    BY <1>5 DEF Answer
  <2>2. answer \in Filled(address, 8, AnswerWrites(QueryCode[code], payload))
    BY <2>1 DEF AnswerWrites, ReplyWrites
  <2>3. code \in DOMAIN QueryCode
    <3>1. c \in QueryCommand
      BY <1>5, CommandSorts
    <3> QED
      BY <3>1 DEF QueryCommand
  <2> HIDE DEF code
  <2> QED
    BY <2>2, <2>3, QueryTellsTimeout
<1> HIDE DEF kind, Goal
<1>6. kind # 0 => Goal
  BY <1>0, <1>2, <1>3, <1>4, <1>5
<1> QED
  BY <1>1, <1>6 DEF Goal

\* A command that may set a motor's timeout to v, or leaves it.
SetsTo(frame, v) ==
    Field(frame, Mode) = 6 /\ ConfigCode(frame) = "can_timeout" => ConfigValue(frame) = <<v>>

\* A frame leaves the timeout as it was or sets what its command says.
LEMMA ExecutedTimeout ==
  ASSUME NEW d, NEW address \in Address, NEW c, Command(c), NEW frame \in Encode(address, c),
         NEW m, IsMotor(m), NEW v, SetsTo(frame, v)
  PROVE  Executed(d, m, frame).words["can_timeout"] \in {m.words["can_timeout"], <<v>>}
<1> DEFINE n == Executed(d, m, frame)
           Goal == n.words["can_timeout"] \in {m.words["can_timeout"], <<v>>}
<1>1. ASSUME n.words = m.words PROVE Goal
  BY <1>1
<1>2. ASSUME Field(frame, Mode) \in 0..3 PROVE Goal
  <2>1. n = [m EXCEPT !.target = TargetOf(d, frame)]
    BY <1>2 DEF Executed, CommandCode
  <2> QED
    BY <1>1, <2>1 DEF IsMotor
<1>3. ASSUME Field(frame, Mode) = 4 PROVE Goal
  <2>1. n = [m EXCEPT !.released = Field(frame, BrakeEngaged) = 1]
    BY <1>3 DEF Executed, CommandCode
  <2> QED
    BY <1>1, <2>1 DEF IsMotor
<1>4. ASSUME Field(frame, Mode) = 7 PROVE Goal
  <2>1. n = m
    BY <1>4 DEF Executed, CommandCode
  <2> QED
    BY <1>1, <2>1
<1>5. ASSUME c.type = "config", c \in ConfigCommand PROVE Goal
  <2>1. frame \in MakeConfig(address, c)
    BY <1>5 DEF Encode
  <2>2. Field(frame, Mode) = 6 /\ ConfigValue(frame) \in Seq(Nat)
    BY <1>5, <2>1, ConfigCarried
  <2> DEFINE value == ConfigValue(frame)
             code == ConfigCode(frame)
  <2>3. code \in DOMAIN SetCode
    BY <1>5, <2>1, ConfigCodeTold DEF ConfigCommand
  <2>4. n = [m EXCEPT !.words[code] = value]
    BY <2>2 DEF Executed, CommandCode
  <2>5. code = "can_timeout" => value = <<v>>
    BY <2>2 DEF SetsTo
  <2> HIDE DEF value, code, n
  <2>6. n.words = [m.words EXCEPT ![code] = value]
    BY <2>4 DEF IsMotor
  <2>7. CASE code = "can_timeout"
    BY <2>3, <2>5, <2>6, <2>7 DEF IsMotor
  <2>8. CASE code # "can_timeout"
    <3>1. "can_timeout" \in DOMAIN SetCode
      BY AskedCodes DEF Asked
    <3> QED
      BY <2>6, <2>8, <3>1 DEF IsMotor
  <2> QED
    BY <2>7, <2>8
<1>6. \/ Field(frame, Mode) \in 0..3 \/ Field(frame, Mode) = 4 \/ Field(frame, Mode) = 7
      \/ c.type = "config" /\ c \in ConfigCommand
  BY ModeOfFrame
<1> HIDE DEF Goal
<1>7. Goal
  BY <1>2, <1>3, <1>4, <1>5, <1>6
<1> QED
  BY <1>7 DEF Goal

(***************************************************************************)
(* A datagram handled frame by frame.                                      *)
(***************************************************************************)

\* While the frames may turn a timeout from w to v: what was answered before
\* the turn tells w, and all of it w or v.
Turning(channel, d, s, w, v) ==
    /\ AnsweredState(channel, s)
    /\ s.motors[d].words["can_timeout"] \in {<<w>>, <<v>>}
    /\ TellsIn(channel, s.answers, d, {w, v})
    /\ s.motors[d].words["can_timeout"] = <<w>> => TellsIn(channel, s.answers, d, {w})

\* Two datagrams joined tell what each of them tells.
LEMMA JoinedTells ==
  ASSUME NEW channel, NEW d, NEW s, NEW t, IsSeq(s), IsSeq(t), NEW V,
         TellsIn(channel, s, d, V), TellsIn(channel, t, d, V)
  PROVE  TellsIn(channel, s \o t, d, V)
  BY JoinedParts DEF TellsIn

\* What a motor sends is heard by its own device only.
LEMMA OwnAnswer ==
  ASSUME TopologyInv, phase = "bound", NEW channel, NEW device \in Device,
         config.motors[device].channel = channel,
         NEW answer, NEW len, Made(answer, AddressOf(device), len), NEW d \in Heard(channel, answer)
  PROVE  d = device
<1>1. SameAddress(config.motors[d], config.motors[device])
  BY DEF Heard, Made, AddressOf, SameAddress
<1> QED
  BY <1>1, ValidChannels DEF Heard, TopologyInv, TopologyTypes, PhaseTells, Device

\* What a motor sends tells what each of its answers tells.
LEMMA SentTells ==
  ASSUME NEW channel, NEW d, NEW device, NEW m, NEW frame, NEW V,
         \A answer \in Answer(device, m, frame) :
            d \in Heard(channel, answer) => TellsFrame(answer, d, V)
  PROVE  IsSeq(AnswerSent(device, m, frame)) /\ TellsIn(channel, AnswerSent(device, m, frame), d, V)
<1> DEFINE sent == AnswerSent(device, m, frame)
<1>1. CASE Answer(device, m, frame) = {}
  <2>1. sent = <<>> /\ <<>> \in Seq({}) /\ Len(<<>>) = 0
    BY <1>1 DEF AnswerSent
  <2> QED
    BY <2>1 DEF IsSeq, TellsIn
<1>2. CASE Answer(device, m, frame) # {}
  <2> DEFINE a == The(Answer(device, m, frame))
  <2>1. a \in Answer(device, m, frame)
    BY <1>2 DEF The
  <2>2. sent = <<a>>
    BY <1>2 DEF AnswerSent
  <2>3. d \in Heard(channel, a) => TellsFrame(a, d, V)
    BY <2>1
  <2> HIDE DEF a, sent
  <2>4. sent \in Seq({a}) /\ Len(sent) = 1 /\ sent[1] = a
    BY <2>2
  <2> QED
    BY <2>3, <2>4 DEF IsSeq, TellsIn, sent
<1> QED
  BY <1>1, <1>2

\* A frame handled turns the timeout, or leaves it.
LEMMA HandleTurns ==
  ASSUME TopologyInv, phase = "bound", GivenTypes,
         NEW channel, NEW frame, Commanded(channel, frame), NEW d \in Device,
         NEW w, NEW v, IsWord(w), IsWord(v), d \in Reached(channel, frame) => SetsTo(frame, v),
         NEW s, Turning(channel, d, s, w, v)
  PROVE  Turning(channel, d, Handle(s, channel, frame), w, v)
<1>0. AnsweredState(channel, Handle(s, channel, frame))
  BY HandleTrue DEF Turning
<1>1. CASE Reached(channel, frame) = {}
  BY <1>1 DEF Handle
<1>2. CASE Reached(channel, frame) # {}
  <2> DEFINE device == The(Reached(channel, frame))
             m == s.motors[device]
             n == Executed(device, m, frame)
             sent == AnswerSent(device, n, frame)
  <2>0. device \in Reached(channel, frame)
    BY <1>2 DEF The
  <2>1. /\ device \in Device /\ config.motors[device].channel = channel
        /\ AddressOf(device) \in Address
    BY <1>2, ReachedMotor
  <2>2. PICK c : /\ Command(c) /\ frame \in Encode(AddressOf(device), c)
                 /\ c \in given[device] \/ c.type = "query"
    BY <1>2, ReachedMotor
  <2>3. /\ IsMotor(m) /\ WordsKept(device, m) /\ IsSeq(s.answers)
        /\ s.motors = [e \in Device |-> s.motors[e]]
    BY <2>1 DEF Turning, AnsweredState, HandledState, MotorsUnderstand, MotorsKeep
  <2> HIDE DEF device, m
  <2>4. IsMotor(n) /\ WordsKept(device, n)
    BY <2>1, <2>2, <2>3, Obeyed, ExecutedWords
  <2>5. SetsTo(frame, v) => n.words["can_timeout"] \in {m.words["can_timeout"], <<v>>}
    BY <2>1, <2>2, <2>3, ExecutedTimeout
  <2> HIDE DEF n
  <2>6. FitSensors(device) /\ AskedFor(frame, c)
    BY <2>1, <2>2, SensorsKnown, AnswerAsked
  <2> DEFINE t == Handle(s, channel, frame)
  <2>7. t.motors = [s.motors EXCEPT ![device] = n] /\ t.answers = s.answers \o sent
    BY <1>2 DEF Handle, device, m, n
  <2> HIDE DEF t
  <2>8. CASE device # d
    <3>1. ASSUME NEW answer \in Answer(device, n, frame) PROVE d \notin Heard(channel, answer)
      <4>1. Made(answer, AddressOf(device), 8)
        BY <2>1, <2>2, <2>4, <2>6, AnswerTrue
      <4>3. \A e \in Heard(channel, answer) : e = device
        BY <2>1, <4>1, OwnAnswer
      <4>4. device # d
        BY <2>8
      <4> QED
        BY <4>3, <4>4
    <3>2. \A V : IsSeq(sent) /\ TellsIn(channel, sent, d, V)
      BY <3>1, SentTells
    <3> HIDE DEF sent
    <3>3. t.motors[d] = s.motors[d]
      BY <2>3, <2>7, <2>8
    <3>4. \A V : TellsIn(channel, s.answers, d, V) => TellsIn(channel, t.answers, d, V)
      BY <2>3, <2>7, <3>2, JoinedTells
    <3>5. /\ s.motors[d].words["can_timeout"] \in {<<w>>, <<v>>}
          /\ TellsIn(channel, s.answers, d, {w, v})
          /\ s.motors[d].words["can_timeout"] = <<w>> => TellsIn(channel, s.answers, d, {w})
      BY DEF Turning
    <3>6. /\ TellsIn(channel, t.answers, d, {w, v})
          /\ TellsIn(channel, s.answers, d, {w}) => TellsIn(channel, t.answers, d, {w})
      BY <3>4, <3>5
    <3> QED
      BY <1>0, <3>3, <3>5, <3>6 DEF Turning, t
  <2>9. CASE device = d
    <3>1. PICK u \in {w, v} : n.words["can_timeout"] = <<u>>
      BY <2>0, <2>5, <2>9 DEF Turning, m
    <3>2. IsWord(u)
      OBVIOUS
    <3>3. \A answer \in Answer(device, n, frame) : TellsFrame(answer, device, {u})
      BY <2>1, <2>2, <2>4, <2>6, <3>1, <3>2, AnswerTells
    <3>4. IsSeq(sent) /\ TellsIn(channel, sent, d, {u})
      BY <2>9, <3>3, SentTells
    <3> HIDE DEF sent
    <3>5. t.motors[d].words["can_timeout"] = <<u>>
      BY <2>3, <2>7, <2>9, <3>1
    <3>6. TellsIn(channel, sent, d, {w, v})
      <4>1. {u} \subseteq {w, v}
        OBVIOUS
      <4> QED
        BY <3>4, <4>1, WiderTells
    <3>7. TellsIn(channel, t.answers, d, {w, v})
      BY <2>3, <2>7, <3>4, <3>6, JoinedTells DEF Turning
    <3>8. ASSUME <<u>> = <<w>> PROVE TellsIn(channel, t.answers, d, {w})
      <4>1. u = w
        BY <3>8
      <4>2. m.words["can_timeout"] = <<w>>
        <5>1. m.words["can_timeout"] = <<w>> \/ m.words["can_timeout"] = <<v>>
          BY <2>9 DEF Turning, m
        <5>2. <<u>> = m.words["can_timeout"] \/ <<u>> = <<v>>
          BY <2>0, <2>5, <2>9, <3>1
        <5> QED
          BY <3>8, <5>1, <5>2
      <4>3. TellsIn(channel, s.answers, d, {w})
        BY <2>9, <4>2 DEF Turning, m
      <4> QED
        BY <2>3, <2>7, <3>4, <4>1, <4>3, JoinedTells
    <3>9. <<u>> \in {<<w>>, <<v>>}
      OBVIOUS
    <3> QED
      BY <1>0, <3>5, <3>7, <3>8, <3>9 DEF Turning, t
  <2> QED
    BY <2>8, <2>9
<1> QED
  BY <1>1, <1>2

\* So does a whole datagram.
LEMMA HandledTurns ==
  ASSUME TopologyInv, phase = "bound", GivenTypes, MotorsUnderstand(motors), MotorsKeep(motors),
         NEW channel, NEW packet, CommandPacket(channel, packet), NEW d \in Device,
         NEW w, NEW v, IsWord(w), IsWord(v), SetsIn(channel, packet, d, {v}),
         motors[d].words["can_timeout"] = <<w>>
  PROVE  Turning(channel, d, Handled(channel, packet), w, v)
<1> DEFINE n == Len(packet)
<1>1. IsSeq(packet) /\ n \in Nat /\ \A i \in 1..n : Commanded(channel, packet[i])
  BY SeqIsFunction DEF CommandPacket
<1>2. PICK f : Handled(channel, packet) = f[n] /\ HandlesStepwise(f, n, channel, packet)
  BY <1>1, HandledSteps
<1> DEFINE G == {i \in 0..n : Turning(channel, d, f[i], w, v)}
<1>3. 0 \in G
  <2>1. <<>> \in Seq({}) /\ Len(<<>>) = 0
    OBVIOUS
  <2>2. f[0] = [motors |-> motors, answers |-> <<>>]
    BY <1>2 DEF HandlesStepwise
  <2>3. AnsweredState(channel, f[0])
    BY <2>1, <2>2 DEF AnsweredState, HandledState, TruePacket, IsSeq
  <2>4. \A V : TellsIn(channel, <<>>, d, V)
    BY <2>1 DEF TellsIn
  <2>5. f[0].motors[d].words["can_timeout"] = <<w>> /\ f[0].answers = <<>>
    BY <2>2
  <2>6. Turning(channel, d, f[0], w, v)
    BY <2>3, <2>4, <2>5 DEF Turning
  <2> QED
    BY <1>1, <2>6
<1>4. ASSUME NEW i \in 1..n, i - 1 \in G PROVE i \in G
  <2>1. Turning(channel, d, f[i - 1], w, v) /\ f[i] = Handle(f[i - 1], channel, packet[i])
    BY <1>2, <1>4 DEF HandlesStepwise
  <2>2. Commanded(channel, packet[i])
    BY <1>1
  <2>3. d \in Reached(channel, packet[i]) => SetsTo(packet[i], v)
    BY DEF SetsIn, SetsTo
  <2>4. Turning(channel, d, f[i], w, v)
    BY <2>1, <2>2, <2>3, HandleTurns
  <2> QED
    BY <1>1, <2>4
<1>5. n \in G
  <2>1. G \in SUBSET (0..n)
    OBVIOUS
  <2> HIDE DEF G
  <2> QED
    BY <1>1, <1>3, <1>4, <2>1, UpTo
<1> QED
  BY <1>2, <1>5

\* A gateway's own frames tell no timeout.
LEMMA NoiseTells ==
  ASSUME TopologyInv, phase = "bound", NEW channel, NEW noise \in NoiseHere, NEW d, NEW V
  PROVE  TellsIn(channel, noise, d, V)
<1>1. CASE noise = <<>>
  <2>1. Len(<<>>) = 0
    OBVIOUS
  <2> QED
    BY <1>1, <2>1 DEF TellsIn
<1>2. CASE config \in DOMAIN Noise /\ noise \in Noise[config]
  <2>1. ASSUME NEW i \in 1..Len(noise), FrameValid(noise[i]), d \in Heard(channel, noise[i]),
               NEW feedback \in ParseFeedback(noise[i], CurrentRange(d))
        PROVE  KnownIn(Updates(feedback), V)
    <3>1. /\ d \in Device /\ noise[i].id # BROADCAST_CAN_ID
          /\ noise[i].port = config.motors[d].port /\ noise[i].id = config.motors[d].id
      BY <2>1 DEF Heard
    <3>2. config.motors[d].model \in KnownModel
      BY <3>1 DEF TopologyInv, BindingsAgree, BindingAgrees, PhaseTells, Device, Index
    <3>3. feedback \in ParseFeedback(noise[i], RangeOf(config.motors[d].model))
      BY <2>1 DEF CurrentRange
    <3>4. i \in Index(noise) /\ d \in Index(config.motors)
      BY <2>1, <3>1 DEF Index, Device
    <3>5. feedback.type = "config_ack"
      BY <1>2, <2>1, <3>1, <3>2, <3>3, <3>4, NoiseSaysNothing
    <3>6. Updates(feedback) = <<>> /\ DOMAIN <<>> = {}
      BY <3>5 DEF Updates
    <3> QED
      BY <3>6 DEF KnownIn
  <2> QED
    BY <2>1 DEF TellsIn, TellsFrame
<1> QED
  BY <1>1, <1>2 DEF NoiseHere

\* Samples updated within a set stay within it.
LEMMA UpdatedKnows ==
  ASSUME NEW V, NEW known, NEW update, KnownIn(known, V), KnownIn(update, V)
  PROVE  KnownIn(Updated(known, update), V)
  BY DEF KnownIn, Updated

\* A frame handed to its device leaves the sample within what it tells.
LEMMA HandleFrameKnows ==
  ASSUME TopologyInv, phase = "bound", NEW d \in Device, NEW V, NEW known, KnownIn(known[d], V),
         NEW channel, NEW frame,
         d \in Heard(channel, frame) => TellsFrame(frame, d, V)
  PROVE  KnownIn(HandleFrame(known, channel, frame)[d], V)
<1> DEFINE parsed == ParseFeedback(frame, CurrentRange(d))
           after == HandleFrame(known, channel, frame)
<1>1. CASE d \notin Routed(channel, frame) \/ parsed = {}
  <2>1. after[d] = known[d]
    BY <1>1 DEF HandleFrame
  <2> QED
    BY <2>1
<1>2. CASE d \in Routed(channel, frame) /\ parsed # {}
  <2>1. after[d] = Updated(known[d], Updates(The(parsed)))
    BY <1>2 DEF HandleFrame
  <2>2. The(parsed) \in parsed
    BY <1>2 DEF The
  <2>3. KnownIn(Updates(The(parsed)), V)
    BY <1>2, <2>2, RoutedIsHeard DEF TellsFrame
  <2> HIDE DEF after, parsed
  <2>4. KnownIn(after[d], V)
    BY <2>1, <2>3, UpdatedKnows
  <2> QED
    BY <2>4 DEF after
<1> QED
  BY <1>1, <1>2

\* So does a whole datagram.
LEMMA SamplesAfterKnow ==
  ASSUME TopologyInv, phase = "bound", NEW d \in Device, NEW V, KnownIn(samples[d], V),
         NEW channel, NEW packet, Len(packet) \in Nat,
         \A i \in 1..Len(packet) : FrameValid(packet[i]), TellsIn(channel, packet, d, V)
  PROVE  KnownIn(SamplesAfter(channel, packet)[d], V)
<1> DEFINE n == Len(packet)
<1>1. PICK f : SamplesAfter(channel, packet) = f[n] /\ SamplesStepwise(f, n, channel, packet)
  BY SamplesSteps
<1> DEFINE G == {i \in 0..n : KnownIn(f[i][d], V)}
<1>2. 0 \in G
  BY <1>1 DEF SamplesStepwise
<1>3. ASSUME NEW i \in 1..n, i - 1 \in G PROVE i \in G
  <2>1. KnownIn(f[i - 1][d], V) /\ f[i] = HandleFrame(f[i - 1], channel, packet[i])
    BY <1>1, <1>3 DEF SamplesStepwise
  <2>2. d \in Heard(channel, packet[i]) => TellsFrame(packet[i], d, V)
    BY DEF TellsIn
  <2>3. KnownIn(f[i][d], V)
    BY <2>1, <2>2, HandleFrameKnows
  <2> QED
    BY <2>3
<1>4. n \in G
  <2>1. G \in SUBSET (0..n)
    OBVIOUS
  <2> HIDE DEF G
  <2> QED
    BY <1>2, <1>3, <2>1, UpTo
<1> QED
  BY <1>1, <1>4

\* Where the timeout of a device's motor is on its way from old to new.
FlowAt(channel, d, old, new) ==
    Flows(channel, d, old, new, toHost[channel], toGateway[channel],
          motors[d].words["can_timeout"], samples[d])

Flow(d, old, new) ==
    /\ motors[d].words["can_timeout"] \in {<<old>>, <<new>>}
    /\ KnownIn(samples[d], {old, new})
    /\ config.motors[d].channel \in ChannelNames => FlowAt(config.motors[d].channel, d, old, new)

\* The same of what a step leaves.
Moved(channel, d, old, new, answers, commands, word, known) ==
    /\ word \in {<<old>>, <<new>>} /\ KnownIn(known, {old, new})
    /\ channel \in ChannelNames => Flows(channel, d, old, new, answers, commands, word, known)

\* While the configuration stays, so does what frames set and tell.
LEMMA FlowsStay ==
  ASSUME config' = config, NEW channel, NEW d, NEW old, NEW new,
         NEW answers, NEW commands, NEW word, NEW known,
         Flows(channel, d, old, new, answers, commands, word, known)
  PROVE  Flows(channel, d, old, new, answers, commands, word, known)'
<1>1. Device' = Device /\ (CurrentRange(d))' = CurrentRange(d)
  BY DEF Device, CurrentRange
<1>2. ASSUME NEW frame
      PROVE  /\ Reached(channel, frame)' = Reached(channel, frame)
             /\ Heard(channel, frame)' = Heard(channel, frame)
  <2>1. \A e : AddressOf(e)' = AddressOf(e)
    BY DEF AddressOf
  <2> QED
    BY <1>1, <2>1 DEF Reached, Heard
<1>3. ASSUME NEW packet, NEW V, SetsIn(channel, packet, d, V)
      PROVE  SetsIn(channel, packet, d, V)'
  BY <1>2, <1>3 DEF SetsIn
<1>4. ASSUME NEW frame, NEW V, TellsFrame(frame, d, V)
      PROVE  TellsFrame(frame, d, V)'
  BY <1>1, <1>4 DEF TellsFrame
<1>5. ASSUME NEW packet, NEW V, TellsIn(channel, packet, d, V)
      PROVE  TellsIn(channel, packet, d, V)'
  BY <1>2, <1>4, <1>5 DEF TellsIn
<1> QED
  BY <1>3, <1>5 DEF Flows

\* A step moves the timeouts of a device when it moves those of its channel.
LEMMA FlowMoves ==
  ASSUME config' = config, NEW d \in Device, NEW old, NEW new,
         NEW channel, channel = config.motors[d].channel,
         Moved(channel, d, old, new, toHost'[channel], toGateway'[channel],
               motors'[d].words["can_timeout"], samples'[d])
  PROVE  Flow(d, old, new)'
<1>1. ChannelNames' = ChannelNames /\ (config.motors[d].channel)' = channel
  BY DEF ChannelNames
<1>2. CASE channel \notin ChannelNames
  BY <1>1, <1>2 DEF Flow, KnownIn, Moved
<1>3. ASSUME channel \in ChannelNames,
             NEW answers, NEW commands, NEW word, NEW known,
             answers = toHost'[channel], commands = toGateway'[channel],
             word = motors'[d].words["can_timeout"], known = samples'[d]
      PROVE  Flow(d, old, new)'
  <2>1. Flows(channel, d, old, new, answers, commands, word, known)
    BY <1>3 DEF Moved
  <2>2. Flows(channel, d, old, new, answers, commands, word, known)'
    BY <2>1, FlowsStay
  <2>3. FlowAt(channel, d, old, new)'
    BY <1>3, <2>2 DEF FlowAt
  <2>4. KnownIn(samples[d], {old, new})'
    BY DEF KnownIn, Moved
  <2> QED
    BY <1>1, <2>3, <2>4 DEF Flow, Moved
<1> QED
  BY <1>2, <1>3

\* What no step touches stays on its way.
LEMMA FlowStays ==
  ASSUME NEW d \in Device, NEW old, NEW new, Flow(d, old, new),
         UNCHANGED <<config, toHost, toGateway, motors, samples>>
  PROVE  Flow(d, old, new)'
<1> DEFINE channel == config.motors[d].channel
<1>1. channel \in ChannelNames =>
         Flows(channel, d, old, new, toHost'[channel], toGateway'[channel],
               motors'[d].words["can_timeout"], samples'[d])
  BY DEF Flow, FlowAt
<1>2. motors'[d].words["can_timeout"] \in {<<old>>, <<new>>} /\ KnownIn(samples'[d], {old, new})
  BY DEF Flow
<1> HIDE DEF channel
<1>3. channel = config.motors[d].channel /\ config' = config
  BY DEF channel
<1>4. Moved(channel, d, old, new, toHost'[channel], toGateway'[channel],
            motors'[d].words["can_timeout"], samples'[d])
  BY <1>1, <1>2 DEF Moved
<1> QED
  BY <1>3, <1>4, FlowMoves

\* A lost command changes no order.
LEMMA LoseCommandFlows ==
  ASSUME LinkInv, NEW d \in Device, NEW old, NEW new, Flow(d, old, new),
         NEW channel \in ChannelNames, LoseCommand(channel)
  PROVE  Flow(d, old, new)'
<1>1. /\ UNCHANGED <<config, toHost, motors, samples>> /\ toGateway[channel] # <<>>
      /\ toGateway' = [toGateway EXCEPT ![channel] = Tail(@)]
  BY DEF LoseCommand, topology
<1>2. PICK own : own = config.motors[d].channel
  OBVIOUS
<1>3. motors'[d].words["can_timeout"] \in {<<old>>, <<new>>} /\ KnownIn(samples'[d], {old, new})
  BY <1>1 DEF Flow
<1>4. ASSUME own \in ChannelNames
      PROVE  Flows(own, d, old, new, toHost'[own], toGateway'[own],
                   motors'[d].words["can_timeout"], samples'[d])
  <2>1. Flows(own, d, old, new, toHost[own], toGateway[own],
              motors[d].words["can_timeout"], samples[d])
    BY <1>2, <1>4 DEF Flow, FlowAt
  <2>2. CASE own # channel
    <3>1. toGateway'[own] = toGateway[own]
      BY <1>1, <1>4, <2>2 DEF LinkInv, CommandWires
    <3> QED
      BY <1>1, <2>1, <3>1
  <2>3. CASE own = channel
    <3>1. toGateway'[own] = Tail(toGateway[own]) /\ toGateway[own] # <<>> /\ IsSeq(toGateway[own])
      BY <1>1, <1>4, <2>3 DEF LinkInv, CommandWires
    <3>2. Flows(own, d, old, new, toHost[own], Tail(toGateway[own]),
                motors[d].words["can_timeout"], samples[d])
      BY <2>1, <3>1, FlowLosesCommand
    <3> QED
      BY <1>1, <3>1, <3>2
  <2> QED
    BY <2>2, <2>3
<1>5. Moved(own, d, old, new, toHost'[own], toGateway'[own],
            motors'[d].words["can_timeout"], samples'[d])
  BY <1>3, <1>4 DEF Moved
<1> QED
  BY <1>1, <1>2, <1>5, FlowMoves

\* Neither does a lost answer.
LEMMA LoseAnswerFlows ==
  ASSUME LinkInv, NEW d \in Device, NEW old, NEW new, Flow(d, old, new),
         NEW channel \in ChannelNames, LoseAnswer(channel)
  PROVE  Flow(d, old, new)'
<1>1. /\ UNCHANGED <<config, toGateway, motors, samples>> /\ toHost[channel] # <<>>
      /\ toHost' = [toHost EXCEPT ![channel] = Tail(@)]
  BY DEF LoseAnswer, topology
<1>2. PICK own : own = config.motors[d].channel
  OBVIOUS
<1>3. motors'[d].words["can_timeout"] \in {<<old>>, <<new>>} /\ KnownIn(samples'[d], {old, new})
  BY <1>1 DEF Flow
<1>4. ASSUME own \in ChannelNames
      PROVE  Flows(own, d, old, new, toHost'[own], toGateway'[own],
                   motors'[d].words["can_timeout"], samples'[d])
  <2>1. Flows(own, d, old, new, toHost[own], toGateway[own],
              motors[d].words["can_timeout"], samples[d])
    BY <1>2, <1>4 DEF Flow, FlowAt
  <2>2. CASE own # channel
    <3>1. toHost'[own] = toHost[own]
      BY <1>1, <1>4, <2>2 DEF LinkInv, AnswerWires
    <3> QED
      BY <1>1, <2>1, <3>1
  <2>3. CASE own = channel
    <3>1. toHost'[own] = Tail(toHost[own]) /\ toHost[own] # <<>> /\ IsSeq(toHost[own])
      BY <1>1, <1>4, <2>3 DEF LinkInv, AnswerWires
    <3>2. Flows(own, d, old, new, Tail(toHost[own]), toGateway[own],
                motors[d].words["can_timeout"], samples[d])
      BY <2>1, <3>1, FlowLosesAnswer
    <3> QED
      BY <1>1, <3>1, <3>2
  <2> QED
    BY <2>2, <2>3
<1>5. Moved(own, d, old, new, toHost'[own], toGateway'[own],
            motors'[d].words["can_timeout"], samples'[d])
  BY <1>3, <1>4 DEF Moved
<1> QED
  BY <1>1, <1>2, <1>5, FlowMoves

\* A sample that says no more leaves the order as it was.
LEMMA FlowKnows ==
  ASSUME NEW channel, NEW d, NEW old, NEW new, NEW answers, NEW commands, NEW word, NEW known,
         Flows(channel, d, old, new, answers, commands, word, known),
         NEW after, \A V : KnownIn(known, V) => KnownIn(after, V)
  PROVE  Flows(channel, d, old, new, answers, commands, word, after)
  BY DEF Flows

\* What is decoded of a datagram tells no more than the datagram.
LEMMA SamplesTold ==
  ASSUME TopologyInv, phase = "bound", NEW d \in Device, NEW channel, NEW packet, IsSeq(packet),
         NEW V, KnownIn(samples[d], V), TellsIn(channel, packet, d, V)
  PROVE  KnownIn(SamplesAfter(channel, Decoded(packet))[d], V)
<1> DEFINE frames == Decoded(packet)
<1>1. /\ Len(frames) \in Nat
      /\ \A i \in 1..Len(frames) :
            FrameValid(frames[i]) /\ i \in 1..Len(packet) /\ frames[i] = packet[i]
  BY DecodedIsSeq
<1> HIDE DEF frames
<1>2. TellsIn(channel, frames, d, V)
  BY <1>1 DEF TellsIn
<1>3. KnownIn(SamplesAfter(channel, frames)[d], V)
  BY <1>1, <1>2, SamplesAfterKnow
<1> QED
  BY <1>3 DEF frames

\* A datagram received keeps the order, for its own devices and the others.
LEMMA HostReceivesFlows ==
  ASSUME LinkInv, NEW d \in Device, NEW old, NEW new, Flow(d, old, new),
         NEW channel \in ChannelNames, HostReceives(channel)
  PROVE  Flow(d, old, new)'
<1> DEFINE packet == Head(toHost[channel])
           known == samples[d]
           after == samples'[d]
<1>1. /\ UNCHANGED <<config, toGateway, motors>> /\ toHost[channel] # <<>>
      /\ toHost' = [toHost EXCEPT ![channel] = Tail(@)]
      /\ samples' = SamplesAfter(channel, Decoded(packet))
      /\ phase = "bound" /\ TopologyInv
  BY DEF HostReceives, topology, LinkInv
<1>2. /\ IsSeq(packet) /\ 1 \in 1..Len(toHost[channel]) /\ packet = toHost[channel][1]
      /\ IsSeq(toHost[channel])
  <2>1. /\ IsSeq(toHost[channel])
        /\ \A k \in 1..Len(toHost[channel]) : IsSeq(toHost[channel][k])
    BY DEF LinkInv, AnswerWires
  <2>2. 1 \in 1..Len(toHost[channel]) /\ packet = toHost[channel][1]
    BY <1>1, <2>1, TailShifts
  <2> QED
    BY <2>1, <2>2
<1>3. \A V : KnownIn(known, V) /\ TellsIn(channel, packet, d, V) => KnownIn(after, V)
  <2> HIDE DEF packet
  <2> QED
    BY <1>1, <1>2, SamplesTold
<1>4. PICK own : own = config.motors[d].channel
  OBVIOUS
<1> HIDE DEF packet, known, after
<1>5. Moved(own, d, old, new, toHost[own], toGateway[own], motors[d].words["can_timeout"], known)
  BY <1>4 DEF Flow, FlowAt, Moved, known
<1>6. CASE own # channel
  <2>1. \A V : TellsIn(channel, packet, d, V)
    BY <1>4, <1>6 DEF TellsIn, Heard
  <2>2. \A V : KnownIn(known, V) => KnownIn(after, V)
    BY <1>3, <2>1
  <2>3. own \in ChannelNames => toHost'[own] = toHost[own]
    BY <1>1, <1>6 DEF LinkInv, AnswerWires
  <2>4. own \in ChannelNames =>
           Flows(own, d, old, new, toHost[own], toGateway[own],
                 motors[d].words["can_timeout"], after)
    BY <1>5, <2>2, FlowKnows DEF Moved
  <2> QED
    <3>1. Moved(own, d, old, new, toHost'[own], toGateway'[own],
                motors'[d].words["can_timeout"], after)
      BY <1>1, <1>5, <2>2, <2>3, <2>4 DEF Moved
    <3> QED
      BY <1>1, <1>4, <3>1, FlowMoves DEF after
<1>7. CASE own = channel
  <2>1. Flows(own, d, old, new, toHost[own], toGateway[own],
              motors[d].words["can_timeout"], known)
    BY <1>5, <1>7 DEF Moved
  <2>2. KnownIn(known, {old, new}) /\ TellsIn(own, packet, d, {old, new})
    BY <1>2, <1>7, <2>1 DEF Flows
  <2>3. /\ KnownIn(after, {old, new})
        /\ KnownIn(known, {old}) /\ TellsIn(own, packet, d, {old}) => KnownIn(after, {old})
    BY <1>3, <1>7, <2>2
  <2>4. /\ toHost[own] # <<>> /\ IsSeq(toHost[own]) /\ packet = Head(toHost[own])
        /\ toHost'[own] = Tail(toHost[own])
    BY <1>1, <1>2, <1>7 DEF LinkInv, AnswerWires, packet
  <2>5. Flows(own, d, old, new, Tail(toHost[own]), toGateway[own],
              motors[d].words["can_timeout"], after)
    BY <2>1, <2>3, <2>4, FlowArrives
  <2>6. Moved(own, d, old, new, toHost'[own], toGateway'[own],
              motors'[d].words["can_timeout"], after)
    BY <1>1, <1>5, <2>3, <2>4, <2>5 DEF Moved
  <2> QED
    BY <1>1, <1>4, <2>6, FlowMoves DEF after
<1> QED
  BY <1>6, <1>7

\* So does a datagram handled.
LEMMA GatewayHandlesFlows ==
  ASSUME LinkInv, Truth, NEW d \in Device, NEW old, NEW new, IsWord(old), IsWord(new),
         Flow(d, old, new), NEW channel \in ChannelNames, GatewayHandles(channel)
  PROVE  Flow(d, old, new)'
<1> DEFINE packet == Head(toGateway[channel])
           done == Handled(channel, packet)
           word == motors[d].words["can_timeout"]
           after == done.motors[d].words["can_timeout"]
<1>1. /\ UNCHANGED <<config, samples, given>> /\ phase = "bound"
      /\ toGateway[channel] # <<>> /\ toGateway' = [toGateway EXCEPT ![channel] = Tail(@)]
      /\ motors' = done.motors
  BY DEF GatewayHandles, topology
<1>2. PICK noise \in NoiseHere : toHost' = [toHost EXCEPT ![channel] =
         IF done.answers = <<>> THEN @ ELSE Append(@, noise \o done.answers)]
  BY DEF GatewayHandles
<1> DEFINE answer == noise \o done.answers
<1>3. CommandPacket(channel, packet)
  BY <1>1, CommandLeaves
<1>4. /\ TopologyInv /\ GivenTypes /\ MotorsUnderstand(motors) /\ MotorsKeep(motors)
  BY DEF LinkInv, Truth
<1> HIDE DEF packet
<1>5. ASSUME NEW w \in {old, new}, NEW v \in {old, new}
      PROVE  Turns(channel, d, packet, word, after, answer, w, v)
  <2> SUFFICES ASSUME word = <<w>>, SetsIn(channel, packet, d, {v})
               PROVE  /\ after \in {<<w>>, <<v>>}
                      /\ TellsIn(channel, answer, d, {w, v})
                      /\ after = <<w>> => TellsIn(channel, answer, d, {w})
    BY DEF Turns
  <2>1. IsWord(w) /\ IsWord(v)
    OBVIOUS
  <2>2. Turning(channel, d, done, w, v)
    BY <1>1, <1>3, <1>4, <2>1, HandledTurns
  <2>3. IsSeq(noise) /\ \A V : TellsIn(channel, noise, d, V)
    BY <1>1, <1>4, NoiseTells, NoiseTrue
  <2> HIDE DEF done
  <2>4. /\ IsSeq(done.answers) /\ after \in {<<w>>, <<v>>}
        /\ TellsIn(channel, done.answers, d, {w, v})
        /\ after = <<w>> => TellsIn(channel, done.answers, d, {w})
    BY <2>2 DEF Turning, AnsweredState, HandledState
  <2>5. \A V : TellsIn(channel, done.answers, d, V) => TellsIn(channel, answer, d, V)
    BY <2>3, <2>4, JoinedTells
  <2> QED
    BY <2>4, <2>5
<1>6. PICK own : own = config.motors[d].channel
  OBVIOUS
<1>7. Moved(own, d, old, new, toHost[own], toGateway[own], word, samples[d])
  BY <1>6 DEF Flow, FlowAt, Moved
<1>8. motors'[d].words["can_timeout"] = after /\ samples'[d] = samples[d]
  BY <1>1
<1>9. /\ own \in ChannelNames /\ own # channel =>
            toHost'[own] = toHost[own] /\ toGateway'[own] = toGateway[own]
      /\ toGateway'[channel] = Tail(toGateway[channel])
      /\ \/ toHost'[channel] = toHost[channel]
         \/ toHost'[channel] = Append(toHost[channel], answer)
  BY <1>1, <1>2 DEF LinkInv, AnswerWires, CommandWires
<1> HIDE DEF done, word, after, answer
<1>10. CASE own # channel
  <2>1. \A V : SetsIn(channel, packet, d, V)
    BY <1>6, <1>10 DEF SetsIn, Reached
  <2>2. PICK w \in {old, new} : word = <<w>>
    BY <1>7 DEF Moved
  <2>3. Turns(channel, d, packet, word, after, answer, w, w)
    BY <1>5
  <2>4. after = word
    BY <2>1, <2>2, <2>3 DEF Turns
  <2>5. Moved(own, d, old, new, toHost'[own], toGateway'[own], after, samples[d])
    BY <1>7, <1>9, <1>10, <2>4 DEF Moved
  <2> QED
    BY <1>1, <1>6, <1>8, <2>5, FlowMoves
<1>11. CASE own = channel
  <2>1. Flows(own, d, old, new, toHost[own], toGateway[own], word, samples[d])
    BY <1>7, <1>11 DEF Moved
  <2>2. TurnsBetween(own, d, Head(toGateway[own]), word, after, answer, old, new)
    BY <1>5, <1>11 DEF TurnsBetween, packet
  <2>3. IsSeq(toHost[own]) /\ IsSeq(toGateway[own]) /\ toGateway[own] # <<>>
    BY <1>1, <1>11 DEF LinkInv, AnswerWires, CommandWires
  <2>4. /\ Flows(own, d, old, new, toHost[own], Tail(toGateway[own]), after, samples[d])
        /\ Flows(own, d, old, new, Append(toHost[own], answer), Tail(toGateway[own]), after,
                 samples[d])
    BY <2>1, <2>2, <2>3, FlowHandles
  <2>5. Flows(own, d, old, new, toHost'[own], toGateway'[own], after, samples[d])
    BY <1>9, <1>11, <2>4
  <2>6. after \in {<<old>>, <<new>>} /\ KnownIn(samples[d], {old, new})
    BY <2>5 DEF Flows
  <2>7. Moved(own, d, old, new, toHost'[own], toGateway'[own], after, samples[d])
    BY <2>5, <2>6 DEF Moved
  <2> QED
    BY <1>1, <1>6, <1>8, <2>7, FlowMoves
<1> QED
  BY <1>10, <1>11

\* A timeout is one word of whole milliseconds.
LEMMA TimeoutForm ==
  LET forms == FormsOf("can_timeout")
  IN  Len(forms) = 1 /\ forms[1] = U16(1000)
<1> DEFINE forms == FormsOf("can_timeout")
<1>1. "can_timeout" \in Asked
  BY DEF Asked
<1>2. FormsFit("can_timeout", forms) /\ Len(forms) = 1
  BY <1>1, AskedForms, LengthsOfCodes DEF Uniform
<1>3. /\ QueryDivisors["can_timeout"][1] = 1000 /\ "can_timeout" \notin SignedQueries
  BY DEF QueryDivisors, SignedQueries
<1> HIDE DEF forms
<1>4. forms[1] = U16(1000)
  BY <1>2, <1>3 DEF FormsFit
<1> QED
  BY <1>2, <1>4 DEF forms

\* The command to set a timeout carries that timeout.
LEMMA TimeoutSet ==
  ASSUME NEW address \in Address, NEW value, IsWord(value),
         NEW frame \in Encode(address, SetTimeout(value))
  PROVE  SetsTo(frame, value)
<1> DEFINE c == SetTimeout(value)
           forms == FormsOf("can_timeout")
           words == ConfigValue(frame)
<1>1. c \in ConfigCommand /\ c.type = "config" /\ c.code = "can_timeout" /\ c.values[1] = value
  <2>1. <<value>> \in [1..1 -> Int] /\ <<value>> \in [1..1 -> Number] /\ "can_timeout" \in DOMAIN SetCode
    BY DEF SetCode, Number, IsWord
  <2> QED
    BY <2>1 DEF SetTimeout, ConfigCommand
<1> HIDE DEF c
<1>2. frame \in MakeConfig(address, c) /\ c.code \in Asked
  BY <1>1 DEF Encode, Asked, c
<1>3. Len(forms) = 1 /\ forms[1] = U16(1000)
  BY TimeoutForm
<1>4. /\ words \in Seq(Nat) /\ Len(words) = Len(forms)
      /\ \A i \in 1..Len(words) :
            /\ IsWord(words[i])
            /\ Near(Meant(words[i], forms[i]), c.values[i], 500 \div forms[i].scale)
  BY <1>1, <1>2, ConfigWordsSet
<1> HIDE DEF forms, words
<1>5. 1 \in 1..Len(words) /\ forms[1].scale = 1000 /\ forms[1].min = 0
  BY <1>3, <1>4 DEF U16
<1> DEFINE word == words[1]
<1>6. IsWord(word) /\ Near(Meant(word, forms[1]), value, 500 \div 1000)
  BY <1>1, <1>4, <1>5
<1>7. words = <<word>>
  BY <1>3, <1>4
<1> HIDE DEF word
<1>8. Meant(word, forms[1]) = word
  <2>1. Meant(word, forms[1]) = Rounded(1000 * word, 1000)
    BY <1>5 DEF Meant
  <2>2. Rounded(1000 * word, 1000) = word
    BY <1>6 DEF Rounded, IsWord
  <2> QED
    BY <2>1, <2>2
<1>9. Near(word, value, 0)
  BY <1>6, <1>8
<1>10. word = value
  BY <1>6, <1>9 DEF Near, IsWord
<1> QED
  BY <1>7, <1>10 DEF SetsTo, words

\* A motor has an address.
LEMMA AddressIsAddress ==
  ASSUME TopologyInv, NEW d \in Device
  PROVE  AddressOf(d) \in Address
  BY ConfigsAreRecords DEF AddressOf, Address, Device, Index, TopologyInv, TopologyTypes

\* A frame made for a motor of a channel reaches no other motor of it.
LEMMA OwnFrame ==
  ASSUME TopologyInv, phase = "bound", NEW channel, NEW e \in Device,
         config.motors[e].channel = channel, AddressOf(e) \in Address,
         NEW c, Command(c), NEW frame \in Encode(AddressOf(e), c), NEW d \in Reached(channel, frame)
  PROVE  e = d
<1>1. frame.port = AddressOf(e).port /\ frame.id = AddressOf(e).id
  <2> DEFINE m == [target |-> NoTarget, released |-> FALSE, words |-> Factory]
  <2>1. IsMotor(m)
    BY FactoryIsWords DEF IsMotor
  <2> HIDE DEF m
  <2>2. \E len \in Nat : Made(frame, AddressOf(e), len)
    BY <2>1, Obeyed
  <2> QED
    BY <2>2 DEF Made
<1>2. d \in Device /\ config.motors[d].channel = channel
      /\ config.motors[d].port = frame.port /\ config.motors[d].id = frame.id
  BY DEF Reached, AddressOf
<1>3. SameAddress(config.motors[e], config.motors[d])
  BY <1>1, <1>2 DEF SameAddress, AddressOf
<1> QED
  BY <1>2, <1>3, ValidChannels DEF TopologyInv, TopologyTypes, PhaseTells, Device

\* A datagram sets a device's timeout only to what a command for that device says.
LEMMA BatchSets ==
  ASSUME TopologyInv, phase = "bound", NEW batch, DOMAIN batch \subseteq Device,
         \A e \in DOMAIN batch : Command(batch[e]),
         NEW d \in Device, NEW value, IsWord(value),
         d \in DOMAIN batch => batch[d].type # "config" \/ batch[d] = SetTimeout(value),
         NEW channel
  PROVE  /\ IsSeq(PacketFor(batch, channel))
         /\ SetsIn(channel, PacketFor(batch, channel), d, {value})
<1> DEFINE packet == PacketFor(batch, channel)
<1>1. Len(config.motors) \in Nat
  BY ConfigsAreRecords DEF TopologyInv, TopologyTypes
<1>2. /\ IsSeq(packet)
      /\ \A i \in 1..Len(packet) : \E e \in Addressed(batch, channel) :
            packet[i] \in FrameFor(e, batch[e])
  BY <1>1, PacketFrames
<1>3. ASSUME NEW e \in Addressed(batch, channel), NEW frame \in FrameFor(e, batch[e]),
             d \in Reached(channel, frame), Field(frame, Mode) = 6
      PROVE  SetsTo(frame, value)
  <2>1. e \in Device /\ e \in DOMAIN batch /\ CommandChannel(e) = channel
    BY <1>3 DEF Addressed
  <2>2. CommandTarget(e) = e /\ CommandChannel(e) = config.motors[e].channel
    BY <2>1, InvRoutesAgree DEF RoutesAgree, Device
  <2>3. frame \in Encode(AddressOf(e), batch[e]) /\ Command(batch[e])
    BY <1>3, <2>1, <2>2 DEF FrameFor
  <2>4. AddressOf(e) \in Address
    BY <2>1, AddressIsAddress
  <2>5. e = d
    BY <1>3, <2>1, <2>2, <2>3, <2>4, OwnFrame
  <2>6. batch[e].type = "config"
    <3>1. \A k \in {0, 1, 2, 3, 4, 7} : k # 6
      OBVIOUS
    <3> QED
      BY <1>3, <2>3, <2>4, <3>1, ModeOfFrame
  <2>7. batch[e] = SetTimeout(value)
    BY <2>1, <2>5, <2>6
  <2> QED
    BY <2>3, <2>4, <2>7, TimeoutSet
<1> HIDE DEF packet
<1>4. SetsIn(channel, packet, d, {value})
  BY <1>2, <1>3 DEF SetsIn, SetsTo
<1> QED
  BY <1>2, <1>4 DEF packet

\* Sending moves a timeout only where it sets the new one.
LEMMA TransmitFlows ==
  ASSUME LinkInv, phase = "bound", UNCHANGED topology, NEW batch, DOMAIN batch \subseteq Device,
         \A e \in DOMAIN batch : Command(batch[e]), NEW busy, Transmit(batch, busy),
         NEW d \in Device, NEW old, NEW new, IsWord(new), Flow(d, old, new),
         d \in DOMAIN batch => batch[d].type # "config" \/ batch[d] = SetTimeout(new)
  PROVE  Flow(d, old, new)'
<1>1. /\ UNCHANGED <<config, toHost, motors, samples>> /\ TopologyInv
      /\ toGateway' = [channel \in ChannelNames |->
            IF channel \in busy \/ PacketFor(batch, channel) = <<>>
            THEN toGateway[channel] ELSE Append(toGateway[channel], PacketFor(batch, channel))]
  BY DEF topology, Transmit, LinkInv
<1>2. PICK own : own = config.motors[d].channel
  OBVIOUS
<1>3. Moved(own, d, old, new, toHost[own], toGateway[own], motors[d].words["can_timeout"], samples[d])
  BY <1>2 DEF Flow, FlowAt, Moved
<1> DEFINE packet == PacketFor(batch, own)
<1>4. SetsIn(own, packet, d, {new})
  BY <1>1, BatchSets
<1> HIDE DEF packet
<1>5. ASSUME own \in ChannelNames
      PROVE  Flows(own, d, old, new, toHost[own], toGateway'[own],
                   motors[d].words["can_timeout"], samples[d])
  <2>1. Flows(own, d, old, new, toHost[own], toGateway[own],
              motors[d].words["can_timeout"], samples[d])
    BY <1>3, <1>5 DEF Moved
  <2>2. IsSeq(toGateway[own])
    BY <1>5 DEF LinkInv, CommandWires
  <2>3. Flows(own, d, old, new, toHost[own], Append(toGateway[own], packet),
              motors[d].words["can_timeout"], samples[d])
    BY <1>4, <2>1, <2>2, FlowSends
  <2>4. toGateway'[own] = toGateway[own] \/ toGateway'[own] = Append(toGateway[own], packet)
    BY <1>1, <1>5 DEF packet
  <2> QED
    BY <2>1, <2>3, <2>4
<1>6. Moved(own, d, old, new, toHost'[own], toGateway'[own],
            motors'[d].words["can_timeout"], samples'[d])
  BY <1>1, <1>3, <1>5 DEF Moved
<1> QED
  BY <1>1, <1>2, <1>6, FlowMoves

\* The network and the motors keep the order of what is old and new.
LEMMA LinkNextFlows ==
  ASSUME LinkInv, Truth, config \in Probing, LinkNext,
         NEW d \in Device, NEW old, NEW new, IsWord(old), IsWord(new), Flow(d, old, new)
  PROVE  Flow(d, old, new)'
<1>1. CASE Next /\ UNCHANGED link
  <2>1. UNCHANGED <<config, motors, toGateway, toHost, samples>>
    BY <1>1 DEF link, Next, Validate, InitDrivers, InitThrows, DriversReady, BindMotor, BindEnds
  <2> QED
    BY <2>1, FlowStays
<1>2. CASE config \in DOMAIN Calling
  BY <1>2, ProbeIsAlone
<1>3. ASSUME NEW channel \in ChannelNames, NetworkStep(channel) PROVE Flow(d, old, new)'
  <2>1. CASE LoseCommand(channel)
    BY <2>1, LoseCommandFlows
  <2>2. CASE LoseAnswer(channel)
    BY <2>2, LoseAnswerFlows
  <2>3. CASE HostReceives(channel)
    BY <2>3, HostReceivesFlows
  <2>4. CASE GatewayHandles(channel)
    BY <2>4, GatewayHandlesFlows
  <2> QED
    BY <1>3, <2>1, <2>2, <2>3, <2>4 DEF NetworkStep
<1> QED
  BY <1>1, <1>2, <1>3 DEF LinkNext

\* The timeout every motor comes with.
Found == Factory["can_timeout"][1]

UnderProbe(d) == d = at /\ step \in {"verify", "restore", "restored"}

\* What the timeout of a device's motor is on its way from, and to.
From(d) == IF UnderProbe(d) /\ step # "verify" THEN Temporary ELSE Found
To(d) == IF UnderProbe(d) /\ step # "restored" THEN Temporary ELSE Found

\* While the probe has met no error, each timeout is where the probe believes
\* it to be, or on its way there.
TimeoutFlow ==
    config \in Probing /\ ok =>
        /\ step \in {"set", "verify", "restore", "restored"} => original = Found
        /\ \A d \in Device : \A old \in {From(d)}, new \in {To(d)} : Flow(d, old, new)

\* The factory timeout is one word.
LEMMA FoundIsWord == IsWord(Found) /\ Factory["can_timeout"] = <<Found>>
<1>1. "can_timeout" \in DOMAIN SetCode \cap DOMAIN QueryDivisors /\ Len(QueryDivisors["can_timeout"]) = 1
  BY DEF SetCode, QueryDivisors
<1>2. Factory["can_timeout"] \in Seq(Nat) /\ Len(Factory["can_timeout"]) = 1
  BY <1>1, FactoryIsWords
<1>3. 1 \in Index(Factory["can_timeout"])
  BY <1>2 DEF Index
<1>4. Found <= 65535
  BY <1>1, <1>3, FactoryIsWords DEF Found
<1> QED
  BY <1>2, <1>4 DEF Found, IsWord

\* The temporary timeout is another one.
LEMMA TemporaryDiffers ==
  ASSUME original = Found
  PROVE  IsWord(Temporary) /\ Temporary # Found
  BY FoundIsWord DEF Temporary, IsWord

\* What the invariant says of one device.
LEMMA WordsOfFlow ==
  ASSUME TimeoutFlow, config \in Probing, ok, NEW d \in Device
  PROVE  IsWord(From(d)) /\ IsWord(To(d)) /\ Flow(d, From(d), To(d))
<1>1. UnderProbe(d) => original = Found
  BY DEF TimeoutFlow, UnderProbe
<1>2. IsWord(From(d)) /\ IsWord(To(d))
  BY <1>1, FoundIsWord, TemporaryDiffers DEF From, To
<1> QED
  BY <1>2 DEF TimeoutFlow

\* A motor's channel is known once the drivers are bound.
LEMMA ChannelKnown ==
  ASSUME TopologyInv, phase = "bound", NEW d \in Device
  PROVE  config.motors[d].channel \in ChannelNames
<1>1. WellFormed(config)
  BY InvAcceptsWellFormed DEF AcceptsWellFormed
<1> QED
  BY <1>1 DEF WellFormed, Device, ChannelNames

\* Where a timeout rests, any other may be set.
LEMMA FlowStarts ==
  ASSUME NEW d, NEW old, NEW new, Flow(d, old, old)
  PROVE  Flow(d, old, new)
<1>1. /\ motors[d].words["can_timeout"] \in {<<old>>, <<new>>}
      /\ KnownIn(samples[d], {old, new})
  BY DEF Flow, KnownIn
<1>2. config.motors[d].channel \in ChannelNames => FlowAt(config.motors[d].channel, d, old, new)
  BY FlowBegins DEF Flow, FlowAt
<1> QED
  BY <1>1, <1>2 DEF Flow

\* Where the new timeout has come back, nothing old is left.
LEMMA FlowDone ==
  ASSUME TopologyInv, phase = "bound", NEW d \in Device, NEW old, NEW new, Flow(d, old, new),
         old # new, "can_timeout" \in DOMAIN samples[d], samples[d]["can_timeout"] = new
  PROVE  Flow(d, new, new)
<1>1. PICK own : own = config.motors[d].channel
  OBVIOUS
<1>2. own \in ChannelNames
  BY <1>1, ChannelKnown
<1>3. Flows(own, d, old, new, toHost[own], toGateway[own],
            motors[d].words["can_timeout"], samples[d])
  BY <1>1, <1>2 DEF Flow, FlowAt
<1>4. Flows(own, d, new, new, toHost[own], toGateway[own],
            motors[d].words["can_timeout"], samples[d])
  BY <1>3, FlowEnds
<1>5. /\ motors[d].words["can_timeout"] \in {<<new>>, <<new>>}
      /\ KnownIn(samples[d], {new, new})
  BY <1>4 DEF Flows
<1> QED
  BY <1>1, <1>4, <1>5 DEF Flow, FlowAt

\* What a step has to show.
LEMMA FlowFrom ==
  ASSUME config' = config,
         step' \in {"set", "verify", "restore", "restored"} => original' = Found,
         \A d \in Device : \A old, new : old = From(d)' /\ new = To(d)' => Flow(d, old, new)'
  PROVE  TimeoutFlow'
<1>1. Device' = Device /\ Found' = Found
  BY DEF Device, Found
<1> QED
  BY <1>1 DEF TimeoutFlow

\* Where the program is not at a timeout, every motor has the one found.
LEMMA FlowAtRest ==
  ASSUME step \notin {"verify", "restore", "restored"}, NEW d
  PROVE  From(d) = Found /\ To(d) = Found
  BY DEF From, To, UnderProbe

\* The same after a step.
LEMMA FlowAtRestThen ==
  ASSUME step' \notin {"verify", "restore", "restored"}, NEW d
  PROVE  From(d)' = Found /\ To(d)' = Found
  BY DEF From, To, UnderProbe, Found

\* A step of the program that fails promises nothing more.
LEMMA FailedFlows == ok' = FALSE => TimeoutFlow'
  BY DEF TimeoutFlow

\* A step that stays where no timeout is being probed.
LEMMA RestFlows ==
  ASSUME TimeoutFlow, config \in Probing, ok, config' = config,
         step \notin {"verify", "restore", "restored"},
         step' \notin {"verify", "restore", "restored"}, step' = "set" => original' = Found,
         \A d \in Device : Flow(d, Found, Found) => Flow(d, Found, Found)'
  PROVE  TimeoutFlow'
<1>1. ASSUME NEW d \in Device, NEW old, NEW new, old = From(d)', new = To(d)'
      PROVE  Flow(d, old, new)'
  <2>1. From(d) = Found /\ To(d) = Found
    BY FlowAtRest
  <2>2. Flow(d, Found, Found)
    BY <2>1, WordsOfFlow
  <2>3. Flow(d, Found, Found)'
    BY <2>2
  <2>4. old = Found /\ new = Found
    BY <1>1, FlowAtRestThen
  <2> QED
    BY <2>3, <2>4
<1> QED
  BY <1>1, FlowFrom

\* A step that stays at its timeout.
LEMMA SameFlows ==
  ASSUME TimeoutFlow, config \in Probing, ok, config' = config,
         UNCHANGED <<step, at, original>>,
         \A d \in Device : \A old, new : IsWord(old) /\ IsWord(new) /\ Flow(d, old, new)
            => Flow(d, old, new)'
  PROVE  TimeoutFlow'
<1>1. ASSUME NEW d \in Device, NEW old, NEW new, old = From(d)', new = To(d)'
      PROVE  Flow(d, old, new)'
  <2>1. old = From(d) /\ new = To(d)
    BY <1>1 DEF From, To, UnderProbe, Temporary, Found
  <2>2. IsWord(old) /\ IsWord(new) /\ Flow(d, old, new)
    BY <2>1, WordsOfFlow
  <2> QED
    BY <2>2
<1>2. step' \in {"set", "verify", "restore", "restored"} => original' = Found
  BY DEF TimeoutFlow
<1> QED
  BY <1>1, <1>2, FlowFrom

\* A query sets no timeout.
LEMMA AskFlows ==
  ASSUME ProbeInv, TimeoutFlow, Ask
  PROVE  TimeoutFlow'
<1> DEFINE batch == [d \in {at} |-> [type |-> "query", code |-> CodeAsked]]
<1>1. /\ Running /\ step \in QuerySteps /\ UNCHANGED topology /\ config' = config
      /\ LinkInv /\ phase = "bound" /\ config \in Probing
  BY DEF Ask, Running, topology, ProbeInv
<1>2. DOMAIN batch \subseteq Device /\ \A d \in DOMAIN batch : Command(batch[d])
  BY <1>1, QuerySent
<1>3. \A d \in DOMAIN batch : batch[d].type = "query"
  OBVIOUS
<1>4. CASE AskFailed
  BY <1>4, FailedFlows DEF AskFailed, Failed
<1>5. CASE Transmit(batch, {}) /\ UNCHANGED <<step, at, index, original, ok>>
  <2> HIDE DEF batch
  <2>1. ASSUME NEW d \in Device, NEW old, NEW new, IsWord(new), Flow(d, old, new)
        PROVE  Flow(d, old, new)'
    <3>1. d \in DOMAIN batch => batch[d].type # "config" \/ batch[d] = SetTimeout(new)
      BY <1>3
    <3> QED
      BY <1>1, <1>2, <1>5, <2>1, <3>1, TransmitFlows
  <2>2. CASE ok
    BY <1>1, <1>5, <2>1, <2>2, SameFlows
  <2>3. CASE ~ok
    BY <1>5, <2>3 DEF TimeoutFlow
  <2> QED
    BY <2>2, <2>3
<1> QED
  BY <1>4, <1>5 DEF Ask

\* Neither does a look at a sample.
LEMMA LookFlows ==
  ASSUME ProbeInv, TimeoutFlow, Look
  PROVE  TimeoutFlow'
<1>1. /\ config \in Probing /\ config' = config /\ UNCHANGED <<topology, link>>
      /\ step \in {"query", "velocity"} /\ (ok' => ok)
  BY DEF Look, Running, topology
<1>2. step' \in {"query", "find", "velocity", "done"}
  <2>1. CASE step = "query"
    <3>1. index < Len(Queries) \/ index = Len(Queries)
      BY <2>1, <1>1, FirstOfProbe DEF ProbeInv, ProbePlaced, Index
    <3> QED
      BY <2>1, <3>1 DEF Look, Goto
  <2>2. CASE step = "velocity"
    BY <2>2 DEF Look, Goto
  <2> QED
    BY <1>1, <2>1, <2>2
<1>3. ASSUME NEW d \in Device, Flow(d, Found, Found) PROVE Flow(d, Found, Found)'
  <2>1. UNCHANGED <<config, toHost, toGateway, motors, samples>>
    BY <1>1 DEF link
  <2> QED
    BY <1>3, <2>1, FlowStays DEF Found
<1>4. CASE ok
  <2>1. /\ step \notin {"verify", "restore", "restored"}
        /\ step' \notin {"verify", "restore", "restored"} /\ step' # "set"
    BY <1>1, <1>2
  <2> QED
    BY <1>1, <1>3, <1>4, <2>1, RestFlows
<1>5. CASE ~ok
  BY <1>1, <1>5 DEF TimeoutFlow
<1> QED
  BY <1>4, <1>5

\* The timeout found is the one the motor came with.
LEMMA FindTimeoutFlows ==
  ASSUME ProbeInv, TimeoutFlow, FindTimeout
  PROVE  TimeoutFlow'
<1>1. /\ config \in Probing /\ config' = config /\ UNCHANGED <<topology, link>>
      /\ step = "find" /\ at \in Device
  BY DEF FindTimeout, Running, topology, ProbeInv, ProbePlaced
<1>2. CASE GiveUpMotor
  BY <1>2, FailedFlows DEF GiveUpMotor, Failed
<1>3. CASE /\ HasSample("can_timeout") /\ original' = Timeout /\ Goto("set", at, 1)
           /\ UNCHANGED ok
  <2>1. CASE ok
    <3>1. Flow(at, Found, Found)
      BY <1>1, <2>1, FlowAtRest, WordsOfFlow
    <3>2. KnownIn(samples[at], {Found, Found})
      BY <3>1 DEF Flow
    <3>3. Timeout = Found
      BY <1>3, <3>2 DEF KnownIn, HasSample, Timeout
    <3>4. step' \notin {"verify", "restore", "restored"} /\ original' = Found
      BY <1>3, <3>3 DEF Goto
    <3>5. ASSUME NEW d \in Device, Flow(d, Found, Found) PROVE Flow(d, Found, Found)'
      <4>1. UNCHANGED <<config, toHost, toGateway, motors, samples>>
        BY <1>1 DEF link
      <4> QED
        BY <3>5, <4>1, FlowStays DEF Found
    <3> QED
      BY <1>1, <2>1, <3>4, <3>5, RestFlows
  <2>2. CASE ~ok
    BY <1>3, <2>2 DEF TimeoutFlow
  <2> QED
    BY <2>1, <2>2
<1> QED
  BY <1>2, <1>3 DEF FindTimeout

\* The set sends the new timeout after everything old.
LEMMA SendTimeoutFlows ==
  ASSUME ProbeInv, TimeoutFlow, SendTimeout
  PROVE  TimeoutFlow'
<1> DEFINE value == IF step = "set" THEN Temporary ELSE original
           batch == [d \in {at} |-> SetTimeout(value)]
           where == IF step = "set" THEN "verify" ELSE "restored"
<1>1. /\ step \in {"set", "restore"} /\ UNCHANGED topology /\ config' = config
      /\ LinkInv /\ phase = "bound" /\ config \in Probing
      /\ at \in Device
  BY DEF SendTimeout, Running, topology, ProbeInv, ProbePlaced
<1>2. CASE GiveUpMotor
  BY <1>2, FailedFlows DEF GiveUpMotor, Failed
<1>3. CASE Transmit(batch, {}) /\ Goto(where, at, 1) /\ UNCHANGED <<original, ok>>
  <2>1. CASE ~ok
    BY <1>3, <2>1 DEF TimeoutFlow
  <2>2. CASE ok
    <3>1. original = Found
      BY <1>1, <2>2 DEF TimeoutFlow
    <3>2. IsWord(Temporary) /\ IsWord(Found)
      BY <3>1, TemporaryDiffers, FoundIsWord
    <3>3. IsWord(value) /\ value = IF step = "set" THEN Temporary ELSE Found
      BY <3>1, <3>2
    <3>4. step' = where /\ at' = at /\ original' = Found
      BY <1>3, <3>1 DEF Goto
    <3>5. /\ DOMAIN batch = {at} /\ batch[at] = SetTimeout(value)
          /\ DOMAIN batch \subseteq Device /\ \A d \in DOMAIN batch : Command(batch[d])
      <4>1. value \in Number
        BY <3>3 DEF IsWord, Number
      <4> HIDE DEF value
      <4> QED
        BY <1>1, <4>1, SetTimeoutIsCommand
    <3> HIDE DEF batch, value
    <3>6. ASSUME NEW d \in Device, NEW old, NEW new, old = From(d)', new = To(d)'
          PROVE  Flow(d, old, new)'
      <4>1. Temporary' = Temporary /\ Found' = Found
        BY <3>1, <3>4 DEF Temporary, Found
      <4>2. IsWord(new)
        BY <3>2, <3>6, <4>1 DEF To
      <4>3. CASE d # at
        <5>1. ~UnderProbe(d) /\ ~UnderProbe(d)'
          BY <3>4, <4>3 DEF UnderProbe
        <5>2. old = Found /\ new = Found /\ From(d) = Found /\ To(d) = Found
          BY <3>6, <4>1, <5>1 DEF From, To
        <5>3. Flow(d, old, new)
          BY <1>1, <2>2, <5>2, WordsOfFlow
        <5>4. d \in DOMAIN batch => batch[d].type # "config" \/ batch[d] = SetTimeout(new)
          BY <3>5, <4>3
        <5> QED
          BY <1>1, <1>3, <3>5, <4>2, <5>3, <5>4, TransmitFlows
      <4>4. CASE d = at /\ step = "set"
        <5>1. ~UnderProbe(d) /\ UnderProbe(d)' /\ step' = "verify"
          BY <3>4, <4>4 DEF UnderProbe
        <5>2. old = Found /\ new = Temporary /\ From(d) = Found /\ To(d) = Found
          BY <3>6, <4>1, <5>1 DEF From, To
        <5>3. Flow(d, Found, Found)
          BY <1>1, <2>2, <5>2, WordsOfFlow
        <5>4. Flow(d, old, new)
          BY <5>2, <5>3, FlowStarts
        <5>5. batch[d] = SetTimeout(new)
          BY <3>3, <3>5, <4>4, <5>2
        <5> QED
          BY <1>1, <1>3, <3>5, <4>2, <5>4, <5>5, TransmitFlows
      <4>5. CASE d = at /\ step = "restore"
        <5>1. UnderProbe(d) /\ UnderProbe(d)' /\ step' = "restored"
          BY <3>4, <4>5 DEF UnderProbe
        <5>2. old = Temporary /\ new = Found /\ From(d) = Temporary /\ To(d) = Temporary
          BY <3>6, <4>1, <4>5, <5>1 DEF From, To
        <5>3. Flow(d, Temporary, Temporary)
          BY <1>1, <2>2, <5>2, WordsOfFlow
        <5>4. Flow(d, old, new)
          BY <5>2, <5>3, FlowStarts
        <5>5. batch[d] = SetTimeout(new)
          BY <3>3, <3>5, <4>5, <5>2
        <5> QED
          BY <1>1, <1>3, <3>5, <4>2, <5>4, <5>5, TransmitFlows
      <4> QED
        BY <1>1, <4>3, <4>4, <4>5
    <3> QED
      BY <1>1, <3>4, <3>6, FlowFrom
  <2> QED
    BY <2>1, <2>2
<1> QED
  BY <1>2, <1>3 DEF SendTimeout

\* When the temporary timeout has come back, the old one is gone.
LEMMA VerifyTimeoutFlows ==
  ASSUME ProbeInv, TimeoutFlow, VerifyTimeout
  PROVE  TimeoutFlow'
<1>1. /\ step = "verify" /\ UNCHANGED <<topology, link>> /\ config' = config
      /\ TopologyInv /\ phase = "bound" /\ config \in Probing /\ at \in Device
  BY DEF VerifyTimeout, Running, topology, ProbeInv, ProbePlaced, LinkInv
<1>2. CASE GiveUpMotor
  BY <1>2, FailedFlows DEF GiveUpMotor, Failed
<1>3. CASE TimeoutIs(Temporary) /\ Goto("restore", at, 1) /\ UNCHANGED <<original, ok>>
  <2>1. CASE ~ok
    BY <1>3, <2>1 DEF TimeoutFlow
  <2>2. CASE ok
    <3>1. original = Found
      BY <1>1, <2>2 DEF TimeoutFlow
    <3>2. Temporary # Found
      BY <3>1, TemporaryDiffers
    <3>3. step' = "restore" /\ at' = at /\ original' = Found
      BY <1>3, <3>1 DEF Goto
    <3>4. ASSUME NEW d \in Device, NEW old, NEW new, old = From(d)', new = To(d)'
          PROVE  Flow(d, old, new)'
      <4>1. Temporary' = Temporary /\ Found' = Found
        BY <3>1, <3>3 DEF Temporary, Found
      <4>2. Flow(d, old, new)
        <5>1. CASE d # at
          <6>1. ~UnderProbe(d) /\ ~UnderProbe(d)'
            BY <3>3, <5>1 DEF UnderProbe
          <6>2. old = From(d) /\ new = To(d)
            BY <3>4, <4>1, <6>1 DEF From, To
          <6> QED
            BY <1>1, <2>2, <6>2, WordsOfFlow
        <5>2. CASE d = at
          <6>1. UnderProbe(d) /\ UnderProbe(d)'
            BY <1>1, <3>3, <5>2 DEF UnderProbe
          <6>2. old = Temporary /\ new = Temporary /\ From(d) = Found /\ To(d) = Temporary
            BY <1>1, <3>3, <3>4, <4>1, <6>1 DEF From, To
          <6>3. Flow(d, Found, Temporary)
            BY <1>1, <2>2, <6>2, WordsOfFlow
          <6>4. "can_timeout" \in DOMAIN samples[d] /\ samples[d]["can_timeout"] = Temporary
            BY <1>3, <5>2 DEF TimeoutIs, HasSample, Timeout
          <6>5. Flow(d, Temporary, Temporary)
            BY <1>1, <3>2, <6>3, <6>4, FlowDone
          <6> QED
            BY <6>2, <6>5
        <5> QED
          BY <5>1, <5>2
      <4>3. UNCHANGED <<config, toHost, toGateway, motors, samples>>
        BY <1>1 DEF link
      <4> QED
        BY <4>2, <4>3, FlowStays
    <3> QED
      BY <1>1, <3>3, <3>4, FlowFrom
  <2> QED
    BY <2>1, <2>2
<1> QED
  BY <1>2, <1>3 DEF VerifyTimeout

\* When the original timeout has come back, the temporary one is gone.
LEMMA VerifyRestoredFlows ==
  ASSUME ProbeInv, TimeoutFlow, VerifyRestored
  PROVE  TimeoutFlow'
<1>1. /\ step = "restored" /\ UNCHANGED <<topology, link>> /\ config' = config
      /\ TopologyInv /\ phase = "bound" /\ config \in Probing /\ at \in Device
  BY DEF VerifyRestored, Running, topology, ProbeInv, ProbePlaced, LinkInv
<1>2. CASE GiveUpMotor
  BY <1>2, FailedFlows DEF GiveUpMotor, Failed
<1>3. CASE TimeoutIs(original) /\ NextMotor /\ UNCHANGED <<original, ok>>
  <2>1. CASE ~ok
    BY <1>3, <2>1 DEF TimeoutFlow
  <2>2. CASE ok
    <3>1. original = Found
      BY <1>1, <2>2 DEF TimeoutFlow
    <3>2. Temporary # Found
      BY <3>1, TemporaryDiffers
    <3>3. /\ step' \notin {"set", "verify", "restore", "restored"}
          /\ step' \notin {"verify", "restore", "restored"}
      BY <1>3 DEF NextMotor, Goto
    <3>4. ASSUME NEW d \in Device, NEW old, NEW new, old = From(d)', new = To(d)'
          PROVE  Flow(d, old, new)'
      <4>1. old = Found /\ new = Found
        BY <3>3, <3>4, FlowAtRestThen
      <4>2. Flow(d, old, new)
        <5>1. CASE d # at
          <6>1. From(d) = Found /\ To(d) = Found
            BY <5>1 DEF From, To, UnderProbe
          <6> QED
            BY <1>1, <2>2, <4>1, <6>1, WordsOfFlow
        <5>2. CASE d = at
          <6>1. From(d) = Temporary /\ To(d) = Found
            BY <1>1, <5>2 DEF From, To, UnderProbe
          <6>2. Flow(d, Temporary, Found)
            BY <1>1, <2>2, <6>1, WordsOfFlow
          <6>3. "can_timeout" \in DOMAIN samples[d] /\ samples[d]["can_timeout"] = Found
            BY <1>3, <3>1, <5>2 DEF TimeoutIs, HasSample, Timeout
          <6>4. Flow(d, Found, Found)
            BY <1>1, <3>2, <6>2, <6>3, FlowDone
          <6> QED
            BY <4>1, <6>4
        <5> QED
          BY <5>1, <5>2
      <4>3. UNCHANGED <<config, toHost, toGateway, motors, samples>>
        BY <1>1 DEF link
      <4> QED
        BY <4>2, <4>3, FlowStays
    <3> QED
      BY <1>1, <3>3, <3>4, FlowFrom
  <2> QED
    BY <2>1, <2>2
<1> QED
  BY <1>2, <1>3 DEF VerifyRestored

\* A batch of control commands sets no timeout.
LEMMA ControlFlows ==
  ASSUME LinkInv, TimeoutFlow, config \in Probing, ok, phase = "bound", UNCHANGED topology,
         NEW batch, DOMAIN batch \subseteq Device,
         \A e \in DOMAIN batch : Command(batch[e]) /\ batch[e].type # "config",
         NEW busy, Transmit(batch, busy), step \notin {"verify", "restore", "restored"},
         step' \notin {"verify", "restore", "restored"}, step' # "set"
  PROVE  TimeoutFlow'
<1>1. ASSUME NEW d \in Device, Flow(d, Found, Found) PROVE Flow(d, Found, Found)'
  <2>1. ASSUME NEW found, found = Found PROVE Flow(d, found, found)'
    <3>1. IsWord(found) /\ Flow(d, found, found)
      BY <1>1, <2>1, FoundIsWord
    <3>2. d \in DOMAIN batch => batch[d].type # "config" \/ batch[d] = SetTimeout(found)
      OBVIOUS
    <3> QED
      BY <3>1, <3>2, TransmitFlows
  <2> QED
    BY <2>1
<1>2. config' = config
  BY DEF topology
<1> QED
  BY <1>1, <1>2, RestFlows

\* No command of the smoke test is a configuration.
LEMMA SmokeControls ==
  ASSUME NEW d, NEW i \in 1..SmokeBatches
  PROVE  SmokeCommand(d)[i].type # "config"
<1>1. i \in {1, 2, 3, 4, 5, 6}
  BY DEF SmokeBatches
<1> QED
  BY <1>1 DEF SmokeCommand, DriveSlowly

\* The smoke test sets no timeout.
LEMMA SendSmokeFlows ==
  ASSUME ProbeInv, TimeoutFlow, SendSmoke
  PROVE  TimeoutFlow'
<1> DEFINE batch == [d \in Device |-> SmokeCommand(d)[index]]
<1>1. /\ UNCHANGED topology /\ LinkInv /\ phase = "bound" /\ step = "smoke"
      /\ config \in Probing /\ index \in 1..SmokeBatches /\ (ok' => ok)
  BY DEF SendSmoke, Running, ProbeInv, ProbePlaced
<1>2. /\ DOMAIN batch \subseteq Device
      /\ \A d \in DOMAIN batch : Command(batch[d]) /\ batch[d].type # "config"
  BY <1>1, SmokeIsCommand, SmokeControls
<1>3. PICK busy : Transmit(batch, busy)
  BY DEF SendSmoke
<1>4. step' = "smoke" \/ step' = "drive"
  BY DEF SendSmoke, Goto
<1> HIDE DEF batch
<1>5. /\ step \notin {"verify", "restore", "restored"}
      /\ step' \notin {"verify", "restore", "restored"} /\ step' # "set"
  BY <1>1, <1>4
<1>6. CASE ok
  BY <1>1, <1>2, <1>3, <1>5, <1>6, ControlFlows
<1>7. CASE ~ok
  BY <1>1, <1>7 DEF TimeoutFlow
<1> QED
  BY <1>6, <1>7

\* Neither does the slow drive.
LEMMA DriveFlows ==
  ASSUME ProbeInv, TimeoutFlow, Drive
  PROVE  TimeoutFlow'
<1> DEFINE batch == [d \in Device |-> DriveSlowly]
<1>1. /\ UNCHANGED topology /\ LinkInv /\ phase = "bound" /\ step = "drive"
      /\ config \in Probing /\ (ok' => ok)
  BY DEF Drive, Running, ProbeInv, Failed
<1>2. /\ DOMAIN batch \subseteq Device
      /\ \A d \in DOMAIN batch : Command(batch[d]) /\ batch[d].type # "config"
  BY DriveIsCommand DEF DriveSlowly
<1>3. PICK busy : Transmit(batch, busy)
  BY DEF Drive
<1>4. step' = "drive" \/ step' = "done"
  BY DEF Drive, Goto
<1> HIDE DEF batch
<1>5. /\ step \notin {"verify", "restore", "restored"}
      /\ step' \notin {"verify", "restore", "restored"} /\ step' # "set"
  BY <1>1, <1>4
<1>6. CASE ok
  BY <1>1, <1>2, <1>3, <1>5, <1>6, ControlFlows
<1>7. CASE ~ok
  BY <1>1, <1>7 DEF TimeoutFlow
<1> QED
  BY <1>6, <1>7

\* Nor its end.
LEMMA DriveEndsFlows ==
  ASSUME ProbeInv, TimeoutFlow, DriveEnds
  PROVE  TimeoutFlow'
<1>1. /\ UNCHANGED <<topology, link>> /\ config' = config /\ step = "drive" /\ step' = "velocity"
      /\ config \in Probing /\ ok' = ok
  BY DEF DriveEnds, Running, Goto, topology
<1>2. ASSUME NEW d \in Device, Flow(d, Found, Found) PROVE Flow(d, Found, Found)'
  <2>1. UNCHANGED <<config, toHost, toGateway, motors, samples>>
    BY <1>1 DEF link
  <2> QED
    BY <1>2, <2>1, FlowStays DEF Found
<1>3. CASE ok
  <2>1. /\ step \notin {"verify", "restore", "restored"}
        /\ step' \notin {"verify", "restore", "restored"} /\ step' # "set"
    BY <1>1
  <2> QED
    BY <1>1, <1>2, <1>3, <2>1, RestFlows
<1>4. CASE ~ok
  BY <1>1, <1>4 DEF TimeoutFlow
<1> QED
  BY <1>3, <1>4

\* Every step of the program keeps the order.
LEMMA ProbeStepFlows == ProbeInv /\ TimeoutFlow /\ ProbeStep => TimeoutFlow'
  BY AskFlows, LookFlows, FindTimeoutFlows, SendTimeoutFlows, VerifyTimeoutFlows,
     VerifyRestoredFlows, SendSmokeFlows, DriveFlows, DriveEndsFlows DEF ProbeStep

\* The configuration is given once.
LEMMA ConfigStays == LinkNext => config' = config
  BY DEF LinkNext, Next, Validate, InitDrivers, InitThrows, DriversReady, BindMotor, BindEnds, Call, Transmit,
         NetworkStep, LoseCommand, LoseAnswer, GatewayHandles, HostReceives, topology, link

\* So does every step of the link.
LEMMA LinkStepFlows == ProbeInv /\ Truth /\ TimeoutFlow /\ LinkNext /\ UNCHANGED probe => TimeoutFlow'
<1> SUFFICES ASSUME ProbeInv, Truth, TimeoutFlow, LinkNext, UNCHANGED probe PROVE TimeoutFlow'
  OBVIOUS
<1>1. UNCHANGED <<step, at, original, ok>> /\ LinkInv
  BY DEF probe, ProbeInv
<1>2. config' = config
  BY ConfigStays
<1>3. CASE config \in Probing /\ ok
  <2>1. \A d \in Device : \A old, new : IsWord(old) /\ IsWord(new) /\ Flow(d, old, new)
            => Flow(d, old, new)'
    BY <1>1, <1>3, LinkNextFlows
  <2> QED
    BY <1>1, <1>2, <1>3, <2>1, SameFlows
<1>4. CASE ~(config \in Probing /\ ok)
  BY <1>1, <1>2, <1>4 DEF TimeoutFlow
<1> QED
  BY <1>3, <1>4

\* Every motor comes with the factory timeout, and nothing is under way.
LEMMA FlowInit == ProbeInit => TimeoutFlow
<1> SUFFICES ASSUME ProbeInit, config \in Probing PROVE TimeoutFlow
  BY DEF TimeoutFlow
<1>1. step = "query" /\ LinkInit
  BY DEF ProbeInit
<1>2. ASSUME NEW d \in Device PROVE Flow(d, Found, Found)
  <2>1. motors[d].words["can_timeout"] = <<Found>>
    <3>1. motors[d].words = Factory
      BY <1>1 DEF LinkInit
    <3> QED
      BY <3>1, FoundIsWord
  <2>2. \A V : KnownIn(samples[d], V)
    <3>1. samples[d] = <<>> /\ DOMAIN <<>> = {}
      BY <1>1 DEF LinkInit
    <3> QED
      BY <3>1 DEF KnownIn
  <2>3. ASSUME NEW channel \in ChannelNames PROVE FlowAt(channel, d, Found, Found)
    <3>1. toHost[channel] = <<>> /\ toGateway[channel] = <<>> /\ Len(<<>>) = 0
      BY <1>1 DEF LinkInit
    <3> QED
      BY <2>1, <2>2, <3>1 DEF FlowAt, Flows
  <2> QED
    BY <2>1, <2>2, <2>3 DEF Flow
<1>3. \A d : From(d) = Found /\ To(d) = Found
  BY <1>1 DEF From, To, UnderProbe
<1> QED
  BY <1>1, <1>2, <1>3 DEF TimeoutFlow

\* The inductive invariant behind the next theorem: while the probe has met no
\* error, the word of each motor, the answers and commands under way and the last
\* sample are in the order the network keeps, from the timeout before the last set
\* to the one it sets, and no third one is anywhere.
THEOREM TimeoutFlowInvariant == ProbeSpec => []TimeoutFlow
<1>1. ProbeInv /\ Truth /\ TimeoutFlow /\ [ProbeNext]_allVars => TimeoutFlow'
  <2> SUFFICES ASSUME ProbeInv, Truth, TimeoutFlow, [ProbeNext]_allVars PROVE TimeoutFlow'
    OBVIOUS
  <2>1. CASE UNCHANGED allVars
    <3>1. /\ UNCHANGED <<config, toHost, toGateway, motors, samples>>
          /\ UNCHANGED <<step, at, original, ok>>
      BY <2>1 DEF allVars, vars, link, probe
    <3>2. CASE config \in Probing /\ ok
      <4>1. \A d \in Device : \A old, new : IsWord(old) /\ IsWord(new) /\ Flow(d, old, new)
               => Flow(d, old, new)'
        BY <3>1, FlowStays
      <4> QED
        BY <3>1, <3>2, <4>1, SameFlows
    <3>3. CASE ~(config \in Probing /\ ok)
      BY <3>1, <3>3 DEF TimeoutFlow
    <3> QED
      BY <3>2, <3>3
  <2>2. CASE LinkNext /\ UNCHANGED probe
    BY <2>2, LinkStepFlows
  <2>3. CASE ProbeStep
    BY <2>3, ProbeStepFlows
  <2> QED
    BY <2>1, <2>2, <2>3 DEF ProbeNext
<1> QED
  BY <1>1, FlowInit, ProbeInvariant, TruthInvariant, PTL DEF ProbeSpec

\* For every configuration, loss, delay, foreign frame and refused send: a motor
\* has another command timeout than it came with only while the probe is at it, or
\* after the probe has reported an error (motor_probe.cc
\* run_can_timeout_config_probe).
THEOREM TimeoutsRestored == ProbeSpec => []TimeoutOnlyWhileProbed
<1>1. TimeoutFlow => TimeoutOnlyWhileProbed
  <2> SUFFICES ASSUME TimeoutFlow, config \in Probing, NEW d \in Device,
                      ok, ~(d = at /\ step \in {"verify", "restore", "restored"})
               PROVE  motors[d].words.can_timeout = Factory.can_timeout
    BY DEF TimeoutOnlyWhileProbed
  <2>1. Flow(d, Found, Found)
    BY WordsOfFlow DEF From, To, UnderProbe
  <2> QED
    BY <2>1, FoundIsWord DEF Flow
<1> QED
  BY <1>1, TimeoutFlowInvariant, PTL
===============================================================================
