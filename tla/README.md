# Servo Fleet in TLA+

Specifications, model-checking runs and machine-checked proofs for the servo
fleet SDK (`src/`): a C++ library that commands servo motors behind UDP-to-CAN
gateways, and the tuning and diagnostic programs built on it (`pvt/`).

Reading order: this file, then `RealtimeChannel`, `FeedbackDispatch`,
`CommandDispatch`, `Runtime`, `PvtTune`; then `CanCodec` and `MotorLink`.

## 1. The system

    application threads (pvt/motor_pvt_control.cc, tests)
       | init, shutdown, lookup, command            runtime.cc: shared_ptr<runtime_t>
       v
    runtime_t   validate_config, init_drivers, bind_motors, send_motor_commands
       |  per driver: batch_commands (driver_motor.h)      ^ getters, pvt_feedback
       v                                                    |
    motor_driver --- prepare_send / commit_send        motor_device (sample cache)
       |                                                    ^ apply
       v                                                    |
    realtime_udp_channel: packet pool, pending ring,   handle_packet, decode_each,
      tx thread (token_bucket, retries), rx thread ----> route by (port, CAN id)
       |                                   ^
       v            UDP / CAN              |
    the motors

| Component | State | Operations | What makes it hard |
|---|---|---|---|
| `fixed_ring_queue` (channel.cc) | storage of `capacity` cells, head, tail, count | try_push, try_pop, size | wrap-around, full against empty |
| `realtime_udp_channel` | free and pending rings of slot numbers, slot contents and sizes, condition variable, stop flags, socket, two threads | start, send, prepare/commit/release, discard_pending_sends, stop | any number of producers and discarders against the tx thread; ownership of slots; stop against a blocked thread |
| `token_bucket` | tokens, last refill | wait, reset | integer truncation, bound on bursts, cancellation |
| `udp_channel` | the same rings and slots, one worker thread, a receive callback | send, flush_pending_sends, stop | slots filled and reused without a common lock; what a flush promises when stop follows; the callback cleared under the worker |
| `motor_driver`, receiving | devices, routes | bind_motor, start, handle_packet | broken datagrams, partial decoding, routing |
| `motor_device` | a sample (time, seq, value) per field, sample_seq_, updated_at_ | apply, pvt_feedback, getters | one frame updates several fields; snapshots across frames |
| `motor_driver`, sending | a batch of frames per driver and call | push, flush | pool exhaustion, partial failure, concurrent calls |
| `runtime_t` | drivers, devices, slots | validate, init_drivers, bind_motors, start | index arithmetic between channels, drivers and devices; a constructor that throws after others were made |
| the global runtime | `shared_ptr`, its holders | init, shutdown, command | replacement and destruction while others call |
| `can_codec`, `bit_codec`, `motor_codec` | none | encode, parse, decode_each | bit fields that must not meet, rounding, widths, signs; refusals of some values and not of others; the units of what is set against what is read |
| `motor_pvt_control` | loop counters, saved limit | prepare, three loops, cleanup | stale feedback, late wake-ups, failures at any step |
| `motor_probe` | where it is, the timeout it found | queries, timeout probe, control batches, velocity loop | answers lost or late, a failure between a change and its undoing |
| imu, log, error, tests, tools | - | - | - |

What has to be true of each: a slot has one owner and is never lost; packets are
whole and in order; stop returns with the threads gone; the limiter bounds
bandwidth; a sample is that of the newest frame addressed to its motor and a
coherent snapshot is one frame; a command reaches the motor it names, its result
tells the truth and a call cannot hang; a runtime is not used after it is
destroyed, and is destroyed; a motor reads in a frame what the caller meant, and
the caller in a sample what the motor measured; the tuning program never moves a
motor without the lowered limit, leaves a silent motor alone and puts back what
it changed, and so does the diagnostic program with the timeout.

## 2. The modules

| Module | Models | Refines / uses |
|---|---|---|
| `BoundedFifo` | abstract: a bounded FIFO queue | |
| `RingQueue` | `fixed_ring_queue` | implements `BoundedFifo` |
| `PacketTransport` | abstract: packets are accepted, then delivered in order or given up, none after closing | |
| `RealtimeChannel` | `realtime_udp_channel` | implements `PacketTransport`; its rings are sequences, justified by `RingQueue` |
| `UdpChannel` | `udp_channel` | extends `RingQueue`: its pending ring is that ring |
| `TokenBucket` | `token_bucket` | its result is a choice in `RealtimeChannel.RateLimit` |
| `FeedbackDispatch` | driver (receiving), codec outcome, `motor_device` | |
| `Topology` | `runtime_t` construction | |
| `CanCodec` | `can_codec`, `bit_codec` as functions | |
| `MotorLink` | a bound runtime, its datagrams, gateway and motors | extends `Topology` and `CanCodec` |
| `MotorProbe` | `motor_probe.cc` | extends `MotorLink`: its commands go through codec, bus and back |
| `CommandDispatch` | `send_motor_commands`, batches | channels reduced to pool and pending queue |
| `Runtime` | the global `shared_ptr`, threads of drivers | `RealtimeChannel`'s stop reduced to "threads joined, socket closed" |
| `PvtTune` | `motor_pvt_control.cc` with clock and motors | samples reduced to ages and coherence (`FeedbackDispatch`) |

The code's names are kept; `PROJECT.json` maps every definition to its lines.

**RingQueue.** `storage`, `head`, `tail` and `count` are as in the code; a call runs
under the ring's own mutex, so it is one action.

**RealtimeChannel.** One program counter per producer, discarder and for the tx
thread, the rx thread and the thread that owns the channel. A step is what runs
under one lock, or one call that another thread can see between (`SetSize` and
`PushPending`, `PushPending` and `NotifyOne`, `CvPredicate` and `CvBlock`). The
free and pending rings are sequences of slot numbers; a packet is a model value,
its size is stored apart from its contents so that a torn packet is a state.
`held[t]` is the slot in thread t's local variables. `txSize` is the length the
tx thread read. Sending may succeed, fail, or ask to be retried.

**UdpChannel.** One record per sender (where it is in `send`, the slot it has in
hand), one for the worker. A step is what runs under one lock of a ring, one
access of a slot, or one of the flags. The callback is a plain `std::function`
that `stop` clears: a worker that is in it at that moment has an undefined outcome,
which is the choice of `crashed`. `accepted` and `sent` are history.

**TokenBucket.** Time and tokens are integers in one unit (one token of one tick
at rate one); the truncation of the code's duration cast is kept as the rounding
it performs. `granted` and the window are history: any moment may begin the window.

**FeedbackDispatch.** The network may deliver any datagram of `Packet`: whole or
not, frames valid or not, of any type, to any address. The value of a sample is
the arrival number of its frame. `HandleFrame` and `ApplyFeedback` are separate,
as the number is taken before the lock; the update itself is one action as it is
made under the device's lock, and a getter is an operator evaluated in any state.

**Topology.** The initial states are all configurations of `Config`; a step of the
construction comes past one channel or binds one motor. What validation lets through
may still be refused: the constructor of a driver throws (`Throws`, `InitThrows`) when
the address does not parse, the slots overflow, or the local port cannot be bound,
because the machine refuses it (`Unavailable`) or a driver made before has it; `init`
then answers `io_error` (phase `failed`) and not `invalid_argument` (`rejected`). It has
no run of its own: `MotorLink` begins with it.

**CanCodec.** A frame's data is the set of its bits that are 1, bit 0 the highest of
byte 0, so that fields that meet, a wrong offset or a byte order show. Physical
values are integers in thousandths of their unit and a raw float is its 32 bits by
sign and magnitude. What may be refused is a set, of one frame or of none.

**MotorLink.** What `push` and `flush` do to a batch is a function of it here
(`CommandDispatch` has its steps, and the split of a batch that is full; here
`BatchFitsDatagram` keeps configurations below that): a datagram per channel, of the
frames in the order of the batch. The gateway and the motors are external. A motor reads a
frame's fields by their names in the codec and by the full scales
`EC_MOTOR_TABLE` gives its model, which are those of the codec for some models only:
`Follows` asks kd and torque of these, `PvtAsCommanded` of all. It keeps a configuration as the words it was sent,
and answers from its sensors, each motor's with values of its own. Before an
answer the gateway may put frames nobody asked for, broken ones among them.

**MotorProbe.** The program's sleeps are long or short against the network, which
may step or not between a query and the look at its answer. Only a step that sends
needs room on the wire (`RoomOnWire`, a bound of the model). Any send may be refused.

**CommandDispatch.** Clients interleave between `prepare_send` and `commit_send`
of each flush. A packet is the sequence of frames in it, tagged with its call.

**Runtime.** `Run` numbers the runtimes; a client holds at most the one its call
made or took. A driver is opened (its socket bound), running, stopping, stopped and
freed; a receive thread inside `handle_packet` is a use of it. The constructor of any
driver may throw (`ConstructorThrows`), with those before it open, and must when its
fixed port is held; a start may fail at any driver, or after one whose receive thread
runs already while its transmit thread could not be created. `LastReference` is
what `shared_ptr` does.

**PvtTune.** The program counter follows `run`; times are relative (what is left
of a sleep, of a loop, the age of a sample) so the clock needs no bound. `wait`
may fall to `-MaxLate`: the thread was not scheduled. A datagram is applied by the
motor at once or lost; answers arrive at any later moment, in any order, or never.

## 3. The runs

| Run | Bounds | Shows |
|---|---|---|
| `udp_channel` | 2 senders of 2 packets, 2 slots, 1 arriving datagram | `SentInOrder`, `FlushedIsSent`, `ImplementsFifo`, `StopReturns`. Two slots and four packets: the ring wraps and slots run out. The channel never pushes to a full ring, so the same run has the ring alone, under any calls |
| `channel_safety` | 2 producers, 1 discarder, 2 slots, 2 packets, 2 attempts | `SlotsConserved`, `PacketsIntact`, `ClosedWhenIdle`, `ImplementsTransport`. Two slots are fewer than the four threads that want one, so exhaustion and reuse occur; two attempts are a retry and a give-up. Symmetric in the producers and packets |
| `channel_liveness` | 1 producer, 1 discarder, 1 slot, 2 packets | `StopReturns`, `TxSlotComesBack` |
| `channel_lost_wakeup` | 1 producer, 1 slot, 1 packet | **violation**, see 4 |
| `token_bucket` | burst 6, rates 0-2, packets up to half the burst (as the code's), window 4 | bandwidth bound, at most two timeouts in one wait, wait returns |
| `feedback` | 2 motors, 2 buses, broadcast, 3 frames, 2 ticks | newest frame wins, snapshots of one frame, numbers and times agree |
| `exchange` | every configuration of up to 2 channels and 3 motors over small sets of names, models, ports and identifiers, valid or not, and of up to 2 channels whose slots, address or port may or may not be constructible; four of them used: one motor given any pair of 57 commands, two motors and one at the broadcast identifier given any pair of 6, a motor of other full scales given PVT commands, and the program with two motors; 2 faults, 2 rounds, 1 datagram under way on a channel each way | routes, what is accepted, `CommandsUnderstood`, `SamplesTrue`, `ConfigComesBack`, `TimeoutOnlyWhileProbed`. The commands have values at the ends of their ranges, past them, negative, NaN, and some in between |
| `codec_ranges` | the same | **violation**, see 4 |
| `command` | 2 clients, 2 drivers, 3 devices, packets of 2 frames, 1 slot each | truth of results, batches, termination. Calls of 3 devices flush in the middle and at the end; one slot makes refusal common |
| `runtime` | 2 clients, 2 drivers, 3 runtimes, a fixed port and a free one | destruction, a construction that fails at either driver, start failure, bind failure |
| `pvt_tune` | period 3, age 2, waits 3, 2 loops of 3 cycles, late by up to 3, 2 motors | silence bound, limit, cleanup, termination |
| `pvt_query` | the same, never late | **violation**, see 4 |

The bound of `SilenceBound` is attained: with one command less TLC finds a
counterexample (for `MaxLate` 0, 3 and 6). A loop of three cycles is the shortest
that can give up; the code's have 600 and 4800. The third loop of the code
repeats the boundary between the first two.

Every property has a mutant: a plausible bug of a mapped definition (an unchecked
push, a slot returned twice, an early publication, a limit not restored) under
which the run finds the property violated.

`RealtimeChannel` and `UdpChannel` take a packet the tx thread or the worker has in
hand to be handled whole; what `exchange` leaves out of batching, slots and
threads is in `command` and `channel_safety`, and what those leave out of frames
is in `exchange`.

**Fairness.** Threads are scheduled, so what a thread can do next inside a call or
a loop it does in the end (weak fairness, one formula per thread: threads do not
wait for each other except where the code does); the clock ticks, and a timed
wait ends with it. Nothing is assumed of the network, of the motors, or that
clients call, stop or shut down. Spurious wake-ups are allowed and never required.
`RealtimeChannel` takes the rate limiter to return, which `TokenBucket` shows
(`WaitReturns`). In `CommandDispatch` the transmit threads are not fair: a call
returns without them. In `Runtime` the handling of a datagram ends, as it is a
bounded loop; in `PvtTune` only the clock and the program are fair. In `UdpChannel`
the worker runs and a `stop` that was begun goes on; datagrams cease to come
(`MaxArrivals`), without which the receive loop need not end, and a program that
crashed does not go on. `MotorLink` and `MotorProbe` have safety properties only
and no fairness.

**Deadlock** is checked except where the system ends: `init` fails,
the callers stop and the diagnostic program ends (`exchange`, `codec_ranges`), the
channel is stopped or the program crashed (`udp_channel`), the clients of `command`
have made their calls, the runtimes of `runtime` are used up, the tuning program is
done, and in `channel_lost_wakeup` the only producer may stop calling.

## 4. Disagreements

- **A lost wake-up** (`channel_lost_wakeup`). `udp_send_queue::enqueue` pushes under
  the ring's mutex and notifies without the mutex of `wait_pop_pending`. Between
  the tx thread's look at the empty ring and its block the notification is lost,
  and the packet waits until another send or stop. The transport test sends one
  packet and waits for it (tests/test_udp_channel.cc:49).
- **PVT torque and kd have one range for every model** (`codec_ranges`). `encode_pvt`
  (codec_can.cc:532-536) scales the torque by 30 Nm and kd by 5 whatever the motor; the
  table of the PVT protocol (driver_motor.cc:12) gives each model its own. The run has an
  EC-A10020 (150 Nm, 50) that is commanded kd 5 and 30 Nm and applies kd 50 and 150 Nm; 6 Nm
  reaches an EC-A2806 as 2.4 Nm. `CommandsUnderstood` holds of all other fields, and of
  these two for the models whose full scales are the codec's.
- **Query answers are stale when read** (`pvt_query`). The tuning program sleeps
  100 ms after a query, then accepts a value at most 2 ms old. A motor that
  answers promptly is refused, so the limit is never read and tuning never runs;
  `pvt_tune` still covers the rest because an answer may be late.

Two more have no run. `table_sample` gives number 1 and the present time, while
device.h:84 says a number other than 0 means that the field was received
(`FeedbackDispatch.ReceivedWasReceived`, which TLC refutes). The last control batch of
`motor_probe` is logged as a release of the brakes and closes them.

## 5. The proofs

TLAPS proves, for every value of the constants that meets the named assumptions:

- `RealtimeChannel_proofs`: types, `SlotsConserved`, `ClosedWhenIdle`, `PacketsIntact` and
  that the channel implements `PacketTransport`. For the slots the invariant adds where
  each thread is when it holds a slot (`HoldersKnown`), that the rings are
  injective and disjoint from each other and from what is held, and that nothing
  is missing. One lemma for each way a slot moves: ring to thread, thread to ring.
  For `ClosedWhenIdle` and `PacketsIntact` two facts more: the owner joins one thread
  after the other (`JoinedInTurn`), and a pending slot has the size of the packet in
  it (`SizesRecorded`), for which the slots must be exclusive. For the refinement of
  `PacketTransport` each step of the code is of one of six kinds: quiet, committed,
  taken, sent, given up, discarded.
- `UdpChannel_proofs`, first of the ring alone: types, `IndicesAgree`, and that the ring
  implements the FIFO queue. The invariant is the conjunction of the first two: the
  tail is `count` cells past the head, modulo the capacity. The refinement maps the
  contents to the cells from the head on; the lemmas say what `NextIndex` does to that
  enumeration. Then of the channel: `SentInOrder`, `FlushedIsSent`, and that the ring in the
  channel's use is a FIFO queue. The invariant says that each slot is in one place
  (free, pending, in a sender's hand or the worker's), that what was accepted is what
  was sent, then what the worker holds, then what is pending, each packet whole,
  and that the worker has ended before the socket is closed. It uses the invariant
  and the lemmas of the ring.
- `TokenBucket_proofs`: types and `BandwidthBound`, from an account that relates
  tokens, what was granted in the window and what the rate gave since it began; and
  `AtMostTwoTimeouts`, from what a wait may still miss after each of its sleeps: the
  part of a token the duration cast cut off.
- `FeedbackDispatch_proofs`: all properties of the run. For snapshots and advance the
  invariant says that a number is used by one frame of a device, that samples hold
  numbers no larger than the device's, and that four equal numbers are of a status;
  for `LatestWins`, that every motor is bound and routed before a frame comes; for
  `TimesFollowNumbers`, that no sample is from the future.
- `CommandDispatch_proofs`: types (`Types`), `ResultIsTrue`, `PacketsOfOneCall`,
  `InCallOrder`. The invariant says where a call is when it has what in its batches; that a batch holds this call's
  commands in order, none older than what the channel has accepted from the client;
  and that every command the call has passed is sent, in a batch, or was refused and
  the refusal recorded.
- `Runtime_proofs`: types, `NothingUsedAfterFree`, `CommandsReachRunning`, `NoneLeaked`. The
  invariant says who may know a runtime: one under construction is in the hands of the
  call that builds it and of nobody else, one not begun is nowhere, one being
  destroyed was given up by all, and one that is held or published has all its drivers
  running.
- `PvtTune_proofs`: types, `MovesLimited`, `LeftAsFound`, `SilenceBound`, for all waits,
  ages, loops, motors and delays. The invariant `LimitKnown` relates where the program is
  to what it knows of the limit (read before it tunes, known while it tunes), and
  what it knows to the state of the motor, up to a lost datagram or a refused
  cleanup; without it neither property is inductive. `SilenceInv` counts commands in
  ticks: after a status each is paid by the time that has passed (`Recent`); after a
  seed without a status (`Seeded`) the cycles left are enough to give up before the
  loop ends, so there is no second seed.

- `MotorProbe_proofs`: `AcceptsWellFormed`, `RoutesAgree`, `CommandsUnderstood`, `SamplesTrue`
  and `ConfigComesBack`, with the diagnostic program running, for all configurations,
  commands, losses and numbers of rounds. `AcceptsWellFormed` says that `init` succeeds only for
  configurations that are well formed and constructible, and that each of its errors
  blames what is wrong. `CommandsUnderstood` says that a motor does what *some* command its
  device accepted says: not the last, which may be lost or overtaken by another caller's. Five layers, each with an invariant that contains the one before:
  - `TopologyInv`, of the construction: one driver for each channel that a motor uses
    and no two of a channel; the channels come past could all be opened and no two of them
    ask for one port, since each driver holds the port of one of them (`DriversMade`,
    without which "constructible" would follow from no single step); a route to every bound motor and no other, each binding at
    the place its routes say. Validation counts the channels of a name and the motors of
    an address; that a count of one means no second is `CountsOne`.
  - The codec, without state: *what is written to a field is what is read from it, and
    what is written to another field does not change it* (`StoredIsRead`, `FilledReads`).
    Reading is a recursive sum over bits and filling is a recursive union over writes;
    both are handled as the recursive functions they are, by induction on the index
    (`UpTo`, from the well-foundedness of the naturals: the library's induction
    theorem takes an operator and cannot be used; `Recursion` gives the equations of
    such a function). On it stands one lemma for each sort of command
    (`PvtFollowed` to `QueryCarried`): a motor that reads the command's frame
    follows the command, with the arithmetic of each scaling and its rounding.
  - `LinkInv`: every datagram under way to a gateway carries frames that are the
    encoding of a command its device accepted (or of a query), and every motor
    does what some accepted command said. `Obeyed` is the step of one frame,
    `HandledUnderstood` that of a datagram, `TransmitKeeps` that of a send.
  - `ProbeInv`: the program is at a motor there is and at a query, batch or round
    there is, so that what it sends are commands of the interface.
  - `Truth`, of the way back: every motor's words are, code by code, ones that a set
    given to its own device was encoded to, or the factory's (`WordsKept`); whatever
    a datagram under way to the host can be parsed to is true of the motor it would be
    handed to (`TruePacket`); and so are the samples. Neither target property is
    inductive: a sample comes from a frame, and what the frame says from a word the
    motor kept. True is `Speaks`: a measured value is the sensor's within the steps of
    its field, a configuration value is one of those given within half a step. Upwards: one
    lemma for each answer a motor gives (status, motion, brake, acknowledgement, query)
    says that every parse of its frame speaks true, by the lemmas on fields and an
    arithmetic one for each scaling; for the queries, the numbers of the codes must
    differ (`QueryKeysDiffer`) and each code must be written the same way by every
    alternative of a set (`AskedForms`) and with the same number of words as it is read.
    `HandleTrue` is the step of one frame at the motor, `HandledTrue` that of a datagram,
    `SamplesAfterTell` that of a datagram received. More commands only add to what was
    given, so what is true stays true (`TruthStays`).
  - `TimeoutFlow`, of the order of the wires, for `TimeoutOnlyWhileProbed`: that the
    probe reads a timeout proves nothing of the motor by itself, since a read may be
    stale and a set may be lost. `Flows` takes, from the host outwards, the last sample,
    the answers under way, the motor's word and the commands under way: each is of the
    old timeout or of the new one, and what comes after something not old is
    new. A loss takes a datagram out and keeps the order; a datagram received or
    handled moves one place along (`HandledTurns` is that of a datagram at the motor:
    it answers with the word it has at each frame, and turns at most once). `From` and `To`
    say which timeouts these are at each step of the program. Seeing the new one in the
    sample ends a flow (everything behind is new: `FlowEnds`) and a set begins the next
    one (`FlowBegins`). It stands on `ProbeInv`, on `Truth` and on that no device takes
    another's answer (`OwnAnswer`).

Assumptions are the `ASSUME`s of the modules (sizes are naturals, addresses are
distinct, the null device is no device), which TLC evaluates in the runs. Those of
`MotorProbe_proofs` say what the C++ types say: a configuration is a record of
sequences with unsigned numbers (`ConfigsAreRecords`), callers pass commands of the
interface (`CallsAreCommands`: numbers or NaN, codes of the enumerations; a raw float
fits the model's sign and magnitude of 31 bits), queries are codes (`QueriesAreCodes`), the
program's own configuration has motors (`ProbingIsPart`) and no other caller
(`ProbeIsAlone`: the process initializes the runtime for itself in its `main`), the accepted models are in the
table of full scales (`KnownModelsInTable`), a port of 0 is never refused and the bound on slots is a number
(`AnyPortIsFree`, `SlotsAreBounded`), a channel's motors fit one datagram
(`BatchFitsDatagram`). Of what is external they say: a motor
keeps words of 16 bits, as many for a code as answer its query (`FactoryIsWords`); its
sensors read within the full scales of its reply's fields (`SensorsFit`: beyond them a
motor has no way to say what it reads); the gateway's noise is made of frames
(`NoiseIsFrames`), and what of it a device would take tells no value (`NoiseSaysNothing`:
otherwise it could tell anything, and the code believes every frame of the address).

What the attempt to prove `CommandsUnderstood` showed: the velocity of a PVT command is
not within one step of its 12-bit field (9 thousandths of a rad/s), as the property
first said, but within one and a half (13). `encode_pvt` scales around 2047 and a motor
reads around the field's middle, 2047.5: 17.995 rad/s arrives 0.0126 off. No run had a
value that near the end of the range; `exchange` has it now. What the attempt to prove
`SamplesTrue` showed: the current of a motion reply, which comes in hundredths of an
ampere, may be 9 thousandths off whatever the model, while the property first allowed a
step of the 12-bit field of a status, which is 6 for the smallest model. The currents of
the run were whole amperes; they no longer are. TLC evaluated the invariants as
invariants of `exchange` before they were proved.

Only model-checked: liveness (`StopReturns` of both channels, `TxSlotComesBack`,
`WaitReturns`, `CallReturns`, `ReplacedIsFreed`, `Finishes`), which is
out of the prover's reach. Every invariant and action property of a passing run is proved.

## 6. Not modelled

The broadcast responses, which the driver parses and throws away; the byte layout of
a datagram's entries and their CRC sum (data without a decision: `FeedbackDispatch` has
datagrams rejected as a whole, `MotorLink` those cut off at a broken entry); the
rounding of a float within the third decimal; IMU (a stub); logging and its
formats; the exception handler of the tuning program's main; in `Topology`, constructors that find no memory or
socket, and a port the system picks that a later channel asks for (`Runtime` has any
constructor fail); trajectories and
statistics; the probe's query of a PVT limit, which falls back on the table. asio,
`std::shared_ptr`, the clock, the gateways and the motors are external and modelled
from their use. Memory ordering is taken as sequentially consistent: shared state is
under locks or in atomics, except `updated_at` and the callback of `udp_channel`.

## 7. Plan

Done: channels, limiter, feedback, commands, runtime, codec and link, both programs,
and the proofs above, which cover every safety property of the runs.

To come: the broadcast responses, once the driver uses them.
