----------------------------- MODULE MotorProbe -----------------------------
(***************************************************************************)
(* pvt/motor_probe.cc, the diagnostic program, over MotorLink: it queries  *)
(* each motor, changes its command timeout and restores it, then sends     *)
(* every kind of control command and drives the motors slowly for a while. *)
(*                                                                         *)
(* The program sleeps a fixed time after each query and looks at the last  *)
(* sample then; the answer may have come or not.  A send may be refused    *)
(* by any channel.                                                         *)
(***************************************************************************)
EXTENDS MotorLink

CONSTANTS
    Probing,        \* the configurations the program is run with
    Queries,        \* what run() queries of each motor
    MaxRounds       \* velocity_control_duration / velocity_control_period

\* The program's own configuration has motors.
ASSUME ProbingIsPart == Probing \subseteq {c \in Config : Len(c.motors) > 0}
\* The program is the only client of its runtime.
ASSUME ProbeIsAlone == DOMAIN Calling \cap Probing = {}
ASSUME QueriesAreCodes == Queries \in Seq(DOMAIN QueryCode) \ {<<>>}
ASSUME RoundsArePositive == MaxRounds \in Nat \ {0}

VARIABLES
    step,           \* what the program does next
    slept,          \* whether it has sent the query of this step
    at,             \* the motor it is at
    index,          \* the query, batch or round it is at
    original,       \* run_can_timeout_config_probe: the timeout it found
    ok

probe == <<step, slept, at, index, original, ok>>
allVars == <<vars, link, probe>>

None == "none"

ProbeInit ==
    /\ LinkInit
    /\ step = "query" /\ slept = FALSE
    /\ at = 1 /\ index = 1
    /\ original = None
    /\ ok = TRUE

Running == phase = "bound" /\ config \in Probing

Goto(where, device, i) == step' = where /\ at' = device /\ index' = i /\ slept' = FALSE

\* The next motor, or the control commands after the last one.
NextMotor ==
    IF at < Len(config.motors) THEN Goto("query", at + 1, 1) ELSE Goto("smoke", 1, 1)

Failed == ok' = FALSE

\* A step of the timeout probe fails: it returns without restoring anything.
GiveUpMotor == Failed /\ NextMotor /\ UNCHANGED original
-----------------------------------------------------------------------------
(* run_query *)

QuerySteps == {"query", "find", "verify", "restored", "velocity"}

CodeAsked == CASE step = "query" -> Queries[index]
               [] step = "velocity" -> "velocity"
               [] OTHER -> "can_timeout"

Refused(batch) == {CommandChannel(d) : d \in DOMAIN batch}

AskFailed ==
    /\ Failed
    /\ CASE step = "query" /\ index < Len(Queries) -> Goto("query", at, index + 1)
         [] step = "query" /\ index = Len(Queries) -> Goto("find", at, 1)
         [] step = "velocity" /\ at < Len(config.motors) -> Goto("velocity", at + 1, 1)
         [] step = "velocity" /\ at = Len(config.motors) -> Goto("done", at, 1)
         [] OTHER -> NextMotor
    /\ UNCHANGED original

Ask ==
    /\ Running /\ RoomOnWire /\ step \in QuerySteps /\ ~slept
    /\ LET query == [d \in {at} |-> [type |-> "query", code |-> CodeAsked]]
       IN  \/ /\ Transmit(query, {})
              /\ slept' = TRUE
              /\ UNCHANGED <<step, at, index, original, ok>>
           \/ Transmit(query, Refused(query)) /\ AskFailed
    /\ UNCHANGED <<topology, calls>>

\* print_query_result: a sample is there, whenever it came.
HasSample(code) == code \in DOMAIN samples[at]

Look ==
    /\ Running /\ slept /\ step \in {"query", "velocity"}
    /\ LET passed == HasSample(CodeAsked)
       IN  /\ ok' = (ok /\ passed)
           /\ CASE step = "query" /\ index < Len(Queries) -> Goto("query", at, index + 1)
                [] step = "query" /\ index = Len(Queries) -> Goto("find", at, 1)
                [] step = "velocity" /\ at < Len(config.motors) -> Goto("velocity", at + 1, 1)
                [] OTHER -> Goto("done", at, 1)
    /\ UNCHANGED <<topology, link, original>>
-----------------------------------------------------------------------------
(* run_can_timeout_config_probe *)

Temporary == IF original = 1000 THEN 1200 ELSE 1000

SetTimeout(value) == [type |-> "config", kind |-> "milliseconds", code |-> "can_timeout",
                      values |-> <<value>>]

\* The timeout of the motor as last received.
Timeout == samples[at]["can_timeout"]

FindTimeout ==
    /\ Running /\ slept /\ step = "find"
    /\ IF HasSample("can_timeout")
       THEN original' = Timeout /\ Goto("set", at, 1) /\ UNCHANGED ok
       ELSE GiveUpMotor
    /\ UNCHANGED <<topology, link>>

\* The sets of the temporary and of the original timeout.
SendTimeout ==
    /\ Running /\ RoomOnWire /\ step \in {"set", "restore"}
    /\ LET batch == [d \in {at} |-> SetTimeout(IF step = "set" THEN Temporary ELSE original)]
       IN  \/ /\ Transmit(batch, {})
              /\ Goto(IF step = "set" THEN "verify" ELSE "restored", at, 1)
              /\ UNCHANGED <<original, ok>>
           \/ Transmit(batch, Refused(batch)) /\ GiveUpMotor
    /\ UNCHANGED <<topology, calls>>

AnyTimeout(value) == HasSample("can_timeout")

\* The timeout last received is the one just set.
TimeoutIs(value) == HasSample("can_timeout") /\ Timeout = value

VerifyTimeout ==
    /\ Running /\ slept /\ step = "verify"
    /\ IF TimeoutIs(Temporary)
       THEN Goto("restore", at, 1) /\ UNCHANGED <<original, ok>>
       ELSE GiveUpMotor
    /\ UNCHANGED <<topology, link>>

VerifyRestored ==
    /\ Running /\ slept /\ step = "restored"
    /\ IF TimeoutIs(original) THEN NextMotor /\ UNCHANGED <<original, ok>> ELSE GiveUpMotor
    /\ UNCHANGED <<topology, link>>
-----------------------------------------------------------------------------
(* run_control_command_probe and run_low_speed_velocity_probe *)

DriveSlowly == [type |-> "velocity", velocity |-> 5000, current_limit |-> 800,
                reply |-> "status1"]

\* The batches of run_control_command_probe, in order.  The last is logged as
\* a release of the brakes and asks for them to be closed.
SmokeCommand(device) == <<
    [type |-> "pvt", kp |-> 0, kd |-> 0, position |-> 0, velocity |-> 0, torque |-> 0],
    [type |-> "position", velocity_limit |-> 5000, current_limit |-> 800, reply |-> "status1",
     position |-> IF "position" \in DOMAIN samples[device] THEN samples[device].position ELSE 0],
    DriveSlowly,
    [type |-> "torque", torque |-> 0, reply |-> "status1"],
    [type |-> "current", current |-> 0, reply |-> "status1"],
    [type |-> "brake", control |-> "engage", current_threshold |-> 0, open |-> FALSE,
     reply |-> "none"]>>

SmokeBatches == 6

SendSmoke ==
    /\ Running /\ RoomOnWire /\ step = "smoke"
    /\ \E busy \in SUBSET ChannelNames :
          /\ Transmit([d \in Device |-> SmokeCommand(d)[index]], busy)
          /\ ok' = (ok /\ busy = {})
    /\ IF index < SmokeBatches THEN Goto("smoke", 1, index + 1) ELSE Goto("drive", 1, 1)
    /\ UNCHANGED <<topology, calls, original>>

\* One round of the loop; a refused batch ends it at once, and no query follows.
Drive ==
    /\ Running /\ RoomOnWire /\ step = "drive" /\ index <= MaxRounds
    /\ \E busy \in SUBSET ChannelNames :
          /\ Transmit([d \in Device |-> DriveSlowly], busy)
          /\ IF busy = {} THEN Goto("drive", 1, index + 1) /\ UNCHANGED ok
                          ELSE Failed /\ Goto("done", 1, 1)
    /\ UNCHANGED <<topology, calls, original>>

\* The duration is over, after fewer rounds when the thread wakes late.
DriveEnds ==
    /\ Running /\ step = "drive" /\ index > 1
    /\ Goto("velocity", 1, 1)
    /\ UNCHANGED <<topology, link, original, ok>>

ProbeStep ==
    Ask \/ Look \/ FindTimeout \/ SendTimeout \/ VerifyTimeout \/ VerifyRestored
    \/ SendSmoke \/ Drive \/ DriveEnds

ProbeNext == (LinkNext /\ UNCHANGED probe) \/ ProbeStep

ProbeSpec == ProbeInit /\ [][ProbeNext]_allVars
-----------------------------------------------------------------------------
\* While the probe has met no error, only the motor it is at may have another
\* command timeout than it was found with, and no motor is driven with one: a
\* probe that passes leaves every timeout as found, although its reads may be
\* stale and its sets may be lost.
TimeoutOnlyWhileProbed ==
    config \in Probing => \A d \in Device :
        motors[d].words.can_timeout # Factory.can_timeout =>
            ~ok \/ (d = at /\ step \in {"verify", "restore", "restored"})
=============================================================================
