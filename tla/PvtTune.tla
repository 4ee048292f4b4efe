------------------------------ MODULE PvtTune ------------------------------
(***************************************************************************)
(* The tuning program of pvt/motor_pvt_control.cc, which drives each motor *)
(* in turn through the public functions of fleet.h: it reads the limits,   *)
(* lowers the current limit, releases the brake, reads where the motor     *)
(* stands, runs three control loops and cleans up.  With it, the clock and *)
(* what it sees of a motor: a motor answers what it receives, an answer    *)
(* may arrive at any later moment or never, and the cached samples keep    *)
(* the ages of the last answers (FeedbackDispatch).                        *)
(*                                                                         *)
(* Time is counted in ticks and kept relative to the program: what is left *)
(* of a sleep, what is left of a phase, the age of a sample.  A datagram   *)
(* to a motor is applied at once or lost.                                  *)
(***************************************************************************)
EXTENDS Integers, Sequences

CONSTANTS
    Period,         \* command_period
    MaxAge,         \* feedback_max_age
    QueryWait,      \* query_wait
    StartupWait,    \* startup_wait
    MaxStale,       \* max_consecutive_stale_feedback
    Phases,         \* the run_duration of the three loops
    LogQueries,     \* at each printing step, the queries it makes
    MotorCount,     \* pvt_config.motors.size()
    MaxLate,        \* bound: ticks the program falls behind its schedule
    MaxAnswers      \* bound: answers of one kind under way

Printing == {"print_limits", "print_before", "print_after"}
Answer == {"status", "position", "limit", "other"}
Sampled == {"status", "position", "limit"}

ASSUME TimesAreNat ==
    /\ Period \in Nat \ {0} /\ MaxAge \in Nat /\ QueryWait \in Nat /\ StartupWait \in Nat
    /\ MaxStale \in Nat \ {0} /\ Phases \in Seq(Nat) \ {<<>>}
    /\ LogQueries \in [Printing -> Nat] /\ MotorCount \in Nat \ {0}
    /\ MaxLate \in Nat /\ MaxAnswers \in Nat

VARIABLES
    pc, motor,      \* where the program is, and the motor it is at
    queries,        \* queries the printing step has made
    wait,           \* ticks until the program wakes; negative when it is late
    phase, left,    \* the loop it runs, and what is left of its run_duration
    stale,          \* consecutive_stale_feedback
    hasLimit,       \* original_current_limit
    motorOk, ok,    \* motor_ok and ok
    age, coherent, fault,   \* the cached samples: ages, coherence, motor_err
    underWay,       \* answers of each kind that have not arrived
    limited, driven,        \* the motor: limit lowered; last motion command PVT
    answered,       \* history: the query in progress has its answer
    unanswered,     \* history: PVT commands sent since a status arrived
    mishap          \* history: this motor lost a datagram or a cleanup was refused

program == <<motor, queries, phase, left, stale, hasLimit, motorOk, ok>>
samples == <<age, coherent, fault>>
drive == <<limited, driven>>
vars == <<pc, program, wait, samples, underWay, drive, answered, unanswered, mishap>>

Old == MaxAge + 1
NothingSampled == [s \in Sampled |-> Old]

Init ==
    /\ pc = "print_limits" /\ motor = 1 /\ queries = 0 /\ wait = 0
    /\ phase = 1 /\ left = 0 /\ stale = 0
    /\ hasLimit = FALSE /\ motorOk = TRUE /\ ok = TRUE
    /\ age = NothingSampled /\ coherent = FALSE /\ fault = FALSE
    /\ underWay = [a \in Answer |-> 0]
    /\ limited = FALSE /\ driven = FALSE
    /\ answered = FALSE /\ unanswered = 0 /\ mishap = FALSE

\* The program takes its next step at a place once its sleep is over.
At(place) == pc = place /\ wait <= 0
Goto(place) == pc' = place
Sleep(ticks) == wait' = ticks

\* The motor may answer what it was sent.
Expect(a) == underWay' = [underWay EXCEPT ![a] = IF @ < MaxAnswers THEN @ + 1 ELSE @]

\* The runtime took a command that makes the motor's state new, or it is lost.
Deliver(state, new) == \/ state' = new /\ UNCHANGED mishap
                       \/ UNCHANGED state /\ mishap' = TRUE

GiveUp == motorOk' = FALSE /\ Goto("stop")

Fresh(sample) == age[sample] <= MaxAge
-----------------------------------------------------------------------------
(* Preparation *)

AfterPrint == [print_limits |-> "query_limit", print_before |-> "brake",
               print_after |-> "next_motor"]

\* send_query, the result only logged; a query that is refused does not wait.
PrintQuery ==
    /\ \E p \in Printing : At(p) /\ queries < LogQueries[p]
    /\ queries' = queries + 1
    /\ \/ Sleep(QueryWait) /\ \E a \in {"position", "other"} : Expect(a)
       \/ UNCHANGED <<wait, underWay>>
    /\ UNCHANGED <<pc, motor, phase, left, stale, hasLimit, motorOk, ok, samples, drive,
                   answered, unanswered, mishap>>

PrintEnds ==
    /\ \E p \in Printing : At(p) /\ queries = LogQueries[p] /\ Goto(AfterPrint[p])
    /\ queries' = 0
    /\ UNCHANGED <<motor, phase, left, stale, hasLimit, motorOk, ok, wait, samples, underWay,
                   drive, answered, unanswered, mishap>>

\* set_pvt_current_limit asks for the limit first, ...
QueryLimit ==
    /\ At("query_limit")
    /\ Goto("read_limit")
    /\ answered' = FALSE
    /\ \/ Sleep(QueryWait) /\ Expect("limit")
       \/ UNCHANGED <<wait, underWay>>
    /\ UNCHANGED <<program, samples, drive, unanswered, mishap>>

\* ... goes on only with a value that is fresh, ...
LimitRead == Fresh("limit")

\* ... and then sets its own.
SetLimit ==
    /\ At("read_limit")
    /\ Goto("print_before")
    /\ \/ /\ LimitRead
          /\ hasLimit' = TRUE
          /\ Sleep(QueryWait)
          /\ Deliver(limited, TRUE)
          /\ Expect("other")
       \/ UNCHANGED <<hasLimit, wait, limited, mishap, underWay>>   \* stale, or refused
    /\ UNCHANGED <<motor, queries, phase, left, stale, motorOk, ok, samples, driven,
                   answered, unanswered>>

TuneAnyway == TRUE

\* The brake is released in either case; what follows needs the limit too.
MayTune == hasLimit

ReleaseBrake ==
    /\ At("brake")
    /\ \/ /\ Sleep(StartupWait)
          /\ \E a \in {"status", "other"} : Expect(a)
          /\ IF MayTune THEN Goto("query_origin") /\ UNCHANGED motorOk ELSE GiveUp
       \/ GiveUp /\ UNCHANGED <<wait, underWay>>
    /\ UNCHANGED <<motor, queries, phase, left, stale, hasLimit, ok, samples, drive,
                   answered, unanswered, mishap>>

QueryOrigin ==
    /\ At("query_origin")
    /\ \/ /\ Goto("read_origin")
          /\ Sleep(QueryWait)
          /\ Expect("position")
          /\ answered' = FALSE
          /\ UNCHANGED motorOk
       \/ GiveUp /\ UNCHANGED <<wait, underWay, answered>>
    /\ UNCHANGED <<motor, queries, phase, left, stale, hasLimit, ok, samples, drive,
                   unanswered, mishap>>

\* A position that is stale, or out of range, ends the attempt.
ReadOrigin ==
    /\ At("read_origin")
    /\ \/ Fresh("position") /\ Goto("seed") /\ UNCHANGED motorOk
       \/ GiveUp
    /\ UNCHANGED <<motor, queries, phase, left, stale, hasLimit, ok, wait, samples, underWay,
                   drive, answered, unanswered, mishap>>
-----------------------------------------------------------------------------
(* run_stable_pvt_loop *)

\* send_pvt, from the seed of a loop or from one of its cycles.
SendPvt ==
    \/ /\ Deliver(driven, TRUE)
       /\ Expect("status")
       /\ unanswered' = unanswered + 1
       /\ Goto("loop")
       /\ UNCHANGED motorOk
    \/ GiveUp /\ UNCHANGED <<driven, mishap, underWay, unanswered>>

Seed ==
    /\ At("seed")
    /\ SendPvt
    /\ Sleep(0)
    /\ left' = Phases[phase]
    /\ stale' = 0
    /\ UNCHANGED <<motor, queries, phase, hasLimit, ok, samples, limited, answered>>

LeftUncounted == left

LeftAfterCycle == left - Period

\* next_time moves by one period whether or not it is already past.
NextCycle ==
    /\ At("loop")
    /\ Period <= left
    /\ left' = LeftAfterCycle
    /\ Sleep(wait + Period)
    /\ Goto("cycle")
    /\ UNCHANGED <<motor, queries, phase, stale, hasLimit, motorOk, ok, samples, underWay,
                   drive, answered, unanswered, mishap>>

PhaseEnds ==
    /\ At("loop")
    /\ Period > left
    /\ IF phase < Len(Phases) THEN phase' = phase + 1 /\ Goto("seed")
                              ELSE UNCHANGED phase /\ Goto("stop")
    /\ UNCHANGED <<motor, queries, left, stale, hasLimit, motorOk, ok, wait, samples, underWay,
                   drive, answered, unanswered, mishap>>

SnapshotCoherent == coherent

\* pvt_feedback_snapshot::fresh
SnapshotFresh == coherent /\ Fresh("status")

TooStaleLate(n) == n > MaxStale

TooStale(n) == n >= MaxStale

StaleCycle ==
    /\ At("cycle")
    /\ ~SnapshotFresh
    /\ stale' = stale + 1
    /\ IF TooStale(stale + 1) THEN GiveUp ELSE Goto("loop") /\ UNCHANGED motorOk
    /\ UNCHANGED <<motor, queries, phase, left, hasLimit, ok, wait, samples, underWay, drive,
                   answered, unanswered, mishap>>

\* A fresh snapshot; a motor that reports an error is sent nothing.
FreshCycle ==
    /\ At("cycle")
    /\ SnapshotFresh
    /\ stale' = 0
    /\ Goto(IF fault THEN "loop" ELSE "send")
    /\ UNCHANGED <<motor, queries, phase, left, hasLimit, motorOk, ok, wait, samples, underWay,
                   drive, answered, unanswered, mishap>>

SendCycle ==
    /\ At("send")
    /\ SendPvt
    /\ UNCHANGED <<motor, queries, phase, left, stale, hasLimit, ok, wait, samples, limited,
                   answered>>
-----------------------------------------------------------------------------
(* Cleanup *)

RestoreOnlyOk == IF motorOk THEN "restore" ELSE "print_after"

\* Whatever happened, the limit is restored after the stop.
AfterStop == "restore"

\* stop_motor: a refusal is only logged.  The locals of the loop are gone.
StopMotor ==
    /\ At("stop")
    /\ Goto(AfterStop)
    /\ phase' = 1 /\ left' = 0 /\ stale' = 0
    /\ \/ Deliver(driven, FALSE) /\ Expect("status")
       \/ mishap' = TRUE /\ UNCHANGED <<driven, underWay>>
    /\ UNCHANGED <<motor, queries, hasLimit, motorOk, ok, wait, samples, limited, answered, unanswered>>

\* restore_pvt_current_limit
Restore ==
    /\ At("restore")
    /\ Goto("print_after")
    /\ \/ hasLimit /\ Deliver(limited, FALSE) /\ Expect("other")
       \/ hasLimit /\ mishap' = TRUE /\ UNCHANGED <<limited, underWay>>
       \/ ~hasLimit /\ UNCHANGED <<limited, mishap, underWay>>
    /\ UNCHANGED <<program, wait, samples, driven, answered, unanswered>>

\* The next motor is another device with samples of its own.
NextMotor ==
    /\ At("next_motor")
    /\ motor < MotorCount
    /\ motor' = motor + 1
    /\ ok' = (ok /\ motorOk)
    /\ Goto("print_limits") /\ Sleep(0)
    /\ hasLimit' = FALSE /\ motorOk' = TRUE
    /\ age' = NothingSampled /\ coherent' = FALSE /\ fault' = FALSE
    /\ underWay' = [a \in Answer |-> 0]
    /\ limited' = FALSE /\ driven' = FALSE
    /\ answered' = FALSE /\ unanswered' = 0 /\ mishap' = FALSE
    /\ UNCHANGED <<queries, phase, left, stale>>

Finish ==
    /\ At("next_motor")
    /\ motor = MotorCount
    /\ ok' = (ok /\ motorOk)
    /\ Goto("done")
    /\ UNCHANGED <<motor, queries, phase, left, stale, hasLimit, motorOk, wait, samples,
                   underWay, drive, answered, unanswered, mishap>>
-----------------------------------------------------------------------------
(* The motor's answers, and time *)

\* apply_feedback_value: every answer reports motor_err; only a status leaves the
\* four fields of the snapshot with one number.
Arrive(a) ==
    /\ pc # "done" /\ underWay[a] > 0
    /\ underWay' = [underWay EXCEPT ![a] = @ - 1]
    /\ age' = [s \in Sampled |-> IF s = a \/ (a = "status" /\ s = "position")
                                 THEN 0 ELSE age[s]]
    /\ coherent' = (a = "status")
    /\ fault' \in BOOLEAN
    /\ answered' = \/ answered
                   \/ a = "limit" /\ pc = "read_limit"
                   \/ a = "position" /\ pc = "read_origin"
    /\ unanswered' = IF a = "status" THEN 0 ELSE unanswered
    /\ UNCHANGED <<pc, program, wait, drive, mishap>>

Tick ==
    /\ pc # "done"
    /\ wait > -MaxLate
    /\ wait' = wait - 1
    /\ age' = [s \in Sampled |-> IF age[s] < Old THEN age[s] + 1 ELSE Old]
    /\ UNCHANGED <<pc, program, coherent, fault, underWay, drive, answered, unanswered, mishap>>

Program ==
    \/ PrintQuery \/ PrintEnds \/ QueryLimit \/ SetLimit \/ ReleaseBrake
    \/ QueryOrigin \/ ReadOrigin
    \/ Seed \/ NextCycle \/ PhaseEnds \/ StaleCycle \/ FreshCycle \/ SendCycle
    \/ StopMotor \/ Restore \/ NextMotor \/ Finish

Next == Program \/ Tick \/ \E a \in Answer : Arrive(a)

Spec == Init /\ [][Next]_vars

\* The clock ticks and the program runs; nothing is asked of the motors.
FairSpec == Spec /\ WF_vars(Tick) /\ WF_vars(Program)
-----------------------------------------------------------------------------
Place == Printing \cup {"query_limit", "read_limit", "brake", "query_origin", "read_origin",
                     "seed", "loop", "cycle", "send", "stop", "restore", "next_motor", "done"}

\* Types; a loop that goes on has met fewer stale snapshots in a row than it allows.
TypeOK ==
    /\ pc \in Place /\ motor \in 1..MotorCount
    /\ queries \in Nat /\ wait \in Int /\ wait >= -MaxLate
    /\ phase \in 1..Len(Phases) /\ left \in Nat
    /\ stale \in 0..MaxStale
    /\ pc \in {"loop", "cycle", "send"} => stale < MaxStale
    /\ hasLimit \in BOOLEAN /\ motorOk \in BOOLEAN /\ ok \in BOOLEAN
    /\ age \in [Sampled -> 0..Old] /\ coherent \in BOOLEAN /\ fault \in BOOLEAN
    /\ underWay \in [Answer -> 0..MaxAnswers]
    /\ limited \in BOOLEAN /\ driven \in BOOLEAN
    /\ answered \in BOOLEAN /\ unanswered \in Nat /\ mishap \in BOOLEAN

\* A motor that falls silent is soon left alone: whatever the delays, it gets no
\* more PVT commands without a status in between than one for each cycle that can
\* start within MaxAge of the last status, those caught up on after a late wake
\* included, one that was being sent when the status came, and one seed.  As in the
\* code, a sample is stale by the next cycle and each loop is long enough to give up.
SilenceBound ==
    MaxAge < Period /\ (\A p \in DOMAIN Phases : Phases[p] >= MaxStale * Period)
        => unanswered <= (MaxAge + MaxLate) \div Period + 2

\* A motor that nothing was lost for moves only under the lowered limit.
MovesLimited == driven /\ ~mishap => limited

\* However a motor's turn ends, it is stopped and has its limit back, unless a
\* datagram to it was lost or a cleanup command refused.
LeftAsFound == pc \in {"print_after", "next_motor", "done"} /\ ~mishap => ~limited /\ ~driven

\* The program ends, whatever the motors do.
Finishes == <>(pc = "done")

\* device.h says of sample ages that a control loop chooses the threshold that
\* suits the field and the scene.  For a query that is a sleep of query_wait: an
\* answer that arrived in it is usable when the sleep is over.
QueryAnswersUsable ==
    /\ At("read_limit") /\ answered => Fresh("limit")
    /\ At("read_origin") /\ answered => Fresh("position")
=============================================================================
