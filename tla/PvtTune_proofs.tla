-------------------------- MODULE PvtTune_proofs --------------------------
(***************************************************************************)
(* Proofs about PvtTune for all times, loops, motors and numbers of        *)
(* answers: whatever fails, a motor moves only under the lowered limit and *)
(* is left stopped, with its limit back; and a silent one is soon left     *)
(* alone.                                                                  *)
(***************************************************************************)
EXTENDS PvtTune, TLAPS

Before == {"print_limits", "query_limit", "read_limit"}
Tuning == {"query_origin", "read_origin", "seed", "loop", "cycle", "send"}
After == {"print_after", "next_motor", "done"}

\* What the program knows of the limit, and what is true of the motor.
LimitKnown ==
    /\ hasLimit \in BOOLEAN /\ limited \in BOOLEAN /\ driven \in BOOLEAN
    /\ mishap \in BOOLEAN
    /\ pc \in Before => ~hasLimit
    /\ pc \in Tuning => hasLimit
    /\ ~hasLimit => ~limited /\ ~driven
    /\ hasLimit /\ ~mishap /\ pc \notin After => limited
    /\ (pc = "restore" \/ pc \in After) /\ ~mishap => ~driven
    /\ pc \in After /\ ~mishap => ~limited

LEMMA LimitInit == Init => LimitKnown
BY DEF Init, LimitKnown, Before, Tuning, After

\* A PVT command, from a seed or a cycle, keeps what is known.
LEMMA SendLimit ==
    ASSUME LimitKnown, pc \in Tuning, UNCHANGED <<hasLimit, limited>>, SendPvt
    PROVE  LimitKnown'
<1>1. pc' \in {"loop", "stop"} /\ hasLimit /\ driven' \in BOOLEAN /\ mishap' \in BOOLEAN
  BY DEF SendPvt, Deliver, GiveUp, Goto, LimitKnown
<1>2. mishap => mishap'
  BY DEF SendPvt, Deliver, GiveUp, LimitKnown
<1>3. pc \notin Before \cup After /\ pc' \notin Before \cup After \cup {"restore"}
  BY <1>1 DEF Before, Tuning, After
<1> QED
  BY <1>1, <1>2, <1>3 DEF LimitKnown

LEMMA LimitNext ==
    ASSUME LimitKnown, [Next]_vars
    PROVE  LimitKnown'
<1> USE DEF LimitKnown, Before, Tuning, After, At, Goto
<1>1. CASE PrintQuery
  BY <1>1 DEF PrintQuery, samples, drive
<1>2. CASE PrintEnds
  BY <1>2 DEF PrintEnds, Printing, AfterPrint, samples, drive
<1>3. CASE QueryLimit
  BY <1>3 DEF QueryLimit, program, samples, drive
<1>4. CASE SetLimit
  <2>1. pc = "read_limit" /\ pc' = "print_before" /\ UNCHANGED driven
    BY <1>4 DEF SetLimit
  <2>2. CASE hasLimit' = TRUE /\ limited' = TRUE /\ UNCHANGED mishap
    BY <2>1, <2>2
  <2>3. CASE hasLimit' = TRUE /\ UNCHANGED limited /\ mishap' = TRUE
    BY <2>1, <2>3
  <2>4. CASE UNCHANGED <<hasLimit, limited, mishap>>
    BY <2>1, <2>4
  <2> QED
    BY <1>4, <2>2, <2>3, <2>4 DEF SetLimit, Deliver
<1>5. CASE ReleaseBrake
  BY <1>5 DEF ReleaseBrake, GiveUp, MayTune, samples, drive
<1>6. CASE QueryOrigin
  BY <1>6 DEF QueryOrigin, GiveUp, samples, drive
<1>7. CASE ReadOrigin
  BY <1>7 DEF ReadOrigin, GiveUp, samples, drive
<1>8. CASE Seed
  <2>1. pc = "seed" /\ UNCHANGED <<hasLimit, limited>> /\ SendPvt
    BY <1>8 DEF Seed
  <2> QED
    BY <2>1, SendLimit
<1>9. CASE NextCycle
  BY <1>9 DEF NextCycle, samples, drive
<1>10. CASE PhaseEnds
  BY <1>10 DEF PhaseEnds, samples, drive
<1>11. CASE StaleCycle
  BY <1>11 DEF StaleCycle, GiveUp, samples, drive
<1>12. CASE FreshCycle
  BY <1>12 DEF FreshCycle, samples, drive
<1>13. CASE SendCycle
  <2>1. pc = "send" /\ UNCHANGED <<hasLimit, limited>> /\ SendPvt
    BY <1>13 DEF SendCycle
  <2> QED
    BY <2>1, SendLimit
<1>14. CASE StopMotor
  <2>1. pc = "stop" /\ pc' = "restore" /\ UNCHANGED <<hasLimit, limited>>
    BY <1>14 DEF StopMotor, AfterStop
  <2>2. CASE driven' = FALSE /\ UNCHANGED mishap
    BY <2>1, <2>2
  <2>3. CASE UNCHANGED driven /\ mishap' = TRUE
    BY <2>1, <2>3
  <2> QED
    BY <1>14, <2>2, <2>3 DEF StopMotor, Deliver
<1>15. CASE Restore
  <2>1. pc = "restore" /\ pc' = "print_after" /\ UNCHANGED <<hasLimit, driven>>
    BY <1>15 DEF Restore, program
  <2>2. CASE limited' = FALSE /\ UNCHANGED mishap
    BY <2>1, <2>2
  <2>3. CASE UNCHANGED limited /\ mishap' = TRUE
    BY <2>1, <2>3
  <2>4. CASE ~hasLimit /\ UNCHANGED <<limited, mishap>>
    BY <2>1, <2>4
  <2> QED
    BY <1>15, <2>2, <2>3, <2>4 DEF Restore, Deliver
<1>16. CASE NextMotor
  BY <1>16 DEF NextMotor
<1>17. CASE Finish
  BY <1>17 DEF Finish, samples, drive
<1>18. CASE Tick
  BY <1>18 DEF Tick, program, drive
<1>19. ASSUME NEW a \in Answer, Arrive(a) PROVE LimitKnown'
  BY <1>19 DEF Arrive, program, drive
<1>20. CASE UNCHANGED vars
  BY <1>20 DEF vars, program, samples, drive
<1> QED
  BY <1>1, <1>2, <1>3, <1>4, <1>5, <1>6, <1>7, <1>8, <1>9, <1>10, <1>11, <1>12, <1>13,
     <1>14, <1>15, <1>16, <1>17, <1>18, <1>19, <1>20 DEF Next, Program

LEMMA LimitAlways == Spec => []LimitKnown
BY LimitInit, LimitNext, PTL DEF Spec

\* Whatever fails and however late the program is, a motor that nothing was lost
\* for moves only under the lowered current limit (run and run_pvt_tuning).
THEOREM MovesLimitedCorrect == Spec => []MovesLimited
<1>1. LimitKnown => MovesLimited
  BY DEF LimitKnown, MovesLimited, After
<1> QED
  BY LimitAlways, <1>1, PTL

\* However a motor's turn ends, cleanup has stopped it and restored its limit,
\* unless a datagram to it was lost or a cleanup command refused.
THEOREM LeftAsFoundCorrect == Spec => []LeftAsFound
<1>1. LimitKnown => LeftAsFound
  BY DEF LimitKnown, LeftAsFound, After
<1> QED
  BY LimitAlways, <1>1, PTL
-----------------------------------------------------------------------------
\* An answer is put under way, within the bound.
LEMMA ExpectType ==
    ASSUME TypeOK, NEW a \in Answer, Expect(a)
    PROVE  underWay' \in [Answer -> 0..MaxAnswers]
BY TimesAreNat DEF TypeOK, Expect

\* What the clock does to an age, and what an answer does.
LEMMA TickType ==
    ASSUME TypeOK, Tick
    PROVE  age' \in [Sampled -> 0..Old] /\ wait' \in Int /\ wait' >= -MaxLate
BY TimesAreNat DEF TypeOK, Tick, Old

LEMMA ArriveType ==
    ASSUME TypeOK, NEW a \in Answer, Arrive(a)
    PROVE  /\ age' \in [Sampled -> 0..Old]
           /\ underWay' \in [Answer -> 0..MaxAnswers]
           /\ coherent' \in BOOLEAN /\ answered' \in BOOLEAN /\ unanswered' \in Nat
<1>1. age' \in [Sampled -> 0..Old]
  BY TimesAreNat DEF TypeOK, Arrive, Old
<1>2. underWay' \in [Answer -> 0..MaxAnswers]
  BY TimesAreNat DEF TypeOK, Arrive
<1>3. coherent' \in BOOLEAN /\ answered' \in BOOLEAN /\ unanswered' \in Nat
  BY DEF TypeOK, Arrive
<1> QED
  BY <1>1, <1>2, <1>3

\* TypeOK in two parts: the program, and the motor with what is seen of it.
ProgramType ==
    /\ pc \in Place /\ motor \in 1..MotorCount
    /\ queries \in Nat /\ wait \in Int /\ wait >= -MaxLate
    /\ phase \in 1..Len(Phases) /\ left \in Nat
    /\ stale \in 0..MaxStale
    /\ pc \in {"loop", "cycle", "send"} => stale < MaxStale
    /\ hasLimit \in BOOLEAN /\ motorOk \in BOOLEAN /\ ok \in BOOLEAN

MotorType ==
    /\ age \in [Sampled -> 0..Old] /\ coherent \in BOOLEAN /\ fault \in BOOLEAN
    /\ underWay \in [Answer -> 0..MaxAnswers]
    /\ limited \in BOOLEAN /\ driven \in BOOLEAN
    /\ answered \in BOOLEAN /\ unanswered \in Nat /\ mishap \in BOOLEAN

LEMMA TypeInit == Init => TypeOK
<1> SUFFICES ASSUME Init PROVE TypeOK
  OBVIOUS
<1>1. age \in [Sampled -> 0..Old]
  BY TimesAreNat DEF Init, NothingSampled, Old
<1>2. underWay \in [Answer -> 0..MaxAnswers]
  BY TimesAreNat DEF Init
<1>3. /\ wait \in Int /\ wait >= -MaxLate /\ phase \in 1..Len(Phases)
      /\ motor \in 1..MotorCount /\ stale \in 0..MaxStale
  BY TimesAreNat DEF Init
<1> QED
  BY <1>1, <1>2, <1>3 DEF Init, TypeOK, Place, Printing

\* What the assumption on the constants says of each.
LEMMA Times ==
    /\ Period \in Nat /\ QueryWait \in Nat /\ StartupWait \in Nat /\ MaxLate \in Nat
    /\ MaxStale \in Nat /\ MaxStale > 0 /\ MotorCount \in Nat /\ MotorCount > 0
    /\ Len(Phases) \in Nat /\ Len(Phases) > 0 /\ \A p \in 1..Len(Phases) : Phases[p] \in Nat
<1>1. Phases \in Seq(Nat) /\ Phases # <<>>
  BY TimesAreNat
<1>2. Len(Phases) \in Nat /\ Len(Phases) > 0 /\ \A p \in 1..Len(Phases) : Phases[p] \in Nat
  BY <1>1
<1> QED
  BY <1>2, TimesAreNat

\* A PVT command keeps the types of what it may change of the motor.
LEMMA SendType ==
    ASSUME MotorType, SendPvt
    PROVE  driven' \in BOOLEAN /\ mishap' \in BOOLEAN /\ unanswered' \in Nat
<1>1. driven' \in BOOLEAN /\ mishap' \in BOOLEAN
  BY DEF SendPvt, Deliver, GiveUp, MotorType
<1>2. unanswered \in Nat
  BY DEF MotorType
<1>3. unanswered' = unanswered + 1 \/ unanswered' = unanswered
  BY DEF SendPvt
<1>4. unanswered' \in Nat
  BY <1>2, <1>3
<1> QED
  BY <1>1, <1>4

LEMMA TypeNext ==
    ASSUME TypeOK, [Next]_vars
    PROVE  TypeOK'
<1>0. ProgramType /\ MotorType
  BY DEF TypeOK, ProgramType, MotorType
<1>1. CASE PrintQuery
  <2>1. underWay' \in [Answer -> 0..MaxAnswers]
    BY <1>0, <1>1, ExpectType DEF PrintQuery, Answer, MotorType
  <2>2. pc' \in Place
    BY <1>0, <1>1 DEF PrintQuery, Goto, Place, Printing, ProgramType
  <2>3. wait' \in Int /\ wait' >= -MaxLate
    BY <1>0, <1>1, Times DEF PrintQuery, Sleep, At, ProgramType
  <2>4. hasLimit' \in BOOLEAN /\ motorOk' \in BOOLEAN /\ ok' \in BOOLEAN
    BY <1>0, <1>1 DEF PrintQuery, ProgramType
  <2>5. /\ motor' \in 1..MotorCount /\ queries' \in Nat
        /\ phase' \in 1..Len(Phases) /\ left' \in Nat /\ stale' \in 0..MaxStale
        /\ pc' \in {"loop", "cycle", "send"} => stale' < MaxStale
    BY <1>0, <1>1, Times DEF PrintQuery, Goto, At, Printing, ProgramType
  <2>6. ProgramType'
    BY <2>2, <2>3, <2>4, <2>5 DEF ProgramType
  <2>7. MotorType'
    BY <1>0, <1>1, <2>1 DEF PrintQuery, samples, drive, MotorType
  <2> QED
    BY <2>6, <2>7 DEF TypeOK, ProgramType, MotorType
<1>2. CASE PrintEnds
  <2>1. pc' \in Place
    BY <1>0, <1>2 DEF PrintEnds, AfterPrint, Goto, Place, Printing, ProgramType
  <2>2. wait' \in Int /\ wait' >= -MaxLate
    BY <1>0, <1>2, Times DEF PrintEnds, Sleep, At, ProgramType
  <2>3. hasLimit' \in BOOLEAN /\ motorOk' \in BOOLEAN /\ ok' \in BOOLEAN
    BY <1>0, <1>2 DEF PrintEnds, ProgramType
  <2>4. /\ motor' \in 1..MotorCount /\ queries' \in Nat
        /\ phase' \in 1..Len(Phases) /\ left' \in Nat /\ stale' \in 0..MaxStale
        /\ pc' \in {"loop", "cycle", "send"} => stale' < MaxStale
    BY <1>0, <1>2, Times DEF PrintEnds, AfterPrint, Goto, At, Printing, ProgramType
  <2>5. ProgramType'
    BY <2>1, <2>2, <2>3, <2>4 DEF ProgramType
  <2>6. MotorType'
    BY <1>0, <1>2 DEF PrintEnds, samples, drive, MotorType
  <2> QED
    BY <2>5, <2>6 DEF TypeOK, ProgramType, MotorType
<1>3. CASE QueryLimit
  <2>1. underWay' \in [Answer -> 0..MaxAnswers]
    BY <1>0, <1>3, ExpectType DEF QueryLimit, program, Answer, MotorType
  <2>2. pc' \in Place
    BY <1>0, <1>3 DEF QueryLimit, Goto, Place, Printing, ProgramType
  <2>3. wait' \in Int /\ wait' >= -MaxLate
    BY <1>0, <1>3, Times DEF QueryLimit, program, Sleep, At, ProgramType
  <2>4. hasLimit' \in BOOLEAN /\ motorOk' \in BOOLEAN /\ ok' \in BOOLEAN
    BY <1>0, <1>3 DEF QueryLimit, program, ProgramType
  <2>5. /\ motor' \in 1..MotorCount /\ queries' \in Nat
        /\ phase' \in 1..Len(Phases) /\ left' \in Nat /\ stale' \in 0..MaxStale
        /\ pc' \in {"loop", "cycle", "send"} => stale' < MaxStale
    BY <1>0, <1>3, Times DEF QueryLimit, program, Goto, At, Printing, ProgramType
  <2>6. ProgramType'
    BY <2>2, <2>3, <2>4, <2>5 DEF ProgramType
  <2>7. MotorType'
    BY <1>0, <1>3, <2>1 DEF QueryLimit, samples, drive, MotorType
  <2> QED
    BY <2>6, <2>7 DEF TypeOK, ProgramType, MotorType
<1>4. CASE SetLimit
  <2>1. underWay' \in [Answer -> 0..MaxAnswers]
    BY <1>0, <1>4, ExpectType DEF SetLimit, Answer, MotorType
  <2>2. pc' \in Place
    BY <1>0, <1>4 DEF SetLimit, Deliver, Goto, Place, Printing, ProgramType
  <2>3. wait' = QueryWait \/ wait' = wait
    BY <1>4 DEF SetLimit, Sleep
  <2>4. wait' \in Int /\ wait' >= -MaxLate
    BY <1>0, <2>3, Times DEF ProgramType
  <2>5. hasLimit' \in BOOLEAN /\ motorOk' \in BOOLEAN /\ ok' \in BOOLEAN
    BY <1>0, <1>4 DEF SetLimit, ProgramType
  <2>6. /\ motor' \in 1..MotorCount /\ queries' \in Nat
        /\ phase' \in 1..Len(Phases) /\ left' \in Nat /\ stale' \in 0..MaxStale
        /\ pc' \in {"loop", "cycle", "send"} => stale' < MaxStale
    BY <1>0, <1>4, Times DEF SetLimit, Deliver, Goto, At, Printing, ProgramType
  <2>7. ProgramType'
    BY <2>2, <2>4, <2>5, <2>6 DEF ProgramType
  <2>8. MotorType'
    BY <1>0, <1>4, <2>1 DEF SetLimit, Deliver, samples, MotorType
  <2> QED
    BY <2>7, <2>8 DEF TypeOK, ProgramType, MotorType
<1>5. CASE ReleaseBrake
  <2>1. underWay' \in [Answer -> 0..MaxAnswers]
    BY <1>0, <1>5, ExpectType DEF ReleaseBrake, Answer, MotorType
  <2>2. pc' \in Place
    BY <1>0, <1>5 DEF ReleaseBrake, GiveUp, Goto, Place, Printing, ProgramType
  <2>3. wait' \in Int /\ wait' >= -MaxLate
    BY <1>0, <1>5, Times DEF ReleaseBrake, Sleep, At, ProgramType
  <2>4. hasLimit' \in BOOLEAN /\ motorOk' \in BOOLEAN /\ ok' \in BOOLEAN
    BY <1>0, <1>5 DEF ReleaseBrake, GiveUp, ProgramType
  <2>5. /\ motor' \in 1..MotorCount /\ queries' \in Nat
        /\ phase' \in 1..Len(Phases) /\ left' \in Nat /\ stale' \in 0..MaxStale
        /\ pc' \in {"loop", "cycle", "send"} => stale' < MaxStale
    BY <1>0, <1>5, Times DEF ReleaseBrake, GiveUp, Goto, At, Printing, ProgramType
  <2>6. ProgramType'
    BY <2>2, <2>3, <2>4, <2>5 DEF ProgramType
  <2>7. MotorType'
    BY <1>0, <1>5, <2>1 DEF ReleaseBrake, GiveUp, samples, drive, MotorType
  <2> QED
    BY <2>6, <2>7 DEF TypeOK, ProgramType, MotorType
<1>6. CASE QueryOrigin
  <2>1. underWay' \in [Answer -> 0..MaxAnswers]
    BY <1>0, <1>6, ExpectType DEF QueryOrigin, Answer, MotorType
  <2>2. pc' \in Place
    BY <1>0, <1>6 DEF QueryOrigin, GiveUp, Goto, Place, Printing, ProgramType
  <2>3. wait' \in Int /\ wait' >= -MaxLate
    BY <1>0, <1>6, Times DEF QueryOrigin, Sleep, At, ProgramType
  <2>4. hasLimit' \in BOOLEAN /\ motorOk' \in BOOLEAN /\ ok' \in BOOLEAN
    BY <1>0, <1>6 DEF QueryOrigin, GiveUp, ProgramType
  <2>5. /\ motor' \in 1..MotorCount /\ queries' \in Nat
        /\ phase' \in 1..Len(Phases) /\ left' \in Nat /\ stale' \in 0..MaxStale
        /\ pc' \in {"loop", "cycle", "send"} => stale' < MaxStale
    BY <1>0, <1>6, Times DEF QueryOrigin, GiveUp, Goto, At, Printing, ProgramType
  <2>6. ProgramType'
    BY <2>2, <2>3, <2>4, <2>5 DEF ProgramType
  <2>7. MotorType'
    BY <1>0, <1>6, <2>1 DEF QueryOrigin, GiveUp, samples, drive, MotorType
  <2> QED
    BY <2>6, <2>7 DEF TypeOK, ProgramType, MotorType
<1>7. CASE ReadOrigin
  <2>1. pc' \in Place
    BY <1>0, <1>7 DEF ReadOrigin, GiveUp, Goto, Place, Printing, ProgramType
  <2>2. wait' \in Int /\ wait' >= -MaxLate
    BY <1>0, <1>7, Times DEF ReadOrigin, Sleep, At, ProgramType
  <2>3. hasLimit' \in BOOLEAN /\ motorOk' \in BOOLEAN /\ ok' \in BOOLEAN
    BY <1>0, <1>7 DEF ReadOrigin, GiveUp, ProgramType
  <2>4. /\ motor' \in 1..MotorCount /\ queries' \in Nat
        /\ phase' \in 1..Len(Phases) /\ left' \in Nat /\ stale' \in 0..MaxStale
        /\ pc' \in {"loop", "cycle", "send"} => stale' < MaxStale
    BY <1>0, <1>7, Times DEF ReadOrigin, GiveUp, Goto, At, Printing, ProgramType
  <2>5. ProgramType'
    BY <2>1, <2>2, <2>3, <2>4 DEF ProgramType
  <2>6. MotorType'
    BY <1>0, <1>7 DEF ReadOrigin, GiveUp, samples, drive, MotorType
  <2> QED
    BY <2>5, <2>6 DEF TypeOK, ProgramType, MotorType
<1>8. CASE Seed
  <2>1. underWay' \in [Answer -> 0..MaxAnswers]
    BY <1>0, <1>8, ExpectType DEF Seed, SendPvt, GiveUp, Answer, MotorType
  <2>2. pc' \in Place
    BY <1>0, <1>8 DEF Seed, SendPvt, Deliver, GiveUp, Goto, Place, Printing, ProgramType
  <2>3. wait' \in Int /\ wait' >= -MaxLate
    BY <1>0, <1>8, Times DEF Seed, Sleep, At, ProgramType
  <2>4. hasLimit' \in BOOLEAN /\ motorOk' \in BOOLEAN /\ ok' \in BOOLEAN
    BY <1>0, <1>8 DEF Seed, SendPvt, GiveUp, ProgramType
  <2>5. /\ motor' \in 1..MotorCount /\ queries' \in Nat
        /\ phase' \in 1..Len(Phases) /\ left' \in Nat /\ stale' \in 0..MaxStale
        /\ pc' \in {"loop", "cycle", "send"} => stale' < MaxStale
    BY <1>0, <1>8, Times DEF Seed, SendPvt, Deliver, GiveUp, Goto, At, Printing, ProgramType
  <2>6. ProgramType'
    BY <2>2, <2>3, <2>4, <2>5 DEF ProgramType
  <2>7. driven' \in BOOLEAN /\ mishap' \in BOOLEAN /\ unanswered' \in Nat
    BY <1>0, <1>8, SendType DEF Seed
  <2>8. MotorType'
    BY <1>0, <1>8, <2>1, <2>7 DEF Seed, samples, MotorType
  <2> QED
    BY <2>6, <2>8 DEF TypeOK, ProgramType, MotorType
<1>9. CASE NextCycle
  <2>1. pc' \in Place
    BY <1>0, <1>9 DEF NextCycle, Goto, Place, Printing, ProgramType
  <2>2. wait' \in Int /\ wait' >= -MaxLate
    BY <1>0, <1>9, Times DEF NextCycle, Sleep, At, ProgramType
  <2>3. hasLimit' \in BOOLEAN /\ motorOk' \in BOOLEAN /\ ok' \in BOOLEAN
    BY <1>0, <1>9 DEF NextCycle, ProgramType
  <2>4. /\ motor' \in 1..MotorCount /\ queries' \in Nat
        /\ phase' \in 1..Len(Phases) /\ left' \in Nat /\ stale' \in 0..MaxStale
        /\ pc' \in {"loop", "cycle", "send"} => stale' < MaxStale
    BY <1>0, <1>9, Times DEF NextCycle, LeftAfterCycle, Goto, At, Printing, ProgramType
  <2>5. ProgramType'
    BY <2>1, <2>2, <2>3, <2>4 DEF ProgramType
  <2>6. MotorType'
    BY <1>0, <1>9 DEF NextCycle, samples, drive, MotorType
  <2> QED
    BY <2>5, <2>6 DEF TypeOK, ProgramType, MotorType
<1>10. CASE PhaseEnds
  <2>1. pc' \in Place
    BY <1>0, <1>10 DEF PhaseEnds, Goto, Place, Printing, ProgramType
  <2>2. wait' \in Int /\ wait' >= -MaxLate
    BY <1>0, <1>10, Times DEF PhaseEnds, Sleep, At, ProgramType
  <2>3. hasLimit' \in BOOLEAN /\ motorOk' \in BOOLEAN /\ ok' \in BOOLEAN
    BY <1>0, <1>10 DEF PhaseEnds, ProgramType
  <2>4. /\ motor' \in 1..MotorCount /\ queries' \in Nat
        /\ phase' \in 1..Len(Phases) /\ left' \in Nat /\ stale' \in 0..MaxStale
        /\ pc' \in {"loop", "cycle", "send"} => stale' < MaxStale
    BY <1>0, <1>10, Times DEF PhaseEnds, Goto, At, Printing, ProgramType
  <2>5. ProgramType'
    BY <2>1, <2>2, <2>3, <2>4 DEF ProgramType
  <2>6. MotorType'
    BY <1>0, <1>10 DEF PhaseEnds, samples, drive, MotorType
  <2> QED
    BY <2>5, <2>6 DEF TypeOK, ProgramType, MotorType
<1>11. CASE StaleCycle
  <2>1. pc' \in Place
    BY <1>0, <1>11 DEF StaleCycle, GiveUp, Goto, Place, Printing, ProgramType
  <2>2. wait' \in Int /\ wait' >= -MaxLate
    BY <1>0, <1>11, Times DEF StaleCycle, Sleep, At, ProgramType
  <2>3. hasLimit' \in BOOLEAN /\ motorOk' \in BOOLEAN /\ ok' \in BOOLEAN
    BY <1>0, <1>11 DEF StaleCycle, GiveUp, ProgramType
  <2>4. /\ motor' \in 1..MotorCount /\ queries' \in Nat
        /\ phase' \in 1..Len(Phases) /\ left' \in Nat /\ stale' \in 0..MaxStale
        /\ pc' \in {"loop", "cycle", "send"} => stale' < MaxStale
    BY <1>0, <1>11, Times DEF StaleCycle, TooStale, GiveUp, Goto, At, Printing, ProgramType
  <2>5. ProgramType'
    BY <2>1, <2>2, <2>3, <2>4 DEF ProgramType
  <2>6. MotorType'
    BY <1>0, <1>11 DEF StaleCycle, GiveUp, samples, drive, MotorType
  <2> QED
    BY <2>5, <2>6 DEF TypeOK, ProgramType, MotorType
<1>12. CASE FreshCycle
  <2>1. pc' \in Place
    BY <1>0, <1>12 DEF FreshCycle, Goto, Place, Printing, ProgramType
  <2>2. wait' \in Int /\ wait' >= -MaxLate
    BY <1>0, <1>12, Times DEF FreshCycle, Sleep, At, ProgramType
  <2>3. hasLimit' \in BOOLEAN /\ motorOk' \in BOOLEAN /\ ok' \in BOOLEAN
    BY <1>0, <1>12 DEF FreshCycle, ProgramType
  <2>4. /\ motor' \in 1..MotorCount /\ queries' \in Nat
        /\ phase' \in 1..Len(Phases) /\ left' \in Nat /\ stale' \in 0..MaxStale
        /\ pc' \in {"loop", "cycle", "send"} => stale' < MaxStale
    BY <1>0, <1>12, Times DEF FreshCycle, Goto, At, Printing, ProgramType
  <2>5. ProgramType'
    BY <2>1, <2>2, <2>3, <2>4 DEF ProgramType
  <2>6. MotorType'
    BY <1>0, <1>12 DEF FreshCycle, samples, drive, MotorType
  <2> QED
    BY <2>5, <2>6 DEF TypeOK, ProgramType, MotorType
<1>13. CASE SendCycle
  <2>1. underWay' \in [Answer -> 0..MaxAnswers]
    BY <1>0, <1>13, ExpectType DEF SendCycle, SendPvt, GiveUp, Answer, MotorType
  <2>2. pc' \in Place
    BY <1>0, <1>13 DEF SendCycle, SendPvt, Deliver, GiveUp, Goto, Place, Printing, ProgramType
  <2>3. wait' \in Int /\ wait' >= -MaxLate
    BY <1>0, <1>13, Times DEF SendCycle, Sleep, At, ProgramType
  <2>4. hasLimit' \in BOOLEAN /\ motorOk' \in BOOLEAN /\ ok' \in BOOLEAN
    BY <1>0, <1>13 DEF SendCycle, SendPvt, GiveUp, ProgramType
  <2>5. /\ motor' \in 1..MotorCount /\ queries' \in Nat
        /\ phase' \in 1..Len(Phases) /\ left' \in Nat /\ stale' \in 0..MaxStale
        /\ pc' \in {"loop", "cycle", "send"} => stale' < MaxStale
    BY <1>0, <1>13, Times DEF SendCycle, SendPvt, Deliver, GiveUp, Goto, At, Printing, ProgramType
  <2>6. ProgramType'
    BY <2>2, <2>3, <2>4, <2>5 DEF ProgramType
  <2>7. driven' \in BOOLEAN /\ mishap' \in BOOLEAN /\ unanswered' \in Nat
    BY <1>0, <1>13, SendType DEF SendCycle
  <2>8. MotorType'
    BY <1>0, <1>13, <2>1, <2>7 DEF SendCycle, samples, MotorType
  <2> QED
    BY <2>6, <2>8 DEF TypeOK, ProgramType, MotorType
<1>14. CASE StopMotor
  <2>1. underWay' \in [Answer -> 0..MaxAnswers]
    BY <1>0, <1>14, ExpectType DEF StopMotor, Answer, MotorType
  <2>2. pc' \in Place
    BY <1>0, <1>14 DEF StopMotor, AfterStop, Deliver, Goto, Place, Printing, ProgramType
  <2>3. wait' \in Int /\ wait' >= -MaxLate
    BY <1>0, <1>14, Times DEF StopMotor, Sleep, At, ProgramType
  <2>4. hasLimit' \in BOOLEAN /\ motorOk' \in BOOLEAN /\ ok' \in BOOLEAN
    BY <1>0, <1>14 DEF StopMotor, ProgramType
  <2>5. /\ motor' \in 1..MotorCount /\ queries' \in Nat
        /\ phase' \in 1..Len(Phases) /\ left' \in Nat /\ stale' \in 0..MaxStale
        /\ pc' \in {"loop", "cycle", "send"} => stale' < MaxStale
    BY <1>0, <1>14, Times DEF StopMotor, AfterStop, Deliver, Goto, At, Printing, ProgramType
  <2>6. ProgramType'
    BY <2>2, <2>3, <2>4, <2>5 DEF ProgramType
  <2>7. MotorType'
    BY <1>0, <1>14, <2>1 DEF StopMotor, Deliver, samples, MotorType
  <2> QED
    BY <2>6, <2>7 DEF TypeOK, ProgramType, MotorType
<1>15. CASE Restore
  <2>1. underWay' \in [Answer -> 0..MaxAnswers]
    BY <1>0, <1>15, ExpectType DEF Restore, program, Answer, MotorType
  <2>2. pc' \in Place
    BY <1>0, <1>15 DEF Restore, Deliver, Goto, Place, Printing, ProgramType
  <2>3. wait' \in Int /\ wait' >= -MaxLate
    BY <1>0, <1>15, Times DEF Restore, program, Sleep, At, ProgramType
  <2>4. hasLimit' \in BOOLEAN /\ motorOk' \in BOOLEAN /\ ok' \in BOOLEAN
    BY <1>0, <1>15 DEF Restore, program, ProgramType
  <2>5. /\ motor' \in 1..MotorCount /\ queries' \in Nat
        /\ phase' \in 1..Len(Phases) /\ left' \in Nat /\ stale' \in 0..MaxStale
        /\ pc' \in {"loop", "cycle", "send"} => stale' < MaxStale
    BY <1>0, <1>15, Times DEF Restore, Deliver, program, Goto, At, Printing, ProgramType
  <2>6. ProgramType'
    BY <2>2, <2>3, <2>4, <2>5 DEF ProgramType
  <2>7. MotorType'
    BY <1>0, <1>15, <2>1 DEF Restore, Deliver, samples, MotorType
  <2> QED
    BY <2>6, <2>7 DEF TypeOK, ProgramType, MotorType
<1>16. CASE NextMotor
  <2>1. age' \in [Sampled -> 0..Old] /\ underWay' \in [Answer -> 0..MaxAnswers]
    BY <1>16, TimesAreNat DEF NextMotor, NothingSampled, Old
  <2>2. pc' \in Place
    BY <1>0, <1>16 DEF NextMotor, Goto, Place, Printing, ProgramType
  <2>3. wait' \in Int /\ wait' >= -MaxLate
    BY <1>0, <1>16, Times DEF NextMotor, Sleep, At, ProgramType
  <2>4. hasLimit' \in BOOLEAN /\ motorOk' \in BOOLEAN /\ ok' \in BOOLEAN
    BY <1>0, <1>16 DEF NextMotor, ProgramType
  <2>5. /\ motor' \in 1..MotorCount /\ queries' \in Nat
        /\ phase' \in 1..Len(Phases) /\ left' \in Nat /\ stale' \in 0..MaxStale
        /\ pc' \in {"loop", "cycle", "send"} => stale' < MaxStale
    BY <1>0, <1>16, Times DEF NextMotor, Goto, At, Printing, ProgramType
  <2>6. ProgramType'
    BY <2>2, <2>3, <2>4, <2>5 DEF ProgramType
  <2>7. MotorType'
    BY <1>0, <1>16, <2>1 DEF NextMotor, MotorType
  <2> QED
    BY <2>6, <2>7 DEF TypeOK, ProgramType, MotorType
<1>17. CASE Finish
  <2>1. pc' \in Place
    BY <1>0, <1>17 DEF Finish, Goto, Place, Printing, ProgramType
  <2>2. wait' \in Int /\ wait' >= -MaxLate
    BY <1>0, <1>17, Times DEF Finish, Sleep, At, ProgramType
  <2>3. hasLimit' \in BOOLEAN /\ motorOk' \in BOOLEAN /\ ok' \in BOOLEAN
    BY <1>0, <1>17 DEF Finish, ProgramType
  <2>4. /\ motor' \in 1..MotorCount /\ queries' \in Nat
        /\ phase' \in 1..Len(Phases) /\ left' \in Nat /\ stale' \in 0..MaxStale
        /\ pc' \in {"loop", "cycle", "send"} => stale' < MaxStale
    BY <1>0, <1>17, Times DEF Finish, Goto, At, Printing, ProgramType
  <2>5. ProgramType'
    BY <2>1, <2>2, <2>3, <2>4 DEF ProgramType
  <2>6. MotorType'
    BY <1>0, <1>17 DEF Finish, samples, drive, MotorType
  <2> QED
    BY <2>5, <2>6 DEF TypeOK, ProgramType, MotorType
<1>18. CASE Tick
  <2>1. pc' \in Place
    BY <1>0, <1>18 DEF Tick, Goto, Place, Printing, ProgramType
  <2>2. wait' \in Int /\ wait' >= -MaxLate
    BY <1>0, <1>18, Times, TickType DEF Tick, program, Sleep, At, ProgramType
  <2>3. hasLimit' \in BOOLEAN /\ motorOk' \in BOOLEAN /\ ok' \in BOOLEAN
    BY <1>0, <1>18 DEF Tick, program, ProgramType
  <2>4. /\ motor' \in 1..MotorCount /\ queries' \in Nat
        /\ phase' \in 1..Len(Phases) /\ left' \in Nat /\ stale' \in 0..MaxStale
        /\ pc' \in {"loop", "cycle", "send"} => stale' < MaxStale
    BY <1>0, <1>18, Times DEF Tick, program, Goto, At, Printing, ProgramType
  <2>5. ProgramType'
    BY <2>1, <2>2, <2>3, <2>4 DEF ProgramType
  <2>6. MotorType'
    BY <1>0, <1>18, TickType DEF Tick, drive, MotorType
  <2> QED
    BY <2>5, <2>6 DEF TypeOK, ProgramType, MotorType
<1>19. ASSUME NEW a \in Answer, Arrive(a) PROVE TypeOK'
  <2>1. ProgramType'
    BY <1>0, <1>19 DEF Arrive, program, ProgramType
  <2>2. fault' \in BOOLEAN /\ UNCHANGED <<limited, driven, mishap>>
    BY <1>19 DEF Arrive, drive
  <2>3. MotorType'
    BY <1>0, <1>19, <2>2, ArriveType DEF MotorType
  <2> QED
    BY <2>1, <2>3 DEF TypeOK, ProgramType, MotorType
<1>20. CASE UNCHANGED vars
  <2>1. ProgramType' /\ MotorType'
    BY <1>0, <1>20 DEF vars, program, samples, drive, ProgramType, MotorType
  <2> QED
    BY <2>1 DEF TypeOK, ProgramType, MotorType
<1> QED
  BY <1>1, <1>2, <1>3, <1>4, <1>5, <1>6, <1>7, <1>8, <1>9, <1>10, <1>11, <1>12, <1>13,
     <1>14, <1>15, <1>16, <1>17, <1>18, <1>19, <1>20 DEF Next, Program

\* Types for all values of the constants: no schedule runs out of its loop, and a
\* loop that goes on has met fewer stale snapshots in a row than it allows.
THEOREM TypeCorrect == Spec => []TypeOK
BY TypeInit, TypeNext, PTL DEF Spec
-----------------------------------------------------------------------------
(* How many PVT commands a silent motor gets, in ticks: a command counts as much *)
(* as a period, so that what is compared is linear in what a step changes.       *)

LongEnough == MaxAge < Period /\ \A p \in DOMAIN Phases : Phases[p] >= MaxStale * Period

Ticks(n) == n * Period
Slack == MaxAge + MaxLate
Since == age["status"]

\* A status came not long before: each command since then is paid by the time that
\* passed, but for credit.
Recent(credit) ==
    /\ Ticks(unanswered) <= Slack + Period
    /\ Since <= MaxAge => Ticks(unanswered) + MaxAge - Since - wait <= Slack + credit

\* The loop was seeded and no status came: it gives up before it ends, and the last
\* status is stale when the cycle after this one looks.
Seeded(due, more) ==
    /\ Ticks(MaxStale - stale) <= left + more
    /\ Since <= MaxAge => due <= Since + wait

Preparing == Before \cup {"print_before", "brake", "query_origin", "read_origin"}

SilenceInv ==
    /\ Ticks(unanswered) <= Slack + Period + Period
    /\ pc \in Preparing => unanswered = 0
    /\ pc = "seed" => Ticks(unanswered) <= Slack + Period
    /\ pc \in {"loop", "send"} => wait <= 0
    /\ pc = "loop" => Recent(Period) \/ (Seeded(0, 0) /\ (stale = 0 \/ Since > MaxAge))
    /\ pc = "cycle" => Recent(0) \/ Seeded(Period, Period)
    /\ pc = "send" => Recent(0) /\ Ticks(unanswered) <= Slack

\* One more command is one more period.
LEMMA TicksLinear ==
    /\ \A n \in Nat : Ticks(n) \in Nat /\ Ticks(n + 1) = Ticks(n) + Period
    /\ Ticks(0) = 0
    /\ \A n \in Nat : n > 0 => Ticks(n) >= Period /\ Ticks(n) = Ticks(n - 1) + Period
<1>1. Period \in Nat
  BY Times
<1>2. ASSUME NEW n \in Nat PROVE Ticks(n) \in Nat /\ Ticks(n + 1) = Ticks(n) + Period
  <2>1. Ticks(n) = n * Period /\ Ticks(n + 1) = (n + 1) * Period
    BY DEF Ticks
  <2>2. (n + 1) * Period = n * Period + Period /\ n * Period \in Nat
    BY <1>1
  <2> QED
    BY <2>1, <2>2
<1>3. Ticks(0) = 0
  BY <1>1 DEF Ticks
<1>4. ASSUME NEW n \in Nat, n > 0
      PROVE  Ticks(n) >= Period /\ Ticks(n) = Ticks(n - 1) + Period
  <2>1. n - 1 \in Nat /\ (n - 1) + 1 = n
    BY <1>4
  <2>2. Ticks(n - 1) \in Nat /\ Ticks((n - 1) + 1) = Ticks(n - 1) + Period
    BY <1>2, <2>1
  <2>3. Ticks(n) = Ticks(n - 1) + Period
    BY <2>1, <2>2
  <2> QED
    BY <1>1, <2>2, <2>3
<1> QED
  BY <1>2, <1>3, <1>4

\* The numbers a step may compare.
Numbers ==
    /\ Period \in Nat /\ Period > 0 /\ MaxAge \in Nat /\ MaxLate \in Nat /\ MaxStale \in Nat
    /\ MaxStale > 0 /\ Slack = MaxAge + MaxLate
    /\ Since \in 0..Old /\ Old = MaxAge + 1 /\ wait \in Int /\ wait >= -MaxLate
    /\ left \in Nat /\ stale \in 0..MaxStale /\ unanswered \in Nat /\ Ticks(unanswered) \in Nat
    /\ pc \in {"loop", "cycle", "send"} => stale < MaxStale

\* They are numbers, before a step and after it.
LEMMA NumbersAlways ==
    ASSUME TypeOK
    PROVE  Numbers
<1>1. age["status"] \in 0..Old
  BY DEF TypeOK, Sampled
<1>2. Ticks(unanswered) \in Nat
  BY TicksLinear DEF TypeOK
<1> QED
  BY <1>1, <1>2, TimesAreNat DEF TypeOK, Numbers, Slack, Since, Old

LEMMA NumbersNext ==
    ASSUME TypeOK'
    PROVE  Numbers'
<1>1. age["status"]' \in 0..Old
  BY DEF TypeOK, Sampled
<1>2. Ticks(unanswered)' \in Nat
  BY TicksLinear DEF TypeOK
<1> QED
  BY <1>1, <1>2, TimesAreNat DEF TypeOK, Numbers, Slack, Since, Old

LEMMA SilenceInit == Init => SilenceInv
<1> SUFFICES ASSUME Init PROVE SilenceInv
  OBVIOUS
<1>1. unanswered = 0 /\ pc = "print_limits" /\ Ticks(unanswered) = 0
  BY TicksLinear DEF Init
<1>2. Slack \in Nat /\ Period \in Nat
  BY TimesAreNat DEF Slack
<1> QED
  BY <1>1, <1>2 DEF SilenceInv

\* A step to a place where nothing more is sent, or where nothing was sent before.
LEMMA QuietPlace ==
    ASSUME TypeOK, SilenceInv, UNCHANGED unanswered,
           \/ pc' \in Place \ {"seed", "loop", "cycle", "send"} /\ (pc' \in Preparing => pc \in Preparing)
           \/ pc \in Preparing /\ pc' = "seed"
    PROVE  SilenceInv'
<1>1. Ticks(unanswered)' = Ticks(unanswered)
  BY DEF Ticks
<1>2. Slack \in Nat /\ Period \in Nat
  BY TimesAreNat DEF Slack
<1>3. CASE pc' \in Place \ {"seed", "loop", "cycle", "send"} /\ (pc' \in Preparing => pc \in Preparing)
  BY <1>1, <1>2, <1>3 DEF SilenceInv, Slack
<1>4. CASE pc \in Preparing /\ pc' = "seed"
  <2>1. unanswered = 0 /\ Ticks(unanswered) = 0
    BY <1>4, TicksLinear DEF SilenceInv
  <2> QED
    BY <1>1, <1>2, <1>4, <2>1 DEF SilenceInv, Slack, Preparing, Before
<1> QED
  BY <1>3, <1>4

\* The same for two numbers that differ by one, however they are written.
LEMMA TicksUp ==
    ASSUME NEW n \in Nat, NEW m \in Nat, m = n + 1
    PROVE  Ticks(m) = Ticks(n) + Period /\ Ticks(n) \in Nat
BY TicksLinear

\* A PVT command was sent, from a seed or a cycle, or refused.
LEMMA SendSilence ==
    ASSUME TypeOK, SilenceInv, SendPvt, UNCHANGED age, TypeOK',
           \/ pc = "seed" /\ wait' = 0 /\ stale' = 0 /\ LongEnough
              /\ left' \in Nat /\ MaxStale * Period <= left'
           \/ pc = "send" /\ UNCHANGED <<wait, left, stale>>
    PROVE  SilenceInv'
<1>0. Numbers /\ Numbers'
  BY NumbersAlways, NumbersNext
<1>1. Since' = Since /\ Slack' = Slack
  BY DEF Since, Slack
<1>2. CASE GiveUp /\ UNCHANGED unanswered
  <2>1. pc' = "stop"
    BY <1>2 DEF GiveUp, Goto
  <2> QED
    BY <1>2, <2>1, QuietPlace DEF Place, Preparing, Before
<1>3. CASE pc' = "loop" /\ unanswered' = unanswered + 1
  <2>1. Ticks(unanswered') = Ticks(unanswered) + Period
    BY <1>0, <1>3, TicksLinear DEF Numbers
  <2>2. CASE pc = "seed"
    <3>1. Ticks(unanswered) <= Slack + Period
      BY <2>2 DEF SilenceInv
    <3>2. Ticks(unanswered') <= Slack + Period + Period
      BY <1>0, <2>1, <3>1 DEF Numbers
    <3>3. Ticks(MaxStale - stale') <= left' + 0
      <4>1. MaxStale - stale' = MaxStale
        BY <1>0, <2>2 DEF Numbers
      <4>2. Ticks(MaxStale - stale') = MaxStale * Period
        BY <4>1 DEF Ticks
      <4>3. MaxStale * Period <= left' /\ left' + 0 = left'
        BY <2>2
      <4> QED
        BY <4>2, <4>3, Zenon
    <3>4. 0 <= Since' + wait' /\ wait' <= 0 /\ stale' = 0
      BY <1>0, <1>1, <2>2 DEF Numbers
    <3>5. Seeded(0, 0)'
      BY <3>3, <3>4 DEF Seeded
    <3> QED
      BY <1>1, <1>3, <3>2, <3>4, <3>5 DEF SilenceInv, Preparing, Before
  <2>3. CASE pc = "send"
    <3>1. Ticks(unanswered) <= Slack /\ wait <= 0 /\ UNCHANGED wait
      BY <2>3 DEF SilenceInv
    <3>2. Since <= MaxAge => Ticks(unanswered) + MaxAge - Since - wait <= Slack + 0
      BY <2>3 DEF SilenceInv, Recent
    <3>3. Ticks(unanswered') <= Slack + Period
      BY <1>0, <2>1, <3>1 DEF Numbers
    <3>4. Since' <= MaxAge
          => Ticks(unanswered') + MaxAge - Since' - wait' <= Slack + Period
      BY <1>0, <1>1, <2>1, <3>1, <3>2 DEF Numbers
    <3>5. Recent(Period)'
      BY <1>1, <3>3, <3>4 DEF Recent
    <3>6. Ticks(unanswered') <= Slack + Period + Period
      BY <1>0, <3>3, <2>1 DEF Numbers
    <3> QED
      BY <1>1, <1>3, <3>1, <3>5, <3>6 DEF SilenceInv, Preparing, Before
  <2> QED
    BY <2>2, <2>3
<1> QED
  BY <1>2, <1>3 DEF SendPvt, Goto

\* The loop waits for its next cycle.
LEMMA NextCycleSilence ==
    ASSUME TypeOK, SilenceInv, NextCycle, TypeOK'
    PROVE  SilenceInv'
<1>0. Numbers /\ Numbers'
  BY NumbersAlways, NumbersNext
<1>1. Since' = Since /\ Slack' = Slack /\ unanswered' = unanswered /\ stale' = stale
  BY DEF NextCycle, samples, Since, Slack
<1>2. pc = "loop" /\ pc' = "cycle" /\ wait' = wait + Period /\ left' = left - Period
  BY DEF NextCycle, At, Goto, Sleep, LeftAfterCycle
<1>3. CASE Recent(Period)
  <2>1. Recent(0)'
    BY <1>0, <1>1, <1>2, <1>3 DEF Recent, Numbers
  <2> QED
    BY <1>1, <1>2, <2>1 DEF SilenceInv, Preparing, Before
<1>4. CASE Seeded(0, 0)
  <2>1. MaxStale - stale \in Nat
    BY <1>0 DEF Numbers
  <2>2. Ticks(MaxStale - stale) \in Nat
    BY <2>1, TicksLinear
  <2>3. Seeded(Period, Period)'
    BY <1>0, <1>1, <1>2, <1>4, <2>2 DEF Seeded, Numbers
  <2> QED
    BY <1>1, <1>2, <2>3 DEF SilenceInv, Preparing, Before
<1> QED
  BY <1>2, <1>3, <1>4 DEF SilenceInv

\* A loop ends: it was not waiting for the first status after its seed, or it would
\* have given up, as it is long enough for that.
LEMMA PhaseEndsSilence ==
    ASSUME TypeOK, SilenceInv, PhaseEnds, LongEnough, TypeOK'
    PROVE  SilenceInv'
<1>0. Numbers /\ Numbers'
  BY NumbersAlways, NumbersNext
<1>1. pc = "loop" /\ left < Period /\ UNCHANGED unanswered
  BY <1>0 DEF PhaseEnds, At, Numbers
<1>2. ~Seeded(0, 0)
  <2>1. MaxStale - stale \in Nat /\ MaxStale - stale > 0
    BY <1>0, <1>1 DEF Numbers
  <2>2. Ticks(MaxStale - stale) >= Period /\ Ticks(MaxStale - stale) \in Nat
    BY <2>1, TicksLinear
  <2> QED
    BY <1>0, <1>1, <2>2 DEF Seeded, Numbers
<1>3. Ticks(unanswered) <= Slack + Period
  BY <1>1, <1>2 DEF SilenceInv, Recent
<1>4. CASE pc' = "seed"
  BY <1>1, <1>3, <1>4 DEF SilenceInv, Preparing, Before, Slack
<1>5. CASE pc' = "stop"
  BY <1>1, <1>5, QuietPlace DEF Place, Preparing, Before
<1> QED
  BY <1>4, <1>5 DEF PhaseEnds, Goto

\* A cycle that finds the snapshot stale, and one that finds it fresh.
LEMMA CycleSilence ==
    ASSUME TypeOK, SilenceInv, StaleCycle \/ FreshCycle, LongEnough, TypeOK'
    PROVE  SilenceInv'
<1>0. Numbers /\ Numbers' /\ MaxAge < Period
  BY NumbersAlways, NumbersNext DEF LongEnough
<1>1. Since' = Since /\ Slack' = Slack /\ unanswered' = unanswered /\ wait' = wait
      /\ left' = left
  BY DEF StaleCycle, FreshCycle, samples, Since, Slack
<1>2. pc = "cycle" /\ wait <= 0
  BY DEF StaleCycle, FreshCycle, At
<1>3. Recent(0) \/ Seeded(Period, Period)
  BY <1>2 DEF SilenceInv
<1>4. Seeded(Period, Period) => Since > MaxAge
  BY <1>0, <1>2 DEF Seeded, Numbers
<1>5. Recent(0) => Recent(Period)'
  BY <1>0, <1>1 DEF Recent, Numbers
<1>6. CASE StaleCycle
  <2>1. stale' = stale + 1
    BY <1>6 DEF StaleCycle
  <2>2. CASE pc' = "stop"
    BY <1>1, <2>2, QuietPlace DEF Place, Preparing, Before
  <2>3. CASE pc' = "loop"
    <3>1. ASSUME Seeded(Period, Period) PROVE Seeded(0, 0)' /\ Since' > MaxAge
      <4>1. MaxStale - stale \in Nat /\ MaxStale - stale > 0
            /\ (MaxStale - stale) - 1 = MaxStale - stale'
        BY <1>0, <1>2, <2>1 DEF Numbers
      <4>2. Ticks(MaxStale - stale) = Ticks(MaxStale - stale') + Period
            /\ Ticks(MaxStale - stale') \in Nat
        <5>1. MaxStale \in Nat /\ stale \in 0..MaxStale /\ stale < MaxStale
          BY <1>0, <1>2 DEF Numbers
        <5>2. MaxStale - stale' \in Nat /\ MaxStale - stale = (MaxStale - stale') + 1
          BY <2>1, <5>1
        <5> QED
          BY <4>1, <5>2, TicksUp
      <4>3. Ticks(MaxStale - stale) <= left + Period
        BY <3>1 DEF Seeded
      <4>4. Ticks(MaxStale - stale') <= left' + 0
        BY <1>0, <1>1, <4>2, <4>3 DEF Numbers
      <4>5. Since' > MaxAge
        BY <1>1, <1>4, <3>1
      <4>6. ~(Since' <= MaxAge)
        BY <1>0, <4>5 DEF Numbers
      <4> QED
        BY <4>4, <4>5, <4>6 DEF Seeded
    <3> QED
      BY <1>1, <1>2, <1>3, <1>5, <2>3, <3>1 DEF SilenceInv, Preparing, Before
  <2> QED
    BY <1>6, <2>2, <2>3 DEF StaleCycle, GiveUp, Goto
<1>7. CASE FreshCycle
  <2>1. Since <= MaxAge
    BY <1>7 DEF FreshCycle, SnapshotFresh, Fresh, Since
  <2>2. Recent(0)
    BY <1>0, <1>3, <1>4, <2>1 DEF Numbers
  <2>3. Recent(0)' /\ Recent(Period)'
    BY <1>1, <1>5, <2>2 DEF Recent
  <2>4. Ticks(unanswered) <= Slack
    BY <1>0, <1>2, <2>1, <2>2 DEF Recent, Numbers
  <2>5. pc' \in {"loop", "send"}
    BY <1>7 DEF FreshCycle, Goto
  <2> QED
    BY <1>1, <1>2, <2>3, <2>4, <2>5 DEF SilenceInv, Preparing, Before
<1> QED
  BY <1>6, <1>7

\* An answer arrives: a status pays for everything.
LEMMA ArriveSilence ==
    ASSUME TypeOK, SilenceInv, NEW a \in Answer, Arrive(a), TypeOK'
    PROVE  SilenceInv'
<1>0. Numbers /\ Numbers'
  BY NumbersAlways, NumbersNext
<1>1. Slack' = Slack /\ pc' = pc /\ wait' = wait /\ left' = left /\ stale' = stale
  BY DEF Arrive, program, Slack
<1>2. CASE a = "status"
  <2>1. Since' = 0 /\ unanswered' = 0
    BY <1>2 DEF Arrive, Since, Sampled
  <2>2. Ticks(unanswered') = 0
    BY <2>1, TicksLinear
  <2>3. Recent(0)' /\ Recent(Period)'
    BY <1>0, <1>1, <2>1, <2>2 DEF Recent, Numbers
  <2>4. Slack \in Nat /\ Period \in Nat
    BY <1>0 DEF Numbers
  <2>5. Ticks(unanswered') <= Slack /\ Ticks(unanswered') <= Slack + Period
        /\ Ticks(unanswered') <= Slack + Period + Period
    BY <2>2, <2>4
  <2> QED
    BY <1>1, <2>1, <2>3, <2>5 DEF SilenceInv
<1>3. CASE a # "status"
  <2>1. Since' = Since /\ unanswered' = unanswered
    BY <1>3 DEF Arrive, Since, Sampled
  <2> QED
    BY <1>1, <2>1 DEF SilenceInv, Recent, Seeded
<1> QED
  BY <1>2, <1>3

\* Time passes: a wait shrinks by what an age grows.
LEMMA TickSilence ==
    ASSUME TypeOK, SilenceInv, Tick, TypeOK'
    PROVE  SilenceInv'
<1>0. Numbers /\ Numbers'
  BY NumbersAlways, NumbersNext
<1>1. Slack' = Slack /\ pc' = pc /\ wait' = wait - 1 /\ left' = left /\ stale' = stale
      /\ unanswered' = unanswered
  BY DEF Tick, program, Slack
<1>2. Since' = IF Since < Old THEN Since + 1 ELSE Old
  BY DEF Tick, Since, Sampled
<1>3. /\ Since' <= MaxAge => Since <= MaxAge /\ Since' + wait' = Since + wait
      /\ Since > MaxAge => Since' > MaxAge
      /\ wait <= 0 => wait' <= 0
  BY <1>0, <1>1, <1>2 DEF Numbers
<1>4. Recent(0) => Recent(0)'
  BY <1>0, <1>1, <1>2, <1>3 DEF Recent, Numbers
<1>5. Recent(Period) => Recent(Period)'
  BY <1>0, <1>1, <1>2, <1>3 DEF Recent, Numbers
<1>6. (Seeded(0, 0) => Seeded(0, 0)') /\ (Seeded(Period, Period) => Seeded(Period, Period)')
  BY <1>0, <1>1, <1>2, <1>3 DEF Seeded, Numbers
<1> QED
  BY <1>1, <1>3, <1>4, <1>5, <1>6 DEF SilenceInv

LEMMA SilenceNext ==
    ASSUME TypeOK, SilenceInv, LongEnough, [Next]_vars
    PROVE  SilenceInv'
<1>0. TypeOK'
  BY TypeNext
<1>1. CASE PrintQuery
  <2>1. pc \in Printing /\ pc' = pc /\ UNCHANGED unanswered
    BY <1>1 DEF PrintQuery, At
  <2> QED
    BY <2>1, QuietPlace DEF Printing, Place
<1>2. CASE PrintEnds
  <2>1. \E p \in Printing : pc = p /\ pc' = AfterPrint[p]
    BY <1>2 DEF PrintEnds, At, Goto
  <2>2. UNCHANGED unanswered
    BY <1>2 DEF PrintEnds
  <2> QED
    BY <2>1, <2>2, QuietPlace DEF Printing, Place, AfterPrint, Preparing, Before
<1>3. CASE QueryLimit
  BY <1>3, QuietPlace DEF QueryLimit, At, Goto, Place, Preparing, Before
<1>4. CASE SetLimit
  <2>1. pc = "read_limit" /\ pc' = "print_before" /\ UNCHANGED unanswered
    BY <1>4 DEF SetLimit, At, Goto
  <2> QED
    BY <2>1, QuietPlace DEF Place, Printing, Preparing, Before
<1>5. CASE ReleaseBrake
  <2>1. pc = "brake" /\ pc' \in {"query_origin", "stop"} /\ UNCHANGED unanswered
    BY <1>5 DEF ReleaseBrake, At, Goto, GiveUp
  <2> QED
    BY <2>1, QuietPlace DEF Place, Preparing, Before
<1>6. CASE QueryOrigin
  <2>1. pc = "query_origin" /\ pc' \in {"read_origin", "stop"} /\ UNCHANGED unanswered
    BY <1>6 DEF QueryOrigin, At, Goto, GiveUp
  <2> QED
    BY <2>1, QuietPlace DEF Place, Preparing, Before
<1>7. CASE ReadOrigin
  <2>1. pc = "read_origin" /\ pc' \in {"seed", "stop"} /\ UNCHANGED unanswered
    BY <1>7 DEF ReadOrigin, At, Goto, GiveUp
  <2> QED
    BY <2>1, QuietPlace DEF Place, Preparing, Before
<1>8. CASE Seed
  <2>1. pc = "seed" /\ wait' = 0 /\ stale' = 0 /\ left' = Phases[phase] /\ SendPvt
        /\ UNCHANGED age
    BY <1>8 DEF Seed, At, Sleep, samples
  <2>2. phase \in 1..Len(Phases) /\ DOMAIN Phases = 1..Len(Phases)
    BY TimesAreNat DEF TypeOK
  <2>3. MaxStale * Period <= Phases[phase] /\ Phases[phase] \in Nat
    BY <2>2, Times DEF LongEnough
  <2> QED
    BY <1>0, <2>1, <2>3, SendSilence
<1>9. CASE NextCycle
  BY <1>0, <1>9, NextCycleSilence
<1>10. CASE PhaseEnds
  BY <1>0, <1>10, PhaseEndsSilence
<1>11. CASE StaleCycle \/ FreshCycle
  BY <1>0, <1>11, CycleSilence
<1>12. CASE SendCycle
  <2>1. pc = "send" /\ UNCHANGED <<wait, left, stale, age>> /\ SendPvt
    BY <1>12 DEF SendCycle, At, samples
  <2> QED
    BY <1>0, <2>1, SendSilence
<1>13. CASE StopMotor
  <2>1. pc' = "restore" /\ UNCHANGED unanswered
    BY <1>13 DEF StopMotor, Goto, AfterStop
  <2> QED
    BY <2>1, QuietPlace DEF Place, Preparing, Before
<1>14. CASE Restore
  <2>1. pc' = "print_after" /\ UNCHANGED unanswered
    BY <1>14 DEF Restore, Goto
  <2> QED
    BY <2>1, QuietPlace DEF Place, Printing, Preparing, Before
<1>15. CASE NextMotor
  <2>1. pc' = "print_limits" /\ unanswered' = 0
    BY <1>15 DEF NextMotor, Goto
  <2>2. Ticks(unanswered') = 0
    BY <2>1, TicksLinear
  <2>3. Slack \in Nat /\ Period \in Nat
    BY TimesAreNat DEF Slack
  <2>4. Ticks(unanswered') <= Slack + Period + Period
    BY <2>2, <2>3
  <2> QED
    BY <2>1, <2>4 DEF SilenceInv, Slack
<1>16. CASE Finish
  <2>1. pc' = "done" /\ UNCHANGED unanswered
    BY <1>16 DEF Finish, Goto
  <2> QED
    BY <2>1, QuietPlace DEF Place, Preparing, Before
<1>17. CASE Tick
  BY <1>0, <1>17, TickSilence
<1>18. ASSUME NEW a \in Answer, Arrive(a) PROVE SilenceInv'
  BY <1>0, <1>18, ArriveSilence
<1>19. CASE UNCHANGED vars
  BY <1>19 DEF vars, program, samples, SilenceInv, Recent, Seeded, Since, Slack
<1> QED
  BY <1>1, <1>2, <1>3, <1>4, <1>5, <1>6, <1>7, <1>8, <1>9, <1>10, <1>11, <1>12, <1>13,
     <1>14, <1>15, <1>16, <1>17, <1>18, <1>19 DEF Next, Program

\* What is less in ticks is less in commands.
LEMMA CountedInPeriods ==
    ASSUME NEW n \in Nat, NEW c \in Nat, Ticks(n) <= c + Period + Period
    PROVE  n <= c \div Period + 2
<1> DEFINE q == c \div Period
<1>1. Period \in Nat /\ Period > 0
  BY TimesAreNat
<1>2. q \in Nat /\ c < q * Period + Period
  BY <1>1
<1> HIDE DEF q
<1>3. ASSUME n >= q + 3 PROVE FALSE
  <2>1. n * Period >= (q + 3) * Period
    BY <1>1, <1>2, <1>3
  <2>2. (q + 3) * Period = q * Period + Period + Period + Period
    BY <1>1, <1>2
  <2>3. q * Period \in Nat
    BY <1>1, <1>2
  <2> QED
    BY <1>1, <1>2, <2>1, <2>2, <2>3 DEF Ticks
<1>4. n <= q + 2
  BY <1>2, <1>3
<1> QED
  BY <1>4 DEF q

\* A motor that falls silent is soon left alone, for all periods, ages, loops and
\* delays under which a sample is stale by the next cycle and a loop can give up.
THEOREM SilenceCorrect == Spec => []SilenceBound
<1> DEFINE Inv == TypeOK /\ (LongEnough => SilenceInv)
<1>1. Init => Inv
  BY TypeInit, SilenceInit
<1>2. Inv /\ [Next]_vars => Inv'
  <2> SUFFICES ASSUME Inv, [Next]_vars PROVE Inv'
    OBVIOUS
  <2>1. TypeOK'
    BY TypeNext
  <2>2. LongEnough' => LongEnough
    BY DEF LongEnough
  <2>3. LongEnough => SilenceInv'
    BY SilenceNext
  <2> QED
    BY <2>1, <2>2, <2>3
<1>3. Inv => SilenceBound
  <2> SUFFICES ASSUME TypeOK, LongEnough, SilenceInv
               PROVE  unanswered <= (MaxAge + MaxLate) \div Period + 2
    BY DEF SilenceBound, LongEnough
  <2>1. unanswered \in Nat /\ MaxAge + MaxLate \in Nat
    BY TimesAreNat DEF TypeOK
  <2>2. Ticks(unanswered) <= (MaxAge + MaxLate) + Period + Period
    BY DEF SilenceInv, Slack
  <2> QED
    BY <2>1, <2>2, CountedInPeriods
<1> HIDE DEF Inv
<1> QED
  BY <1>1, <1>2, <1>3, PTL DEF Spec

=============================================================================
