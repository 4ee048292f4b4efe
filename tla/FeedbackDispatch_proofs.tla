---------------------- MODULE FeedbackDispatch_proofs ----------------------
(***************************************************************************)
(* For every set of motors, addresses and datagrams: the types hold, what  *)
(* a thread reads never goes back, a coherent snapshot is one status frame *)
(* of its motor, samples are those of the newest frames, and times follow  *)
(* numbers.                                                                *)
(***************************************************************************)
EXTENDS FeedbackDispatch, SequenceTheorems, TLAPS

USE AddressesDistinct, NoMotorIsNone, PacketsAreDatagrams, BoundsAreNat

\* A route leads to the motor configured with that address.
RoutesRight == \A a \in Address : routes[a] # NoMotor => AddressOf[routes[a]] = a

\* The frame being applied is one that a bound motor can take.
ApplyingKnown ==
    rx = "applying" => /\ Len(log) > 0
                       /\ Target \in Motor
                       /\ Current.body # Unparsable

\* Numbers are handed out at most once per frame, and frames are bounded.
Budget ==
    /\ Len(log) + Len(rest) <= MaxFrames
    /\ \A m \in Motor : sampleSeq[m] <= Len(log)

\* Where a sample came from.
Origins ==
    \A m \in Motor, f \in Field :
        \/ sample[m][f] = Never
        \/ LET s == sample[m][f]
           IN  /\ s.seq > 0 /\ s.seq <= sampleSeq[m]
               /\ s.value \in 1..Len(log)
               /\ log[s.value].address = AddressOf[m]
               /\ log[s.value].body # Unparsable
               /\ f \in Reports(log[s.value].body)
               /\ s.time <= receivedAt

\* The number in hand while a frame is applied is newer than every sample's.
NumberIsNew ==
    rx = "applying" => \A f \in Field : sample[Target][f].seq < sampleSeq[Target]

\* One number, one frame.
NumberNamesFrame ==
    \A m \in Motor : \A f, g \in Field :
        sample[m][f].seq = sample[m][g].seq => sample[m][f].value = sample[m][g].value

Inv == /\ TypeOK /\ RoutesRight /\ ApplyingKnown /\ Budget
       /\ Origins /\ NumberIsNew /\ NumberNamesFrame /\ receivedAt <= clock
-----------------------------------------------------------------------------
LEMMA ReportsAreFields ==
    ASSUME NEW body \in Feedback
    PROVE  Reports(body) \subseteq Field
BY DEF Feedback, Reports, Field, PvtField, QueryCode, IsFragment, UuidIndex

LEMMA OnlyStatusReportsAll ==
    ASSUME NEW body \in Feedback, PvtField \subseteq Reports(body)
    PROVE  body.type = "status"
BY DEF Feedback, Reports, PvtField, QueryCode, IsFragment, UuidIndex

LEMMA InitInv == Init => Inv
<1> SUFFICES ASSUME Init PROVE Inv OBVIOUS
<1> USE DEF Init
<1>1. TypeOK BY DEF TypeOK, Sample, Never
<1>2. RoutesRight BY DEF RoutesRight
<1>3. ApplyingKnown BY DEF ApplyingKnown
<1>4. Budget BY DEF Budget
<1>5. Origins BY DEF Origins
<1>6. NumberIsNew BY DEF NumberIsNew
<1>7. NumberNamesFrame BY DEF NumberNamesFrame
<1>8. receivedAt <= clock OBVIOUS
<1> QED BY <1>1, <1>2, <1>3, <1>4, <1>5, <1>6, <1>7, <1>8 DEF Inv

\* A step that leaves the frames, the routes and the samples alone.
LEMMA Bystander ==
    ASSUME Inv, UNCHANGED <<device, log>>, routes' = routes,
           rx' # "applying", Len(rest') <= Len(rest), receivedAt' = receivedAt,
           clock' >= clock, clock' \in Int
    PROVE  /\ RoutesRight' /\ ApplyingKnown' /\ Budget' /\ Origins'
           /\ NumberIsNew' /\ NumberNamesFrame' /\ receivedAt' <= clock'
BY DEF Inv, device, RoutesRight, ApplyingKnown, Budget, Origins, NumberIsNew,
       NumberNamesFrame, TypeOK

LEMMA BindMotorInv == ASSUME Inv, NEW m \in Motor, BindMotor(m) PROVE Inv'
<1> USE DEF BindMotor, device
<1>1. TypeOK' BY DEF Inv, TypeOK
<1>2. RoutesRight' BY DEF Inv, TypeOK, RoutesRight
<1>3. ApplyingKnown' BY DEF ApplyingKnown
<1>4. Budget' BY DEF Inv, Budget
<1>5. Origins' BY DEF Inv, Origins
<1>6. NumberIsNew' BY DEF NumberIsNew
<1>7. NumberNamesFrame' BY DEF Inv, NumberNamesFrame
<1> QED BY <1>1, <1>2, <1>3, <1>4, <1>5, <1>6, <1>7 DEF Inv

LEMMA StartInv == ASSUME Inv, Start PROVE Inv'
<1>1. TypeOK' BY DEF Start, Inv, TypeOK, wiring, device
<1> QED BY <1>1, Bystander DEF Start, Inv, TypeOK, wiring

LEMMA HandlePacketInv == ASSUME Inv, NEW p \in Packet, HandlePacket(p) PROVE Inv'
<1> USE DEF HandlePacket, wiring, device
<1>1. p.frames \in Seq(Frame) /\ p.intact \in BOOLEAN OBVIOUS
<1>2. rest' \in Seq(Frame) BY <1>1
<1>3. TypeOK' BY <1>2 DEF Inv, TypeOK
<1>4. RoutesRight' BY DEF Inv, RoutesRight
<1>5. ApplyingKnown' BY DEF ApplyingKnown
<1>6. Budget' BY <1>1 DEF Inv, Budget, TypeOK
<1>7. Origins'
  <2>1. \A m \in Motor, f \in Field : sample[m][f].time \in Int
    BY DEF Inv, TypeOK, Sample
  <2> QED BY <2>1 DEF Inv, Origins, TypeOK
<1>8. NumberIsNew' BY DEF NumberIsNew
<1>9. NumberNamesFrame' BY DEF Inv, NumberNamesFrame
<1>10. receivedAt' <= clock' BY DEF Inv, TypeOK
<1> QED BY <1>3, <1>4, <1>5, <1>6, <1>7, <1>8, <1>9, <1>10 DEF Inv

LEMMA DecodeEndsInv == ASSUME Inv, DecodeEnds PROVE Inv'
<1>1. TypeOK' BY DEF DecodeEnds, Inv, TypeOK, wiring, device
<1> QED BY <1>1, Bystander DEF DecodeEnds, Inv, TypeOK, wiring

LEMMA DecodeFailsInv == ASSUME Inv, DecodeFails PROVE Inv'
<1>1. TypeOK' BY DEF DecodeFails, Inv, TypeOK, wiring, device
<1> QED BY <1>1, Bystander DEF DecodeFails, Inv, TypeOK, wiring

LEMMA TickInv == ASSUME Inv, Tick PROVE Inv'
<1> USE DEF Tick, wiring, device
<1>1. TypeOK' BY DEF Inv, TypeOK
<1>2. RoutesRight' BY DEF Inv, RoutesRight
<1>3. ApplyingKnown' BY DEF Inv, ApplyingKnown, Target, Current, Route
<1>4. Budget' BY DEF Inv, Budget
<1>5. Origins' BY DEF Inv, Origins
<1>6. NumberIsNew' BY DEF Inv, NumberIsNew, Target, Current, Route
<1>7. NumberNamesFrame' BY DEF Inv, NumberNamesFrame
<1>8. receivedAt' <= clock' BY DEF Inv, TypeOK
<1> QED BY <1>1, <1>2, <1>3, <1>4, <1>5, <1>6, <1>7, <1>8 DEF Inv
-----------------------------------------------------------------------------
LEMMA HandleFrameInv == ASSUME Inv, HandleFrame PROVE Inv'
<1> DEFINE frame == Head(rest)  m == Route(frame)
           routed == m # NoMotor /\ frame.body # Unparsable
<1> USE DEF wiring
<1>1. rest \in Seq(Frame) /\ rest # <<>> /\ log \in Seq(Frame)
  BY DEF Inv, TypeOK, HandleFrame
<1>2. frame \in Frame /\ rest' \in Seq(Frame) /\ Len(rest') = Len(rest) - 1
  BY <1>1 DEF HandleFrame
<1>3. /\ log' \in Seq(Frame) /\ Len(log') = Len(log) + 1 /\ log'[Len(log')] = frame
      /\ \A i \in 1..Len(log) : log'[i] = log[i]
  BY <1>1, <1>2 DEF HandleFrame
<1>4. m \in Motor \cup {NoMotor}
  BY <1>2 DEF Inv, TypeOK, Route, Frame
<1>5. /\ sampleSeq \in [Motor -> 0..MaxFrames]
      /\ Len(log) + Len(rest) <= MaxFrames
      /\ Len(log) \in Nat /\ Len(rest) \in Nat
      /\ \A n \in Motor : sampleSeq[n] <= Len(log)
  BY <1>1 DEF Inv, TypeOK, Budget
<1>6. /\ routed => /\ sampleSeq' = [sampleSeq EXCEPT ![m] = sampleSeq[m] + 1]
                   /\ rx' = "applying"
      /\ ~routed => UNCHANGED <<rx, sampleSeq>>
  BY DEF HandleFrame, NextSeq
<1>7. /\ \A n \in Motor : /\ sampleSeq'[n] \in Nat
                          /\ sampleSeq[n] <= sampleSeq'[n]
                          /\ sampleSeq'[n] <= Len(log')
      /\ sampleSeq' \in [Motor -> 0..MaxFrames]
  <2>1. CASE routed
    <3>1. m \in Motor BY <1>4, <2>1
    <3>2. \A n \in Motor : sampleSeq'[n] = IF n = m THEN sampleSeq[n] + 1 ELSE sampleSeq[n]
      BY <1>5, <1>6, <2>1, <3>1
    <3>3. /\ \A n \in Motor : sampleSeq'[n] \in 0..MaxFrames
          /\ \A n \in Motor : sampleSeq[n] <= sampleSeq'[n] /\ sampleSeq'[n] <= Len(log')
      <4>1. Len(rest') \in Nat BY <1>2
      <4>2. Len(log) + 1 <= MaxFrames BY <1>2, <1>5, <4>1
      <4>3. \A n \in Motor : sampleSeq[n] \in Nat
        <5> SUFFICES ASSUME NEW n \in Motor PROVE sampleSeq[n] \in Nat OBVIOUS
        <5>1. sampleSeq[n] \in 0..MaxFrames BY <1>5
        <5> QED BY <5>1
      <4> HIDE DEF m
      <4> QED BY <1>3, <1>5, <3>2, <4>2, <4>3
    <3> QED BY <1>5, <1>6, <2>1, <3>1, <3>3
  <2>2. CASE ~routed
    BY <1>3, <1>5, <1>6, <2>2
  <2> QED BY <2>1, <2>2
<1>8. /\ Target' = m /\ Current' = frame
  BY <1>3 DEF Target, Current, Route, HandleFrame
<1>9. /\ sample' = sample /\ receivedAt' = receivedAt /\ clock' = clock /\ routes' = routes
      /\ uuid' = uuid /\ updatedAt' = updatedAt /\ bound' = bound
      /\ rx = "decoding"
  BY DEF HandleFrame
<1>10. sample \in [Motor -> [Field -> Sample]]
  BY DEF Inv, TypeOK
<1>a. TypeOK'
  <2>1. rx' \in {"unstarted", "idle", "decoding", "applying"} BY <1>6, <1>9
  <2>2. Len(log') <= MaxFrames BY <1>2, <1>3, <1>5
  <2> QED BY <1>2, <1>3, <1>7, <1>9, <2>1, <2>2 DEF Inv, TypeOK
<1>b. RoutesRight' BY <1>9 DEF Inv, RoutesRight
<1>c. ApplyingKnown' BY <1>3, <1>4, <1>5, <1>6, <1>8, <1>9 DEF ApplyingKnown
<1>d. Budget' BY <1>2, <1>3, <1>5, <1>7 DEF Budget
<1>e. Origins'
  <2> SUFFICES ASSUME NEW n \in Motor, NEW f \in Field, sample[n][f] # Never
               PROVE  LET s == sample[n][f]
                      IN  /\ s.seq > 0 /\ s.seq <= sampleSeq'[n]
                          /\ s.value \in 1..Len(log')
                          /\ log'[s.value].address = AddressOf[n]
                          /\ log'[s.value].body # Unparsable
                          /\ f \in Reports(log'[s.value].body)
                          /\ s.time <= receivedAt
    BY <1>9 DEF Origins
  <2> DEFINE s == sample[n][f]
  <2>1. /\ s.seq > 0 /\ s.seq <= sampleSeq[n]
        /\ s.value \in 1..Len(log)
        /\ log[s.value].address = AddressOf[n]
        /\ log[s.value].body # Unparsable
        /\ f \in Reports(log[s.value].body)
        /\ s.time <= receivedAt
    BY DEF Inv, Origins
  <2>2. s.seq \in Nat BY <1>10 DEF Sample
  <2>3. log'[s.value] = log[s.value] BY <1>3, <2>1
  <2>4. s.seq <= sampleSeq'[n] BY <1>5, <1>7, <2>1, <2>2
  <2>5. s.value \in 1..Len(log') BY <1>3, <1>5, <2>1
  <2> QED BY <2>1, <2>3, <2>4, <2>5
<1>f. NumberIsNew'
  <2> SUFFICES ASSUME rx' = "applying", NEW f \in Field
               PROVE  sample[m][f].seq < sampleSeq'[m]
    BY <1>8, <1>9 DEF NumberIsNew
  <2>1. routed /\ m \in Motor BY <1>4, <1>6, <1>9
  <2>2. sampleSeq'[m] = sampleSeq[m] + 1 BY <1>5, <1>6, <2>1
  <2>3. sample[m][f].seq <= sampleSeq[m]
    BY <1>5, <1>10, <2>1 DEF Inv, Origins, Never, Sample
  <2>4. sample[m][f].seq \in Nat /\ sampleSeq[m] \in Nat BY <1>5, <1>10, <2>1 DEF Sample
  <2> QED BY <2>2, <2>3, <2>4
<1>g. NumberNamesFrame' BY <1>9 DEF Inv, NumberNamesFrame
<1>h. receivedAt' <= clock' BY <1>9 DEF Inv
<1> QED BY <1>a, <1>b, <1>c, <1>d, <1>e, <1>f, <1>g, <1>h DEF Inv
-----------------------------------------------------------------------------
\* What ApplyFeedback writes.
LEMMA Written ==
    ASSUME Inv, ApplyFeedback
    PROVE  /\ Target \in Motor /\ Current.body \in Feedback
           /\ Current = log[Len(log)] /\ Len(log) \in 1..MaxFrames
           /\ Current.address = AddressOf[Target]
           /\ Reports(Current.body) \subseteq Field
           /\ \A n \in Motor, f \in Field :
                 sample'[n][f] = IF n = Target /\ f \in Reports(Current.body)
                                 THEN [time |-> receivedAt, seq |-> sampleSeq[n],
                                       value |-> Len(log)]
                                 ELSE sample[n][f]
           /\ UNCHANGED <<bound, routes, rest, receivedAt, sampleSeq, clock, log>>
<1>1. Len(log) > 0 /\ Target \in Motor /\ Current.body # Unparsable
  BY DEF Inv, ApplyingKnown, ApplyFeedback
<1>2. log \in Seq(Frame) /\ Len(log) <= MaxFrames /\ Len(log) \in Nat BY DEF Inv, TypeOK
<1>3. Len(log) \in 1..MaxFrames BY <1>1, <1>2
<1>4. Current \in Frame BY <1>2, <1>3 DEF Current
<1>5. Current.body \in Feedback BY <1>1, <1>4 DEF Frame
<1>6. Current.address = AddressOf[Target]
  <2>1. Target = routes[Current.address] BY <1>1 DEF Target, Route
  <2>2. Current.address \in Address BY <1>4 DEF Frame
  <2> QED BY <1>1, <2>1, <2>2 DEF Inv, RoutesRight
<1>7. Reports(Current.body) \subseteq Field BY <1>5, ReportsAreFields
<1>8. sample \in [Motor -> [Field -> Sample]] BY DEF Inv, TypeOK
<1>9. \A n \in Motor, f \in Field :
         sample'[n][f] = IF n = Target /\ f \in Reports(Current.body)
                         THEN [time |-> receivedAt, seq |-> sampleSeq[n], value |-> Len(log)]
                         ELSE sample[n][f]
  BY <1>1, <1>8 DEF ApplyFeedback, SetSample
<1> QED BY <1>1, <1>3, <1>5, <1>6, <1>7, <1>9 DEF ApplyFeedback, Current, wiring

LEMMA ApplyFeedbackTyped == ASSUME Inv, ApplyFeedback PROVE TypeOK'
<1> DEFINE body == Current.body
<1>1. /\ Target \in Motor /\ body \in Feedback /\ Len(log) \in 1..MaxFrames
      /\ UNCHANGED <<bound, routes, rest, receivedAt, sampleSeq, clock, log>>
  BY Written
<1>2. sample' \in [Motor -> [Field -> Sample]]
  <2>1. [time |-> receivedAt, seq |-> sampleSeq[Target], value |-> Len(log)] \in Sample
    BY <1>1 DEF Inv, TypeOK, Sample
  <2>2. [f \in Field |-> IF f \in Reports(body)
                         THEN [time |-> receivedAt, seq |-> sampleSeq[Target],
                               value |-> Len(log)]
                         ELSE sample[Target][f]] \in [Field -> Sample]
    BY <1>1, <2>1 DEF Inv, TypeOK
  <2> QED BY <1>1, <2>2 DEF ApplyFeedback, SetSample, Inv, TypeOK
<1>3. uuid' \in [Motor -> [UuidIndex -> 0..MaxFrames]]
  <2>1. uuid \in [Motor -> [UuidIndex -> 0..MaxFrames]] BY DEF Inv, TypeOK
  <2>2. Len(log) \in 0..MaxFrames BY <1>1
  <2> QED BY <1>1, <2>1, <2>2 DEF ApplyFeedback, SetFragment
<1>4. updatedAt' \in [Motor -> 0..MaxTime]
  BY <1>1 DEF ApplyFeedback, Touch, Inv, TypeOK
<1>5. rx' \in {"unstarted", "idle", "decoding", "applying"} BY DEF ApplyFeedback
<1> QED BY <1>1, <1>2, <1>3, <1>4, <1>5 DEF Inv, TypeOK

LEMMA ApplyFeedbackInv == ASSUME Inv, ApplyFeedback PROVE Inv'
<1> DEFINE fields == Reports(Current.body)
<1>1. /\ Target \in Motor /\ Current.body \in Feedback
      /\ Current = log[Len(log)] /\ Len(log) \in 1..MaxFrames
      /\ Current.address = AddressOf[Target]
      /\ fields \subseteq Field
      /\ UNCHANGED <<bound, routes, rest, receivedAt, sampleSeq, clock, log>>
  BY Written
<1>2. \A n \in Motor, f \in Field :
         sample'[n][f] = IF n = Target /\ f \in fields
                         THEN [time |-> receivedAt, seq |-> sampleSeq[n], value |-> Len(log)]
                         ELSE sample[n][f]
  BY Written
<1>3. Current.body # Unparsable BY DEF Inv, ApplyingKnown, ApplyFeedback
<1>4. /\ sample \in [Motor -> [Field -> Sample]]
      /\ sampleSeq \in [Motor -> 0..MaxFrames]
      /\ receivedAt \in 0..MaxTime
  BY DEF Inv, TypeOK
<1>5. \A f \in Field : sample[Target][f].seq < sampleSeq[Target]
  BY DEF Inv, NumberIsNew, ApplyFeedback
<1>6. \A n \in Motor, f \in Field : sample[n][f].seq \in Nat /\ sampleSeq[n] \in Nat
  BY <1>4 DEF Sample
<1>7. sampleSeq[Target] > 0
  <2>1. "error" \in Field BY DEF Field, PvtField
  <2> QED BY <1>1, <1>5, <1>6, <2>1
<1>a. TypeOK' BY ApplyFeedbackTyped
<1>b. RoutesRight' BY <1>1 DEF Inv, RoutesRight
<1>c. ApplyingKnown' /\ NumberIsNew' BY DEF ApplyFeedback, ApplyingKnown, NumberIsNew
<1>d. Budget' BY <1>1 DEF Inv, Budget
<1>e. Origins'
  <2> SUFFICES ASSUME NEW n \in Motor, NEW f \in Field
               PROVE  \/ sample'[n][f] = Never
                      \/ LET s == sample'[n][f]
                         IN  /\ s.seq > 0 /\ s.seq <= sampleSeq[n]
                             /\ s.value \in 1..Len(log)
                             /\ log[s.value].address = AddressOf[n]
                             /\ log[s.value].body # Unparsable
                             /\ f \in Reports(log[s.value].body)
                             /\ s.time <= receivedAt
    BY <1>1 DEF Origins
  <2>1. CASE n = Target /\ f \in fields
    <3>1. sample'[n][f] = [time |-> receivedAt, seq |-> sampleSeq[n], value |-> Len(log)]
      BY <1>2, <2>1
    <3>2. Len(log) \in 1..Len(log) BY <1>1
    <3>3. sampleSeq[n] <= sampleSeq[n] /\ receivedAt <= receivedAt BY <1>4
    <3> QED BY <1>1, <1>3, <1>7, <2>1, <3>1, <3>2, <3>3
  <2>2. CASE ~(n = Target /\ f \in fields)
    <3>1. sample'[n][f] = sample[n][f] BY <1>2, <2>2
    <3> QED BY <3>1 DEF Inv, Origins
  <2> QED BY <2>1, <2>2
<1>f. NumberNamesFrame'
  <2> SUFFICES ASSUME NEW n \in Motor, NEW f \in Field, NEW g \in Field,
                      sample'[n][f].seq = sample'[n][g].seq
               PROVE  sample'[n][f].value = sample'[n][g].value
    BY DEF NumberNamesFrame
  <2> HIDE DEF fields
  <2>1. CASE n # Target
    <3>1. sample'[n][f] = sample[n][f] /\ sample'[n][g] = sample[n][g] BY <1>2, <2>1
    <3> QED BY <3>1 DEF Inv, NumberNamesFrame
  <2>2. CASE n = Target
    <3>1. \A h \in Field : h \in fields => /\ sample'[n][h].seq = sampleSeq[n]
                                           /\ sample'[n][h].value = Len(log)
      <4> SUFFICES ASSUME NEW h \in Field, h \in fields
                   PROVE  /\ sample'[n][h].seq = sampleSeq[n]
                          /\ sample'[n][h].value = Len(log)
        OBVIOUS
      <4>1. sample'[n][h] = [time |-> receivedAt, seq |-> sampleSeq[n], value |-> Len(log)]
        BY <1>2, <2>2
      <4> QED BY <4>1
    <3>2. \A h \in Field : h \notin fields => /\ sample'[n][h] = sample[n][h]
                                              /\ sample'[n][h].seq # sampleSeq[n]
      <4> SUFFICES ASSUME NEW h \in Field, h \notin fields
                   PROVE  /\ sample'[n][h] = sample[n][h]
                          /\ sample'[n][h].seq # sampleSeq[n]
        OBVIOUS
      <4>1. sample'[n][h] = sample[n][h] BY <1>2, <2>2
      <4>2. sample[n][h].seq < sampleSeq[n] BY <1>5, <2>2
      <4> QED BY <1>6, <4>1, <4>2
    <3> QED BY <2>2, <3>1, <3>2 DEF Inv, NumberNamesFrame
  <2> QED BY <2>1, <2>2
<1>g. receivedAt' <= clock' BY <1>1 DEF Inv
<1> QED BY <1>a, <1>b, <1>c, <1>d, <1>e, <1>f, <1>g DEF Inv
-----------------------------------------------------------------------------
LEMMA StutterInv == ASSUME Inv, UNCHANGED vars PROVE Inv'
<1> USE DEF vars
<1>1. TypeOK' BY DEF Inv, TypeOK
<1>2. RoutesRight' /\ Budget' BY DEF Inv, RoutesRight, Budget
<1>3. ApplyingKnown' BY DEF Inv, ApplyingKnown, Target, Current, Route
<1>4. Origins' /\ NumberNamesFrame' BY DEF Inv, Origins, NumberNamesFrame
<1>5. NumberIsNew' BY DEF Inv, NumberIsNew, Target, Current, Route
<1>6. receivedAt' <= clock' BY DEF Inv
<1> QED BY <1>1, <1>2, <1>3, <1>4, <1>5, <1>6 DEF Inv

\* The invariant the theorems rest on.
THEOREM Invariance == Spec => []Inv
<1>1. Inv /\ [Next]_vars => Inv'
  BY BindMotorInv, StartInv, HandlePacketInv, DecodeEndsInv, DecodeFailsInv,
     HandleFrameInv, ApplyFeedbackInv, TickInv, StutterInv DEF Next
<1> QED BY InitInv, <1>1, PTL DEF Spec

\* The types hold: the samples, numbers and times stay in their ranges.
THEOREM TypeCorrect == Spec => []TypeOK
<1>1. Inv => TypeOK BY DEF Inv
<1> QED BY Invariance, <1>1, PTL

\* A coherent snapshot is one status frame of that motor, whole.
THEOREM SnapshotCorrect == Spec => []SnapshotIsOneStatus
<1>1. Inv => SnapshotIsOneStatus
  <2> SUFFICES ASSUME Inv, NEW m \in Motor, Coherent(Snapshot(m))
               PROVE  \E i \in 1..Len(log) :
                          /\ log[i].address = AddressOf[m]
                          /\ log[i].body.type = "status"
                          /\ \A f \in PvtField : Snapshot(m)[f].value = i
    BY DEF SnapshotIsOneStatus
  <2> DEFINE i == sample[m]["error"].value
  <2>1. PvtField \subseteq Field /\ "error" \in PvtField BY DEF PvtField, Field
  <2>2. \A f \in PvtField : Snapshot(m)[f] = sample[m][f] BY DEF Snapshot
  <2>3. \A f \in PvtField : sample[m][f] # Never
    BY <2>2 DEF Coherent, Never
  <2>4. \A f \in PvtField : sample[m][f].value = i
    BY <2>1, <2>2 DEF Inv, NumberNamesFrame, Coherent
  <2>5. \A f \in PvtField : /\ i \in 1..Len(log)
                            /\ log[i].address = AddressOf[m]
                            /\ log[i].body # Unparsable
                            /\ f \in Reports(log[i].body)
    BY <2>1, <2>3, <2>4 DEF Inv, Origins
  <2> HIDE DEF i
  <2>a. i \in 1..Len(log) /\ log[i].body # Unparsable BY <2>1, <2>5
  <2>b. log \in Seq(Frame) BY DEF Inv, TypeOK
  <2>c. log[i] \in Frame BY <2>a, <2>b
  <2>6. log[i].body \in Feedback BY <2>a, <2>c DEF Frame
  <2>7. log[i].body.type = "status" BY <2>5, <2>6, OnlyStatusReportsAll
  <2> QED BY <2>1, <2>2, <2>4, <2>5, <2>7
<1> QED BY Invariance, <1>1, PTL

\* A sample read later is never older, and differs only if its number grew.
THEOREM SamplesCorrect == Spec => SamplesAdvance
<1> DEFINE Advance == \A m \in Motor, f \in Field :
               /\ sample'[m][f].time >= sample[m][f].time
               /\ sample'[m][f] # sample[m][f] => sample'[m][f].seq > sample[m][f].seq
<1>1. Inv /\ [Next]_vars => Advance
  <2> SUFFICES ASSUME Inv, [Next]_vars PROVE Advance OBVIOUS
  <2>1. \A m \in Motor, f \in Field : sample[m][f].time \in Nat
    BY DEF Inv, TypeOK, Sample
  <2>2. CASE sample' = sample BY <2>1, <2>2
  <2>3. CASE ApplyFeedback
    <3> SUFFICES ASSUME NEW m \in Motor, NEW f \in Field,
                        m = Target, f \in Reports(Current.body)
                 PROVE  /\ sample'[m][f].time >= sample[m][f].time
                        /\ sample'[m][f].seq > sample[m][f].seq
      <4>1. \A m \in Motor, f \in Field :
               ~(m = Target /\ f \in Reports(Current.body)) => sample'[m][f] = sample[m][f]
        BY <2>3, Written
      <4> QED BY <2>1, <4>1
    <3>1. sample'[m][f] = [time |-> receivedAt, seq |-> sampleSeq[m], value |-> Len(log)]
      BY <2>3, Written
    <3>2. sample[m][f].seq < sampleSeq[m] BY <2>3 DEF Inv, NumberIsNew, ApplyFeedback
    <3>3. sample[m][f].time <= receivedAt
      BY DEF Inv, Origins, Never, TypeOK
    <3>4. /\ sample[m][f].seq \in Nat /\ sampleSeq[m] \in Nat /\ receivedAt \in Nat
      BY DEF Inv, TypeOK, Sample
    <3> QED BY <2>1, <3>1, <3>2, <3>3, <3>4
  <2>4. ApplyFeedback \/ sample' = sample
    BY DEF Next, vars, device, BindMotor, Start, HandlePacket, DecodeEnds, DecodeFails,
           HandleFrame, Tick
  <2> QED BY <2>2, <2>3, <2>4
<1> QED BY Invariance, <1>1, PTL DEF Spec, SamplesAdvance
-----------------------------------------------------------------------------
(* The newest frame of a motor is the one its samples show.                   *)

\* A bound motor is routed to, and once frames come every motor is bound.
EveryMotorRouted ==
    /\ \A m \in Motor, i \in 1..Len(bound) : bound[i] = m => routes[AddressOf[m]] = m
    /\ rx # "unstarted" => \A m \in Motor : routes[AddressOf[m]] = m

Reporting(m, f) == {i \in Addressed(m) : f \in Reports(log[i].body)}
Fragments(m, k) == {i \in Addressed(m) : IsFragment(log[i].body) /\ log[i].body.index = k}

Latest == Inv /\ EveryMotorRouted /\ LatestWins

LEMMA NewestIsLast ==
    ASSUME NEW n \in Nat, NEW S \in SUBSET (1..n)
    PROVE  Newest(S \cup {n + 1}) = n + 1
<1> DEFINE T == S \cup {n + 1}  Last(i) == i \in T /\ \A j \in T : j <= i
<1>1. \A j \in S : j \in Nat /\ j <= n OBVIOUS
<1>2. Last(n + 1) BY <1>1
<1>3. \A i \in T : Last(i) => i = n + 1 BY <1>1
<1>4. Newest(T) = CHOOSE i \in T : \A j \in T : j <= i BY DEF Newest
<1>5. (CHOOSE i \in T : \A j \in T : j <= i) = n + 1
  BY <1>2, <1>3
<1> QED BY <1>4, <1>5

LEMMA RoutedInit == Init => EveryMotorRouted
BY DEF Init, EveryMotorRouted

LEMMA RoutedNext == ASSUME Inv, EveryMotorRouted, [Next]_vars PROVE EveryMotorRouted'
<1> USE DEF EveryMotorRouted
<1>1. CASE rx' = rx /\ UNCHANGED <<bound, routes>> BY <1>1
<1>2. ASSUME NEW m \in Motor, BindMotor(m) PROVE EveryMotorRouted'
  <2>1. /\ bound \in Seq(Motor) /\ routes \in [Address -> Motor \cup {NoMotor}]
        /\ bound' = Append(bound, m) /\ routes' = [routes EXCEPT ![AddressOf[m]] = m]
        /\ rx = "unstarted" /\ rx' = rx
    BY <1>2 DEF BindMotor, Inv, TypeOK
  <2>2. /\ Len(bound') = Len(bound) + 1 /\ bound'[Len(bound) + 1] = m /\ Len(bound) \in Nat
        /\ \A i \in 1..Len(bound) : bound'[i] = bound[i]
    BY <2>1, AppendProperties
  <2> SUFFICES ASSUME NEW n \in Motor, NEW i \in 1..Len(bound) + 1, bound'[i] = n
               PROVE  routes'[AddressOf[n]] = n
    BY <2>1, <2>2
  <2>3. CASE i = Len(bound) + 1
    BY <2>1, <2>2, <2>3
  <2>4. CASE i \in 1..Len(bound)
    <3>1. routes[AddressOf[n]] = n BY <2>2, <2>4
    <3>2. CASE n = m BY <2>1, <3>2
    <3>3. CASE n # m
      <4>1. AddressOf[n] # AddressOf[m] BY <3>3
      <4> QED BY <2>1, <3>1, <4>1
    <3> QED BY <3>2, <3>3
  <2> QED BY <2>2, <2>3, <2>4
<1>3. CASE Start
  <2> SUFFICES ASSUME NEW m \in Motor PROVE routes[AddressOf[m]] = m
    BY <1>3 DEF Start, wiring
  <2>1. PICK i \in 1..Len(bound) : bound[i] = m BY <1>3 DEF Start
  <2> QED BY <2>1
<1>4. CASE rx # "unstarted" /\ UNCHANGED <<bound, routes>> BY <1>4
<1>5. ASSUME NEW p \in Packet, HandlePacket(p) PROVE EveryMotorRouted'
  BY <1>4, <1>5 DEF HandlePacket, wiring
<1>6. CASE DecodeEnds \/ DecodeFails \/ HandleFrame \/ ApplyFeedback
  BY <1>4, <1>6 DEF DecodeEnds, DecodeFails, HandleFrame, ApplyFeedback, wiring
<1>7. CASE Tick \/ UNCHANGED vars
  BY <1>1, <1>7 DEF Tick, vars, wiring
<1> QED BY <1>2, <1>3, <1>5, <1>6, <1>7 DEF Next

\* Frames taken into the log but not for this motor change nothing for it.
LEMMA SameFrames ==
    ASSUME LatestWins, UNCHANGED <<sample, uuid>>,
           \A m \in Motor : Addressed(m)' = Addressed(m),
           \A m \in Motor : \A i \in Addressed(m) : log'[i] = log[i]
    PROVE  LatestWins'
<1> SUFFICES ASSUME NEW m \in Motor
             PROVE  /\ \A f \in Field : sample[m][f].value = Newest(Reporting(m, f)')
                    /\ \A k \in UuidIndex : uuid[m][k] = Newest(Fragments(m, k)')
  BY DEF LatestWins, Reporting, Fragments
<1>1. \A f \in Field : Reporting(m, f)' = Reporting(m, f) BY DEF Reporting
<1>2. \A k \in UuidIndex : Fragments(m, k)' = Fragments(m, k) BY DEF Fragments
<1>3. /\ \A f \in Field : sample[m][f].value = Newest(Reporting(m, f))
      /\ \A k \in UuidIndex : uuid[m][k] = Newest(Fragments(m, k))
  BY DEF LatestWins, Reporting, Fragments
<1> QED BY <1>1, <1>2, <1>3

LEMMA HandleFrameLatest == ASSUME Latest, HandleFrame PROVE LatestWins'
<1> DEFINE frame == Head(rest)  n == Len(log)
<1>1. rest \in Seq(Frame) /\ rest # <<>> /\ log \in Seq(Frame) /\ rx = "decoding"
  BY DEF Latest, Inv, TypeOK, HandleFrame
<1>2. /\ frame \in Frame /\ n \in Nat /\ Len(log') = n + 1 /\ log'[n + 1] = frame
      /\ \A i \in 1..n : log'[i] = log[i]
  BY <1>1 DEF HandleFrame
<1>3. Applied = 1..n BY <1>1 DEF Applied
<1>4. \A m \in Motor : Addressed(m)' = Addressed(m)
  <2>1. CASE rx' = "applying"
    <3>1. Applied' = 1..n BY <1>2, <2>1 DEF Applied
    <3> QED BY <1>2, <1>3, <3>1 DEF Addressed
  <2>2. CASE rx' # "applying"
    <3>1. Route(frame) = NoMotor \/ frame.body = Unparsable
      BY <2>2 DEF HandleFrame
    <3>2. Applied' = 1..n + 1 BY <1>2, <2>2 DEF Applied
    <3>3. ASSUME NEW m \in Motor, frame.address = AddressOf[m], frame.address.id # BroadcastId
          PROVE  frame.body = Unparsable
      <4>1. Route(frame) = m BY <1>1, <3>3 DEF Route, Latest, EveryMotorRouted
      <4> QED BY <3>1, <4>1
    <3>4. \A m \in Motor : n + 1 \notin Addressed(m)'
      BY <1>2, <3>3 DEF Addressed
    <3>5. \A m \in Motor : Addressed(m)' \subseteq 1..n
      BY <1>2, <3>2, <3>4 DEF Addressed
    <3>6. \A m \in Motor, i \in 1..n : i \in Addressed(m)' <=> i \in Addressed(m)
      BY <1>2, <1>3, <3>2 DEF Addressed
    <3>7. \A m \in Motor : Addressed(m) \subseteq 1..n
      BY <1>3 DEF Addressed
    <3> QED BY <3>5, <3>6, <3>7
  <2> QED BY <2>1, <2>2
<1>5. \A m \in Motor : \A i \in Addressed(m) : log'[i] = log[i]
  BY <1>2, <1>3 DEF Addressed
<1> QED BY <1>4, <1>5, SameFrames DEF Latest, HandleFrame

LEMMA ApplyFeedbackLatest == ASSUME Latest, ApplyFeedback PROVE LatestWins'
<1> DEFINE n == Len(log)  body == Current.body  t == Target
<1>1. /\ t \in Motor /\ body \in Feedback /\ Current = log[n] /\ n \in 1..MaxFrames
      /\ Current.address = AddressOf[t] /\ log' = log
      /\ \A m \in Motor, f \in Field :
            sample'[m][f] = IF m = t /\ f \in Reports(body)
                            THEN [time |-> receivedAt, seq |-> sampleSeq[m], value |-> n]
                            ELSE sample[m][f]
  BY Written DEF Latest
<1>2. n \in Nat /\ n - 1 \in Nat BY <1>1
<1>3. body # Unparsable BY DEF Latest, Inv, ApplyingKnown, ApplyFeedback
<1>4. Current.address.id # BroadcastId BY <1>1 DEF Target, Route
<1>5. Applied = 1..n - 1 /\ Applied' = 1..n BY <1>1 DEF Applied, ApplyFeedback
<1>6. \A m \in Motor : Addressed(m) \subseteq 1..n - 1 BY <1>5 DEF Addressed
<1>7. \A m \in Motor :
         Addressed(m)' = IF m = t THEN Addressed(m) \cup {n} ELSE Addressed(m)
  <2> SUFFICES ASSUME NEW m \in Motor
               PROVE  Addressed(m)' = IF m = t THEN Addressed(m) \cup {n} ELSE Addressed(m)
    OBVIOUS
  <2>1. Addressed(m)' = {i \in 1..n : /\ log[i].address = AddressOf[m]
                                      /\ log[i].address.id # BroadcastId
                                      /\ log[i].body # Unparsable}
    BY <1>1, <1>5 DEF Addressed
  <2>2. \A i \in 1..n - 1 : i \in Addressed(m)' <=> i \in Addressed(m)
    BY <1>2, <1>5, <2>1 DEF Addressed
  <2>3. n \in Addressed(m)' <=> m = t
    BY <1>1, <1>2, <1>3, <1>4, <2>1
  <2>4. Addressed(m)' \subseteq 1..n BY <2>1
  <2>5. Addressed(m) \subseteq 1..n - 1 BY <1>6
  <2>6. \A i : i \in 1..n <=> i \in 1..n - 1 \/ i = n BY <1>2
  <2> DEFINE before == Addressed(m)  after == Addressed(m)'
  <2>7. \A i : i \in after <=> i \in before \/ (i = n /\ m = t)
    <3>1. n \notin before BY <1>2, <2>5
    <3> HIDE DEF n, t, before, after
    <3>2. \A i \in 1..n - 1 : i \in after <=> i \in before BY <2>2 DEF before, after
    <3>3. n \in after <=> m = t BY <2>3 DEF after
    <3>4. after \subseteq 1..n BY <2>4 DEF after
    <3>5. before \subseteq 1..n - 1 BY <2>5 DEF before
    <3> QED BY <2>6, <3>1, <3>2, <3>3, <3>4, <3>5
  <2> HIDE DEF n, t, before, after
  <2>8. after = IF m = t THEN before \cup {n} ELSE before BY <2>7
  <2> QED BY <2>8 DEF before, after
<1>8. uuid \in [Motor -> [UuidIndex -> 0..MaxFrames]] BY DEF Latest, Inv, TypeOK
<1>9. \A m \in Motor, k \in UuidIndex :
         uuid'[m][k] = IF m = t /\ IsFragment(body) /\ body.index = k THEN n ELSE uuid[m][k]
  <2>1. CASE IsFragment(body) /\ "mcu_uuid" \in Reports(body)
    <3>1. uuid' = [uuid EXCEPT ![t][body.index] = n]
      BY <2>1 DEF ApplyFeedback, SetFragment
    <3>2. body.index \in UuidIndex
      BY <1>1, <2>1 DEF Reports, IsFragment
    <3> HIDE DEF n, t, body
    <3> QED BY <1>1, <1>8, <2>1, <3>1, <3>2
  <2>2. CASE ~(IsFragment(body) /\ "mcu_uuid" \in Reports(body))
    <3>1. uuid' = uuid BY <2>2 DEF ApplyFeedback, SetFragment
    <3>2. ~(IsFragment(body) /\ body.index \in UuidIndex)
      BY <1>1, <2>2 DEF Reports, IsFragment
    <3> QED BY <3>1, <3>2
  <2> QED BY <2>1, <2>2
<1>10. /\ \A m \in Motor, f \in Field : sample[m][f].value = Newest(Reporting(m, f))
       /\ \A m \in Motor, k \in UuidIndex : uuid[m][k] = Newest(Fragments(m, k))
  BY DEF Latest, LatestWins, Reporting, Fragments
<1>11. /\ \A m \in Motor, f \in Field :
             Reporting(m, f)' = IF m = t /\ f \in Reports(body)
                                THEN Reporting(m, f) \cup {n} ELSE Reporting(m, f)
       /\ \A m \in Motor, k \in UuidIndex :
             Fragments(m, k)' = IF m = t /\ IsFragment(body) /\ body.index = k
                                THEN Fragments(m, k) \cup {n} ELSE Fragments(m, k)
  <2>1. log[n].body = body BY <1>1
  <2> HIDE DEF n, t, body
  <2> QED BY <1>1, <1>7, <2>1 DEF Reporting, Fragments
<1>12. \A S \in SUBSET (1..n - 1) : Newest(S \cup {n}) = n
  <2>1. n - 1 + 1 = n BY <1>2
  <2> QED BY <1>2, <2>1, NewestIsLast
<1>13. /\ \A m \in Motor, f \in Field : Reporting(m, f) \in SUBSET (1..n - 1)
       /\ \A m \in Motor, k \in UuidIndex : Fragments(m, k) \in SUBSET (1..n - 1)
  BY <1>6 DEF Reporting, Fragments
<1> HIDE DEF n, t, body
<1>14. \A m \in Motor, f \in Field : sample'[m][f].value = Newest(Reporting(m, f)')
  <2> SUFFICES ASSUME NEW m \in Motor, NEW f \in Field
               PROVE  sample'[m][f].value = Newest(Reporting(m, f)')
    OBVIOUS
  <2>1. CASE m = t /\ f \in Reports(body)
    <3>1. sample'[m][f].value = n
      <4>1. sample'[m][f] = [time |-> receivedAt, seq |-> sampleSeq[m], value |-> n]
        BY <1>1, <2>1
      <4> QED BY <4>1
    <3>2. Reporting(m, f)' = Reporting(m, f) \cup {n} BY <1>11, <2>1
    <3>3. Reporting(m, f) \in SUBSET (1..n - 1) BY <1>13
    <3>4. Newest(Reporting(m, f) \cup {n}) = n BY <1>12, <3>3
    <3> QED BY <3>1, <3>2, <3>4
  <2>2. CASE ~(m = t /\ f \in Reports(body))
    <3>1. sample'[m][f] = sample[m][f] BY <1>1, <2>2
    <3>2. Reporting(m, f)' = Reporting(m, f) BY <1>11, <2>2
    <3>3. sample[m][f].value = Newest(Reporting(m, f)) BY <1>10
    <3> QED BY <3>1, <3>2, <3>3
  <2> QED BY <2>1, <2>2
<1>15. \A m \in Motor, k \in UuidIndex : uuid'[m][k] = Newest(Fragments(m, k)')
  <2> SUFFICES ASSUME NEW m \in Motor, NEW k \in UuidIndex
               PROVE  uuid'[m][k] = Newest(Fragments(m, k)')
    OBVIOUS
  <2>1. CASE m = t /\ IsFragment(body) /\ body.index = k
    <3>1. uuid'[m][k] = n BY <1>9, <2>1
    <3>2. Fragments(m, k)' = Fragments(m, k) \cup {n} BY <1>11, <2>1
    <3>3. Fragments(m, k) \in SUBSET (1..n - 1) BY <1>13
    <3>4. Newest(Fragments(m, k) \cup {n}) = n BY <1>12, <3>3
    <3> QED BY <3>1, <3>2, <3>4
  <2>2. CASE ~(m = t /\ IsFragment(body) /\ body.index = k)
    BY <1>9, <1>10, <1>11, <2>2
  <2> QED BY <2>1, <2>2
<1> QED BY <1>14, <1>15 DEF LatestWins, Reporting, Fragments

LEMMA LatestInit == Init => LatestWins
<1> SUFFICES ASSUME Init, NEW m \in Motor
             PROVE  /\ \A f \in Field : sample[m][f].value = Newest(Reporting(m, f))
                    /\ \A k \in UuidIndex : uuid[m][k] = Newest(Fragments(m, k))
  BY DEF LatestWins, Reporting, Fragments
<1>1. Addressed(m) = {} BY DEF Init, Addressed, Applied
<1>2. \A f \in Field : Reporting(m, f) = {} BY <1>1 DEF Reporting
<1>3. \A k \in UuidIndex : Fragments(m, k) = {} BY <1>1 DEF Fragments
<1>4. Newest({}) = 0 BY DEF Newest
<1>5. \A f \in Field : sample[m][f].value = 0
  <2>1. \A f \in Field : sample[m][f] = Never BY DEF Init
  <2> QED BY <2>1 DEF Never
<1>6. \A k \in UuidIndex : uuid[m][k] = 0 BY DEF Init
<1> QED BY <1>2, <1>3, <1>4, <1>5, <1>6

LEMMA LatestNext == ASSUME Latest, [Next]_vars PROVE LatestWins'
<1>1. ASSUME UNCHANGED <<sample, uuid, log>>, rx # "applying", rx' # "applying"
      PROVE  LatestWins'
  <2>1. Applied' = Applied BY <1>1 DEF Applied
  <2> QED BY <1>1, <2>1, SameFrames DEF Addressed, Latest
<1>2. ASSUME UNCHANGED <<sample, uuid, log>>, rx' = rx PROVE LatestWins'
  <2>1. Applied' = Applied BY <1>2 DEF Applied
  <2> QED BY <1>2, <2>1, SameFrames DEF Addressed, Latest
<1>3. ASSUME NEW m \in Motor, BindMotor(m) PROVE LatestWins'
  BY <1>2, <1>3 DEF BindMotor, device
<1>4. ASSUME NEW p \in Packet, HandlePacket(p) PROVE LatestWins'
  BY <1>1, <1>4 DEF HandlePacket, device
<1>5. CASE Start \/ DecodeEnds
  BY <1>1, <1>5 DEF Start, DecodeEnds, device
<1>6. CASE DecodeFails \/ Tick \/ UNCHANGED vars
  BY <1>2, <1>6 DEF DecodeFails, Tick, vars, device
<1> QED BY <1>3, <1>4, <1>5, <1>6, HandleFrameLatest, ApplyFeedbackLatest DEF Next

\* Every sample, and every fragment of the identifier, is that of the newest
\* frame addressed to its motor that reports it, for any number of motors, ports
\* and datagrams.
THEOREM LatestCorrect == Spec => []LatestWins
<1>1. Init => EveryMotorRouted /\ LatestWins
  BY RoutedInit, LatestInit
<1>2. Inv /\ EveryMotorRouted /\ LatestWins /\ [Next]_vars => EveryMotorRouted' /\ LatestWins'
  BY RoutedNext, LatestNext DEF Latest
<1> QED BY Invariance, <1>1, <1>2, PTL DEF Spec
-----------------------------------------------------------------------------
LEMMA OldSamplesPast ==
    ASSUME Inv, NEW m \in Motor, NEW f \in Field
    PROVE  /\ sample[m][f].time \in Nat /\ sample[m][f].time <= receivedAt
           /\ sample[m][f].seq \in Nat /\ receivedAt \in Nat
<1>1. sample[m][f] \in Sample /\ receivedAt \in 0..MaxTime BY DEF Inv, TypeOK
<1>2. sample[m][f].time <= receivedAt BY <1>1 DEF Inv, Origins, Never
<1> QED BY <1>1, <1>2 DEF Sample

\* Every feedback but an acknowledgement reports the error field.
LEMMA AckReportsNothing ==
    ASSUME NEW body \in Feedback
    PROVE  IF body.type = "config_ack" THEN Reports(body) = {} ELSE "error" \in Reports(body)
<1>1. CASE body.type = "config_ack" BY <1>1 DEF Reports, IsFragment
<1>2. CASE body.type # "config_ack"
  <2>1. body.type \in {"status", "position", "velocity", "brake", "query"}
    BY <1>2 DEF Feedback
  <2>2. CASE body.type = "query" BY <2>2 DEF Reports, IsFragment
  <2>3. CASE body.type # "query" BY <2>1, <2>3 DEF Reports, IsFragment, PvtField
  <2> QED BY <2>2, <2>3
<1> QED BY <1>1, <1>2

LEMMA ApplyFeedbackTimes ==
    ASSUME Inv, TimesFollowNumbers, ApplyFeedback
    PROVE  TimesFollowNumbers'
<1> DEFINE body == Current.body  t == Target
<1>1. /\ t \in Motor /\ body \in Feedback /\ Reports(body) \subseteq Field
      /\ \A m \in Motor, f \in Field :
            sample'[m][f] = IF m = t /\ f \in Reports(body)
                            THEN [time |-> receivedAt, seq |-> sampleSeq[m], value |-> Len(log)]
                            ELSE sample[m][f]
  BY Written
<1>2. updatedAt \in [Motor -> 0..MaxTime] /\ receivedAt \in Nat /\ sampleSeq[t] \in Nat
  BY <1>1 DEF Inv, TypeOK
<1>3. \A m \in Motor :
         updatedAt'[m] = IF m = t /\ body.type # "config_ack" THEN receivedAt ELSE updatedAt[m]
  BY <1>1, <1>2 DEF ApplyFeedback, Touch
<1>4. body.type = "config_ack" => Reports(body) = {}
  BY <1>1, AckReportsNothing
<1>5. body.type # "config_ack" => "error" \in Reports(body)
  BY <1>1, AckReportsNothing
<1>6. \A f \in Field : sample[t][f].seq < sampleSeq[t]
  BY DEF Inv, NumberIsNew, ApplyFeedback
<1>7. "error" \in Field BY DEF Field, PvtField
<1> SUFFICES ASSUME NEW m \in Motor
             PROVE  /\ \A f, g \in Field : sample'[m][f].seq < sample'[m][g].seq =>
                                              sample'[m][f].time <= sample'[m][g].time
                    /\ \A f \in Field : sample'[m][f].time <= updatedAt'[m]
                    /\ updatedAt'[m] # 0 => \E f \in Field : sample'[m][f].time = updatedAt'[m]
  BY DEF TimesFollowNumbers
<1> HIDE DEF body, t
<1>8. CASE m = t /\ body.type # "config_ack"
  <2>1. \A f \in Field : f \in Reports(body) => /\ sample'[m][f].time = receivedAt
                                                /\ sample'[m][f].seq = sampleSeq[t]
    <3> SUFFICES ASSUME NEW f \in Field, f \in Reports(body)
                 PROVE  sample'[m][f].time = receivedAt /\ sample'[m][f].seq = sampleSeq[t]
      OBVIOUS
    <3>1. sample'[m][f] = [time |-> receivedAt, seq |-> sampleSeq[m], value |-> Len(log)]
      BY <1>1, <1>8
    <3> QED BY <1>8, <3>1
  <2>2. \A f \in Field : f \notin Reports(body) => /\ sample'[m][f] = sample[m][f]
                                                   /\ sample[m][f].seq < sampleSeq[t]
    BY <1>1, <1>6, <1>8
  <2>3. \A f \in Field : /\ sample[m][f].time \in Nat /\ sample[m][f].time <= receivedAt
                         /\ sample[m][f].seq \in Nat
    BY OldSamplesPast
  <2>4. \A f, g \in Field : sample[m][f].seq < sample[m][g].seq =>
                               sample[m][f].time <= sample[m][g].time
    BY DEF TimesFollowNumbers
  <2>5. ASSUME NEW f \in Field, NEW g \in Field, sample'[m][f].seq < sample'[m][g].seq
        PROVE  sample'[m][f].time <= sample'[m][g].time
    <3>1. CASE f \in Reports(body)
      BY <1>2, <2>1, <2>2, <2>3, <2>5, <3>1
    <3>2. CASE f \notin Reports(body)
      BY <1>2, <2>1, <2>2, <2>3, <2>4, <2>5, <3>2
    <3> QED BY <3>1, <3>2
  <2>6. \A f \in Field : sample'[m][f].time <= receivedAt
    BY <1>2, <2>1, <2>2, <2>3
  <2>7. sample'[m]["error"].time = receivedAt
    BY <1>5, <1>7, <1>8, <2>1
  <2>8. updatedAt'[m] = receivedAt BY <1>3, <1>8
  <2> QED BY <1>7, <2>5, <2>6, <2>7, <2>8
<1>9. CASE ~(m = t /\ body.type # "config_ack")
  <2>1. updatedAt'[m] = updatedAt[m] BY <1>3, <1>9
  <2>2. \A f \in Field : sample'[m][f] = sample[m][f] BY <1>1, <1>4, <1>9
  <2> QED BY <2>1, <2>2 DEF TimesFollowNumbers
<1> QED BY <1>8, <1>9

\* updated_at is the time of a motor's newest sample, and a later number never
\* has an earlier time, for any motors and datagrams.
THEOREM TimesCorrect == Spec => []TimesFollowNumbers
<1>1. Init => TimesFollowNumbers
  <2> SUFFICES ASSUME Init PROVE TimesFollowNumbers OBVIOUS
  <2>1. \A m \in Motor, f \in Field : sample[m][f] = Never BY DEF Init
  <2>2. \A m \in Motor, f \in Field : sample[m][f].seq = 0 /\ sample[m][f].time = 0
    BY <2>1 DEF Never
  <2>3. \A m \in Motor : updatedAt[m] = 0 BY DEF Init
  <2> SUFFICES ASSUME NEW m \in Motor
               PROVE  /\ \A f, g \in Field : sample[m][f].seq < sample[m][g].seq =>
                                                sample[m][f].time <= sample[m][g].time
                      /\ \A f \in Field : sample[m][f].time <= updatedAt[m]
                      /\ updatedAt[m] # 0 => \E f \in Field : sample[m][f].time = updatedAt[m]
    BY DEF TimesFollowNumbers
  <2> QED BY <2>2, <2>3
<1>2. Inv /\ TimesFollowNumbers /\ [Next]_vars => TimesFollowNumbers'
  <2> SUFFICES ASSUME Inv, TimesFollowNumbers, [Next]_vars PROVE TimesFollowNumbers'
    OBVIOUS
  <2>1. ApplyFeedback \/ UNCHANGED <<sample, updatedAt>>
    BY DEF Next, vars, device, BindMotor, Start, HandlePacket, DecodeEnds, DecodeFails,
           HandleFrame, Tick
  <2>2. CASE UNCHANGED <<sample, updatedAt>> BY <2>2 DEF TimesFollowNumbers
  <2> QED BY <2>1, <2>2, ApplyFeedbackTimes
<1> QED BY Invariance, <1>1, <1>2, PTL DEF Spec
=============================================================================
