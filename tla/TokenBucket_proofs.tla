--------------------------- MODULE TokenBucket_proofs ---------------------------
(***************************************************************************)
(* Proofs about TokenBucket for every burst, bandwidth and packet size:    *)
(* the bucket never overflows, no window of time gets more bytes than the  *)
(* burst and the bandwidth allow, and a wait sleeps at most twice.         *)
(***************************************************************************)
EXTENDS TokenBucket, TLAPS

USE BurstIsNat, RatesAreNat, SizesFitBurst, MaxElapsedIsNat, MaxWindowIsNat DEF MaxTimeouts

\* What the window has been granted and what is still in the bucket never exceed the
\* burst and what the refills inside the window brought.  Before the first refill of
\* a window nothing was granted in it.
WindowAccount ==
  IF elapsed > windowTime
    THEN windowBytes = 0
    ELSE windowBytes + available <= Burst + rate * (windowTime - elapsed)

\* The loop is only entered with a request, and never with a rate of 0.
LoopEntered == pc # "idle" => rate # 0

Inv == TypeOK /\ WindowAccount /\ LoopEntered

\* A product grows with its second factor by what that factor gains.
LEMMA TimesSplits ==
  ASSUME NEW r \in Nat, NEW t \in Nat, NEW e \in Nat, e <= t
  PROVE  r * t = r * (t - e) + r * e /\ r * (t - e) \in Nat /\ r * e \in Nat /\ r * t \in Nat
  OBVIOUS

LEMMA RefillBounds ==
  ASSUME TypeOK
  PROVE  /\ Refilled \in 0 .. Burst
         /\ Refilled <= available + rate * elapsed
         /\ elapsed = 0 => Refilled = available
<1>1. rate \in Nat /\ elapsed \in Nat /\ available \in 0 .. Burst
  BY DEF TypeOK
<1>2. elapsed * rate \in Nat /\ elapsed * rate = rate * elapsed
  BY <1>1
<1>3. elapsed = 0 => elapsed * rate = 0
  BY <1>1
<1> QED
  BY <1>1, <1>2, <1>3 DEF Refilled, Lesser

LEMMA InvInit == Init => Inv
<1> SUFFICES ASSUME Init PROVE Inv
  OBVIOUS
<1>1. rate \in Nat /\ windowTime - elapsed = 0 /\ elapsed = 0 /\ windowTime = 0
  BY DEF Init
<1>2. rate * (windowTime - elapsed) = 0
  BY <1>1
<1>3. TypeOK /\ LoopEntered
  <2>1. /\ available \in 0 .. Burst /\ elapsed \in 0 .. MaxElapsed
        /\ windowTime \in 0 .. MaxWindow /\ timeouts \in 0 .. MaxTimeouts
    BY DEF Init
  <2> QED
    BY <2>1 DEF Init, TypeOK, LoopEntered
<1>4. WindowAccount
  BY <1>1, <1>2 DEF Init, WindowAccount
<1> QED
  BY <1>3, <1>4 DEF Inv

LEMMA TryTakeInv ==
  ASSUME Inv, TryTake
  PROVE  Inv'
<1>1. /\ Refilled \in 0 .. Burst /\ Refilled <= available + rate * elapsed
      /\ elapsed = 0 => Refilled = available
  BY RefillBounds DEF Inv
<1>2. /\ rate \in Nat /\ windowTime \in Nat /\ elapsed \in Nat /\ request \in 0 .. Burst
      /\ windowBytes \in Nat
  BY DEF Inv, TypeOK
<1>3. windowBytes + Refilled <= Burst + rate * windowTime
  <2>1. CASE elapsed > windowTime
    <3>1. windowBytes = 0 /\ rate * windowTime \in Nat
      BY <2>1, <1>2 DEF Inv, WindowAccount
    <3> QED
      BY <1>1, <3>1
  <2>2. CASE elapsed <= windowTime
    <3>1. /\ rate * windowTime = rate * (windowTime - elapsed) + rate * elapsed
          /\ rate * (windowTime - elapsed) \in Nat /\ rate * elapsed \in Nat
          /\ rate * windowTime \in Nat
      BY <2>2, <1>2, TimesSplits
    <3>2. windowBytes + available <= Burst + rate * (windowTime - elapsed)
      BY <2>2, <1>2 DEF Inv, WindowAccount
    <3> QED
      BY <1>1, <1>2, <3>1, <3>2 DEF Inv, TypeOK
  <2> QED
    BY <2>1, <2>2, <1>2
<1>4. elapsed' = 0 /\ windowTime' = windowTime /\ rate' = rate
  BY DEF TryTake
<1>5. windowBytes' + available' = windowBytes + Refilled /\ available' \in 0 .. Burst
      /\ windowBytes' \in Nat
  BY <1>1, <1>2 DEF TryTake, Inv, TypeOK
<1>6. WindowAccount'
  <2>1. windowTime - 0 = windowTime
    BY <1>2
  <2>2. windowBytes' + available' <= Burst + rate' * (windowTime' - elapsed')
    BY <1>3, <1>4, <1>5, <2>1
  <2> QED
    BY <1>2, <1>4, <2>2 DEF WindowAccount
<1>7. rate # 0
  BY DEF TryTake, Inv, LoopEntered
<1>8. timer' \in Nat
  <2>1. CASE Refilled < request
    <3>1. request - Refilled \in Nat
      BY <1>1, <1>2, <2>1
    <3>2. (request - Refilled) \div rate \in Nat
      BY <1>2, <1>7, <3>1
    <3>3. timer' \in {timer, WaitDuration(request - Refilled)}
      BY DEF TryTake
    <3> QED
      BY <3>2, <3>3 DEF WaitDuration, Inv, TypeOK
  <2>2. CASE Refilled >= request
    BY <1>1, <1>2, <2>2 DEF TryTake, Inv, TypeOK
  <2> QED
    BY <1>1, <1>2, <2>1, <2>2
<1>9. TypeOK'
  BY <1>4, <1>5, <1>8 DEF TryTake, Return, Inv, TypeOK
<1> QED
  BY <1>6, <1>7, <1>9, <1>4 DEF Inv, LoopEntered

LEMMA TickInv ==
  ASSUME Inv, Tick
  PROVE  Inv'
<1>1. /\ rate \in Nat /\ windowTime \in Nat /\ elapsed \in Nat /\ rate' = rate
      /\ elapsed' = elapsed + 1 /\ available' = available
  BY DEF Tick, Inv, TypeOK
<1>2. CASE windowTime < MaxWindow
  <2>1. windowTime' = windowTime + 1 /\ windowBytes' = windowBytes
    BY <1>2 DEF Tick
  <2>2. windowTime' - elapsed' = windowTime - elapsed
    BY <1>1, <2>1
  <2>3. WindowAccount'
    BY <1>1, <2>1, <2>2 DEF WindowAccount, Inv
  <2> QED
    BY <1>1, <1>2, <2>1, <2>3 DEF Tick, Inv, TypeOK, LoopEntered
<1>3. CASE ~(windowTime < MaxWindow)
  <2>1. windowTime' = 0 /\ windowBytes' = 0
    BY <1>3 DEF Tick
  <2>2. WindowAccount'
    BY <1>1, <2>1 DEF WindowAccount
  <2> QED
    BY <1>1, <2>1, <2>2 DEF Tick, Inv, TypeOK, LoopEntered
<1> QED
  BY <1>2, <1>3

\* A window that has just been opened accounts for nothing.
LEMMA FreshWindow ==
  ASSUME Inv, windowTime' = 0, windowBytes' = 0, rate' = rate,
         elapsed' \in Nat, available' \in 0 .. Burst
  PROVE  WindowAccount'
<1>1. rate \in Nat
  BY DEF Inv, TypeOK
<1>2. elapsed' = 0 => rate' * (windowTime' - elapsed') = 0
  BY <1>1
<1> QED
  BY <1>2 DEF WindowAccount

LEMMA InvNext == Inv /\ [Next]_vars => Inv'
<1> SUFFICES ASSUME Inv, [Next]_vars PROVE Inv'
  OBVIOUS
<1>1. ASSUME NEW n \in Sizes, Wait(n) PROVE Inv'
  BY <1>1 DEF Wait, window, Inv, TypeOK, WindowAccount, LoopEntered
<1>2. CASE TryTake
  BY <1>2, TryTakeInv
<1>3. CASE Cancelled
  BY <1>3 DEF Cancelled, Return, window, Inv, TypeOK, WindowAccount, LoopEntered
<1>4. CASE TimeOut
  BY <1>4 DEF TimeOut, Lesser, window, Inv, TypeOK, WindowAccount, LoopEntered
<1>5. CASE StopWakes
  BY <1>5 DEF StopWakes, window, Inv, TypeOK, WindowAccount, LoopEntered
<1>6. CASE RequestStop
  BY <1>6 DEF RequestStop, window, Inv, TypeOK, WindowAccount, LoopEntered
<1>7. CASE Reset
  <2>1. WindowAccount'
    BY <1>7, FreshWindow DEF Reset, Inv, TypeOK
  <2> QED
    BY <1>7, <2>1 DEF Reset, Inv, TypeOK, LoopEntered
<1>8. CASE Tick
  BY <1>8, TickInv
<1>9. CASE OpenWindow
  <2>1. WindowAccount'
    BY <1>9, FreshWindow DEF OpenWindow, Inv, TypeOK
  <2> QED
    BY <1>9, <2>1 DEF OpenWindow, Inv, TypeOK, LoopEntered
<1>10. CASE UNCHANGED vars
  BY <1>10 DEF vars, window, Inv, TypeOK, WindowAccount, LoopEntered
<1> QED
  BY <1>1, <1>2, <1>3, <1>4, <1>5, <1>6, <1>7, <1>8, <1>9, <1>10 DEF Next, Loop

\* The bucket holds between nothing and the burst, for every rate and request.
THEOREM TypeCorrect == Spec => []TypeOK
<1>1. Inv => TypeOK
  BY DEF Inv
<1> QED
  BY InvInit, InvNext, <1>1, PTL DEF Spec

\* The account of the window implies the bandwidth bound.
LEMMA AccountBounds == Inv => BandwidthBound
<1> SUFFICES ASSUME Inv PROVE BandwidthBound
  OBVIOUS
<1>1. /\ rate \in Nat /\ windowTime \in Nat /\ elapsed \in Nat /\ windowBytes \in Nat
      /\ available \in Nat
  BY DEF Inv, TypeOK
<1>2. CASE elapsed > windowTime
  <2>1. windowBytes = 0 /\ rate * windowTime \in Nat
    BY <1>1, <1>2 DEF Inv, WindowAccount
  <2> QED
    BY <2>1 DEF BandwidthBound
<1>3. CASE elapsed <= windowTime
  <2>1. /\ rate * windowTime = rate * (windowTime - elapsed) + rate * elapsed
        /\ rate * (windowTime - elapsed) \in Nat /\ rate * elapsed \in Nat
        /\ rate * windowTime \in Nat
    BY <1>1, <1>3, TimesSplits
  <2>2. windowBytes + available <= Burst + rate * (windowTime - elapsed)
    BY <1>1, <1>3 DEF Inv, WindowAccount
  <2> QED
    BY <1>1, <2>1, <2>2 DEF BandwidthBound
<1> QED
  BY <1>1, <1>2, <1>3

\* In every window of time the limiter grants at most the burst and what the bandwidth
\* allows, for every burst, rate and set of packet sizes (token_bucket in channel.cc).
THEOREM BandwidthBounded == Spec => []BandwidthBound
  BY InvInit, InvNext, AccountBounds, PTL DEF Spec

--------------------------------------------------------------------------------
\* What a wait still misses.  A sleep ends with the whole ticks it missed refilled;
\* after one the rest is less than one tick gives, after two there is no rest.
Missing == request - available

SleepAccount ==
  /\ timeouts \in {0, 1}
  /\ Missing > 0
  /\ elapsed + timer >= WaitDuration(Missing)
  /\ timeouts = 1 => Missing < rate

LoopAccount ==
  /\ timeouts \in {0, 1, 2}
  /\ \/ stop
     \/ /\ timeouts = 1 => Missing < rate * elapsed + rate
        /\ timeouts = 2 => Missing <= rate * elapsed

TimeoutsAccount ==
  /\ timeouts <= 2
  /\ pc = "sleep" => SleepAccount
  /\ pc = "loop" => LoopAccount

LEMMA DivisionBounds ==
  ASSUME NEW m \in Nat, NEW r \in Nat, r # 0
  PROVE  m \div r \in Nat /\ m < r * (m \div r) + r
  OBVIOUS

LEMMA ProductGrows ==
  ASSUME NEW r \in Nat, NEW a \in Nat, NEW b \in Nat, a <= b
  PROVE  r * a <= r * b /\ r * a \in Nat /\ r * b \in Nat
  OBVIOUS

LEMMA NextProduct ==
  ASSUME NEW r \in Nat, NEW e \in Nat
  PROVE  r * (e + 1) = r * e + r /\ r * e \in Nat
  OBVIOUS

LEMMA WaitTypes ==
  ASSUME Inv
  PROVE  /\ rate \in Nat /\ available \in 0 .. Burst /\ request \in 0 .. Burst
         /\ elapsed \in Nat /\ timer \in Nat /\ Missing \in Int /\ timeouts \in Nat
         /\ rate * elapsed \in Nat /\ elapsed * rate = rate * elapsed
<1>1. /\ rate \in Nat /\ available \in 0 .. Burst /\ request \in 0 .. Burst
      /\ elapsed \in Nat /\ timer \in Nat /\ timeouts \in Nat
  BY DEF Inv, TypeOK
<1> QED
  BY <1>1 DEF Missing

LEMMA TryTakeTimeouts ==
  ASSUME Inv, TimeoutsAccount, TryTake
  PROVE  TimeoutsAccount'
<1> USE WaitTypes
<1>1. LoopAccount /\ ~stop /\ rate # 0
  BY DEF TryTake, TimeoutsAccount, Inv, LoopEntered
<1>2. timeouts' = timeouts /\ rate' = rate /\ request' = request /\ elapsed' = 0 /\ timeouts <= 2
  BY DEF TryTake, TimeoutsAccount
<1>3. CASE Refilled >= request
  <2>1. pc' = "idle"
    BY <1>3, RefillBounds DEF TryTake, Return, Inv
  <2> QED
    BY <1>2, <2>1 DEF TimeoutsAccount
<1>4. CASE ~(Refilled >= request)
  <2>1. /\ pc' = "sleep" /\ available' = Refilled
        /\ timer' = WaitDuration(request - Refilled)
    BY <1>4 DEF TryTake
  <2>2. Refilled < request /\ Refilled \in Nat
    BY <1>4, RefillBounds DEF Inv
  <2>3. Refilled = available + rate * elapsed
    BY <2>2 DEF Refilled, Lesser
  <2>4. Missing' = request - Refilled /\ Missing' = Missing - rate * elapsed
    BY <1>2, <2>1, <2>3 DEF Missing
  <2>5. Missing' \in Nat /\ Missing' > 0
    BY <2>2, <2>4
  <2>6. timeouts \in {0, 1} /\ (timeouts = 1 => Missing' < rate)
    BY <1>1, <2>4, <2>5 DEF LoopAccount
  <2>7. WaitDuration(Missing') \in Nat
    BY <1>1, <2>5, DivisionBounds DEF WaitDuration
  <2>8. WaitDuration(Missing)' = WaitDuration(request - Refilled)
    BY <1>2, <2>4 DEF WaitDuration
  <2>9. SleepAccount'
    <3>1. timer' = WaitDuration(Missing)' /\ timer' \in Nat
      BY <2>1, <2>4, <2>7, <2>8
    <3> QED
      BY <1>2, <2>5, <2>6, <3>1 DEF SleepAccount
  <2> QED
    BY <1>2, <2>1, <2>9 DEF TimeoutsAccount
<1> QED
  BY <1>3, <1>4

LEMMA TimeOutTimeouts ==
  ASSUME Inv, TimeoutsAccount, TimeOut
  PROVE  TimeoutsAccount'
<1> USE WaitTypes
<1>1. SleepAccount /\ timer = 0 /\ rate # 0
  BY DEF TimeOut, TimeoutsAccount, Inv, LoopEntered
<1>2. /\ pc' = "loop" /\ timeouts' = timeouts + 1
      /\ UNCHANGED <<rate, available, elapsed, request, stop>>
  BY <1>1 DEF TimeOut, Lesser, SleepAccount
<1>3. /\ Missing \in Nat /\ Missing > 0 /\ timeouts \in {0, 1}
      /\ elapsed >= WaitDuration(Missing) /\ (timeouts = 1 => Missing < rate)
  BY <1>1 DEF SleepAccount, WaitDuration
<1>4. Missing' = Missing /\ rate' * elapsed' = rate * elapsed
  BY <1>2 DEF Missing
<1>5. CASE timeouts = 0
  <2> DEFINE whole == Missing \div rate
  <2>1. whole \in Nat /\ Missing < rate * whole + rate
    BY <1>1, <1>3, DivisionBounds
  <2>2. whole <= elapsed
    BY <1>3, <2>1 DEF WaitDuration
  <2> HIDE DEF whole
  <2>3. rate * whole <= rate * elapsed /\ rate * whole \in Nat
    BY <2>1, <2>2, ProductGrows
  <2>4. Missing < rate * elapsed + rate
    BY <1>3, <2>1, <2>3
  <2> QED
    BY <1>2, <1>4, <1>5, <2>4 DEF TimeoutsAccount, LoopAccount
<1>6. CASE timeouts = 1
  <2>1. WaitDuration(Missing) >= 1
    <3>1. Missing \div rate \in Nat
      BY <1>1, <1>3, DivisionBounds
    <3> QED
      BY <3>1 DEF WaitDuration
  <2>2. 1 <= elapsed
    <3>1. Missing \div rate \in Nat
      BY <1>1, <1>3, DivisionBounds
    <3> QED
      BY <1>3, <2>1, <3>1 DEF WaitDuration
  <2>3. rate * 1 <= rate * elapsed /\ rate * 1 = rate
    BY <2>2, ProductGrows
  <2>4. Missing <= rate * elapsed
    BY <1>3, <1>6, <2>3
  <2> QED
    BY <1>2, <1>4, <1>6, <2>4 DEF TimeoutsAccount, LoopAccount
<1> QED
  BY <1>3, <1>5, <1>6

LEMMA TickTimeouts ==
  ASSUME Inv, TimeoutsAccount, Tick
  PROVE  TimeoutsAccount'
<1> USE WaitTypes
<1>1. /\ elapsed' = elapsed + 1 /\ timer' \in Nat /\ timer' + 1 >= timer
      /\ UNCHANGED <<rate, available, request, pc, stop, timeouts>>
  BY DEF Tick
<1>2. Missing' = Missing /\ rate' * elapsed' = rate * elapsed + rate
  BY <1>1, NextProduct DEF Missing
<1>3. ASSUME pc = "sleep" PROVE SleepAccount'
  <2>1. SleepAccount /\ rate # 0
    BY <1>3 DEF TimeoutsAccount, Inv, LoopEntered
  <2>2. WaitDuration(Missing)' = WaitDuration(Missing)
    BY <1>1, <1>2 DEF WaitDuration
  <2>3. WaitDuration(Missing) \in Nat
    BY <2>1, DivisionBounds DEF SleepAccount, WaitDuration
  <2>4. elapsed' + timer' >= elapsed + timer
    BY <1>1
  <2>5. elapsed' + timer' >= WaitDuration(Missing)'
    BY <1>1, <2>1, <2>2, <2>3, <2>4 DEF SleepAccount
  <2> QED
    BY <1>1, <1>2, <2>1, <2>5 DEF SleepAccount
<1>4. ASSUME pc = "loop" PROVE LoopAccount'
  BY <1>1, <1>2, <1>4 DEF TimeoutsAccount, LoopAccount
<1> QED
  BY <1>1, <1>3, <1>4 DEF TimeoutsAccount

LEMMA TimeoutsNext ==
  ASSUME Inv, TimeoutsAccount, [Next]_vars
  PROVE  TimeoutsAccount'
<1>1. ASSUME NEW n \in Sizes, Wait(n) PROVE TimeoutsAccount'
  BY <1>1 DEF Wait, TimeoutsAccount, LoopAccount
<1>2. CASE Cancelled \/ Reset
  BY <1>2 DEF Cancelled, Return, Reset, TimeoutsAccount
<1>3. CASE StopWakes
  BY <1>3 DEF StopWakes, TimeoutsAccount, SleepAccount, LoopAccount
<1>4. CASE RequestStop
  BY <1>4 DEF RequestStop, TimeoutsAccount, SleepAccount, LoopAccount, Missing, WaitDuration
<1>5. CASE OpenWindow \/ UNCHANGED vars
  BY <1>5
  DEF OpenWindow, vars, TimeoutsAccount, SleepAccount, LoopAccount, Missing, WaitDuration
<1> QED
  BY <1>1, <1>2, <1>3, <1>4, <1>5, TryTakeTimeouts, TimeOutTimeouts, TickTimeouts DEF Next, Loop

\* A wait sleeps its timeout through at most twice, for every burst, bandwidth and
\* packet size: the truncation of wait_duration costs one sleep, not a busy loop.
THEOREM TimeoutsBounded == Spec => []AtMostTwoTimeouts
<1>1. Init => TimeoutsAccount
  BY DEF Init, TimeoutsAccount
<1>2. Inv /\ TimeoutsAccount /\ [Next]_vars => Inv' /\ TimeoutsAccount'
  BY InvNext, TimeoutsNext
<1>3. TimeoutsAccount => AtMostTwoTimeouts
  BY DEF TimeoutsAccount, AtMostTwoTimeouts
<1> QED
  BY InvInit, <1>1, <1>2, <1>3, PTL DEF Spec

================================================================================
