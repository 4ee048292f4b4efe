------------------------------ MODULE TokenBucket ------------------------------
(***************************************************************************)
(* token_bucket of src/src/channel.cc, as the one thread that calls wait() *)
(* sees it, with the clock that refills it, a stop request and cancel().   *)
(* An observer opens windows of time wherever it likes and counts the      *)
(* bytes granted in them.  Time is counted in ticks and rates in bytes per *)
(* tick; the unit of either is arbitrary.                                  *)
(***************************************************************************)
EXTENDS Integers

CONSTANTS Burst,       \* burst_bytes_
          Rates,       \* the values limit_bytes_per_sec_ may have
          Sizes,       \* packet sizes
          MaxElapsed,  \* bound: ticks the clock runs ahead of the last refill
          MaxWindow    \* bound: ticks in a window of the observer

ASSUME BurstIsNat == Burst \in Nat
ASSUME RatesAreNat == Rates \subseteq Nat
\* Packets are at most MOTOR_UDP_PACKET_CAP and the burst is twice that.
ASSUME SizesFitBurst == Sizes \subseteq 0 .. Burst
ASSUME MaxElapsedIsNat == MaxElapsed \in Nat
ASSUME MaxWindowIsNat == MaxWindow \in Nat

VARIABLES
  rate,         \* limit_bytes_per_sec_
  available,    \* available_bytes_
  elapsed,      \* now - last_refill_
  pc, request,  \* where wait() is, and its argument
  timer,        \* ticks left of wait_for's timeout
  stop,         \* the stop token
  result,       \* what the last wait() returned
  timeouts,     \* history: how often this wait() slept its timeout through
  windowTime, windowBytes   \* the observer's window: its length, bytes granted in it

window == <<windowTime, windowBytes>>
vars == <<rate, available, elapsed, pc, request, timer, stop, result, timeouts, window>>

Init ==
  /\ rate \in Rates
  /\ available = Burst /\ elapsed = 0
  /\ pc = "idle" /\ request = 0 /\ timer = 0
  /\ stop = FALSE /\ result = "none" /\ timeouts = 0
  /\ windowTime = 0 /\ windowBytes = 0

Lesser(a, b) == IF a < b THEN a ELSE b

\* Timeouts are counted until there is one more than a wait may have.
MaxTimeouts == 3

\* wait(bytes): nothing to wait for, a limiter that can never grant, or the loop.
Wait(n) ==
  /\ pc = "idle"
  /\ request' = n
  /\ timeouts' = 0
  /\ \/ n = 0 /\ result' = "ok" /\ pc' = "idle"
     \/ n # 0 /\ (rate = 0 \/ Burst = 0) /\ result' = "invalid" /\ pc' = "idle"
     \/ n # 0 /\ rate # 0 /\ Burst # 0 /\ pc' = "loop" /\ UNCHANGED result
  /\ UNCHANGED <<rate, available, elapsed, timer, stop, window>>

\* Broken variants: refill without its cap, and one that forgets the gain.
RefilledUncapped == available + elapsed * rate
RefilledNothing  == available

\* The tokens after refill(), whose time becomes the last refill.
Refilled == Lesser(Burst, available + elapsed * rate)

\* Broken variant: the truncated duration is used even when it is zero.
WaitDurationTruncated(missing) == missing \div rate

\* wait_duration: truncated to the clock's tick, and at least one tick.
WaitDuration(missing) == IF missing \div rate = 0 THEN 1 ELSE missing \div rate

Return(r) == pc' = "idle" /\ result' = r

\* One round of wait()'s loop: refill, then take the tokens or go to sleep.
TryTake ==
  /\ pc = "loop" /\ ~stop
  /\ elapsed' = 0
  /\ \/ /\ Refilled >= request
        /\ available' = Refilled - request
        /\ windowBytes' = windowBytes + request
        /\ Return("ok")
        /\ UNCHANGED timer
     \/ /\ Refilled < request
        /\ available' = Refilled
        /\ timer' = WaitDuration(request - Refilled)
        /\ pc' = "sleep"
        /\ UNCHANGED <<windowBytes, result>>
  /\ UNCHANGED <<rate, request, stop, timeouts, windowTime>>

Cancelled ==
  /\ pc = "loop" /\ stop
  /\ Return("cancelled")
  /\ UNCHANGED <<rate, available, elapsed, request, timer, stop, timeouts, window>>

\* wait_for ends at its timeout ...
TimeOut ==
  /\ pc = "sleep" /\ timer = 0
  /\ pc' = "loop"
  /\ timeouts' = Lesser(timeouts + 1, MaxTimeouts)
  /\ UNCHANGED <<rate, available, elapsed, request, timer, stop, result, window>>

\* ... or at a stop request, ...
StopWakes ==
  /\ pc = "sleep" /\ stop
  /\ pc' = "loop"
  /\ UNCHANGED <<rate, available, elapsed, request, timer, stop, result, timeouts, window>>

\* ... or notifies of cancel() and spurious wake-ups, which its predicate ignores:
\* the thread stays asleep, so they are no step here.

RequestStop ==
  /\ stop' = TRUE
  /\ UNCHANGED <<rate, available, elapsed, pc, request, timer, result, timeouts, window>>

\* reset() is not synchronised: its caller must be the one that calls wait().
Reset ==
  /\ pc = "idle"
  /\ available' = Burst /\ elapsed' = 0
  /\ windowTime' = 0 /\ windowBytes' = 0
  /\ UNCHANGED <<rate, pc, request, timer, stop, result, timeouts>>

\* The clock ticks; a window that has reached its bound gives way to a new one.
Tick ==
  /\ elapsed < MaxElapsed
  /\ elapsed' = elapsed + 1
  /\ timer' = IF timer > 0 THEN timer - 1 ELSE 0
  /\ windowTime' = IF windowTime < MaxWindow THEN windowTime + 1 ELSE 0
  /\ windowBytes' = IF windowTime < MaxWindow THEN windowBytes ELSE 0
  /\ UNCHANGED <<rate, available, pc, request, stop, result, timeouts>>

\* The observer opens a new window.
OpenWindow ==
  /\ windowTime' = 0 /\ windowBytes' = 0
  /\ UNCHANGED <<rate, available, elapsed, pc, request, timer, stop, result, timeouts>>

Loop == TryTake \/ Cancelled \/ TimeOut \/ StopWakes

Next ==
  \/ \E n \in Sizes : Wait(n)
  \/ Loop
  \/ RequestStop \/ Reset \/ Tick \/ OpenWindow

Spec == Init /\ [][Next]_vars

\* The clock does not stop and a thread that can run does.
FairSpec == Spec /\ WF_vars(Tick) /\ WF_vars(Loop)

--------------------------------------------------------------------------------
\* The types of the variables: the bucket never holds more than the burst.
TypeOK ==
  /\ rate \in Rates
  /\ available \in 0 .. Burst
  /\ elapsed \in 0 .. MaxElapsed
  /\ pc \in {"idle", "loop", "sleep"}
  /\ request \in Sizes \cup {0}
  /\ timer \in Nat
  /\ stop \in BOOLEAN
  /\ result \in {"none", "ok", "invalid", "cancelled"}
  /\ timeouts \in 0 .. MaxTimeouts
  /\ windowTime \in 0 .. MaxWindow
  /\ windowBytes \in Nat

\* What the limiter is for (channel.cc:114-120, channel.h:59-64): in any window of
\* time, wherever it begins and however the requests fall, no more is granted than
\* the burst and what the bandwidth allows in that time.
BandwidthBound == windowBytes <= Burst + rate * windowTime

\* A wait() sleeps its timeout through at most twice: once for the whole ticks it
\* misses, once more for what wait_duration truncated (channel.cc:178-185).
AtMostTwoTimeouts == timeouts <= 2

\* Every wait() returns: the burst covers the largest packet, so the tokens a
\* packet needs arrive, and a stop request ends the sleep (channel.cc:132-153).
WaitReturns == pc # "idle" ~> pc = "idle"

================================================================================
