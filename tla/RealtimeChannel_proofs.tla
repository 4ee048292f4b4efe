------------------------- MODULE RealtimeChannel_proofs -------------------------
(***************************************************************************)
(* Proofs about RealtimeChannel for every number of slots, producers,      *)
(* discarders and packets: type correctness and the conservation of slots; *)
(* and, resting on that, that stop() closes an idle channel, that packets  *)
(* stay intact, and that the channel implements PacketTransport.           *)
(***************************************************************************)
EXTENDS RealtimeChannel, FiniteSetTheorems, SequenceTheorems, TLAPS

\* The number of cells a ring without repetitions uses is at most the number
\* of slots, and less while some slot is missing from it.
LEMMA RoomForMissingSlot ==
  ASSUME NEW ring \in Seq(Slot), IsInjective(ring), NEW s \in Slot, s \notin Range(ring)
  PROVE  Len(ring) < SlotCount
<1>1. IsFiniteSet(Slot) /\ Cardinality(Slot) = SlotCount
  BY SlotCountIsNat, FS_Interval DEF Slot
<1>2. IsFiniteSet(Slot \ {s}) /\ Cardinality(Slot \ {s}) = SlotCount - 1
  BY <1>1, FS_RemoveElement
<1>3. ring \in [1 .. Len(ring) -> Slot \ {s}] /\ Len(ring) \in Nat
  BY DEF Range
<1>4. IsFiniteSet(1 .. Len(ring)) /\ Cardinality(1 .. Len(ring)) = Len(ring)
  <2> DEFINE n == Len(ring)
  <2>1. n \in Nat
    BY <1>3
  <2> HIDE DEF n
  <2>2. IsFiniteSet(1 .. n) /\ Cardinality(1 .. n) = n
    BY <2>1, FS_Interval
  <2> QED
    BY <2>2 DEF n
<1>5. ~(SlotCount - 1 < Len(ring))
  <2>1. SUFFICES ASSUME SlotCount - 1 < Len(ring) PROVE FALSE
    OBVIOUS
  <2>2. \E x, y \in 1 .. Len(ring) : x # y /\ ring[x] = ring[y]
    BY <1>2, <1>3, <1>4, <2>1, FS_PigeonHole
  <2> QED
    BY <2>2, <1>3 DEF IsInjective
<1> QED
  BY <1>3, <1>5, SlotCountIsNat

\* What a push of a missing slot does to a ring without repetitions.
LEMMA RingPush ==
  ASSUME NEW ring \in Seq(Slot), IsInjective(ring), NEW s \in Slot, s \notin Range(ring)
  PROVE  /\ Len(ring) # SlotCount
         /\ TryPush(ring, s) \in Seq(Slot)
         /\ IsInjective(TryPush(ring, s))
         /\ Range(TryPush(ring, s)) = Range(ring) \cup {s}
<1>1. Len(ring) < SlotCount /\ Len(ring) \in Nat
  BY RoomForMissingSlot
<1>2. TryPush(ring, s) = Append(ring, s)
  BY <1>1 DEF TryPush
<1>3. /\ Append(ring, s) \in Seq(Slot)
      /\ Len(Append(ring, s)) = Len(ring) + 1
      /\ \A i \in 1 .. Len(ring) : Append(ring, s)[i] = ring[i]
      /\ Append(ring, s)[Len(ring) + 1] = s
  BY AppendProperties
<1>4. DOMAIN Append(ring, s) = 1 .. Len(ring) + 1 /\ DOMAIN ring = 1 .. Len(ring)
  BY <1>1, <1>3, LenProperties
<1>5. IsInjective(Append(ring, s))
  BY <1>1, <1>3, <1>4 DEF IsInjective, Range
<1>6. Range(Append(ring, s)) = Range(ring) \cup {s}
  BY <1>1, <1>3, <1>4 DEF Range
<1> QED
  BY <1>1, <1>2, <1>3, <1>5, <1>6, SlotCountIsNat

\* What a pop does to a ring without repetitions.
LEMMA RingPop ==
  ASSUME NEW ring \in Seq(Slot), IsInjective(ring), ring # <<>>
  PROVE  /\ Head(ring) \in Slot
         /\ Head(ring) \in Range(ring)
         /\ Tail(ring) \in Seq(Slot)
         /\ IsInjective(Tail(ring))
         /\ Range(Tail(ring)) = Range(ring) \ {Head(ring)}
<1>1. Len(ring) \in Nat \ {0} /\ DOMAIN ring = 1 .. Len(ring) /\ Head(ring) = ring[1]
  BY EmptySeq, LenProperties
<1>2. /\ Tail(ring) \in Seq(Slot)
      /\ Len(Tail(ring)) = Len(ring) - 1
      /\ \A i \in 1 .. Len(ring) - 1 : Tail(ring)[i] = ring[i + 1]
  BY HeadTailProperties
<1>3. DOMAIN Tail(ring) = 1 .. Len(ring) - 1
  BY <1>2, LenProperties
<1>4. IsInjective(Tail(ring))
  BY <1>1, <1>2, <1>3 DEF IsInjective
<1>5. Head(ring) \in Slot /\ Head(ring) \in Range(ring)
  BY <1>1 DEF Range
<1>6. Range(Tail(ring)) \subseteq Range(ring) \ {Head(ring)}
  <2> SUFFICES ASSUME NEW i \in 1 .. Len(ring) - 1
               PROVE  Tail(ring)[i] \in Range(ring) \ {Head(ring)}
    BY <1>3 DEF Range
  <2>1. Tail(ring)[i] = ring[i + 1] /\ i + 1 \in DOMAIN ring /\ i + 1 # 1 /\ 1 \in DOMAIN ring
    BY <1>1, <1>2
  <2> QED
    BY <1>1, <2>1 DEF Range, IsInjective
<1>7. Range(ring) \ {Head(ring)} \subseteq Range(Tail(ring))
  <2> SUFFICES ASSUME NEW i \in 1 .. Len(ring), ring[i] # Head(ring)
               PROVE  ring[i] \in Range(Tail(ring))
    BY <1>1 DEF Range
  <2>1. i - 1 \in 1 .. Len(ring) - 1 /\ Tail(ring)[i - 1] = ring[i]
    BY <1>1, <1>2
  <2> QED
    BY <1>3, <2>1 DEF Range
<1> QED
  BY <1>2, <1>4, <1>5, <1>6, <1>7

--------------------------------------------------------------------------------
\* A producer commits a buffer it has written, and a retry leaves one more.
BuffersWritten ==
  \A p \in Producer : pc[p] \in {"commit", "size", "push"} => buffer[held[p]] \in Packet
RetriesLeft == pc[Tx] = "backoff" => attempt + 1 < RetryCount

\* The inductive invariant.
Inv == TypeOK /\ SlotsConserved /\ BuffersWritten /\ RetriesLeft

USE SlotCountIsNat, RetryCountIsPositive, ThreadsDistinct, NoPacketIsNone

LEMMA InitFree ==
  ASSUME Init
  PROVE  free \in Seq(Slot) /\ IsInjective(free) /\ Range(free) = Slot
<1>1. free \in [1 .. SlotCount -> Slot] /\ free = [i \in 1 .. SlotCount |-> i - 1]
  BY DEF Init, Slot
<1>2. free \in Seq(Slot)
  BY <1>1
<1>3. IsInjective(free)
  BY <1>1 DEF IsInjective
<1>4. \A s \in Slot : s + 1 \in DOMAIN free /\ free[s + 1] = s
  BY <1>1 DEF Slot
<1>5. Range(free) = Slot
  BY <1>1, <1>4 DEF Range
<1> QED BY <1>2, <1>3, <1>5

LEMMA InvInit == Init => Inv
<1> SUFFICES ASSUME Init PROVE Inv
  OBVIOUS
<1>1. free \in Seq(Slot) /\ IsInjective(free) /\ Range(free) = Slot
  BY InitFree
<1>2. pending = <<>> /\ IsInjective(pending) /\ Range(pending) = {}
  BY DEF Init, IsInjective, Range
<1>3. TypeOK
  <2>1. PcType /\ pc \in [Thread -> ProducerPc \cup DiscarderPc \cup TxPc]
    BY DEF Init, PcType, Thread, ProducerPc, DiscarderPc, TxPc
  <2>2. /\ accepted \in Seq(Packet) /\ pending \in Seq(Slot)
        /\ sent \in Seq([data : Packet \cup {NoPacket}, size : Packet \cup {NoPacket}])
    BY DEF Init
  <2>3. buffer \in [Slot -> Packet \cup {NoPacket}] /\ sizes \in [Slot -> Packet \cup {NoPacket}]
    BY DEF Init
  <2>4. held \in [Thread -> Slot \cup {NoSlot}] /\ txSize \in Packet \cup {NoPacket}
    BY DEF Init
  <2>5. attempt \in 0 .. RetryCount - 1
    BY DEF Init
  <2>6. /\ txStop \in BOOLEAN /\ rxStop \in BOOLEAN /\ stopped \in BOOLEAN
        /\ socketOpen \in BOOLEAN /\ rateUsable \in BOOLEAN
    BY RateChoicesAreBoolean DEF Init
  <2>7. /\ rxPc = "unstarted" /\ ownerPc = "new"
    BY DEF Init
  <2> QED
    BY <1>1, <2>1, <2>2, <2>3, <2>4, <2>5, <2>6, <2>7 DEF TypeOK
<1>4. HoldersKnown
  BY DEF Init, HoldersKnown, Thread, ProducerHolds, DiscarderHolds, TxHolds, TxUnresolved
<1>5. SlotsExclusive /\ SlotsAccounted
  BY <1>1, <1>2 DEF Init, SlotsExclusive, SlotsAccounted, Slot, NoSlot, Thread
<1>6. BuffersWritten /\ RetriesLeft
  BY DEF Init, BuffersWritten, RetriesLeft, Thread
<1> QED
  BY <1>3, <1>4, <1>5, <1>6 DEF Inv, SlotsConserved

--------------------------------------------------------------------------------
(* The four ways a slot changes hands keep the slots apart and accounted.   *)

SlotsApart == SlotsExclusive /\ SlotsAccounted

LEMMA TakeFromFree ==
  ASSUME Inv, NEW t \in Thread, held[t] = NoSlot, free # <<>>,
         held' = [held EXCEPT ![t] = Head(free)], free' = Tail(free), pending' = pending
  PROVE  SlotsApart'
<1>1. /\ Head(free) \in Slot /\ Head(free) \in Range(free)
      /\ IsInjective(Tail(free)) /\ Range(Tail(free)) = Range(free) \ {Head(free)}
  BY RingPop DEF Inv, TypeOK, SlotsConserved, SlotsExclusive
<1> QED
  BY <1>1 DEF Inv, TypeOK, SlotsConserved, SlotsApart, SlotsExclusive, SlotsAccounted, Slot, NoSlot

LEMMA TakeFromPending ==
  ASSUME Inv, NEW t \in Thread, held[t] = NoSlot, pending # <<>>,
         held' = [held EXCEPT ![t] = Head(pending)], pending' = Tail(pending), free' = free
  PROVE  SlotsApart'
<1>1. /\ Head(pending) \in Slot /\ Head(pending) \in Range(pending)
      /\ IsInjective(Tail(pending)) /\ Range(Tail(pending)) = Range(pending) \ {Head(pending)}
  BY RingPop DEF Inv, TypeOK, SlotsConserved, SlotsExclusive
<1> QED
  BY <1>1 DEF Inv, TypeOK, SlotsConserved, SlotsApart, SlotsExclusive, SlotsAccounted, Slot, NoSlot

LEMMA GiveToFree ==
  ASSUME Inv, NEW t \in Thread, held[t] # NoSlot,
         held' = [held EXCEPT ![t] = NoSlot], free' = TryPush(free, held[t]), pending' = pending
  PROVE  SlotsApart' /\ free' \in Seq(Slot)
<1>1. held[t] \in Slot /\ held[t] \notin Range(free)
  BY DEF Inv, TypeOK, SlotsConserved, SlotsExclusive
<1>2. /\ free' \in Seq(Slot) /\ IsInjective(free')
      /\ Range(free') = Range(free) \cup {held[t]}
  BY <1>1, RingPush DEF Inv, TypeOK, SlotsConserved, SlotsExclusive
<1>3. NoSlot \notin Range(free) \cup Range(pending)
  BY RangeOfSeq DEF Inv, TypeOK, Slot, NoSlot
<1>4. SlotsExclusive'
  BY <1>1, <1>2, <1>3
     DEF Inv, TypeOK, SlotsConserved, SlotsApart, SlotsExclusive, SlotsAccounted, Slot, NoSlot
<1>5. SlotsAccounted'
  BY <1>1, <1>2
     DEF Inv, TypeOK, SlotsConserved, SlotsApart, SlotsExclusive, SlotsAccounted, Slot, NoSlot
<1> QED
  BY <1>2, <1>4, <1>5 DEF SlotsApart

LEMMA GiveToPending ==
  ASSUME Inv, NEW t \in Thread, held[t] # NoSlot, Len(pending) # SlotCount,
         held' = [held EXCEPT ![t] = NoSlot], pending' = TryPush(pending, held[t]), free' = free
  PROVE  SlotsApart' /\ pending' \in Seq(Slot)
<1>1. held[t] \in Slot /\ held[t] \notin Range(pending)
  BY DEF Inv, TypeOK, SlotsConserved, SlotsExclusive
<1>2. /\ pending' \in Seq(Slot) /\ IsInjective(pending')
      /\ Range(pending') = Range(pending) \cup {held[t]}
  BY <1>1, RingPush DEF Inv, TypeOK, SlotsConserved, SlotsExclusive
<1>3. NoSlot \notin Range(free) \cup Range(pending)
  BY RangeOfSeq DEF Inv, TypeOK, Slot, NoSlot
<1>4. SlotsExclusive'
  BY <1>1, <1>2, <1>3
     DEF Inv, TypeOK, SlotsConserved, SlotsApart, SlotsExclusive, SlotsAccounted, Slot, NoSlot
<1>5. SlotsAccounted'
  BY <1>1, <1>2
     DEF Inv, TypeOK, SlotsConserved, SlotsApart, SlotsExclusive, SlotsAccounted, Slot, NoSlot
<1> QED
  BY <1>2, <1>4, <1>5 DEF SlotsApart

\* The push of commit_send always finds room: its busy branch is dead code.
LEMMA PendingHasRoom ==
  ASSUME Inv, NEW t \in Thread, held[t] # NoSlot
  PROVE  Len(pending) # SlotCount
<1>1. held[t] \in Slot /\ held[t] \notin Range(pending)
  BY DEF Inv, TypeOK, SlotsConserved, SlotsExclusive
<1> QED
  BY <1>1, RingPush DEF Inv, TypeOK, SlotsConserved, SlotsExclusive

LEMMA SlotsUnmoved ==
  ASSUME Inv, UNCHANGED <<free, pending, held>>
  PROVE  SlotsApart'
BY DEF Inv, SlotsConserved, SlotsApart, SlotsExclusive, SlotsAccounted

--------------------------------------------------------------------------------
(* Every action preserves the invariant.                                     *)

\* A thread that gives its slot back, in two steps.
LEMMA ReleaseSlotInv ==
  ASSUME Inv, NEW t \in Thread, ReleaseSlot(t)
  PROVE  Inv'
<1> USE DEF Thread, ProducerPc, DiscarderPc, TxPc, ProducerHolds, DiscarderHolds, TxHolds,
            TxUnresolved
<1>1. CASE ResetSize(t)
  <2>1. /\ pc[t] = "reset" /\ pc' = [pc EXCEPT ![t] = "give"]
        /\ sizes' = [sizes EXCEPT ![held[t]] = NoPacket]
        /\ UNCHANGED <<free, pending, buffer, held, txVars, stopVars, rateUsable, history>>
    BY <1>1 DEF ResetSize, Goto
  <2>2. TypeOK'
    <3>1. (PcType /\ pc \in [Thread -> ProducerPc \cup DiscarderPc \cup TxPc])'
      BY <2>1 DEF Inv, TypeOK, PcType
    <3>2. sizes' \in [Slot -> Packet \cup {NoPacket}]
      BY <2>1 DEF Inv, TypeOK
    <3> QED
      BY <2>1, <3>1, <3>2 DEF Inv, TypeOK, txVars, stopVars, history
  <2>3. HoldersKnown'
    BY <2>1 DEF Inv, TypeOK, SlotsConserved, HoldersKnown
  <2>4. SlotsApart'
    BY <2>1, SlotsUnmoved
  <2>5. BuffersWritten' /\ RetriesLeft'
    BY <2>1 DEF Inv, TypeOK, BuffersWritten, RetriesLeft, txVars
  <2> QED
    BY <2>2, <2>3, <2>4, <2>5 DEF Inv, SlotsConserved, SlotsApart
<1>2. CASE GiveBack(t)
  <2>1. /\ pc[t] = "give"
        /\ pc' = [pc EXCEPT ![t] = IF t = Tx THEN "top" ELSE IF t \in Discarder THEN "discard" ELSE "idle"]
        /\ free' = TryPush(free, held[t])
        /\ held' = [held EXCEPT ![t] = NoSlot]
        /\ UNCHANGED <<pending, buffer, sizes, txVars, stopVars, rateUsable, history>>
    BY <1>2 DEF GiveBack, Goto
  <2>2. held[t] # NoSlot
    BY <2>1 DEF Inv, SlotsConserved, HoldersKnown
  <2>3. SlotsApart' /\ free' \in Seq(Slot)
    BY <2>1, <2>2, GiveToFree
  <2>4. TypeOK'
    <3>1. (PcType /\ pc \in [Thread -> ProducerPc \cup DiscarderPc \cup TxPc])'
      BY <2>1 DEF Inv, TypeOK, PcType
    <3>2. held' \in [Thread -> Slot \cup {NoSlot}]
      BY <2>1 DEF Inv, TypeOK
    <3> QED
      BY <2>1, <2>3, <3>1, <3>2 DEF Inv, TypeOK, txVars, stopVars, history
  <2>5. HoldersKnown'
    BY <2>1 DEF Inv, TypeOK, SlotsConserved, HoldersKnown
  <2>6. BuffersWritten' /\ RetriesLeft'
    BY <2>1 DEF Inv, TypeOK, BuffersWritten, RetriesLeft, txVars
  <2> QED
    BY <2>3, <2>4, <2>5, <2>6 DEF Inv, SlotsConserved, SlotsApart
<1> QED
  BY <1>1, <1>2 DEF ReleaseSlot

\* A step of the tx thread that keeps what it holds.
LEMMA TxMoveInv ==
  ASSUME Inv, NEW from, NEW to \in TxPc, TxMove(from, to),
         from \in TxHolds <=> to \in TxHolds,
         to = "backoff" => attempt + 1 < RetryCount
  PROVE  Inv'
<1>1. /\ pc[Tx] = from /\ pc' = [pc EXCEPT ![Tx] = to]
      /\ UNCHANGED <<poolVars, held, txVars, stopVars, rateUsable, history>>
  BY DEF TxMove, Goto
<1>2. TypeOK'
  BY <1>1 DEF Inv, TypeOK, PcType, Thread, poolVars, txVars, stopVars, history
<1>3. HoldersKnown'
  BY <1>1 DEF Inv, TypeOK, SlotsConserved, HoldersKnown, Thread
<1>4. SlotsApart'
  BY <1>1, SlotsUnmoved DEF poolVars
<1>5. BuffersWritten' /\ RetriesLeft'
  BY <1>1 DEF Inv, TypeOK, BuffersWritten, RetriesLeft, Thread, poolVars, txVars
<1> QED
  BY <1>2, <1>3, <1>4, <1>5 DEF Inv, SlotsConserved, SlotsApart

\* A step of a producer or a discarder that keeps what it holds.
LEMMA CallMoveInv ==
  ASSUME Inv, NEW t \in Producer \cup Discarder, NEW from, NEW to, Goto(t, from, to),
         t \in Producer => to \in ProducerPc /\ (from \in ProducerHolds <=> to \in ProducerHolds),
         t \in Discarder => to \in DiscarderPc /\ (from \in DiscarderHolds <=> to \in DiscarderHolds),
         to \in {"commit", "size", "push"} => from \in {"commit", "size", "push"},
         UNCHANGED <<poolVars, held, txVars, stopVars, rateUsable, history>>
  PROVE  Inv'
<1>1. /\ pc[t] = from /\ pc' = [pc EXCEPT ![t] = to] /\ t # Tx
  BY DEF Goto
<1>2. TypeOK'
  BY <1>1 DEF Inv, TypeOK, PcType, Thread, poolVars, txVars, stopVars, history
<1>3. HoldersKnown'
  BY <1>1 DEF Inv, TypeOK, SlotsConserved, HoldersKnown, Thread
<1>4. SlotsApart'
  BY <1>1, SlotsUnmoved DEF poolVars
<1>5. BuffersWritten' /\ RetriesLeft'
  BY <1>1 DEF Inv, TypeOK, BuffersWritten, RetriesLeft, Thread, poolVars, txVars
<1> QED
  BY <1>2, <1>3, <1>4, <1>5 DEF Inv, SlotsConserved, SlotsApart

\* A step that wakes the tx thread up and changes no slot.
LEMMA WakeInv ==
  ASSUME Inv, NEW t \in Thread, t \in Producer => pc' = Wake([pc EXCEPT ![t] = "idle"]),
         t \in Producer => pc[t] = "notify", t \notin Producer => pc' = Wake(pc),
         UNCHANGED <<poolVars, held, txVars, rateUsable, history>>,
         (rxPc \in {"unstarted", "top", "receive", "callback", "done"})',
         (ownerPc \in {"new", "running", "request_rx", "request_tx", "cancel_wait",
                       "join_tx", "join_rx", "close", "stopped"})',
         (txStop \in BOOLEAN /\ rxStop \in BOOLEAN /\ stopped \in BOOLEAN
           /\ socketOpen \in BOOLEAN)'
  PROVE  Inv'
<1>1. \A u \in Thread : pc'[u] = IF u = Tx THEN (IF pc[Tx] = "blocked" THEN "pred" ELSE pc[Tx])
                                 ELSE IF u = t /\ t \in Producer THEN "idle" ELSE pc[u]
  BY DEF Wake, Inv, TypeOK, Thread
<1>2. DOMAIN pc' = Thread /\ pc' = [u \in Thread |-> pc'[u]]
  BY DEF Wake, Inv, TypeOK, Thread
<1>3. (PcType /\ pc \in [Thread -> ProducerPc \cup DiscarderPc \cup TxPc])'
  <2>1. PcType'
    BY <1>1 DEF Inv, TypeOK, PcType, Thread, ProducerPc, DiscarderPc, TxPc
  <2>2. \A u \in Thread : pc'[u] \in ProducerPc \cup DiscarderPc \cup TxPc
    BY <2>1 DEF PcType, Thread
  <2> QED
    BY <1>2, <2>1, <2>2
<1>4. TypeOK'
  BY <1>3 DEF Inv, TypeOK, poolVars, txVars, history
<1>5. HoldersKnown'
  BY <1>1 DEF Inv, SlotsConserved, HoldersKnown, Thread, ProducerHolds, DiscarderHolds,
              TxHolds, TxUnresolved
<1>6. SlotsApart'
  BY SlotsUnmoved DEF poolVars
<1>7. BuffersWritten' /\ RetriesLeft'
  BY <1>1 DEF Inv, BuffersWritten, RetriesLeft, Thread, poolVars, txVars
<1> QED
  BY <1>4, <1>5, <1>6, <1>7 DEF Inv, SlotsConserved, SlotsApart

LEMMA AcquireInv ==
  ASSUME Inv, NEW p \in Producer, AcquireSlot(p)
  PROVE  Inv'
<1> USE DEF Thread, ProducerPc, ProducerHolds
<1>1. CASE /\ free # <<>>
           /\ Goto(p, "acquire", "write")
           /\ held' = [held EXCEPT ![p] = Head(free)]
           /\ free' = Tail(free)
           /\ UNCHANGED <<pending, buffer, sizes, txVars, stopVars, rateUsable, history>>
  <2>1. /\ pc[p] = "acquire" /\ pc' = [pc EXCEPT ![p] = "write"]
        /\ held' = [held EXCEPT ![p] = Head(free)] /\ free' = Tail(free)
        /\ UNCHANGED <<pending, buffer, sizes, txVars, stopVars, rateUsable, history>>
    BY <1>1 DEF Goto
  <2>2. held[p] = NoSlot /\ p # Tx /\ p \notin Discarder
    BY <2>1 DEF Inv, SlotsConserved, HoldersKnown
  <2>3. SlotsApart'
    BY <1>1, <2>1, <2>2, TakeFromFree
  <2>4. Head(free) \in Slot /\ Tail(free) \in Seq(Slot)
    BY <1>1, RingPop DEF Inv, TypeOK, SlotsConserved, SlotsExclusive
  <2>5. TypeOK'
    <3>1. (PcType /\ pc \in [Thread -> ProducerPc \cup DiscarderPc \cup TxPc])'
      BY <2>1, <2>2 DEF Inv, TypeOK, PcType
    <3>2. held' \in [Thread -> Slot \cup {NoSlot}]
      BY <2>1, <2>4 DEF Inv, TypeOK
    <3> QED
      BY <2>1, <2>4, <3>1, <3>2 DEF Inv, TypeOK, txVars, stopVars, history
  <2>6. HoldersKnown'
    BY <2>1, <2>2, <2>4 DEF Inv, TypeOK, SlotsConserved, HoldersKnown, Slot, NoSlot
  <2>7. BuffersWritten' /\ RetriesLeft'
    BY <2>1, <2>2 DEF Inv, TypeOK, BuffersWritten, RetriesLeft, txVars
  <2> QED
    BY <2>3, <2>5, <2>6, <2>7 DEF Inv, SlotsConserved, SlotsApart
<1>2. CASE Goto(p, "acquire", "idle")
           /\ UNCHANGED <<poolVars, held, txVars, stopVars, rateUsable, history>>
  BY <1>2, CallMoveInv
<1> QED
  BY <1>1, <1>2 DEF AcquireSlot

LEMMA WriteInv ==
  ASSUME Inv, NEW p \in Producer, Write(p)
  PROVE  Inv'
<1> USE DEF Thread, ProducerPc, ProducerHolds
<1>1. ASSUME NEW x \in Packet, Goto(p, "write", "commit"),
             buffer' = [buffer EXCEPT ![held[p]] = x],
             UNCHANGED <<free, pending, sizes, held, txVars, stopVars, rateUsable, history>>
      PROVE  Inv'
  <2>1. /\ pc[p] = "write" /\ pc' = [pc EXCEPT ![p] = "commit"] /\ p # Tx /\ p \notin Discarder
        /\ held[p] \in Slot
    BY <1>1 DEF Goto, Inv, TypeOK, SlotsConserved, HoldersKnown
  <2>2. TypeOK'
    <3>1. (PcType /\ pc \in [Thread -> ProducerPc \cup DiscarderPc \cup TxPc])'
      BY <2>1 DEF Inv, TypeOK, PcType
    <3>2. buffer' \in [Slot -> Packet \cup {NoPacket}]
      BY <1>1, <2>1 DEF Inv, TypeOK
    <3> QED
      BY <1>1, <3>1, <3>2 DEF Inv, TypeOK, txVars, stopVars, history
  <2>3. HoldersKnown'
    BY <1>1, <2>1 DEF Inv, TypeOK, SlotsConserved, HoldersKnown
  <2>4. SlotsApart'
    BY <1>1, SlotsUnmoved
  <2>5. BuffersWritten'
    BY <1>1, <2>1 DEF Inv, TypeOK, BuffersWritten
  <2>6. RetriesLeft'
    BY <1>1, <2>1 DEF Inv, TypeOK, RetriesLeft, txVars
  <2> QED
    BY <2>2, <2>3, <2>4, <2>5, <2>6 DEF Inv, SlotsConserved, SlotsApart
<1>2. CASE Goto(p, "write", "reset")
           /\ UNCHANGED <<poolVars, held, txVars, stopVars, rateUsable, history>>
  BY <1>2, CallMoveInv
<1> QED
  BY <1>1, <1>2 DEF Write

LEMMA SetSizeInv ==
  ASSUME Inv, NEW p \in Producer, SetSize(p)
  PROVE  Inv'
<1> USE DEF Thread, ProducerPc, ProducerHolds
<1>1. /\ pc[p] = "size" /\ pc' = [pc EXCEPT ![p] = "push"] /\ p # Tx /\ p \notin Discarder
      /\ held[p] \in Slot
      /\ sizes' = [sizes EXCEPT ![held[p]] = buffer[held[p]]]
      /\ UNCHANGED <<free, pending, buffer, held, txVars, stopVars, rateUsable, history>>
  BY DEF SetSize, Goto, Inv, TypeOK, SlotsConserved, HoldersKnown
<1>2. TypeOK'
  <2>1. (PcType /\ pc \in [Thread -> ProducerPc \cup DiscarderPc \cup TxPc])'
    BY <1>1 DEF Inv, TypeOK, PcType
  <2>2. sizes' \in [Slot -> Packet \cup {NoPacket}]
    BY <1>1 DEF Inv, TypeOK
  <2> QED
    BY <1>1, <2>1, <2>2 DEF Inv, TypeOK, txVars, stopVars, history
<1>3. HoldersKnown'
  BY <1>1 DEF Inv, TypeOK, SlotsConserved, HoldersKnown
<1>4. SlotsApart'
  BY <1>1, SlotsUnmoved
<1>5. BuffersWritten' /\ RetriesLeft'
  BY <1>1 DEF Inv, TypeOK, BuffersWritten, RetriesLeft, txVars
<1> QED
  BY <1>2, <1>3, <1>4, <1>5 DEF Inv, SlotsConserved, SlotsApart

LEMMA PushPendingInv ==
  ASSUME Inv, NEW p \in Producer, PushPending(p)
  PROVE  Inv'
<1> USE DEF Thread, ProducerPc, ProducerHolds
<1>1. pc[p] = "push" /\ held[p] # NoSlot /\ buffer[held[p]] \in Packet
      /\ p # Tx /\ p \notin Discarder
  BY DEF PushPending, Goto, Inv, SlotsConserved, HoldersKnown, BuffersWritten
<1>2. Len(pending) # SlotCount
  BY <1>1, PendingHasRoom
<1>3. /\ pc' = [pc EXCEPT ![p] = "notify"]
      /\ pending' = TryPush(pending, held[p])
      /\ accepted' = Append(accepted, buffer[held[p]])
      /\ held' = [held EXCEPT ![p] = NoSlot]
      /\ UNCHANGED <<free, buffer, sizes, txVars, stopVars, rateUsable, sent>>
  BY <1>2 DEF PushPending, Goto
<1>4. SlotsApart' /\ pending' \in Seq(Slot)
  BY <1>1, <1>2, <1>3, GiveToPending
<1>5. TypeOK'
  <2>1. (PcType /\ pc \in [Thread -> ProducerPc \cup DiscarderPc \cup TxPc])'
    BY <1>1, <1>3 DEF Inv, TypeOK, PcType
  <2>2. held' \in [Thread -> Slot \cup {NoSlot}]
    BY <1>3 DEF Inv, TypeOK
  <2>3. accepted' \in Seq(Packet)
    BY <1>1, <1>3, AppendProperties DEF Inv, TypeOK
  <2> QED
    BY <1>3, <1>4, <2>1, <2>2, <2>3 DEF Inv, TypeOK, txVars, stopVars
<1>6. HoldersKnown'
  BY <1>1, <1>3 DEF Inv, TypeOK, SlotsConserved, HoldersKnown
<1>7. BuffersWritten' /\ RetriesLeft'
  BY <1>1, <1>3 DEF Inv, TypeOK, BuffersWritten, RetriesLeft, txVars
<1> QED
  BY <1>4, <1>5, <1>6, <1>7 DEF Inv, SlotsConserved, SlotsApart

LEMMA DiscardPopInv ==
  ASSUME Inv, NEW d \in Discarder, DiscardPop(d)
  PROVE  Inv'
<1> USE DEF Thread, DiscarderPc, DiscarderHolds
<1>1. CASE /\ pending # <<>>
           /\ Goto(d, "discard", "reset")
           /\ held' = [held EXCEPT ![d] = Head(pending)]
           /\ pending' = Tail(pending)
           /\ UNCHANGED <<free, buffer, sizes, txVars, stopVars, rateUsable, history>>
  <2>1. /\ pc[d] = "discard" /\ pc' = [pc EXCEPT ![d] = "reset"] /\ d # Tx /\ d \notin Producer
        /\ held[d] = NoSlot
    BY <1>1 DEF Goto, Inv, SlotsConserved, HoldersKnown
  <2>2. SlotsApart'
    BY <1>1, <2>1, TakeFromPending
  <2>3. Head(pending) \in Slot /\ Tail(pending) \in Seq(Slot)
    BY <1>1, RingPop DEF Inv, TypeOK, SlotsConserved, SlotsExclusive
  <2>4. TypeOK'
    <3>1. (PcType /\ pc \in [Thread -> ProducerPc \cup DiscarderPc \cup TxPc])'
      BY <2>1 DEF Inv, TypeOK, PcType
    <3>2. held' \in [Thread -> Slot \cup {NoSlot}]
      BY <1>1, <2>3 DEF Inv, TypeOK
    <3> QED
      BY <1>1, <2>3, <3>1, <3>2 DEF Inv, TypeOK, txVars, stopVars, history
  <2>5. HoldersKnown'
    BY <1>1, <2>1, <2>3 DEF Inv, TypeOK, SlotsConserved, HoldersKnown, Slot, NoSlot
  <2>6. BuffersWritten' /\ RetriesLeft'
    BY <1>1, <2>1 DEF Inv, TypeOK, BuffersWritten, RetriesLeft, txVars
  <2> QED
    BY <2>2, <2>4, <2>5, <2>6 DEF Inv, SlotsConserved, SlotsApart
<1>2. CASE Goto(d, "discard", "idle")
           /\ UNCHANGED <<poolVars, held, txVars, stopVars, rateUsable, history>>
  BY <1>2, CallMoveInv
<1> QED
  BY <1>1, <1>2 DEF DiscardPop

LEMMA PopPendingInv ==
  ASSUME Inv, PopPending
  PROVE  Inv'
<1> USE DEF Thread, TxPc, TxHolds, TxUnresolved
<1>1. CASE /\ pending # <<>>
           /\ Goto(Tx, "pop", "limit")
           /\ held' = [held EXCEPT ![Tx] = Head(pending)]
           /\ pending' = Tail(pending)
           /\ txSize' = sizes[Head(pending)]
           /\ UNCHANGED <<free, buffer, sizes, attempt, stopVars, rateUsable, history>>
  <2>1. /\ pc[Tx] = "pop" /\ pc' = [pc EXCEPT ![Tx] = "limit"]
        /\ held[Tx] = NoSlot
    BY <1>1 DEF Goto, Inv, SlotsConserved, HoldersKnown
  <2>2. SlotsApart'
    BY <1>1, <2>1, TakeFromPending
  <2>3. Head(pending) \in Slot /\ Tail(pending) \in Seq(Slot)
    BY <1>1, RingPop DEF Inv, TypeOK, SlotsConserved, SlotsExclusive
  <2>4. TypeOK'
    <3>1. (PcType /\ pc \in [Thread -> ProducerPc \cup DiscarderPc \cup TxPc])'
      BY <2>1 DEF Inv, TypeOK, PcType
    <3>2. held' \in [Thread -> Slot \cup {NoSlot}] /\ txSize' \in Packet \cup {NoPacket}
      BY <1>1, <2>3 DEF Inv, TypeOK
    <3> QED
      BY <1>1, <2>3, <3>1, <3>2 DEF Inv, TypeOK, stopVars, history
  <2>5. HoldersKnown'
    BY <1>1, <2>1, <2>3 DEF Inv, TypeOK, SlotsConserved, HoldersKnown, Slot, NoSlot
  <2>6. BuffersWritten' /\ RetriesLeft'
    BY <1>1, <2>1 DEF Inv, TypeOK, BuffersWritten, RetriesLeft
  <2> QED
    BY <2>2, <2>4, <2>5, <2>6 DEF Inv, SlotsConserved, SlotsApart
<1>2. CASE TxMove("pop", "cv_wait")
  BY <1>2, TxMoveInv
<1> QED
  BY <1>1, <1>2 DEF PopPending

\* The steps of the tx thread that set its attempt count.
LEMMA AttemptInv ==
  ASSUME Inv, NEW from, NEW to, Goto(Tx, from, to), to = "attempt", from \in TxHolds,
         attempt' \in 0 .. RetryCount - 1,
         UNCHANGED <<poolVars, held, txSize, stopVars, rateUsable, history>>
  PROVE  Inv'
<1> USE DEF Thread, TxPc, TxHolds, TxUnresolved
<1>1. /\ pc[Tx] = from /\ pc' = [pc EXCEPT ![Tx] = "attempt"]
  BY DEF Goto
<1>2. TypeOK'
  <2>1. (PcType /\ pc \in [Thread -> ProducerPc \cup DiscarderPc \cup TxPc])'
    BY <1>1 DEF Inv, TypeOK, PcType
  <2> QED
    BY <2>1 DEF Inv, TypeOK, poolVars, stopVars, history
<1>3. HoldersKnown'
  BY <1>1 DEF Inv, TypeOK, SlotsConserved, HoldersKnown
<1>4. SlotsApart'
  BY SlotsUnmoved DEF poolVars
<1>5. BuffersWritten' /\ RetriesLeft'
  BY <1>1 DEF Inv, TypeOK, BuffersWritten, RetriesLeft, poolVars
<1> QED
  BY <1>2, <1>3, <1>4, <1>5 DEF Inv, SlotsConserved, SlotsApart

LEMMA SendToInv ==
  ASSUME Inv, SendTo
  PROVE  Inv'
<1> USE DEF Thread, TxPc, TxHolds, TxUnresolved
<1>1. CASE /\ Goto(Tx, "send", "reset")
           /\ sent' = Append(sent, [data |-> buffer[held[Tx]], size |-> txSize])
           /\ UNCHANGED <<poolVars, held, txVars, stopVars, rateUsable, accepted>>
  <2>1. /\ pc[Tx] = "send" /\ pc' = [pc EXCEPT ![Tx] = "reset"] /\ held[Tx] \in Slot
    BY <1>1 DEF Goto, Inv, TypeOK, SlotsConserved, HoldersKnown
  <2>2. TypeOK'
    <3>1. (PcType /\ pc \in [Thread -> ProducerPc \cup DiscarderPc \cup TxPc])'
      BY <2>1 DEF Inv, TypeOK, PcType
    <3>2. [data |-> buffer[held[Tx]], size |-> txSize]
             \in [data : Packet \cup {NoPacket}, size : Packet \cup {NoPacket}]
      BY <2>1 DEF Inv, TypeOK
    <3>3. sent' \in Seq([data : Packet \cup {NoPacket}, size : Packet \cup {NoPacket}])
      BY <1>1, <3>2, AppendProperties DEF Inv, TypeOK
    <3> QED
      BY <1>1, <3>1, <3>3 DEF Inv, TypeOK, poolVars, txVars, stopVars
  <2>3. HoldersKnown'
    BY <1>1, <2>1 DEF Inv, TypeOK, SlotsConserved, HoldersKnown
  <2>4. SlotsApart'
    BY <1>1, SlotsUnmoved DEF poolVars
  <2>5. BuffersWritten' /\ RetriesLeft'
    BY <1>1, <2>1 DEF Inv, TypeOK, BuffersWritten, RetriesLeft, poolVars, txVars
  <2> QED
    BY <2>2, <2>3, <2>4, <2>5 DEF Inv, SlotsConserved, SlotsApart
<1>2. CASE TxMove("send", IF attempt + 1 = RetryCount THEN "reset" ELSE "backoff")
  <2>1. CASE attempt + 1 = RetryCount /\ TxMove("send", "reset")
    BY <2>1, TxMoveInv
  <2>2. CASE attempt + 1 # RetryCount /\ TxMove("send", "backoff")
    <3>1. attempt + 1 < RetryCount
      BY <2>2 DEF Inv, TypeOK
    <3> QED
      BY <2>2, <3>1, TxMoveInv
  <2> QED
    BY <1>2, <2>1, <2>2
<1>3. CASE TxMove("send", "reset")
  BY <1>3, TxMoveInv
<1> QED
  BY <1>1, <1>2, <1>3 DEF SendTo

LEMMA TxStepInv ==
  ASSUME Inv, TxStep \/ SpuriousWake
  PROVE  Inv'
<1> USE DEF TxPc, TxHolds, TxUnresolved
<1>1. CASE TxTop
  BY <1>1, TxMoveInv DEF TxTop
<1>2. CASE WaitPop
  BY <1>2, TxMoveInv DEF WaitPop
<1>3. CASE PopPending
  BY <1>3, PopPendingInv
<1>4. CASE CvWait
  BY <1>4, TxMoveInv DEF CvWait
<1>5. CASE CvPredicate
  BY <1>5, TxMoveInv DEF CvPredicate
<1>6. CASE CvBlock
  BY <1>6, TxMoveInv DEF CvBlock
<1>7. CASE RateLimit
  BY <1>7, TxMoveInv DEF RateLimit
<1>8. CASE CheckStopped
  <2>1. 0 \in 0 .. RetryCount - 1
    OBVIOUS
  <2> QED
    BY <1>8, <2>1, TxMoveInv, AttemptInv DEF CheckStopped
<1>9. CASE TryAttempt
  BY <1>9, TxMoveInv DEF TryAttempt
<1>10. CASE SendTo
  BY <1>10, SendToInv
<1>11. CASE Backoff
  <2>1. attempt + 1 \in 0 .. RetryCount - 1
    BY <1>11 DEF Backoff, Goto, Inv, TypeOK, RetriesLeft
  <2> QED
    BY <1>11, <2>1, AttemptInv DEF Backoff
<1>12. CASE ReleaseSlot(Tx)
  BY <1>12, ReleaseSlotInv DEF Thread
<1>13. CASE SpuriousWake
  BY <1>13, TxMoveInv DEF SpuriousWake
<1> QED
  BY <1>1, <1>2, <1>3, <1>4, <1>5, <1>6, <1>7, <1>8, <1>9, <1>10, <1>11, <1>12, <1>13
     DEF TxStep

LEMMA ProducerStepInv ==
  ASSUME Inv, NEW p \in Producer, PrepareSend(p) \/ ProducerStep(p)
  PROVE  Inv'
<1> USE DEF ProducerPc, ProducerHolds
<1>1. CASE PrepareSend(p)
  BY <1>1, CallMoveInv DEF PrepareSend
<1>2. CASE AcquireSlot(p)
  BY <1>2, AcquireInv
<1>3. CASE Write(p)
  BY <1>3, WriteInv
<1>4. CASE CommitSend(p)
  BY <1>4, CallMoveInv DEF CommitSend
<1>5. CASE SetSize(p)
  BY <1>5, SetSizeInv
<1>6. CASE PushPending(p)
  BY <1>6, PushPendingInv
<1>7. CASE NotifyOne(p)
  <2>1. pc[p] = "notify" /\ pc' = Wake([pc EXCEPT ![p] = "idle"])
        /\ UNCHANGED <<poolVars, held, txVars, stopVars, rateUsable, history>>
    BY <1>7 DEF NotifyOne
  <2>2. p \in Thread /\ UNCHANGED <<poolVars, held, txVars, rateUsable, history>>
    BY <2>1 DEF Thread
  <2>3. UNCHANGED <<txStop, rxStop, stopped, rxPc, ownerPc, socketOpen>>
    BY <2>1 DEF stopVars
  <2>4. /\ (rxPc \in {"unstarted", "top", "receive", "callback", "done"})'
        /\ (ownerPc \in {"new", "running", "request_rx", "request_tx", "cancel_wait",
                         "join_tx", "join_rx", "close", "stopped"})'
        /\ (txStop \in BOOLEAN /\ rxStop \in BOOLEAN /\ stopped \in BOOLEAN
             /\ socketOpen \in BOOLEAN)'
    BY <2>3 DEF Inv, TypeOK
  <2> QED
    BY <2>1, <2>2, <2>4, WakeInv
<1>8. CASE ReleaseSlot(p)
  BY <1>8, ReleaseSlotInv DEF Thread
<1> QED
  BY <1>1, <1>2, <1>3, <1>4, <1>5, <1>6, <1>7, <1>8 DEF ProducerStep

LEMMA DiscarderStepInv ==
  ASSUME Inv, NEW d \in Discarder, BeginDiscard(d) \/ DiscarderStep(d)
  PROVE  Inv'
<1>1. CASE BeginDiscard(d)
  BY <1>1, CallMoveInv DEF BeginDiscard, DiscarderPc, DiscarderHolds
<1>2. CASE DiscardPop(d)
  BY <1>2, DiscardPopInv
<1>3. CASE ReleaseSlot(d)
  BY <1>3, ReleaseSlotInv DEF Thread
<1> QED
  BY <1>1, <1>2, <1>3 DEF DiscarderStep

\* A step that changes none of what the invariant says of slots and threads.
LEMMA SameThreadsInv ==
  ASSUME Inv, UNCHANGED <<poolVars, held, pc, txVars, rateUsable, history>>,
         (rxPc \in {"unstarted", "top", "receive", "callback", "done"})',
         (ownerPc \in {"new", "running", "request_rx", "request_tx", "cancel_wait",
                       "join_tx", "join_rx", "close", "stopped"})',
         (txStop \in BOOLEAN /\ rxStop \in BOOLEAN /\ stopped \in BOOLEAN
           /\ socketOpen \in BOOLEAN)'
  PROVE  Inv'
<1>1. TypeOK'
  BY DEF Inv, TypeOK, PcType, poolVars, txVars, history
<1>2. HoldersKnown' /\ BuffersWritten' /\ RetriesLeft'
  BY DEF Inv, SlotsConserved, HoldersKnown, BuffersWritten, RetriesLeft, poolVars, txVars
<1>3. SlotsApart'
  BY SlotsUnmoved DEF poolVars
<1> QED
  BY <1>1, <1>2, <1>3 DEF Inv, SlotsConserved, SlotsApart

LEMMA RxStepInv ==
  ASSUME Inv, RxStep
  PROVE  Inv'
<1>1. ASSUME NEW from, NEW to \in {"receive", "callback", "done"}, RxMove(from, to)
      PROVE  Inv'
  BY <1>1, SameThreadsInv DEF RxMove, Inv, TypeOK
<1> QED
  BY <1>1 DEF RxStep, RxTop, RxReceive, RxCallback, RxRound

LEMMA OwnerStepInv ==
  ASSUME Inv, Start \/ Stop \/ StopStep
  PROVE  Inv'
<1> USE DEF OwnerMove
<1>1. CASE Start
  <2>1. /\ pc[Tx] = "unstarted" /\ pc' = [pc EXCEPT ![Tx] = "top"]
        /\ UNCHANGED <<poolVars, held, txVars, rateUsable, history>>
        /\ UNCHANGED <<txStop, rxStop, stopped, socketOpen>>
        /\ rxPc' = "top" /\ ownerPc' = "running"
    BY <1>1 DEF Start, Goto
  <2>2. TypeOK'
    <3>1. (PcType /\ pc \in [Thread -> ProducerPc \cup DiscarderPc \cup TxPc])'
      BY <2>1 DEF Inv, TypeOK, PcType, Thread, TxPc
    <3> QED
      BY <2>1, <3>1 DEF Inv, TypeOK, poolVars, txVars, history
  <2>3. HoldersKnown'
    BY <2>1 DEF Inv, TypeOK, SlotsConserved, HoldersKnown, Thread, TxHolds, TxUnresolved
  <2>4. SlotsApart'
    BY <2>1, SlotsUnmoved DEF poolVars
  <2>5. BuffersWritten' /\ RetriesLeft'
    BY <2>1 DEF Inv, TypeOK, BuffersWritten, RetriesLeft, Thread, poolVars, txVars
  <2> QED
    BY <2>2, <2>3, <2>4, <2>5 DEF Inv, SlotsConserved, SlotsApart
<1>2. CASE Stop
  BY <1>2, SameThreadsInv DEF Stop, Inv, TypeOK
<1>3. CASE RequestStopRx
  BY <1>3, SameThreadsInv DEF RequestStopRx, Inv, TypeOK
<1>4. CASE RequestStopTx
  BY <1>4, WakeInv DEF RequestStopTx, Inv, TypeOK, Thread
<1>5. CASE CancelWait
  BY <1>5, WakeInv DEF CancelWait, Inv, TypeOK, Thread
<1>6. CASE JoinTx
  BY <1>6, SameThreadsInv DEF JoinTx, Inv, TypeOK
<1>7. CASE JoinRx
  BY <1>7, SameThreadsInv DEF JoinRx, Inv, TypeOK
<1>8. CASE CloseSocket
  BY <1>8, SameThreadsInv DEF CloseSocket, Inv, TypeOK
<1> QED
  BY <1>1, <1>2, <1>3, <1>4, <1>5, <1>6, <1>7, <1>8 DEF StopStep

LEMMA InvNext == Inv /\ [Next]_vars => Inv'
<1> SUFFICES ASSUME Inv, [Next]_vars PROVE Inv'
  OBVIOUS
<1>1. ASSUME NEW p \in Producer, PrepareSend(p) \/ ProducerStep(p) PROVE Inv'
  BY <1>1, ProducerStepInv
<1>2. ASSUME NEW d \in Discarder, BeginDiscard(d) \/ DiscarderStep(d) PROVE Inv'
  BY <1>2, DiscarderStepInv
<1>3. CASE TxStep \/ SpuriousWake
  BY <1>3, TxStepInv
<1>4. CASE RxStep
  BY <1>4, RxStepInv
<1>5. CASE Start \/ Stop \/ StopStep
  BY <1>5, OwnerStepInv
<1>6. CASE UNCHANGED vars
  BY <1>6, SameThreadsInv DEF vars, stopVars, Inv, TypeOK
<1> QED
  BY <1>1, <1>2, <1>3, <1>4, <1>5, <1>6 DEF Next

LEMMA InvAlways == Spec => []Inv
  BY InvInit, InvNext, PTL DEF Spec

\* The variables keep their types for every number of slots, threads and packets:
\* every slot number that reaches packet_sizes_ or the storage is a valid index.
THEOREM TypeCorrect == Spec => []TypeOK
<1>1. Inv => TypeOK
  BY DEF Inv
<1> QED
  BY InvAlways, <1>1, PTL

\* Each slot is in one ring or with one thread, for every number of slots, threads
\* and packets: no slot is leaked, and none is written while it is queued or sent
\* (packet_pool and its callers in channel.cc).
THEOREM SlotsConservedAlways == Spec => []SlotsConserved
<1>1. Inv => SlotsConserved
  BY DEF Inv
<1> QED
  BY InvAlways, <1>1, PTL

--------------------------------------------------------------------------------
(* What the channel does with packets. *)

Ended == {"unstarted", "done"}

\* stop() joins the tx thread, then the rx thread.
JoinedInTurn ==
  /\ ownerPc \in {"join_rx", "close", "stopped"} => pc[Tx] \in Ended
  /\ ownerPc \in {"close", "stopped"} => rxPc \in Ended

\* A producer records the size of a packet before it queues it.
SizesRecorded ==
  \A p \in Producer : pc[p] = "push" => sizes[held[p]] = buffer[held[p]]

LEMMA HolderAlone ==
  ASSUME Inv, NEW t \in Thread, held[t] # NoSlot
  PROVE  /\ held[t] \in Slot /\ held[t] \notin Range(pending)
         /\ \A u \in Thread : u # t => held[u] # held[t]
  BY DEF Inv, TypeOK, SlotsConserved, SlotsExclusive

LEMMA PendingSlots == Inv => Range(pending) \subseteq Slot
  BY RangeOfSeq DEF Inv, TypeOK

\* A notification moves the tx thread only out of a wait.
LEMMA WakeEffect ==
  ASSUME NEW Place, NEW f \in [Thread -> Place]
  PROVE  \A u \in Thread : Wake(f)[u] = IF u = Tx /\ f[Tx] = "blocked" THEN "pred" ELSE f[u]
  BY DEF Wake, Thread

\* Only t goes on in its code.
Moves(t) == \A u \in Thread : u # t => pc'[u] = pc[u]

LEMMA GotoMoves ==
  ASSUME Inv, NEW t, NEW from, NEW to, Goto(t, from, to)
  PROVE  Moves(t)
  BY DEF Goto, Moves, Inv, TypeOK

\* Only a notification lets another thread go on.
LEMMA CallersMove ==
  ASSUME Inv
  PROVE  /\ \A p \in Producer : PrepareSend(p) \/ ProducerStep(p) => NotifyOne(p) \/ Moves(p)
         /\ \A d \in Discarder : BeginDiscard(d) \/ DiscarderStep(d) => Moves(d)
<1>1. ASSUME NEW t, ReleaseSlot(t) PROVE Moves(t)
  <2>1. CASE ResetSize(t)
    BY <2>1, GotoMoves DEF ResetSize
  <2>2. CASE GiveBack(t)
    BY <2>2, GotoMoves DEF GiveBack
  <2> QED
    BY <1>1, <2>1, <2>2 DEF ReleaseSlot
<1>2. ASSUME NEW p, PrepareSend(p) \/ CommitSend(p) \/ SetSize(p) PROVE Moves(p)
  BY <1>2, GotoMoves DEF PrepareSend, CommitSend, SetSize
<1>3. ASSUME NEW p, AcquireSlot(p) PROVE Moves(p)
  BY <1>3, GotoMoves DEF AcquireSlot
<1>4. ASSUME NEW p, Write(p) PROVE Moves(p)
  BY <1>4, GotoMoves DEF Write
<1>5. ASSUME NEW p, PushPending(p) PROVE Moves(p)
  BY <1>5, GotoMoves DEF PushPending
<1>6. ASSUME NEW d, BeginDiscard(d) PROVE Moves(d)
  BY <1>6, GotoMoves DEF BeginDiscard
<1>7. ASSUME NEW d, DiscardPop(d) PROVE Moves(d)
  BY <1>7, GotoMoves DEF DiscardPop
<1> QED
  BY <1>1, <1>2, <1>3, <1>4, <1>5, <1>6, <1>7 DEF ProducerStep, DiscarderStep

\* A thread that has ended does not go on.
LEMMA TxStaysEnded ==
  ASSUME Inv, [Next]_vars, pc[Tx] \in Ended, ownerPc # "new"
  PROVE  pc'[Tx] = pc[Tx]
<1> USE DEF Ended
<1>1. ASSUME NEW p \in Producer, PrepareSend(p) \/ ProducerStep(p) PROVE pc'[Tx] = pc[Tx]
  <2>1. p # Tx /\ Tx \in Thread
    BY DEF Thread
  <2>2. CASE NotifyOne(p)
    <3>1. /\ [pc EXCEPT ![p] = "idle"] \in [Thread -> ProducerPc \cup DiscarderPc \cup TxPc]
          /\ [pc EXCEPT ![p] = "idle"][Tx] = pc[Tx]
      BY <2>1 DEF Inv, TypeOK, ProducerPc
    <3>2. Wake([pc EXCEPT ![p] = "idle"])[Tx] = pc[Tx]
      BY <2>1, <3>1, WakeEffect
    <3> QED
      BY <2>2, <3>2 DEF NotifyOne
  <2>3. CASE ~NotifyOne(p)
    BY <1>1, <2>1, <2>3, CallersMove DEF Moves
  <2> QED
    BY <2>2, <2>3
<1>2. ASSUME NEW d \in Discarder, BeginDiscard(d) \/ DiscarderStep(d) PROVE pc'[Tx] = pc[Tx]
  <2>1. d # Tx /\ Tx \in Thread
    BY DEF Thread
  <2> QED
    BY <1>2, <2>1, CallersMove DEF Moves
<1>3. CASE TxStep \/ SpuriousWake
  BY <1>3 DEF TxStep, SpuriousWake, TxTop, WaitPop, PopPending, CvWait, CvPredicate, CvBlock,
     RateLimit, CheckStopped, TryAttempt, SendTo, Backoff, ReleaseSlot, ResetSize, GiveBack,
     TxMove, Goto
<1>4. CASE RxStep
  BY <1>4 DEF RxStep, RxTop, RxReceive, RxCallback, RxRound, RxMove
<1>5. CASE Start \/ Stop \/ StopStep
  <2>1. \A u \in Thread : Wake(pc)[u] = IF u = Tx /\ pc[Tx] = "blocked" THEN "pred" ELSE pc[u]
    BY WakeEffect DEF Inv, TypeOK
  <2> QED
    BY <1>5, <2>1
       DEF Start, Stop, StopStep, RequestStopRx, RequestStopTx, CancelWait, JoinTx, JoinRx,
           CloseSocket, OwnerMove, Thread
<1>6. CASE UNCHANGED vars
  BY <1>6 DEF vars
<1> QED
  BY <1>1, <1>2, <1>3, <1>4, <1>5, <1>6 DEF Next

LEMMA OwnerOnly ==
  ASSUME [Next]_vars
  PROVE  \/ UNCHANGED <<rxPc, ownerPc>>
         \/ RxStep /\ UNCHANGED ownerPc
         \/ Start \/ Stop \/ StopStep
<1>1. ASSUME NEW p \in Producer, PrepareSend(p) \/ ProducerStep(p) PROVE UNCHANGED <<rxPc, ownerPc>>
  BY <1>1 DEF PrepareSend, ProducerStep, AcquireSlot, Write, CommitSend, SetSize, PushPending,
     NotifyOne, ReleaseSlot, ResetSize, GiveBack, stopVars
<1>2. ASSUME NEW d \in Discarder, BeginDiscard(d) \/ DiscarderStep(d) PROVE UNCHANGED <<rxPc, ownerPc>>
  BY <1>2 DEF BeginDiscard, DiscarderStep, DiscardPop, ReleaseSlot, ResetSize, GiveBack, stopVars
<1>3. CASE TxStep \/ SpuriousWake
  BY <1>3 DEF TxStep, SpuriousWake, TxTop, WaitPop, PopPending, CvWait, CvPredicate, CvBlock,
     RateLimit, CheckStopped, TryAttempt, SendTo, Backoff, ReleaseSlot, ResetSize, GiveBack,
     TxMove, stopVars
<1>4. RxStep => UNCHANGED ownerPc
  BY DEF RxStep, RxTop, RxReceive, RxCallback, RxRound, RxMove
<1>5. CASE UNCHANGED vars
  BY <1>5 DEF vars, stopVars
<1> QED
  BY <1>1, <1>2, <1>3, <1>4, <1>5 DEF Next

LEMMA JoinedInit == Init => JoinedInTurn
  BY DEF Init, JoinedInTurn

LEMMA JoinedNext == Inv /\ JoinedInTurn /\ [Next]_vars => JoinedInTurn'
<1> SUFFICES ASSUME Inv, JoinedInTurn, [Next]_vars PROVE JoinedInTurn'
  OBVIOUS
<1>1. pc[Tx] \in Ended /\ ownerPc # "new" => pc'[Tx] \in Ended
  BY TxStaysEnded
<1>2. CASE UNCHANGED <<rxPc, ownerPc>>
  BY <1>1, <1>2 DEF JoinedInTurn
<1>3. CASE RxStep /\ UNCHANGED ownerPc
  <2>1. rxPc \notin Ended
    BY <1>3 DEF RxStep, RxTop, RxReceive, RxCallback, RxRound, RxMove, Ended
  <2> QED
    BY <1>1, <1>3, <2>1 DEF JoinedInTurn
<1>4. CASE Start \/ Stop \/ StopStep
  <2>1. Start \/ Stop => JoinedInTurn'
    BY DEF Start, Stop, OwnerMove, JoinedInTurn
  <2>2. RequestStopRx \/ RequestStopTx \/ CancelWait => JoinedInTurn'
    BY DEF RequestStopRx, RequestStopTx, CancelWait, OwnerMove, JoinedInTurn
  <2>3. JoinTx \/ JoinRx \/ CloseSocket => JoinedInTurn'
    BY <1>1 DEF JoinTx, JoinRx, CloseSocket, OwnerMove, JoinedInTurn, Ended
  <2> QED
    BY <1>4, <2>1, <2>2, <2>3 DEF StopStep
<1> QED
  BY <1>2, <1>3, <1>4, OwnerOnly

LEMMA JoinedAlways == Spec => []JoinedInTurn
  BY JoinedInit, JoinedNext, InvAlways, PTL DEF Spec

\* stop() closes the socket and returns only after both threads have ended, for
\* every number of threads and slots (channel.cc, stop).
THEOREM ClosedWhenIdleAlways == Spec => []ClosedWhenIdle
<1>1. JoinedInTurn => ClosedWhenIdle
  BY DEF JoinedInTurn, ClosedWhenIdle, Ended
<1> QED
  BY JoinedAlways, <1>1, PTL

--------------------------------------------------------------------------------
(* What a step does to the packets: nothing, or one of five things.         *)

\* The tx thread works on a packet.
Working == pc[Tx] \in TxUnresolved

Quiet ==
  /\ UNCHANGED <<pending, accepted, sent>>
  /\ \A s \in Range(pending) : buffer'[s] = buffer[s] /\ sizes'[s] = sizes[s]
  /\ Working' <=> Working
  /\ Working => held'[Tx] = held[Tx] /\ txSize' = txSize /\ buffer'[held[Tx]] = buffer[held[Tx]]

Committed(p) ==
  /\ held[p] \in Slot /\ buffer[held[p]] \in Packet /\ sizes[held[p]] = buffer[held[p]]
  /\ pending' = Append(pending, held[p]) /\ accepted' = Append(accepted, buffer[held[p]])
  /\ Working' <=> Working
  /\ held'[Tx] = held[Tx]
  /\ UNCHANGED <<buffer, sizes, txSize, sent>>

Taken ==
  /\ ~Working /\ Working'
  /\ pending # <<>> /\ pending' = Tail(pending)
  /\ held'[Tx] = Head(pending) /\ txSize' = sizes[Head(pending)]
  /\ UNCHANGED <<buffer, sizes, accepted, sent>>

Sent ==
  /\ pc[Tx] = "send" /\ ~Working'
  /\ sent' = Append(sent, [data |-> buffer[held[Tx]], size |-> txSize])
  /\ UNCHANGED <<pending, buffer, sizes, accepted>>

GivenUp ==
  /\ Working /\ ~Working'
  /\ UNCHANGED <<pending, buffer, sizes, accepted, sent>>

Discarded ==
  /\ pending # <<>> /\ pending' = Tail(pending)
  /\ Working' <=> Working
  /\ held'[Tx] = held[Tx]
  /\ UNCHANGED <<buffer, sizes, txSize, accepted, sent>>

LEMMA WorkerHolds == Inv /\ Working => held[Tx] # NoSlot /\ held[Tx] \in Slot
  BY DEF Inv, TypeOK, SlotsConserved, HoldersKnown, Working, TxHolds, Thread

LEMMA MoveQuiet ==
  ASSUME Inv, SizesRecorded, Working' <=> Working,
         \A p \in Producer : pc'[p] = "push" => pc[p] = "push",
         UNCHANGED <<poolVars, held, txSize, history>>
  PROVE  Quiet /\ SizesRecorded'
  BY DEF Quiet, SizesRecorded, poolVars, history

LEMMA CallerMoveQuiet ==
  ASSUME Inv, SizesRecorded, NEW t \in Producer \cup Discarder, NEW from, NEW to,
         Goto(t, from, to), to # "push",
         UNCHANGED <<poolVars, held, txVars, stopVars, rateUsable, history>>
  PROVE  Quiet /\ SizesRecorded'
<1>1. /\ pc'[Tx] = pc[Tx]
      /\ \A p \in Producer : pc'[p] = "push" => pc[p] = "push"
  BY DEF Goto, Inv, TypeOK, Thread
<1> QED
  BY <1>1, MoveQuiet DEF Working, txVars

\* What the tx thread does leaves the producers where they are.
LEMMA TxMovesAlone ==
  ASSUME Inv, NEW from, NEW to, Goto(Tx, from, to)
  PROVE  pc'[Tx] = to /\ pc[Tx] = from /\ \A p \in Producer : pc'[p] = pc[p]
  BY DEF Goto, Inv, TypeOK, Thread

LEMMA TxMoveQuiet ==
  ASSUME Inv, SizesRecorded, NEW from, NEW to, TxMove(from, to),
         from \in TxUnresolved <=> to \in TxUnresolved
  PROVE  Quiet /\ SizesRecorded'
  BY TxMovesAlone, MoveQuiet DEF TxMove, Working, txVars

LEMMA TxMoveGivesUp ==
  ASSUME Inv, SizesRecorded, NEW from \in TxUnresolved, NEW to, TxMove(from, to),
         to \notin TxUnresolved
  PROVE  GivenUp /\ SizesRecorded'
  BY TxMovesAlone DEF TxMove, Working, GivenUp, SizesRecorded, poolVars, history

LEMMA ReleasePackets ==
  ASSUME Inv, SizesRecorded, NEW t \in Thread, ReleaseSlot(t)
  PROVE  Quiet /\ SizesRecorded'
<1>1. /\ pc[t] \in {"reset", "give"} /\ pc'[t] \notin TxUnresolved \cup {"push"}
      /\ \A u \in Thread : u # t => pc'[u] = pc[u]
  BY DEF ReleaseSlot, ResetSize, GiveBack, Goto, Inv, TypeOK, TxUnresolved
<1>2. held[t] # NoSlot /\ held[t] \in Slot
  BY <1>1 DEF Inv, TypeOK, SlotsConserved, HoldersKnown, Thread, ProducerHolds, DiscarderHolds,
     TxHolds
<1>3. held[t] \notin Range(pending) /\ \A u \in Thread : u # t => held[u] # held[t]
  BY <1>2, HolderAlone
<1>4. Working' <=> Working
  BY <1>1 DEF Working, TxUnresolved, Thread
<1>5. Working => t # Tx
  BY <1>1 DEF Working, TxUnresolved
<1>6. /\ UNCHANGED <<pending, accepted, sent, buffer, txSize>>
      /\ \A u \in Thread : u # t => held'[u] = held[u]
      /\ \A s \in Slot : s # held[t] => sizes'[s] = sizes[s]
  BY <1>2 DEF ReleaseSlot, ResetSize, GiveBack, Inv, TypeOK, history, txVars
<1>7. Quiet
  BY <1>3, <1>4, <1>5, <1>6, PendingSlots DEF Quiet, Thread
<1>8. SizesRecorded'
  <2> SUFFICES ASSUME NEW p \in Producer, pc'[p] = "push"
               PROVE  sizes'[held'[p]] = buffer'[held'[p]]
    BY DEF SizesRecorded
  <2>1. p # t /\ p \in Thread /\ pc[p] = "push"
    BY <1>1 DEF Thread
  <2>2. held[p] \in Slot /\ held[p] # held[t]
    BY <1>3, <2>1 DEF Inv, TypeOK, SlotsConserved, HoldersKnown, ProducerHolds
  <2> QED
    BY <1>6, <2>1, <2>2 DEF SizesRecorded
<1> QED
  BY <1>7, <1>8

\* A producer that changes one slot, which it holds, or takes one.
LEMMA ProducerPackets ==
  ASSUME Inv, SizesRecorded, NEW p \in Producer, PrepareSend(p) \/ ProducerStep(p)
  PROVE  (Quiet \/ Committed(p)) /\ SizesRecorded'
<1>0. p \in Thread /\ Tx \in Thread /\ p # Tx
  BY DEF Thread
<1>1. CASE PrepareSend(p) \/ CommitSend(p)
  <2>1. CASE PrepareSend(p)
    BY <2>1, CallerMoveQuiet DEF PrepareSend
  <2>2. CASE CommitSend(p)
    BY <2>2, CallerMoveQuiet DEF CommitSend
  <2> QED
    BY <1>1, <2>1, <2>2
<1>2. ASSUME Goto(p, "acquire", "write"), held' = [held EXCEPT ![p] = Head(free)],
             UNCHANGED <<pending, buffer, sizes, txVars, stopVars, rateUsable, history>>
      PROVE  Quiet /\ SizesRecorded'
  <2>1. /\ \A q \in Producer : pc'[q] = "push" => q # p /\ pc[q] = "push"
        /\ \A u \in Thread : u # p => pc'[u] = pc[u] /\ held'[u] = held[u]
    BY <1>0, <1>2 DEF Goto, Inv, TypeOK, Thread
  <2> QED
    BY <1>0, <1>2, <2>1 DEF Quiet, SizesRecorded, Working, Thread, history, txVars
<1>3. CASE AcquireSlot(p)
  <2>1. CASE Goto(p, "acquire", "idle")
             /\ UNCHANGED <<poolVars, held, txVars, stopVars, rateUsable, history>>
    BY <2>1, CallerMoveQuiet
  <2> QED
    BY <1>2, <1>3, <2>1 DEF AcquireSlot
<1>4. ASSUME pc[p] \in ProducerHolds PROVE /\ held[p] \in Slot /\ held[p] \notin Range(pending)
                                         /\ \A u \in Thread : u # p => held[u] # held[p]
  <2>1. held[p] # NoSlot
    BY <1>4 DEF Inv, SlotsConserved, HoldersKnown
  <2> QED
    BY <1>0, <2>1, HolderAlone
<1>5. ASSUME NEW x \in Packet, Goto(p, "write", "commit"),
             buffer' = [buffer EXCEPT ![held[p]] = x],
             UNCHANGED <<free, pending, sizes, held, txVars, stopVars, rateUsable, history>>
      PROVE  Quiet /\ SizesRecorded'
  <2>1. /\ held[p] \in Slot /\ held[p] \notin Range(pending)
        /\ \A u \in Thread : u # p => held[u] # held[p]
    BY <1>4, <1>5 DEF Goto, ProducerHolds
  <2>2. /\ \A q \in Producer : pc'[q] = "push" => q # p /\ pc[q] = "push"
        /\ \A u \in Thread : u # p => pc'[u] = pc[u]
    BY <1>0, <1>5 DEF Goto, Inv, TypeOK, Thread
  <2>3. \A s : s # held[p] => buffer'[s] = buffer[s]
    BY <1>5 DEF Inv, TypeOK
  <2>4. Quiet
    BY <1>0, <1>5, <2>1, <2>2, <2>3 DEF Quiet, Working, history, txVars
  <2>5. SizesRecorded'
    BY <1>0, <1>5, <2>1, <2>2, <2>3 DEF SizesRecorded, Thread
  <2> QED
    BY <2>4, <2>5
<1>6. CASE Write(p)
  <2>1. CASE Goto(p, "write", "reset")
             /\ UNCHANGED <<poolVars, held, txVars, stopVars, rateUsable, history>>
    BY <2>1, CallerMoveQuiet
  <2> QED
    BY <1>5, <1>6, <2>1 DEF Write
<1>7. CASE SetSize(p)
  <2>1. /\ held[p] \in Slot /\ held[p] \notin Range(pending)
        /\ \A u \in Thread : u # p => held[u] # held[p]
    BY <1>4, <1>7 DEF SetSize, Goto, ProducerHolds
  <2>2. /\ \A q \in Producer : pc'[q] = "push" => q = p \/ pc[q] = "push"
        /\ \A u \in Thread : u # p => pc'[u] = pc[u]
    BY <1>0, <1>7 DEF SetSize, Goto, Inv, TypeOK, Thread
  <2>3. /\ sizes'[held[p]] = buffer[held[p]]
        /\ \A s \in Slot : s # held[p] => sizes'[s] = sizes[s]
        /\ UNCHANGED <<pending, buffer, held, txSize, accepted, sent>>
    BY <1>7, <2>1 DEF SetSize, Inv, TypeOK, history, txVars
  <2>4. Quiet
    BY <1>0, <2>1, <2>2, <2>3, PendingSlots DEF Quiet, Working
  <2>5. SizesRecorded'
    <3> SUFFICES ASSUME NEW q \in Producer, pc'[q] = "push"
                 PROVE  sizes'[held[q]] = buffer[held[q]]
      BY <2>3 DEF SizesRecorded
    <3>1. CASE q = p
      BY <2>3, <3>1
    <3>2. CASE q # p
      <4>1. pc[q] = "push" /\ held[q] \in Slot /\ held[q] # held[p]
        BY <2>1, <2>2, <3>2 DEF Inv, TypeOK, SlotsConserved, HoldersKnown, ProducerHolds, Thread
      <4> QED
        BY <2>3, <4>1 DEF SizesRecorded
    <3> QED
      BY <3>1, <3>2
  <2> QED
    BY <2>4, <2>5
<1>8. CASE PushPending(p)
  <2>1. /\ pc[p] = "push" /\ held[p] \in Slot /\ held[p] # NoSlot
        /\ buffer[held[p]] \in Packet /\ sizes[held[p]] = buffer[held[p]]
    BY <1>0, <1>8 DEF PushPending, Goto, Inv, TypeOK, SlotsConserved, HoldersKnown, ProducerHolds,
       BuffersWritten, SizesRecorded
  <2>2. TryPush(pending, held[p]) = Append(pending, held[p]) /\ Len(pending) # SlotCount
    <3>1. held[p] \notin Range(pending)
      BY <1>0, <2>1, HolderAlone
    <3> QED
      BY <2>1, <3>1, RoomForMissingSlot DEF TryPush, Inv, TypeOK, SlotsConserved, SlotsExclusive
  <2>3. /\ pending' = Append(pending, held[p]) /\ accepted' = Append(accepted, buffer[held[p]])
        /\ pc' = [pc EXCEPT ![p] = "notify"] /\ held' = [held EXCEPT ![p] = NoSlot]
        /\ UNCHANGED <<buffer, sizes, txSize, sent>>
    BY <1>8, <2>2 DEF PushPending, Goto, txVars
  <2>4. /\ \A q \in Producer : pc'[q] = "push" => q # p /\ pc[q] = "push" /\ held'[q] = held[q]
        /\ pc'[Tx] = pc[Tx] /\ held'[Tx] = held[Tx]
    BY <1>0, <2>3 DEF Inv, TypeOK, Thread
  <2> QED
    BY <2>1, <2>3, <2>4 DEF Committed, SizesRecorded, Working
<1>9. CASE NotifyOne(p)
  <2>1. pc[p] = "notify" /\ pc' = Wake([pc EXCEPT ![p] = "idle"])
        /\ UNCHANGED <<poolVars, held, txSize, history>>
    BY <1>9 DEF NotifyOne, txVars
  <2>2. \A u \in Thread : pc'[u] = IF u = Tx /\ pc[Tx] = "blocked" THEN "pred"
                                    ELSE IF u = p THEN "idle" ELSE pc[u]
    BY <1>0, <2>1 DEF Wake, Inv, TypeOK, Thread
  <2> QED
    BY <1>0, <2>1, <2>2, MoveQuiet DEF Working, TxUnresolved, Thread
<1>10. CASE ReleaseSlot(p)
  BY <1>0, <1>10, ReleasePackets
<1> QED
  BY <1>1, <1>3, <1>6, <1>7, <1>8, <1>9, <1>10 DEF ProducerStep

LEMMA DiscarderPackets ==
  ASSUME Inv, SizesRecorded, NEW d \in Discarder, BeginDiscard(d) \/ DiscarderStep(d)
  PROVE  (Quiet \/ Discarded) /\ SizesRecorded'
<1>1. CASE BeginDiscard(d)
  BY <1>1, CallerMoveQuiet DEF BeginDiscard
<1>2. CASE Goto(d, "discard", "idle")
           /\ UNCHANGED <<poolVars, held, txVars, stopVars, rateUsable, history>>
  BY <1>2, CallerMoveQuiet
<1>3. CASE /\ pending # <<>>
           /\ Goto(d, "discard", "reset")
           /\ held' = [held EXCEPT ![d] = Head(pending)]
           /\ pending' = Tail(pending)
           /\ UNCHANGED <<free, buffer, sizes, txVars, stopVars, rateUsable, history>>
  <2>1. /\ \A p \in Producer : pc'[p] = pc[p] /\ held'[p] = held[p]
        /\ pc'[Tx] = pc[Tx] /\ held'[Tx] = held[Tx]
    BY <1>3 DEF Goto, Inv, TypeOK, Thread
  <2> QED
    BY <1>3, <2>1 DEF Discarded, Working, SizesRecorded, txVars, history
<1>4. CASE ReleaseSlot(d)
  BY <1>4, ReleasePackets DEF Thread
<1> QED
  BY <1>1, <1>2, <1>3, <1>4 DEF DiscarderStep, DiscardPop

LEMMA TxPackets ==
  ASSUME Inv, SizesRecorded, TxStep \/ SpuriousWake
  PROVE  (Quiet \/ Taken \/ Sent \/ GivenUp) /\ SizesRecorded'
<1> USE DEF TxUnresolved
<1>1. CASE TxTop \/ WaitPop \/ CvWait \/ CvPredicate \/ CvBlock \/ SpuriousWake
  BY <1>1, TxMoveQuiet DEF TxTop, WaitPop, CvWait, CvPredicate, CvBlock, SpuriousWake
<1>2. CASE RateLimit
  BY <1>2, TxMoveQuiet, TxMoveGivesUp DEF RateLimit
<1>3. ASSUME NEW from \in TxUnresolved, Goto(Tx, from, "attempt"),
             UNCHANGED <<poolVars, held, txSize, stopVars, rateUsable, history>>
      PROVE  Quiet /\ SizesRecorded'
  BY <1>3, TxMovesAlone, MoveQuiet DEF Working
<1>4. CASE CheckStopped
  BY <1>3, <1>4, TxMoveGivesUp DEF CheckStopped
<1>5. CASE TryAttempt
  BY <1>5, TxMoveQuiet, TxMoveGivesUp DEF TryAttempt
<1>6. CASE SendTo
  <2>1. CASE /\ Goto(Tx, "send", "reset")
             /\ sent' = Append(sent, [data |-> buffer[held[Tx]], size |-> txSize])
             /\ UNCHANGED <<poolVars, held, txVars, stopVars, rateUsable, accepted>>
    BY <2>1, TxMovesAlone DEF Sent, Working, SizesRecorded, poolVars
  <2>2. CASE TxMove("send", IF attempt + 1 = RetryCount THEN "reset" ELSE "backoff")
    <3>1. CASE TxMove("send", "reset")
      BY <3>1, TxMoveGivesUp
    <3>2. CASE TxMove("send", "backoff")
      BY <3>2, TxMoveQuiet
    <3> QED
      BY <2>2, <3>1, <3>2
  <2>3. CASE TxMove("send", "reset")
    BY <2>3, TxMoveGivesUp
  <2> QED
    BY <1>6, <2>1, <2>2, <2>3 DEF SendTo
<1>7. CASE Backoff
  BY <1>3, <1>7 DEF Backoff
<1>8. CASE PopPending
  <2>1. CASE TxMove("pop", "cv_wait")
    BY <2>1, TxMoveQuiet
  <2>2. CASE /\ pending # <<>>
             /\ Goto(Tx, "pop", "limit")
             /\ held' = [held EXCEPT ![Tx] = Head(pending)]
             /\ pending' = Tail(pending)
             /\ txSize' = sizes[Head(pending)]
             /\ UNCHANGED <<free, buffer, sizes, attempt, stopVars, rateUsable, history>>
    <3>1. /\ \A p \in Producer : pc'[p] = pc[p] /\ held'[p] = held[p]
          /\ pc[Tx] = "pop" /\ pc'[Tx] = "limit" /\ held'[Tx] = Head(pending)
      BY <2>2, TxMovesAlone DEF Inv, TypeOK, Thread
    <3> QED
      BY <2>2, <3>1 DEF Taken, Working, SizesRecorded, history
  <2> QED
    BY <1>8, <2>1, <2>2 DEF PopPending
<1>9. CASE ReleaseSlot(Tx)
  BY <1>9, ReleasePackets DEF Thread
<1> QED
  BY <1>1, <1>2, <1>4, <1>5, <1>6, <1>7, <1>8, <1>9 DEF TxStep

LEMMA OtherPackets ==
  ASSUME Inv, SizesRecorded, RxStep \/ Start \/ Stop \/ StopStep \/ UNCHANGED vars
  PROVE  Quiet /\ SizesRecorded'
<1>1. UNCHANGED <<poolVars, held, txSize, history>>
  BY DEF RxStep, RxTop, RxReceive, RxCallback, RxRound, RxMove, Start, Stop, StopStep,
     RequestStopRx, RequestStopTx, CancelWait, JoinTx, JoinRx, CloseSocket, OwnerMove, vars, txVars
<1>2. \A u \in Thread : \/ pc'[u] = pc[u]
                        \/ u = Tx /\ pc[u] \in {"blocked", "unstarted"} /\ pc'[u] \in {"pred", "top"}
  <2>1. CASE Start
    BY <2>1 DEF Start, Goto, Inv, TypeOK
  <2>2. CASE RequestStopTx \/ CancelWait
    BY <2>2 DEF RequestStopTx, CancelWait, Wake, Inv, TypeOK
  <2>3. CASE UNCHANGED pc
    BY <2>3
  <2>4. Start \/ RequestStopTx \/ CancelWait \/ UNCHANGED pc
    BY DEF RxStep, RxTop, RxReceive, RxCallback, RxRound, RxMove, Stop, StopStep,
       RequestStopRx, JoinTx, JoinRx, CloseSocket, vars
  <2> QED
    BY <2>1, <2>2, <2>3, <2>4
<1>3. /\ Working' <=> Working
      /\ \A p \in Producer : pc'[p] = "push" => pc[p] = "push"
  BY <1>2 DEF Working, TxUnresolved, Thread
<1> QED
  BY <1>1, <1>3, MoveQuiet

\* Every step is one of these; only the quiet ones move the owner.
LEMMA PacketSteps ==
  ASSUME Inv, SizesRecorded, [Next]_vars
  PROVE  /\ SizesRecorded'
         /\ \/ Quiet
            \/ /\ UNCHANGED ownerPc
               /\ (\E p \in Producer : Committed(p)) \/ Taken \/ Sent \/ GivenUp \/ Discarded
<1>1. ASSUME NEW p \in Producer, PrepareSend(p) \/ ProducerStep(p) PROVE UNCHANGED ownerPc
  BY <1>1 DEF PrepareSend, ProducerStep, AcquireSlot, Write, CommitSend, SetSize, PushPending,
     NotifyOne, ReleaseSlot, ResetSize, GiveBack, stopVars
<1>2. ASSUME NEW d \in Discarder, BeginDiscard(d) \/ DiscarderStep(d) PROVE UNCHANGED ownerPc
  BY <1>2 DEF BeginDiscard, DiscarderStep, DiscardPop, ReleaseSlot, ResetSize, GiveBack, stopVars
<1>3. TxStep \/ SpuriousWake => UNCHANGED ownerPc
  BY DEF TxStep, SpuriousWake, TxTop, WaitPop, PopPending, CvWait, CvPredicate, CvBlock,
     RateLimit, CheckStopped, TryAttempt, SendTo, Backoff, ReleaseSlot, ResetSize, GiveBack,
     TxMove, stopVars
<1> QED
  BY <1>1, <1>2, <1>3, ProducerPackets, DiscarderPackets, TxPackets, OtherPackets DEF Next

LEMMA SizesInit == Init => SizesRecorded
  BY DEF Init, SizesRecorded, Thread

--------------------------------------------------------------------------------
(* Packets stay intact.                                                      *)

LEMMA IntactInit == Init => PacketsIntact
<1> SUFFICES ASSUME Init PROVE PacketsIntact
  OBVIOUS
<1>1. Range(pending) = {} /\ Range(sent) = {} /\ pc[Tx] = "unstarted"
  BY DEF Init, Range, Thread
<1> QED
  BY <1>1 DEF PacketsIntact, TxUnresolved

LEMMA AppendRange ==
  ASSUME NEW S, NEW seq \in Seq(S), NEW x \in S
  PROVE  Range(Append(seq, x)) = Range(seq) \cup {x}
<1>1. /\ Append(seq, x) \in Seq(S) /\ Len(Append(seq, x)) = Len(seq) + 1
      /\ \A i \in 1 .. Len(seq) : Append(seq, x)[i] = seq[i]
      /\ Append(seq, x)[Len(seq) + 1] = x
  BY AppendProperties
<1>2. DOMAIN Append(seq, x) = 1 .. Len(seq) + 1 /\ DOMAIN seq = 1 .. Len(seq) /\ Len(seq) \in Nat
  BY <1>1, LenProperties
<1> QED
  BY <1>1, <1>2 DEF Range

LEMMA IntactNext ==
  Inv /\ SizesRecorded /\ PacketsIntact /\ [Next]_vars => PacketsIntact'
<1> SUFFICES ASSUME Inv, SizesRecorded, PacketsIntact, [Next]_vars PROVE PacketsIntact'
  OBVIOUS
<1> DEFINE Datagram == [data : Packet \cup {NoPacket}, size : Packet \cup {NoPacket}]
<1>1. CASE Quiet
  BY <1>1 DEF Quiet, Working, PacketsIntact
<1>2. ASSUME NEW p \in Producer, Committed(p) PROVE PacketsIntact'
  <2>1. /\ Range(pending') = Range(pending) \cup {held[p]}
        /\ Range(accepted') = Range(accepted) \cup {buffer[held[p]]}
    BY <1>2, AppendRange DEF Committed, Inv, TypeOK
  <2> QED
    BY <1>2, <2>1 DEF Committed, Working, PacketsIntact
<1>3. ASSUME pending # <<>>, pending' = Tail(pending)
      PROVE  Range(pending') \subseteq Range(pending) /\ Head(pending) \in Range(pending)
  BY <1>3, RingPop DEF Inv, TypeOK, SlotsConserved, SlotsExclusive
<1>4. CASE Taken
  BY <1>3, <1>4 DEF Taken, Working, PacketsIntact
<1>5. CASE Sent
  <2>1. /\ Working /\ held[Tx] \in Slot
    BY <1>5, WorkerHolds DEF Sent, Working, TxUnresolved
  <2> DEFINE datagram == [data |-> buffer[held[Tx]], size |-> txSize]
  <2>2. datagram \in Datagram
    BY <2>1 DEF Inv, TypeOK
  <2>3. datagram.data \in Range(accepted) /\ datagram.size = datagram.data
    BY <2>1 DEF PacketsIntact, Working
  <2>4. sent \in Seq(Datagram) /\ sent' = Append(sent, datagram)
    BY <1>5 DEF Sent, Inv, TypeOK
  <2> HIDE DEF datagram, Datagram
  <2>5. Range(sent') = Range(sent) \cup {datagram}
    BY <2>2, <2>4, AppendRange
  <2> QED
    BY <1>5, <2>3, <2>5 DEF Sent, Working, PacketsIntact
<1>6. CASE GivenUp
  BY <1>6 DEF GivenUp, Working, PacketsIntact
<1>7. CASE Discarded
  BY <1>3, <1>7 DEF Discarded, Working, PacketsIntact
<1> QED
  BY <1>1, <1>2, <1>4, <1>5, <1>6, <1>7, PacketSteps

LEMMA SizesNext == Inv /\ SizesRecorded /\ [Next]_vars => SizesRecorded'
  BY PacketSteps

LEMMA SizesAlways == Spec => []SizesRecorded
  BY SizesInit, SizesNext, InvAlways, PTL DEF Spec

\* No packet is overwritten, and none gets the size of another, between its commit
\* and its send, for every number of slots, threads and packets (packet_pool and
\* udp_send_queue of channel.cc).
THEOREM PacketsIntactAlways == Spec => []PacketsIntact
  BY IntactInit, IntactNext, InvAlways, SizesAlways, PTL DEF Spec

--------------------------------------------------------------------------------
(* The channel implements PacketTransport.                                   *)

AnyPacket == Packet \cup {NoPacket}
Current == IF pc[Tx] \in TxUnresolved THEN <<buffer[held[Tx]]>> ELSE <<>>
Queued == [i \in 1 .. Len(pending) |-> buffer[pending[i]]]
Delivered == [i \in 1 .. Len(sent) |-> sent[i].data]

LEMMA QueuedShape ==
  Inv => /\ Queued \in Seq(AnyPacket) /\ Len(Queued) = Len(pending) /\ Len(pending) \in Nat
         /\ \A i \in 1 .. Len(pending) : /\ Queued[i] = buffer[pending[i]]
                                        /\ pending[i] \in Range(pending) /\ pending[i] \in Slot
<1> SUFFICES ASSUME Inv PROVE QueuedShape!2
  OBVIOUS
<1>1. Len(pending) \in Nat /\ pending \in [1 .. Len(pending) -> Slot]
  BY LenProperties DEF Inv, TypeOK
<1>2. Queued \in [1 .. Len(pending) -> AnyPacket]
  BY <1>1 DEF Queued, AnyPacket, Inv, TypeOK
<1> QED
  BY <1>1, <1>2 DEF Queued, Range

LEMMA CurrentShape ==
  Inv => /\ Current \in Seq(AnyPacket)
         /\ Working => buffer[held[Tx]] \in AnyPacket /\ Current = <<buffer[held[Tx]]>>
         /\ ~Working => Current = <<>>
<1> SUFFICES ASSUME Inv PROVE CurrentShape!2
  OBVIOUS
<1>1. Working => buffer[held[Tx]] \in AnyPacket
  BY WorkerHolds DEF Inv, TypeOK, AnyPacket
<1> QED
  BY <1>1 DEF Current, Working

LEMMA UnresolvedIsBoth == Unresolved = Current \o Queued
  BY DEF Unresolved, Current, Queued

\* A state formula that follows from Inv follows from it in the next state.
LEMMA ShapesPrime ==
  Inv' => /\ Queued' \in Seq(AnyPacket) /\ Len(Queued') = Len(pending')
          /\ \A i \in 1 .. Len(pending') : Queued'[i] = buffer'[pending'[i]]
          /\ Working' => Current' = <<buffer'[held'[Tx]]>>
          /\ ~Working' => Current' = <<>>
<1> DEFINE Shapes == /\ Queued \in Seq(AnyPacket) /\ Len(Queued) = Len(pending)
                     /\ \A i \in 1 .. Len(pending) : Queued[i] = buffer[pending[i]]
                     /\ Working => Current = <<buffer[held[Tx]]>>
                     /\ ~Working => Current = <<>>
<1>1. Inv => Shapes
  BY QueuedShape, CurrentShape
<1>2. Inv' => Shapes'
  <2> HIDE DEF Shapes
  <2> QED BY <1>1, PTL
<1> QED
  BY <1>2 DEF AnyPacket

\* Three facts about sequences.
LEMMA HeadAndTail ==
  ASSUME NEW S, NEW s \in Seq(S), NEW x \in S
  PROVE  /\ <<x>> \o s \in Seq(S) /\ <<x>> \o s # <<>>
         /\ Head(<<x>> \o s) = x /\ Tail(<<x>> \o s) = s
<1> DEFINE q == <<x>> \o s
<1>1. /\ <<x>> \in Seq(S) /\ Len(<<x>>) = 1 /\ <<x>>[1] = x
  OBVIOUS
<1>2. /\ q \in Seq(S) /\ Len(q) = 1 + Len(s) /\ Len(s) \in Nat
      /\ q[1] = x /\ \A i \in 1 .. Len(s) : q[i + 1] = s[i]
  BY <1>1, ConcatProperties, LenProperties
<1> HIDE DEF q
<1>3. q # <<>> /\ Head(q) = q[1]
  BY <1>2
<1>4. Tail(q) = s
  <2>1. /\ Tail(q) \in Seq(S) /\ Len(Tail(q)) = Len(s)
        /\ \A i \in 1 .. Len(s) : Tail(q)[i] = s[i]
    BY <1>2, <1>3, HeadTailProperties
  <2> QED
    BY <2>1, SeqEqual
<1> QED
  BY <1>2, <1>3, <1>4 DEF q

LEMMA HeadBeforeTail ==
  ASSUME NEW S, NEW s \in Seq(S), s # <<>>
  PROVE  Head(s) \in S /\ <<Head(s)>> \o Tail(s) = s
<1>1. /\ Head(s) \in S /\ Head(s) = s[1] /\ Len(s) \in Nat \ {0}
      /\ Tail(s) \in Seq(S) /\ Len(Tail(s)) = Len(s) - 1
      /\ \A i \in 1 .. Len(s) - 1 : Tail(s)[i] = s[i + 1]
  BY HeadTailProperties, EmptySeq
<1> DEFINE q == <<Head(s)>> \o Tail(s)
<1>2. <<Head(s)>> \in Seq(S) /\ Len(<<Head(s)>>) = 1 /\ <<Head(s)>>[1] = Head(s)
  BY <1>1
<1>3. /\ q \in Seq(S) /\ Len(q) = Len(s)
      /\ \A i \in 1 .. Len(s) : q[i] = IF i <= 1 THEN Head(s) ELSE Tail(s)[i - 1]
  BY <1>1, <1>2, ConcatProperties
<1> HIDE DEF q
<1>4. \A i \in 1 .. Len(s) : q[i] = s[i]
  BY <1>1, <1>3
<1>5. q = s
  BY <1>3, <1>4, SeqEqual
<1> QED
  BY <1>1, <1>5 DEF q

LEMMA DropFirstOfSecond ==
  ASSUME NEW S, NEW s \in Seq(S), NEW t \in Seq(S), t # <<>>
  PROVE  LET q == s \o t
             i == Len(s) + 1
         IN  /\ i \in 1 .. Len(q)
             /\ SubSeq(q, 1, i - 1) \o SubSeq(q, i + 1, Len(q)) = s \o Tail(t)
<1> DEFINE q == s \o t
           n == Len(s)
<1>1. /\ n \in Nat /\ Len(t) \in Nat \ {0}
      /\ q \in Seq(S) /\ Len(q) = n + Len(t)
      /\ \A i \in 1 .. n + Len(t) : q[i] = IF i <= n THEN s[i] ELSE t[i - n]
  BY ConcatProperties, LenProperties, EmptySeq
<1>2. /\ Tail(t) \in Seq(S) /\ Len(Tail(t)) = Len(t) - 1
      /\ \A i \in 1 .. Len(t) - 1 : Tail(t)[i] = t[i + 1]
  BY HeadTailProperties
<1> HIDE DEF q
<1>3. \A i \in 1 .. Len(q) : q[i] \in S
  BY <1>1, ElementOfSeq
<1>0. n = Len(s)
  OBVIOUS
<1> HIDE DEF n
<1>4. SubSeq(q, 1, n) = s
  <2>1. /\ SubSeq(q, 1, n) \in Seq(S) /\ Len(SubSeq(q, 1, n)) = n
        /\ \A i \in 1 .. n : SubSeq(q, 1, n)[i] = q[i]
    BY <1>1, <1>3, SubSeqProperties
  <2>2. \A i \in 1 .. n : SubSeq(q, 1, n)[i] = s[i]
    BY <1>1, <2>1
  <2> QED
    BY <1>0, <2>1, <2>2, SeqEqual
<1>5. SubSeq(q, n + 2, Len(q)) = Tail(t)
  <2>0. /\ n + 2 \in Int /\ Len(q) \in Int /\ Len(q) - (n + 2) + 1 = Len(t) - 1
        /\ \A i \in 1 .. Len(t) - 1 : n + 2 + i - 1 = n + 1 + i
        /\ ~(n + 2 <= Len(q)) => Len(t) - 1 = 0
    <3>1. n \in Nat /\ Len(t) \in Nat \ {0} /\ Len(q) = n + Len(t)
      BY <1>1
    <3>2. ASSUME NEW a \in Nat, NEW b \in Nat \ {0}, NEW c, c = a + b
          PROVE  /\ a + 2 \in Int /\ c \in Int /\ c - (a + 2) + 1 = b - 1
                 /\ \A i \in 1 .. b - 1 : a + 2 + i - 1 = a + 1 + i
                 /\ ~(a + 2 <= c) => b - 1 = 0
      <4>1. c \in Int
        BY <3>2
      <4> QED
        BY <3>2, <4>1
    <3> QED
      BY <3>1, <3>2
  <2>b. \A i \in n + 2 .. Len(q) : q[i] \in S
    BY <1>1, <1>3
  <2> DEFINE m == n + 2
             l == Len(q)
             r == SubSeq(q, m, l)
  <2>a. /\ r \in Seq(S)
        /\ Len(r) = IF m <= l THEN l - m + 1 ELSE 0
        /\ \A i \in 1 .. l - m + 1 : r[i] = q[m + i - 1]
    <3>1. m \in Int /\ l \in Int /\ \A i \in m .. l : q[i] \in S
      BY <2>0, <2>b
    <3> HIDE DEF m, l
    <3> QED
      BY <3>1, SubSeqProperties
  <2> HIDE DEF r
  <2>1. /\ SubSeq(q, n + 2, Len(q)) \in Seq(S) /\ Len(SubSeq(q, n + 2, Len(q))) = Len(t) - 1
        /\ \A i \in 1 .. Len(t) - 1 : SubSeq(q, n + 2, Len(q))[i] = q[n + 1 + i]
    BY <2>0, <2>a DEF r
  <2>2. \A i \in 1 .. Len(t) - 1 : SubSeq(q, n + 2, Len(q))[i] = Tail(t)[i]
    BY <1>1, <1>2, <2>1
  <2> QED
    BY <1>2, <2>1, <2>2, SeqEqual
<1>6. n + 1 \in 1 .. Len(q) /\ (n + 1) - 1 = n /\ (n + 1) + 1 = n + 2
  BY <1>1
<1> QED
  BY <1>0, <1>4, <1>5, <1>6 DEF q

LEMMA QuietKeeps ==
  ASSUME Inv, Inv', Quiet
  PROVE  Unresolved' = Unresolved /\ Delivered' = Delivered
<1>1. Queued' = Queued
  <2>1. \A i \in 1 .. Len(pending) : buffer'[pending[i]] = buffer[pending[i]]
    BY QueuedShape DEF Quiet
  <2> QED
    BY <2>1 DEF Queued, Quiet
<1>2. Current' = Current
  BY DEF Current, Quiet, Working
<1> QED
  BY <1>1, <1>2, UnresolvedIsBoth DEF Quiet, Unresolved, Current, Queued, Delivered

LEMMA CommitAccepts ==
  ASSUME Inv, Inv', NEW p \in Producer, Committed(p)
  PROVE  Unresolved' = Append(Unresolved, buffer[held[p]]) /\ Delivered' = Delivered
<1> DEFINE x == buffer[held[p]]
<1>1. /\ Queued \in Seq(AnyPacket) /\ Len(Queued) = Len(pending) /\ Len(pending) \in Nat
      /\ \A i \in 1 .. Len(pending) : Queued[i] = buffer[pending[i]]
      /\ Current \in Seq(AnyPacket) /\ x \in AnyPacket
  BY QueuedShape, CurrentShape DEF Committed, AnyPacket
<1>2. /\ Queued' \in Seq(AnyPacket) /\ Len(Queued') = Len(pending')
      /\ \A i \in 1 .. Len(pending') : Queued'[i] = buffer'[pending'[i]]
  BY ShapesPrime
<1>3. /\ Len(pending') = Len(pending) + 1
      /\ \A i \in 1 .. Len(pending) : pending'[i] = pending[i]
      /\ pending'[Len(pending) + 1] = held[p]
  BY AppendProperties DEF Committed, Inv, TypeOK
<1>4. buffer' = buffer /\ Current' = Current
  BY DEF Committed, Current, Working
<1> HIDE DEF x
<1>5. Queued' = Append(Queued, x)
  <2>1. /\ Append(Queued, x) \in Seq(AnyPacket) /\ Len(Append(Queued, x)) = Len(Queued) + 1
        /\ \A i \in 1 .. Len(Queued) : Append(Queued, x)[i] = Queued[i]
        /\ Append(Queued, x)[Len(Queued) + 1] = x
    BY <1>1, AppendProperties
  <2>2. \A i \in 1 .. Len(Queued') : Queued'[i] = Append(Queued, x)[i]
    BY <1>1, <1>2, <1>3, <1>4, <2>1 DEF x
  <2> QED
    BY <1>1, <1>2, <1>3, <2>1, <2>2, SeqEqual
<1>6. Current \o Append(Queued, x) = Append(Current \o Queued, x)
  <2>1. <<x>> \in Seq(AnyPacket) /\ Current \o Queued \in Seq(AnyPacket)
    BY <1>1, ConcatProperties
  <2>2. Append(Queued, x) = Queued \o <<x>> /\ Append(Current \o Queued, x) = (Current \o Queued) \o <<x>>
    BY <1>1, <2>1, AppendIsConcat
  <2> QED
    BY <1>1, <2>1, <2>2, ConcatAssociative
<1>7. Unresolved' = Current' \o Queued'
  BY DEF Unresolved, Current, Queued
<1> QED
  BY <1>4, <1>5, <1>6, <1>7, UnresolvedIsBoth DEF Committed, Delivered, x

\* A pop leaves the tail of the queued packets.
LEMMA PopTail ==
  ASSUME Inv, Inv', pending # <<>>, pending' = Tail(pending), buffer' = buffer
  PROVE  /\ Queued # <<>> /\ Head(Queued) = buffer[Head(pending)]
         /\ Queued' = Tail(Queued)
<1>1. /\ Queued \in Seq(AnyPacket) /\ Len(Queued) = Len(pending) /\ Len(pending) \in Nat
      /\ \A i \in 1 .. Len(pending) : Queued[i] = buffer[pending[i]]
  BY QueuedShape
<1>2. /\ Queued' \in Seq(AnyPacket) /\ Len(Queued') = Len(pending')
      /\ \A i \in 1 .. Len(pending') : Queued'[i] = buffer'[pending'[i]]
  BY ShapesPrime
<1>3. /\ Len(pending) # 0 /\ Len(pending') = Len(pending) - 1 /\ Head(pending) = pending[1]
      /\ \A i \in 1 .. Len(pending) - 1 : pending'[i] = pending[i + 1]
  BY HeadTailProperties, EmptySeq DEF Inv, TypeOK
<1>4. Queued # <<>> /\ Head(Queued) = Queued[1]
  BY <1>1, <1>3
<1>5. /\ Tail(Queued) \in Seq(AnyPacket) /\ Len(Tail(Queued)) = Len(Queued) - 1
      /\ \A i \in 1 .. Len(Tail(Queued)) : Tail(Queued)[i] = Queued[i + 1]
  BY <1>1, <1>4, HeadTailProperties
<1>6. \A i \in 1 .. Len(Queued') : Queued'[i] = Tail(Queued)[i]
  BY <1>1, <1>2, <1>3, <1>5
<1>7. Queued' = Tail(Queued)
  BY <1>1, <1>2, <1>3, <1>5, <1>6, SeqEqual
<1> QED
  BY <1>1, <1>3, <1>4, <1>7

LEMMA TakeKeeps ==
  ASSUME Inv, Inv', Taken
  PROVE  Unresolved' = Unresolved /\ Delivered' = Delivered
<1>1. /\ Queued # <<>> /\ Head(Queued) = buffer[Head(pending)] /\ Queued' = Tail(Queued)
  BY PopTail DEF Taken
<1>2. Current = <<>> /\ Current' = <<Head(Queued)>>
  BY <1>1 DEF Taken, Current, Working
<1>3. Queued \in Seq(AnyPacket)
  BY QueuedShape
<1>4. <<Head(Queued)>> \o Tail(Queued) = Queued /\ <<>> \o Queued = Queued
  BY <1>1, <1>3, HeadBeforeTail, ConcatEmptySeq
<1>5. Unresolved' = Current' \o Queued'
  BY DEF Unresolved, Current, Queued
<1> QED
  BY <1>1, <1>2, <1>4, <1>5, UnresolvedIsBoth DEF Taken, Delivered

\* The packet the tx thread works on is the head; without it, the tail is left.
LEMMA WorkerLeaves ==
  ASSUME Inv, Inv', Working, ~Working', UNCHANGED <<pending, buffer>>
  PROVE  /\ Unresolved \in Seq(AnyPacket) /\ Unresolved # <<>>
         /\ Head(Unresolved) = buffer[held[Tx]]
         /\ Unresolved' = Tail(Unresolved)
<1>1. /\ Queued \in Seq(AnyPacket) /\ Current = <<buffer[held[Tx]]>>
      /\ buffer[held[Tx]] \in AnyPacket
  BY QueuedShape, CurrentShape
<1>2. Queued' = Queued /\ Current' = <<>>
  BY DEF Queued, Current, Working
<1>3. Unresolved' = Queued
  <2>1. Unresolved' = Current' \o Queued'
    BY DEF Unresolved, Current, Queued
  <2> QED
    BY <1>1, <1>2, <2>1, ConcatEmptySeq
<1>4. Unresolved = <<buffer[held[Tx]]>> \o Queued
  BY <1>1, UnresolvedIsBoth
<1> QED
  BY <1>1, <1>3, <1>4, HeadAndTail

LEMMA SendDelivers ==
  ASSUME Inv, Inv', Sent
  PROVE  /\ Unresolved # <<>> /\ Unresolved' = Tail(Unresolved)
         /\ Delivered' = Append(Delivered, Head(Unresolved))
<1>1. Working /\ UNCHANGED <<pending, buffer>> /\ ~Working'
  BY DEF Sent, Working, TxUnresolved
<1>2. /\ Unresolved # <<>> /\ Unresolved' = Tail(Unresolved)
      /\ Head(Unresolved) = buffer[held[Tx]] /\ buffer[held[Tx]] \in AnyPacket
  BY <1>1, WorkerLeaves, CurrentShape
<1> DEFINE Datagram == [data : Packet \cup {NoPacket}, size : Packet \cup {NoPacket}]
           datagram == [data |-> buffer[held[Tx]], size |-> txSize]
<1>3. sent \in Seq(Datagram) /\ sent' = Append(sent, datagram) /\ datagram \in Datagram
  BY <1>2 DEF Sent, AnyPacket, Inv, TypeOK
<1>4. datagram.data = buffer[held[Tx]] /\ \A d \in Datagram : d.data \in AnyPacket
  BY DEF AnyPacket
<1> HIDE DEF Datagram, datagram
<1>5. /\ Len(sent') = Len(sent) + 1 /\ Len(sent) \in Nat
      /\ \A i \in 1 .. Len(sent) : sent'[i] = sent[i] /\ sent[i] \in Datagram
      /\ sent'[Len(sent) + 1] = datagram
  BY <1>3, AppendProperties, LenProperties, ElementOfSeq
<1>6. Delivered \in [1 .. Len(sent) -> AnyPacket]
  BY <1>4, <1>5 DEF Delivered
<1>7. Delivered \in Seq(AnyPacket) /\ Len(Delivered) = Len(sent)
  BY <1>5, <1>6
<1>8. /\ Append(Delivered, datagram.data) \in Seq(AnyPacket)
      /\ Len(Append(Delivered, datagram.data)) = Len(sent) + 1
      /\ \A i \in 1 .. Len(sent) : Append(Delivered, datagram.data)[i] = sent[i].data
      /\ Append(Delivered, datagram.data)[Len(sent) + 1] = datagram.data
  BY <1>2, <1>4, <1>7, AppendProperties DEF Delivered
<1>9. Delivered' \in [1 .. Len(sent) + 1 -> AnyPacket]
  BY <1>2, <1>4, <1>5 DEF Delivered
<1>10. Delivered' \in Seq(AnyPacket) /\ Len(Delivered') = Len(sent) + 1
  BY <1>5, <1>9
<1>11. \A i \in 1 .. Len(sent) + 1 : Delivered'[i] = Append(Delivered, datagram.data)[i]
  BY <1>5, <1>8 DEF Delivered
<1>12. Delivered' = Append(Delivered, datagram.data)
  BY <1>8, <1>10, <1>11, SeqEqual
<1> QED
  BY <1>2, <1>4, <1>12

\* Packet number i is dropped.
LEMMA DropAt ==
  ASSUME NEW i \in 1 .. Len(Unresolved), Delivered' = Delivered, UNCHANGED ownerPc,
         Unresolved' = SubSeq(Unresolved, 1, i - 1) \o SubSeq(Unresolved, i + 1, Len(Unresolved))
  PROVE  Transport!Next
  BY DEF Transport!Next, Transport!Drop, Delivered

LEMMA GiveUpDrops ==
  ASSUME Inv, Inv', GivenUp, UNCHANGED ownerPc
  PROVE  Transport!Next
<1>1. /\ Unresolved \in Seq(AnyPacket) /\ Unresolved # <<>> /\ Unresolved' = Tail(Unresolved)
  BY WorkerLeaves DEF GivenUp
<1>2. <<>> \in Seq(AnyPacket) /\ Len(<<>>) = 0 /\ <<>> \o Unresolved = Unresolved
  BY <1>1, ConcatEmptySeq
<1>3. LET q == <<>> \o Unresolved
          i == Len(<<>>) + 1
      IN  /\ i \in 1 .. Len(q)
          /\ SubSeq(q, 1, i - 1) \o SubSeq(q, i + 1, Len(q)) = <<>> \o Tail(Unresolved)
  BY <1>1, <1>2, DropFirstOfSecond
<1>4. <<>> \o Tail(Unresolved) = Tail(Unresolved)
  BY <1>1, HeadTailProperties, ConcatEmptySeq
<1>5. /\ 1 \in 1 .. Len(Unresolved)
      /\ SubSeq(Unresolved, 1, 1 - 1) \o SubSeq(Unresolved, 1 + 1, Len(Unresolved)) = Unresolved'
  BY <1>1, <1>2, <1>3, <1>4
<1> QED
  BY <1>5, DropAt DEF GivenUp, Delivered

LEMMA DiscardDrops ==
  ASSUME Inv, Inv', Discarded, UNCHANGED ownerPc
  PROVE  Transport!Next
<1>1. Queued # <<>> /\ Queued' = Tail(Queued) /\ Queued \in Seq(AnyPacket)
  BY PopTail, QueuedShape DEF Discarded
<1>2. Current' = Current /\ Current \in Seq(AnyPacket)
  BY CurrentShape DEF Discarded, Current, Working
<1> DEFINE q == Current \o Queued
           i == Len(Current) + 1
<1>3. /\ i \in 1 .. Len(q)
      /\ SubSeq(q, 1, i - 1) \o SubSeq(q, i + 1, Len(q)) = Current \o Tail(Queued)
  BY <1>1, <1>2, DropFirstOfSecond
<1>4. Unresolved = q /\ Unresolved' = Current \o Tail(Queued)
  <2>1. Unresolved' = Current' \o Queued'
    BY DEF Unresolved, Current, Queued
  <2> QED
    BY <1>1, <1>2, <2>1, UnresolvedIsBoth
<1>5. Delivered' = Delivered
  BY DEF Discarded, Delivered
<1> HIDE DEF q, i
<1> QED
  BY <1>3, <1>4, <1>5, DropAt

\* After stop() has returned nothing leaves that state.
LEMMA StoppedStays ==
  ASSUME [Next]_vars
  PROVE  ownerPc = "stopped" => ownerPc' = "stopped"
  BY OwnerOnly DEF Start, Stop, StopStep, RequestStopRx, RequestStopTx, CancelWait, JoinTx, JoinRx,
     CloseSocket, OwnerMove

LEMMA TransportInit == Init => Transport!Init
<1> SUFFICES ASSUME Init PROVE Transport!Init
  OBVIOUS
<1>1. pc[Tx] = "unstarted" /\ pending = <<>> /\ sent = <<>> /\ ownerPc = "new"
  BY DEF Init, Thread
<1>2. Unresolved = <<>>
  BY <1>1 DEF Unresolved, TxUnresolved
<1>3. [k \in 1 .. Len(sent) |-> sent[k].data] = <<>>
  BY <1>1
<1> QED
  BY <1>1, <1>2, <1>3 DEF Transport!Init

LEMMA TransportNext ==
  Inv /\ Inv' /\ JoinedInTurn /\ SizesRecorded /\ [Next]_vars
    => [Transport!Next]_(Transport!vars)
<1> SUFFICES ASSUME Inv, Inv', JoinedInTurn, SizesRecorded, [Next]_vars
             PROVE  [Transport!Next]_(Transport!vars)
  OBVIOUS
<1>1. CASE Quiet
  <2>1. Unresolved' = Unresolved /\ Delivered' = Delivered
    BY <1>1, QuietKeeps
  <2>2. CASE ownerPc # "stopped" /\ ownerPc' = "stopped"
    BY <2>1, <2>2 DEF Transport!Next, Transport!Close, Delivered
  <2>3. CASE (ownerPc' = "stopped") = (ownerPc = "stopped")
    BY <2>1, <2>3 DEF Transport!vars, Delivered
  <2> QED
    BY <2>2, <2>3, StoppedStays
<1>2. ASSUME NEW p \in Producer, Committed(p), UNCHANGED ownerPc PROVE Transport!Next
  <2>1. buffer[held[p]] \in Packet
    BY <1>2 DEF Committed
  <2> QED
    BY <1>2, <2>1, CommitAccepts DEF Transport!Next, Transport!Accept, Delivered
<1>3. CASE Taken /\ UNCHANGED ownerPc
  BY <1>3, TakeKeeps DEF Transport!vars, Delivered
<1>4. CASE Sent /\ UNCHANGED ownerPc
  <2>1. ownerPc # "stopped"
    BY <1>4 DEF Sent, JoinedInTurn, Ended
  <2> QED
    BY <1>4, <2>1, SendDelivers DEF Transport!Next, Transport!Deliver, Delivered
<1> QED
  BY <1>1, <1>2, <1>3, <1>4, GiveUpDrops, DiscardDrops, PacketSteps

\* The channel implements PacketTransport for every number of slots, threads,
\* packets and retries: at most once, in the order of commit, and nothing after
\* stop() has returned.
THEOREM ChannelImplementsTransport == Spec => ImplementsTransport
  BY InvInit, TransportInit, TransportNext, InvAlways, JoinedAlways, SizesAlways, PTL
     DEF Spec, ImplementsTransport, Transport!Spec
================================================================================
