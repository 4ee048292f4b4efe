--------------------------- MODULE UdpChannel_proofs ---------------------------
(***************************************************************************)
(* Proofs about RingQueue for every capacity and element type: its         *)
(* variables keep their types, its indices agree, and it implements        *)
(* BoundedFifo.  And about UdpChannel for every number of slots, senders,  *)
(* sends and arrivals: its ring implements the bounded FIFO queue, packets *)
(* are sent whole and in the order they were accepted, and stop keeps what *)
(* a flush promised.                                                       *)
(***************************************************************************)
EXTENDS UdpChannel, Functions, SequenceTheorems, TLAPS

Inv == TypeOK /\ IndicesAgree

USE CapacityIsNat

\* Init establishes the invariant and every call preserves it.
LEMMA InvInit == Init => Inv
  BY DefaultIsValue DEF Init, Inv, TypeOK, IndicesAgree, Index, Cell

LEMMA InvNext == Inv /\ [Next]_vars => Inv'
<1> SUFFICES ASSUME Inv, [Next]_vars PROVE Inv'
  OBVIOUS
<1> USE DEF Inv, TypeOK, IndicesAgree, Index, Cell
<1>1. ASSUME NEW v \in Value, TryPush(v) PROVE Inv'
  BY <1>1 DEF TryPush, NextIndex
<1>2. ASSUME TryPop PROVE Inv'
  BY <1>2 DEF TryPop, NextIndex
<1>3. ASSUME Size PROVE Inv'
  BY <1>3 DEF Size
<1>4. CASE UNCHANGED vars
  BY <1>4 DEF vars
<1> QED
  BY <1>1, <1>2, <1>3, <1>4 DEF Next

\* Type correctness of the ring, for every capacity: the indices never leave the
\* vector, so no access of storage_ is out of bounds (channel.cc try_push, try_pop).
THEOREM TypeCorrect == Spec => []TypeOK
<1>1. Inv => TypeOK
  BY DEF Inv
<1> QED
  BY InvInit, InvNext, <1>1, PTL DEF Spec

\* The write index is always count cells after the read index, for every capacity.
THEOREM IndicesCorrect == Spec => []IndicesAgree
<1>1. Inv => IndicesAgree
  BY DEF Inv
<1> QED
  BY InvInit, InvNext, <1>1, PTL DEF Spec

--------------------------------------------------------------------------------
\* The contents of the ring are a sequence of values.
LEMMA ContentsType ==
  ASSUME Inv
  PROVE  /\ Contents \in Seq(Value)
         /\ Len(Contents) = count
         /\ \A i \in 1 .. count : Cell(i - 1) \in Index
<1>1. \A i \in 1 .. count : Cell(i - 1) \in Index
  BY DEF Inv, TypeOK, Cell, Index
<1>2. count \in Nat
  BY DEF Inv, TypeOK
<1>3. Contents \in [1 .. count -> Value]
  BY <1>1 DEF Contents, Inv, TypeOK
<1> QED
  BY <1>1, <1>2, <1>3

LEMMA ContentsTypePrime ==
  Inv' => Contents' \in Seq(Value) /\ Len(Contents') = count'
<1> DEFINE Typed == Contents \in Seq(Value) /\ Len(Contents) = count
<1>1. Inv => Typed
  BY ContentsType
<1>2. Inv' => Typed'
  <2> HIDE DEF Typed
  <2> QED BY <1>1, PTL
<1> QED
  BY <1>2

\* A successful push appends its value to the contents.
LEMMA PushAppends ==
  ASSUME Inv, NEW v \in Value, count # Capacity, TryPush(v)
  PROVE  Contents' = Append(Contents, v)
<1>1. Contents \in Seq(Value) /\ Len(Contents) = count
  BY ContentsType
<1>2. /\ head' = head /\ count' = count + 1
      /\ storage' = [storage EXCEPT ![tail] = v]
  BY DEF TryPush, Inv, TypeOK
<1>3. Contents' = [i \in 1 .. count + 1 |-> storage'[Cell(i - 1)]]
  BY <1>2 DEF Contents, Cell
<1>4. tail = Cell(count) /\ tail \in Index
  BY DEF Inv, TypeOK, IndicesAgree, Index
<1>5. \A i \in 1 .. count : Cell(i - 1) # tail /\ Cell(i - 1) \in Index
  BY <1>4 DEF Inv, TypeOK, Cell, Index
<1>6. \A i \in 1 .. count : storage'[Cell(i - 1)] = Contents[i]
  BY <1>2, <1>5 DEF Contents, Inv, TypeOK
<1>7. storage'[Cell(count)] = v
  BY <1>2, <1>4 DEF Inv, TypeOK
<1>8. Contents' \in Seq(Value) /\ Len(Contents') = count + 1
  BY InvNext, <1>2, ContentsTypePrime DEF Next
<1>9. /\ Append(Contents, v) \in Seq(Value)
      /\ Len(Append(Contents, v)) = count + 1
      /\ \A i \in 1 .. count : Append(Contents, v)[i] = Contents[i]
      /\ Append(Contents, v)[count + 1] = v
  BY <1>1, AppendProperties
<1>10. \A i \in 1 .. count + 1 : Contents'[i] = Append(Contents, v)[i]
  BY <1>3, <1>6, <1>7, <1>9 DEF Inv, TypeOK
<1> QED
  BY <1>8, <1>9, <1>10, SeqEqual

\* A successful pop returns the oldest value and removes it.
LEMMA PopRemovesHead ==
  ASSUME Inv, count # 0, TryPop
  PROVE  /\ Contents # <<>>
         /\ storage[head] = Head(Contents)
         /\ Contents' = Tail(Contents)
<1>1. Contents \in Seq(Value) /\ Len(Contents) = count
  BY ContentsType
<1>2. head' = NextIndex(head) /\ count' = count - 1 /\ storage' = storage
  BY DEF TryPop, Inv, TypeOK
<1>3. Cell(0) = head
  BY DEF Cell, Inv, TypeOK, Index
<1>4. Contents[1] = storage[head]
  BY <1>3 DEF Contents, Inv, TypeOK
<1>5. \A i \in 1 .. count - 1 : Cell(i - 1)' = Cell(i)
  BY <1>2 DEF Cell, NextIndex, Inv, TypeOK, Index
<1>6. Contents' = [i \in 1 .. count - 1 |-> storage[Cell(i)]]
  BY <1>2, <1>5 DEF Contents
<1>7. \A i \in 1 .. count - 1 : storage[Cell(i)] = Contents[i + 1]
  BY DEF Contents, Inv, TypeOK
<1>8. Contents # <<>>
  BY <1>1 DEF Inv, TypeOK
<1>9. /\ Tail(Contents) \in Seq(Value)
      /\ Len(Tail(Contents)) = count - 1
      /\ \A i \in 1 .. count - 1 : Tail(Contents)[i] = Contents[i + 1]
  BY <1>1, <1>8, HeadTailProperties
<1>10. Contents' \in Seq(Value) /\ Len(Contents') = count - 1
  BY InvNext, <1>2, ContentsTypePrime DEF Next
<1>11. Contents' = Tail(Contents)
  BY <1>6, <1>7, <1>9, <1>10, SeqEqual
<1> QED
  BY <1>1, <1>4, <1>8, <1>11

\* The initial ring is the empty queue.
LEMMA FifoInit == Init => Fifo!Init
  BY DEF Init, Fifo!Init, Contents

\* Every call of the ring is a call of the queue with the same result.
LEMMA FifoNext == Inv /\ [Next]_vars => [Fifo!Next]_(Fifo!vars)
<1> SUFFICES ASSUME Inv, [Next]_vars PROVE [Fifo!Next]_(Fifo!vars)
  OBVIOUS
<1>0. Contents \in Seq(Value) /\ Len(Contents) = count
  BY ContentsType
<1>1. ASSUME NEW v \in Value, TryPush(v) PROVE Fifo!Push(v)
  <2>1. CASE count # Capacity
    BY <2>1, <1>0, <1>1, PushAppends DEF TryPush, Fifo!Push, Inv, TypeOK
  <2>2. CASE count = Capacity
    BY <2>2, <1>0, <1>1 DEF TryPush, Fifo!Push, Contents, Cell
  <2> QED BY <2>1, <2>2
<1>2. ASSUME TryPop PROVE Fifo!Pop
  <2>1. CASE count # 0
    BY <2>1, <1>2, PopRemovesHead DEF TryPop, Fifo!Pop
  <2>2. CASE count = 0
    BY <2>2, <1>0, <1>2 DEF TryPop, Fifo!Pop, Contents, Cell
  <2> QED BY <2>1, <2>2
<1>3. ASSUME Size PROVE Fifo!Size
  BY <1>0, <1>3 DEF Size, Fifo!Size, Contents, Cell
<1>4. CASE UNCHANGED vars
  BY <1>4 DEF vars, Fifo!vars, Contents, Cell
<1> QED
  BY <1>1, <1>2, <1>3, <1>4 DEF Next, Fifo!Next

\* The ring buffer implements the bounded FIFO queue for every capacity: no value
\* is lost, duplicated or reordered, whatever the order of the calls.
THEOREM RingImplementsFifo == Spec => ImplementsFifo
  BY InvInit, InvNext, FifoInit, FifoNext, PTL DEF Spec, ImplementsFifo, Fifo!Spec

--------------------------------------------------------------------------------
(* The inductive invariant of the channel.                                                *)

CallId == Sender \X Nat
Bytes == [from : CallId \cup {<<>>}, size : {0, 1}]

SenderType ==
  senders \in [Sender -> [at : {"idle", "acquire", "fill", "push"}, slot : Slot, calls : Nat]]

WorkerType ==
  worker \in [at : {"loop", "pop", "send", "release", "receive", "call", "ended"}, slot : Slot]

DataType ==
  /\ free \in Seq(Slot)
  /\ packet \in [Slot -> Bytes]
  /\ accepted \in Seq(CallId)
  /\ sent \in Seq(Bytes)

Holds(t) == senders[t].at \in {"fill", "push"}
InHand == worker.at \in {"send", "release"}

\* A slot is free, pending, in one sender's hands or in the worker's.
Apart ==
  /\ IsInjective(free) /\ IsInjective(Contents)
  /\ Range(free) \cap Range(Contents) = {}
  /\ \A t \in Sender : Holds(t) => senders[t].slot \notin Range(free) \cup Range(Contents)
  /\ \A t, u \in Sender : Holds(t) /\ Holds(u) /\ senders[t].slot = senders[u].slot => t = u
  /\ InHand => worker.slot \notin Range(free) \cup Range(Contents)
  /\ InHand => \A t \in Sender : Holds(t) => senders[t].slot # worker.slot

\* How many packets the worker has popped and not yet sent.
Hand == IF worker.at = "send" THEN 1 ELSE 0

Whole(call) == [from |-> call, size |-> 1]

\* What was accepted is what was sent, then what the worker has in hand, then
\* what is pending, each packet whole in its slot.
Counted == Len(accepted) = Len(sent) + Hand + count
SentWhole == \A i \in 1 .. Len(sent) : sent[i] = Whole(accepted[i])
HandWhole == worker.at = "send" => packet[worker.slot] = Whole(accepted[Len(sent) + 1])
PendingWhole ==
  \A i \in 1 .. count : packet[Contents[i]] = Whole(accepted[Len(sent) + Hand + i])
FilledWhole ==
  \A t \in Sender : senders[t].at = "push" =>
    packet[senders[t].slot] = Whole(<<t, senders[t].calls>>)

Ordered == Counted /\ SentWhole /\ HandWhole /\ PendingWhole /\ FilledWhole

\* Where the owner is, whether the worker still runs, and what a flush saw.
Joined == stopped /\ owner \notin {"clear", "request", "join"}

Phases ==
  /\ owner \in {"clear", "request", "join", "close"} => stopped
  /\ Joined => worker.at = "ended"
  /\ ~open => Joined /\ owner # "close"
  /\ flushed \in Nat /\ flushed <= Len(sent) + Hand

ChannelInv == Inv /\ SenderType /\ WorkerType /\ DataType /\ Apart /\ Ordered /\ Phases

USE SlotsAreNumbers, BoundsAreNat

--------------------------------------------------------------------------------
(* Sequences without repetitions.                                           *)

LEMMA AppendNew ==
  ASSUME NEW S, NEW q \in Seq(S), IsInjective(q), NEW s \in S, s \notin Range(q)
  PROVE  /\ Append(q, s) \in Seq(S)
         /\ IsInjective(Append(q, s))
         /\ Range(Append(q, s)) = Range(q) \cup {s}
<1>1. /\ Append(q, s) \in Seq(S)
      /\ Len(Append(q, s)) = Len(q) + 1
      /\ \A i \in 1 .. Len(q) : Append(q, s)[i] = q[i]
      /\ Append(q, s)[Len(q) + 1] = s
  BY AppendProperties
<1>2. DOMAIN Append(q, s) = 1 .. Len(q) + 1 /\ DOMAIN q = 1 .. Len(q) /\ Len(q) \in Nat
  BY <1>1, LenProperties
<1>3. IsInjective(Append(q, s))
  BY <1>1, <1>2 DEF IsInjective, Range
<1>4. Range(Append(q, s)) = Range(q) \cup {s}
  BY <1>1, <1>2 DEF Range
<1> QED
  BY <1>1, <1>3, <1>4

LEMMA TailOfInjective ==
  ASSUME NEW S, NEW q \in Seq(S), IsInjective(q), q # <<>>
  PROVE  /\ Head(q) \in S /\ Head(q) \in Range(q)
         /\ Tail(q) \in Seq(S)
         /\ IsInjective(Tail(q))
         /\ Range(Tail(q)) = Range(q) \ {Head(q)}
<1>1. Len(q) \in Nat \ {0} /\ DOMAIN q = 1 .. Len(q) /\ Head(q) = q[1]
  BY EmptySeq, LenProperties
<1>2. /\ Tail(q) \in Seq(S)
      /\ Len(Tail(q)) = Len(q) - 1
      /\ \A i \in 1 .. Len(q) - 1 : Tail(q)[i] = q[i + 1]
  BY HeadTailProperties
<1>3. DOMAIN Tail(q) = 1 .. Len(q) - 1
  BY <1>2, LenProperties
<1>4. IsInjective(Tail(q))
  BY <1>1, <1>2, <1>3 DEF IsInjective
<1>5. Head(q) \in S /\ Head(q) \in Range(q)
  BY <1>1 DEF Range
<1>6. Range(Tail(q)) \subseteq Range(q) \ {Head(q)}
  <2> SUFFICES ASSUME NEW i \in 1 .. Len(q) - 1 PROVE Tail(q)[i] \in Range(q) \ {Head(q)}
    BY <1>3 DEF Range
  <2>1. Tail(q)[i] = q[i + 1] /\ i + 1 \in DOMAIN q /\ i + 1 # 1 /\ 1 \in DOMAIN q
    BY <1>1, <1>2
  <2> QED
    BY <1>1, <2>1 DEF Range, IsInjective
<1>7. Range(q) \ {Head(q)} \subseteq Range(Tail(q))
  <2> SUFFICES ASSUME NEW i \in 1 .. Len(q), q[i] # Head(q) PROVE q[i] \in Range(Tail(q))
    BY <1>1 DEF Range
  <2>1. i - 1 \in 1 .. Len(q) - 1 /\ Tail(q)[i - 1] = q[i]
    BY <1>1, <1>2
  <2> QED
    BY <1>3, <2>1 DEF Range
<1> QED
  BY <1>2, <1>4, <1>5, <1>6, <1>7

--------------------------------------------------------------------------------
(* The ring in the channel.                                                 *)

\* Every step of the channel calls the ring or leaves it alone.
LEMMA RingCalled ==
  ASSUME ChannelInv, UdpNext \/ UNCHANGED udpVars
  PROVE  [Next]_vars
<1>1. ASSUME NEW t \in Sender, Enqueue(t) PROVE [Next]_vars
  <2>1. senders[t].slot \in Value
    BY DEF ChannelInv, SenderType, Slot
  <2> QED
    BY <1>1, <2>1 DEF Enqueue, Next
<1>2. CASE Pop
  BY <1>2 DEF Pop, Next
<1>3. CASE LookPending
  BY <1>3 DEF LookPending, Next
<1>4. ASSUME NEW t \in Sender, Check(t) \/ Acquire(t) \/ Fill(t) PROVE [Next]_vars
  BY <1>4 DEF Check, Acquire, Fill, ring
<1>5. CASE Loop \/ PopEnds \/ SendSlot \/ Release \/ Receive \/ ReceiveEnds \/ Called \/ Arrive
  BY <1>5 DEF Loop, PopEnds, SendSlot, Release, Receive, ReceiveEnds, Called, Arrive, ring
<1>6. CASE Flush \/ Deadline \/ Stop \/ RequestStop \/ Join \/ Close \/ ClearCallback
  BY <1>6 DEF Flush, Deadline, Stop, RequestStop, Join, Close, ClearCallback, ring
<1>7. CASE UNCHANGED udpVars
  BY <1>7 DEF udpVars, ring
<1> QED
  BY <1>1, <1>2, <1>3, <1>4, <1>5, <1>6, <1>7 DEF UdpNext, Send, Work, Own

LEMMA RingKept ==
  ASSUME ChannelInv, UdpNext \/ UNCHANGED udpVars
  PROVE  Inv'
  BY RingCalled, InvNext DEF ChannelInv

\* The contents depend on the cells, the read index and the count only.
LEMMA ContentsKept ==
  ASSUME UNCHANGED <<storage, head, count>>
  PROVE  Contents' = Contents
  BY DEF Contents, Cell

\* The pending slots, as ContentsType gives them.
LEMMA PendingType ==
  ASSUME ChannelInv
  PROVE  /\ Contents \in Seq(Slot) /\ Len(Contents) = count /\ count \in Nat
         /\ DOMAIN Contents = 1 .. count
         /\ \A i \in 1 .. count : Contents[i] \in Slot /\ Contents[i] \in Range(Contents)
<1>1. Contents \in Seq(Slot) /\ Len(Contents) = count
  BY ContentsType DEF ChannelInv, Slot
<1>2. DOMAIN Contents = 1 .. count /\ count \in Nat
  BY <1>1, LenProperties
<1> QED
  BY <1>1, <1>2 DEF Range

--------------------------------------------------------------------------------
(* Steps that move no slot and write no packet.                             *)

Quiet ==
  /\ Contents' = Contents /\ count' = count
  /\ UNCHANGED <<free, packet, accepted, sent>>
  /\ \A t \in Sender :
       Holds(t)' => /\ Holds(t) /\ senders'[t].slot = senders[t].slot
                    /\ senders'[t].at = senders[t].at /\ senders'[t].calls = senders[t].calls
  /\ InHand' => worker' = worker
  /\ Hand' = Hand

LEMMA QuietKeeps ==
  ASSUME ChannelInv, Quiet
  PROVE  DataType' /\ Apart' /\ Ordered'
<1>1. DataType'
  BY DEF Quiet, ChannelInv, DataType
<1>2. Apart'
  <2>1. \A t \in Sender : Holds(t)' => Holds(t) /\ senders'[t].slot = senders[t].slot
    BY DEF Quiet
  <2>2. InHand' => InHand /\ worker'.slot = worker.slot
    BY DEF Quiet, InHand
  <2>3. free' = free /\ Contents' = Contents
    BY DEF Quiet
  <2>4. Apart
    BY DEF ChannelInv
  <2>5. /\ IsInjective(free') /\ IsInjective(Contents')
        /\ Range(free') \cap Range(Contents') = {}
    BY <2>3, <2>4 DEF Apart
  <2>6. \A t \in Sender : Holds(t)' => senders'[t].slot \notin Range(free') \cup Range(Contents')
    BY <2>1, <2>3, <2>4 DEF Apart
  <2>7. \A t, u \in Sender :
          Holds(t)' /\ Holds(u)' /\ senders'[t].slot = senders'[u].slot => t = u
    BY <2>1, <2>4 DEF Apart
  <2>8. InHand' => worker'.slot \notin Range(free') \cup Range(Contents')
    BY <2>2, <2>3, <2>4 DEF Apart
  <2>9. InHand' => \A t \in Sender : Holds(t)' => senders'[t].slot # worker'.slot
    BY <2>1, <2>2, <2>4 DEF Apart
  <2> QED
    BY <2>5, <2>6, <2>7, <2>8, <2>9 DEF Apart
<1>3. Ordered'
  <2> USE DEF Quiet, ChannelInv, Ordered
  <2>1. Counted' /\ SentWhole'
    BY DEF Counted, SentWhole
  <2>2. HandWhole'
    BY DEF HandWhole, InHand
  <2>3. PendingWhole'
    BY DEF PendingWhole
  <2>4. FilledWhole'
    BY DEF FilledWhole, Holds
  <2> QED
    BY <2>1, <2>2, <2>3, <2>4
<1> QED
  BY <1>1, <1>2, <1>3

LEMMA QuietPhases ==
  ASSUME ChannelInv, UNCHANGED <<stopped, owner, open, flushed>>,
         worker.at = "ended" => worker'.at = "ended",
         Len(sent') + Hand' >= Len(sent) + Hand,
         Len(sent') + Hand' \in Nat, Len(sent) + Hand \in Nat
  PROVE  Phases'
  BY DEF ChannelInv, Phases, Joined

LEMMA LengthsAreNat ==
  ASSUME ChannelInv
  PROVE  /\ Len(sent) \in Nat /\ Len(accepted) \in Nat /\ Hand \in {0, 1}
         /\ Len(sent) + Hand \in Nat
<1>1. Len(sent) \in Nat /\ Len(accepted) \in Nat /\ Hand \in {0, 1}
  BY LenProperties DEF ChannelInv, DataType, Hand
<1> QED
  BY <1>1

--------------------------------------------------------------------------------
(* udp_channel::send                                                        *)

LEMMA CheckKeeps ==
  ASSUME ChannelInv, NEW t \in Sender, Check(t)
  PROVE  SenderType' /\ WorkerType' /\ DataType' /\ Apart' /\ Ordered' /\ Phases'
<1>1. SenderType' /\ WorkerType'
  BY DEF Check, ChannelInv, SenderType, WorkerType
<1>2. Contents' = Contents /\ count' = count
  BY ContentsKept DEF Check, ring, vars
<1>3. Quiet
  <2>1. \A u \in Sender : Holds(u)' => senders'[u] = senders[u]
    BY DEF Check, ChannelInv, SenderType, Holds
  <2> QED
    BY <1>2, <2>1 DEF Quiet, Check, pool, history, Holds, InHand, Hand
<1>4. Phases'
  BY LengthsAreNat, QuietPhases, <1>3 DEF Check, flags, history, Quiet
<1> QED
  BY <1>1, <1>3, <1>4, QuietKeeps

LEMMA AcquireKeeps ==
  ASSUME ChannelInv, NEW t \in Sender, Acquire(t)
  PROVE  SenderType' /\ WorkerType' /\ DataType' /\ Apart' /\ Ordered' /\ Phases'
<1>1. Contents' = Contents /\ count' = count
  BY ContentsKept DEF Acquire, ring, vars
<1>2. /\ worker' = worker /\ packet' = packet /\ accepted' = accepted /\ sent' = sent
      /\ Hand' = Hand /\ (InHand' <=> InHand)
  BY DEF Acquire, history, InHand, Hand
<1>3. WorkerType' /\ Phases'
  BY <1>2, LengthsAreNat, QuietPhases DEF Acquire, flags, history, ChannelInv, WorkerType
<1>4. CASE free = <<>>
  <2>1. senders' = [senders EXCEPT ![t].at = "idle", ![t].slot = senders[t].slot] /\ free' = free
    BY <1>4 DEF Acquire, Sends
  <2>2. SenderType'
    BY <2>1 DEF ChannelInv, SenderType
  <2>3. \A u \in Sender : Holds(u)' => senders'[u] = senders[u]
    BY <2>1 DEF ChannelInv, SenderType, Holds
  <2>4. Quiet
    BY <1>1, <1>2, <2>1, <2>3 DEF Quiet, Holds
  <2> QED
    BY <1>3, <2>2, <2>4, QuietKeeps
<1>5. CASE free # <<>>
  <2> DEFINE s == Head(free)
  <2>1. /\ senders[t].at = "acquire"
        /\ senders' = [senders EXCEPT ![t].at = "fill", ![t].slot = s] /\ free' = Tail(free)
    BY <1>5 DEF Acquire, Sends
  <2>2. /\ s \in Slot /\ s \in Range(free) /\ Tail(free) \in Seq(Slot) /\ IsInjective(Tail(free))
        /\ Range(Tail(free)) = Range(free) \ {s}
    BY <1>5, TailOfInjective DEF ChannelInv, DataType, Apart
  <2> HIDE DEF s
  <2>3. /\ senders'[t].at = "fill" /\ senders'[t].slot = s
        /\ \A u \in Sender \ {t} : senders'[u] = senders[u]
    BY <2>1 DEF ChannelInv, SenderType
  <2>4. SenderType' /\ DataType'
    BY <1>2, <2>1, <2>2 DEF ChannelInv, SenderType, DataType
  <2>5. Holds(t)' /\ ~Holds(t) /\ \A u \in Sender \ {t} : Holds(u)' <=> Holds(u)
    BY <2>1, <2>3 DEF Holds
  <2>6. Apart'
    <3>1. Apart
      BY DEF ChannelInv
    <3>2. /\ IsInjective(free') /\ IsInjective(Contents')
          /\ Range(free') \cap Range(Contents') = {}
      BY <1>1, <2>1, <2>2, <3>1 DEF Apart
    <3>3. \A u \in Sender : Holds(u)' => senders'[u].slot \notin Range(free') \cup Range(Contents')
      BY <1>1, <2>1, <2>2, <2>3, <2>5, <3>1 DEF Apart
    <3>4. \A u, v \in Sender :
            Holds(u)' /\ Holds(v)' /\ senders'[u].slot = senders'[v].slot => u = v
      BY <2>2, <2>3, <2>5, <3>1 DEF Apart
    <3>5. InHand' => worker'.slot \notin Range(free') \cup Range(Contents')
      BY <1>1, <1>2, <2>1, <2>2, <3>1 DEF Apart
    <3>6. InHand' => \A u \in Sender : Holds(u)' => senders'[u].slot # worker'.slot
      BY <1>2, <2>2, <2>3, <2>5, <3>1 DEF Apart
    <3> QED
      BY <3>2, <3>3, <3>4, <3>5, <3>6 DEF Apart
  <2>7. Ordered'
    <3> USE DEF ChannelInv, Ordered
    <3>1. Counted' /\ SentWhole' /\ HandWhole' /\ PendingWhole'
      BY <1>1, <1>2 DEF Counted, SentWhole, HandWhole, PendingWhole
    <3>2. FilledWhole'
      BY <1>2, <2>3 DEF FilledWhole
    <3> QED
      BY <3>1, <3>2
  <2> QED
    BY <1>3, <2>4, <2>6, <2>7
<1> QED
  BY <1>4, <1>5

LEMMA FillKeeps ==
  ASSUME ChannelInv, NEW t \in Sender, Fill(t)
  PROVE  SenderType' /\ WorkerType' /\ DataType' /\ Apart' /\ Ordered' /\ Phases'
<1> DEFINE s == senders[t].slot
           p == [from |-> <<t, senders[t].calls>>, size |-> 1]
<1>1. /\ Contents' = Contents /\ count' = count
      /\ worker' = worker /\ free' = free /\ accepted' = accepted /\ sent' = sent
      /\ Hand' = Hand /\ (InHand' <=> InHand)
  BY ContentsKept DEF Fill, ring, vars, history, InHand, Hand
<1>2. WorkerType' /\ Phases'
  BY <1>1, LengthsAreNat, QuietPhases DEF Fill, flags, history, ChannelInv, WorkerType
<1>3. /\ senders[t].at = "fill" /\ s \in Slot
      /\ senders' = [senders EXCEPT ![t].at = "push", ![t].slot = s]
      /\ packet' = [packet EXCEPT ![s] = p]
  BY DEF Fill, Sends, ChannelInv, SenderType
<1>4. p \in Bytes
  BY DEF ChannelInv, SenderType, Bytes, CallId
<1>5. SenderType' /\ DataType'
  <2> HIDE DEF p
  <2> QED
    BY <1>1, <1>3, <1>4 DEF ChannelInv, SenderType, DataType
<1>6. /\ senders'[t].at = "push" /\ senders'[t].calls = senders[t].calls
      /\ \A u \in Sender : senders'[u].slot = senders[u].slot /\ (Holds(u)' <=> Holds(u))
      /\ \A u \in Sender \ {t} : senders'[u] = senders[u]
  BY <1>3 DEF ChannelInv, SenderType, Holds
<1>7. packet'[s] = p /\ \A x \in Slot \ {s} : packet'[x] = packet[x]
  BY <1>3 DEF ChannelInv, DataType
<1>8. Apart'
  <2>1. Apart
    BY DEF ChannelInv
  <2> QED
    BY <1>1, <1>6, <2>1 DEF Apart
<1>9. Holds(t)
  BY <1>3 DEF Holds
<1>10. Ordered'
  <2> USE DEF ChannelInv, Ordered
  <2>1. Counted' /\ SentWhole'
    BY <1>1 DEF Counted, SentWhole
  <2>2. HandWhole'
    <3>1. worker.at = "send" => worker.slot \in Slot \ {s}
      BY <1>9 DEF Apart, WorkerType, InHand
    <3> QED
      BY <1>1, <1>7, <3>1 DEF HandWhole
  <2>3. PendingWhole'
    <3>1. \A i \in 1 .. count : Contents[i] \in Slot \ {s}
      BY <1>9, PendingType DEF Apart
    <3> QED
      BY <1>1, <1>7, <3>1 DEF PendingWhole
  <2>4. FilledWhole'
    <3> SUFFICES ASSUME NEW u \in Sender, senders'[u].at = "push"
                 PROVE  packet'[senders'[u].slot] = Whole(<<u, senders'[u].calls>>)
      BY DEF FilledWhole
    <3>1. CASE u = t
      BY <1>6, <1>7, <3>1 DEF Whole
    <3>2. CASE u # t
      <4>1. senders'[u] = senders[u] /\ senders[u].at = "push" /\ Holds(u)
        BY <1>6, <3>2 DEF Holds
      <4>2. senders[u].slot \in Slot \ {s}
        BY <1>9, <3>2, <4>1 DEF Apart, SenderType
      <4> QED
        BY <1>7, <4>1, <4>2 DEF FilledWhole
    <3> QED
      BY <3>1, <3>2
  <2> QED
    BY <2>1, <2>2, <2>3, <2>4
<1> QED
  BY <1>2, <1>5, <1>8, <1>10

\* What enqueue does to the senders: the caller holds its slot no more.
LEMMA CallerLetsGo ==
  ASSUME ChannelInv, NEW t \in Sender, Sends(t, "push", "idle", senders[t].slot)
  PROVE  /\ SenderType' /\ Holds(t) /\ ~Holds(t)' /\ senders[t].slot \in Slot
         /\ senders[t].at = "push" /\ senders'[t].at = "idle"
         /\ \A u \in Sender \ {t} : senders'[u] = senders[u] /\ (Holds(u)' <=> Holds(u))
  BY DEF Sends, ChannelInv, SenderType, Holds

LEMMA EnqueueKeeps ==
  ASSUME ChannelInv, NEW t \in Sender, Enqueue(t)
  PROVE  SenderType' /\ WorkerType' /\ DataType' /\ Apart' /\ Ordered' /\ Phases'
<1> DEFINE s == senders[t].slot
           call == <<t, senders[t].calls>>
<1>1. /\ SenderType' /\ Holds(t) /\ ~Holds(t)' /\ s \in Slot
      /\ senders[t].at = "push" /\ senders'[t].at = "idle"
      /\ \A u \in Sender \ {t} : senders'[u] = senders[u] /\ (Holds(u)' <=> Holds(u))
  BY CallerLetsGo DEF Enqueue
<1>2. /\ worker' = worker /\ sent' = sent /\ Hand' = Hand /\ (InHand' <=> InHand)
      /\ UNCHANGED <<stopped, owner, open, flushed>>
  BY DEF Enqueue, flags, InHand, Hand
<1>3. WorkerType' /\ Phases'
  BY <1>2, LengthsAreNat, QuietPhases DEF ChannelInv, WorkerType
<1>4. TryPush(s)
  BY DEF Enqueue
<1>5. call \in CallId
  BY DEF ChannelInv, SenderType, CallId
<1>6. /\ s \notin Range(free) /\ s \notin Range(Contents)
      /\ \A u \in Sender \ {t} : Holds(u) => senders[u].slot # s
      /\ InHand => worker.slot # s
  BY <1>1 DEF ChannelInv, Apart
<1>7. CASE count # Capacity
  <2>1. result' = [op |-> "push", ok |-> TRUE] /\ count' = count + 1
    BY <1>4, <1>7 DEF TryPush
  <2>2. accepted' = Append(accepted, call) /\ free' = free /\ packet' = packet
    BY <2>1 DEF Enqueue, pool
  <2>3. Contents' = Append(Contents, s)
    BY <1>1, <1>4, <1>7, PushAppends DEF ChannelInv, Slot
  <2>4. /\ IsInjective(Contents') /\ Range(Contents') = Range(Contents) \cup {s}
    BY <1>1, <1>6, <2>3, PendingType, AppendNew DEF ChannelInv, Apart
  <2>5. /\ accepted' \in Seq(CallId) /\ Len(accepted') = Len(accepted) + 1
        /\ \A i \in 1 .. Len(accepted) : accepted'[i] = accepted[i]
        /\ accepted'[Len(accepted) + 1] = call
    <3> HIDE DEF call
    <3> QED
      BY <1>5, <2>2, AppendProperties DEF ChannelInv, DataType
  <2>6. /\ \A i \in 1 .. count : Contents'[i] = Contents[i]
        /\ Contents'[count + 1] = s
    BY <1>1, <2>3, PendingType, AppendProperties
  <2>7. DataType'
    BY <1>2, <2>2, <2>5 DEF ChannelInv, DataType
  <2>8. Apart'
    <3>1. Apart
      BY DEF ChannelInv
    <3>2. /\ IsInjective(free') /\ IsInjective(Contents')
          /\ Range(free') \cap Range(Contents') = {}
      BY <1>6, <2>2, <2>4, <3>1 DEF Apart
    <3>3. \A u \in Sender : Holds(u)' =>
            u # t /\ Holds(u) /\ senders'[u].slot = senders[u].slot
      BY <1>1
    <3>4. \A u \in Sender : Holds(u)' => senders'[u].slot \notin Range(free') \cup Range(Contents')
      BY <1>6, <2>2, <2>4, <3>1, <3>3 DEF Apart
    <3>5. \A u, v \in Sender :
            Holds(u)' /\ Holds(v)' /\ senders'[u].slot = senders'[v].slot => u = v
      BY <3>1, <3>3 DEF Apart
    <3>6. InHand' => worker'.slot \notin Range(free') \cup Range(Contents')
      BY <1>2, <1>6, <2>2, <2>4, <3>1 DEF Apart
    <3>7. InHand' => \A u \in Sender : Holds(u)' => senders'[u].slot # worker'.slot
      BY <1>2, <3>1, <3>3 DEF Apart
    <3> QED
      BY <3>2, <3>4, <3>5, <3>6, <3>7 DEF Apart
  <2>9. Ordered'
    <3> USE DEF ChannelInv, Ordered
    <3>1. Counted
      OBVIOUS
    <3>2. Counted'
      BY <1>2, <2>1, <2>5, LengthsAreNat, PendingType DEF Counted
    <3>3. SentWhole'
      BY <1>2, <2>5, <3>1, LengthsAreNat, PendingType DEF SentWhole, Counted
    <3>4. HandWhole'
      BY <1>2, <2>2, <2>5, <3>1, LengthsAreNat, PendingType DEF HandWhole, Counted, Hand
    <3>5. PendingWhole'
      <4> SUFFICES ASSUME NEW i \in 1 .. count + 1
                   PROVE  packet[Contents'[i]] = Whole(accepted'[Len(sent) + Hand + i])
        BY <1>2, <2>1, <2>2 DEF PendingWhole
      <4>1. CASE i \in 1 .. count
        <5>1. Len(sent) + Hand + i \in 1 .. Len(accepted)
          BY <3>1, <4>1, LengthsAreNat, PendingType DEF Counted
        <5> QED
          BY <2>5, <2>6, <4>1, <5>1 DEF PendingWhole
      <4>2. CASE i = count + 1
        <5>1. Len(sent) + Hand + i = Len(accepted) + 1
          BY <3>1, <4>2, LengthsAreNat, PendingType DEF Counted
        <5>2. packet[s] = Whole(call)
          BY <1>1 DEF FilledWhole
        <5> QED
          BY <2>5, <2>6, <4>2, <5>1, <5>2
      <4> QED
        BY <4>1, <4>2, PendingType
    <3>6. FilledWhole'
      BY <1>1, <2>2 DEF FilledWhole
    <3> QED
      BY <3>2, <3>3, <3>4, <3>5, <3>6
  <2> QED
    BY <1>1, <1>3, <2>7, <2>8, <2>9
<1>8. CASE count = Capacity
  <2>1. result' = [op |-> "push", ok |-> FALSE] /\ UNCHANGED <<storage, head, tail, count>>
    BY <1>4, <1>8 DEF TryPush
  <2>2. Contents' = Contents /\ count' = count
    BY <2>1, ContentsKept
  <2>3. /\ packet' = [packet EXCEPT ![s].size = 0] /\ free' = Append(free, s)
        /\ accepted' = accepted
    BY <2>1 DEF Enqueue
  <2>4. /\ free' \in Seq(Slot) /\ IsInjective(free') /\ Range(free') = Range(free) \cup {s}
    BY <1>1, <1>6, <2>3, AppendNew DEF ChannelInv, DataType, Apart
  <2>5. packet' \in [Slot -> Bytes] /\ \A x \in Slot \ {s} : packet'[x] = packet[x]
    BY <2>3 DEF ChannelInv, DataType, Bytes
  <2>6. DataType'
    BY <1>2, <2>3, <2>4, <2>5 DEF ChannelInv, DataType
  <2>7. Apart'
    <3>1. Apart
      BY DEF ChannelInv
    <3>2. /\ IsInjective(free') /\ IsInjective(Contents')
          /\ Range(free') \cap Range(Contents') = {}
      BY <1>6, <2>2, <2>4, <3>1 DEF Apart
    <3>3. \A u \in Sender : Holds(u)' =>
            u # t /\ Holds(u) /\ senders'[u].slot = senders[u].slot
      BY <1>1
    <3>4. \A u \in Sender : Holds(u)' => senders'[u].slot \notin Range(free') \cup Range(Contents')
      BY <1>6, <2>2, <2>4, <3>1, <3>3 DEF Apart
    <3>5. \A u, v \in Sender :
            Holds(u)' /\ Holds(v)' /\ senders'[u].slot = senders'[v].slot => u = v
      BY <3>1, <3>3 DEF Apart
    <3>6. InHand' => worker'.slot \notin Range(free') \cup Range(Contents')
      BY <1>2, <1>6, <2>2, <2>4, <3>1 DEF Apart
    <3>7. InHand' => \A u \in Sender : Holds(u)' => senders'[u].slot # worker'.slot
      BY <1>2, <3>1, <3>3 DEF Apart
    <3> QED
      BY <3>2, <3>4, <3>5, <3>6, <3>7 DEF Apart
  <2>8. Ordered'
    <3> USE DEF ChannelInv, Ordered
    <3>1. Counted' /\ SentWhole'
      BY <1>2, <2>2, <2>3 DEF Counted, SentWhole
    <3>2. HandWhole'
      BY <1>2, <1>6, <2>3, <2>5 DEF HandWhole, InHand, WorkerType
    <3>3. PendingWhole'
      <4>1. \A i \in 1 .. count : Contents[i] \in Slot \ {s}
        BY <1>6, PendingType
      <4> QED
        BY <1>2, <2>2, <2>3, <2>5, <4>1 DEF PendingWhole
    <3>4. FilledWhole'
      <4> SUFFICES ASSUME NEW u \in Sender, senders'[u].at = "push"
                   PROVE  packet'[senders'[u].slot] = Whole(<<u, senders'[u].calls>>)
        BY DEF FilledWhole
      <4>1. u # t /\ senders'[u] = senders[u] /\ Holds(u)
        BY <1>1 DEF Holds
      <4>2. senders[u].slot \in Slot \ {s}
        BY <1>6, <4>1 DEF SenderType
      <4> QED
        BY <2>5, <4>1, <4>2 DEF FilledWhole
    <3> QED
      BY <3>1, <3>2, <3>3, <3>4
  <2> QED
    BY <1>1, <1>3, <2>6, <2>7, <2>8
<1> QED
  BY <1>7, <1>8

--------------------------------------------------------------------------------
(* impl::run                                                                *)

LEMMA PopKeeps ==
  ASSUME ChannelInv, Pop
  PROVE  SenderType' /\ WorkerType' /\ DataType' /\ Apart' /\ Ordered' /\ Phases'
<1>1. /\ worker.at = "pop" /\ ~InHand /\ Hand = 0 /\ worker \in [at : {"pop"}, slot : Slot]
  BY DEF Pop, InHand, Hand, ChannelInv, WorkerType
<1>2. /\ senders' = senders /\ free' = free /\ packet' = packet
      /\ accepted' = accepted /\ sent' = sent
      /\ UNCHANGED <<stopped, owner, open, flushed>>
      /\ \A t \in Sender : Holds(t)' <=> Holds(t)
  BY DEF Pop, pool, flags, history, Holds
<1>3. TryPop
  BY DEF Pop
<1>4. SenderType' /\ DataType'
  BY <1>2 DEF ChannelInv, SenderType, DataType
<1>5. CASE count = 0
  <2>1. Contents' = Contents /\ count' = count /\ ~result'.ok
    BY <1>3, <1>5, ContentsKept DEF TryPop
  <2>2. worker' = [worker EXCEPT !.at = "receive"]
    BY <2>1 DEF Pop
  <2>3. worker'.at = "receive" /\ WorkerType'
    BY <1>1, <2>2 DEF WorkerType
  <2>4. ~InHand' /\ Hand' = Hand
    BY <1>1, <2>3 DEF InHand, Hand
  <2>5. Quiet
    BY <1>2, <2>1, <2>4 DEF Quiet
  <2>6. Phases'
    BY <1>1, <1>2, <2>4, LengthsAreNat, QuietPhases
  <2> QED
    BY <1>4, <2>3, <2>5, <2>6, QuietKeeps
<1>6. CASE count # 0
  <2> DEFINE s == Head(Contents)
  <2>1. /\ result' = [op |-> "pop", ok |-> TRUE, value |-> storage[head]]
        /\ count' = count - 1
    BY <1>3, <1>6 DEF TryPop
  <2>2. Contents # <<>> /\ storage[head] = s /\ Contents' = Tail(Contents)
    BY <1>3, <1>6, PopRemovesHead DEF ChannelInv
  <2>3. /\ s \in Slot /\ s \in Range(Contents) /\ IsInjective(Contents')
        /\ Range(Contents') = Range(Contents) \ {s}
    BY <2>2, PendingType, TailOfInjective DEF ChannelInv, Apart
  <2>4. /\ s = Contents[1] /\ \A i \in 1 .. count - 1 : Contents'[i] = Contents[i + 1]
    BY <2>2, PendingType, HeadTailProperties
  <2> HIDE DEF s
  <2>5. worker' = [at |-> "send", slot |-> s]
    BY <2>1, <2>2 DEF Pop
  <2>6. worker'.at = "send" /\ worker'.slot = s /\ WorkerType' /\ Hand' = 1 /\ InHand'
    BY <2>3, <2>5 DEF WorkerType, Hand, InHand
  <2>7. Phases'
    BY <1>1, <1>2, <2>6, LengthsAreNat, QuietPhases
  <2>8. Apart'
    <3>1. Apart
      BY DEF ChannelInv
    <3>2. /\ IsInjective(free') /\ IsInjective(Contents')
          /\ Range(free') \cap Range(Contents') = {}
      BY <1>2, <2>3, <3>1 DEF Apart
    <3>3. \A t \in Sender : Holds(t)' => senders'[t].slot \notin Range(free') \cup Range(Contents')
      BY <1>2, <2>3, <3>1 DEF Apart
    <3>4. \A t, u \in Sender :
            Holds(t)' /\ Holds(u)' /\ senders'[t].slot = senders'[u].slot => t = u
      BY <1>2, <3>1 DEF Apart
    <3>5. s \notin Range(free') \cup Range(Contents')
      BY <1>2, <2>3, <3>1 DEF Apart
    <3>6. \A t \in Sender : Holds(t)' => senders'[t].slot # s
      BY <1>2, <2>3, <3>1 DEF Apart
    <3> QED
      BY <2>6, <3>2, <3>3, <3>4, <3>5, <3>6 DEF Apart
  <2>9. Ordered'
    <3> USE DEF ChannelInv, Ordered
    <3>1. Counted' /\ SentWhole'
      BY <1>1, <1>2, <2>1, <2>6, LengthsAreNat, PendingType DEF Counted, SentWhole
    <3>2. \A i \in 1 .. count : packet[Contents[i]] = Whole(accepted[Len(sent) + i])
      BY <1>1, LengthsAreNat DEF PendingWhole
    <3>3. HandWhole'
      BY <1>2, <1>6, <2>4, <2>6, <3>2, PendingType DEF HandWhole
    <3>4. PendingWhole'
      <4> SUFFICES ASSUME NEW i \in 1 .. count - 1
                   PROVE  packet[Contents'[i]] = Whole(accepted[Len(sent) + 1 + i])
        BY <1>2, <2>1, <2>6 DEF PendingWhole
      <4>1. i + 1 \in 1 .. count /\ Len(sent) + 1 + i = Len(sent) + (i + 1)
        BY LengthsAreNat, PendingType
      <4> QED
        BY <2>4, <3>2, <4>1
    <3>5. FilledWhole'
      BY <1>2 DEF FilledWhole
    <3> QED
      BY <3>1, <3>3, <3>4, <3>5
  <2> QED
    BY <1>4, <2>6, <2>7, <2>8, <2>9
<1> QED
  BY <1>5, <1>6

LEMMA SendSlotKeeps ==
  ASSUME ChannelInv, SendSlot
  PROVE  SenderType' /\ WorkerType' /\ DataType' /\ Apart' /\ Ordered' /\ Phases'
<1>1. /\ worker.at = "send" /\ worker' = [worker EXCEPT !.at = "release"]
      /\ InHand /\ Hand = 1 /\ worker.slot \in Slot
  BY DEF SendSlot, InHand, Hand, ChannelInv, WorkerType
<1>2. worker'.at = "release" /\ worker'.slot = worker.slot /\ WorkerType' /\ InHand' /\ Hand' = 0
  BY <1>1 DEF ChannelInv, WorkerType, InHand, Hand
<1>3. /\ senders' = senders /\ free' = free /\ packet' = packet /\ accepted' = accepted
      /\ Contents' = Contents /\ count' = count
      /\ UNCHANGED <<stopped, owner, open, flushed>>
      /\ \A t \in Sender : Holds(t)' <=> Holds(t)
  BY ContentsKept DEF SendSlot, ring, vars, pool, flags, Holds
<1>4. open
  BY <1>1 DEF ChannelInv, Phases
<1>5. sent' = Append(sent, packet[worker.slot]) /\ packet[worker.slot] \in Bytes
  BY <1>1, <1>4 DEF SendSlot, ChannelInv, DataType
<1>6. /\ sent' \in Seq(Bytes) /\ Len(sent') = Len(sent) + 1
      /\ \A i \in 1 .. Len(sent) : sent'[i] = sent[i]
      /\ sent'[Len(sent) + 1] = packet[worker.slot]
  BY <1>5, AppendProperties DEF ChannelInv, DataType
<1>7. SenderType' /\ DataType'
  BY <1>3, <1>6 DEF ChannelInv, SenderType, DataType
<1>8. Apart'
  BY <1>1, <1>2, <1>3 DEF ChannelInv, Apart
<1>9. Phases'
  BY <1>1, <1>2, <1>3, <1>6, LengthsAreNat, QuietPhases
<1>10. Ordered'
  <2> USE DEF ChannelInv, Ordered
  <2>1. Counted'
    BY <1>1, <1>2, <1>3, <1>6, LengthsAreNat, PendingType DEF Counted
  <2>2. SentWhole'
    <3> SUFFICES ASSUME NEW i \in 1 .. Len(sent) + 1 PROVE sent'[i] = Whole(accepted[i])
      BY <1>3, <1>6 DEF SentWhole
    <3>1. CASE i \in 1 .. Len(sent)
      BY <1>6, <3>1 DEF SentWhole
    <3>2. CASE i = Len(sent) + 1
      BY <1>1, <1>6, <3>2 DEF HandWhole
    <3> QED
      BY <3>1, <3>2, LengthsAreNat
  <2>3. HandWhole'
    BY <1>2 DEF HandWhole
  <2>4. PendingWhole'
    <3>1. \A i \in 1 .. count : Len(sent') + Hand' + i = Len(sent) + Hand + i
      BY <1>1, <1>2, <1>6, LengthsAreNat, PendingType
    <3> QED
      BY <1>3, <3>1 DEF PendingWhole
  <2>5. FilledWhole'
    BY <1>3 DEF FilledWhole
  <2> QED
    BY <2>1, <2>2, <2>3, <2>4, <2>5
<1> QED
  BY <1>2, <1>7, <1>8, <1>9, <1>10

LEMMA ReleaseKeeps ==
  ASSUME ChannelInv, Release
  PROVE  SenderType' /\ WorkerType' /\ DataType' /\ Apart' /\ Ordered' /\ Phases'
<1> DEFINE s == worker.slot
<1>1. /\ worker.at = "release" /\ worker' = [worker EXCEPT !.at = "pop"]
      /\ InHand /\ Hand = 0 /\ s \in Slot
  BY DEF Release, InHand, Hand, ChannelInv, WorkerType
<1>2. worker'.at = "pop" /\ WorkerType' /\ ~InHand' /\ Hand' = 0
  BY <1>1 DEF ChannelInv, WorkerType, InHand, Hand
<1>3. /\ senders' = senders /\ accepted' = accepted /\ sent' = sent
      /\ Contents' = Contents /\ count' = count
      /\ UNCHANGED <<stopped, owner, open, flushed>>
      /\ \A t \in Sender : Holds(t)' <=> Holds(t)
  BY ContentsKept DEF Release, ring, vars, flags, history, Holds
<1>4. /\ s \notin Range(free) /\ s \notin Range(Contents)
      /\ \A t \in Sender : Holds(t) => senders[t].slot # s
  BY <1>1 DEF ChannelInv, Apart
<1>5. packet' = [packet EXCEPT ![s].size = 0] /\ free' = Append(free, s)
  BY DEF Release
<1>6. free' \in Seq(Slot) /\ IsInjective(free') /\ Range(free') = Range(free) \cup {s}
  BY <1>1, <1>4, <1>5, AppendNew DEF ChannelInv, DataType, Apart
<1>7. packet' \in [Slot -> Bytes] /\ \A x \in Slot \ {s} : packet'[x] = packet[x]
  BY <1>5 DEF ChannelInv, DataType, Bytes
<1>8. SenderType' /\ DataType'
  BY <1>3, <1>6, <1>7 DEF ChannelInv, SenderType, DataType
<1>9. Apart'
  BY <1>2, <1>3, <1>4, <1>6 DEF ChannelInv, Apart
<1>10. Phases'
  BY <1>1, <1>2, <1>3, LengthsAreNat, QuietPhases
<1>11. Ordered'
  <2> USE DEF ChannelInv, Ordered
  <2>1. Counted' /\ SentWhole' /\ HandWhole'
    BY <1>1, <1>2, <1>3 DEF Counted, SentWhole, HandWhole
  <2>2. PendingWhole'
    <3>1. \A i \in 1 .. count : Contents[i] \in Slot \ {s}
      BY <1>4, PendingType
    <3> QED
      BY <1>1, <1>2, <1>3, <1>7, <3>1 DEF PendingWhole
  <2>3. FilledWhole'
    <3> SUFFICES ASSUME NEW t \in Sender, senders[t].at = "push"
                 PROVE  packet'[senders[t].slot] = Whole(<<t, senders[t].calls>>)
      BY <1>3 DEF FilledWhole
    <3>1. senders[t].slot \in Slot \ {s}
      BY <1>4 DEF Holds, SenderType
    <3> QED
      BY <1>7, <3>1 DEF FilledWhole
  <2> QED
    BY <2>1, <2>2, <2>3
<1> QED
  BY <1>2, <1>8, <1>9, <1>10, <1>11

\* The worker's steps that move no slot.
LEMMA WorkerQuietKeeps ==
  ASSUME ChannelInv, Loop \/ PopEnds \/ Receive \/ ReceiveEnds \/ Called
  PROVE  SenderType' /\ WorkerType' /\ DataType' /\ Apart' /\ Ordered' /\ Phases'
<1>1. /\ senders' = senders /\ UNCHANGED pool /\ UNCHANGED history
      /\ Contents' = Contents /\ count' = count
      /\ UNCHANGED <<stopped, owner, open, flushed>>
  BY ContentsKept
  DEF Loop, PopEnds, Receive, ReceiveEnds, Called, ring, vars, flags, history, pool
<1>2. /\ WorkerType' /\ worker.at # "ended" /\ worker.at \notin {"send", "release"}
      /\ worker'.at \in {"loop", "pop", "receive", "call", "ended"}
  BY DEF Loop, PopEnds, Receive, ReceiveEnds, Called, ChannelInv, WorkerType
<1>3. ~InHand' /\ Hand = 0 /\ Hand' = 0
  BY <1>2 DEF InHand, Hand
<1>4. SenderType'
  BY <1>1 DEF ChannelInv, SenderType
<1>5. Quiet
  BY <1>1, <1>3 DEF Quiet, Holds, pool, history
<1>6. Phases'
  BY <1>1, <1>2, <1>3, LengthsAreNat, QuietPhases DEF history
<1> QED
  BY <1>2, <1>4, <1>5, <1>6, QuietKeeps

--------------------------------------------------------------------------------
(* The owner and the network                                                *)

LEMMA OwnerKeeps ==
  ASSUME ChannelInv, Own \/ ClearCallback \/ Arrive \/ UNCHANGED udpVars
  PROVE  SenderType' /\ WorkerType' /\ DataType' /\ Apart' /\ Ordered' /\ Phases'
<1>1. /\ senders' = senders /\ worker' = worker /\ UNCHANGED pool
      /\ accepted' = accepted /\ sent' = sent
      /\ UNCHANGED <<storage, head, count>>
  BY DEF Own, Flush, LookPending, Size, Deadline, Stop, RequestStop, Join, Close, ClearCallback,
         Arrive, udpVars, ring, vars, flags, history, pool
<1>2. SenderType' /\ WorkerType'
  BY <1>1 DEF ChannelInv, SenderType, WorkerType
<1>3. Hand' = Hand
  BY <1>1 DEF Hand
<1>4. Quiet
  BY <1>1, <1>3, ContentsKept DEF Quiet, Holds, InHand, pool
<1>5. Phases'
  <2> USE <1>1, <1>3 DEF ChannelInv, Phases, Joined
  <2>1. CASE Flush \/ Deadline
    BY <2>1 DEF Flush, Deadline, flags, history
  <2>2. CASE LookPending
    <3>1. CASE count = 0
      <4>1. result'.value = 0
        BY <2>2, <3>1 DEF LookPending, Size
      <4>2. owner = "flush" /\ owner' = "idle" /\ flushed' = Len(accepted) /\ UNCHANGED flags
        BY <2>2, <4>1 DEF LookPending
      <4>3. Len(accepted) = Len(sent) + Hand
        BY <3>1, LengthsAreNat DEF Ordered, Counted
      <4> QED
        BY <4>2, <4>3, LengthsAreNat DEF flags
    <3>2. CASE count # 0
      <4>1. UNCHANGED <<owner, flushed>> /\ UNCHANGED flags
        BY <2>2, <3>2 DEF LookPending, Size
      <4> QED
        BY <4>1 DEF flags
    <3> QED
      BY <3>1, <3>2
  <2>3. CASE Stop
    BY <2>3 DEF Stop, history
  <2>4. CASE ClearCallback \/ RequestStop
    BY <2>4 DEF ClearCallback, RequestStop, history
  <2>5. CASE Join \/ Close
    BY <2>5 DEF Join, Close, flags, history
  <2>6. CASE Arrive \/ UNCHANGED udpVars
    BY <2>6 DEF Arrive, udpVars, flags, history
  <2> QED
    BY <2>1, <2>2, <2>3, <2>4, <2>5, <2>6 DEF Own
<1> QED
  BY <1>2, <1>4, <1>5, QuietKeeps

--------------------------------------------------------------------------------
(* The invariant holds.                                                     *)

LEMMA ChannelInvInit == UdpInit => ChannelInv
<1> SUFFICES ASSUME UdpInit PROVE ChannelInv
  OBVIOUS
<1> USE DEF UdpInit, ChannelInit
<1>1. Inv /\ count = 0 /\ Contents = <<>>
  BY InvInit DEF Init, Contents
<1>2. SenderType /\ WorkerType
  BY DefaultIsValue DEF SenderType, WorkerType, Slot
<1>3. free \in [1 .. Capacity -> Slot] /\ free \in Seq(Slot) /\ IsInjective(free)
  BY CapacityIsNat DEF Slot, IsInjective
<1>4. DataType
  BY <1>3 DEF DataType, Bytes, Empty
<1>5. ~InHand /\ Hand = 0 /\ \A t \in Sender : ~Holds(t)
  BY DEF InHand, Hand, Holds
<1>6. Apart
  BY <1>1, <1>3, <1>5 DEF Apart, IsInjective, Range
<1>7. Ordered
  BY <1>1, <1>5 DEF Ordered, Counted, SentWhole, HandWhole, PendingWhole, FilledWhole
<1>8. Phases
  BY <1>5 DEF Phases, Joined
<1> QED
  BY <1>1, <1>2, <1>4, <1>6, <1>7, <1>8 DEF ChannelInv

LEMMA ChannelInvNext == ChannelInv /\ [UdpNext]_udpVars => ChannelInv'
<1> SUFFICES ASSUME ChannelInv, UdpNext \/ UNCHANGED udpVars PROVE ChannelInv'
  OBVIOUS
<1> DEFINE Rest == SenderType /\ WorkerType /\ DataType /\ Apart /\ Ordered /\ Phases
<1>1. ASSUME NEW t \in Sender, Send(t) PROVE Rest'
  BY <1>1, CheckKeeps, AcquireKeeps, FillKeeps, EnqueueKeeps DEF Send
<1>2. ASSUME Work PROVE Rest'
  BY <1>2, WorkerQuietKeeps, PopKeeps, SendSlotKeeps, ReleaseKeeps DEF Work
<1>3. ASSUME Own \/ ClearCallback \/ Arrive \/ UNCHANGED udpVars PROVE Rest'
  BY <1>3, OwnerKeeps
<1>4. Rest'
  BY <1>1, <1>2, <1>3 DEF UdpNext
<1> QED
  BY <1>4, RingKept DEF ChannelInv

LEMMA ChannelInvAlways == UdpSpec => []ChannelInv
  BY ChannelInvInit, ChannelInvNext, PTL DEF UdpSpec

\* The packets handed to the socket are the accepted ones, whole, once and in
\* order, for every number of slots, senders and sends: no slot is in two hands
\* and none is reused before its packet is out (channel.cc packet_pool).
THEOREM SentInOrderAlways == UdpSpec => []SentInOrder
<1>1. ChannelInv => SentInOrder
  <2> SUFFICES ASSUME ChannelInv PROVE SentInOrder
    OBVIOUS
  <2> QED
    BY LengthsAreNat, PendingType DEF ChannelInv, Ordered, Counted, SentWhole, Whole, SentInOrder
<1> QED
  BY <1>1, ChannelInvAlways, PTL

\* When stop has returned, what a flush saw accepted has been handed to the
\* socket, for every number of slots, senders and sends.
THEOREM FlushedIsSentAlways == UdpSpec => []FlushedIsSent
<1>1. ChannelInv => FlushedIsSent
  <2> SUFFICES ASSUME ChannelInv, stopped, owner = "idle" PROVE Len(sent) >= flushed
    BY DEF FlushedIsSent
  <2>1. Hand = 0
    BY DEF ChannelInv, Phases, Joined, Hand
  <2> QED
    BY <2>1, LengthsAreNat DEF ChannelInv, Phases
<1> QED
  BY <1>1, ChannelInvAlways, PTL

\* The pending ring of the channel implements the bounded FIFO queue, whatever
\* its threads do.
THEOREM PendingIsFifo == UdpSpec => ImplementsFifo
<1>1. ChannelInv /\ [UdpNext]_udpVars => [Fifo!Next]_(Fifo!vars)
  <2> SUFFICES ASSUME ChannelInv, UdpNext \/ UNCHANGED udpVars PROVE [Fifo!Next]_(Fifo!vars)
    OBVIOUS
  <2> QED
    BY RingCalled, FifoNext DEF ChannelInv
<1>2. UdpInit => Fifo!Init
  BY FifoInit DEF UdpInit
<1> QED
  BY <1>1, <1>2, ChannelInvAlways, PTL DEF UdpSpec, ImplementsFifo, Fifo!Spec

================================================================================
