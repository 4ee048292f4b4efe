---------------------------- MODULE RealtimeChannel ----------------------------
(***************************************************************************)
(* realtime_udp_channel of src/src/channel.cc with the packet_pool and     *)
(* udp_send_queue it is built from.  Producers prepare, fill and commit    *)
(* packet buffers; the tx thread pops committed packets, waits for the     *)
(* rate limiter and sends; discard_pending_sends() empties the queue; the  *)
(* owner of the channel starts and stops it.  Slots travel between the     *)
(* free ring, one holder and the pending ring.  The rings are sequences:   *)
(* RingQueue shows that fixed_ring_queue is one.                           *)
(*                                                                         *)
(* A step is what a thread does under one mutex, or between two accesses   *)
(* to shared state.  The contents of a packet are its identity, and its    *)
(* size is written as the identity of the packet the size belongs to, so   *)
(* that a size that goes with other contents is told apart.                *)
(***************************************************************************)
EXTENDS Integers, Sequences, FiniteSets, Functions

CONSTANTS Producer,    \* threads that hold at most one packet_buffer each
          Discarder,   \* threads that call discard_pending_sends
          Tx,          \* the tx thread
          Packet,      \* packets, each committed at most once
          NoPacket,    \* the contents of a slot never written; size 0
          SlotCount,   \* options.send_queue_slots
          RetryCount,  \* SEND_RETRY_COUNT
          RateChoices  \* whether max_bandwidth_bps may be usable, 0, or either

ASSUME SlotCountIsNat == SlotCount \in Nat
ASSUME RetryCountIsPositive == RetryCount \in Nat \ {0}
ASSUME ThreadsDistinct ==
  Producer \cap Discarder = {} /\ Tx \notin Producer \cup Discarder
ASSUME RateChoicesAreBoolean == RateChoices \subseteq BOOLEAN
ASSUME NoPacketIsNone == NoPacket \notin Packet

VARIABLES
  free, pending,   \* the rings of packet_pool
  buffer, sizes,   \* per slot: the packet's bytes and packet_sizes_
  held, pc,        \* per thread: the slot it holds and where it is
  txSize,          \* tx_loop's local size
  attempt,         \* tx_loop's local attempt
  txStop, rxStop,  \* the stop tokens of the two jthreads
  stopped,         \* impl::stopped
  rxPc, ownerPc,   \* where rx_loop and the owner's start()/stop() are
  socketOpen,
  rateUsable,      \* max_bandwidth_bps is not 0
  accepted,        \* history: packets in the order of their entry into pending
  sent             \* history: datagrams in the order of successful send_to

poolVars == <<free, pending, buffer, sizes>>
txVars   == <<txSize, attempt>>
stopVars == <<txStop, rxStop, stopped, rxPc, ownerPc, socketOpen>>
history  == <<accepted, sent>>
vars == <<poolVars, held, pc, txVars, stopVars, rateUsable, history>>

Slot   == 0 .. SlotCount - 1
NoSlot == -1
Thread == Producer \cup Discarder \cup {Tx}

Init ==
  /\ free = [i \in 1 .. SlotCount |-> i - 1]
  /\ pending = <<>>
  /\ buffer = [s \in Slot |-> NoPacket]
  /\ sizes = [s \in Slot |-> NoPacket]
  /\ held = [t \in Thread |-> NoSlot]
  /\ pc = [t \in Thread |-> IF t = Tx THEN "unstarted" ELSE "idle"]
  /\ txSize = NoPacket /\ attempt = 0
  /\ txStop = FALSE /\ rxStop = FALSE /\ stopped = FALSE
  /\ rxPc = "unstarted" /\ ownerPc = "new" /\ socketOpen = TRUE
  /\ rateUsable \in RateChoices
  /\ accepted = <<>> /\ sent = <<>>

\* Thread t goes from one place of its code to another.
Goto(t, from, to) == pc[t] = from /\ pc' = [pc EXCEPT ![t] = to]

\* try_push of a ring of SlotCount cells; a full ring refuses the slot.
TryPush(ring, s) == IF Len(ring) < SlotCount THEN Append(ring, s) ELSE ring

--------------------------------------------------------------------------------
(* release_slot, called by every thread that gives a slot back              *)

\* Broken variant: the slot is given back but the thread keeps using it.
GiveBackKept(t) ==
  /\ Goto(t, "give", IF t = Tx THEN "top" ELSE IF t \in Discarder THEN "discard" ELSE "commit")
  /\ free' = TryPush(free, held[t])
  /\ UNCHANGED <<pending, buffer, sizes, held, txVars, stopVars, rateUsable, history>>

ResetSize(t) ==
  /\ Goto(t, "reset", "give")
  /\ sizes' = [sizes EXCEPT ![held[t]] = NoPacket]
  /\ UNCHANGED <<free, pending, buffer, held, txVars, stopVars, rateUsable, history>>

GiveBack(t) ==
  /\ Goto(t, "give", IF t = Tx THEN "top" ELSE IF t \in Discarder THEN "discard" ELSE "idle")
  /\ free' = TryPush(free, held[t])
  /\ held' = [held EXCEPT ![t] = NoSlot]
  /\ UNCHANGED <<pending, buffer, sizes, txVars, stopVars, rateUsable, history>>

ReleaseSlot(t) == ResetSize(t) \/ GiveBack(t)

--------------------------------------------------------------------------------
(* A producer: prepare_send, fill the buffer, commit_send or drop it        *)

\* prepare_send reads stopped before it acquires a slot.
PrepareSend(p) ==
  /\ ~stopped
  /\ Goto(p, "idle", "acquire")
  /\ UNCHANGED <<poolVars, held, txVars, stopVars, rateUsable, history>>

\* acquire_slot: the oldest free slot, or busy when there is none.
AcquireSlot(p) ==
  \/ /\ free # <<>>
     /\ Goto(p, "acquire", "write")
     /\ held' = [held EXCEPT ![p] = Head(free)]
     /\ free' = Tail(free)
     /\ UNCHANGED <<pending, buffer, sizes, txVars, stopVars, rateUsable, history>>
  \/ /\ free = <<>>
     /\ Goto(p, "acquire", "idle")
     /\ UNCHANGED <<poolVars, held, txVars, stopVars, rateUsable, history>>

\* A packet no producer is working on and that was not committed before.
Fresh(x) ==
  /\ x \notin Range(accepted)
  /\ \A q \in Producer : held[q] # NoSlot => buffer[held[q]] # x

\* The caller fills slot_buffer(slot).  When its encoder fails it drops the
\* packet_buffer, whose destructor releases the slot.
Write(p) ==
  \/ \E x \in Packet :
       /\ Fresh(x)
       /\ Goto(p, "write", "commit")
       /\ buffer' = [buffer EXCEPT ![held[p]] = x]
       /\ UNCHANGED <<free, pending, sizes, held, txVars, stopVars, rateUsable, history>>
  \/ /\ Goto(p, "write", "reset")
     /\ UNCHANGED <<poolVars, held, txVars, stopVars, rateUsable, history>>

\* commit_send's checks.  A size over the packet cap is an invalid argument; a
\* stopped channel cancels; both leave the packet_buffer to its destructor.
CommitSend(p) ==
  \/ /\ ~stopped
     /\ Goto(p, "commit", "size")
     /\ UNCHANGED <<poolVars, held, txVars, stopVars, rateUsable, history>>
  \/ /\ Goto(p, "commit", "reset")
     /\ UNCHANGED <<poolVars, held, txVars, stopVars, rateUsable, history>>

\* Broken variant: the slot is queued before its size is recorded.
SetSizeLate(p) ==
  /\ Goto(p, "size", "push")
  /\ UNCHANGED <<poolVars, held, txVars, stopVars, rateUsable, history>>

\* packet_pool::enqueue, first the size ...
SetSize(p) ==
  /\ Goto(p, "size", "push")
  /\ sizes' = [sizes EXCEPT ![held[p]] = buffer[held[p]]]
  /\ UNCHANGED <<free, pending, buffer, held, txVars, stopVars, rateUsable, history>>

\* Broken variant: the newest packet is queued first.
PushPendingFront(p) ==
  /\ Goto(p, "push", "notify")
  /\ pending' = <<held[p]>> \o pending
  /\ accepted' = Append(accepted, buffer[held[p]])
  /\ held' = [held EXCEPT ![p] = NoSlot]
  /\ UNCHANGED <<free, buffer, sizes, txVars, stopVars, rateUsable, sent>>

\* ... then the push into pending; a full ring would release the slot again.
PushPending(p) ==
  LET full == Len(pending) = SlotCount IN
  /\ Goto(p, "push", IF full THEN "reset" ELSE "notify")
  /\ pending' = TryPush(pending, held[p])
  /\ accepted' = IF full THEN accepted ELSE Append(accepted, buffer[held[p]])
  /\ held' = [held EXCEPT ![p] = IF full THEN @ ELSE NoSlot]
  /\ UNCHANGED <<free, buffer, sizes, txVars, stopVars, rateUsable, sent>>

\* What a notification of pending_cv_ does: the tx thread, its only waiter,
\* evaluates its predicate again.  Nothing is remembered when it does not wait.
Wake(f) == [f EXCEPT ![Tx] = IF @ = "blocked" THEN "pred" ELSE @]

\* udp_send_queue::enqueue notifies without holding pending_mutex_.
NotifyOne(p) ==
  /\ pc[p] = "notify"
  /\ pc' = Wake([pc EXCEPT ![p] = "idle"])
  /\ UNCHANGED <<poolVars, held, txVars, stopVars, rateUsable, history>>

\* What a producer does once it has begun a call.
ProducerStep(p) ==
  \/ AcquireSlot(p) \/ Write(p) \/ CommitSend(p)
  \/ SetSize(p) \/ PushPending(p) \/ NotifyOne(p)
  \/ ReleaseSlot(p)

--------------------------------------------------------------------------------
(* discard_pending: pop and release until the pending ring is empty         *)

BeginDiscard(d) ==
  /\ Goto(d, "idle", "discard")
  /\ UNCHANGED <<poolVars, held, txVars, stopVars, rateUsable, history>>

DiscardPop(d) ==
  \/ /\ pending # <<>>
     /\ Goto(d, "discard", "reset")
     /\ held' = [held EXCEPT ![d] = Head(pending)]
     /\ pending' = Tail(pending)
     /\ UNCHANGED <<free, buffer, sizes, txVars, stopVars, rateUsable, history>>
  \/ /\ pending = <<>>
     /\ Goto(d, "discard", "idle")
     /\ UNCHANGED <<poolVars, held, txVars, stopVars, rateUsable, history>>

DiscarderStep(d) == DiscardPop(d) \/ ReleaseSlot(d)

--------------------------------------------------------------------------------
(* tx_loop                                                                  *)

\* A step of the tx thread that only moves its program counter.
TxMove(from, to) ==
  /\ Goto(Tx, from, to)
  /\ UNCHANGED <<poolVars, held, txVars, stopVars, rateUsable, history>>

\* The conditions of tx_loop and, directly after it, of wait_pop_pending, ...
TxTop ==
  \/ ~txStop /\ ~stopped /\ TxMove("top", "pop")
  \/ (txStop \/ stopped) /\ TxMove("top", "done")

\* ... and of wait_pop_pending after a wait; a stop ends the thread.
WaitPop ==
  \/ ~txStop /\ TxMove("wait_pop", "pop")
  \/ txStop /\ TxMove("wait_pop", "done")

PopPending ==
  \/ /\ pending # <<>>
     /\ Goto(Tx, "pop", "limit")
     /\ held' = [held EXCEPT ![Tx] = Head(pending)]
     /\ pending' = Tail(pending)
     /\ txSize' = sizes[Head(pending)]
     /\ UNCHANGED <<free, buffer, sizes, attempt, stopVars, rateUsable, history>>
  \/ pending = <<>> /\ TxMove("pop", "cv_wait")

\* condition_variable_any::wait with a stop token and a predicate: a stop that
\* was requested returns at once, ...
CvWait ==
  \/ txStop /\ TxMove("cv_wait", "wait_pop")
  \/ ~txStop /\ TxMove("cv_wait", "pred")

\* ... the predicate pending_count() != 0 is evaluated ...
CvPredicate ==
  \/ pending # <<>> /\ TxMove("pred", "wait_pop")
  \/ pending = <<>> /\ TxMove("pred", "block")

\* Broken variant: the wait does not look at the stop token again.
CvBlockUnchecked == TxMove("block", "blocked")

\* ... and the thread blocks, unless a stop was requested meanwhile.
CvBlock ==
  \/ txStop /\ TxMove("block", "wait_pop")
  \/ ~txStop /\ TxMove("block", "blocked")

\* A condition variable may wake up on its own.
SpuriousWake == TxMove("blocked", "pred")

\* token_bucket::wait: tokens are granted, or a stop cancels the wait, or a
\* bandwidth of 0 makes the limiter refuse every packet.
RateLimit ==
  \/ ~txStop /\ rateUsable /\ TxMove("limit", "check")
  \/ txStop /\ rateUsable /\ TxMove("limit", "reset")
  \/ ~rateUsable /\ TxMove("limit", "reset")

\* is_stopped() after the wait, and socket.is_open().
CheckStopped ==
  \/ /\ ~stopped /\ socketOpen
     /\ Goto(Tx, "check", "attempt")
     /\ attempt' = 0
     /\ UNCHANGED <<poolVars, held, txSize, stopVars, rateUsable, history>>
  \/ (stopped \/ ~socketOpen) /\ TxMove("check", "reset")

\* The condition of the retry loop.
CanAttempt == attempt < RetryCount /\ ~txStop /\ ~stopped

TryAttempt ==
  \/ CanAttempt /\ TxMove("attempt", "send")
  \/ ~CanAttempt /\ TxMove("attempt", "reset")

\* Broken variant: the last attempt is not told apart.
SendToUnbounded ==
  \/ /\ Goto(Tx, "send", "reset")
     /\ sent' = Append(sent, [data |-> buffer[held[Tx]], size |-> txSize])
     /\ UNCHANGED <<poolVars, held, txVars, stopVars, rateUsable, accepted>>
  \/ TxMove("send", "backoff")

\* socket.send_to: sent, a full socket buffer, or an error that ends the loop.
SendTo ==
  \/ /\ Goto(Tx, "send", "reset")
     /\ sent' = Append(sent, [data |-> buffer[held[Tx]], size |-> txSize])
     /\ UNCHANGED <<poolVars, held, txVars, stopVars, rateUsable, accepted>>
  \/ TxMove("send", IF attempt + 1 = RetryCount THEN "reset" ELSE "backoff")
  \/ TxMove("send", "reset")

\* Broken variant: the retries are not counted.
BackoffUncounted ==
  /\ Goto(Tx, "backoff", "attempt")
  /\ UNCHANGED <<poolVars, held, txVars, stopVars, rateUsable, history>>

\* The sleep of the backoff ends and the loop counts the attempt.
Backoff ==
  /\ Goto(Tx, "backoff", "attempt")
  /\ attempt' = attempt + 1
  /\ UNCHANGED <<poolVars, held, txSize, stopVars, rateUsable, history>>

TxStep ==
  \/ TxTop \/ WaitPop \/ PopPending \/ CvWait \/ CvPredicate \/ CvBlock
  \/ RateLimit \/ CheckStopped \/ TryAttempt \/ SendTo \/ Backoff
  \/ ReleaseSlot(Tx)

--------------------------------------------------------------------------------
(* rx_loop                                                                  *)

RxMove(from, to) ==
  /\ rxPc = from /\ rxPc' = to
  /\ UNCHANGED <<poolVars, held, pc, txVars, txStop, rxStop, stopped, ownerPc,
                 socketOpen, rateUsable, history>>

\* Where the loop goes next: its condition is read at the top of every round.
RxRound(from) ==
  \/ ~rxStop /\ ~stopped /\ RxMove(from, "receive")
  \/ (rxStop \/ stopped) /\ RxMove(from, "done")

RxTop == RxRound("top")

\* receive_from: a datagram of the peer, or nothing, an error or a stranger.
RxReceive == RxMove("receive", "callback") \/ RxRound("receive")

RxCallback == RxRound("callback")

RxStep == RxTop \/ RxReceive \/ RxCallback

--------------------------------------------------------------------------------
(* The owner: ensure_started, then stop                                     *)

\* A step of the owner that leaves packets and slots alone.
OwnerMove(from, to) ==
  /\ ownerPc = from /\ ownerPc' = to
  /\ UNCHANGED <<poolVars, held, txVars, rateUsable, history>>

\* ensure_started starts the threads once, and never after a stop.
Start ==
  /\ ~stopped
  /\ OwnerMove("new", "running")
  /\ rxPc = "unstarted" /\ rxPc' = "top"
  /\ Goto(Tx, "unstarted", "top")
  /\ UNCHANGED <<txStop, rxStop, stopped, socketOpen>>

\* stopped.exchange(true): the threads may not have been started.
Stop ==
  /\ \/ OwnerMove("running", "request_rx")
     \/ OwnerMove("new", "request_rx")
  /\ stopped' = TRUE
  /\ UNCHANGED <<pc, txStop, rxStop, rxPc, socketOpen>>

RequestStopRx ==
  /\ OwnerMove("request_rx", "request_tx")
  /\ rxStop' = (rxPc # "unstarted")
  /\ UNCHANGED <<pc, txStop, stopped, rxPc, socketOpen>>

\* request_stop runs the stop callback of a wait in progress, which notifies.
RequestStopTx ==
  /\ OwnerMove("request_tx", "cancel_wait")
  /\ txStop' = (pc[Tx] # "unstarted")
  /\ pc' = Wake(pc)
  /\ UNCHANGED <<rxStop, stopped, rxPc, socketOpen>>

\* limit.cancel() and send_queue.cancel_wait().
CancelWait ==
  /\ OwnerMove("cancel_wait", "join_tx")
  /\ pc' = Wake(pc)
  /\ UNCHANGED <<txStop, rxStop, stopped, rxPc, socketOpen>>

\* Broken variant: the tx thread is detached instead of joined.
JoinTxNot ==
  /\ OwnerMove("join_tx", "join_rx")
  /\ UNCHANGED <<pc, txStop, rxStop, stopped, rxPc, socketOpen>>

JoinTx ==
  /\ pc[Tx] \in {"unstarted", "done"}
  /\ OwnerMove("join_tx", "join_rx")
  /\ UNCHANGED <<pc, txStop, rxStop, stopped, rxPc, socketOpen>>

JoinRx ==
  /\ rxPc \in {"unstarted", "done"}
  /\ OwnerMove("join_rx", "close")
  /\ UNCHANGED <<pc, txStop, rxStop, stopped, rxPc, socketOpen>>

CloseSocket ==
  /\ OwnerMove("close", "stopped")
  /\ socketOpen' = FALSE
  /\ UNCHANGED <<pc, txStop, rxStop, stopped, rxPc>>

\* What stop() does after its first step.
StopStep == RequestStopRx \/ RequestStopTx \/ CancelWait \/ JoinTx \/ JoinRx \/ CloseSocket

--------------------------------------------------------------------------------
Next ==
  \/ \E p \in Producer : PrepareSend(p) \/ ProducerStep(p)
  \/ \E d \in Discarder : BeginDiscard(d) \/ DiscarderStep(d)
  \/ TxStep \/ SpuriousWake
  \/ RxStep
  \/ Start \/ Stop \/ StopStep

Spec == Init /\ [][Next]_vars

\* Threads keep running: what a call or a thread's loop can do next it does.
\* Nothing is assumed of when calls are made, nor of spurious wake-ups.  That
\* the rate limiter grants tokens in the end is shown by TokenBucket.
Fairness ==
  /\ \A p \in Producer : WF_vars(ProducerStep(p))
  /\ \A d \in Discarder : WF_vars(DiscarderStep(d))
  /\ WF_vars(TxStep) /\ WF_vars(RxStep) /\ WF_vars(StopStep)

FairSpec == Spec /\ Fairness

--------------------------------------------------------------------------------
(* Properties                                                               *)

ProducerHolds  == {"write", "commit", "size", "push", "reset", "give"}
DiscarderHolds == {"reset", "give"}
\* The places where the tx thread holds a packet that is still to be sent ...
TxUnresolved   == {"limit", "check", "attempt", "send", "backoff"}
\* ... and where it holds a slot.
TxHolds        == TxUnresolved \cup {"reset", "give"}

ProducerPc  == {"idle", "acquire", "notify"} \cup ProducerHolds
DiscarderPc == {"idle", "discard"} \cup DiscarderHolds
TxPc == {"unstarted", "top", "wait_pop", "pop", "cv_wait", "pred", "block",
         "blocked", "done"} \cup TxHolds

PcType ==
  /\ \A p \in Producer : pc[p] \in ProducerPc
  /\ \A d \in Discarder : pc[d] \in DiscarderPc
  /\ pc[Tx] \in TxPc

\* The types of the variables.
TypeOK ==
  /\ free \in Seq(Slot) /\ pending \in Seq(Slot)
  /\ buffer \in [Slot -> Packet \cup {NoPacket}]
  /\ sizes \in [Slot -> Packet \cup {NoPacket}]
  /\ held \in [Thread -> Slot \cup {NoSlot}]
  /\ pc \in [Thread -> ProducerPc \cup DiscarderPc \cup TxPc]
  /\ PcType
  /\ txSize \in Packet \cup {NoPacket}
  /\ attempt \in 0 .. RetryCount - 1
  /\ txStop \in BOOLEAN /\ rxStop \in BOOLEAN /\ stopped \in BOOLEAN
  /\ socketOpen \in BOOLEAN /\ rateUsable \in BOOLEAN
  /\ rxPc \in {"unstarted", "top", "receive", "callback", "done"}
  /\ ownerPc \in {"new", "running", "request_rx", "request_tx", "cancel_wait",
                  "join_tx", "join_rx", "close", "stopped"}
  /\ accepted \in Seq(Packet)
  /\ sent \in Seq([data : Packet \cup {NoPacket}, size : Packet \cup {NoPacket}])

\* A thread holds a slot exactly where its code has one.
HoldersKnown ==
  /\ \A p \in Producer : held[p] # NoSlot <=> pc[p] \in ProducerHolds
  /\ \A d \in Discarder : held[d] # NoSlot <=> pc[d] \in DiscarderHolds
  /\ held[Tx] # NoSlot <=> pc[Tx] \in TxHolds

\* No ring holds a slot twice, the rings share none, and no thread holds a slot
\* that is in a ring or that another thread holds.
SlotsExclusive ==
  /\ IsInjective(free) /\ IsInjective(pending)
  /\ Range(free) \cap Range(pending) = {}
  /\ \A t \in Thread : held[t] \notin Range(free) \cup Range(pending)
  /\ \A t, u \in Thread : held[t] = held[u] /\ held[t] # NoSlot => t = u

\* Every slot is in a ring or held by a thread.
SlotsAccounted ==
  \A s \in Slot : s \in Range(free) \cup Range(pending) \/ \E t \in Thread : held[t] = s

\* Each slot is in exactly one place, whatever the interleaving of prepare_send,
\* commit_send, ~packet_buffer, discard_pending_sends and tx_loop: a packet is
\* never overwritten while it is queued or sent, and no slot is ever leaked,
\* although release_slot ignores the result of its push (channel.cc:230).
SlotsConserved == HoldersKnown /\ SlotsExclusive /\ SlotsAccounted

\* What is queued is what was committed: contents that were accepted, with the
\* size recorded for them, until the tx thread has read both (channel.cc:233-247).
\* Every datagram sent has the contents and the size of one accepted packet.
PacketsIntact ==
  /\ \A s \in Range(pending) : buffer[s] \in Range(accepted) /\ sizes[s] = buffer[s]
  /\ pc[Tx] \in TxUnresolved => buffer[held[Tx]] \in Range(accepted) /\ txSize = buffer[held[Tx]]
  /\ \A d \in Range(sent) : d.data \in Range(accepted) /\ d.size = d.data

\* stop() closes the socket, and returns, only when neither thread can use it or
\* run the receive callback any more (channel.cc:640-650).
ClosedWhenIdle ==
  ownerPc \in {"close", "stopped"} =>
    pc[Tx] \in {"unstarted", "done"} /\ rxPc \in {"unstarted", "done"}

\* Packets accepted and not resolved: the one the tx thread works on, then the ring.
Unresolved ==
  (IF pc[Tx] \in TxUnresolved THEN <<buffer[held[Tx]]>> ELSE <<>>)
    \o [i \in 1 .. Len(pending) |-> buffer[pending[i]]]

Transport == INSTANCE PacketTransport WITH
  queue <- Unresolved,
  delivered <- [i \in 1 .. Len(sent) |-> sent[i].data],
  closed <- ownerPc = "stopped"

\* The channel implements PacketTransport: at most once, in the order of commit,
\* retries included, and nothing after stop() has returned.
ImplementsTransport == Transport!Spec

\* stop() returns: both threads see the request wherever it finds them, blocked
\* on the empty queue included (channel.cc:299-310, 510-517, 640-650).
StopReturns == stopped ~> ownerPc = "stopped"

\* A slot the tx thread has taken comes back to the pool: neither the limiter nor
\* the retries keep it (channel.cc:525-587).
TxSlotComesBack == held[Tx] # NoSlot ~> held[Tx] = NoSlot

\* test_udp_channel.cc:49-73 sends one packet and waits for it to arrive.  A
\* packet that was accepted leaves the queue in the end, unless the channel stops.
AcceptedIsServed ==
  ownerPc = "running" /\ pending # <<>> ~> pending = <<>> \/ stopped

================================================================================
