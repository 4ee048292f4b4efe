------------------------------ MODULE UdpChannel ------------------------------
(***************************************************************************)
(* udp_channel, the channel of one worker thread: senders fill a slot of   *)
(* the packet pool and push it to the pending ring, the worker sends what  *)
(* is pending and then receives what has come, and the owner flushes and   *)
(* stops the channel.  The pending ring is RingQueue itself, whose         *)
(* elements are slot numbers here.                                         *)
(***************************************************************************)
EXTENDS RingQueue

CONSTANTS
    Sender,         \* the threads that send
    MaxSends,       \* bound: the calls of send each of them makes
    MaxArrivals     \* bound: the datagrams that arrive

ASSUME BoundsAreNat == MaxSends \in Nat /\ MaxArrivals \in Nat
ASSUME SlotsAreNumbers == Value = 0 .. Capacity - 1

VARIABLES
    free,           \* free_slots_
    packet,         \* the bytes and packet_sizes_ of each slot
    senders,        \* the call of send each thread is in
    worker,         \* the worker thread
    owner,          \* the thread that flushes and stops
    stopped, requested, callback, open,
    waiting, arrived,   \* the datagrams in the socket; how many came
    crashed,        \* the callback was destroyed while it was called
    accepted, sent, \* history: the packets pushed, and those handed to the socket
    flushed         \* history: how many were accepted when a flush ended in time

ring == vars
pool == <<free, packet>>
flags == <<stopped, requested, callback, open>>
history == <<accepted, sent, flushed>>
inbox == <<waiting, arrived>>
udpVars == <<ring, pool, senders, worker, owner, flags, inbox, crashed, history>>

Slot == Value
Empty == [from |-> <<>>, size |-> 0]

ChannelInit ==
    /\ free = [i \in 1 .. Capacity |-> i - 1]
    /\ packet = [s \in Slot |-> Empty]
    /\ senders = [t \in Sender |-> [at |-> "idle", slot |-> Default, calls |-> 0]]
    /\ worker = [at |-> "loop", slot |-> Default]
    /\ stopped = FALSE /\ requested = FALSE /\ callback = TRUE /\ open = TRUE
    /\ waiting = 0 /\ arrived = 0 /\ crashed = FALSE
    /\ accepted = <<>> /\ sent = <<>> /\ flushed = 0

UdpInit == Init /\ ChannelInit /\ owner = "idle"
-------------------------------------------------------------------------------
(* udp_channel::send.  A packet too long for a slot is refused before any of  *)
(* this and changes nothing.                                                  *)

Sends(t, from, to, slot) ==
    /\ senders[t].at = from
    /\ senders' = [senders EXCEPT ![t].at = to, ![t].slot = slot]

Check(t) ==
    /\ senders[t].at = "idle" /\ senders[t].calls < MaxSends
    /\ senders' = [senders EXCEPT ![t].at = IF stopped THEN "idle" ELSE "acquire",
                                  ![t].calls = @ + 1]
    /\ UNCHANGED <<ring, pool, worker, owner, flags, inbox, history>>

\* acquire_slot; without a free slot the call fails.
Acquire(t) ==
    /\ \/ free # <<>> /\ Sends(t, "acquire", "fill", Head(free)) /\ free' = Tail(free)
       \/ free = <<>> /\ Sends(t, "acquire", "idle", senders[t].slot) /\ UNCHANGED free
    /\ UNCHANGED <<ring, packet, worker, owner, flags, inbox, history>>

\* The copy into the slot, and the size enqueue notes first.
Fill(t) ==
    /\ Sends(t, "fill", "push", senders[t].slot)
    /\ packet' = [packet EXCEPT ![senders[t].slot] = [from |-> <<t, senders[t].calls>>, size |-> 1]]
    /\ UNCHANGED <<ring, free, worker, owner, flags, inbox, history>>

\* enqueue; a full pending ring gives the slot back.
Enqueue(t) ==
    LET slot == senders[t].slot
    IN  /\ Sends(t, "push", "idle", slot)
        /\ TryPush(slot)
        /\ IF result'.ok
           THEN accepted' = Append(accepted, <<t, senders[t].calls>>) /\ UNCHANGED pool
           ELSE /\ packet' = [packet EXCEPT ![slot].size = 0]
                /\ free' = Append(free, slot)
                /\ UNCHANGED accepted
        /\ UNCHANGED <<worker, owner, flags, inbox, sent, flushed>>
-------------------------------------------------------------------------------
(* impl::run *)

StopUnseen == FALSE

StopSeen == requested \/ stopped

Loop ==
    /\ worker.at = "loop"
    /\ worker' = [worker EXCEPT !.at = IF StopSeen THEN "ended" ELSE "pop"]
    /\ UNCHANGED <<ring, pool, senders, owner, flags, inbox, history>>

\* send_pending leaves what is pending once a stop is requested.
PopEnds ==
    /\ worker.at = "pop" /\ requested
    /\ worker' = [worker EXCEPT !.at = "receive"]
    /\ UNCHANGED <<ring, pool, senders, owner, flags, inbox, history>>

PopReleasing ==
    /\ worker.at = "pop" /\ ~requested
    /\ TryPop
    /\ IF result'.ok THEN worker' = [at |-> "send", slot |-> result'.value]
                          /\ free' = Append(free, result'.value)
                     ELSE worker' = [worker EXCEPT !.at = "receive"] /\ UNCHANGED free
    /\ UNCHANGED <<packet, senders, owner, flags, inbox, history>>

Pop ==
    /\ worker.at = "pop" /\ ~requested
    /\ TryPop
    /\ worker' = IF result'.ok THEN [at |-> "send", slot |-> result'.value]
                               ELSE [worker EXCEPT !.at = "receive"]
    /\ UNCHANGED <<pool, senders, owner, flags, inbox, history>>

\* send_slot; an error of the socket is only logged.
SendSlot ==
    /\ worker.at = "send"
    /\ worker' = [worker EXCEPT !.at = "release"]
    /\ sent' = IF open THEN Append(sent, packet[worker.slot]) ELSE sent
    /\ UNCHANGED <<ring, pool, senders, owner, flags, inbox, accepted, flushed>>

Release ==
    /\ worker.at = "release"
    /\ worker' = [worker EXCEPT !.at = "pop"]
    /\ packet' = [packet EXCEPT ![worker.slot].size = 0]
    /\ free' = Append(free, worker.slot)
    /\ UNCHANGED <<ring, senders, owner, flags, inbox, history>>

\* receive_available: datagrams are read until none is left.
Receive ==
    /\ worker.at = "receive" /\ open /\ waiting > 0
    /\ waiting' = waiting - 1
    /\ \/ worker' = [worker EXCEPT !.at = "call"] /\ callback
       \/ UNCHANGED worker      \* no callback, or another sender's datagram
    /\ UNCHANGED <<ring, pool, senders, owner, flags, arrived, history>>

\* Nothing to read, an error, or the socket is closed; then the sleep.
ReceiveEnds ==
    /\ worker.at = "receive" /\ (waiting = 0 \/ ~open)
    /\ worker' = [worker EXCEPT !.at = "loop"]
    /\ UNCHANGED <<ring, pool, senders, owner, flags, inbox, history>>

Called ==
    /\ worker.at = "call"
    /\ worker' = [worker EXCEPT !.at = "receive"]
    /\ UNCHANGED <<ring, pool, senders, owner, flags, inbox, history>>

Arrive ==
    /\ arrived < MaxArrivals
    /\ arrived' = arrived + 1 /\ waiting' = waiting + 1
    /\ UNCHANGED <<ring, pool, senders, worker, owner, flags, history>>
-------------------------------------------------------------------------------
(* flush_pending_sends and stop *)

Flush ==
    /\ owner = "idle" /\ owner' = "flush"
    /\ UNCHANGED <<ring, pool, senders, worker, flags, inbox, history>>

\* The loop of flush_pending_sends looks at the ring, sleeps and looks again.
LookPending ==
    /\ owner = "flush"
    /\ Size
    /\ IF result'.value = 0 THEN owner' = "idle" /\ flushed' = Len(accepted)
                            ELSE UNCHANGED <<owner, flushed>>
    /\ UNCHANGED <<pool, senders, worker, flags, inbox, accepted, sent>>

Deadline ==
    /\ owner = "flush" /\ owner' = "idle"
    /\ UNCHANGED <<ring, pool, senders, worker, flags, inbox, history>>

\* A stop after the first returns at once.
Stop ==
    /\ owner = "idle" /\ ~stopped
    /\ owner' = "clear" /\ stopped' = TRUE
    /\ UNCHANGED <<ring, pool, senders, worker, requested, callback, open, inbox, history>>

RequestStop ==
    /\ owner = "request" /\ owner' = "join"
    /\ requested' = TRUE
    /\ UNCHANGED <<ring, pool, senders, worker, stopped, callback, open, inbox, history>>

JoinNot ==
    /\ owner = "join" /\ owner' = "close"
    /\ UNCHANGED <<ring, pool, senders, worker, flags, inbox, history>>

Join ==
    /\ owner = "join" /\ worker.at = "ended" /\ owner' = "close"
    /\ UNCHANGED <<ring, pool, senders, worker, flags, inbox, history>>

Close ==
    /\ owner = "close" /\ owner' = "idle"
    /\ open' = FALSE
    /\ UNCHANGED <<ring, pool, senders, worker, stopped, requested, callback, inbox, history>>

\* receive_callback = {} without a lock: what happens to a worker that is in
\* the callback, or about to call it, is undefined.
ClearCallback ==
    /\ owner = "clear" /\ owner' = "request"
    /\ callback' = FALSE
    /\ crashed' \in IF worker.at = "call" THEN BOOLEAN ELSE {FALSE}
    /\ UNCHANGED <<ring, pool, senders, worker, stopped, requested, open, inbox, history>>
-------------------------------------------------------------------------------
Send(t) == Check(t) \/ Acquire(t) \/ Fill(t) \/ Enqueue(t)

Work == Loop \/ PopEnds \/ Pop \/ SendSlot \/ Release \/ Receive \/ ReceiveEnds \/ Called

Own == Flush \/ LookPending \/ Deadline \/ Stop \/ RequestStop \/ Join \/ Close

UdpNext ==
    /\ ~crashed
    /\ \/ ((\E t \in Sender : Send(t)) \/ Work \/ Own \/ Arrive) /\ UNCHANGED crashed
       \/ ClearCallback

\* Threads run; nobody has to send, flush or stop.
ThreadsRun ==
    /\ WF_udpVars(~crashed /\ Work /\ UNCHANGED crashed)
    /\ WF_udpVars(~crashed /\ (RequestStop \/ Join \/ Close) /\ UNCHANGED crashed)
    /\ WF_udpVars(~crashed /\ ClearCallback)

UdpSpec == UdpInit /\ [][UdpNext]_udpVars /\ ThreadsRun
-------------------------------------------------------------------------------
\* The socket is handed the packets in the order their sends were accepted, each
\* whole and once, although slots are filled, sent and reused by threads that
\* share no lock over a packet.
SentInOrder ==
    /\ Len(sent) <= Len(accepted)
    /\ \A i \in 1..Len(sent) : sent[i] = [from |-> accepted[i], size |-> 1]

\* A flush that ended in time is a promise stop keeps: the worker may still
\* have the last packet in hand when the ring is empty, and stop lets it send
\* that before it closes the socket.
FlushedIsSent == stopped /\ owner = "idle" => Len(sent) >= flushed

\* stop() returns once datagrams cease to come, unless the cleared callback
\* brought the program down.
StopReturns == [](owner = "clear" => <>(crashed \/ (stopped /\ owner = "idle")))
===============================================================================
