-------------------------- MODULE CommandDispatch --------------------------
(***************************************************************************)
(* command(...): client threads encode batches of motor commands into CAN  *)
(* frames, gather the frames of each driver in a batch of their own, and   *)
(* send a batch as one packet when it is full or the call ends.            *)
(*                                                                         *)
(* The channel of a driver is seen from here as its queue and its slots;   *)
(* RealtimeChannel has the rest of it.  No driver stops while a call runs: *)
(* the call holds the runtime, and only its destructor stops the drivers   *)
(* of a runtime that was published (module Runtime).                       *)
(***************************************************************************)
EXTENDS Integers, Sequences

CONSTANTS
    Client,         \* threads that call command(...)
    DriverCount,    \* motor_drivers_.size()
    Device,         \* device ids with a binding
    DriverOf,       \* device_bindings_: the driver slot of a device
    Call,           \* the batches a client may pass
    MaxFrames,      \* MAX_FRAMES_PER_PACKET
    SlotCount,      \* send_queue_slots
    MaxCalls        \* bound: how many calls each client makes

Driver == 1..DriverCount

ASSUME CountsAreNat ==
    /\ DriverCount \in Nat /\ MaxCalls \in [Client -> Nat]
    /\ MaxFrames \in Nat \ {0} /\ SlotCount \in Nat \ {0}
ASSUME DriversAreBound == DriverOf \in [Device -> Driver]

\* A command names a device, bound or not; encoding it may be refused.
ASSUME CallsAreBatches ==
    \A call \in Call : Len(call) \in Nat /\ \A i \in 1..Len(call) :
        call[i].encodable \in BOOLEAN

VARIABLES
    pc,         \* where each client is in its call
    calls,      \* how many calls it has begun
    commands,   \* the span it passed
    next,       \* the index of the command it pushes next
    batch,      \* its thread_local batches: the frames of each driver
    at,         \* the driver it sends to, in push or in the closing loop
    closing,    \* TRUE in the closing loop that flushes every batch
    failed,     \* whether it has met an error
    queue,      \* the packets each channel has yet to send
    held,       \* the slots of each channel that clients have in hand
    sending,    \* whether its transmit thread has one in hand
    accepted    \* history: every packet each channel accepted

vars == <<pc, calls, commands, next, batch, at, closing, failed, queue, held,
          sending, accepted>>
channels == <<queue, held, sending, accepted>>

NoFrames == [d \in Driver |-> <<>>]

Init ==
    /\ pc = [c \in Client |-> "idle"]
    /\ calls = [c \in Client |-> 0]
    /\ commands = [c \in Client |-> <<>>]
    /\ next = [c \in Client |-> 1]
    /\ batch = [c \in Client |-> NoFrames]
    /\ at = [c \in Client |-> 1]
    /\ closing = [c \in Client |-> FALSE]
    /\ failed = [c \in Client |-> FALSE]
    /\ queue = NoFrames /\ accepted = NoFrames
    /\ held = [d \in Driver |-> 0] /\ sending = [d \in Driver |-> FALSE]

Goto(c, where) == pc' = [pc EXCEPT ![c] = where]
Fail(c) == failed' = [failed EXCEPT ![c] = TRUE]

\* A frame is known by the client, call and command it was encoded from.
FrameOf(c, i) == [client |-> c, call |-> calls[c], index |-> i]
-----------------------------------------------------------------------------
(* send_motor_commands *)

BeginCall(c, call) ==
    /\ pc[c] = "idle"
    /\ calls[c] < MaxCalls[c]
    /\ Goto(c, "pushing")
    /\ calls' = [calls EXCEPT ![c] = @ + 1]
    /\ commands' = [commands EXCEPT ![c] = call]
    /\ batch' = [batch EXCEPT ![c] = NoFrames]
    /\ UNCHANGED <<next, at, closing, failed, channels>>

\* A full batch is sent at once.
FlushAt(frames) == Len(frames) = MaxFrames

Push(c) ==
    /\ pc[c] = "pushing"
    /\ next[c] <= Len(commands[c])
    /\ next' = [next EXCEPT ![c] = @ + 1]
    /\ LET command == commands[c][next[c]]
       IN  IF command.device \notin Device \/ ~command.encodable
           THEN Fail(c) /\ UNCHANGED <<pc, batch, at>>
           ELSE LET d == DriverOf[command.device]
                    frames == Append(batch[c][d], FrameOf(c, next[c]))
                IN  /\ batch' = [batch EXCEPT ![c][d] = frames]
                    /\ IF FlushAt(frames)
                       THEN Goto(c, "preparing") /\ at' = [at EXCEPT ![c] = d]
                       ELSE UNCHANGED <<pc, at>>
                    /\ UNCHANGED failed
    /\ UNCHANGED <<calls, commands, closing, channels>>

PushesEnd(c) ==
    /\ pc[c] = "pushing"
    /\ next[c] > Len(commands[c])
    /\ Goto(c, "flushing")
    /\ at' = [at EXCEPT ![c] = 1]
    /\ closing' = [closing EXCEPT ![c] = TRUE]
    /\ UNCHANGED <<calls, commands, next, batch, failed, channels>>

\* batch_commands::flush of the next driver in the closing loop.
Flush(c) ==
    /\ pc[c] = "flushing"
    /\ at[c] <= DriverCount
    /\ IF batch[c][at[c]] = <<>>
       THEN at' = [at EXCEPT ![c] = @ + 1] /\ UNCHANGED pc
       ELSE Goto(c, "preparing") /\ UNCHANGED at
    /\ UNCHANGED <<calls, commands, next, batch, closing, failed, channels>>

Return(c) ==
    /\ pc[c] = "flushing"
    /\ at[c] > DriverCount
    /\ Goto(c, "returned")
    /\ UNCHANGED <<calls, commands, next, batch, at, closing, failed, channels>>

\* The locals of the call are gone; its batches stay with the thread.
Leave(c) ==
    /\ pc[c] = "returned"
    /\ Goto(c, "idle")
    /\ commands' = [commands EXCEPT ![c] = <<>>]
    /\ next' = [next EXCEPT ![c] = 1]
    /\ at' = [at EXCEPT ![c] = 1]
    /\ closing' = [closing EXCEPT ![c] = FALSE]
    /\ failed' = [failed EXCEPT ![c] = FALSE]
    /\ UNCHANGED <<calls, batch, channels>>
-----------------------------------------------------------------------------
(* motor_driver::send, from batch_commands::flush *)

KeepBatch(c) == UNCHANGED batch

\* frame_count_ = 0, whether or not the send succeeded.
ResetBatch(c) == batch' = [batch EXCEPT ![c][at[c]] = <<>>]

\* Back to the loop that flushed.
Resume(c) ==
    IF closing[c]
    THEN Goto(c, "flushing") /\ at' = [at EXCEPT ![c] = @ + 1]
    ELSE Goto(c, "pushing") /\ UNCHANGED at

SlotsInUse(d) == Len(queue[d]) + held[d] + (IF sending[d] THEN 1 ELSE 0)
HasSlot(d) == SlotsInUse(d) < SlotCount

RefuseByWaiting(c) == UNCHANGED <<pc, batch, at, failed>>

\* No free slot is `busy`, and the batch is given up.
Refuse(c) == Fail(c) /\ ResetBatch(c) /\ Resume(c)

SucceedLast(c) == failed' = [failed EXCEPT ![c] = FALSE]

\* A later success leaves an earlier error in place.
Succeed(c) == UNCHANGED failed

\* prepare_send
Prepare(c) ==
    /\ pc[c] = "preparing"
    /\ IF HasSlot(at[c])
       THEN /\ held' = [held EXCEPT ![at[c]] = @ + 1]
            /\ Goto(c, "committing")
            /\ UNCHANGED <<batch, at, failed>>
       ELSE Refuse(c) /\ UNCHANGED held
    /\ UNCHANGED <<calls, commands, next, closing, queue, sending, accepted>>

\* encode_into and commit_send: a batch always fits, and a slot in hand always
\* has room in the queue (RealtimeChannel).
Commit(c) ==
    /\ pc[c] = "committing"
    /\ LET d == at[c]
       IN  /\ queue' = [queue EXCEPT ![d] = Append(@, batch[c][d])]
           /\ accepted' = [accepted EXCEPT ![d] = Append(@, batch[c][d])]
           /\ held' = [held EXCEPT ![d] = @ - 1]
    /\ ResetBatch(c)
    /\ Resume(c)
    /\ Succeed(c)
    /\ UNCHANGED <<calls, commands, next, closing, sending>>
-----------------------------------------------------------------------------
(* discard_pending_commands: driver by driver, in order. *)

BeginDiscard(c) ==
    /\ pc[c] = "idle"
    /\ calls[c] < MaxCalls[c]
    /\ Goto(c, "discarding")
    /\ calls' = [calls EXCEPT ![c] = @ + 1]
    /\ UNCHANGED <<commands, next, batch, at, closing, failed, channels>>

\* The driver's queue is popped one packet at a time until it is empty.
DiscardNext(c) ==
    /\ pc[c] = "discarding"
    /\ at[c] <= DriverCount
    /\ IF queue[at[c]] = <<>>
       THEN at' = [at EXCEPT ![c] = @ + 1] /\ UNCHANGED <<pc, queue, held>>
       ELSE /\ queue' = [queue EXCEPT ![at[c]] = Tail(@)]
            /\ held' = [held EXCEPT ![at[c]] = @ + 1]
            /\ Goto(c, "releasing")
            /\ UNCHANGED at
    /\ UNCHANGED <<calls, commands, next, batch, closing, failed, sending, accepted>>

Release(c) ==
    /\ pc[c] = "releasing"
    /\ held' = [held EXCEPT ![at[c]] = @ - 1]
    /\ Goto(c, "discarding")
    /\ UNCHANGED <<calls, commands, next, batch, at, closing, failed, queue, sending, accepted>>

DiscardEnds(c) ==
    /\ pc[c] = "discarding"
    /\ at[c] > DriverCount
    /\ Goto(c, "idle")
    /\ at' = [at EXCEPT ![c] = 1]
    /\ UNCHANGED <<calls, commands, next, batch, closing, failed, channels>>
-----------------------------------------------------------------------------
(* The transmit thread of a channel. *)

TakePacket(d) ==
    /\ ~sending[d]
    /\ queue[d] # <<>>
    /\ queue' = [queue EXCEPT ![d] = Tail(@)]
    /\ sending' = [sending EXCEPT ![d] = TRUE]
    /\ UNCHANGED <<pc, calls, commands, next, batch, at, closing, failed, held, accepted>>

\* Sent or given up, the slot is free again.
PacketDone(d) ==
    /\ sending[d]
    /\ sending' = [sending EXCEPT ![d] = FALSE]
    /\ UNCHANGED <<pc, calls, commands, next, batch, at, closing, failed, queue, held,
                   accepted>>

InCall(c) ==
    Push(c) \/ PushesEnd(c) \/ Flush(c) \/ Return(c) \/ Leave(c)
    \/ Prepare(c) \/ Commit(c) \/ DiscardNext(c) \/ Release(c) \/ DiscardEnds(c)

Next ==
    \/ \E c \in Client : \/ \E call \in Call : BeginCall(c, call)
                         \/ BeginDiscard(c)
                         \/ InCall(c)
    \/ \E d \in Driver : TakePacket(d) \/ PacketDone(d)

Spec == Init /\ [][Next]_vars

\* Clients keep running; nothing is asked of the transmit threads.
FairSpec == Spec /\ \A c \in Client : WF_vars(InCall(c))
-----------------------------------------------------------------------------
Indices(s) == 1..Len(s)

Where == {"idle", "pushing", "flushing", "preparing", "committing", "returned",
          "discarding", "releasing"}

\* The frames a channel accepted.
Sent(d) == UNION {{accepted[d][i][j] : j \in Indices(accepted[d][i])} :
                     i \in Indices(accepted[d])}

\* Of two frames of a client, the one it was given first.
GivenBefore(f, g) == f.call < g.call \/ (f.call = g.call /\ f.index < g.index)

\* The code a call returns is the truth: it is ok exactly if every command of
\* the call, and so each to the driver of its device, was accepted for sending.
ResultIsTrue ==
    \A c \in Client : pc[c] = "returned" =>
        (~failed[c] <=> \A i \in Indices(commands[c]) :
                            /\ commands[c][i].device \in Device
                            /\ FrameOf(c, i) \in Sent(DriverOf[commands[c][i].device]))

\* A packet belongs to one call: it is not empty, not too long, and whatever an
\* earlier call or another thread left unsent is never in it.
PacketsOfOneCall ==
    \A d \in Driver : \A i \in Indices(accepted[d]) :
        LET packet == accepted[d][i]
        IN  /\ Len(packet) \in 1..MaxFrames
            /\ \A j \in Indices(packet) : /\ packet[j].client = packet[1].client
                                          /\ packet[j].call = packet[1].call

\* On one channel the commands of a client are accepted in the order it gave
\* them, each at most once, even when packets between them were refused.
InCallOrder ==
    \A d \in Driver : \A i, k \in Indices(accepted[d]) :
        \A j \in Indices(accepted[d][i]), l \in Indices(accepted[d][k]) :
            LET f == accepted[d][i][j]
                g == accepted[d][k][l]
            IN  f.client = g.client /\ (i < k \/ (i = k /\ j < l)) => GivenBefore(f, g)

\* A batch is never left waiting: the call returns even if no transmit thread
\* ever takes a packet.  (A discard may take as long as others keep sending.)
CallReturns == \A c \in Client : pc[c] = "pushing" ~> pc[c] = "returned"
=============================================================================
