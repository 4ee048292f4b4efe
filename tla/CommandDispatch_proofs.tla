----------------------- MODULE CommandDispatch_proofs -----------------------
(***************************************************************************)
(* Proofs about command(...): for any number of clients, drivers and       *)
(* devices, any batches, packet sizes and slots, the result of a call is   *)
(* the truth, a packet is of one call, and the commands of a client reach  *)
(* a channel in order.                                                     *)
(*                                                                         *)
(* The invariant says where a call is when it has what in its batches      *)
(* (Cursor, Sizes), that a batch holds commands of this call in order, and *)
(* none older than what the channel has accepted from it (BatchOrdered,    *)
(* AcceptedOlder), and accounts for every command the call has passed: so  *)
(* far without an error each is sent or in a batch, and an error is a      *)
(* command that is in neither (Accounted).                                 *)
(***************************************************************************)
EXTENDS CommandDispatch, TLAPS

Frame == [client : Client, call : Nat, index : Nat \ {0}]

Types ==
    /\ pc \in [Client -> Where]
    /\ calls \in [Client -> Nat]
    /\ commands \in [Client -> Call \cup {<<>>}]
    /\ next \in [Client -> Nat \ {0}]
    /\ batch \in [Client -> [Driver -> Seq(Frame)]]
    /\ at \in [Client -> Nat \ {0}]
    /\ closing \in [Client -> BOOLEAN]
    /\ failed \in [Client -> BOOLEAN]
    /\ accepted \in [Driver -> Seq(Seq(Frame))]

\* Between two calls of command(...).
Away(c) == pc[c] \in {"idle", "discarding", "releasing"}

Cursor(c) ==
    /\ next[c] <= Len(commands[c]) + 1
    /\ pc[c] \in {"preparing", "committing"} => at[c] \in Driver /\ batch[c][at[c]] # <<>>
    /\ pc[c] = "pushing" => ~closing[c]
    /\ pc[c] \in {"flushing", "returned"} => closing[c]
    /\ closing[c] => /\ next[c] > Len(commands[c])
                     /\ \A d \in Driver : d < at[c] => batch[c][d] = <<>>
    /\ pc[c] = "returned" => at[c] > DriverCount
    /\ Away(c) => /\ next[c] = 1 /\ ~closing[c] /\ ~failed[c]
                  /\ \A d \in Driver : batch[c][d] = <<>>

\* A batch is full only while it is being sent.
Sizes(c) ==
    \A d \in Driver :
        /\ Len(batch[c][d]) <= MaxFrames
        /\ Len(batch[c][d]) = MaxFrames => pc[c] \in {"preparing", "committing"} /\ at[c] = d

BatchOrdered(c) ==
    \A d \in Driver :
        /\ \A i \in Indices(batch[c][d]) :
              /\ batch[c][d][i].client = c
              /\ batch[c][d][i].call = calls[c]
              /\ batch[c][d][i].index < next[c]
              /\ commands[c][batch[c][d][i].index].device \in Device
              /\ DriverOf[commands[c][batch[c][d][i].index].device] = d
        /\ \A i, j \in Indices(batch[c][d]) :
              i < j => batch[c][d][i].index < batch[c][d][j].index

AcceptedOlder(c) ==
    \A d \in Driver : \A f \in Sent(d) :
        f.client = c =>
            /\ f.call <= calls[c]
            /\ ~Away(c) /\ f.call = calls[c] =>
                  /\ f.index < next[c]
                  /\ \A i \in Indices(batch[c][d]) : f.index < batch[c][d][i].index

\* Command i of the call is on its way: it is sent, or in a batch.
DeviceOf(c, i) == commands[c][i].device
OnItsWay(c, i) ==
    /\ DeviceOf(c, i) \in Device
    /\ \/ FrameOf(c, i) \in Sent(DriverOf[DeviceOf(c, i)])
       \/ \E k \in Indices(batch[c][DriverOf[DeviceOf(c, i)]]) :
             batch[c][DriverOf[DeviceOf(c, i)]][k] = FrameOf(c, i)

Accounted(c) ==
    /\ ~failed[c] => \A i \in 1 .. next[c] - 1 : OnItsWay(c, i)
    /\ failed[c] => \E i \in 1 .. next[c] - 1 : ~OnItsWay(c, i)

OwnInv(c) ==
    Cursor(c) /\ Sizes(c) /\ BatchOrdered(c) /\ AcceptedOlder(c) /\ Accounted(c)

CommandInv ==
    /\ Types
    /\ \A c \in Client : OwnInv(c)
    /\ PacketsOfOneCall
    /\ InCallOrder
-----------------------------------------------------------------------------
(* What was sent, and what a step leaves alone. *)

\* The frames a channel accepted, one by one.
LEMMA SentMembers ==
    ASSUME NEW d \in Driver
    PROVE  \A f : f \in Sent(d) <=>
               \E i \in Indices(accepted[d]) : \E j \in Indices(accepted[d][i]) :
                   f = accepted[d][i][j]
BY DEF Sent

\* They are frames of clients.
LEMMA SentTyped ==
    ASSUME Types, NEW d \in Driver, NEW f \in Sent(d)
    PROVE  f \in Frame
<1>1. PICK i \in Indices(accepted[d]) : \E j \in Indices(accepted[d][i]) : f = accepted[d][i][j]
    BY SentMembers
<1>2. accepted[d] \in Seq(Seq(Frame))
    BY DEF Types
<1>3. accepted[d][i] \in Seq(Frame)
    BY <1>2 DEF Indices
<1> QED
    BY <1>1, <1>3 DEF Indices

\* A batch of commands has a length.
LEMMA CommandsTyped ==
    ASSUME Types, NEW c \in Client
    PROVE  Len(commands[c]) \in Nat
<1>1. CASE commands[c] = <<>>
    BY <1>1
<1>2. CASE commands[c] \in Call
    BY <1>2, CallsAreBatches
<1> QED
    BY <1>1, <1>2 DEF Types

\* The types of one client's variables.
LEMMA ClientTyped ==
    ASSUME Types, NEW c \in Client
    PROVE  /\ pc[c] \in Where /\ calls[c] \in Nat /\ next[c] \in Nat \ {0}
           /\ at[c] \in Nat \ {0} /\ closing[c] \in BOOLEAN /\ failed[c] \in BOOLEAN
           /\ Len(commands[c]) \in Nat
           /\ batch[c] \in [Driver -> Seq(Frame)]
           /\ \A d \in Driver : /\ batch[c][d] \in Seq(Frame) /\ Len(batch[c][d]) \in Nat
                                /\ \A i \in Indices(batch[c][d]) : batch[c][d][i] \in Frame
<1>1. batch[c] \in [Driver -> Seq(Frame)]
    BY DEF Types
<1>2. ASSUME NEW d \in Driver
      PROVE  /\ batch[c][d] \in Seq(Frame) /\ Len(batch[c][d]) \in Nat
             /\ \A i \in Indices(batch[c][d]) : batch[c][d][i] \in Frame
    BY <1>1, <1>2 DEF Indices
<1> QED
    BY <1>1, <1>2, CommandsTyped DEF Types

\* The step does nothing to client e.
Same(e) ==
    /\ pc'[e] = pc[e] /\ calls'[e] = calls[e] /\ commands'[e] = commands[e]
    /\ next'[e] = next[e] /\ batch'[e] = batch[e] /\ at'[e] = at[e]
    /\ closing'[e] = closing[e] /\ failed'[e] = failed[e]

\* What keeps a client's part of the invariant: nothing is done to it and no
\* frame of its own is accepted.
LEMMA OthersKeep ==
    ASSUME Types, NEW e \in Client, OwnInv(e), Same(e),
           \A d \in Driver : \A f \in Sent(d) : f \in Sent(d)',
           \A d \in Driver : \A f \in Sent(d)' : f.client = e => f \in Sent(d)
    PROVE  OwnInv(e)'
<1>1. Cursor(e)'
    BY DEF OwnInv, Cursor, Same, Away
<1>2. Sizes(e)'
    BY DEF OwnInv, Sizes, Same
<1>3. BatchOrdered(e)'
    BY DEF OwnInv, BatchOrdered, Same
<1>4. AcceptedOlder(e)'
    BY DEF OwnInv, AcceptedOlder, Same, Away
<1>5. ASSUME NEW i
      PROVE  OnItsWay(e, i)' <=> OnItsWay(e, i)
    <2>1. FrameOf(e, i)' = FrameOf(e, i) /\ DeviceOf(e, i)' = DeviceOf(e, i)
        BY DEF Same, FrameOf, DeviceOf
    <2>2. FrameOf(e, i).client = e
        BY DEF FrameOf
    <2>3. CASE DeviceOf(e, i) \in Device
        <3>1. DriverOf[DeviceOf(e, i)] \in Driver
            BY <2>3, DriversAreBound
        <3>2. PICK d \in Driver : d = DriverOf[DeviceOf(e, i)]
            BY <3>1
        <3>3. FrameOf(e, i) \in Sent(d)' <=> FrameOf(e, i) \in Sent(d)
            BY <2>2
        <3>4. OnItsWay(e, i) <=> \/ FrameOf(e, i) \in Sent(d)
                                \/ \E k \in Indices(batch[e][d]) : batch[e][d][k] = FrameOf(e, i)
            BY <2>3, <3>2 DEF OnItsWay
        <3>5. OnItsWay(e, i)' <=> \/ FrameOf(e, i) \in Sent(d)'
                                 \/ \E k \in Indices(batch[e][d]) : batch[e][d][k] = FrameOf(e, i)
            BY <2>1, <2>3, <3>2 DEF OnItsWay, Same
        <3> QED
            BY <3>3, <3>4, <3>5
    <2>4. CASE DeviceOf(e, i) \notin Device
        BY <2>1, <2>4 DEF OnItsWay
    <2> QED
        BY <2>3, <2>4
<1>6. Accounted(e)'
    BY <1>5 DEF OwnInv, Accounted, Same
<1> QED
    BY <1>1, <1>2, <1>3, <1>4, <1>6 DEF OwnInv

\* A step that moves a client without giving it frames, or taking any, keeps
\* what the invariant says of its frames.
LEMMA MovesKeepFrames ==
    ASSUME NEW c \in Client, OwnInv(c), Away(c)' <=> Away(c),
           calls'[c] = calls[c], commands'[c] = commands[c], next'[c] = next[c],
           batch'[c] = batch[c], failed'[c] = failed[c], accepted' = accepted
    PROVE  BatchOrdered(c)' /\ AcceptedOlder(c)' /\ Accounted(c)'
<1>1. \A d : Sent(d)' = Sent(d)
    BY DEF Sent, Indices
<1>2. BatchOrdered(c)'
    BY DEF OwnInv, BatchOrdered
<1>3. AcceptedOlder(c)'
    BY <1>1 DEF OwnInv, AcceptedOlder
<1>4. \A i : OnItsWay(c, i)' <=> OnItsWay(c, i)
    BY <1>1 DEF OnItsWay, DeviceOf, FrameOf
<1>5. Accounted(c)'
    BY <1>4 DEF OwnInv, Accounted
<1> QED
    BY <1>2, <1>3, <1>5
-----------------------------------------------------------------------------
(* Types *)

LEMMA TypesInit == ASSUME Init PROVE Types
<1>1. NoFrames \in [Driver -> Seq(Frame)] /\ NoFrames \in [Driver -> Seq(Seq(Frame))]
    BY DEF NoFrames
<1> QED
    BY <1>1 DEF Init, Types, Where

\* Where a flush goes back to.
LEMMA ResumeTyped ==
    ASSUME Types, NEW c \in Client, Resume(c)
    PROVE  pc' \in [Client -> Where] /\ at' \in [Client -> Nat \ {0}]
<1>1. \/ pc' = [pc EXCEPT ![c] = "flushing"] /\ at' = [at EXCEPT ![c] = @ + 1]
      \/ pc' = [pc EXCEPT ![c] = "pushing"] /\ at' = at
    BY DEF Resume, Goto
<1>2. "flushing" \in Where /\ "pushing" \in Where
    BY DEF Where
<1>3. pc' \in [Client -> Where]
    <2>1. ASSUME NEW w \in Where PROVE [pc EXCEPT ![c] = w] \in [Client -> Where]
        BY DEF Types
    <2> QED
        BY <1>1, <1>2, <2>1
<1>4. at' \in [Client -> Nat \ {0}]
    <2>1. at \in [Client -> Nat \ {0}]
        BY DEF Types
    <2>2. at' = at \/ at' = [at EXCEPT ![c] = @ + 1]
        BY <1>1
    <2> QED
        BY <2>1, <2>2
<1> QED
    BY <1>3, <1>4

\* An emptied batch is a batch.
LEMMA EmptiedTyped ==
    ASSUME Types, NEW c \in Client, NEW d
    PROVE  [batch EXCEPT ![c][d] = <<>>] \in [Client -> [Driver -> Seq(Frame)]]
<1>1. batch[c] \in [Driver -> Seq(Frame)]
    BY DEF Types
<1>2. <<>> \in Seq(Frame)
    OBVIOUS
<1>3. [batch[c] EXCEPT ![d] = <<>>] \in [Driver -> Seq(Frame)]
    BY <1>1, <1>2
<1> QED
    BY <1>3 DEF Types

LEMMA TypesKept ==
    ASSUME Types, [Next]_vars
    PROVE  Types'
<1> SUFFICES ASSUME Next PROVE Types'
    BY DEF Types, vars
<1> USE DEF Types
<1>1. ASSUME NEW c \in Client, NEW call \in Call, BeginCall(c, call) PROVE Types'
    <2>1. NoFrames \in [Driver -> Seq(Frame)]
        BY DEF NoFrames
    <2> QED
        BY <1>1, <2>1 DEF BeginCall, Goto, channels, Where
<1>2. ASSUME NEW c \in Client, BeginDiscard(c) PROVE Types'
    BY <1>2 DEF BeginDiscard, Goto, channels, Where
<1>3. ASSUME NEW c \in Client, Push(c) PROVE Types'
    <2>1. FrameOf(c, next[c]) \in Frame
        BY DEF FrameOf, Frame
    <2>2. /\ calls' = calls /\ commands' = commands /\ closing' = closing /\ accepted' = accepted
          /\ next' \in [Client -> Nat \ {0}]
        BY <1>3 DEF Push, channels
    <2> DEFINE command == commands[c][next[c]]
               d == DriverOf[command.device]
               frames == Append(batch[c][d], FrameOf(c, next[c]))
    <2>3. CASE command.device \notin Device \/ ~command.encodable
        <3>1. Fail(c) /\ pc' = pc /\ batch' = batch /\ at' = at
            BY <1>3, <2>3 DEF Push
        <3> QED
            BY <2>2, <3>1 DEF Fail
    <2>4. CASE ~(command.device \notin Device \/ ~command.encodable)
        <3>1. d \in Driver
            BY <2>4, DriversAreBound
        <3>2. frames \in Seq(Frame)
            BY <2>1, <3>1
        <3>3. /\ batch' = [batch EXCEPT ![c][d] = frames] /\ failed' = failed
              /\ \/ Goto(c, "preparing") /\ at' = [at EXCEPT ![c] = d]
                 \/ pc' = pc /\ at' = at
            BY <1>3, <2>4 DEF Push
        <3>4. d \in Nat \ {0}
            BY <3>1 DEF Driver
        <3>5. batch' \in [Client -> [Driver -> Seq(Frame)]]
            BY <3>1, <3>2, <3>3
        <3>6. pc' \in [Client -> Where] /\ at' \in [Client -> Nat \ {0}]
            BY <3>3, <3>4 DEF Goto, Where
        <3> QED
            BY <2>2, <3>3, <3>5, <3>6
    <2> QED
        BY <2>3, <2>4
<1>4. ASSUME NEW c \in Client, PushesEnd(c) PROVE Types'
    BY <1>4 DEF PushesEnd, Goto, channels, Where
<1>5. ASSUME NEW c \in Client, Flush(c) PROVE Types'
    <2>1. /\ at' = at \/ at' = [at EXCEPT ![c] = @ + 1]
          /\ pc' = pc \/ pc' = [pc EXCEPT ![c] = "preparing"]
          /\ calls' = calls /\ commands' = commands /\ next' = next /\ batch' = batch
          /\ closing' = closing /\ failed' = failed /\ accepted' = accepted
        BY <1>5 DEF Flush, Goto, channels
    <2>2. at' \in [Client -> Nat \ {0}]
        BY <2>1
    <2>3. pc' \in [Client -> Where]
        BY <2>1 DEF Where
    <2> QED
        BY <2>1, <2>2, <2>3
<1>6. ASSUME NEW c \in Client, Return(c) PROVE Types'
    BY <1>6 DEF Return, Goto, channels, Where
<1>7. ASSUME NEW c \in Client, Leave(c) PROVE Types'
    BY <1>7 DEF Leave, Goto, channels, Where
<1>8. ASSUME NEW c \in Client, Prepare(c) PROVE Types'
    <2>1. /\ calls' = calls /\ commands' = commands /\ next' = next
          /\ closing' = closing /\ accepted' = accepted
        BY <1>8 DEF Prepare
    <2>2. CASE HasSlot(at[c])
        <3>1. /\ pc' = [pc EXCEPT ![c] = "committing"]
              /\ batch' = batch /\ at' = at /\ failed' = failed
            BY <1>8, <2>2 DEF Prepare, Goto
        <3> QED
            BY <2>1, <3>1 DEF Where
    <2>3. CASE ~HasSlot(at[c])
        <3>1. /\ failed' = [failed EXCEPT ![c] = TRUE]
              /\ batch' = [batch EXCEPT ![c][at[c]] = <<>>]
              /\ Resume(c)
            BY <1>8, <2>3 DEF Prepare, Refuse, Fail, ResetBatch
        <3>2. pc' \in [Client -> Where] /\ at' \in [Client -> Nat \ {0}]
            BY <3>1, ResumeTyped
        <3>3. batch' \in [Client -> [Driver -> Seq(Frame)]]
            BY <3>1, EmptiedTyped
        <3> QED
            BY <2>1, <3>1, <3>2, <3>3
    <2> QED
        BY <2>2, <2>3
<1>9. ASSUME NEW c \in Client, Commit(c) PROVE Types'
    <2>1. /\ batch' = [batch EXCEPT ![c][at[c]] = <<>>] /\ failed' = failed
          /\ calls' = calls /\ commands' = commands /\ next' = next /\ closing' = closing
          /\ Resume(c)
        BY <1>9 DEF Commit, ResetBatch, Succeed
    <2>2. pc' \in [Client -> Where] /\ at' \in [Client -> Nat \ {0}]
        BY <2>1, ResumeTyped
    <2>3. batch' \in [Client -> [Driver -> Seq(Frame)]]
        BY <2>1, EmptiedTyped
    <2>4. accepted' \in [Driver -> Seq(Seq(Frame))]
        <3>1. accepted' = [accepted EXCEPT ![at[c]] = Append(@, batch[c][at[c]])]
            BY <1>9 DEF Commit
        <3>2. CASE at[c] \in Driver
            <4>1. batch[c][at[c]] \in Seq(Frame) /\ accepted[at[c]] \in Seq(Seq(Frame))
                BY <3>2
            <4>2. Append(accepted[at[c]], batch[c][at[c]]) \in Seq(Seq(Frame))
                BY <4>1
            <4> QED
                BY <3>1, <4>2
        <3>3. CASE at[c] \notin Driver
            BY <3>1, <3>3
        <3> QED
            BY <3>2, <3>3
    <2> QED
        BY <2>1, <2>2, <2>3, <2>4
<1>10. ASSUME NEW c \in Client, DiscardNext(c) PROVE Types'
    <2>1. /\ at' = at \/ at' = [at EXCEPT ![c] = @ + 1]
          /\ pc' = pc \/ pc' = [pc EXCEPT ![c] = "releasing"]
          /\ calls' = calls /\ commands' = commands /\ next' = next /\ batch' = batch
          /\ closing' = closing /\ failed' = failed /\ accepted' = accepted
        BY <1>10 DEF DiscardNext, Goto
    <2>2. at' \in [Client -> Nat \ {0}]
        BY <2>1
    <2>3. pc' \in [Client -> Where]
        BY <2>1 DEF Where
    <2> QED
        BY <2>1, <2>2, <2>3
<1>11. ASSUME NEW c \in Client, Release(c) PROVE Types'
    BY <1>11 DEF Release, Goto, Where
<1>12. ASSUME NEW c \in Client, DiscardEnds(c) PROVE Types'
    BY <1>12 DEF DiscardEnds, Goto, channels, Where
<1>13. ASSUME NEW d \in Driver, TakePacket(d) \/ PacketDone(d) PROVE Types'
    BY <1>13 DEF TakePacket, PacketDone
<1> QED
    BY <1>1, <1>2, <1>3, <1>4, <1>5, <1>6, <1>7, <1>8, <1>9, <1>10, <1>11, <1>12, <1>13
    DEF Next, InCall
-----------------------------------------------------------------------------
(* What each action does to the client that takes it, and that it does nothing *)
(* to the others. *)

OnlyMoves(c) ==
    /\ calls'[c] = calls[c] /\ commands'[c] = commands[c] /\ next'[c] = next[c]
    /\ batch'[c] = batch[c] /\ failed'[c] = failed[c]

OthersSame(c) == \A e \in Client : e # c => Same(e)

\* Actions that move a client and leave its call and batches alone.
LEMMA MoveEffects ==
    ASSUME Types, NEW c \in Client
    PROVE  /\ PushesEnd(c) =>
                /\ pc[c] = "pushing" /\ next[c] > Len(commands[c])
                /\ pc'[c] = "flushing" /\ at'[c] = 1 /\ closing'[c] = TRUE
                /\ OnlyMoves(c) /\ OthersSame(c) /\ accepted' = accepted
           /\ Flush(c) =>
                /\ pc[c] = "flushing" /\ at[c] <= DriverCount /\ closing'[c] = closing[c]
                /\ \/ batch[c][at[c]] = <<>> /\ at'[c] = at[c] + 1 /\ pc'[c] = pc[c]
                   \/ batch[c][at[c]] # <<>> /\ at'[c] = at[c] /\ pc'[c] = "preparing"
                /\ OnlyMoves(c) /\ OthersSame(c) /\ accepted' = accepted
           /\ Return(c) =>
                /\ pc[c] = "flushing" /\ at[c] > DriverCount /\ closing'[c] = closing[c]
                /\ pc'[c] = "returned" /\ at'[c] = at[c]
                /\ OnlyMoves(c) /\ OthersSame(c) /\ accepted' = accepted
<1>1. ASSUME PushesEnd(c)
      PROVE  /\ pc[c] = "pushing" /\ next[c] > Len(commands[c])
             /\ pc'[c] = "flushing" /\ at'[c] = 1 /\ closing'[c] = TRUE
             /\ OnlyMoves(c) /\ OthersSame(c) /\ accepted' = accepted
    BY <1>1 DEF PushesEnd, Types, OnlyMoves, OthersSame, Same, Goto, channels
<1>2. ASSUME Flush(c)
      PROVE  /\ pc[c] = "flushing" /\ at[c] <= DriverCount /\ closing'[c] = closing[c]
             /\ \/ batch[c][at[c]] = <<>> /\ at'[c] = at[c] + 1 /\ pc'[c] = pc[c]
                \/ batch[c][at[c]] # <<>> /\ at'[c] = at[c] /\ pc'[c] = "preparing"
             /\ OnlyMoves(c) /\ OthersSame(c) /\ accepted' = accepted
    <2>1. CASE batch[c][at[c]] = <<>>
        BY <1>2, <2>1 DEF Flush, Types, OnlyMoves, OthersSame, Same, Goto, channels
    <2>2. CASE batch[c][at[c]] # <<>>
        BY <1>2, <2>2 DEF Flush, Types, OnlyMoves, OthersSame, Same, Goto, channels
    <2> QED
        BY <2>1, <2>2
<1>3. ASSUME Return(c)
      PROVE  /\ pc[c] = "flushing" /\ at[c] > DriverCount /\ closing'[c] = closing[c]
             /\ pc'[c] = "returned" /\ at'[c] = at[c]
             /\ OnlyMoves(c) /\ OthersSame(c) /\ accepted' = accepted
    BY <1>3 DEF Return, Types, OnlyMoves, OthersSame, Same, Goto, channels
<1> QED
    BY <1>1, <1>2, <1>3

\* A discard touches none of what the invariant speaks of but where the client is.
LEMMA DiscardEffects ==
    ASSUME Types, NEW c \in Client, DiscardNext(c) \/ Release(c) \/ DiscardEnds(c)
    PROVE  /\ Away(c) /\ Away(c)' /\ closing'[c] = closing[c]
           /\ OnlyMoves(c) /\ OthersSame(c) /\ accepted' = accepted
<1>1. CASE DiscardNext(c)
    <2>1. CASE queue[at[c]] = <<>>
        BY <1>1, <2>1 DEF DiscardNext, Types, OnlyMoves, OthersSame, Same, Goto, Away
    <2>2. CASE queue[at[c]] # <<>>
        BY <1>1, <2>2 DEF DiscardNext, Types, OnlyMoves, OthersSame, Same, Goto, Away
    <2> QED
        BY <2>1, <2>2
<1>2. CASE Release(c)
    BY <1>2 DEF Release, Types, OnlyMoves, OthersSame, Same, Goto, Away
<1>3. CASE DiscardEnds(c)
    BY <1>3 DEF DiscardEnds, Types, OnlyMoves, OthersSame, Same, Goto, Away, channels
<1> QED
    BY <1>1, <1>2, <1>3

\* prepare_send takes a slot, or the batch is dropped; commit_send sends it.
Drops(c) ==
    /\ batch'[c] = [batch[c] EXCEPT ![at[c]] = <<>>]
    /\ calls'[c] = calls[c] /\ commands'[c] = commands[c] /\ next'[c] = next[c]
    /\ closing'[c] = closing[c]
    /\ \/ closing[c] /\ pc'[c] = "flushing" /\ at'[c] = at[c] + 1
       \/ ~closing[c] /\ pc'[c] = "pushing" /\ at'[c] = at[c]

LEMMA PrepareEffects ==
    ASSUME Types, NEW c \in Client, Prepare(c)
    PROVE  /\ pc[c] = "preparing" /\ OthersSame(c) /\ accepted' = accepted
           /\ \/ pc'[c] = "committing" /\ at'[c] = at[c] /\ closing'[c] = closing[c] /\ OnlyMoves(c)
              \/ Drops(c) /\ failed'[c] = TRUE
<1>1. CASE HasSlot(at[c])
    BY <1>1 DEF Prepare, Types, OnlyMoves, OthersSame, Same, Goto
<1>2. CASE ~HasSlot(at[c])
    <2>1. /\ Refuse(c) /\ pc[c] = "preparing"
          /\ calls' = calls /\ commands' = commands /\ next' = next
          /\ closing' = closing /\ accepted' = accepted
        BY <1>2 DEF Prepare
    <2>2. CASE closing[c]
        BY <2>1, <2>2 DEF Types, Drops, OthersSame, Same, Refuse, ResetBatch, Resume, Fail, Goto
    <2>3. CASE ~closing[c]
        BY <2>1, <2>3 DEF Types, Drops, OthersSame, Same, Refuse, ResetBatch, Resume, Fail, Goto
    <2> QED
        BY <2>1, <2>2, <2>3
<1> QED
    BY <1>1, <1>2

LEMMA CommitEffects ==
    ASSUME Types, NEW c \in Client, Commit(c)
    PROVE  /\ pc[c] = "committing" /\ OthersSame(c)
           /\ Drops(c) /\ failed'[c] = failed[c]
           /\ accepted' = [accepted EXCEPT ![at[c]] = Append(@, batch[c][at[c]])]
<1>1. /\ ResetBatch(c) /\ Resume(c) /\ failed' = failed /\ pc[c] = "committing"
      /\ calls' = calls /\ commands' = commands /\ next' = next /\ closing' = closing
      /\ accepted' = [accepted EXCEPT ![at[c]] = Append(@, batch[c][at[c]])]
    BY DEF Commit, Succeed
<1>2. CASE closing[c]
    BY <1>1, <1>2 DEF Types, Drops, OthersSame, Same, ResetBatch, Resume, Goto
<1>3. CASE ~closing[c]
    BY <1>1, <1>3 DEF Types, Drops, OthersSame, Same, ResetBatch, Resume, Goto
<1> QED
    BY <1>1, <1>2, <1>3

\* A command is refused for its device or its values, or its frame is put at
\* the end of its driver's batch.
PushFails(c) ==
    LET command == commands[c][next[c]]
    IN  /\ command.device \notin Device \/ ~command.encodable
        /\ failed'[c] = TRUE /\ batch'[c] = batch[c] /\ pc'[c] = pc[c] /\ at'[c] = at[c]

PushAppends(c, d) ==
    LET command == commands[c][next[c]]
        frames == Append(batch[c][d], FrameOf(c, next[c]))
    IN  /\ command.device \in Device /\ d = DriverOf[command.device]
        /\ failed'[c] = failed[c] /\ batch'[c] = [batch[c] EXCEPT ![d] = frames]
        /\ \/ Len(frames) = MaxFrames /\ pc'[c] = "preparing" /\ at'[c] = d
           \/ Len(frames) # MaxFrames /\ pc'[c] = "pushing" /\ at'[c] = at[c]

LEMMA PushEffects ==
    ASSUME Types, NEW c \in Client, Push(c)
    PROVE  /\ pc[c] = "pushing" /\ next[c] <= Len(commands[c]) /\ next'[c] = next[c] + 1
           /\ calls'[c] = calls[c] /\ commands'[c] = commands[c] /\ closing'[c] = closing[c]
           /\ OthersSame(c) /\ accepted' = accepted
           /\ PushFails(c) \/ \E d \in Driver : PushAppends(c, d)
<1> DEFINE command == commands[c][next[c]]
           d == DriverOf[command.device]
           frames == Append(batch[c][d], FrameOf(c, next[c]))
<1>1. /\ pc[c] = "pushing" /\ next[c] <= Len(commands[c])
      /\ next' = [next EXCEPT ![c] = @ + 1]
      /\ calls' = calls /\ commands' = commands /\ closing' = closing /\ accepted' = accepted
    BY DEF Push, channels
<1>2. next'[c] = next[c] + 1 /\ \A e \in Client : e # c => next'[e] = next[e]
    BY <1>1 DEF Types
<1>3. CASE command.device \notin Device \/ ~command.encodable
    <2>1. failed' = [failed EXCEPT ![c] = TRUE] /\ pc' = pc /\ batch' = batch /\ at' = at
        BY <1>3 DEF Push, Fail
    <2>2. PushFails(c) /\ OthersSame(c)
        BY <1>1, <1>2, <1>3, <2>1 DEF Types, PushFails, OthersSame, Same
    <2> QED
        BY <1>1, <1>2, <2>2
<1>4. CASE ~(command.device \notin Device \/ ~command.encodable)
    <2>1. d \in Driver
        BY <1>4, DriversAreBound
    <2>2. batch' = [batch EXCEPT ![c][d] = frames] /\ failed' = failed
        BY <1>4 DEF Push
    <2>3. \/ Len(frames) = MaxFrames /\ pc' = [pc EXCEPT ![c] = "preparing"] /\ at' = [at EXCEPT ![c] = d]
          \/ Len(frames) # MaxFrames /\ pc' = pc /\ at' = at
        BY <1>4 DEF Push, FlushAt, Goto
    <2>4. /\ batch'[c] = [batch[c] EXCEPT ![d] = frames]
          /\ \A e \in Client : e # c => batch'[e] = batch[e]
        BY <2>2 DEF Types
    <2>5. /\ \/ Len(frames) = MaxFrames /\ pc'[c] = "preparing" /\ at'[c] = d
             \/ Len(frames) # MaxFrames /\ pc'[c] = "pushing" /\ at'[c] = at[c]
          /\ \A e \in Client : e # c => pc'[e] = pc[e] /\ at'[e] = at[e]
        <3> HIDE DEF frames, d
        <3>1. CASE Len(frames) = MaxFrames
            BY <2>3, <3>1 DEF Types
        <3>2. CASE Len(frames) # MaxFrames
            BY <1>1, <2>3, <3>2
        <3> QED
            BY <3>1, <3>2
    <2>6. PushAppends(c, d)
        BY <1>4, <2>2, <2>4, <2>5 DEF PushAppends
    <2>7. OthersSame(c)
        BY <1>1, <1>2, <2>2, <2>4, <2>5 DEF OthersSame, Same
    <2> QED
        BY <1>1, <1>2, <2>1, <2>6, <2>7
<1> QED
    BY <1>3, <1>4

\* The beginning and the end of a call.
LEMMA BeginEffects ==
    ASSUME Types, NEW c \in Client, NEW call \in Call, BeginCall(c, call)
    PROVE  /\ pc[c] = "idle" /\ pc'[c] = "pushing" /\ calls'[c] = calls[c] + 1
           /\ batch'[c] = NoFrames /\ next'[c] = next[c] /\ at'[c] = at[c]
           /\ closing'[c] = closing[c] /\ failed'[c] = failed[c]
           /\ OthersSame(c) /\ accepted' = accepted
BY DEF BeginCall, Types, OthersSame, Same, Goto, channels

LEMMA BeginDiscardEffects ==
    ASSUME Types, NEW c \in Client, BeginDiscard(c)
    PROVE  /\ pc[c] = "idle" /\ pc'[c] = "discarding" /\ calls'[c] = calls[c] + 1
           /\ commands'[c] = commands[c] /\ batch'[c] = batch[c] /\ next'[c] = next[c]
           /\ at'[c] = at[c] /\ closing'[c] = closing[c] /\ failed'[c] = failed[c]
           /\ OthersSame(c) /\ accepted' = accepted
BY DEF BeginDiscard, Types, OthersSame, Same, Goto, channels

LEMMA LeaveEffects ==
    ASSUME Types, NEW c \in Client, Leave(c)
    PROVE  /\ pc[c] = "returned" /\ pc'[c] = "idle" /\ calls'[c] = calls[c]
           /\ batch'[c] = batch[c] /\ next'[c] = 1 /\ at'[c] = 1
           /\ closing'[c] = FALSE /\ failed'[c] = FALSE
           /\ OthersSame(c) /\ accepted' = accepted
BY DEF Leave, Types, OthersSame, Same, Goto, channels
-----------------------------------------------------------------------------
(* The invariant of the client that takes the step. *)

LEMMA MovesKeepOwn ==
    ASSUME Types, Types', NEW c \in Client, OwnInv(c),
           PushesEnd(c) \/ Flush(c) \/ Return(c)
    PROVE  OwnInv(c)'
<1> USE DEF Driver
<1>1. /\ pc[c] \in {"pushing", "flushing"}
      /\ pc'[c] \in {"flushing", "preparing", "returned"}
      /\ OnlyMoves(c) /\ accepted' = accepted
    BY MoveEffects
<1>2. Cursor(c)'
    <2>1. CASE PushesEnd(c)
        <3>1. /\ pc[c] = "pushing" /\ next[c] > Len(commands[c])
              /\ pc'[c] = "flushing" /\ at'[c] = 1 /\ closing'[c] = TRUE /\ OnlyMoves(c)
            BY <2>1, MoveEffects
        <3>2. \A d \in Driver : ~(d < at'[c])
            BY <3>1, CountsAreNat
        <3> QED
            BY <3>1, <3>2 DEF OwnInv, Cursor, OnlyMoves, Away
    <2>2. CASE Flush(c)
        <3>1. /\ pc[c] = "flushing" /\ at[c] <= DriverCount /\ closing'[c] = closing[c]
              /\ OnlyMoves(c)
            BY <2>2, MoveEffects
        <3>2. at[c] \in Nat \ {0} /\ DriverCount \in Nat
            BY ClientTyped, CountsAreNat
        <3>3. at[c] \in Driver
            BY <3>1, <3>2
        <3>4. CASE batch[c][at[c]] = <<>> /\ at'[c] = at[c] + 1 /\ pc'[c] = pc[c]
            <4>1. \A d \in Driver : d < at'[c] => d < at[c] \/ d = at[c]
                BY <3>2, <3>4
            <4>2. \A d \in Driver : d < at'[c] => batch[c][d] = <<>>
                BY <3>1, <3>4, <4>1 DEF OwnInv, Cursor
            <4> QED
                BY <3>1, <3>4, <4>2 DEF OwnInv, Cursor, OnlyMoves, Away
        <3>5. CASE batch[c][at[c]] # <<>> /\ at'[c] = at[c] /\ pc'[c] = "preparing"
            BY <3>1, <3>3, <3>5 DEF OwnInv, Cursor, OnlyMoves, Away
        <3> QED
            BY <2>2, <3>4, <3>5, MoveEffects
    <2>3. CASE Return(c)
        <3>1. /\ pc[c] = "flushing" /\ at[c] > DriverCount /\ closing'[c] = closing[c]
              /\ pc'[c] = "returned" /\ at'[c] = at[c] /\ OnlyMoves(c)
            BY <2>3, MoveEffects
        <3> QED
            BY <3>1 DEF OwnInv, Cursor, OnlyMoves, Away
    <2> QED
        BY <2>1, <2>2, <2>3
<1>3. Sizes(c)'
    BY <1>1 DEF OwnInv, Sizes, OnlyMoves
<1>4. Away(c)' <=> Away(c)
    BY <1>1 DEF Away
<1>5. BatchOrdered(c)' /\ AcceptedOlder(c)' /\ Accounted(c)'
    BY <1>1, <1>4, MovesKeepFrames DEF OnlyMoves
<1> QED
    BY <1>2, <1>3, <1>5 DEF OwnInv

LEMMA DiscardKeepsOwn ==
    ASSUME Types, Types', NEW c \in Client, OwnInv(c),
           DiscardNext(c) \/ Release(c) \/ DiscardEnds(c)
    PROVE  OwnInv(c)'
<1>1. /\ Away(c) /\ Away(c)' /\ closing'[c] = closing[c]
      /\ OnlyMoves(c) /\ accepted' = accepted
    BY DiscardEffects
<1>2. Cursor(c)'
    BY <1>1 DEF OwnInv, Cursor, OnlyMoves, Away
<1>3. Sizes(c)'
    BY <1>1, CountsAreNat DEF OwnInv, Sizes, OnlyMoves, Away
<1>4. BatchOrdered(c)' /\ AcceptedOlder(c)' /\ Accounted(c)'
    BY <1>1, MovesKeepFrames DEF OnlyMoves
<1> QED
    BY <1>2, <1>3, <1>4 DEF OwnInv

LEMMA BoundsKeepOwn ==
    ASSUME Types, Types', NEW c \in Client, OwnInv(c),
           (\E call \in Call : BeginCall(c, call)) \/ BeginDiscard(c) \/ Leave(c)
    PROVE  OwnInv(c)'
<1> DEFINE Empty(d) == batch'[c][d] = <<>>
<1>1. \A d : Sent(d)' = Sent(d)
    <2>1. accepted' = accepted
        BY BeginEffects, BeginDiscardEffects, LeaveEffects
    <2> QED
        BY <2>1 DEF Sent, Indices
<1>2. ASSUME NEW d \in Driver PROVE Empty(d)
    <2>1. CASE \E call \in Call : BeginCall(c, call)
        BY <2>1, BeginEffects DEF NoFrames
    <2>2. CASE BeginDiscard(c)
        BY <2>2, BeginDiscardEffects DEF OwnInv, Cursor, Away
    <2>3. CASE Leave(c)
        <3>1. closing[c] /\ at[c] > DriverCount /\ batch'[c] = batch[c]
            BY <2>3, LeaveEffects DEF OwnInv, Cursor
        <3>2. d < at[c]
            BY <3>1, ClientTyped, CountsAreNat DEF Driver
        <3> QED
            BY <3>1, <3>2 DEF OwnInv, Cursor
    <2> QED
        BY <2>1, <2>2, <2>3
<1>3. /\ next'[c] = 1 /\ ~closing'[c] /\ ~failed'[c]
      /\ pc'[c] \in {"pushing", "discarding", "idle"}
    <2>1. CASE (\E call \in Call : BeginCall(c, call)) \/ BeginDiscard(c)
        BY <2>1, BeginEffects, BeginDiscardEffects DEF OwnInv, Cursor, Away
    <2>2. CASE Leave(c)
        BY <2>2, LeaveEffects
    <2> QED
        BY <2>1, <2>2
<1>4. Len(commands[c])' \in Nat
    <2>1. commands'[c] = <<>> \/ commands'[c] \in Call
        BY DEF Types
    <2>2. Len(commands'[c]) \in Nat
        BY <2>1, CallsAreBatches
    <2> QED
        BY <2>2
<1>5. Cursor(c)'
    BY <1>2, <1>3, <1>4 DEF Cursor, Away
<1>6. Sizes(c)' /\ BatchOrdered(c)'
    BY <1>2, CountsAreNat DEF Sizes, BatchOrdered, Indices
<1>7. AcceptedOlder(c)'
    <2> SUFFICES ASSUME NEW d \in Driver, NEW f \in Sent(d), f.client = c
                 PROVE  /\ f.call <= calls'[c]
                        /\ ~Away(c)' => f.call # calls'[c]
        BY <1>1 DEF AcceptedOlder
    <2>1. f.call <= calls[c] /\ f.call \in Nat /\ calls[c] \in Nat
        BY SentTyped, ClientTyped DEF OwnInv, AcceptedOlder, Frame
    <2>2. CASE (\E call \in Call : BeginCall(c, call)) \/ BeginDiscard(c)
        <3>1. calls'[c] = calls[c] + 1
            BY <2>2, BeginEffects, BeginDiscardEffects
        <3> QED
            BY <2>1, <3>1
    <2>3. CASE Leave(c)
        BY <2>1, <2>3, LeaveEffects DEF Away
    <2> QED
        BY <2>2, <2>3
<1>8. Accounted(c)'
    BY <1>3 DEF Accounted
<1> QED
    BY <1>5, <1>6, <1>7, <1>8 DEF OwnInv

\* Back in the loop after a flush, sent or refused: one batch is empty.
LEMMA DropKeepsBatches ==
    ASSUME Types, Types', NEW c \in Client, OwnInv(c), Drops(c),
           pc[c] \in {"preparing", "committing"}
    PROVE  /\ at[c] \in Driver /\ batch[c][at[c]] # <<>>
           /\ batch'[c][at[c]] = <<>>
           /\ \A d \in Driver : d # at[c] => batch'[c][d] = batch[c][d]
           /\ ~Away(c) /\ ~Away(c)'
           /\ Cursor(c)' /\ Sizes(c)' /\ BatchOrdered(c)'
<1>1. at[c] \in Driver /\ batch[c][at[c]] # <<>>
    BY DEF OwnInv, Cursor
<1>2. /\ batch'[c][at[c]] = <<>>
      /\ \A d \in Driver : d # at[c] => batch'[c][d] = batch[c][d]
    <2>1. batch[c] \in [Driver -> Seq(Frame)]
        BY ClientTyped
    <2> QED
        BY <1>1, <2>1 DEF Drops
<1>3. ~Away(c) /\ ~Away(c)'
    BY DEF Away, Drops
<1>4. Cursor(c)'
    <2>1. CASE closing[c]
        <3>1. at'[c] = at[c] + 1 /\ pc'[c] = "flushing" /\ closing'[c]
            BY <2>1 DEF Drops
        <3>2. \A d \in Driver : d < at'[c] => d < at[c] \/ d = at[c]
            BY <1>1, <3>1 DEF Driver
        <3>3. \A d \in Driver : d < at'[c] => batch'[c][d] = <<>>
            BY <1>2, <2>1, <3>2 DEF OwnInv, Cursor
        <3> QED
            BY <2>1, <1>3, <3>1, <3>3 DEF OwnInv, Cursor, Drops
    <2>2. CASE ~closing[c]
        BY <1>3, <2>2 DEF OwnInv, Cursor, Drops
    <2> QED
        BY <2>1, <2>2
<1>5. Sizes(c)'
    <2>1. ASSUME NEW d \in Driver
          PROVE  Len(batch'[c][d]) < MaxFrames
        <3>1. CASE d = at[c]
            BY <1>2, <3>1, CountsAreNat
        <3>2. CASE d # at[c]
            <4>1. batch'[c][d] = batch[c][d] /\ Len(batch[c][d]) \in Nat
                BY <1>2, <3>2, ClientTyped
            <4>2. Len(batch[c][d]) <= MaxFrames /\ Len(batch[c][d]) # MaxFrames
                BY <3>2 DEF OwnInv, Sizes
            <4> QED
                BY <4>1, <4>2, CountsAreNat
        <3> QED
            BY <3>1, <3>2
    <2>2. ASSUME NEW d \in Driver PROVE Len(batch'[c][d]) \in Nat
        BY DEF Types
    <2> QED
        BY <2>1, <2>2, CountsAreNat DEF Sizes
<1>6. BatchOrdered(c)'
    <2> SUFFICES ASSUME NEW d \in Driver
                 PROVE  batch'[c][d] = <<>> \/ batch'[c][d] = batch[c][d]
        BY DEF OwnInv, BatchOrdered, Drops, Indices
    <2> QED
        BY <1>2
<1> QED
    BY <1>1, <1>2, <1>3, <1>4, <1>5, <1>6

LEMMA PrepareKeepsOwn ==
    ASSUME Types, Types', NEW c \in Client, OwnInv(c), Prepare(c)
    PROVE  OwnInv(c)'
<1>1. pc[c] = "preparing" /\ accepted' = accepted
    BY PrepareEffects
<1>2. \A d : Sent(d)' = Sent(d)
    BY <1>1 DEF Sent, Indices
<1>3. CASE pc'[c] = "committing" /\ at'[c] = at[c] /\ closing'[c] = closing[c] /\ OnlyMoves(c)
    <2>1. Away(c)' <=> Away(c)
        BY <1>1, <1>3 DEF Away
    <2>2. Cursor(c)'
        BY <1>1, <1>3 DEF OwnInv, Cursor, OnlyMoves, Away
    <2>3. Sizes(c)'
        BY <1>1, <1>3 DEF OwnInv, Sizes, OnlyMoves
    <2>4. BatchOrdered(c)' /\ AcceptedOlder(c)' /\ Accounted(c)'
        BY <1>1, <1>3, <2>1, MovesKeepFrames DEF OnlyMoves
    <2> QED
        BY <2>2, <2>3, <2>4 DEF OwnInv
<1>4. CASE Drops(c) /\ failed'[c] = TRUE
    <2>1. /\ at[c] \in Driver /\ batch[c][at[c]] # <<>>
          /\ batch'[c][at[c]] = <<>>
          /\ \A d \in Driver : d # at[c] => batch'[c][d] = batch[c][d]
          /\ ~Away(c) /\ ~Away(c)'
          /\ Cursor(c)' /\ Sizes(c)' /\ BatchOrdered(c)'
        BY <1>1, <1>4, DropKeepsBatches
    <2>2. calls'[c] = calls[c] /\ next'[c] = next[c] /\ commands'[c] = commands[c]
        BY <1>4 DEF Drops
    <2>3. AcceptedOlder(c)'
        <3>1. \A d \in Driver : batch'[c][d] = <<>> \/ batch'[c][d] = batch[c][d]
            BY <2>1
        <3>2. Indices(<<>>) = {}
            BY DEF Indices
        <3>3. ASSUME NEW d \in Driver, NEW f \in Sent(d), f.client = c
              PROVE  /\ f.call <= calls[c]
                     /\ f.call = calls[c] =>
                           /\ f.index < next[c]
                           /\ \A i \in Indices(batch[c][d]) : f.index < batch[c][d][i].index
            BY <2>1, <3>3 DEF OwnInv, AcceptedOlder
        <3> SUFFICES ASSUME NEW d \in Driver, NEW f \in Sent(d), f.client = c
                     PROVE  /\ f.call <= calls[c]
                            /\ f.call = calls[c] =>
                                  /\ f.index < next[c]
                                  /\ \A i \in Indices(batch'[c][d]) : f.index < batch'[c][d][i].index
            BY <1>2, <2>2 DEF AcceptedOlder, Indices
        <3>4. CASE batch'[c][d] = <<>>
            BY <3>2, <3>3, <3>4
        <3>5. CASE batch'[c][d] = batch[c][d]
            BY <3>3, <3>5
        <3> QED
            BY <3>1, <3>4, <3>5
    <2>4. Accounted(c)'
        <3>1. PICK d \in Driver : d = at[c]
            BY <2>1
        <3>2. /\ 1 \in Indices(batch[c][d]) /\ batch[c][d][1] \in Frame
              /\ batch[c][d][1].index \in Nat \ {0}
            <4>1. batch[c][d] \in Seq(Frame) /\ batch[c][d] # <<>>
                BY <2>1, <3>1, ClientTyped
            <4>2. 1 \in Indices(batch[c][d])
                BY <4>1 DEF Indices
            <4>3. batch[c][d][1] \in Frame
                BY <4>1, <4>2 DEF Indices
            <4> QED
                BY <4>2, <4>3 DEF Frame
        <3>3. PICK i \in Nat \ {0} : i = batch[c][d][1].index
            BY <3>2
        <3>4. /\ i \in 1 .. next[c] - 1
              /\ DeviceOf(c, i) \in Device /\ DriverOf[DeviceOf(c, i)] = d
            BY <3>2, <3>3, ClientTyped DEF OwnInv, BatchOrdered, DeviceOf
        <3>5. FrameOf(c, i) \notin Sent(d)
            <4>1. FrameOf(c, i).client = c /\ FrameOf(c, i).call = calls[c] /\ FrameOf(c, i).index = i
                BY DEF FrameOf
            <4>2. ASSUME FrameOf(c, i) \in Sent(d) PROVE i < i
                BY <2>1, <3>2, <3>3, <4>1, <4>2 DEF OwnInv, AcceptedOlder
            <4> QED
                BY <4>2
        <3>6. FrameOf(c, i)' = FrameOf(c, i) /\ DeviceOf(c, i)' = DeviceOf(c, i)
            BY <2>2 DEF FrameOf, DeviceOf
        <3>7. Indices(batch'[c][d]) = {}
            BY <2>1, <3>1 DEF Indices
        <3>8. ~OnItsWay(c, i)'
            BY <1>2, <3>4, <3>5, <3>6, <3>7 DEF OnItsWay, Indices
        <3> QED
            BY <1>4, <2>2, <3>4, <3>8 DEF Accounted
    <2> QED
        BY <2>1, <2>3, <2>4 DEF OwnInv
<1> QED
    BY <1>3, <1>4, PrepareEffects

\* What a channel accepted after a batch was sent to it.
LEMMA SentByCommit ==
    ASSUME Types, NEW c \in Client, at[c] \in Driver,
           accepted' = [accepted EXCEPT ![at[c]] = Append(@, batch[c][at[c]])]
    PROVE  \A d \in Driver : \A f :
              f \in Sent(d)' <=>
                  \/ f \in Sent(d)
                  \/ d = at[c] /\ \E k \in Indices(batch[c][d]) : f = batch[c][d][k]
<1> SUFFICES ASSUME NEW d \in Driver, NEW f
             PROVE  f \in Sent(d)' <=>
                        \/ f \in Sent(d)
                        \/ d = at[c] /\ \E k \in Indices(batch[c][d]) : f = batch[c][d][k]
    OBVIOUS
<1>1. f \in Sent(d) <=> \E i \in Indices(accepted[d]) : \E j \in Indices(accepted[d][i]) :
                            f = accepted[d][i][j]
    BY SentMembers
<1>2. f \in Sent(d)' <=> \E i \in Indices(accepted'[d]) : \E j \in Indices(accepted'[d][i]) :
                             f = accepted'[d][i][j]
    BY DEF Sent, Indices
<1>3. CASE d # at[c]
    <2>1. accepted'[d] = accepted[d]
        BY <1>3 DEF Types
    <2> QED
        BY <1>1, <1>2, <1>3, <2>1
<1>4. CASE d = at[c]
    <2> DEFINE old == accepted[d]
               new == batch[c][d]
               all == accepted'[d]
    <2>1. old \in Seq(Seq(Frame)) /\ new \in Seq(Frame)
        BY ClientTyped DEF Types
    <2>2. all = Append(old, new)
        BY <1>4 DEF Types
    <2> HIDE DEF old, new, all
    <2>3. /\ \A i \in Indices(old) : i \in Indices(all) /\ all[i] = old[i]
          /\ Len(old) + 1 \in Indices(all) /\ all[Len(old) + 1] = new
          /\ \A i \in Indices(all) : i \in Indices(old) \/ i = Len(old) + 1
        BY <2>1, <2>2 DEF Indices
    <2>4. (\E i \in Indices(all) : \E j \in Indices(all[i]) : f = all[i][j])
          <=> \/ \E i \in Indices(old) : \E j \in Indices(old[i]) : f = old[i][j]
              \/ \E k \in Indices(new) : f = new[k]
        BY <2>3
    <2> USE DEF old, new, all
    <2> QED
        BY <1>1, <1>2, <1>4, <2>4
<1> QED
    BY <1>3, <1>4

LEMMA CommitKeepsOwn ==
    ASSUME Types, Types', NEW c \in Client, OwnInv(c), Commit(c)
    PROVE  OwnInv(c)'
<1>1. /\ pc[c] = "committing" /\ Drops(c) /\ failed'[c] = failed[c]
      /\ accepted' = [accepted EXCEPT ![at[c]] = Append(@, batch[c][at[c]])]
    BY CommitEffects
<1>2. /\ at[c] \in Driver /\ batch[c][at[c]] # <<>>
      /\ batch'[c][at[c]] = <<>>
      /\ \A d \in Driver : d # at[c] => batch'[c][d] = batch[c][d]
      /\ ~Away(c) /\ ~Away(c)'
      /\ Cursor(c)' /\ Sizes(c)' /\ BatchOrdered(c)'
    BY <1>1, DropKeepsBatches
<1>3. calls'[c] = calls[c] /\ next'[c] = next[c] /\ commands'[c] = commands[c]
    BY <1>1 DEF Drops
<1>4. \A d \in Driver : \A f :
          f \in Sent(d)' <=>
              \/ f \in Sent(d)
              \/ d = at[c] /\ \E k \in Indices(batch[c][d]) : f = batch[c][d][k]
    BY <1>1, <1>2, SentByCommit
<1>5. Indices(<<>>) = {}
    BY DEF Indices
<1>6. AcceptedOlder(c)'
    <2> SUFFICES ASSUME NEW d \in Driver, NEW f \in Sent(d)', f.client = c
                 PROVE  /\ f.call <= calls[c]
                        /\ f.call = calls[c] =>
                              /\ f.index < next[c]
                              /\ \A i \in Indices(batch'[c][d]) : f.index < batch'[c][d][i].index
        BY <1>3 DEF AcceptedOlder, Indices
    <2>1. CASE f \in Sent(d)
        <3>1. /\ f.call <= calls[c]
              /\ f.call = calls[c] =>
                    /\ f.index < next[c]
                    /\ \A i \in Indices(batch[c][d]) : f.index < batch[c][d][i].index
            BY <1>2, <2>1 DEF OwnInv, AcceptedOlder
        <3>2. CASE d = at[c]
            BY <1>2, <1>5, <3>1, <3>2
        <3>3. CASE d # at[c]
            BY <1>2, <3>1, <3>3
        <3> QED
            BY <3>2, <3>3
    <2>2. CASE d = at[c] /\ \E k \in Indices(batch[c][d]) : f = batch[c][d][k]
        <3>1. f.call = calls[c] /\ f.index < next[c]
            BY <2>2 DEF OwnInv, BatchOrdered
        <3>2. calls[c] \in Nat
            BY ClientTyped
        <3> QED
            BY <1>2, <1>5, <2>2, <3>1, <3>2
    <2> QED
        BY <1>4, <2>1, <2>2
<1>7. ASSUME NEW i
      PROVE  OnItsWay(c, i)' <=> OnItsWay(c, i)
    <2>1. FrameOf(c, i)' = FrameOf(c, i) /\ DeviceOf(c, i)' = DeviceOf(c, i)
        BY <1>3 DEF FrameOf, DeviceOf
    <2>2. CASE DeviceOf(c, i) \notin Device
        BY <2>1, <2>2 DEF OnItsWay
    <2>3. CASE DeviceOf(c, i) \in Device
        <3>1. PICK d \in Driver : d = DriverOf[DeviceOf(c, i)]
            BY <2>3, DriversAreBound
        <3>2. OnItsWay(c, i) <=> \/ FrameOf(c, i) \in Sent(d)
                                \/ \E k \in Indices(batch[c][d]) : batch[c][d][k] = FrameOf(c, i)
            BY <2>3, <3>1 DEF OnItsWay
        <3>3. OnItsWay(c, i)' <=> \/ FrameOf(c, i) \in Sent(d)'
                                 \/ \E k \in Indices(batch'[c][d]) : batch'[c][d][k] = FrameOf(c, i)
            BY <2>1, <2>3, <3>1 DEF OnItsWay, Indices
        <3>4. CASE d = at[c]
            <4>1. Indices(batch'[c][d]) = {}
                BY <1>2, <1>5, <3>4
            <4> QED
                BY <1>4, <3>2, <3>3, <3>4, <4>1
        <3>5. CASE d # at[c]
            BY <1>2, <1>4, <3>2, <3>3, <3>5
        <3> QED
            BY <3>4, <3>5
    <2> QED
        BY <2>2, <2>3
<1>8. Accounted(c)'
    BY <1>1, <1>3, <1>7 DEF OwnInv, Accounted
<1> QED
    BY <1>2, <1>6, <1>8 DEF OwnInv

\* No command from the present one on is on its way.
LEMMA PresentIsNew ==
    ASSUME Types, NEW c \in Client, OwnInv(c), ~Away(c)
    PROVE  ~OnItsWay(c, next[c])
<1> SUFFICES ASSUME DeviceOf(c, next[c]) \in Device, OnItsWay(c, next[c])
             PROVE  FALSE
    BY DEF OnItsWay
<1>1. PICK d \in Driver : d = DriverOf[DeviceOf(c, next[c])]
    BY DriversAreBound
<1>2. /\ FrameOf(c, next[c]).client = c /\ FrameOf(c, next[c]).call = calls[c]
      /\ FrameOf(c, next[c]).index = next[c] /\ next[c] \in Nat
    BY ClientTyped DEF FrameOf
<1>3. \/ FrameOf(c, next[c]) \in Sent(d)
      \/ \E k \in Indices(batch[c][d]) : batch[c][d][k] = FrameOf(c, next[c])
    BY <1>1 DEF OnItsWay
<1>4. FrameOf(c, next[c]).index < next[c]
    BY <1>2, <1>3 DEF OwnInv, AcceptedOlder, BatchOrdered
<1> QED
    BY <1>2, <1>4

LEMMA PushKeepsOwn ==
    ASSUME Types, Types', NEW c \in Client, OwnInv(c), Push(c)
    PROVE  OwnInv(c)'
<1>1. /\ pc[c] = "pushing" /\ next[c] <= Len(commands[c]) /\ next'[c] = next[c] + 1
      /\ calls'[c] = calls[c] /\ commands'[c] = commands[c] /\ closing'[c] = closing[c]
      /\ accepted' = accepted
    BY PushEffects
<1>2. \A d : Sent(d)' = Sent(d)
    BY <1>1 DEF Sent, Indices
<1>3. /\ next[c] \in Nat \ {0} /\ Len(commands[c]) \in Nat /\ calls[c] \in Nat
      /\ ~Away(c) /\ ~closing[c]
    BY <1>1, ClientTyped DEF OwnInv, Cursor, Away
<1>4. \A i : FrameOf(c, i)' = FrameOf(c, i) /\ DeviceOf(c, i)' = DeviceOf(c, i)
    BY <1>1 DEF FrameOf, DeviceOf
<1>5. \A d \in Driver : \A f \in Sent(d) : f \in Frame
    BY SentTyped
<1>6. \A d \in Driver : \A f \in Sent(d) :
          f.client = c => /\ f.call <= calls[c]
                          /\ f.call = calls[c] =>
                                /\ f.index < next[c] /\ f.index < next[c] + 1
                                /\ \A i \in Indices(batch[c][d]) : f.index < batch[c][d][i].index
    <2> SUFFICES ASSUME NEW d \in Driver, NEW f \in Sent(d), f.client = c
                 PROVE  /\ f.call <= calls[c]
                        /\ f.call = calls[c] =>
                              /\ f.index < next[c] /\ f.index < next[c] + 1
                              /\ \A i \in Indices(batch[c][d]) : f.index < batch[c][d][i].index
        OBVIOUS
    <2>1. f.index \in Nat
        BY <1>5 DEF Frame
    <2> QED
        BY <1>3, <2>1 DEF OwnInv, AcceptedOlder
<1>7. ~OnItsWay(c, next[c])
    BY <1>3, PresentIsNew
<1>8. CASE PushFails(c)
    <2>1. failed'[c] = TRUE /\ batch'[c] = batch[c] /\ pc'[c] = pc[c] /\ at'[c] = at[c]
        BY <1>8 DEF PushFails
    <2>2. Cursor(c)'
        BY <1>1, <1>3, <2>1 DEF Cursor, Away
    <2>3. Sizes(c)'
        BY <1>1, <2>1 DEF OwnInv, Sizes
    <2>4. BatchOrdered(c)'
        <3> SUFFICES ASSUME NEW d \in Driver, NEW i \in Indices(batch[c][d])
                     PROVE  batch[c][d][i].index < next[c] + 1
            BY <1>1, <2>1 DEF OwnInv, BatchOrdered, Indices
        <3>1. batch[c][d][i].index \in Nat
            BY ClientTyped DEF Frame
        <3> QED
            BY <1>3, <3>1 DEF OwnInv, BatchOrdered
    <2>5. AcceptedOlder(c)'
        BY <1>1, <1>2, <1>6, <2>1 DEF AcceptedOlder, Indices
    <2>6. \A i : OnItsWay(c, i)' <=> OnItsWay(c, i)
        BY <1>2, <1>4, <2>1 DEF OnItsWay, Indices
    <2>7. next[c] \in 1 .. next'[c] - 1
        BY <1>1, <1>3
    <2>8. Accounted(c)'
        BY <1>7, <2>1, <2>6, <2>7 DEF Accounted
    <2> QED
        BY <2>2, <2>3, <2>4, <2>5, <2>8 DEF OwnInv
<1>9. ASSUME NEW d \in Driver, PushAppends(c, d) PROVE OwnInv(c)'
    <2> DEFINE old == batch[c][d]
               frame == FrameOf(c, next[c])
               longer == batch'[c][d]
    <2>1. /\ DeviceOf(c, next[c]) \in Device /\ d = DriverOf[DeviceOf(c, next[c])]
          /\ failed'[c] = failed[c]
          /\ batch'[c] = [batch[c] EXCEPT ![d] = Append(old, frame)]
          /\ \/ Len(Append(old, frame)) = MaxFrames /\ pc'[c] = "preparing" /\ at'[c] = d
             \/ Len(Append(old, frame)) # MaxFrames /\ pc'[c] = "pushing" /\ at'[c] = at[c]
        BY <1>9 DEF PushAppends, DeviceOf
    <2>2. /\ frame \in Frame /\ frame.client = c /\ frame.call = calls[c] /\ frame.index = next[c]
        BY <1>3 DEF FrameOf, Frame
    <2>3. old \in Seq(Frame) /\ Len(old) \in Nat
        BY ClientTyped
    <2>5. /\ longer = Append(old, frame)
          /\ \A e \in Driver : e # d => batch'[c][e] = batch[c][e]
        <3>1. batch[c] \in [Driver -> Seq(Frame)]
            BY ClientTyped
        <3> QED
            BY <2>1, <3>1
    <2>4. /\ Len(longer) = Len(old) + 1
          /\ \A i \in Indices(old) : i \in Indices(longer) /\ longer[i] = old[i]
          /\ Len(old) + 1 \in Indices(longer) /\ longer[Len(old) + 1] = frame
          /\ \A i \in Indices(longer) : i \in Indices(old) \/ i = Len(old) + 1
        <3> HIDE DEF old, frame, longer
        <3> QED
            BY <2>2, <2>3, <2>5 DEF Indices
    <2>6. /\ longer # <<>>
          /\ \/ Len(longer) = MaxFrames /\ pc'[c] = "preparing" /\ at'[c] = d
             \/ Len(longer) # MaxFrames /\ pc'[c] = "pushing" /\ at'[c] = at[c]
        <3> HIDE DEF old, frame, longer
        <3>1. Indices(<<>>) = {}
            BY DEF Indices
        <3>2. longer # <<>>
            BY <2>4, <3>1
        <3> QED
            BY <2>1, <2>5, <3>2
    <2>7. Cursor(c)'
        <3>1. pc'[c] \in {"pushing", "preparing"} /\ ~Away(c)' /\ ~closing'[c]
            BY <1>1, <1>3, <2>6 DEF Away
        <3>2. pc'[c] = "preparing" => at'[c] \in Driver /\ batch'[c][at'[c]] # <<>>
            BY <2>6
        <3>3. next'[c] <= Len(commands'[c]) + 1
            BY <1>1, <1>3
        <3> QED
            BY <3>1, <3>2, <3>3 DEF Cursor
    <2>8. Sizes(c)'
        <3> SUFFICES ASSUME NEW e \in Driver
                     PROVE  /\ Len(batch'[c][e]) <= MaxFrames
                            /\ Len(batch'[c][e]) = MaxFrames =>
                                  pc'[c] \in {"preparing", "committing"} /\ at'[c] = e
            BY DEF Sizes
        <3>1. Len(batch[c][e]) \in Nat /\ Len(batch[c][e]) <= MaxFrames /\ Len(batch[c][e]) # MaxFrames
            BY <1>1, ClientTyped DEF OwnInv, Sizes
        <3>2. CASE e = d
            <4>1. Len(longer) <= MaxFrames
                BY <2>4, <3>1, <3>2, CountsAreNat
            <4> QED
                BY <2>6, <3>2, <4>1
        <3>3. CASE e # d
            BY <2>5, <3>1, <3>3
        <3> QED
            BY <3>2, <3>3
    <2>9. \A e \in Driver : \A i \in Indices(batch'[c][e]) :
              \/ i \in Indices(batch[c][e]) /\ batch'[c][e][i] = batch[c][e][i]
              \/ e = d /\ i = Len(old) + 1 /\ batch'[c][e][i] = frame
        <3> SUFFICES ASSUME NEW e \in Driver, NEW i \in Indices(batch'[c][e])
                     PROVE  \/ i \in Indices(batch[c][e]) /\ batch'[c][e][i] = batch[c][e][i]
                            \/ e = d /\ i = Len(old) + 1 /\ batch'[c][e][i] = frame
            OBVIOUS
        <3>1. CASE e = d
            BY <2>4, <2>5, <3>1
        <3>2. CASE e # d
            BY <2>5, <3>2
        <3> QED
            BY <3>1, <3>2
    <2> HIDE DEF frame
    <2>10. BatchOrdered(c)'
        <3>1. ASSUME NEW e \in Driver, NEW i \in Indices(batch'[c][e])
              PROVE  /\ batch'[c][e][i].client = c
                     /\ batch'[c][e][i].call = calls[c]
                     /\ batch'[c][e][i].index < next[c] + 1
                     /\ commands[c][batch'[c][e][i].index].device \in Device
                     /\ DriverOf[commands[c][batch'[c][e][i].index].device] = e
            <4>1. CASE i \in Indices(batch[c][e]) /\ batch'[c][e][i] = batch[c][e][i]
                <5>1. batch[c][e][i].index \in Nat
                    BY <4>1, ClientTyped DEF Frame
                <5>2. batch[c][e][i].index < next[c]
                    BY <4>1 DEF OwnInv, BatchOrdered
                <5>3. batch[c][e][i].index < next[c] + 1
                    BY <1>3, <5>1, <5>2
                <5> QED
                    BY <4>1, <5>3 DEF OwnInv, BatchOrdered
            <4>2. CASE e = d /\ i = Len(old) + 1 /\ batch'[c][e][i] = frame
                <5>1. batch'[c][e][i].index = next[c]
                    BY <2>2, <4>2
                <5>2. DeviceOf(c, next[c]) = commands[c][batch'[c][e][i].index].device
                    BY <5>1 DEF DeviceOf
                <5>3. batch'[c][e][i].index < next[c] + 1
                    BY <1>3, <5>1
                <5> QED
                    BY <2>1, <2>2, <4>2, <5>2, <5>3
            <4> QED
                BY <2>9, <4>1, <4>2
        <3>2. ASSUME NEW e \in Driver, NEW i \in Indices(batch'[c][e]),
                     NEW j \in Indices(batch'[c][e]), i < j
              PROVE  batch'[c][e][i].index < batch'[c][e][j].index
            <4>1. CASE j \in Indices(batch[c][e]) /\ batch'[c][e][j] = batch[c][e][j]
                <5>1. i \in Indices(batch[c][e]) /\ batch'[c][e][i] = batch[c][e][i]
                    BY <2>3, <2>9, <3>2, <4>1 DEF Indices
                <5> QED
                    BY <3>2, <4>1, <5>1 DEF OwnInv, BatchOrdered
            <4>2. CASE e = d /\ j = Len(old) + 1 /\ batch'[c][e][j] = frame
                <5>1. i # Len(old) + 1
                    BY <2>3, <3>2, <4>2
                <5>2. i \in Indices(batch[c][e]) /\ batch'[c][e][i] = batch[c][e][i]
                    BY <2>9, <5>1
                <5> QED
                    BY <2>2, <4>2, <5>2 DEF OwnInv, BatchOrdered
            <4> QED
                BY <2>9, <4>1, <4>2
        <3> QED
            BY <1>1, <3>1, <3>2 DEF BatchOrdered, Indices
    <2>11. AcceptedOlder(c)'
        <3> SUFFICES ASSUME NEW e \in Driver, NEW f \in Sent(e), f.client = c
                     PROVE  /\ f.call <= calls[c]
                            /\ f.call = calls[c] =>
                                  /\ f.index < next[c] + 1
                                  /\ \A i \in Indices(batch'[c][e]) : f.index < batch'[c][e][i].index
            BY <1>1, <1>2 DEF AcceptedOlder, Indices
        <3>1. f.call = calls[c] => \A i \in Indices(batch'[c][e]) : f.index < batch'[c][e][i].index
            BY <1>6, <2>2, <2>9
        <3> QED
            BY <1>6, <3>1
    <2>12. \A i : i # next[c] => (OnItsWay(c, i)' <=> OnItsWay(c, i))
        <3> SUFFICES ASSUME NEW i, i # next[c]
                     PROVE  OnItsWay(c, i)' <=> OnItsWay(c, i)
            OBVIOUS
        <3>1. CASE DeviceOf(c, i) \notin Device
            BY <1>4, <3>1 DEF OnItsWay
        <3>2. CASE DeviceOf(c, i) \in Device
            <4>1. PICK e \in Driver : e = DriverOf[DeviceOf(c, i)]
                BY <3>2, DriversAreBound
            <4>2. FrameOf(c, i) # frame
                BY <2>2 DEF FrameOf
            <4>3. (\E k \in Indices(batch'[c][e]) : batch'[c][e][k] = FrameOf(c, i))
                  <=> \E k \in Indices(batch[c][e]) : batch[c][e][k] = FrameOf(c, i)
                <5>1. ASSUME NEW k \in Indices(batch'[c][e]), batch'[c][e][k] = FrameOf(c, i)
                      PROVE  k \in Indices(batch[c][e]) /\ batch[c][e][k] = FrameOf(c, i)
                    BY <2>9, <4>2, <5>1
                <5>2. ASSUME NEW k \in Indices(batch[c][e])
                      PROVE  k \in Indices(batch'[c][e]) /\ batch'[c][e][k] = batch[c][e][k]
                    BY <2>4, <2>5
                <5> QED
                    BY <5>1, <5>2
            <4>4. OnItsWay(c, i) <=> \/ FrameOf(c, i) \in Sent(e)
                                    \/ \E k \in Indices(batch[c][e]) : batch[c][e][k] = FrameOf(c, i)
                BY <3>2, <4>1 DEF OnItsWay
            <4>5. OnItsWay(c, i)' <=> \/ FrameOf(c, i) \in Sent(e)
                                     \/ \E k \in Indices(batch'[c][e]) : batch'[c][e][k] = FrameOf(c, i)
                BY <1>2, <1>4, <3>2, <4>1 DEF OnItsWay, Indices
            <4> QED
                BY <4>3, <4>4, <4>5
        <3> QED
            BY <3>1, <3>2
    <2>13. Accounted(c)'
        <3>1. PICK n \in Nat \ {0} : n = next[c]
            BY <1>3
        <3>2. OnItsWay(c, n)'
            <4>1. Len(old) + 1 \in Indices(batch'[c][d]) /\ batch'[c][d][Len(old) + 1] = FrameOf(c, n)
                BY <2>4, <2>5, <3>1 DEF frame
            <4>2. FrameOf(c, n)' = FrameOf(c, n) /\ DeviceOf(c, n)' = DeviceOf(c, n)
                BY <1>4
            <4>3. \E k \in Indices(batch'[c][d]) : batch'[c][d][k] = FrameOf(c, n)'
                BY <4>1, <4>2
            <4>4. DeviceOf(c, n)' \in Device /\ DriverOf[DeviceOf(c, n)'] = d
                BY <2>1, <3>1, <4>2
            <4> QED
                BY <4>3, <4>4 DEF OnItsWay, Indices
        <3>3. \A i \in 1 .. next'[c] - 1 : i \in 1 .. next[c] - 1 \/ i = n
            BY <1>1, <3>1
        <3>4. \A i \in 1 .. next[c] - 1 : i \in 1 .. next'[c] - 1 /\ i # next[c]
            BY <1>1, <3>1
        <3>5. CASE ~failed[c]
            <4>1. ASSUME NEW i \in 1 .. next'[c] - 1 PROVE OnItsWay(c, i)'
                <5>1. CASE i = n
                    BY <3>2, <5>1
                <5>2. CASE i \in 1 .. next[c] - 1
                    BY <2>12, <3>4, <3>5, <5>2 DEF OwnInv, Accounted
                <5> QED
                    BY <3>3, <5>1, <5>2
            <4> QED
                BY <2>1, <3>5, <4>1 DEF Accounted
        <3>6. CASE failed[c]
            <4>1. PICK i \in 1 .. next[c] - 1 : ~OnItsWay(c, i)
                BY <3>6 DEF OwnInv, Accounted
            <4> QED
                BY <2>1, <2>12, <3>4, <3>6, <4>1 DEF Accounted
        <3> QED
            BY <3>5, <3>6
    <2> QED
        BY <2>7, <2>8, <2>10, <2>11, <2>13 DEF OwnInv
<1> QED
    BY <1>8, <1>9, PushEffects
-----------------------------------------------------------------------------
(* What the channels accepted. *)

\* A batch that is sent is one packet of one call, after all that the channel
\* accepted from its client.
LEMMA CommitKeepsPackets ==
    ASSUME CommandInv, NEW c \in Client, Commit(c)
    PROVE  PacketsOfOneCall' /\ InCallOrder'
<1>1. PICK m \in Driver : m = at[c]
    <2>1. pc[c] = "committing"
        BY DEF Commit
    <2> QED
        BY <2>1 DEF CommandInv, OwnInv, Cursor
<1> DEFINE old == accepted[m]
           new == batch[c][m]
           all == accepted'[m]
<1>2. /\ OwnInv(c) /\ Types /\ pc[c] = "committing" /\ ~Away(c) /\ new # <<>>
      /\ accepted' = [accepted EXCEPT ![m] = Append(old, new)]
    BY <1>1, CommitEffects DEF CommandInv, OwnInv, Cursor, Away
<1>3. old \in Seq(Seq(Frame)) /\ new \in Seq(Frame) /\ Len(new) \in Nat /\ calls[c] \in Nat
    BY <1>2, ClientTyped DEF Types
<1>4. all = Append(old, new) /\ \A d \in Driver : d # m => accepted'[d] = accepted[d]
    BY <1>2 DEF Types
<1>5. /\ \A i \in Indices(old) : i \in Indices(all) /\ all[i] = old[i]
      /\ Len(old) + 1 \in Indices(all) /\ all[Len(old) + 1] = new
      /\ \A i \in Indices(all) : i \in Indices(old) \/ i = Len(old) + 1
      /\ Len(old) \in Nat
    <2> HIDE DEF old, new, all
    <2> QED
        BY <1>3, <1>4 DEF Indices
<1>6. /\ \A j \in Indices(new) : new[j].client = c /\ new[j].call = calls[c]
      /\ \A j, l \in Indices(new) : j < l => new[j].index < new[l].index
    BY <1>2 DEF OwnInv, BatchOrdered
<1>7. PacketsOfOneCall'
    <2> SUFFICES ASSUME NEW d \in Driver, NEW i \in Indices(accepted'[d])
                 PROVE  /\ Len(accepted'[d][i]) \in 1 .. MaxFrames
                        /\ \A j \in Indices(accepted'[d][i]) :
                              /\ accepted'[d][i][j].client = accepted'[d][i][1].client
                              /\ accepted'[d][i][j].call = accepted'[d][i][1].call
        BY DEF PacketsOfOneCall, Indices
    <2>1. CASE i \in Indices(accepted[d]) /\ accepted'[d][i] = accepted[d][i]
        BY <2>1 DEF CommandInv, PacketsOfOneCall
    <2>2. CASE d = m /\ accepted'[d][i] = new
        <3>1. Len(new) <= MaxFrames
            BY <1>2 DEF OwnInv, Sizes
        <3>2. Len(new) # 0
            BY <1>2, <1>3
        <3>3. 1 \in Indices(new) /\ Len(new) \in 1 .. MaxFrames
            BY <1>3, <3>1, <3>2, CountsAreNat DEF Indices
        <3> QED
            BY <1>6, <2>2, <3>3
    <2>3. CASE d # m
        BY <1>4, <2>1, <2>3
    <2> QED
        BY <1>5, <2>1, <2>2, <2>3
<1>8. InCallOrder'
    <2> DEFINE Ordered(f, g) == f.client = g.client => GivenBefore(f, g)
    <2> SUFFICES ASSUME NEW d \in Driver,
                        NEW i \in Indices(accepted'[d]), NEW k \in Indices(accepted'[d]),
                        NEW j \in Indices(accepted'[d][i]), NEW l \in Indices(accepted'[d][k]),
                        i < k \/ (i = k /\ j < l)
                 PROVE  Ordered(accepted'[d][i][j], accepted'[d][k][l])
        <3>1. InCallOrder' =
                  \A d \in Driver : \A i, k \in Indices(accepted'[d]) :
                      \A j \in Indices(accepted'[d][i]), l \in Indices(accepted'[d][k]) :
                          i < k \/ (i = k /\ j < l) =>
                              Ordered(accepted'[d][i][j], accepted'[d][k][l])
            BY DEF InCallOrder, Indices, GivenBefore
        <3> HIDE DEF Ordered
        <3> QED
            BY <3>1
    <2>1. ASSUME i \in Indices(accepted[d]), accepted'[d][i] = accepted[d][i],
                 k \in Indices(accepted[d]), accepted'[d][k] = accepted[d][k]
          PROVE  Ordered(accepted'[d][i][j], accepted'[d][k][l])
        BY <2>1 DEF CommandInv, InCallOrder
    <2>2. CASE d # m
        BY <1>4, <2>1, <2>2
    <2>3. CASE d = m
        <3>1. CASE i \in Indices(old) /\ k \in Indices(old)
            BY <1>5, <2>1, <2>3, <3>1
        <3>2. CASE i \in Indices(old) /\ k = Len(old) + 1
            <4>1. PICK f : f = old[i][j]
                OBVIOUS
            <4>2. PICK g : g = new[l]
                OBVIOUS
            <4>3. f = accepted'[d][i][j] /\ g = accepted'[d][k][l] /\ l \in Indices(new)
                BY <1>5, <2>3, <3>2, <4>1, <4>2
            <4>4. f \in Sent(m)
                BY <1>5, <2>3, <3>2, <4>1, SentMembers
            <4>5. g.client = c /\ g.call = calls[c]
                BY <1>6, <4>2, <4>3
            <4>6. f.client = c => /\ f.call <= calls[c]
                                  /\ f.call = calls[c] => f.index < g.index
                BY <1>2, <4>2, <4>3, <4>4 DEF OwnInv, AcceptedOlder
            <4>7. f.call \in Nat
                BY <1>2, <4>4, SentTyped DEF Frame
            <4>8. Ordered(f, g)
                BY <1>3, <4>5, <4>6, <4>7 DEF GivenBefore
            <4> QED
                BY <4>3, <4>8
        <3>3. CASE i = Len(old) + 1 /\ k = Len(old) + 1
            <4>1. accepted'[d][i] = new /\ accepted'[d][k] = new /\ j < l
                BY <1>5, <2>3, <3>3
            <4>2. /\ new[j].call = calls[c] /\ new[l].call = calls[c]
                  /\ new[j].index < new[l].index
                BY <1>6, <4>1
            <4> QED
                BY <4>1, <4>2 DEF GivenBefore
        <3>4. ~(i = Len(old) + 1 /\ k \in Indices(old))
            BY <1>5 DEF Indices
        <3> QED
            BY <1>5, <2>3, <3>1, <3>2, <3>3, <3>4
    <2> QED
        BY <2>2, <2>3
<1> QED
    BY <1>7, <1>8
-----------------------------------------------------------------------------
(* The invariant *)

LEMMA InvInit == ASSUME Init PROVE CommandInv
<1>1. Types
    BY TypesInit
<1>2. \A d \in Driver : accepted[d] = <<>>
    BY DEF Init, NoFrames
<1>3. \A d \in Driver : Indices(accepted[d]) = {}
    BY <1>2 DEF Indices
<1>4. \A d \in Driver : Sent(d) = {}
    BY <1>3, SentMembers
<1>5. PacketsOfOneCall /\ InCallOrder
    BY <1>3 DEF PacketsOfOneCall, InCallOrder
<1>6. ASSUME NEW c \in Client PROVE OwnInv(c)
    <2>1. /\ pc[c] = "idle" /\ commands[c] = <<>> /\ next[c] = 1 /\ at[c] = 1
          /\ closing[c] = FALSE /\ failed[c] = FALSE
          /\ \A d \in Driver : batch[c][d] = <<>>
        BY DEF Init, NoFrames
    <2>2. \A d \in Driver : Indices(batch[c][d]) = {}
        BY <2>1 DEF Indices
    <2>3. Cursor(c)
        BY <2>1 DEF Cursor, Away
    <2>4. Sizes(c)
        BY <2>1, CountsAreNat DEF Sizes
    <2>5. BatchOrdered(c)
        BY <2>2 DEF BatchOrdered
    <2>6. AcceptedOlder(c)
        BY <1>4 DEF AcceptedOlder
    <2>7. Accounted(c)
        BY <2>1 DEF Accounted
    <2> QED
        BY <2>3, <2>4, <2>5, <2>6, <2>7 DEF OwnInv
<1> QED
    BY <1>1, <1>5, <1>6 DEF CommandInv

\* A step in which no channel accepts anything.
LEMMA SamePackets ==
    ASSUME accepted' = accepted, PacketsOfOneCall, InCallOrder
    PROVE  PacketsOfOneCall' /\ InCallOrder'
<1>1. PacketsOfOneCall'
    BY DEF PacketsOfOneCall, Indices
<1>2. InCallOrder'
    BY DEF InCallOrder
<1> QED
    BY <1>1, <1>2

\* Such a step, of one client.
LEMMA ClientStepKeeps ==
    ASSUME CommandInv, Types', NEW c \in Client, OwnInv(c)', OthersSame(c),
           accepted' = accepted
    PROVE  CommandInv'
<1>1. \A d : Sent(d)' = Sent(d)
    BY DEF Sent, Indices
<1>2. PacketsOfOneCall' /\ InCallOrder'
    BY SamePackets DEF CommandInv
<1>3. ASSUME NEW e \in Client, e # c PROVE OwnInv(e)'
    <2>1. Types /\ OwnInv(e) /\ Same(e)
        BY <1>3 DEF CommandInv, OthersSame
    <2> QED
        BY <1>1, <2>1, OthersKeep
<1> QED
    BY <1>2, <1>3 DEF CommandInv

LEMMA CommitKeeps ==
    ASSUME CommandInv, Types', NEW c \in Client, Commit(c)
    PROVE  CommandInv'
<1>1. Types /\ OwnInv(c) /\ OthersSame(c) /\ at[c] \in Driver
      /\ accepted' = [accepted EXCEPT ![at[c]] = Append(@, batch[c][at[c]])]
    BY CommitEffects DEF CommandInv, OwnInv, Cursor
<1>2. OwnInv(c)'
    BY <1>1, CommitKeepsOwn
<1>3. \A d \in Driver : \A f :
          f \in Sent(d)' <=>
              \/ f \in Sent(d)
              \/ d = at[c] /\ \E k \in Indices(batch[c][d]) : f = batch[c][d][k]
    BY <1>1, SentByCommit
<1>4. ASSUME NEW e \in Client, e # c PROVE OwnInv(e)'
    <2>1. OwnInv(e) /\ Same(e)
        BY <1>1, <1>4 DEF CommandInv, OthersSame
    <2>2. \A d \in Driver : \A f \in Sent(d) : f \in Sent(d)'
        BY <1>3
    <2>3. \A d \in Driver : \A f \in Sent(d)' : f.client = e => f \in Sent(d)
        BY <1>1, <1>3, <1>4 DEF OwnInv, BatchOrdered
    <2> QED
        BY <1>1, <2>1, <2>2, <2>3, OthersKeep
<1> QED
    BY <1>2, <1>4, CommitKeepsPackets DEF CommandInv

\* A step of a transmit thread, or none.
LEMMA ChannelStepKeeps ==
    ASSUME CommandInv, Types', \A e \in Client : Same(e), accepted' = accepted
    PROVE  CommandInv'
<1>1. \A d : Sent(d)' = Sent(d)
    BY DEF Sent, Indices
<1>2. PacketsOfOneCall' /\ InCallOrder'
    BY SamePackets DEF CommandInv
<1>3. ASSUME NEW e \in Client PROVE OwnInv(e)'
    <2>1. Types /\ OwnInv(e) /\ Same(e)
        BY DEF CommandInv
    <2> QED
        BY <1>1, <2>1, OthersKeep
<1> QED
    BY <1>2, <1>3 DEF CommandInv

LEMMA InvKept ==
    ASSUME CommandInv, [Next]_vars
    PROVE  CommandInv'
<1>1. Types /\ Types'
    BY TypesKept DEF CommandInv
<1>2. ASSUME NEW c \in Client,
             (\E call \in Call : BeginCall(c, call)) \/ BeginDiscard(c) \/ Leave(c)
      PROVE  CommandInv'
    <2>1. OwnInv(c)'
        BY <1>1, <1>2, BoundsKeepOwn DEF CommandInv
    <2>2. OthersSame(c) /\ accepted' = accepted
        BY <1>1, <1>2, BeginEffects, BeginDiscardEffects, LeaveEffects
    <2> QED
        BY <1>1, <2>1, <2>2, ClientStepKeeps
<1>3. ASSUME NEW c \in Client, Push(c) PROVE CommandInv'
    <2>1. OwnInv(c)'
        BY <1>1, <1>3, PushKeepsOwn DEF CommandInv
    <2>2. OthersSame(c) /\ accepted' = accepted
        BY <1>1, <1>3, PushEffects
    <2> QED
        BY <1>1, <2>1, <2>2, ClientStepKeeps
<1>4. ASSUME NEW c \in Client, PushesEnd(c) \/ Flush(c) \/ Return(c) PROVE CommandInv'
    <2>1. OwnInv(c)'
        BY <1>1, <1>4, MovesKeepOwn DEF CommandInv
    <2>2. OthersSame(c) /\ accepted' = accepted
        BY <1>1, <1>4, MoveEffects
    <2> QED
        BY <1>1, <2>1, <2>2, ClientStepKeeps
<1>5. ASSUME NEW c \in Client, Prepare(c) PROVE CommandInv'
    <2>1. OwnInv(c)'
        BY <1>1, <1>5, PrepareKeepsOwn DEF CommandInv
    <2>2. OthersSame(c) /\ accepted' = accepted
        BY <1>1, <1>5, PrepareEffects
    <2> QED
        BY <1>1, <2>1, <2>2, ClientStepKeeps
<1>6. ASSUME NEW c \in Client, Commit(c) PROVE CommandInv'
    BY <1>1, <1>6, CommitKeeps
<1>7. ASSUME NEW c \in Client, DiscardNext(c) \/ Release(c) \/ DiscardEnds(c) PROVE CommandInv'
    <2>1. OwnInv(c)'
        BY <1>1, <1>7, DiscardKeepsOwn DEF CommandInv
    <2>2. OthersSame(c) /\ accepted' = accepted
        BY <1>1, <1>7, DiscardEffects
    <2> QED
        BY <1>1, <2>1, <2>2, ClientStepKeeps
<1>8. ASSUME NEW d \in Driver, TakePacket(d) \/ PacketDone(d) PROVE CommandInv'
    <2>1. (\A e \in Client : Same(e)) /\ accepted' = accepted
        BY <1>8 DEF TakePacket, PacketDone, Same
    <2> QED
        BY <1>1, <2>1, ChannelStepKeeps
<1>9. CASE UNCHANGED vars
    <2>1. (\A e \in Client : Same(e)) /\ accepted' = accepted
        BY <1>9 DEF vars, Same
    <2> QED
        BY <1>1, <2>1, ChannelStepKeeps
<1> QED
    BY <1>2, <1>3, <1>4, <1>5, <1>6, <1>7, <1>8, <1>9 DEF Next, InCall

\* For every number of clients, drivers and slots and any batches, the invariant
\* of command(...) holds.
THEOREM InvCorrect == Spec => []CommandInv
<1>1. Init => CommandInv
    BY InvInit
<1>2. CommandInv /\ [Next]_vars => CommandInv'
    BY InvKept
<1> QED
    BY <1>1, <1>2, PTL DEF Spec

\* The code that send_motor_commands returns is the truth: success exactly when
\* every command of the call was accepted by the channel of its device.
THEOREM ResultCorrect == Spec => []ResultIsTrue
<1>1. CommandInv => ResultIsTrue
    <2> SUFFICES ASSUME CommandInv, NEW c \in Client, pc[c] = "returned"
                 PROVE  ~failed[c] <=> \A i \in Indices(commands[c]) :
                            /\ commands[c][i].device \in Device
                            /\ FrameOf(c, i) \in Sent(DriverOf[commands[c][i].device])
        BY DEF ResultIsTrue
    <2>1. OwnInv(c) /\ Types
        BY DEF CommandInv
    <2>2. /\ next[c] \in Nat \ {0} /\ Len(commands[c]) \in Nat /\ at[c] \in Nat
          /\ closing[c] /\ at[c] > DriverCount
          /\ next[c] <= Len(commands[c]) + 1 /\ next[c] > Len(commands[c])
        BY <2>1, ClientTyped DEF OwnInv, Cursor
    <2>3. 1 .. next[c] - 1 = Indices(commands[c])
        BY <2>2 DEF Indices
    <2>4. \A d \in Driver : d < at[c]
        BY <2>2, CountsAreNat DEF Driver
    <2>5. \A d \in Driver : batch[c][d] = <<>>
        BY <2>1, <2>2, <2>4 DEF OwnInv, Cursor
    <2>6. \A d \in Driver : Indices(batch[c][d]) = {}
        BY <2>5 DEF Indices
    <2>7. \A i : OnItsWay(c, i) <=>
                    /\ commands[c][i].device \in Device
                    /\ FrameOf(c, i) \in Sent(DriverOf[commands[c][i].device])
        BY <2>6, DriversAreBound DEF OnItsWay, DeviceOf
    <2> QED
        BY <2>1, <2>3, <2>7 DEF OwnInv, Accounted
<1> QED
    BY <1>1, InvCorrect, PTL

\* A packet is of one call, neither empty nor too long, whatever earlier calls
\* and other threads left in their batches.
THEOREM PacketsCorrect == Spec => []PacketsOfOneCall
<1>1. CommandInv => PacketsOfOneCall
    BY DEF CommandInv
<1> QED
    BY <1>1, InvCorrect, PTL

\* A channel accepts the commands of a client in the order they were given,
\* although packets between them may be refused.
THEOREM OrderCorrect == Spec => []InCallOrder
<1>1. CommandInv => InCallOrder
    BY DEF CommandInv
<1> QED
    BY <1>1, InvCorrect, PTL
=============================================================================
