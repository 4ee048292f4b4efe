------------------------------- MODULE RingQueue -------------------------------
(***************************************************************************)
(* fixed_ring_queue of src/src/channel.cc: a vector used as a ring, with   *)
(* the index of the oldest element, the index of the next free cell and    *)
(* the number of elements.  Every operation runs under the queue's mutex,  *)
(* so one call is one step.                                                *)
(***************************************************************************)
EXTENDS Integers, Sequences

CONSTANTS Value,      \* the element type T
          Default,    \* T{}, what the vector's cells hold at first
          Capacity    \* storage_.size()

ASSUME CapacityIsNat == Capacity \in Nat
ASSUME DefaultIsValue == Default \in Value

VARIABLES storage, head, tail, count,
          result      \* what the last call returned

vars == <<storage, head, tail, count, result>>

Index == 0 .. Capacity - 1

Init ==
  /\ storage = [i \in Index |-> Default]
  /\ head = 0 /\ tail = 0 /\ count = 0
  /\ result = [op |-> "none"]

\* The cell after cell i: the last one is followed by cell 0.
NextIndex(i) == IF i + 1 = Capacity THEN 0 ELSE i + 1

\* A broken variant: the full ring is not refused and its oldest cell is overwritten.
TryPushUnchecked(v) ==
  /\ storage' = [storage EXCEPT ![tail] = v]
  /\ tail' = NextIndex(tail)
  /\ count' = IF count = Capacity THEN count ELSE count + 1
  /\ result' = [op |-> "push", ok |-> TRUE]
  /\ UNCHANGED head

TryPush(v) ==
  \/ /\ count # Capacity
     /\ storage' = [storage EXCEPT ![tail] = v]
     /\ tail' = NextIndex(tail)
     /\ count' = count + 1
     /\ result' = [op |-> "push", ok |-> TRUE]
     /\ UNCHANGED head
  \/ /\ count = Capacity
     /\ result' = [op |-> "push", ok |-> FALSE]
     /\ UNCHANGED <<storage, head, tail, count>>

TryPop ==
  \/ /\ count # 0
     /\ head' = NextIndex(head)
     /\ count' = count - 1
     /\ result' = [op |-> "pop", ok |-> TRUE, value |-> storage[head]]
     /\ UNCHANGED <<storage, tail>>
  \/ /\ count = 0
     /\ result' = [op |-> "pop", ok |-> FALSE]
     /\ UNCHANGED <<storage, head, tail, count>>

Size ==
  /\ result' = [op |-> "size", value |-> count]
  /\ UNCHANGED <<storage, head, tail, count>>

Next == (\E v \in Value : TryPush(v)) \/ TryPop \/ Size

Spec == Init /\ [][Next]_vars

--------------------------------------------------------------------------------
\* The i-th oldest element is i cells after head, wrapping at the end.
Cell(i) == IF head + i < Capacity THEN head + i ELSE head + i - Capacity

\* The elements the ring holds, oldest first.
Contents == [i \in 1 .. count |-> storage[Cell(i - 1)]]

\* Types of the ring's variables; an empty vector keeps both indices at 0.
TypeOK ==
  /\ storage \in [Index -> Value]
  /\ head \in Nat /\ tail \in Nat
  /\ Capacity > 0 => head \in Index /\ tail \in Index
  /\ Capacity = 0 => head = 0 /\ tail = 0
  /\ count \in 0 .. Capacity

\* The two indices and the count always agree: tail is count cells after head,
\* although the code moves them separately (channel.cc try_push, try_pop).
IndicesAgree == Capacity > 0 => tail = Cell(count)

Fifo == INSTANCE BoundedFifo WITH contents <- Contents

\* However often the indices wrap, the ring returns from every call what a
\* bounded FIFO queue returns: nothing is lost, duplicated or reordered, and a
\* push fails exactly when the ring is full, a pop exactly when it is empty.
ImplementsFifo == Fifo!Spec

================================================================================
