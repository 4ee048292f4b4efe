------------------------------ MODULE BoundedFifo ------------------------------
(***************************************************************************)
(* What the ring buffers of the channels promise: a first-in first-out     *)
(* queue of at most Capacity values whose operations never block.  A call  *)
(* that cannot be served fails and changes nothing.                        *)
(***************************************************************************)
EXTENDS Naturals, Sequences

CONSTANTS Value,     \* what the queue stores
          Capacity   \* how many values it can hold

VARIABLES contents,  \* the stored values, oldest first
          result     \* the result of the last call

vars == <<contents, result>>

Init == contents = <<>> /\ result = [op |-> "none"]

Push(v) ==
  \/ /\ Len(contents) < Capacity
     /\ contents' = Append(contents, v)
     /\ result' = [op |-> "push", ok |-> TRUE]
  \/ /\ Len(contents) = Capacity
     /\ result' = [op |-> "push", ok |-> FALSE]
     /\ UNCHANGED contents

Pop ==
  \/ /\ contents # <<>>
     /\ contents' = Tail(contents)
     /\ result' = [op |-> "pop", ok |-> TRUE, value |-> Head(contents)]
  \/ /\ contents = <<>>
     /\ result' = [op |-> "pop", ok |-> FALSE]
     /\ UNCHANGED contents

Size == result' = [op |-> "size", value |-> Len(contents)] /\ UNCHANGED contents

Next == (\E v \in Value : Push(v)) \/ Pop \/ Size

Spec == Init /\ [][Next]_vars

================================================================================
