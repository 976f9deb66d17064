--------------------------- MODULE DropOldestQueue ---------------------------
(***************************************************************************)
(* What RingBuffer<T> promises its users: a bounded FIFO queue in which a   *)
(* push never blocks and never fails; pushing into a full queue discards    *)
(* the oldest element and counts it.  `out' is the result of the last       *)
(* try_pop_oldest: the sequence of the one element handed to the caller, or *)
(* the empty sequence when the call returned false.                         *)
(***************************************************************************)
EXTENDS Naturals, Sequences

CONSTANTS Capacity,   \* buffer_.size(), fixed by the constructor
          Items       \* the elements that may be pushed

VARIABLES queue, dropped, out

vars == <<queue, dropped, out>>

Init ==
  /\ queue = <<>>
  /\ dropped = 0
  /\ out = <<>>

\* The queue after pushing item: the oldest element makes room when it is full.
Pushed(q, item) ==
  IF Len(q) = Capacity THEN Append(Tail(q), item) ELSE Append(q, item)

Push(item) ==
  /\ queue' = Pushed(queue, item)
  /\ dropped' = IF Len(queue) = Capacity THEN dropped + 1 ELSE dropped
  /\ UNCHANGED out

TryPopOldest ==
  \/ /\ queue = <<>>
     /\ out' = <<>>
     /\ UNCHANGED <<queue, dropped>>
  \/ /\ queue # <<>>
     /\ out' = <<Head(queue)>>
     /\ queue' = Tail(queue)
     /\ UNCHANGED dropped

Next == (\E item \in Items : Push(item)) \/ TryPopOldest

Spec == Init /\ [][Next]_vars

TypeOK ==
  /\ queue \in Seq(Items)
  /\ Len(queue) <= Capacity
  /\ dropped \in Nat
  /\ out \in Seq(Items)
=============================================================================
