------------------------------ MODULE RingBuffer ------------------------------
(***************************************************************************)
(* include/ring_buffer.hpp: a fixed vector of slots, a read and a write     *)
(* index that wrap modulo its size, a fill count and a drop count.  Every   *)
(* member function holds mutex_ from its first to its last statement, so    *)
(* each is one action.  The items are frame numbers, pushed in order as the *)
(* producer does; MaxPushes bounds their number.                            *)
(***************************************************************************)
EXTENDS Integers, Sequences

CONSTANTS Capacity,   \* constructor argument; zero is refused with an exception
          MaxPushes,  \* bound: how many frames are pushed
          MovedFrom   \* content of a slot before its first use or after std::move

ASSUME CapacityAssumption  == Capacity \in Nat \ {0}
ASSUME MaxPushesAssumption == MaxPushes \in Nat
ASSUME MovedFromAssumption == MovedFrom \notin Nat

VARIABLES buffer,       \* buffer_, indexed from 0 like the vector
          read_index, write_index, size, dropped_count,
          pushed,       \* number of pushes so far; the next frame is pushed + 1
          out           \* what the last try_pop_oldest produced

vars == <<buffer, read_index, write_index, size, dropped_count, pushed, out>>

Index == 0 .. Capacity - 1
Items == 1 .. MaxPushes

Advance(i) == (i + 1) % Capacity

Init ==
  /\ buffer = [i \in Index |-> MovedFrom]
  /\ read_index = 0
  /\ write_index = 0
  /\ size = 0
  /\ dropped_count = 0
  /\ pushed = 0
  /\ out = <<>>

\* Mutant: a full buffer is overwritten without moving the read index.
PushKeepsReadIndex ==
  /\ pushed < MaxPushes
  /\ buffer' = [buffer EXCEPT ![write_index] = pushed + 1]
  /\ IF size = Capacity
     THEN /\ dropped_count' = dropped_count + 1
          /\ UNCHANGED <<read_index, size>>
     ELSE /\ size' = size + 1
          /\ UNCHANGED <<read_index, dropped_count>>
  /\ write_index' = Advance(write_index)
  /\ pushed' = pushed + 1
  /\ UNCHANGED out

\* push_locked: store, then either discard the oldest or grow, then advance.
Push ==
  /\ pushed < MaxPushes
  /\ buffer' = [buffer EXCEPT ![write_index] = pushed + 1]
  /\ IF size = Capacity
     THEN /\ read_index' = Advance(read_index)
          /\ dropped_count' = dropped_count + 1
          /\ UNCHANGED size
     ELSE /\ size' = size + 1
          /\ UNCHANGED <<read_index, dropped_count>>
  /\ write_index' = Advance(write_index)
  /\ pushed' = pushed + 1
  /\ UNCHANGED out

\* Mutant: the popped slot is not counted out.
TryPopKeepsSize ==
  \/ /\ size = 0
     /\ out' = <<>>
     /\ UNCHANGED <<buffer, read_index, write_index, size, dropped_count, pushed>>
  \/ /\ size > 0
     /\ out' = <<buffer[read_index]>>
     /\ buffer' = [buffer EXCEPT ![read_index] = MovedFrom]
     /\ read_index' = Advance(read_index)
     /\ UNCHANGED <<write_index, size, dropped_count, pushed>>

\* try_pop_oldest: false on an empty buffer, else move the oldest slot out.
TryPopOldest ==
  \/ /\ size = 0
     /\ out' = <<>>
     /\ UNCHANGED <<buffer, read_index, write_index, size, dropped_count, pushed>>
  \/ /\ size > 0
     /\ out' = <<buffer[read_index]>>
     /\ buffer' = [buffer EXCEPT ![read_index] = MovedFrom]
     /\ read_index' = Advance(read_index)
     /\ size' = size - 1
     /\ UNCHANGED <<write_index, dropped_count, pushed>>

Next == Push \/ TryPopOldest

Spec == Init /\ [][Next]_vars

-----------------------------------------------------------------------------
\* n slots of buf from slot r on, wrapping at the end of the vector.
Window(buf, r, n) == [i \in 1 .. n |-> buf[(r + i - 1) % Capacity]]

\* snapshot(): the live elements, oldest first.
Snapshot == Window(buffer, read_index, size)

\* The indices stay inside the vector, size never passes the capacity, and
\* what is handed out is a frame, never a moved-from slot.
TypeOK ==
  /\ buffer \in [Index -> Items \cup {MovedFrom}]
  /\ read_index \in Index
  /\ write_index \in Index
  /\ size \in 0 .. Capacity
  /\ dropped_count \in Nat
  /\ pushed \in 0 .. MaxPushes
  /\ out \in Seq(Items)

\* The write index is always `size' slots ahead of the read index, so a push
\* never lands on a live slot except the oldest one of a full buffer.
IndicesAgree == write_index = (read_index + size) % Capacity

\* The n slots of buf from slot r on hold frames p - n + 1 .. p, in that order.
Newest(buf, r, n, p) ==
  \A k \in 0 .. n - 1 : buf[(r + k) % Capacity] = p - n + 1 + k

\* The live window holds exactly the most recent `size' frames, consecutive
\* and oldest first: push overwrites nothing else, and no slot that was moved
\* from by try_pop_oldest is ever handed out again.
WindowIsNewest == Newest(buffer, read_index, size, pushed)

\* The inductive strengthening: the indices, the window, and no more live
\* frames than were ever pushed.
IInv == TypeOK /\ IndicesAgree /\ WindowIsNewest /\ size <= pushed

Queue == INSTANCE DropOldestQueue WITH
           queue <- Snapshot, dropped <- dropped_count, out <- out

\* RingBuffer's push and try_pop_oldest behave like the abstract drop-oldest
\* queue, with snapshot() as its content.
RefinesQueue == Queue!Spec
=============================================================================
