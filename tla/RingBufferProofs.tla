--------------------------- MODULE RingBufferProofs ---------------------------
(***************************************************************************)
(* For every capacity and any number of pushes: the ring buffer's index     *)
(* arithmetic keeps exactly the newest frames in its live window, and the   *)
(* buffer implements DropOldestQueue.                                       *)
(***************************************************************************)
EXTENDS RingBuffer, SequenceTheorems, TLAPS

\* What the wrap-around of an index computes, for the sums the code forms.
LEMMA ModSum ==
  ASSUME NEW i \in Index, NEW k \in 0 .. Capacity
  PROVE  /\ (i + k) % Capacity \in Index
         /\ (i + k) % Capacity = IF i + k < Capacity THEN i + k ELSE i + k - Capacity
  BY CapacityAssumption DEF Index

\* Advancing an index: within the vector, one slot further, back to itself
\* only after a full turn.
LEMMA AdvanceSum ==
  ASSUME NEW i \in Index, NEW k \in 0 .. Capacity - 1
  PROVE  /\ Advance(i) \in Index
         /\ (Advance(i) + k) % Capacity = (i + (k + 1)) % Capacity
         /\ Advance((i + k) % Capacity) = (i + (k + 1)) % Capacity
         /\ k # 0 => (i + k) % Capacity # i
         /\ (i + Capacity) % Capacity = i
         /\ (i + 0) % Capacity = i
  <1> USE CapacityAssumption
  <1>1. Advance(i) = IF i + 1 < Capacity THEN i + 1 ELSE 0
    BY DEF Advance, Index
  <1>2. Advance(i) \in Index
    BY <1>1 DEF Index
  <1>3. (i + (k + 1)) % Capacity =
           IF i + (k + 1) < Capacity THEN i + (k + 1) ELSE i + (k + 1) - Capacity
    BY DEF Index
  <1>4. (Advance(i) + k) % Capacity = (i + (k + 1)) % Capacity
    <2>1. (Advance(i) + k) % Capacity =
             IF Advance(i) + k < Capacity THEN Advance(i) + k ELSE Advance(i) + k - Capacity
      BY <1>2 DEF Index
    <2> QED
      BY <1>1, <1>3, <2>1 DEF Index
  <1>5. Advance((i + k) % Capacity) = (i + (k + 1)) % Capacity
    <2>1. (i + k) % Capacity = IF i + k < Capacity THEN i + k ELSE i + k - Capacity
      BY DEF Index
    <2>2. \A n \in Index : Advance(n) = IF n + 1 < Capacity THEN n + 1 ELSE 0
      BY DEF Advance, Index
    <2>3. (i + k) % Capacity \in Index
      BY DEF Index
    <2>4. Advance((i + k) % Capacity) = IF ((i + k) % Capacity) + 1 < Capacity
                                        THEN ((i + k) % Capacity) + 1 ELSE 0
      BY <2>2, <2>3
    <2> QED
      BY <1>3, <2>1, <2>3, <2>4 DEF Index
  <1>6. k # 0 => (i + k) % Capacity # i
    BY DEF Index
  <1>7. (i + Capacity) % Capacity = i /\ (i + 0) % Capacity = i
    BY DEF Index
  <1> QED
    BY <1>2, <1>4, <1>5, <1>6, <1>7

\* The constructor establishes the invariant.
LEMMA InitInv == Init => IInv
  <1> SUFFICES ASSUME Init PROVE IInv
    OBVIOUS
  <1>1. TypeOK
    BY CapacityAssumption, MaxPushesAssumption DEF Init, TypeOK, Index, Items
  <1>2. IndicesAgree
    BY CapacityAssumption DEF Init, IndicesAgree, Index
  <1>3. WindowIsNewest
    BY DEF Init, WindowIsNewest, Newest
  <1> QED
    BY <1>1, <1>2, <1>3 DEF IInv, Init

\* push_locked preserves the invariant: the new frame lands just behind the
\* window, and a full buffer's window moves on by one.
LEMMA PushInv == IInv /\ Push => IInv'
  <1> SUFFICES ASSUME IInv, Push PROVE IInv'
    OBVIOUS
  <1> USE CapacityAssumption, MaxPushesAssumption
  <1>1. /\ read_index \in Index /\ write_index \in Index /\ size \in 0 .. Capacity
        /\ 0 \in 0 .. Capacity - 1 /\ pushed \in Nat
        /\ write_index = (read_index + size) % Capacity
        /\ \A k \in 0 .. size - 1 :
              buffer[(read_index + k) % Capacity] = pushed - size + 1 + k
        /\ buffer' = [buffer EXCEPT ![write_index] = pushed + 1]
        /\ write_index' = Advance(write_index) /\ pushed' = pushed + 1
    BY DEF IInv, TypeOK, IndicesAgree, WindowIsNewest, Newest, Push
  <1>2. TypeOK'
    <2>1. Advance(write_index) \in Index /\ Advance(read_index) \in Index
      BY <1>1, AdvanceSum
    <2> QED
      BY <1>1, <2>1 DEF IInv, TypeOK, Push, Items
  <1>3. buffer'[write_index] = pushed + 1
    BY <1>1 DEF IInv, TypeOK
  <1>4. \A i \in Index \ {write_index} : buffer'[i] = buffer[i]
    BY <1>1 DEF IInv, TypeOK
  <1>5. CASE size = Capacity
    <2>1. read_index' = Advance(read_index) /\ size' = size /\ write_index = read_index
      BY <1>1, <1>5, AdvanceSum DEF Push
    <2>2. IndicesAgree'
      BY <1>1, <1>2, <1>5, <2>1, AdvanceSum DEF IndicesAgree, TypeOK
    <2>3. ASSUME NEW k \in 0 .. Capacity - 1
          PROVE  buffer'[(read_index' + k) % Capacity] = pushed' - size' + 1 + k
      <3>1. (read_index' + k) % Capacity = (read_index + (k + 1)) % Capacity
        BY <1>1, <2>1, AdvanceSum
      <3>2. CASE k + 1 = Capacity
        <4>1. (read_index' + k) % Capacity = write_index
          BY <1>1, <2>1, <3>1, <3>2, AdvanceSum
        <4> QED
          BY <1>1, <1>3, <1>5, <2>1, <3>2, <4>1
      <3>3. CASE k + 1 # Capacity
        <4>1. k + 1 \in 0 .. Capacity - 1 /\ k + 1 # 0 /\ k + 1 \in 0 .. Capacity
          BY <3>3
        <4>2. (read_index + (k + 1)) % Capacity \in Index \ {write_index}
          <5>1. (read_index + (k + 1)) % Capacity # read_index
            BY <1>1, <4>1, AdvanceSum
          <5>2. (read_index + (k + 1)) % Capacity \in Index
            BY <1>1, <4>1, ModSum
          <5> QED
            BY <2>1, <5>1, <5>2
        <4>3. buffer[(read_index + (k + 1)) % Capacity] = pushed - size + 1 + (k + 1)
          BY <1>1, <1>5, <4>1
        <4> QED
          BY <1>1, <1>4, <1>5, <2>1, <3>1, <4>2, <4>3
      <3> QED
        BY <3>2, <3>3
    <2>4. WindowIsNewest'
      BY <1>5, <2>1, <2>3 DEF WindowIsNewest, Newest
    <2> QED
      BY <1>1, <1>2, <2>1, <2>2, <2>4 DEF IInv
  <1>6. CASE size # Capacity
    <2>1. read_index' = read_index /\ size' = size + 1 /\ size \in 0 .. Capacity - 1
      BY <1>1, <1>6 DEF Push
    <2>2. IndicesAgree'
      BY <1>1, <2>1, AdvanceSum DEF IndicesAgree
    <2>3. ASSUME NEW k \in 0 .. size
          PROVE  buffer'[(read_index + k) % Capacity] = pushed' - size' + 1 + k
      <3>1. CASE k = size
        BY <1>1, <1>3, <2>1, <3>1
      <3>2. CASE k # size
        <4>1. k \in 0 .. size - 1 /\ k \in 0 .. Capacity
          BY <2>1, <3>2
        <4>2. (read_index + k) % Capacity # write_index
          <5>1. (read_index + k) % Capacity =
                   IF read_index + k < Capacity THEN read_index + k ELSE read_index + k - Capacity
            BY <1>1, <4>1, ModSum
          <5>2. write_index =
                   IF read_index + size < Capacity THEN read_index + size
                                                   ELSE read_index + size - Capacity
            BY <1>1, ModSum
          <5> QED
            BY <1>1, <2>1, <4>1, <5>1, <5>2 DEF Index
        <4>3. (read_index + k) % Capacity \in Index \ {write_index}
          BY <1>1, <4>1, <4>2, ModSum
        <4>4. buffer[(read_index + k) % Capacity] = pushed - size + 1 + k
          BY <1>1, <4>1
        <4>5. pushed' - size' + 1 + k = pushed - size + 1 + k
          BY <1>1, <2>1, <4>1
        <4> QED
          BY <1>4, <4>3, <4>4, <4>5
      <3> QED
        BY <3>1, <3>2
    <2>4. WindowIsNewest'
      BY <2>1, <2>3 DEF WindowIsNewest, Newest
    <2> QED
      BY <1>1, <1>2, <2>1, <2>2, <2>4 DEF IInv
  <1> QED
    BY <1>5, <1>6

\* try_pop_oldest preserves the invariant and hands out the oldest live frame.
LEMMA PopInv == IInv /\ TryPopOldest => IInv'
  <1> SUFFICES ASSUME IInv, TryPopOldest PROVE IInv'
    OBVIOUS
  <1> USE CapacityAssumption, MaxPushesAssumption
  <1>1. CASE size = 0
    BY <1>1 DEF IInv, TypeOK, IndicesAgree, WindowIsNewest, Newest, TryPopOldest
  <1>2. CASE size > 0
    <2>1. /\ read_index' = Advance(read_index) /\ size' = size - 1
          /\ write_index' = write_index /\ pushed' = pushed
          /\ dropped_count' = dropped_count
          /\ buffer' = [buffer EXCEPT ![read_index] = MovedFrom]
          /\ out' = <<buffer[read_index]>>
      BY <1>2 DEF TryPopOldest
    <2>2. buffer[read_index] = pushed - size + 1
      <3>1. (read_index + 0) % Capacity = read_index
        BY DEF IInv, TypeOK, Index
      <3>2. 0 \in 0 .. size - 1
        BY <1>2 DEF IInv, TypeOK
      <3> QED
        BY <3>1, <3>2 DEF IInv, WindowIsNewest, Newest, TypeOK
    <2>3. buffer[read_index] \in Items
      BY <1>2, <2>2 DEF IInv, TypeOK, Items
    <2>4. TypeOK'
      <3>1. Advance(read_index) \in Index
        BY AdvanceSum DEF IInv, TypeOK
      <3> QED
        BY <1>2, <2>1, <2>3, <3>1 DEF IInv, TypeOK
    <2>5. IndicesAgree'
      <3>1. size - 1 \in 0 .. Capacity - 1 /\ (size - 1) + 1 = size
        BY <1>2 DEF IInv, TypeOK
      <3>2. (Advance(read_index) + (size - 1)) % Capacity
              = (read_index + ((size - 1) + 1)) % Capacity
        BY <3>1, AdvanceSum DEF IInv, TypeOK
      <3> QED
        BY <2>1, <3>1, <3>2 DEF IInv, IndicesAgree
    <2>6. WindowIsNewest'
      <3> SUFFICES ASSUME NEW k \in 0 .. size' - 1
                   PROVE  buffer'[(read_index' + k) % Capacity] = pushed' - size' + 1 + k
        BY DEF WindowIsNewest, Newest
      <3>0. /\ k \in 0 .. Capacity - 1 /\ k + 1 \in 0 .. Capacity - 1
            /\ k + 1 # 0 /\ k + 1 \in 0 .. Capacity
        BY <1>2, <2>1 DEF IInv, TypeOK
      <3>1. (read_index' + k) % Capacity = (read_index + (k + 1)) % Capacity
        BY <2>1, <3>0, AdvanceSum DEF IInv, TypeOK
      <3>2. (read_index + (k + 1)) % Capacity # read_index
        BY <3>0, AdvanceSum DEF IInv, TypeOK
      <3>3. (read_index + (k + 1)) % Capacity \in Index
        BY <3>0, ModSum DEF IInv, TypeOK
      <3>4. buffer[(read_index + (k + 1)) % Capacity] = pushed - size + 1 + (k + 1)
        BY <2>1 DEF IInv, WindowIsNewest, Newest, TypeOK
      <3> QED
        BY <2>1, <3>1, <3>2, <3>3, <3>4 DEF IInv, TypeOK
    <2> QED
      BY <1>2, <2>1, <2>4, <2>5, <2>6 DEF IInv, TypeOK
  <1> QED
    BY <1>1, <1>2 DEF IInv, TypeOK

\* The ring buffer's live window always holds exactly the newest `size'
\* frames in order: push overwrites only the oldest frame of a full buffer,
\* and a moved-from slot is never handed out (push_locked, try_pop_oldest).
THEOREM WindowAlwaysNewest == Spec => [](TypeOK /\ WindowIsNewest)
  <1>1. IInv /\ [Next]_vars => IInv'
    <2> SUFFICES ASSUME IInv, [Next]_vars PROVE IInv'
      OBVIOUS
    <2>1. CASE UNCHANGED vars
      BY <2>1 DEF IInv, TypeOK, IndicesAgree, WindowIsNewest, Newest, vars
    <2> QED
      BY <2>1, PushInv, PopInv DEF Next
  <1>2. IInv => TypeOK /\ WindowIsNewest
    BY DEF IInv
  <1> QED
    BY InitInv, <1>1, <1>2, PTL DEF Spec

-----------------------------------------------------------------------------
\* n consecutive frame numbers, the first of them b + 1.
Run(b, n) == [i \in 1 .. n |-> b + i]

\* A run is a sequence, and grows and shrinks like one.
LEMMA RunProperties ==
  ASSUME NEW b \in Nat, NEW n \in Nat
  PROVE  /\ Run(b, n) \in Seq(Nat)
         /\ Len(Run(b, n)) = n
         /\ n = 0 <=> Run(b, n) = <<>>
         /\ Append(Run(b, n), b + n + 1) = Run(b, n + 1)
         /\ n > 0 => Head(Run(b, n)) = b + 1 /\ Tail(Run(b, n)) = Run(b + 1, n - 1)
  <1>1. Run(b, n) \in Seq(Nat) /\ Len(Run(b, n)) = n
    BY DEF Run
  <1>2. n = 0 <=> Run(b, n) = <<>>
    BY DEF Run
  <1>3. Append(Run(b, n), b + n + 1) = Run(b, n + 1)
    <2>1. /\ Append(Run(b, n), b + n + 1) \in Seq(Nat)
          /\ Len(Append(Run(b, n), b + n + 1)) = n + 1
          /\ \A i \in 1 .. n : Append(Run(b, n), b + n + 1)[i] = Run(b, n)[i]
          /\ Append(Run(b, n), b + n + 1)[n + 1] = b + n + 1
      BY <1>1, AppendProperties
    <2>2. Run(b, n + 1) \in Seq(Nat) /\ Len(Run(b, n + 1)) = n + 1
      BY DEF Run
    <2>3. ASSUME NEW i \in 1 .. n + 1
          PROVE  Append(Run(b, n), b + n + 1)[i] = Run(b, n + 1)[i]
      BY <2>1 DEF Run
    <2> QED
      BY <2>1, <2>2, <2>3, SeqEqual
  <1>4. ASSUME n > 0
        PROVE  Head(Run(b, n)) = b + 1 /\ Tail(Run(b, n)) = Run(b + 1, n - 1)
    <2>1. Head(Run(b, n)) = b + 1
      BY <1>1, <1>4 DEF Run
    <2>2. Run(b, n) # <<>>
      BY <1>2, <1>4
    <2>3. /\ Tail(Run(b, n)) \in Seq(Nat)
          /\ Len(Tail(Run(b, n))) = n - 1
          /\ \A i \in 1 .. n - 1 : Tail(Run(b, n))[i] = Run(b, n)[i + 1]
      BY <1>1, <2>2, HeadTailProperties
    <2>4. Run(b + 1, n - 1) \in Seq(Nat) /\ Len(Run(b + 1, n - 1)) = n - 1
      BY <1>4 DEF Run
    <2>5. ASSUME NEW i \in 1 .. n - 1
          PROVE  Tail(Run(b, n))[i] = Run(b + 1, n - 1)[i]
      BY <2>3, <1>4 DEF Run
    <2>6. Tail(Run(b, n)) = Run(b + 1, n - 1)
      BY <2>3, <2>4, <2>5, SeqEqual
    <2> QED
      BY <2>1, <2>6
  <1> QED
    BY <1>1, <1>2, <1>3, <1>4

\* Reading a window that holds the newest frames, in slot order, yields a run.
LEMMA WindowIsRun ==
  ASSUME NEW buf, NEW r \in Index, NEW n \in Nat, NEW p \in Nat,
         Newest(buf, r, n, p)
  PROVE  Window(buf, r, n) = Run(p - n, n)
  <1>1. ASSUME NEW i \in 1 .. n
        PROVE  buf[(r + i - 1) % Capacity] = p - n + i
    <2>1. i - 1 \in 0 .. n - 1 /\ p - n + 1 + (i - 1) = p - n + i
      OBVIOUS
    <2>2. r + i - 1 = r + (i - 1)
      BY CapacityAssumption DEF Index
    <2> QED
      BY <2>1, <2>2 DEF Newest
  <1> QED
    BY <1>1 DEF Run, Window

\* Under the invariant the abstract queue's content is a run of frame numbers.
LEMMA SnapshotIsRun ==
  /\ IInv => Snapshot = Run(pushed - size, size)
  /\ IInv' => Snapshot' = Run(pushed' - size', size')
  <1> USE CapacityAssumption, MaxPushesAssumption
  <1>1. IInv => Snapshot = Run(pushed - size, size)
    <2> HAVE IInv
    <2>1. read_index \in Index /\ size \in Nat /\ pushed \in Nat
      BY DEF IInv, TypeOK
    <2>2. Newest(buffer, read_index, size, pushed)
      BY DEF IInv, WindowIsNewest
    <2> QED
      BY <2>1, <2>2, WindowIsRun DEF Snapshot
  <1>2. IInv' => Snapshot' = Run(pushed' - size', size')
    <2> HAVE IInv'
    <2>1. read_index' \in Index /\ size' \in Nat /\ pushed' \in Nat
      BY DEF IInv, TypeOK
    <2>2. Newest(buffer', read_index', size', pushed')
      BY DEF IInv, WindowIsNewest
    <2> QED
      BY <2>1, <2>2, WindowIsRun DEF Snapshot
  <1> QED
    BY <1>1, <1>2

\* push_locked is the abstract push of the next frame.
LEMMA PushRefines == IInv /\ IInv' /\ Push => Queue!Push(pushed + 1) /\ pushed + 1 \in Items
  <1> SUFFICES ASSUME IInv, IInv', Push
               PROVE  Queue!Push(pushed + 1) /\ pushed + 1 \in Items
    OBVIOUS
  <1>1. /\ Snapshot = Run(pushed - size, size)
        /\ Snapshot' = Run(pushed' - size', size')
    BY SnapshotIsRun
  <1>2. /\ size \in Nat /\ pushed \in Nat /\ size <= pushed /\ pushed + 1 \in Items
        /\ pushed' = pushed + 1 /\ out' = out
        /\ size' = IF size = Capacity THEN size ELSE size + 1
        /\ dropped_count' = IF size = Capacity THEN dropped_count + 1 ELSE dropped_count
    BY MaxPushesAssumption, CapacityAssumption DEF IInv, TypeOK, Push, Items
  <1>3. Len(Snapshot) = size
    BY <1>1, <1>2, RunProperties
  <1>4. CASE size = Capacity
    <2>1. /\ pushed - size \in Nat /\ size > 0 /\ pushed - size + 1 \in Nat /\ size - 1 \in Nat
          /\ (pushed - size + 1) + (size - 1) + 1 = pushed + 1
          /\ pushed' - size' = pushed - size + 1 /\ size' = (size - 1) + 1
      BY <1>2, <1>4, CapacityAssumption
    <2>2. Tail(Snapshot) = Run(pushed - size + 1, size - 1)
      BY <1>1, <1>2, <2>1, RunProperties
    <2>3. Append(Run(pushed - size + 1, size - 1), (pushed - size + 1) + (size - 1) + 1)
            = Run(pushed - size + 1, (size - 1) + 1)
      BY <2>1, RunProperties
    <2>4. Snapshot' = Append(Tail(Snapshot), pushed + 1)
      BY <1>1, <2>1, <2>2, <2>3
    <2> QED
      BY <1>2, <1>3, <1>4, <2>4 DEF Queue!Push, Queue!Pushed
  <1>5. CASE size # Capacity
    <2>1. /\ pushed - size \in Nat /\ (pushed - size) + size + 1 = pushed + 1
          /\ pushed' - size' = pushed - size /\ size' = size + 1
      BY <1>2, <1>5
    <2>2. Append(Run(pushed - size, size), (pushed - size) + size + 1)
            = Run(pushed - size, size + 1)
      BY <1>2, <2>1, RunProperties
    <2>3. Snapshot' = Append(Snapshot, pushed + 1)
      BY <1>1, <2>1, <2>2
    <2> QED
      BY <1>2, <1>3, <1>5, <2>3 DEF Queue!Push, Queue!Pushed
  <1> QED
    BY <1>4, <1>5

\* try_pop_oldest is the abstract pop.
LEMMA PopRefines == IInv /\ IInv' /\ TryPopOldest => Queue!TryPopOldest
  <1> SUFFICES ASSUME IInv, IInv', TryPopOldest PROVE Queue!TryPopOldest
    OBVIOUS
  <1>1. /\ Snapshot = Run(pushed - size, size)
        /\ Snapshot' = Run(pushed' - size', size')
    BY SnapshotIsRun
  <1>2. /\ size \in Nat /\ pushed \in Nat /\ size <= pushed /\ pushed - size \in Nat
        /\ read_index \in Index
    BY DEF IInv, TypeOK
  <1>3. CASE size = 0
    <2>1. Snapshot = <<>>
      BY <1>1, <1>2, <1>3, RunProperties
    <2>2. UNCHANGED <<size, pushed, dropped_count>> /\ out' = <<>>
      BY <1>3 DEF TryPopOldest
    <2> QED
      BY <1>1, <2>1, <2>2 DEF Queue!TryPopOldest
  <1>4. CASE size > 0
    <2>1. /\ out' = <<buffer[read_index]>> /\ size' = size - 1
          /\ pushed' = pushed /\ dropped_count' = dropped_count
      BY <1>4 DEF TryPopOldest
    <2>2. /\ Snapshot # <<>> /\ Head(Snapshot) = pushed - size + 1
          /\ Tail(Snapshot) = Run(pushed - size + 1, size - 1)
      <3>1. size # 0
        BY <1>4
      <3> QED
        BY <1>1, <1>2, <1>4, <3>1, RunProperties
    <2>3. buffer[read_index] = pushed - size + 1
      <3>1. (read_index + 0) % Capacity = read_index
        BY <1>2, CapacityAssumption DEF Index
      <3>2. 0 \in 0 .. size - 1
        BY <1>2, <1>4
      <3>3. buffer[(read_index + 0) % Capacity] = pushed - size + 1 + 0
        BY <3>2 DEF IInv, WindowIsNewest, Newest
      <3> QED
        BY <1>2, <3>1, <3>3
    <2>4. Snapshot' = Tail(Snapshot)
      <3>1. pushed' - size' = pushed - size + 1
        BY <1>2, <2>1
      <3> QED
        BY <1>1, <2>1, <2>2, <3>1
    <2> QED
      BY <2>1, <2>2, <2>3, <2>4 DEF Queue!TryPopOldest
  <1> QED
    BY <1>2, <1>3, <1>4

\* RingBuffer implements DropOldestQueue: push discards the oldest element of
\* a full buffer and nothing else, try_pop_oldest returns elements in order.
THEOREM RingBufferRefinesQueue == Spec => RefinesQueue
  <1>1. Init => Queue!Init
    <2> SUFFICES ASSUME Init PROVE Queue!Init
      OBVIOUS
    <2>1. Snapshot = Run(0, 0)
      BY DEF Init, Snapshot, Window, Run
    <2>2. Snapshot = <<>>
      BY <2>1, RunProperties
    <2> QED
      BY <2>2 DEF Init, Queue!Init
  <1>2. IInv /\ [Next]_vars => IInv'
    <2> SUFFICES ASSUME IInv, [Next]_vars PROVE IInv'
      OBVIOUS
    <2>1. CASE UNCHANGED vars
      BY <2>1 DEF IInv, TypeOK, IndicesAgree, WindowIsNewest, Newest, vars
    <2> QED
      BY <2>1, PushInv, PopInv DEF Next
  <1>3. IInv /\ IInv' /\ [Next]_vars => [Queue!Next]_(Queue!vars)
    <2> SUFFICES ASSUME IInv, IInv', [Next]_vars PROVE [Queue!Next]_(Queue!vars)
      OBVIOUS
    <2>1. CASE Push
      BY <2>1, PushRefines DEF Queue!Next
    <2>2. CASE TryPopOldest
      BY <2>2, PopRefines DEF Queue!Next
    <2>3. CASE UNCHANGED vars
      BY <2>3 DEF vars, Queue!vars, Snapshot
    <2> QED
      BY <2>1, <2>2, <2>3 DEF Next
  <1> QED
    BY InitInv, <1>1, <1>2, <1>3, PTL DEF Spec, RefinesQueue, Queue!Spec
=============================================================================
