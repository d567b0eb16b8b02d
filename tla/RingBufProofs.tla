--------------------------- MODULE RingBufProofs ---------------------------
(***************************************************************************)
(* Proofs about the circular buffer, for every capacity and byte set.      *)
(***************************************************************************)
EXTENDS RingBuf, TLAPS

IInv == TypeOK /\ IndicesAgree

\* n single advances, n no more than the capacity, stay inside the storage.
LEMMA AdvanceInCells ==
  ASSUME NEW c \in Cells, NEW n \in 0 .. Capacity
  PROVE  Advance(c, n) \in Cells
  BY CapacityAssumption DEF Advance, Cells

\* Advancing by m and then by n is advancing by m + n.
LEMMA AdvanceAdds ==
  ASSUME NEW c \in Cells, NEW m \in 0 .. Capacity, NEW n \in 0 .. Capacity,
         m + n <= Capacity
  PROVE  Advance(Advance(c, m), n) = Advance(c, m + n)
  BY CapacityAssumption DEF Advance, Cells

\* The distance from c to d is the number of advances that lead there.
LEMMA DistanceInverts ==
  ASSUME NEW c \in Cells, NEW n \in 0 .. Capacity - 1
  PROVE  Distance(c, Advance(c, n)) = n
  BY CapacityAssumption DEF Advance, Distance, Cells

\* While base and offset are small enough for the index type, the cell that
\* fx5_ringbuf_peek computes is the one single advances lead to.
LEMMA OffsetIsAdvance ==
  ASSUME NEW base \in Cells, NEW offset \in Cells, base + offset < IndexRange
  PROVE  OffsetIndex(base, offset) = Advance(base, offset)
  <1>1. base + offset \in 0 .. IndexRange - 1
    BY CapacityAssumption, RangeAssumption DEF Cells
  <1>2. (base + offset) % IndexRange = base + offset
    BY <1>1, RangeAssumption
  <1>3. QED  BY <1>1, <1>2, CapacityAssumption DEF OffsetIndex, Advance, Cells

LEMMA Initially == Init => IInv
  BY CapacityAssumption DEF Init, IInv, TypeOK, IndicesAgree, Advance, Cells

-----------------------------------------------------------------------------
\* One lemma per group of operations: each keeps the inductive invariant.

LEMMA KeptByReset == IInv /\ (Reinit \/ Clear) => IInv'
  BY CapacityAssumption
  DEF IInv, TypeOK, IndicesAgree, Reinit, Clear, Empty, Advance, Cells

LEMMA KeptByPushBack ==
  ASSUME IInv, NEW v \in Byte, PushBack(v)
  PROVE  IInv'
  <1>1. CASE size = Capacity
    BY <1>1 DEF IInv, TypeOK, IndicesAgree, PushBack
  <1>2. CASE size # Capacity
    <2>1. /\ data' = [data EXCEPT ![head] = v]
          /\ head' = Advance(head, 1) /\ size' = size + 1 /\ tail' = tail
          /\ ret' = 1 /\ out' = out
      BY <1>2 DEF PushBack
    <2>2. size + 1 \in 0 .. Capacity
      BY <1>2, CapacityAssumption DEF IInv, TypeOK
    <2>3. head' = Advance(tail, size + 1)
      BY <2>1, <2>2, AdvanceAdds, CapacityAssumption DEF IInv, TypeOK, IndicesAgree
    <2>4. head' \in Cells
      BY <2>2, <2>3, AdvanceInCells DEF IInv, TypeOK
    <2>5. QED
      BY <2>1, <2>2, <2>3, <2>4 DEF IInv, TypeOK, IndicesAgree
  <1>3. QED  BY <1>1, <1>2

\* Taking n bytes off the front moves the tail by n: pop, drop.
LEMMA KeptByTaking ==
  ASSUME IInv, NEW n \in 0 .. size,
         tail' = Advance(tail, n), size' = size - n, head' = head, data' = data,
         ret' \in Nat, out' \in Byte
  PROVE  IInv'
  <1>1. /\ tail \in Cells /\ size \in 0 .. Capacity /\ n \in 0 .. Capacity
        /\ size - n \in 0 .. Capacity /\ n + (size - n) = size
    BY CapacityAssumption DEF IInv, TypeOK
  <1>2. tail' \in Cells
    BY <1>1, AdvanceInCells
  <1>3. Advance(tail', size') = Advance(tail, size)
    BY <1>1, AdvanceAdds
  <1>4. QED
    BY <1>1, <1>2, <1>3 DEF IInv, TypeOK, IndicesAgree

LEMMA KeptByPopFront ==
  ASSUME IInv, NEW wanted \in BOOLEAN, PopFront(wanted)
  PROVE  IInv'
  <1>1. CASE size = 0
    BY <1>1 DEF IInv, TypeOK, IndicesAgree, PopFront
  <1>2. CASE size # 0
    <2>1. /\ 1 \in 0 .. size /\ data[tail] \in Byte
      BY <1>2, CapacityAssumption DEF IInv, TypeOK
    <2>2. QED
      BY <1>2, <2>1, KeptByTaking DEF PopFront, IInv, TypeOK
  <1>3. QED  BY <1>1, <1>2

LEMMA KeptByDropFront ==
  ASSUME IInv, NEW n \in 0 .. MaxChunk, DropFront(n)
  PROVE  IInv'
  <1>1. Lesser(n, size) \in 0 .. size /\ Lesser(n, size) \in Nat
    BY CapacityAssumption, ChunkAssumption DEF Lesser, IInv, TypeOK
  <1>2. QED
    BY <1>1, KeptByTaking DEF DropFront, IInv, TypeOK

\* Even where the 16-bit sum is cut, peek reads inside the storage.
LEMMA OffsetInCells ==
  ASSUME NEW base \in Cells, NEW offset \in Cells
  PROVE  OffsetIndex(base, offset) \in Cells
  <1>1. CASE base + offset < IndexRange
    BY <1>1, OffsetIsAdvance, AdvanceInCells, CapacityAssumption DEF Cells
  <1>2. CASE base + offset >= IndexRange
    <2>1. base + offset - IndexRange \in 0 .. IndexRange - 1
      BY <1>2, CapacityAssumption, RangeAssumption DEF Cells
    <2>2. (base + offset) % IndexRange = base + offset - IndexRange
      BY <2>1, RangeAssumption, CapacityAssumption DEF Cells
    <2>3. base + offset - IndexRange < Capacity
      BY CapacityAssumption, RangeAssumption DEF Cells
    <2>4. QED
      BY <2>1, <2>2, <2>3, CapacityAssumption DEF OffsetIndex, Cells
  <1>3. QED
    BY <1>1, <1>2, CapacityAssumption, RangeAssumption DEF Cells

LEMMA KeptByPeek ==
  ASSUME IInv, NEW index \in 0 .. Capacity, NEW wanted \in BOOLEAN, Peek(index, wanted)
  PROVE  IInv'
  <1>1. CASE index >= size
    BY <1>1, CapacityAssumption DEF IInv, TypeOK, IndicesAgree, Peek
  <1>2. CASE index < size
    <2>1. index \in Cells
      BY <1>2, CapacityAssumption DEF IInv, TypeOK, Cells
    <2>2. data[OffsetIndex(tail, index)] \in Byte
      BY <2>1, OffsetInCells DEF IInv, TypeOK
    <2>3. out' \in Byte /\ ret' \in Nat
      BY <1>2, <2>2, CapacityAssumption DEF Peek, IInv, TypeOK
    <2>4. QED
      BY <2>3 DEF Peek, IInv, TypeOK, IndicesAgree
  <1>3. QED
    BY <1>1, <1>2, CapacityAssumption DEF IInv, TypeOK

LEMMA KeptByPushBytes ==
  ASSUME IInv, NEW n \in 0 .. MaxChunk, NEW bytes \in [1 .. n -> Byte], Len(bytes) = n,
         PushBytes(bytes)
  PROVE  IInv'
  <1> DEFINE written == Lesser(n, Capacity - size)
  <1>1. /\ written \in 0 .. Capacity /\ written <= n /\ written \in Nat
        /\ size + written \in 0 .. Capacity
    BY CapacityAssumption, ChunkAssumption DEF IInv, TypeOK, Lesser
  <1>2. /\ data' = [c \in Cells |-> IF Distance(head, c) < written
                                    THEN bytes[Distance(head, c) + 1] ELSE data[c]]
        /\ head' = Advance(head, written) /\ size' = size + written
        /\ tail' = tail /\ out' = out /\ ret' = written
    BY DEF PushBytes
  <1>3. data' \in [Cells -> Byte]
    <2>1. ASSUME NEW c \in Cells, Distance(head, c) < written
          PROVE  Distance(head, c) + 1 \in 1 .. n
      BY <2>1, <1>1, CapacityAssumption, ChunkAssumption DEF Distance, Cells, IInv, TypeOK
    <2>2. ASSUME NEW c \in Cells
          PROVE  (IF Distance(head, c) < written
                  THEN bytes[Distance(head, c) + 1] ELSE data[c]) \in Byte
      BY <2>1 DEF IInv, TypeOK
    <2>3. QED  BY <1>2, <2>2
  <1>4. head' = Advance(tail, size + written)
    BY <1>1, <1>2, AdvanceAdds DEF IInv, TypeOK, IndicesAgree
  <1>5. head' \in Cells
    BY <1>1, <1>4, AdvanceInCells DEF IInv, TypeOK
  <1>6. QED
    BY <1>1, <1>2, <1>3, <1>4, <1>5 DEF IInv, TypeOK, IndicesAgree

LEMMA KeptByNext == IInv /\ [Next]_vars => IInv'
  <1> SUFFICES ASSUME IInv, [Next]_vars PROVE IInv'
    OBVIOUS
  <1>1. CASE Reinit \/ Clear
    BY <1>1, KeptByReset
  <1>2. ASSUME NEW v \in Byte, PushBack(v) PROVE IInv'
    BY <1>2, KeptByPushBack
  <1>3. ASSUME NEW wanted \in BOOLEAN, PopFront(wanted) PROVE IInv'
    BY <1>3, KeptByPopFront
  <1>4. ASSUME NEW index \in 0 .. Capacity, NEW wanted \in BOOLEAN, Peek(index, wanted)
        PROVE  IInv'
    BY <1>4, KeptByPeek
  <1>5. ASSUME NEW n \in 0 .. MaxChunk, NEW bytes \in [1 .. n -> Byte], PushBytes(bytes)
        PROVE  IInv'
    <2>1. Len(bytes) = n
      BY ChunkAssumption
    <2>2. QED  BY <1>5, <2>1, KeptByPushBytes
  <1>6. ASSUME NEW n \in 0 .. MaxChunk, DropFront(n) PROVE IInv'
    BY <1>6, KeptByDropFront
  <1>7. CASE UNCHANGED vars
    BY <1>7 DEF vars, IInv, TypeOK, IndicesAgree
  <1>8. QED
    BY <1>1, <1>2, <1>3, <1>4, <1>5, <1>6, <1>7 DEF Next

\* The indices stay inside the storage for every capacity the index type
\* holds, the capacities where peek goes wrong included.
THEOREM TypeCorrect == Spec => []TypeOK
  <1>1. IInv => TypeOK
    BY DEF IInv
  <1>2. QED  BY <1>1, Initially, KeptByNext, PTL DEF Spec

\* head, tail and size never disagree (fx5_ringbuf.c keeps all three).
THEOREM CountersAgree == Spec => []IndicesAgree
  <1>1. IInv => IndicesAgree
    BY DEF IInv
  <1>2. QED  BY <1>1, Initially, KeptByNext, PTL DEF Spec

\* Where every sum of two cells fits the index type, peek counts from the
\* oldest byte; 16-bit indices fit capacities up to 32768.
THEOREM PeekCountsFromOldest ==
  ASSUME 2 * Capacity - 2 < IndexRange
  PROVE  Spec => []PeekInOrder
  <1>1. IInv => PeekInOrder
    <2> SUFFICES ASSUME IInv, NEW i \in 0 .. size - 1
                 PROVE  OffsetIndex(tail, i) = Advance(tail, i)
      BY DEF PeekInOrder
    <2>1. tail \in Cells /\ i \in Cells /\ tail + i < IndexRange
      BY CapacityAssumption, RangeAssumption DEF IInv, TypeOK, Cells
    <2>2. QED  BY <2>1, OffsetIsAdvance
  <1>2. QED  BY <1>1, Initially, KeptByNext, PTL DEF Spec
-----------------------------------------------------------------------------
\* Refinement.  Each operation, seen through Contents, is one of the queue's.

LEMMA ContentsIsSeq ==
  ASSUME IInv
  PROVE  Contents \in Seq(Byte) /\ Len(Contents) = size
  <1>1. ASSUME NEW i \in 1 .. size PROVE data[Advance(tail, i - 1)] \in Byte
    BY AdvanceInCells, CapacityAssumption DEF IInv, TypeOK
  <1>2. Contents \in [1 .. size -> Byte]
    BY <1>1 DEF Contents
  <1>3. QED  BY <1>2, CapacityAssumption DEF IInv, TypeOK

LEMMA ResetRefines == IInv /\ (Reinit \/ Clear) => Queue!Reset
  <1> SUFFICES ASSUME IInv, Reinit \/ Clear PROVE Queue!Reset
    OBVIOUS
  <1>1. Contents' = <<>>
    BY DEF Contents, Reinit, Clear, Empty
  <1>2. QED  BY <1>1 DEF Queue!Reset, Reinit, Clear, Empty

\* Taking n bytes off the front leaves the rest of the sequence.
LEMMA TakingRefines ==
  ASSUME IInv, NEW n \in 0 .. size,
         tail' = Advance(tail, n), size' = size - n, data' = data
  PROVE  Contents' = SubSeq(Contents, n + 1, Len(Contents))
  <1>1. /\ tail \in Cells /\ size \in 0 .. Capacity /\ n \in 0 .. Capacity
        /\ size - n \in 0 .. Capacity
    BY CapacityAssumption DEF IInv, TypeOK
  <1>2. ASSUME NEW i \in 1 .. size - n
        PROVE  Advance(tail', i - 1) = Advance(tail, i + n - 1)
    <2>1. i - 1 \in 0 .. Capacity /\ n + (i - 1) <= Capacity
      BY <1>1, CapacityAssumption
    <2>2. QED  BY <1>1, <2>1, AdvanceAdds
  <1>3. Contents' = [i \in 1 .. size - n |-> data[Advance(tail', i - 1)]]
    BY DEF Contents
  <1>4. Contents' = [i \in 1 .. size - n |-> data[Advance(tail, i + n - 1)]]
    BY <1>2, <1>3
  <1>5. Contents = [i \in 1 .. size |-> data[Advance(tail, i - 1)]] /\ Len(Contents) = size
    BY ContentsIsSeq DEF Contents
  <1>6. SubSeq(Contents, n + 1, size) = [i \in 1 .. size - n |-> Contents[i + n]]
    BY <1>1, <1>5, ContentsIsSeq
  <1>7. ASSUME NEW i \in 1 .. size - n
        PROVE  Contents[i + n] = data[Advance(tail, i + n - 1)]
    BY <1>1, <1>5
  <1>8. QED  BY <1>4, <1>5, <1>6, <1>7

\* Putting a prefix of the bytes behind the head appends it to the sequence.
LEMMA PuttingRefines ==
  ASSUME IInv, NEW n \in Nat, NEW bytes \in [1 .. n -> Byte], Len(bytes) = n,
         NEW k \in 0 .. n, size + k <= Capacity,
         data' = [c \in Cells |-> IF Distance(head, c) < k
                                  THEN bytes[Distance(head, c) + 1] ELSE data[c]],
         size' = size + k, tail' = tail
  PROVE  Contents' = Contents \o SubSeq(bytes, 1, k)
  <1>1. /\ tail \in Cells /\ size \in 0 .. Capacity /\ k \in 0 .. Capacity
        /\ data \in [Cells -> Byte] /\ head \in Cells
    BY CapacityAssumption DEF IInv, TypeOK
  <1>2. ASSUME NEW i \in 1 .. size
        PROVE  data'[Advance(tail, i - 1)] = data[Advance(tail, i - 1)]
    <2>1. Advance(tail, i - 1) \in Cells
      BY <1>1, AdvanceInCells, CapacityAssumption
    <2>2. Distance(head, Advance(tail, i - 1)) >= k
      BY <1>1, CapacityAssumption DEF IInv, IndicesAgree, Distance, Advance, Cells
    <2>3. Distance(head, Advance(tail, i - 1)) \in Int
      BY <1>1, <2>1, CapacityAssumption DEF Distance, Cells
    <2>4. QED  BY <1>1, <2>1, <2>2, <2>3
  <1>3. ASSUME NEW j \in 1 .. k
        PROVE  data'[Advance(tail, size + j - 1)] = bytes[j]
    <2>1. /\ j - 1 \in 0 .. Capacity /\ size + (j - 1) <= Capacity
          /\ j - 1 \in 0 .. Capacity - 1
      BY <1>1, CapacityAssumption
    <2>2. Advance(head, j - 1) = Advance(tail, size + j - 1)
      BY <1>1, <2>1, AdvanceAdds DEF IInv, IndicesAgree
    <2>3. Advance(head, j - 1) \in Cells /\ Distance(head, Advance(head, j - 1)) = j - 1
      BY <1>1, <2>1, AdvanceInCells, DistanceInverts
    <2>4. data'[Advance(head, j - 1)] = bytes[j]
      BY <2>1, <2>3
    <2>5. QED  BY <2>2, <2>4
  <1>4. Contents' = [i \in 1 .. size + k |-> data'[Advance(tail, i - 1)]]
    BY DEF Contents
  <1>5. Contents = [i \in 1 .. size |-> data[Advance(tail, i - 1)]]
        /\ Len(Contents) = size /\ Contents \in Seq(Byte)
    BY ContentsIsSeq DEF Contents
  <1>6. SubSeq(bytes, 1, k) = [j \in 1 .. k |-> bytes[j]] /\ Len(SubSeq(bytes, 1, k)) = k
        /\ SubSeq(bytes, 1, k) \in Seq(Byte)
    BY <1>1
  <1>7. Contents \o SubSeq(bytes, 1, k)
          = [i \in 1 .. size + k |-> IF i <= size THEN Contents[i] ELSE bytes[i - size]]
    BY <1>1, <1>5, <1>6
  <1>8. ASSUME NEW i \in 1 .. size + k
        PROVE  data'[Advance(tail, i - 1)] = IF i <= size THEN Contents[i] ELSE bytes[i - size]
    <2>1. CASE i <= size
      BY <1>1, <1>2, <1>5, <2>1
    <2>2. CASE i > size
      <3>1. i - size \in 1 .. k /\ size + (i - size) - 1 = i - 1
        BY <1>1, <2>2
      <3>2. QED  BY <1>1, <1>3, <2>2, <3>1
    <2>3. QED  BY <1>1, <2>1, <2>2
  <1>9. QED  BY <1>4, <1>7, <1>8

LEMMA PushBackRefines ==
  ASSUME IInv, NEW v \in Byte, PushBack(v)
  PROVE  Queue!Next
  <1>1. CASE size = Capacity
    <2>1. Contents' = Contents
      BY <1>1 DEF PushBack, Contents
    <2>2. QED  BY <1>1, <2>1 DEF PushBack, Queue!Next, Queue!Answer
  <1>2. CASE size # Capacity
    <2> DEFINE bytes == [i \in 1 .. 1 |-> v]
    <2>1. bytes \in [1 .. 1 -> Byte] /\ Len(bytes) = 1 /\ 1 \in 0 .. MaxChunk
      BY ChunkAssumption
    <2>2. size + 1 <= Capacity /\ size \in 0 .. Capacity
      BY <1>2, CapacityAssumption DEF IInv, TypeOK
    <2>3. data' = [c \in Cells |-> IF Distance(head, c) < 1
                                   THEN bytes[Distance(head, c) + 1] ELSE data[c]]
      <3>1. ASSUME NEW c \in Cells
            PROVE  Distance(head, c) \in Nat /\ (Distance(head, c) < 1 <=> c = head)
        BY CapacityAssumption DEF Distance, Cells, IInv, TypeOK
      <3>2. data' = [data EXCEPT ![head] = v] /\ data \in [Cells -> Byte]
        BY <1>2 DEF PushBack, IInv, TypeOK
      <3>3. ASSUME NEW c \in Cells, Distance(head, c) < 1
            PROVE  bytes[Distance(head, c) + 1] = v
        BY <3>1, <3>3
      <3>4. QED  BY <3>1, <3>2, <3>3
    <2>4. Contents' = Contents \o SubSeq(bytes, 1, 1)
      <3>1. size' = size + 1 /\ tail' = tail /\ 1 \in Nat /\ 1 \in 0 .. 1
        BY <1>2 DEF PushBack
      <3> HIDE DEF bytes
      <3>2. QED  BY <2>1, <2>2, <2>3, <3>1, PuttingRefines
    <2>5. Queue!Smaller(Len(bytes), Capacity - Len(Contents)) = 1
      BY <2>1, <2>2, ContentsIsSeq, CapacityAssumption DEF Queue!Smaller
    <2>6. Queue!Put(bytes)
      BY <1>2, <2>4, <2>5 DEF Queue!Put, PushBack
    <2>7. QED  BY <2>1, <2>6 DEF Queue!Next
  <1>3. QED  BY <1>1, <1>2

LEMMA PopFrontRefines ==
  ASSUME IInv, NEW wanted \in BOOLEAN, PopFront(wanted)
  PROVE  Queue!Next
  <1>1. CASE size = 0
    BY <1>1 DEF PopFront, Contents, Queue!Next, Queue!Answer
  <1>2. CASE size # 0
    <2>1. 1 \in 0 .. size /\ size \in 1 .. Capacity /\ 1 \in 0 .. MaxChunk
      BY <1>2, CapacityAssumption, ChunkAssumption DEF IInv, TypeOK
    <2>2. Contents' = SubSeq(Contents, 2, Len(Contents))
      BY <1>2, <2>1, TakingRefines DEF PopFront
    <2>3. Contents \in Seq(Byte) /\ Len(Contents) = size /\ Contents # <<>>
      BY <2>1, ContentsIsSeq
    <2>4. CASE wanted
      <3>1. Contents[1] = data[tail]
        BY <2>1, CapacityAssumption DEF Contents, Advance, IInv, TypeOK, Cells
      <3>2. Head(Contents) = data[tail] /\ Tail(Contents) = Contents'
        BY <2>2, <2>3, <3>1
      <3>3. QED
        BY <1>2, <2>3, <2>4, <3>2 DEF PopFront, Queue!Next, Queue!Pop
    <2>5. CASE ~wanted
      <3>1. Queue!Smaller(1, Len(Contents)) = 1
        BY <2>1, <2>3 DEF Queue!Smaller
      <3>2. Queue!Drop(1)
        BY <1>2, <2>2, <2>5, <3>1 DEF PopFront, Queue!Drop
      <3>3. QED  BY <2>1, <3>2 DEF Queue!Next
    <2>6. QED  BY <2>4, <2>5
  <1>3. QED  BY <1>1, <1>2

LEMMA DropFrontRefines ==
  ASSUME IInv, NEW n \in 0 .. MaxChunk, DropFront(n)
  PROVE  Queue!Next
  <1>1. Lesser(n, size) \in 0 .. size /\ size \in 0 .. Capacity
    BY CapacityAssumption, ChunkAssumption DEF Lesser, IInv, TypeOK
  <1>2. Queue!Smaller(n, Len(Contents)) = Lesser(n, size)
    BY ContentsIsSeq DEF Queue!Smaller, Lesser
  <1>3. Contents' = SubSeq(Contents, Lesser(n, size) + 1, Len(Contents))
    BY <1>1, TakingRefines DEF DropFront
  <1>4. Queue!Drop(n)
    BY <1>2, <1>3 DEF Queue!Drop, DropFront
  <1>5. QED  BY <1>4 DEF Queue!Next

LEMMA PeekRefines ==
  ASSUME 2 * Capacity - 2 < IndexRange, IInv,
         NEW index \in 0 .. Capacity, NEW wanted \in BOOLEAN, Peek(index, wanted)
  PROVE  Queue!Next
  <1>1. Contents' = Contents
    BY DEF Peek, Contents
  <1>2. CASE index >= size \/ ~wanted
    <2>1. ret' \in {0, 1} /\ out' = out
      BY <1>2, CapacityAssumption DEF Peek, IInv, TypeOK
    <2>2. QED  BY <1>1, <2>1 DEF Queue!Next, Queue!Answer
  <1>3. CASE index < size /\ wanted
    <2>1. /\ index \in 0 .. Capacity - 1 /\ index \in Cells /\ tail \in Cells
          /\ index < Len(Contents) /\ index + 1 \in 1 .. size /\ size \in 0 .. Capacity
      BY <1>3, ContentsIsSeq, CapacityAssumption DEF IInv, TypeOK, Cells
    <2>2. OffsetIndex(tail, index) = Advance(tail, index)
      <3>1. tail + index < IndexRange
        BY <2>1, CapacityAssumption, RangeAssumption DEF Cells
      <3>2. QED  BY <2>1, <3>1, OffsetIsAdvance
    <2>3. Contents[index + 1] = data[Advance(tail, index)]
      BY <2>1 DEF Contents
    <2>4. out' = Contents[index + 1] /\ ret' = 1
      BY <1>3, <2>1, <2>2, <2>3 DEF Peek
    <2>5. Queue!Look(index)
      BY <1>1, <2>1, <2>4 DEF Queue!Look
    <2>6. QED  BY <2>1, <2>5 DEF Queue!Next
  <1>4. QED
    BY <1>2, <1>3, CapacityAssumption DEF IInv, TypeOK

LEMMA PushBytesRefines ==
  ASSUME IInv, NEW n \in 0 .. MaxChunk, NEW bytes \in [1 .. n -> Byte], Len(bytes) = n,
         PushBytes(bytes)
  PROVE  Queue!Next
  <1> DEFINE k == Lesser(n, Capacity - size)
  <1>1. /\ k \in 0 .. n /\ size + k <= Capacity /\ n \in Nat
    BY CapacityAssumption, ChunkAssumption DEF IInv, TypeOK, Lesser
  <1>2. Queue!Smaller(Len(bytes), Capacity - Len(Contents)) = k
    BY ContentsIsSeq DEF Queue!Smaller, Lesser
  <1>3. Contents' = Contents \o SubSeq(bytes, 1, k)
    BY <1>1, PuttingRefines DEF PushBytes
  <1>4. Queue!Put(bytes)
    BY <1>2, <1>3 DEF Queue!Put, PushBytes
  <1>5. QED  BY <1>4 DEF Queue!Next

LEMMA StepRefines ==
  ASSUME 2 * Capacity - 2 < IndexRange, IInv, [Next]_vars
  PROVE  [Queue!Next]_(Queue!vars)
  <1>1. CASE Reinit \/ Clear
    BY <1>1, ResetRefines DEF Queue!Next
  <1>2. ASSUME NEW v \in Byte, PushBack(v) PROVE Queue!Next
    BY <1>2, PushBackRefines
  <1>3. ASSUME NEW wanted \in BOOLEAN, PopFront(wanted) PROVE Queue!Next
    BY <1>3, PopFrontRefines
  <1>4. ASSUME NEW index \in 0 .. Capacity, NEW wanted \in BOOLEAN, Peek(index, wanted)
        PROVE  Queue!Next
    BY <1>4, PeekRefines
  <1>5. ASSUME NEW n \in 0 .. MaxChunk, NEW bytes \in [1 .. n -> Byte], PushBytes(bytes)
        PROVE  Queue!Next
    <2>1. Len(bytes) = n
      BY ChunkAssumption
    <2>2. QED  BY <1>5, <2>1, PushBytesRefines
  <1>6. ASSUME NEW n \in 0 .. MaxChunk, DropFront(n) PROVE Queue!Next
    BY <1>6, DropFrontRefines
  <1>7. CASE UNCHANGED vars
    BY <1>7 DEF vars, Queue!vars, Contents
  <1>8. QED
    BY <1>1, <1>2, <1>3, <1>4, <1>5, <1>6, <1>7 DEF Next

LEMMA StartRefines == Init => Queue!Init
  BY DEF Init, Queue!Init, Contents

\* The circular buffer implements the FIFO queue wherever every sum of two
\* cells fits the index type.
THEOREM ImplementsQueue ==
  ASSUME 2 * Capacity - 2 < IndexRange
  PROVE  Spec => Fifo
  <1>1. IInv /\ [Next]_vars => [Queue!Next]_(Queue!vars)
    BY StepRefines
  <1>2. QED
    BY <1>1, Initially, KeptByNext, StartRefines, PTL DEF Spec, Fifo, Queue!Spec
=============================================================================
