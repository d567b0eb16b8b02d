------------------------------ MODULE RingBuf ------------------------------
(***************************************************************************)
(* fx5_ringbuf.c: the circular buffer the response bytes wait in.  head is *)
(* the cell the next byte goes to, tail the cell of the oldest byte.  Both *)
(* advance one cell at a time; only fx5_ringbuf_peek computes a cell by    *)
(* adding an offset, in 16-bit arithmetic: IndexRange is 2^16 there.       *)
(***************************************************************************)
EXTENDS Integers, Sequences

CONSTANTS
  Byte,        \* the values a byte can take
  Capacity,    \* cells of the storage
  IndexRange,  \* the index type holds 0 .. IndexRange - 1
  MaxChunk     \* bound: bytes one bulk call carries

ASSUME CapacityAssumption == Capacity \in Nat \ {0}
ASSUME RangeAssumption    == IndexRange \in Nat /\ Capacity < IndexRange
ASSUME ChunkAssumption    == MaxChunk \in Nat \ {0}

VARIABLES data, head, tail, size, ret, out

vars == <<data, head, tail, size, ret, out>>

Cells == 0 .. Capacity - 1

Lesser(a, b) == IF a < b THEN a ELSE b

\* Mutant of Advance: the wrap comes one cell late.
AdvanceLate(cell, n) == IF cell + n > Capacity THEN cell + n - Capacity ELSE cell + n

\* The cell that n single advances lead to, n <= Capacity.
Advance(cell, n) == IF cell + n >= Capacity THEN cell + n - Capacity ELSE cell + n

\* Mutant of OffsetIndex: the capacity itself is taken for a cell.
OffsetIndexLate(base, offset) ==
  LET pos == (base + offset) % IndexRange
  IN  IF pos > Capacity THEN pos - Capacity ELSE pos

\* The cell peek computes: the sum is cut to the index type before the wrap.
OffsetIndex(base, offset) ==
  LET pos == (base + offset) % IndexRange
  IN  IF pos >= Capacity THEN pos - Capacity ELSE pos

\* How many advances lead from one cell to another.
Distance(from, to) == IF to >= from THEN to - from ELSE to - from + Capacity
-----------------------------------------------------------------------------
\* The storage is the caller's: it is never cleared, so it may hold anything.
Init ==
  /\ data \in [Cells -> Byte]
  /\ head = 0 /\ tail = 0 /\ size = 0
  /\ ret = 0
  /\ out \in Byte

Empty == head' = 0 /\ tail' = 0 /\ size' = 0 /\ UNCHANGED <<data, out>>

Reinit == Empty /\ ret' = 1

Clear == Empty /\ UNCHANGED ret

PushBack(v) ==
  \/ /\ size = Capacity
     /\ ret' = 0
     /\ UNCHANGED <<data, head, tail, size, out>>
  \/ /\ size # Capacity
     /\ data' = [data EXCEPT ![head] = v]
     /\ head' = Advance(head, 1)
     /\ size' = size + 1
     /\ ret' = 1
     /\ UNCHANGED <<tail, out>>

\* `wanted` says that the caller passed an out_value pointer.
PopFront(wanted) ==
  \/ /\ size = 0
     /\ ret' = 0
     /\ UNCHANGED <<data, head, tail, size, out>>
  \/ /\ size # 0
     /\ out' = IF wanted THEN data[tail] ELSE out
     /\ tail' = Advance(tail, 1)
     /\ size' = size - 1
     /\ ret' = 1
     /\ UNCHANGED <<data, head>>

Peek(index, wanted) ==
  /\ \/ index >= size /\ ret' = 0 /\ out' = out
     \/ index < size /\ ret' = 1 /\ out' = IF wanted THEN data[OffsetIndex(tail, index)] ELSE out
  /\ UNCHANGED <<data, head, tail, size>>

\* Mutant of PushBytes: the answer counts the bytes that were refused too.
PushBytesAsked(bytes) ==
  LET written == Lesser(Len(bytes), Capacity - size) IN
    /\ data' = [c \in Cells |-> IF Distance(head, c) < written
                                THEN bytes[Distance(head, c) + 1] ELSE data[c]]
    /\ head' = Advance(head, written)
    /\ size' = size + written
    /\ ret' = Len(bytes)
    /\ UNCHANGED <<tail, out>>

\* Bytes are pushed one by one until one is refused.
PushBytes(bytes) ==
  LET written == Lesser(Len(bytes), Capacity - size) IN
    /\ data' = [c \in Cells |-> IF Distance(head, c) < written
                                THEN bytes[Distance(head, c) + 1] ELSE data[c]]
    /\ head' = Advance(head, written)
    /\ size' = size + written
    /\ ret' = written
    /\ UNCHANGED <<tail, out>>

\* Mutant of DropFront: the tail moves even when the buffer has run empty.
DropFrontBlind(count) ==
  LET dropped == Lesser(count, size) IN
    /\ tail' = Advance(tail, Lesser(count, Capacity))
    /\ size' = size - dropped
    /\ ret' = dropped
    /\ UNCHANGED <<data, head, out>>

DropFront(count) ==
  LET dropped == Lesser(count, size) IN
    /\ tail' = Advance(tail, dropped)
    /\ size' = size - dropped
    /\ ret' = dropped
    /\ UNCHANGED <<data, head, out>>

Next ==
  \/ Reinit
  \/ Clear
  \/ \E v \in Byte : PushBack(v)
  \/ \E wanted \in BOOLEAN : PopFront(wanted)
  \/ \E index \in 0 .. Capacity, wanted \in BOOLEAN : Peek(index, wanted)
  \/ \E n \in 0 .. MaxChunk : \E bytes \in [1 .. n -> Byte] : PushBytes(bytes)
  \/ \E n \in 0 .. MaxChunk : DropFront(n)

Spec == Init /\ [][Next]_vars
-----------------------------------------------------------------------------
\* The types of the state: the indices stay inside the storage.
TypeOK ==
  /\ data \in [Cells -> Byte]
  /\ head \in Cells
  /\ tail \in Cells
  /\ size \in 0 .. Capacity
  /\ ret \in Nat
  /\ out \in Byte

\* The three counters agree: the write cell lies exactly `size` advances
\* after the cell of the oldest byte, whatever mix of single and bulk calls
\* ran (fx5_ringbuf.c keeps size apart from head and tail).
IndicesAgree == head = Advance(tail, size)

\* A peek at index i shows the byte that i drops would bring to the front
\* ("Index 0 refers to the oldest byte", fx5_ringbuf.h), for every index.
PeekInOrder == \A i \in 0 .. size - 1 : OffsetIndex(tail, i) = Advance(tail, i)

\* The bytes in the buffer, oldest first.
Contents == [i \in 1 .. size |-> data[Advance(tail, i - 1)]]

Queue == INSTANCE ByteQueue WITH q <- Contents

\* The circular buffer is a bounded FIFO queue of bytes.
Fifo == Queue!Spec
=============================================================================
