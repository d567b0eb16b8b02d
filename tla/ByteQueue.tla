----------------------------- MODULE ByteQueue -----------------------------
(***************************************************************************)
(* What the receive buffer of the library promises: a bounded first-in     *)
(* first-out queue of bytes.  The queue is a sequence, oldest byte first;  *)
(* `ret` is what the last call returned and `out` the caller's variable an *)
(* out_value pointer refers to, which only a successful call writes.       *)
(***************************************************************************)
EXTENDS Integers, Sequences

CONSTANTS
  Byte,      \* the values a byte can take
  Capacity,  \* bytes the queue can hold
  MaxChunk   \* bound: bytes one bulk call carries

VARIABLES q, ret, out

vars == <<q, ret, out>>

Smaller(a, b) == IF a < b THEN a ELSE b

Init ==
  /\ q = <<>>
  /\ ret = 0
  /\ out \in Byte

\* A reset answers 1 (fx5_ringbuf_init) or nothing (fx5_ringbuf_clear).
Reset ==
  /\ q' = <<>>
  /\ ret' \in {1, ret}
  /\ out' = out

\* The longest prefix of the bytes that fits is stored; the answer is its length.
Put(bytes) ==
  LET n == Smaller(Len(bytes), Capacity - Len(q)) IN
    /\ q' = q \o SubSeq(bytes, 1, n)
    /\ ret' = n
    /\ out' = out

\* The n oldest bytes leave, or all of them; the answer is how many left.
Drop(n) ==
  LET k == Smaller(n, Len(q)) IN
    /\ q' = SubSeq(q, k + 1, Len(q))
    /\ ret' = k
    /\ out' = out

\* The oldest byte leaves and is handed to the caller.
Pop ==
  /\ q # <<>>
  /\ q' = Tail(q)
  /\ ret' = 1
  /\ out' = Head(q)

\* The byte that i drops would bring to the front is shown, nothing leaves.
Look(i) ==
  /\ i < Len(q)
  /\ out' = q[i + 1]
  /\ ret' = 1
  /\ q' = q

\* A call with nothing to do, or without an out_value pointer, writes nothing.
Answer ==
  /\ ret' \in {0, 1}
  /\ UNCHANGED <<q, out>>

Next ==
  \/ Reset
  \/ \E n \in 0 .. MaxChunk : \E bytes \in [1 .. n -> Byte] : Put(bytes)
  \/ \E n \in 0 .. MaxChunk : Drop(n)
  \/ Pop
  \/ \E i \in 0 .. Capacity - 1 : Look(i)
  \/ Answer

Spec == Init /\ [][Next]_vars
=============================================================================
