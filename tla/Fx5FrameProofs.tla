-------------------------- MODULE Fx5FrameProofs --------------------------
(***************************************************************************)
(* Facts about the search for a response in closed form, for every layout  *)
(* of the header, every buffer size and limit, and buffers of every        *)
(* length.  The other proofs about parsing rest on them.                   *)
(***************************************************************************)
EXTENDS Fx5Frame, SequenceTheorems, WellFoundedInduction, TLAPS

Bytes == 0 .. 255

\* A set of natural numbers that is not empty has a least element.
LEMMA LeastExists ==
  ASSUME NEW S, S \subseteq Nat, S # {}
  PROVE  Min(S) \in S /\ \A x \in S : Min(S) <= x
  <1> DEFINE R == OpToRel(<, Nat)
  <1>1. \A x, y \in Nat : <<x, y>> \in R <=> x < y
    BY DEF OpToRel
  <1>2. IsWellFoundedOn(R, Nat)
    BY NatLessThanWellFounded
  <1> HIDE DEF R
  <1>3. \E x \in S : \A y \in S : ~(<<y, x>> \in R)
    BY <1>2, WFMin
  <1>4. PICK x \in S : \A y \in S : ~(<<y, x>> \in R)
    BY <1>3
  <1>5. ASSUME NEW y \in S PROVE x <= y
    <2>1. x \in Nat /\ y \in Nat
      OBVIOUS
    <2>2. ~(y < x)
      BY <2>1, <1>1, <1>4
    <2>3. QED  BY <2>1, <2>2
  <1>6. QED  BY <1>5 DEF Min

\* The least element of a set is the one that is least.
LEMMA LeastIs ==
  ASSUME NEW S, S \subseteq Nat, NEW m \in S, \A x \in S : m <= x
  PROVE  Min(S) = m
  <1>1. Min(S) \in S /\ Min(S) <= m
    BY LeastExists
  <1>2. m <= Min(S)
    BY <1>1
  <1>3. Min(S) \in Nat /\ m \in Nat
    BY <1>1
  <1>4. QED  BY <1>1, <1>2, <1>3

\* A function on 1 .. n is a sequence.
LEMMA FunctionIsSeq ==
  ASSUME NEW S, NEW n \in Nat, NEW f \in [1 .. n -> S]
  PROVE  f \in Seq(S) /\ Len(f) = n
  <1>1. f \in Seq(S)
    BY SeqDef
  <1>2. Len(f) \in Nat /\ 1 .. Len(f) = 1 .. n
    BY <1>1, LenProperties
  <1>3. QED  BY <1>1, <1>2

\* A recursion along a sequence defines its values, and they stay in their set:
\* otherwise there is a least index where it fails.
Follows(g, a, n, F) == g[0] = a /\ \A i \in 1 .. n : g[i] = F[<<g[i - 1], i>>]

LEMMA RecursionDefines ==
  ASSUME NEW V, NEW a \in V, NEW n \in Nat, NEW F \in [V \X (1 .. n) -> V]
  PROVE  \E g \in [0 .. n -> V] : Follows(g, a, n, F)
  <1> DEFINE Upto(g, m) == g[0] = a /\ \A i \in 1 .. m : g[i] = F[<<g[i - 1], i>>]
  <1>1. ASSUME NEW m \in 0 .. n, \A k \in 0 .. m - 1 : \E g \in [0 .. k -> V] : Upto(g, k)
        PROVE  \E g \in [0 .. m -> V] : Upto(g, m)
    <2>1. CASE m = 0
      <3> DEFINE g == [i \in 0 .. 0 |-> a]
      <3>1. g \in [0 .. m -> V] /\ Upto(g, m)
        BY <2>1
      <3>2. QED  BY <3>1
    <2>2. CASE m # 0
      <3>1. m - 1 \in 0 .. m - 1 /\ m \in 1 .. n /\ m \in Nat
        BY <2>2
      <3>2. PICK g \in [0 .. m - 1 -> V] : Upto(g, m - 1)
        BY <1>1, <3>1
      <3> DEFINE h == [i \in 0 .. m |-> IF i = m THEN F[<<g[m - 1], m>>] ELSE g[i]]
      <3>3. h \in [0 .. m -> V]
        BY <3>1, <3>2
      <3>4. h[m] = F[<<g[m - 1], m>>] /\ \A i \in 0 .. m - 1 : h[i] = g[i]
        BY <3>1
      <3> HIDE DEF h
      <3>5. ASSUME NEW i \in 1 .. m PROVE h[i] = F[<<h[i - 1], i>>]
        <4>1. i - 1 \in 0 .. m - 1 /\ (i = m \/ i \in 1 .. m - 1)
          BY <3>1
        <4>2. QED  BY <3>1, <3>2, <3>4, <4>1
      <3>6. h[0] = a
        BY <2>2, <3>1, <3>2, <3>4
      <3>7. QED  BY <3>3, <3>5, <3>6
    <2>3. QED  BY <2>1, <2>2
  <1>2. \E g \in [0 .. n -> V] : Upto(g, n)
    <2> DEFINE bad == {m \in 0 .. n : ~\E g \in [0 .. m -> V] : Upto(g, m)}
    <2> HIDE DEF Upto
    <2>1. SUFFICES ASSUME bad # {} PROVE FALSE
      BY DEF bad
    <2>2. bad \subseteq Nat
      OBVIOUS
    <2>3. Min(bad) \in bad /\ \A x \in bad : Min(bad) <= x
      <3> HIDE DEF bad
      <3>1. QED  BY <2>1, <2>2, LeastExists
    <2>4. PICK m \in bad : \A x \in bad : m <= x
      BY <2>3
    <2>5. m \in 0 .. n /\ \A k \in 0 .. m - 1 : k \in 0 .. n /\ k \notin bad
      <3>1. m \in 0 .. n
        BY <2>4
      <3>2. ASSUME NEW k \in 0 .. m - 1 PROVE k \in 0 .. n /\ k \notin bad
        <4> HIDE DEF bad
        <4>1. k \in 0 .. n /\ ~(m <= k)
          BY <3>1
        <4>2. QED  BY <2>4, <4>1
      <3>3. QED  BY <3>1, <3>2
    <2>6. QED  BY <1>1, <2>4, <2>5
  <1>3. QED  BY <1>2 DEF Follows

LEMMA RecursionStays ==
  ASSUME NEW V, NEW a \in V, NEW n \in Nat, NEW F \in [V \X (1 .. n) -> V],
         NEW g, g[0] = a, \A i \in 1 .. n : g[i - 1] \in V => g[i] = F[<<g[i - 1], i>>]
  PROVE  \A i \in 0 .. n : g[i] \in V
  <1> DEFINE bad == {i \in 0 .. n : g[i] \notin V}
  <1>1. SUFFICES ASSUME bad # {} PROVE FALSE
    BY DEF bad
  <1>2. bad \subseteq Nat
    OBVIOUS
  <1>3. Min(bad) \in bad /\ \A x \in bad : Min(bad) <= x
    <2> HIDE DEF bad
    <2>1. QED  BY <1>1, <1>2, LeastExists
  <1>4. PICK m \in bad : \A x \in bad : m <= x
    BY <1>3
  <1>5. m \in 1 .. n /\ m - 1 \in 0 .. n /\ ~(m <= m - 1)
    BY <1>4
  <1>6. g[m - 1] \in V
    BY <1>4, <1>5
  <1>7. g[m] \in V
    BY <1>5, <1>6
  <1>8. QED  BY <1>4, <1>7

-----------------------------------------------------------------------------
\* Part of a buffer reads like the buffer itself.

Piece(buf, n, m) == SubSeq(buf, n + 1, m)

LEMMA PieceFacts ==
  ASSUME NEW buf \in Seq(Bytes), NEW m \in 0 .. Len(buf), NEW n \in 0 .. m
  PROVE  /\ Piece(buf, n, m) \in Seq(Bytes) /\ Len(Piece(buf, n, m)) = m - n
         /\ \A i \in 1 .. m - n : Piece(buf, n, m)[i] = buf[n + i]
  <1>1. \A i \in n + 1 .. m : buf[i] \in Bytes
    BY ElementOfSeq
  <1>2. QED  BY <1>1, SubSeqProperties DEF Piece

LEMMA PieceReads ==
  ASSUME NEW buf \in Seq(Bytes), NEW m \in 0 .. Len(buf), NEW n \in 0 .. m,
         NEW p \in Nat, p + 2 <= m - n
  PROVE  LET piece == Piece(buf, n, m) IN
         /\ HeaderAt(piece, p) = HeaderAt(buf, n + p)
         /\ HeaderComplete(piece, p) =>
              /\ HeaderComplete(buf, n + p)
              /\ FrameSize(piece, p) = FrameSize(buf, n + p)
              /\ \A s : Mismatch(piece, p, s) <=> Mismatch(buf, n + p, s)
         /\ FrameComplete(piece, p) => FrameComplete(buf, n + p)
         /\ m = Len(buf) => /\ HeaderComplete(buf, n + p) => HeaderComplete(piece, p)
                            /\ FrameComplete(buf, n + p) => FrameComplete(piece, p)
  <1> DEFINE piece == Piece(buf, n, m)
             h     == HeaderAt(buf, n + p)
  <1>1. Len(buf) \in Nat /\ m \in Nat /\ n \in Nat /\ m <= Len(buf) /\ n <= m /\ Len(piece) = m - n
    <2>1. Len(piece) = m - n
      BY PieceFacts
    <2>2. QED  BY <2>1
  <1>2. ASSUME NEW q \in Nat, p + q + 2 <= m - n
        PROVE  WordAt(piece, p + q) = WordAt(buf, n + p + q)
    <2>1. piece[p + q + 1] = buf[n + p + q + 1] /\ piece[p + q + 2] = buf[n + p + q + 2]
      <3>1. p + q + 1 \in 1 .. m - n /\ p + q + 2 \in 1 .. m - n
        BY <1>2
      <3>2. piece[p + q + 1] = buf[n + (p + q + 1)] /\ piece[p + q + 2] = buf[n + (p + q + 2)]
        BY <3>1, PieceFacts
      <3>3. QED  BY <3>2
    <2>2. QED  BY <2>1 DEF WordAt
  <1>3. HeaderAt(piece, p) = h
    <2>1. WordAt(piece, p) = WordAt(buf, n + p)
      <3>1. WordAt(piece, p + 0) = WordAt(buf, n + p + 0)
        BY <1>2
      <3>2. QED  BY <3>1
    <2>2. QED  BY <1>1, <2>1 DEF HeaderAt
  <1>4. /\ HeaderSize(h) \in Nat /\ SizeOffset(h) \in Nat /\ SizeOffset(h) + 2 <= HeaderSize(h)
        /\ h = "4E" => SerialOffset4E \in Nat /\ SerialOffset4E + 2 <= HeaderSize(h)
    BY LayoutAssumption DEF HeaderSize, SizeOffset
  <1>5. HeaderComplete(piece, p) <=> m - n - p >= HeaderSize(h)
    BY <1>1, <1>3 DEF HeaderComplete
  <1>6. HeaderComplete(buf, n + p) <=> Len(buf) - n - p >= HeaderSize(h)
    BY <1>1, <1>4 DEF HeaderComplete
  <1> HIDE DEF piece, h
  <1>7. ASSUME HeaderComplete(piece, p)
        PROVE  /\ HeaderComplete(buf, n + p)
               /\ PacketSize(piece, p) = PacketSize(buf, n + p)
               /\ h = "4E" => WordAt(piece, p + SerialOffset4E) = WordAt(buf, n + p + SerialOffset4E)
    <2>1. HeaderComplete(buf, n + p)
      BY <1>1, <1>4, <1>5, <1>6, <1>7
    <2>2. WordAt(piece, p + SizeOffset(h)) = WordAt(buf, n + p + SizeOffset(h))
      <3>1. p + SizeOffset(h) + 2 <= m - n
        BY <1>1, <1>4, <1>5, <1>7
      <3>2. QED  BY <3>1, <1>2, <1>4
    <2>3. h = "4E" => WordAt(piece, p + SerialOffset4E) = WordAt(buf, n + p + SerialOffset4E)
      <3>1. h = "4E" => p + SerialOffset4E + 2 <= m - n
        BY <1>1, <1>4, <1>5, <1>7
      <3>2. QED  BY <3>1, <1>2, <1>4
    <2>4. QED  BY <1>3, <2>1, <2>2, <2>3 DEF PacketSize, h
  <1>8. HeaderComplete(piece, p) =>
          /\ FrameSize(piece, p) = FrameSize(buf, n + p)
          /\ \A s : Mismatch(piece, p, s) <=> Mismatch(buf, n + p, s)
    BY <1>3, <1>7 DEF FrameSize, Mismatch, h
  <1>9. m = Len(buf) => (HeaderComplete(buf, n + p) => HeaderComplete(piece, p))
    BY <1>5, <1>6
  <1>10. PacketSize(buf, n + p) \in Int => FrameSize(buf, n + p) \in Int
    BY <1>4 DEF FrameSize, h
  <1>11. HeaderComplete(buf, n + p) => PacketSize(buf, n + p) \in Int
    <2>1. ASSUME HeaderComplete(buf, n + p)
          PROVE  WordAt(buf, n + p + SizeOffset(h)) \in Int
      <3>1. n + p + SizeOffset(h) + 2 \in 1 .. Len(buf) /\ n + p + SizeOffset(h) + 1 \in 1 .. Len(buf)
        BY <1>1, <1>4, <1>6, <2>1
      <3>2. \A i \in 1 .. Len(buf) : buf[i] \in Bytes
        BY ElementOfSeq
      <3>3. \A b \in Bytes : b \in Int
        BY DEF Bytes
      <3>4. QED  BY <3>1, <3>2, <3>3 DEF WordAt
    <2>2. QED  BY <2>1 DEF PacketSize, h
  <1>12. /\ FrameComplete(piece, p) => FrameComplete(buf, n + p)
         /\ m = Len(buf) => (FrameComplete(buf, n + p) => FrameComplete(piece, p))
    BY <1>1, <1>7, <1>8, <1>9, <1>10, <1>11 DEF FrameComplete
  <1>13. QED  BY <1>3, <1>7, <1>8, <1>9, <1>12 DEF piece, h

-----------------------------------------------------------------------------
\* Where the search stops.

\* Every candidate before n was turned down below the limit.
TurnedDown(buf, s, n) ==
  \A p \in Candidates(buf) : p < n => p < ResyncLimit /\ Mismatch(buf, p, s)

LEMMA Places ==
  ASSUME NEW buf \in Seq(Bytes)
  PROVE  /\ Len(buf) \in Nat
         /\ \A p \in Candidates(buf) : p \in Nat /\ p + 2 <= Len(buf) /\ HeaderAt(buf, p) # "none"
         /\ \A p \in Nat : HeaderAt(buf, p) # "none" => p \in Candidates(buf)
         /\ Remainder(buf) \in 0 .. Len(buf) /\ Len(buf) - 1 <= Remainder(buf)
  <1>1. Len(buf) \in Nat /\ (buf # <<>> => Len(buf) >= 1)
    BY EmptySeq
  <1>2. Remainder(buf) \in 0 .. Len(buf) /\ Len(buf) - 1 <= Remainder(buf)
    BY <1>1 DEF Remainder
  <1>3. \A p \in Nat : HeaderAt(buf, p) # "none" => p + 2 <= Len(buf)
    BY <1>1 DEF HeaderAt
  <1>4. QED  BY <1>1, <1>2, <1>3 DEF Candidates

LEMMA StopIs ==
  ASSUME NEW buf \in Seq(Bytes), NEW s, NEW n \in 0 .. Len(buf), TurnedDown(buf, s, n),
         \/ n \in Candidates(buf) /\ ~Passed(buf, n, s)
         \/ n = Remainder(buf)
  PROVE  StopAt(buf, s) = n
  <1> DEFINE A == {p \in Candidates(buf) : ~Passed(buf, p, s)}
             C == {c \in Candidates(buf) : c = ResyncLimit /\ Mismatch(buf, c, s)}
             S == A \cup {p + 1 : p \in C} \cup {Remainder(buf)}
  <1>1. n \in Nat /\ n <= Remainder(buf) /\ Remainder(buf) \in Nat /\ ResyncLimit \in Nat
    BY Places, LayoutAssumption
  <1>2. ASSUME NEW p \in A PROVE p \in Nat /\ n <= p
    <2>1. p \in Nat /\ ~Passed(buf, p, s)
      BY Places
    <2>2. ~(p < n)
      BY <1>1, <2>1 DEF TurnedDown, Passed
    <2>3. QED  BY <1>1, <2>1, <2>2
  <1>3. ASSUME NEW c \in C PROVE c + 1 \in Nat /\ n <= c + 1
    <2>1. c = ResyncLimit /\ c \in Candidates(buf)
      OBVIOUS
    <2>2. ~(c < n)
      BY <1>1, <2>1 DEF TurnedDown
    <2>3. QED  BY <1>1, <2>1, <2>2
  <1>4. n \in S
    OBVIOUS
  <1>5. \A x \in S : x \in Nat /\ n <= x
    BY <1>1, <1>2, <1>3
  <1> HIDE DEF A, C, S
  <1>6. Min(S) = n
    BY <1>4, <1>5, LeastIs
  <1>7. QED  BY <1>6 DEF StopAt, S, A, C

LEMMA StopPastLimit ==
  ASSUME NEW buf \in Seq(Bytes), NEW s, ResyncLimit \in Candidates(buf),
         TurnedDown(buf, s, ResyncLimit), Mismatch(buf, ResyncLimit, s)
  PROVE  StopAt(buf, s) = ResyncLimit + 1
  <1> DEFINE A == {p \in Candidates(buf) : ~Passed(buf, p, s)}
             C == {c \in Candidates(buf) : c = ResyncLimit /\ Mismatch(buf, c, s)}
             S == A \cup {p + 1 : p \in C} \cup {Remainder(buf)}
             n == ResyncLimit + 1
  <1>1. n \in Nat /\ n <= Remainder(buf) /\ Remainder(buf) \in Nat /\ ResyncLimit \in Nat
    BY Places, LayoutAssumption
  <1>2. ASSUME NEW p \in A PROVE p \in Nat /\ n <= p
    <2>1. p \in Nat /\ p \in Candidates(buf) /\ ~Passed(buf, p, s)
      BY Places
    <2>2. ~(p < ResyncLimit) /\ p # ResyncLimit
      BY <1>1, <2>1 DEF TurnedDown, Passed
    <2>3. QED  BY <1>1, <2>1, <2>2
  <1>3. ASSUME NEW c \in C PROVE c + 1 = n
    OBVIOUS
  <1>4. n \in S
    OBVIOUS
  <1>5. \A x \in S : x \in Nat /\ n <= x
    BY <1>1, <1>2, <1>3
  <1> HIDE DEF A, C, S
  <1>6. Min(S) = n
    BY <1>4, <1>5, LeastIs
  <1>7. QED  BY <1>6 DEF StopAt, S, A, C

-----------------------------------------------------------------------------
(***************************************************************************)
(* Pieces.  Let a frame be found P bytes into the buffer, and let the      *)
(* first k bytes alone leave the call waiting after it dropped g of them.  *)
(* Then g <= P, and the search from g on finds the frame P - g bytes in.   *)
(***************************************************************************)

LEMMA StopProperties ==
  ASSUME NEW buf \in Seq(Bytes), NEW s
  PROVE  LET n == StopAt(buf, s) IN
         /\ n \in Nat /\ n <= Remainder(buf)
         /\ \A p \in Candidates(buf) : p < n => Passed(buf, p, s)
         /\ \/ n \in Candidates(buf) /\ ~Passed(buf, n, s)
            \/ n = ResyncLimit + 1 /\ ResyncLimit \in Candidates(buf)
            \/ n = Remainder(buf)
  <1> DEFINE A == {p \in Candidates(buf) : ~Passed(buf, p, s)}
             C == {c \in Candidates(buf) : c = ResyncLimit /\ Mismatch(buf, c, s)}
             S == A \cup {p + 1 : p \in C} \cup {Remainder(buf)}
             n == Min(S)
  <1>1. S \subseteq Nat
    BY Places
  <1>2. S # {}
    OBVIOUS
  <1>3. /\ \A p \in Candidates(buf) : ~Passed(buf, p, s) => p \in S
        /\ Remainder(buf) \in S
    OBVIOUS
  <1>4. \A x \in S : \/ x \in Candidates(buf) /\ ~Passed(buf, x, s)
                     \/ x = ResyncLimit + 1 /\ ResyncLimit \in Candidates(buf)
                     \/ x = Remainder(buf)
    OBVIOUS
  <1>5. StopAt(buf, s) = Min(S)
    BY DEF StopAt
  <1> HIDE DEF A, C, S
  <1>6. n \in S /\ \A x \in S : n <= x
    BY <1>1, <1>2, LeastExists
  <1>7. n \in Nat /\ n <= Remainder(buf)
    BY <1>1, <1>3, <1>6
  <1>8. ASSUME NEW p \in Candidates(buf), p < n PROVE Passed(buf, p, s)
    <2>1. p \in Nat
      BY Places
    <2>2. ~(n <= p)
      BY <1>7, <1>8, <2>1
    <2>3. QED  BY <1>3, <1>6, <2>2
  <1>9. QED  BY <1>4, <1>5, <1>6, <1>7, <1>8

\* Where a frame is found there is a candidate that is not turned down, and
\* every one before it is.
LEMMA FrameFound ==
  ASSUME NEW buf \in Seq(Bytes), NEW s, Verdict(buf, s) = "frame"
  PROVE  LET n == StopAt(buf, s) IN
         /\ n \in Candidates(buf) /\ n <= ResyncLimit /\ FrameComplete(buf, n)
         /\ ~Mismatch(buf, n, s)
         /\ \A p \in Candidates(buf) : p < n => Mismatch(buf, p, s)
  <1> DEFINE n == StopAt(buf, s)
  <1>1. /\ n \in Nat /\ n <= Remainder(buf)
        /\ \A p \in Candidates(buf) : p < n => Passed(buf, p, s)
        /\ \/ n \in Candidates(buf) /\ ~Passed(buf, n, s)
           \/ n = ResyncLimit + 1 /\ ResyncLimit \in Candidates(buf)
           \/ n = Remainder(buf)
    BY StopProperties
  <1>2. VerdictAt(buf, n) = "frame"
    BY DEF Verdict
  <1> HIDE DEF n
  <1>3. n <= ResyncLimit /\ HeaderAt(buf, n) # "none" /\ FrameComplete(buf, n)
    BY <1>1, <1>2, LayoutAssumption DEF VerdictAt
  <1>4. n \in Candidates(buf) /\ n + 2 <= Len(buf) /\ Len(buf) \in Nat
        /\ Len(buf) - 1 <= Remainder(buf) /\ Remainder(buf) \in Nat
    BY <1>1, <1>3, Places
  <1>5. ~Passed(buf, n, s)
    BY SMTT(30), <1>1, <1>3, <1>4, LayoutAssumption
  <1>6. QED  BY <1>1, <1>3, <1>4, <1>5 DEF Passed, n

\* What is left when the search asks for more bytes: it stops there at once.
LEMMA StaysPut ==
  ASSUME NEW buf \in Seq(Bytes), NEW s, Verdict(buf, s) = "need_more"
  PROVE  LET again == Piece(buf, StopAt(buf, s), Len(buf))
         IN  StopAt(again, s) = 0 /\ Verdict(again, s) = "need_more"
  <1> DEFINE n     == StopAt(buf, s)
             again == Piece(buf, n, Len(buf))
  <1>1. /\ n \in Nat /\ n <= Remainder(buf)
        /\ \/ n \in Candidates(buf) /\ ~Passed(buf, n, s)
           \/ n = ResyncLimit + 1 /\ ResyncLimit \in Candidates(buf)
           \/ n = Remainder(buf)
    BY StopProperties
  <1>2. VerdictAt(buf, n) = "need_more"
    BY DEF Verdict
  <1> HIDE DEF n
  <1>3. /\ Len(buf) \in 0 .. Len(buf) /\ n \in 0 .. Len(buf) /\ ResyncLimit \in Nat
        /\ Len(buf) \in Nat /\ n \in Nat
    BY <1>1, Places, LayoutAssumption
  <1>4. again \in Seq(Bytes) /\ Len(again) = Len(buf) - n /\ Len(again) \in Nat
    <2>1. again \in Seq(Bytes) /\ Len(again) = Len(buf) - n
      BY <1>3, PieceFacts
    <2>2. QED  BY <2>1, <1>3
  <1>5. ~(n > ResyncLimit)
    BY <1>2 DEF VerdictAt
  <1>6. TurnedDown(again, s, 0) /\ 0 \in 0 .. Len(again)
    BY <1>4, Places DEF TurnedDown
  <1>7. CASE n \in Candidates(buf) /\ ~Passed(buf, n, s)
    <2>1. n + 2 <= Len(buf) /\ HeaderAt(buf, n) # "none" /\ ~Mismatch(buf, n, s)
      BY <1>3, <1>5, <1>7, Places DEF Passed
    <2>2. ~FrameComplete(buf, n)
      BY <1>2, <1>5, <2>1 DEF VerdictAt
    <2>3. /\ HeaderAt(again, 0) = HeaderAt(buf, n)
          /\ HeaderComplete(again, 0) => (Mismatch(again, 0, s) <=> Mismatch(buf, n, s))
          /\ FrameComplete(again, 0) => FrameComplete(buf, n)
      <3>1. 0 + 2 <= Len(buf) - n /\ n + 0 = n
        BY <1>3, <2>1
      <3>2. /\ HeaderAt(again, 0) = HeaderAt(buf, n + 0)
            /\ HeaderComplete(again, 0) => (Mismatch(again, 0, s) <=> Mismatch(buf, n + 0, s))
            /\ FrameComplete(again, 0) => FrameComplete(buf, n + 0)
        BY <1>3, <3>1, PieceReads
      <3>3. QED  BY <3>1, <3>2
    <2> HIDE DEF again
    <2>4. 0 \in Candidates(again) /\ ~Passed(again, 0, s)
      BY <1>4, <2>1, <2>3, Places DEF Passed, Mismatch
    <2>5. StopAt(again, s) = 0
      BY <1>4, <1>6, <2>4, StopIs
    <2>6. QED  BY <1>3, <2>2, <2>3, <2>5 DEF Verdict, VerdictAt, again, n
  <1>8. CASE n = Remainder(buf)
    <2>1. \/ Len(again) = 0
          \/ Len(again) = 1 /\ buf[Len(buf)] \in {Low3E, Low4E} /\ n = Len(buf) - 1
      BY <1>3, <1>4, <1>8 DEF Remainder
    <2>2. Len(again) = 1 => again[1] = buf[Len(buf)]
      <3> HIDE DEF again
      <3>1. ASSUME Len(again) = 1 PROVE again[1] = buf[n + 1] /\ n + 1 = Len(buf)
        <4>1. Len(buf) - n = 1
          BY <1>4, <3>1
        <4>2. n + 1 = Len(buf) /\ 1 \in 1 .. Len(buf) - n
          BY <1>3, <4>1
        <4>3. QED  BY <1>3, <4>2, PieceFacts DEF again
      <3>2. QED  BY <3>1
    <2> HIDE DEF again
    <2>3. Remainder(again) = 0
      BY <1>4, <2>1, <2>2, EmptySeq DEF Remainder
    <2>4. HeaderAt(again, 0) = "none"
      <3>1. ~(Len(again) - 0 >= 2)
        BY <1>4, <2>1
      <3>2. QED  BY <3>1 DEF HeaderAt
    <2>5. StopAt(again, s) = 0
      BY <1>4, <1>6, <2>3, StopIs
    <2>6. QED  BY <1>3, <2>4, <2>5 DEF Verdict, VerdictAt, again, n
  <1>9. QED  BY <1>1, <1>3, <1>5, <1>7, <1>8

LEMMA PiecesAgree ==
  ASSUME NEW buf \in Seq(Bytes), NEW s, Verdict(buf, s) = "frame",
         NEW k \in 0 .. Len(buf), Verdict(Piece(buf, 0, k), s) = "need_more"
  PROVE  LET gone  == StopAt(Piece(buf, 0, k), s)
             again == Piece(buf, gone, Len(buf))
         IN  Verdict(again, s) = "frame" /\ gone + StopAt(again, s) = StopAt(buf, s)
  <1> DEFINE first == Piece(buf, 0, k)
             g     == StopAt(first, s)
             again == Piece(buf, g, Len(buf))
             P     == StopAt(buf, s)
  <1>1. /\ Len(buf) \in Nat /\ k \in Nat /\ k <= Len(buf) /\ ResyncLimit \in Nat
        /\ Len(buf) \in 0 .. Len(buf) /\ 0 \in 0 .. k
    BY LayoutAssumption
  <1>2. /\ first \in Seq(Bytes) /\ Len(first) = k
        /\ \A i \in 1 .. k : first[i] = buf[i]
    <2>1. \A i \in 1 .. k - 0 : first[i] = buf[0 + i]
      BY <1>1, PieceFacts
    <2>2. first \in Seq(Bytes) /\ Len(first) = k - 0
      BY <1>1, PieceFacts
    <2>3. QED  BY <1>1, <2>1, <2>2
  <1>3. ASSUME NEW p \in Nat, p + 2 <= k
        PROVE  /\ HeaderAt(first, p) = HeaderAt(buf, p)
               /\ Mismatch(first, p, s) => Mismatch(buf, p, s)
    <2>1. p + 2 <= k - 0 /\ 0 + p = p
      BY <1>1, <1>3
    <2>2. /\ HeaderAt(first, p) = HeaderAt(buf, 0 + p)
          /\ HeaderComplete(first, p) => (Mismatch(first, p, s) <=> Mismatch(buf, 0 + p, s))
      BY <1>1, <2>1, PieceReads
    <2>3. QED  BY <2>1, <2>2 DEF Mismatch
  <1>4. /\ P \in Nat /\ P + 2 <= Len(buf) /\ P <= ResyncLimit /\ P \in Candidates(buf)
        /\ HeaderAt(buf, P) # "none" /\ FrameComplete(buf, P) /\ ~Mismatch(buf, P, s)
        /\ \A p \in Candidates(buf) : p < P => Mismatch(buf, p, s)
    BY FrameFound, Places
  <1>5. /\ g \in Nat /\ g <= Remainder(first)
        /\ \A p \in Candidates(first) : p < g => Passed(first, p, s)
        /\ \/ g \in Candidates(first)
           \/ g = ResyncLimit + 1 /\ ResyncLimit \in Candidates(first)
           \/ g = Remainder(first)
    BY <1>2, StopProperties
  <1>6. Remainder(first) \in Nat /\ Remainder(first) <= k
        /\ \A p \in Candidates(first) : p \in Nat /\ p + 2 <= k
    BY <1>1, <1>2, Places
  <1> HIDE DEF first, P, g
  \* The first bytes do not take the frame's header away.
  <1>7. g <= P
    <2> SUFFICES ASSUME P < g PROVE FALSE
      BY <1>4, <1>5
    <2>1. CASE P + 2 <= k
      <3>1. P \in Candidates(first)
        BY <1>2, <1>3, <1>4, <2>1, Places
      <3>2. Mismatch(first, P, s)
        BY <1>5, <3>1 DEF Passed
      <3>3. QED  BY <1>3, <1>4, <2>1, <3>2
    <2>2. CASE ~(P + 2 <= k)
      <3>1. P = k - 1 /\ g = k
        BY <1>1, <1>4, <1>5, <1>6, <2>2
      <3>2. Remainder(first) = k /\ k >= 1
        BY <1>1, <1>4, <1>5, <1>6, <3>1
      <3>3. first # <<>>
        BY <1>2, <3>2, EmptySeq
      <3>4. buf[k] \notin {Low3E, Low4E}
        <4>1. first[k] \notin {Low3E, Low4E}
          BY <1>1, <1>2, <3>2, <3>3 DEF Remainder
        <4>2. k \in 1 .. k
          BY <1>1, <3>2
        <4>3. QED  BY <1>2, <4>1, <4>2
      <3>5. buf[k] + 256 * buf[k + 1] \in {Low3E, Low4E}
        <4>1. WordAt(buf, k - 1) \in {Low3E, Low4E}
          BY <1>4, <3>1 DEF HeaderAt
        <4>2. (k - 1) + 1 = k /\ (k - 1) + 2 = k + 1
          BY <1>1
        <4>3. QED  BY <4>1, <4>2 DEF WordAt
      <3>6. buf[k] \in 0 .. 255 /\ buf[k + 1] \in 0 .. 255
        <4>1. k \in 1 .. Len(buf) /\ k + 1 \in 1 .. Len(buf)
          BY <1>1, <1>4, <3>1, <3>2
        <4>2. buf[k] \in Bytes /\ buf[k + 1] \in Bytes
          BY <4>1, ElementOfSeq
        <4>3. QED  BY <4>2 DEF Bytes
      <3>7. ASSUME NEW lo \in 0 .. 255, NEW hi \in 0 .. 255, lo + 256 * hi \in {Low3E, Low4E}
            PROVE  lo \in {Low3E, Low4E}
        <4>1. hi = 0
          BY <3>7 DEF Low3E, Low4E
        <4>2. QED  BY <3>7, <4>1
      <3>8. QED  BY <3>4, <3>5, <3>6, <3>7
    <2>3. QED  BY <2>1, <2>2
  <1>8. g \in 0 .. Len(buf) /\ P - g \in Nat /\ g + (P - g) = P
    BY <1>1, <1>4, <1>5, <1>7
  <1>9. again \in Seq(Bytes) /\ Len(again) = Len(buf) - g
    BY <1>1, <1>8, PieceFacts
  <1>10. ASSUME NEW r \in Nat, r + 2 <= Len(buf) - g
         PROVE  /\ HeaderAt(again, r) = HeaderAt(buf, g + r)
                /\ Mismatch(again, r, s) <=> Mismatch(buf, g + r, s)
                /\ FrameComplete(buf, g + r) => FrameComplete(again, r)
    <2>1. /\ HeaderAt(again, r) = HeaderAt(buf, g + r)
          /\ HeaderComplete(again, r) => (Mismatch(again, r, s) <=> Mismatch(buf, g + r, s))
          /\ HeaderComplete(again, r) => HeaderComplete(buf, g + r)
          /\ HeaderComplete(buf, g + r) => HeaderComplete(again, r)
          /\ FrameComplete(buf, g + r) => FrameComplete(again, r)
      BY <1>1, <1>8, <1>10, PieceReads
    <2>2. QED  BY <2>1 DEF Mismatch
  <1> HIDE DEF again
  <1>11. /\ HeaderAt(again, P - g) # "none" /\ ~Mismatch(again, P - g, s) /\ FrameComplete(again, P - g)
    <2>1. (P - g) + 2 <= Len(buf) - g
      BY <1>1, <1>4, <1>5, <1>8
    <2>2. QED  BY <1>4, <1>8, <1>10, <2>1
  <1>12. TurnedDown(again, s, P - g)
    <2> SUFFICES ASSUME NEW r \in Candidates(again), r < P - g
                 PROVE  r < ResyncLimit /\ Mismatch(again, r, s)
      BY DEF TurnedDown
    <2>1. r \in Nat /\ r + 2 <= Len(buf) - g /\ HeaderAt(again, r) # "none"
      BY <1>9, Places
    <2>2. g + r \in Nat /\ g + r < P
      BY <1>4, <1>5, <2>1
    <2>3. g + r \in Candidates(buf)
      BY <1>10, <2>1, <2>2, Places
    <2>4. Mismatch(again, r, s)
      BY <1>4, <1>10, <2>1, <2>2, <2>3
    <2>5. r < ResyncLimit
      BY <1>1, <1>4, <1>5, <2>1
    <2>6. QED  BY <2>4, <2>5
  <1>13. StopAt(again, s) = P - g
    <2>1. P - g \in 0 .. Len(again)
      BY <1>1, <1>4, <1>5, <1>8, <1>9
    <2>2. P - g \in Candidates(again) /\ ~Passed(again, P - g, s)
      BY <1>8, <1>9, <1>11, Places DEF Passed
    <2>3. QED  BY <1>9, <1>12, <2>1, <2>2, StopIs
  <1>14. Verdict(again, s) = "frame"
    <2>1. ~(P - g > ResyncLimit)
      BY <1>1, <1>4, <1>5
    <2>2. QED  BY <1>11, <1>13, <2>1 DEF Verdict, VerdictAt
  <1>15. QED  BY <1>8, <1>13, <1>14 DEF again, g, P, first
=============================================================================
