-------------------------- MODULE ParseLoopProofs --------------------------
(***************************************************************************)
(* Proofs about the search for a response, for every layout of the header, *)
(* every buffer size and limit, and buffers of every length: the loop      *)
(* computes the closed form that the other modules use, and cutting the    *)
(* stream into pieces does not change what is found.                       *)
(***************************************************************************)
EXTENDS ParseLoop, Fx5FrameProofs

\* What arrives are bytes.
LEMMA AreBytes == ASSUME TypeOK PROVE arrived \in Seq(Bytes) /\ rx \in Seq(Bytes)
  <1>1. Byte \subseteq Bytes
    BY LoopAssumption DEF Bytes
  <1>2. arrived \in Seq(Byte) /\ rx \in Seq(Byte)
    BY DEF TypeOK
  <1>3. QED  BY <1>1, <1>2, SeqMonotonic

-----------------------------------------------------------------------------
(***************************************************************************)
(* The loop.  What is left in the ring is the buffer without the bytes     *)
(* counted, and no candidate among those was one to stop at.               *)
(***************************************************************************)

LoopInv ==
  /\ TypeOK
  /\ rx = Dropped(counter)
  /\ pc # "done" => TurnedDown(arrived, serial, counter)
  /\ pc = "resync" /\ arrived # <<>> => rx # <<>>
  /\ pc = "header" => counter <= ResyncLimit /\ HeaderAt(rx, 0) # "none"
  /\ ReturnsVerdict

\* The ring and the buffer it came from.
LEMMA RingReads ==
  ASSUME TypeOK, rx = Dropped(counter)
  PROVE  /\ Len(arrived) \in Nat /\ counter \in Nat /\ counter <= Len(arrived)
         /\ Len(rx) = Len(arrived) - counter
         /\ HeaderAt(rx, 0) = HeaderAt(arrived, counter)
         /\ Len(rx) > 1 /\ Mismatch(rx, 0, serial) => Mismatch(arrived, counter, serial)
         /\ Len(rx) > 1 => (FrameComplete(rx, 0) <=> FrameComplete(arrived, counter))
         /\ Len(rx) > 1 => (Mismatch(arrived, counter, serial) => Mismatch(rx, 0, serial))
  <1>1. /\ Len(arrived) \in Nat /\ counter \in Nat /\ counter <= Len(arrived)
        /\ arrived \in Seq(Bytes) /\ rx = Piece(arrived, counter, Len(arrived))
        /\ Len(arrived) \in 0 .. Len(arrived) /\ counter \in 0 .. Len(arrived)
    BY AreBytes DEF TypeOK, Dropped, Piece
  <1>2. Len(rx) = Len(arrived) - counter
    BY <1>1, PieceFacts
  <1>3. CASE Len(rx) > 1
    <2>1. 0 + 2 <= Len(arrived) - counter /\ counter + 0 = counter /\ 0 \in Nat
      BY <1>1, <1>2, <1>3
    <2>2. /\ HeaderAt(rx, 0) = HeaderAt(arrived, counter)
          /\ HeaderComplete(rx, 0) => /\ HeaderComplete(arrived, counter)
                                      /\ \A s : Mismatch(rx, 0, s) <=> Mismatch(arrived, counter, s)
          /\ FrameComplete(rx, 0) => FrameComplete(arrived, counter)
          /\ HeaderComplete(arrived, counter) => HeaderComplete(rx, 0)
          /\ FrameComplete(arrived, counter) => FrameComplete(rx, 0)
      BY <1>1, <2>1, AreBytes, PieceReads
    <2>3. /\ Mismatch(rx, 0, serial) => HeaderComplete(rx, 0)
          /\ Mismatch(arrived, counter, serial) => HeaderComplete(arrived, counter)
      BY DEF Mismatch
    <2>4. QED  BY <1>1, <1>2, <2>2, <2>3
  <1>4. CASE ~(Len(rx) > 1)
    <2>1. HeaderAt(rx, 0) = "none" /\ HeaderAt(arrived, counter) = "none"
      BY <1>1, <1>2, <1>4 DEF HeaderAt
    <2>2. QED  BY <1>1, <1>2, <1>4, <2>1
  <1>5. QED  BY <1>3, <1>4

\* One byte less.
LEMMA OneByteLess ==
  ASSUME TypeOK, rx = Dropped(counter), rx # <<>>, rx' = Tail(rx), counter' = counter + 1,
         UNCHANGED arrived
  PROVE  rx' = Dropped(counter)' /\ rx' \in Seq(Byte) /\ counter' \in 0 .. Len(arrived)
  <1>1. /\ Len(arrived) \in Nat /\ counter \in Nat /\ counter <= Len(arrived)
        /\ arrived \in Seq(Bytes) /\ rx = Piece(arrived, counter, Len(arrived))
        /\ Len(arrived) \in 0 .. Len(arrived) /\ counter \in 0 .. Len(arrived)
    BY AreBytes DEF TypeOK, Dropped, Piece
  <1>2. rx \in Seq(Bytes) /\ Len(rx) = Len(arrived) - counter
        /\ \A i \in 1 .. Len(arrived) - counter : rx[i] = arrived[counter + i]
    BY ZenonT(40), <1>1, PieceFacts
  <1>3. Len(rx) >= 1
    BY <1>2, EmptySeq
  <1>4. counter + 1 \in 0 .. Len(arrived)
    BY <1>1, <1>2, <1>3
  <1> DEFINE less == Piece(arrived, counter + 1, Len(arrived))
  <1>5. less \in Seq(Bytes) /\ Len(less) = Len(arrived) - (counter + 1)
        /\ \A i \in 1 .. Len(arrived) - (counter + 1) : less[i] = arrived[counter + 1 + i]
    BY <1>1, <1>4, PieceFacts
  <1> HIDE DEF less
  <1>6. Tail(rx) \in Seq(Bytes) /\ Len(Tail(rx)) = Len(rx) - 1
        /\ \A i \in 1 .. Len(Tail(rx)) : Tail(rx)[i] = rx[i + 1]
    BY <1>2, <1>3, HeadTailProperties
  <1>7. Tail(rx) = less
    <2>1. \A i \in 1 .. Len(less) : Tail(rx)[i] = less[i]
      BY <1>1, <1>2, <1>3, <1>5, <1>6
    <2>2. Len(Tail(rx)) = Len(less)
      BY <1>1, <1>2, <1>5, <1>6
    <2>3. QED  BY <1>5, <1>6, <2>1, <2>2, SeqEqual
  <1>8. rx' \in Seq(Byte)
    BY HeadTailProperties DEF TypeOK
  <1>9. QED  BY <1>4, <1>6, <1>7, <1>8 DEF Dropped, Piece, less

-----------------------------------------------------------------------------
\* One lemma per action.

LEMMA SkipByteKeeps == ASSUME LoopInv, SkipByte PROVE LoopInv'
  <1>1. /\ pc = "resync" /\ Len(rx) > 1 /\ HeaderAt(rx, 0) = "none"
        /\ rx' = Tail(rx) /\ counter' = counter + 1 /\ UNCHANGED <<arrived, serial, pc, status>>
    BY DEF SkipByte
  <1>2. /\ TypeOK /\ rx = Dropped(counter) /\ TurnedDown(arrived, serial, counter)
        /\ rx # <<>> /\ Len(rx) \in Nat /\ rx \in Seq(Byte)
    BY <1>1, EmptySeq DEF LoopInv, TypeOK
  <1>3. rx' = Dropped(counter)' /\ rx' \in Seq(Byte) /\ counter' \in 0 .. Len(arrived)
    BY <1>1, <1>2, OneByteLess
  <1>4. TypeOK'
    BY <1>1, <1>2, <1>3 DEF TypeOK
  <1>5. TurnedDown(arrived, serial, counter + 1)
    <2>1. counter \notin Candidates(arrived) /\ counter \in Nat
      BY <1>1, <1>2, RingReads, AreBytes, Places DEF TypeOK
    <2>2. \A p \in Candidates(arrived) : p \in Nat
      BY <1>2, AreBytes, Places DEF TypeOK
    <2>3. QED  BY <1>2, <2>1, <2>2 DEF TurnedDown
  <1>6. rx' # <<>>
    <2>1. Len(Tail(rx)) = Len(rx) - 1
      BY <1>2, HeadTailProperties
    <2>2. QED  BY <1>1, <1>2, <2>1, EmptySeq
  <1>7. TurnedDown(arrived, serial, counter)' /\ ReturnsVerdict'
    BY <1>1, <1>5 DEF TurnedDown, ReturnsVerdict
  <1>8. QED  BY <1>1, <1>3, <1>4, <1>6, <1>7 DEF LoopInv

\* The search returns at a candidate it does not pass, or at the end.
LEMMA ReturnsHere ==
  ASSUME TypeOK, TypeOK', UNCHANGED <<arrived, serial>>, rx' = Dropped(counter)', pc' = "done",
         TurnedDown(arrived, serial, counter'),
         \/ counter' \in Candidates(arrived) /\ ~Passed(arrived, counter', serial)
         \/ counter' = Remainder(arrived),
         status' = VerdictAt(arrived, counter')
  PROVE  LoopInv'
  <1>1. arrived \in Seq(Byte) /\ counter' \in 0 .. Len(arrived)
    BY DEF TypeOK
  <1>2. StopAt(arrived, serial) = counter'
    BY <1>1, AreBytes, StopIs
  <1>3. ReturnsVerdict'
    BY <1>2 DEF ReturnsVerdict, Verdict, Dropped
  <1>4. QED  BY <1>3 DEF LoopInv

LEMMA FindHeaderKeeps == ASSUME LoopInv, FindHeader PROVE LoopInv'
  <1>1. /\ pc = "resync" /\ Len(rx) > 1 /\ HeaderAt(rx, 0) # "none"
        /\ UNCHANGED <<arrived, serial, rx, counter>>
        /\ IF counter > ResyncLimit THEN pc' = "done" /\ status' = "resync"
           ELSE pc' = "header" /\ status' = status
    BY DEF FindHeader, Return
  <1>2. TypeOK /\ rx = Dropped(counter) /\ TurnedDown(arrived, serial, counter)
        /\ counter \in Nat /\ ResyncLimit \in Nat
    BY <1>1, LayoutAssumption DEF LoopInv, TypeOK
  <1>3. TypeOK' /\ rx' = Dropped(counter)' /\ TurnedDown(arrived, serial, counter)'
    BY <1>1, <1>2 DEF TypeOK, Dropped, TurnedDown
  <1>4. CASE counter > ResyncLimit
    <2>1. counter \in Candidates(arrived)
      BY <1>1, <1>2, RingReads, AreBytes, Places DEF TypeOK
    <2>2. ~Passed(arrived, counter, serial) /\ VerdictAt(arrived, counter) = "resync"
      BY <1>2, <1>4 DEF Passed, VerdictAt
    <2>3. QED  BY <1>1, <1>2, <1>3, <1>4, <2>1, <2>2, ReturnsHere
  <1>5. CASE ~(counter > ResyncLimit)
    <2>1. ReturnsVerdict' /\ counter <= ResyncLimit
      BY <1>1, <1>2, <1>5 DEF ReturnsVerdict
    <2>2. QED  BY <1>1, <1>3, <1>5, <2>1 DEF LoopInv
  <1>6. QED  BY <1>4, <1>5

LEMMA RunDryKeeps == ASSUME LoopInv, RunDry PROVE LoopInv'
  <1> DEFINE lost == Len(rx) = 1 /\ rx[1] \notin {Low3E, Low4E}
  <1>1. /\ pc = "resync" /\ Len(rx) <= 1 /\ UNCHANGED <<arrived, serial>> /\ pc' = "done"
        /\ rx' = IF lost THEN <<>> ELSE rx
        /\ counter' = IF lost THEN counter + 1 ELSE counter
        /\ status' = IF counter' > ResyncLimit THEN "resync" ELSE "need_more"
    BY DEF RunDry, Return
  <1>2. /\ TypeOK /\ rx = Dropped(counter) /\ TurnedDown(arrived, serial, counter)
        /\ arrived # <<>> => rx # <<>>
        /\ arrived \in Seq(Byte) /\ rx \in Seq(Byte)
        /\ counter \in Nat /\ ResyncLimit \in Nat /\ Len(rx) \in Nat /\ Len(arrived) \in Nat
        /\ Len(rx) = Len(arrived) - counter
    BY <1>1, RingReads, LayoutAssumption DEF LoopInv, TypeOK
  <1>3. rx' = Dropped(counter)' /\ rx' \in Seq(Byte) /\ counter' \in 0 .. Len(arrived)
    <2>1. CASE lost
      <3>1. rx # <<>>
        BY <2>1
      <3>2. Tail(rx) = <<>>
        <4>1. Tail(rx) \in Seq(Byte) /\ Len(Tail(rx)) = Len(rx) - 1
          BY <1>2, <3>1, HeadTailProperties
        <4>2. Len(Tail(rx)) = 0
          BY <2>1, <4>1
        <4>3. QED  BY <4>1, <4>2, EmptySeq
      <3>3. QED  BY <1>1, <1>2, <2>1, <3>1, <3>2, OneByteLess
    <2>2. CASE ~lost
      BY <1>1, <1>2, <2>2 DEF Dropped, TypeOK
    <2>3. QED  BY <2>1, <2>2
  <1>4. TypeOK'
    BY <1>1, <1>2, <1>3 DEF TypeOK
  <1>5. counter' = Remainder(arrived)
    <2>1. CASE Len(rx) = 1
      <3>1. rx[1] = arrived[Len(arrived)] /\ arrived # <<>>
        <4>1. rx = Piece(arrived, counter, Len(arrived))
          BY <1>2 DEF Dropped, Piece
        <4>2. /\ Len(arrived) - counter = 1 /\ counter \in 0 .. Len(arrived)
              /\ Len(arrived) \in 0 .. Len(arrived) /\ counter + 1 = Len(arrived)
          <5>1. counter \in 0 .. Len(arrived)
            BY <1>2 DEF TypeOK
          <5>2. Len(arrived) \in Nat /\ counter \in Nat /\ 1 = Len(arrived) - counter
            BY <1>2, <2>1
          <5>3. QED  BY <5>1, <5>2
        <4>3. rx[1] = arrived[counter + 1]
          <5>1. \A i \in 1 .. Len(arrived) - counter : rx[i] = arrived[counter + i]
            BY ZenonT(40), <1>2, <4>1, <4>2, AreBytes, PieceFacts
          <5>2. 1 \in 1 .. Len(arrived) - counter
            BY <4>2
          <5>3. QED  BY <5>1, <5>2
        <4>4. QED  BY <1>2, <4>2, <4>3, EmptySeq
      <3>2. QED  BY <1>1, <1>2, <2>1, <3>1 DEF Remainder
    <2>2. CASE Len(rx) = 0
      <3>1. arrived = <<>>
        BY <1>2, <2>2, EmptySeq
      <3>2. Len(arrived) = 0 /\ counter' = 0
        BY <1>1, <1>2, <2>2, <3>1, EmptySeq
      <3>3. QED  BY <3>1, <3>2 DEF Remainder
    <2>3. QED  BY <1>1, <1>2, <2>1, <2>2
  <1>6. TurnedDown(arrived, serial, counter')
    <2>1. \A p \in Candidates(arrived) : p \in Nat /\ p + 2 <= Len(arrived)
      BY <1>2, AreBytes, Places
    <2>2. \A p \in Candidates(arrived) : p < counter
      BY <1>1, <1>2, <2>1
    <2>3. QED  BY <1>2, <2>2 DEF TurnedDown
  <1>7. status' = VerdictAt(arrived, counter')
    <2>1. HeaderAt(arrived, counter') = "none"
      <3>1. ~(Len(arrived) - counter' >= 2)
        BY <1>1, <1>2
      <3>2. QED  BY <3>1 DEF HeaderAt
    <2>2. QED  BY <1>1, <2>1 DEF VerdictAt
  <1>8. QED  BY <1>1, <1>2, <1>3, <1>4, <1>5, <1>6, <1>7, ReturnsHere

LEMMA PassMismatchKeeps == ASSUME LoopInv, PassMismatch PROVE LoopInv'
  <1>1. /\ pc = "header" /\ Mismatch(rx, 0, serial) /\ UNCHANGED <<arrived, serial>>
        /\ rx' = Tail(rx) /\ counter' = counter + 1
        /\ IF counter' > ResyncLimit THEN pc' = "done" /\ status' = "resync"
           ELSE pc' = "resync" /\ status' = status
    BY DEF PassMismatch, Return
  <1>2. /\ TypeOK /\ rx = Dropped(counter) /\ TurnedDown(arrived, serial, counter)
        /\ counter <= ResyncLimit /\ HeaderAt(rx, 0) # "none"
        /\ arrived \in Seq(Byte) /\ rx \in Seq(Byte)
        /\ counter \in Nat /\ ResyncLimit \in Nat /\ Len(rx) \in Nat
    BY <1>1, LayoutAssumption DEF LoopInv, TypeOK
  <1>3. Len(rx) > 1 /\ rx # <<>>
    BY <1>2, EmptySeq DEF HeaderAt
  <1>4. rx' = Dropped(counter)' /\ rx' \in Seq(Byte) /\ counter' \in 0 .. Len(arrived)
    BY <1>1, <1>2, <1>3, OneByteLess
  <1>5. TypeOK'
    BY <1>1, <1>2, <1>4 DEF TypeOK
  <1>6. Mismatch(arrived, counter, serial) /\ counter \in Candidates(arrived)
    BY <1>1, <1>2, <1>3, RingReads, AreBytes, Places
  <1>7. CASE counter' > ResyncLimit
    <2>1. counter = ResyncLimit
      BY <1>1, <1>2, <1>7
    <2>2. StopAt(arrived, serial) = ResyncLimit + 1
      BY <1>2, <1>6, <2>1, AreBytes, StopPastLimit
    <2>3. Verdict(arrived, serial) = "resync"
      BY <1>2, <2>2 DEF Verdict, VerdictAt
    <2>4. ReturnsVerdict'
      BY <1>1, <1>4, <1>7, <2>1, <2>2, <2>3 DEF ReturnsVerdict, Dropped
    <2>5. QED  BY <1>1, <1>4, <1>5, <1>7, <2>4 DEF LoopInv
  <1>8. CASE ~(counter' > ResyncLimit)
    <2>1. TurnedDown(arrived, serial, counter')
      <3>1. \A p \in Candidates(arrived) : p \in Nat
        BY <1>2, AreBytes, Places
      <3>2. QED  BY <1>1, <1>2, <1>6, <1>8, <3>1 DEF TurnedDown
    <2>2. rx' # <<>>
      <3>1. Tail(rx) \in Seq(Byte) /\ Len(Tail(rx)) = Len(rx) - 1
        BY <1>2, <1>3, HeadTailProperties
      <3>2. Len(rx) \in Nat /\ Len(rx) > 1 /\ rx' = Tail(rx)
        BY <1>1, <1>2, <1>3
      <3>3. ASSUME NEW n \in Nat, n > 1, NEW k, k = n - 1 PROVE k # 0
        BY <3>3
      <3>4. Len(Tail(rx)) # 0
        BY <3>1, <3>2, <3>3, Zenon
      <3>5. QED  BY <3>1, <3>2, <3>4, EmptySeq, Zenon
    <2>3. TurnedDown(arrived, serial, counter)' /\ ReturnsVerdict'
      BY <1>1, <1>8, <2>1 DEF TurnedDown, ReturnsVerdict
    <2>4. QED  BY <1>1, <1>4, <1>5, <1>8, <2>2, <2>3 DEF LoopInv
  <1>9. QED  BY <1>7, <1>8

\* The two ways to return at a header that is not turned down.
LEMMA HeaderKept ==
  ASSUME LoopInv, WaitForMore \/ TakeFrame
  PROVE  LoopInv'
  <1>1. /\ pc = "header" /\ ~Mismatch(rx, 0, serial) /\ UNCHANGED <<arrived, serial, rx, counter>>
        /\ pc' = "done" /\ status' = IF FrameComplete(rx, 0) THEN "frame" ELSE "need_more"
    BY DEF WaitForMore, TakeFrame, Return
  <1>2. /\ TypeOK /\ rx = Dropped(counter) /\ TurnedDown(arrived, serial, counter)
        /\ counter <= ResyncLimit /\ HeaderAt(rx, 0) # "none"
        /\ arrived \in Seq(Byte) /\ rx \in Seq(Byte)
        /\ counter \in Nat /\ ResyncLimit \in Nat /\ Len(rx) \in Nat
    BY <1>1, LayoutAssumption DEF LoopInv, TypeOK
  <1>3. Len(rx) > 1
    BY <1>2 DEF HeaderAt
  <1>4. /\ counter \in Candidates(arrived) /\ ~Mismatch(arrived, counter, serial)
        /\ HeaderAt(arrived, counter) # "none"
        /\ FrameComplete(rx, 0) <=> FrameComplete(arrived, counter)
    BY <1>1, <1>2, <1>3, RingReads, AreBytes, Places
  <1>5. TypeOK' /\ rx' = Dropped(counter)'
    BY <1>1, <1>2 DEF TypeOK, Dropped
  <1>6. ~Passed(arrived, counter, serial) /\ status' = VerdictAt(arrived, counter)
    BY <1>1, <1>2, <1>4 DEF Passed, VerdictAt
  <1>7. QED  BY <1>1, <1>2, <1>4, <1>5, <1>6, ReturnsHere

LEMMA LoopStarts == ASSUME Init PROVE LoopInv
  <1>1. arrived \in Seq(Byte) /\ Len(arrived) \in Nat
    <2>1. PICK n \in 0 .. MaxBytes : arrived \in [1 .. n -> Byte]
      BY DEF Init
    <2>2. n \in Nat
      BY <2>1, LoopAssumption, LayoutAssumption
    <2>3. QED  BY <2>1, <2>2
  <1>2. rx = arrived /\ counter = 0 /\ pc = "resync" /\ serial \in Serials /\ status = "none"
    BY DEF Init
  <1>3. rx = Dropped(counter)
    BY <1>1, <1>2, SubSeqFull DEF Dropped
  <1>4. TypeOK
    BY <1>1, <1>2 DEF TypeOK
  <1>5. TurnedDown(arrived, serial, counter)
    BY <1>1, <1>2, <1>4, AreBytes, Places DEF TurnedDown
  <1>6. QED  BY <1>2, <1>3, <1>4, <1>5 DEF LoopInv, ReturnsVerdict

LEMMA LoopKeeps == ASSUME LoopInv, [Next]_vars PROVE LoopInv'
  <1>1. CASE Next
    BY <1>1, SkipByteKeeps, FindHeaderKeeps, RunDryKeeps, PassMismatchKeeps, HeaderKept DEF Next
  <1>2. CASE UNCHANGED vars
    BY <1>2 DEF vars, LoopInv, TypeOK, Dropped, TurnedDown, ReturnsVerdict
  <1>3. QED  BY <1>1, <1>2

LEMMA LoopInvariance == Spec => []LoopInv
  BY LoopStarts, LoopKeeps, PTL DEF Spec

\* The counter never runs past the bytes that arrived, for any of them.
THEOREM LoopTypeCorrect == Spec => []TypeOK
  <1>1. LoopInv => TypeOK
    BY DEF LoopInv
  <1>2. QED  BY <1>1, LoopInvariance, PTL

\* What fx5_parse_response finds, and what it leaves in the ring, is what the
\* closed form says, for every content of the ring.
THEOREM LoopComputesVerdict == Spec => []ReturnsVerdict
  <1>1. LoopInv => ReturnsVerdict
    BY DEF LoopInv
  <1>2. QED  BY <1>1, LoopInvariance, PTL

\* TCP may deliver a response in any two pieces, of any length, behind any
\* bytes: what the first piece leaves and the second piece give the frame that
\* parsing all at once gives.
THEOREM AnyPiecesWillDo == Spec => []PiecesDoNotMatter
  <1>1. ASSUME LoopInv PROVE PiecesDoNotMatter
    <2> SUFFICES ASSUME pc = "done", status = "frame", NEW k \in 0 .. Len(arrived)
                 PROVE  LET first == SubSeq(arrived, 1, k)
                            gone  == StopAt(first, serial)
                            again == SubSeq(arrived, gone + 1, Len(arrived))
                        IN  Verdict(first, serial) = "need_more" =>
                              /\ Verdict(again, serial) = "frame"
                              /\ gone + StopAt(again, serial) = StopAt(arrived, serial)
      BY DEF PiecesDoNotMatter
    <2>1. arrived \in Seq(Bytes) /\ Verdict(arrived, serial) = "frame"
      BY <1>1, AreBytes DEF LoopInv, ReturnsVerdict
    <2>2. SubSeq(arrived, 1, k) = Piece(arrived, 0, k)
      BY DEF Piece
    <2>3. QED  BY <2>1, <2>2, PiecesAgree DEF Piece
  <1>2. QED  BY <1>1, LoopInvariance, PTL
=============================================================================
