----------------------------- MODULE ParseLoop -----------------------------
(***************************************************************************)
(* The loop of fx5_parse_response with fx5_try_resync inside it, one step  *)
(* per turn of either loop, from a call to its return.  The ring holds any *)
(* bytes when the call is made and the serial is the last one sent.        *)
(*                                                                         *)
(* Fx5Frame gives the same search in closed form; the other modules use    *)
(* that form, and this one is where it is shown to be what the loop does.  *)
(***************************************************************************)
EXTENDS Fx5Frame

CONSTANTS
  Byte,     \* the values a byte can take
  Serials,  \* the serials a request may have carried
  MaxBytes  \* bound: bytes in the ring when the call is made

ASSUME LoopAssumption == Byte \subseteq 0 .. 255 /\ MaxBytes \in 0 .. IoBufSize

VARIABLES
  arrived,  \* the bytes in the ring when the call was made
  serial,   \* ctx->serial
  rx,       \* the bytes in the ring
  counter,  \* ctx->resync_counter
  pc,       \* the loop the call is in: "resync", "header" or "done"
  status    \* what the call returned

vars == <<arrived, serial, rx, counter, pc, status>>

Init ==
  /\ \E n \in 0 .. MaxBytes : arrived \in [1 .. n -> Byte]
  /\ serial \in Serials
  /\ rx = arrived
  /\ counter = 0
  /\ pc = "resync"
  /\ status = "none"

Return(st) == pc' = "done" /\ status' = st

\* Mutant of SkipByte: the byte is counted here and once more by the caller.
SkipByteTwice ==
  /\ pc = "resync"
  /\ Len(rx) > 1 /\ HeaderAt(rx, 0) = "none"
  /\ rx' = Tail(rx)
  /\ counter' = counter + 2
  /\ UNCHANGED <<arrived, serial, pc, status>>

\* fx5_try_resync drops a byte that starts no subheader, two or more waiting.
SkipByte ==
  /\ pc = "resync"
  /\ Len(rx) > 1 /\ HeaderAt(rx, 0) = "none"
  /\ rx' = Tail(rx)
  /\ counter' = counter + 1
  /\ UNCHANGED <<arrived, serial, pc, status>>

\* fx5_try_resync returns a header type; the caller looks at the counter first.
FindHeader ==
  /\ pc = "resync"
  /\ Len(rx) > 1 /\ HeaderAt(rx, 0) # "none"
  /\ IF counter > ResyncLimit THEN Return("resync") ELSE pc' = "header" /\ UNCHANGED status
  /\ UNCHANGED <<arrived, serial, rx, counter>>

\* Mutant of RunDry: the last byte always goes.
RunDryAll ==
  /\ pc = "resync" /\ Len(rx) <= 1
  /\ rx' = <<>>
  /\ counter' = counter + Len(rx)
  /\ Return(IF counter' > ResyncLimit THEN "resync" ELSE "need_more")
  /\ UNCHANGED <<arrived, serial>>

\* fx5_try_resync runs out of bytes; a last byte stays if it may start a subheader.
RunDry ==
  /\ pc = "resync" /\ Len(rx) <= 1
  /\ LET lost == Len(rx) = 1 /\ rx[1] \notin {Low3E, Low4E} IN
       /\ rx' = IF lost THEN <<>> ELSE rx
       /\ counter' = IF lost THEN counter + 1 ELSE counter
  /\ Return(IF counter' > ResyncLimit THEN "resync" ELSE "need_more")
  /\ UNCHANGED <<arrived, serial>>

\* Mutant of PassMismatch: the search resumes at the same byte.
PassMismatchStuck ==
  /\ pc = "header" /\ Mismatch(rx, 0, serial)
  /\ pc' = "resync"
  /\ UNCHANGED <<arrived, serial, rx, counter, status>>

\* A whole header the response cannot have: one byte goes and the search resumes.
PassMismatch ==
  /\ pc = "header" /\ Mismatch(rx, 0, serial)
  /\ rx' = Tail(rx)
  /\ counter' = counter + 1
  /\ IF counter' > ResyncLimit THEN Return("resync") ELSE pc' = "resync" /\ UNCHANGED status
  /\ UNCHANGED <<arrived, serial>>

\* The header, or the rest of the frame, has not arrived.
WaitForMore ==
  /\ pc = "header" /\ ~Mismatch(rx, 0, serial)
  /\ ~FrameComplete(rx, 0)
  /\ Return("need_more")
  /\ UNCHANGED <<arrived, serial, rx, counter>>

\* The frame is here: its header is dropped and its PDU parsed (module Fx5Context).
TakeFrame ==
  /\ pc = "header" /\ ~Mismatch(rx, 0, serial)
  /\ FrameComplete(rx, 0)
  /\ Return("frame")
  /\ UNCHANGED <<arrived, serial, rx, counter>>

Next == SkipByte \/ FindHeader \/ RunDry \/ PassMismatch \/ WaitForMore \/ TakeFrame

Spec == Init /\ [][Next]_vars

\* A call that runs goes on running: the library is a single thread.
FairSpec == Spec /\ WF_vars(Next)
-----------------------------------------------------------------------------
TypeOK ==
  /\ arrived \in Seq(Byte) /\ rx \in Seq(Byte)
  /\ serial \in Serials
  /\ counter \in 0 .. Len(arrived)
  /\ pc \in {"resync", "header", "done"}
  /\ status \in {"none", "resync", "need_more", "frame"}

Dropped(n) == SubSeq(arrived, n + 1, Len(arrived))

\* The loop returns what the closed form says, with the same bytes gone: no
\* candidate is missed and none is tried twice.
ReturnsVerdict ==
  pc = "done" =>
    /\ status = Verdict(arrived, serial)
    /\ rx = Dropped(StopAt(arrived, serial))

\* TCP may deliver a response in any pieces: if the first k bytes alone leave
\* the call waiting, then parsing again with the rest behind what it kept finds
\* the frame that parsing all at once finds (fx5_feed_response_bytes "may be
\* called repeatedly as bytes arrive from TCP").
PiecesDoNotMatter ==
  pc = "done" /\ status = "frame" =>
    \A k \in 0 .. Len(arrived) :
      LET first == SubSeq(arrived, 1, k)
          gone  == StopAt(first, serial)
          again == SubSeq(arrived, gone + 1, Len(arrived))
      IN  Verdict(first, serial) = "need_more" =>
            /\ Verdict(again, serial) = "frame"
            /\ gone + StopAt(again, serial) = StopAt(arrived, serial)

\* Every call returns, whatever bytes are waiting.
Returns == <>(pc = "done")

\* "Maximum number of bytes that may be discarded during resynchronization"
\* (FX5_RESYNC_LIMIT, fx5.h:132): no call discards more; one byte over the
\* limit is allowed for, the byte whose loss shows that the limit is passed.
DiscardsWithinLimit == counter <= ResyncLimit + 1

\* "More response bytes are required" (FX5_ST_ERR_NEED_MORE, fx5.h:223) is an
\* answer that more bytes can change: the frame waited for fits the buffer.
AwaitedFrameFits ==
  status = "need_more" /\ HeaderAt(rx, 0) # "none" /\ HeaderComplete(rx, 0)
    => FrameSize(rx, 0) <= IoBufSize
=============================================================================
