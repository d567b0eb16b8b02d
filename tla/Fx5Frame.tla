------------------------------ MODULE Fx5Frame ------------------------------
(***************************************************************************)
(* Response framing (fx5_response.c and the loop of fx5_parse_response):   *)
(* where in the received bytes a response starts, which candidates are     *)
(* passed over, and when the search gives up.  A buffer is the sequence of *)
(* bytes in the ring, oldest first; a position p is the number of bytes    *)
(* before it.  Bytes the parser skips unread take part by their place only.*)
(*                                                                         *)
(* The layout is a parameter: fx5_layout.h and fx5_private.h give it as    *)
(* macros, and small checks run on a shorter header of the same form.      *)
(***************************************************************************)
EXTENDS Integers, Sequences, FiniteSetsExt

CONSTANTS
  HeaderSize3E, HeaderSize4E,   \* bytes before the PDU
  SizeOffset3E, SizeOffset4E,   \* where the packet size is
  SerialOffset4E,               \* where a 4E header has its serial
  IoBufSize,                    \* bytes the receive buffer holds
  ResyncLimit                   \* FX5_RESYNC_LIMIT

ASSUME LayoutAssumption ==
  /\ {HeaderSize3E, HeaderSize4E, SizeOffset3E, SizeOffset4E, SerialOffset4E} \subseteq Nat
  /\ 2 <= SizeOffset3E /\ SizeOffset3E + 2 <= HeaderSize3E
  /\ 2 <= SerialOffset4E /\ SerialOffset4E + 2 <= SizeOffset4E
  /\ SizeOffset4E + 2 <= HeaderSize4E
  /\ IoBufSize \in Nat /\ IoBufSize > HeaderSize4E
  /\ ResyncLimit \in Nat

PduHeaderSize == 2

\* Low bytes of the response subheaders 0x00D0 and 0x00D4; the high byte is 0.
Low3E == 208
Low4E == 212

\* pdu_peekc_u16_le: the little-endian word p + offset bytes into the buffer.
WordAt(buf, p) == buf[p + 1] + 256 * buf[p + 2]

\* fx5_detect_response_header, p bytes into the buffer.
HeaderAt(buf, p) ==
  IF Len(buf) - p >= 2 /\ WordAt(buf, p) \in {Low3E, Low4E}
  THEN IF WordAt(buf, p) = Low4E THEN "4E" ELSE "3E"
  ELSE "none"

HeaderSize(h) == IF h = "4E" THEN HeaderSize4E ELSE HeaderSize3E

SizeOffset(h) == IF h = "4E" THEN SizeOffset4E ELSE SizeOffset3E

HeaderComplete(buf, p) == Len(buf) - p >= HeaderSize(HeaderAt(buf, p))

PacketSize(buf, p) == WordAt(buf, p + SizeOffset(HeaderAt(buf, p)))

\* Mutant of Mismatch: the serial is not compared.
MismatchAnySerial(buf, p, serial) ==
  HeaderComplete(buf, p) /\ PacketSize(buf, p) \notin PduHeaderSize .. IoBufSize

\* Mutant of Mismatch: a size of 0 is accepted.
MismatchAnySize(buf, p, serial) ==
  /\ HeaderComplete(buf, p)
  /\ \/ HeaderAt(buf, p) = "4E" /\ WordAt(buf, p + SerialOffset4E) # serial
     \/ PacketSize(buf, p) > IoBufSize

\* A complete header that fx5_parse_response_header_3e or _4e turns down: the
\* serial is not the last one sent, or the size is one no response can have.
Mismatch(buf, p, serial) ==
  /\ HeaderComplete(buf, p)
  /\ \/ HeaderAt(buf, p) = "4E" /\ WordAt(buf, p + SerialOffset4E) # serial
     \/ PacketSize(buf, p) \notin PduHeaderSize .. IoBufSize

\* A complete header that they take.
TakenAsHeader(buf, p, serial) ==
  HeaderAt(buf, p) # "none" /\ HeaderComplete(buf, p) /\ ~Mismatch(buf, p, serial)

FrameSize(buf, p) == HeaderSize(HeaderAt(buf, p)) + PacketSize(buf, p)

FrameComplete(buf, p) ==
  HeaderComplete(buf, p) /\ Len(buf) - p >= FrameSize(buf, p)
-----------------------------------------------------------------------------
(***************************************************************************)
(* The whole search in closed form.  Every byte it passes over is counted, *)
(* so the counter of discarded bytes is the position.                      *)
(***************************************************************************)

Candidates(buf) == {p \in 0 .. Len(buf) - 2 : HeaderAt(buf, p) # "none"}

\* Mutant of Remainder: a lone first byte of a subheader is thrown away too.
RemainderAll(buf) == Len(buf)

\* Where the search ends when nothing looks like a header: a last byte that may
\* be the first of a subheader stays.
Remainder(buf) ==
  IF buf # <<>> /\ buf[Len(buf)] \in {Low3E, Low4E} THEN Len(buf) - 1 ELSE Len(buf)

\* A candidate the search goes past and on from.
Passed(buf, p, serial) == p <= ResyncLimit /\ Mismatch(buf, p, serial)

\* The position the search stops at: the first candidate not passed; one byte
\* past a mismatch that uses up the limit; or the end.
StopAt(buf, serial) ==
  Min(   {p \in Candidates(buf) : ~Passed(buf, p, serial)}
    \cup {p + 1 : p \in {c \in Candidates(buf) : c = ResyncLimit /\ Mismatch(buf, c, serial)}}
    \cup {Remainder(buf)})

\* What fx5_parse_response decides where its search stops.
VerdictAt(buf, p) ==
  IF p > ResyncLimit THEN "resync"
  ELSE IF HeaderAt(buf, p) # "none" /\ FrameComplete(buf, p) THEN "frame"
  ELSE "need_more"

Verdict(buf, serial) == VerdictAt(buf, StopAt(buf, serial))
=============================================================================
