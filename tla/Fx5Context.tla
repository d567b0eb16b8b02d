----------------------------- MODULE Fx5Context -----------------------------
(***************************************************************************)
(* The context object of the library and what each call of the public API  *)
(* does to it (fx5_core.c, fx5_request.c, fx5_response.c).  Every operator *)
(* takes a context that is acquired and gives a result: the status the     *)
(* call returns and the context after it.                                  *)
(*                                                                         *)
(* A 16-bit word of the value store is the set of its bits, so that a word *)
(* device's value and sixteen packed bits of a bit device are the same     *)
(* thing, as in the code.  resync_counter is zeroed by each parse and read *)
(* by no other call: it lives in Fx5Frame, not in the record.              *)
(***************************************************************************)
EXTENDS Fx5Frame

CONSTANTS
  MaxValueCount,          \* FX5_MAX_VALUE_COUNT, words in the value store
  ClearValuesOnSetRequest,\* FX5_CLEAR_VALUES_ON_SET_REQUEST
  SerialRange             \* serials are 0 .. SerialRange - 1: 2^16 in the code

BitsPerWord      == 16
ReqHeaderSize3E  == 11
ReqHeaderSize4E  == 15
ReqPduHeaderSize == 10
IoBufGuard       == 16
MaxBitValueCount == BitsPerWord * MaxValueCount
MaxBitPayload    == (MaxBitValueCount + 1) \div 2
MaxRequestSize   == ReqHeaderSize4E + ReqPduHeaderSize + MaxBitPayload + IoBufGuard

\* The most that fx5.h lets FX5_MAX_VALUE_COUNT be, and the values of a uint16_t.
LargestValueCount == 4095
Uint16Range == 256 * 256

ASSUME ContextAssumption ==
  /\ MaxValueCount \in 1 .. LargestValueCount
  /\ ClearValuesOnSetRequest \in BOOLEAN
  /\ SerialRange \in 1 .. Uint16Range
  /\ IoBufSize = MaxRequestSize

Headers     == {"3E", "4E"}
Commands    == {"READ", "WRITE"}
WordDevices == {"D", "W", "SD", "SW"}
BitDevices  == {"M", "SM", "L", "F", "S", "X", "Y", "B", "SB"}
Devices     == WordDevices \cup BitDevices
ReadOnly    == {"SM", "SD", "SB", "SW"}
MaxAddress  == 256 * 256 * 256 - 1

Words == SUBSET (0 .. BitsPerWord - 1)
Slots == 0 .. MaxValueCount - 1

IsBitDevice(dev) == dev \in BitDevices

MaxCount(dev) == IF IsBitDevice(dev) THEN MaxBitValueCount ELSE MaxValueCount

\* Mutant of PayloadSize: every value takes a word.
PayloadSizeWords(dev, n) == 2 * n

\* Bytes that n values of a device take on the wire: a nibble a bit, two bytes a word.
PayloadSize(dev, n) == IF IsBitDevice(dev) THEN (n + 1) \div 2 ELSE 2 * n

\* The word a number stands for, by shifting the number to the right, and back,
\* from the highest bit.
WordOf(n) ==
  LET shifted[i \in 0 .. BitsPerWord - 1] == IF i = 0 THEN n ELSE shifted[i - 1] \div 2
  IN  {i \in 0 .. BitsPerWord - 1 : shifted[i] % 2 = 1}
NumberOf(word) ==
  LET read[k \in 0 .. BitsPerWord] ==
        IF k = 0 THEN 0 ELSE 2 * read[k - 1] + IF BitsPerWord - k \in word THEN 1 ELSE 0
  IN  read[BitsPerWord]

\* The slot and the bit of the value store that bit i of a bit device is kept in.
SlotOf(i) == i \div BitsPerWord
BitOf(i)  == i % BitsPerWord

Ok(c)      == [st |-> "OK", ctx |-> c]
Fail(e, c) == [st |-> e, ctx |-> c]
-----------------------------------------------------------------------------
DefaultSettings == [header |-> "4E", timer |-> "default"]

\* Mutant of ResetContext: the acquisition flag goes with the rest.
ResetContextWhole(c) ==
  [c EXCEPT !.in_use = FALSE, !.settings = DefaultSettings, !.next_serial = 0, !.serial = 0,
            !.device = "D", !.command = "READ", !.address = 0, !.count = 0,
            !.code = 0, !.rx = <<>>]

\* fx5_context_reset_internal: the value store keeps what it held.
ResetContext(c) ==
  [c EXCEPT !.settings = DefaultSettings, !.next_serial = 0, !.serial = 0,
            !.device = "D", !.command = "READ", !.address = 0, !.count = 0,
            !.code = 0, !.rx = <<>>]

\* A slot of the static pool before anyone acquired it: zeroed memory, which
\* reads as the 3E header, no device and no command.
ZeroContext ==
  [in_use |-> FALSE, settings |-> [header |-> "3E", timer |-> "zero"],
   next_serial |-> 0, serial |-> 0, device |-> "none", command |-> "none",
   address |-> 0, count |-> 0, code |-> 0, values |-> [k \in Slots |-> {}], rx |-> <<>>]

Reset(c) == Ok(ResetContext(c))

SetNetworkSettings(c, s) ==
  IF s.header \in Headers THEN Ok([c EXCEPT !.settings = s]) ELSE Fail("UNSUPPORTED", c)

SetHeaderMode(c, h) ==
  IF h \in Headers THEN Ok([c EXCEPT !.settings.header = h]) ELSE Fail("UNSUPPORTED", c)

SetMonitoringTimer(c, t) == Ok([c EXCEPT !.settings.timer = t])

\* Mutant of SetRequestStatus: the count is left to fx5_build_request.
SetRequestStatusLate(cmd, dev, addr, n) ==
  IF n = 0 THEN "INVALID_COUNT"
  ELSE IF addr > MaxAddress THEN "INVALID_ADDRESS"
  ELSE IF cmd \notin Commands \/ dev \notin Devices THEN "UNSUPPORTED"
  ELSE "OK"

SetRequestStatus(cmd, dev, addr, n) ==
  IF n = 0 THEN "INVALID_COUNT"
  ELSE IF addr > MaxAddress THEN "INVALID_ADDRESS"
  ELSE IF cmd \notin Commands \/ dev \notin Devices THEN "UNSUPPORTED"
  ELSE IF n > MaxCount(dev) THEN "INVALID_COUNT"
  ELSE "OK"

\* Mutant of SetRequest: the value store is never cleared.
SetRequestOver(c, cmd, dev, addr, n) ==
  LET st == SetRequestStatus(cmd, dev, addr, n) IN
  IF st # "OK" THEN Fail(st, c)
  ELSE Ok([c EXCEPT !.command = cmd, !.device = dev, !.address = addr, !.count = n, !.code = 0])

\* A request that is turned down leaves the one before it in place.
SetRequest(c, cmd, dev, addr, n) ==
  LET st == SetRequestStatus(cmd, dev, addr, n) IN
  IF st # "OK" THEN Fail(st, c)
  ELSE Ok([c EXCEPT !.command = cmd, !.device = dev, !.address = addr, !.count = n,
                    !.code = 0,
                    !.values = IF ClearValuesOnSetRequest THEN [k \in Slots |-> {}] ELSE @])

\* v is the word the caller passes; any word but 0 sets a bit.
SetWriteValue(c, i, v) ==
  IF c.count = 0 THEN Fail("STATE", c)
  ELSE IF i >= c.count THEN Fail("INVALID_INDEX", c)
  ELSE IF IsBitDevice(c.device)
  THEN Ok([c EXCEPT !.values[SlotOf(i)] = IF v # {} THEN @ \cup {BitOf(i)} ELSE @ \ {BitOf(i)}])
  ELSE Ok([c EXCEPT !.values[i] = v])

\* fx5_get_response_value: a bit comes back as FX5_BIT_TRUE, 0x00FF, or as 0.
BitTrue == 0 .. 7
GetResponseValue(c, i) ==
  IF IsBitDevice(c.device)
  THEN IF BitOf(i) \in c.values[SlotOf(i)] THEN BitTrue ELSE {}
  ELSE c.values[i]
-----------------------------------------------------------------------------
(***************************************************************************)
(* fx5_build_request.                                                      *)
(***************************************************************************)
ReqHeaderSize(h) == IF h = "4E" THEN ReqHeaderSize4E ELSE ReqHeaderSize3E

RequestSize(c) ==
  ReqHeaderSize(c.settings.header) + ReqPduHeaderSize
    + IF c.command = "WRITE" THEN PayloadSize(c.device, c.count) ELSE 0

ValidateStatus(c) ==
  IF c.count = 0 THEN "INVALID_COUNT"
  ELSE IF c.address > MaxAddress THEN "INVALID_ADDRESS"
  ELSE IF c.command \notin Commands \/ c.device \notin Devices THEN "UNSUPPORTED"
  ELSE IF c.count > MaxCount(c.device) THEN "INVALID_COUNT"
  ELSE IF c.command = "WRITE" /\ c.device \in ReadOnly THEN "UNSUPPORTED"
  ELSE IF c.settings.header \notin Headers THEN "UNSUPPORTED"
  ELSE "OK"

\* fx5_get_packed_bit_value, as the nibble it becomes.
PackedBit(c, i) == IF i < c.count /\ BitOf(i) \in c.values[SlotOf(i)] THEN 1 ELSE 0

\* Mutant of PackBits: the first bit of a byte goes into its low nibble.
PackBitsSwapped(c) ==
  [k \in 1 .. PayloadSize(c.device, c.count) |-> PackedBit(c, 2 * k - 2) + 16 * PackedBit(c, 2 * k - 1)]

\* Two bits to a byte, the first in the high nibble; a last low nibble is 0.
PackBits(c) ==
  [k \in 1 .. PayloadSize(c.device, c.count) |-> 16 * PackedBit(c, 2 * k - 2) + PackedBit(c, 2 * k - 1)]

\* Words go low byte first.
PackWords(c) ==
  [k \in 1 .. PayloadSize(c.device, c.count) |->
     LET n == NumberOf(c.values[(k - 1) \div 2]) IN IF k % 2 = 1 THEN n % 256 ELSE n \div 256]

WritePayload(c) == IF IsBitDevice(c.device) THEN PackBits(c) ELSE PackWords(c)

\* Mutant of Stamp: the serial grows past its sixteen bits.
StampOn(c) ==
  IF c.settings.header = "4E"
  THEN [c EXCEPT !.serial = c.next_serial, !.next_serial = @ + 1]
  ELSE [c EXCEPT !.serial = 0]

\* A 4E header takes the next serial, which wraps; a 3E header has none.
Stamp(c) ==
  IF c.settings.header = "4E"
  THEN [c EXCEPT !.serial = c.next_serial, !.next_serial = (@ + 1) % SerialRange]
  ELSE [c EXCEPT !.serial = 0]

\* What the bytes of the request say, for the context it was stamped from.
Wire(c) ==
  [settings |-> c.settings, serial |-> c.serial, command |-> c.command,
   device |-> c.device, address |-> c.address, count |-> c.count,
   payload |-> IF c.command = "WRITE" THEN WritePayload(c) ELSE <<>>]

BuildStatus(c, bufSize) ==
  IF ValidateStatus(c) # "OK" THEN ValidateStatus(c)
  ELSE IF bufSize < RequestSize(c) THEN "TOO_SMALL"
  ELSE "OK"

\* Mutant of BuildRequest: the serial is taken before the buffer is looked at.
BuildRequestEager(c, bufSize) ==
  LET st == BuildStatus(c, bufSize) IN
  IF ValidateStatus(c) # "OK" THEN Fail(st, c) ELSE Fail(st, Stamp(c))

BuildRequest(c, bufSize) ==
  LET st == BuildStatus(c, bufSize) IN
  IF st = "OK" THEN Ok(Stamp(c)) ELSE Fail(st, c)
-----------------------------------------------------------------------------
(***************************************************************************)
(* fx5_feed_response_bytes and fx5_parse_response.                         *)
(***************************************************************************)

\* Mutant of FeedResponseBytes: the free space is not looked at.
FeedUnchecked(c, bytes) == Ok([c EXCEPT !.rx = @ \o bytes])

FeedResponseBytes(c, bytes) ==
  IF Len(c.rx) + Len(bytes) > IoBufSize THEN Fail("TOO_SMALL", c)
  ELSE Ok([c EXCEPT !.rx = @ \o bytes])

After(buf, n) == SubSeq(buf, n + 1, Len(buf))

\* Mutant of NibbleOf: the low nibble comes first.
NibbleOfSwapped(body, i) ==
  IF i % 2 = 1 THEN body[i \div 2 + 1] \div 16 ELSE body[i \div 2 + 1] % 16

\* Bit i of a bit response: the high nibble of a byte comes first; 1 is on.
NibbleOf(body, i) ==
  IF i % 2 = 0 THEN body[i \div 2 + 1] \div 16 ELSE body[i \div 2 + 1] % 16

\* The value store after n values of a payload: later slots and bits stay.
ReadValues(c, body) ==
  IF IsBitDevice(c.device)
  THEN [k \in Slots |->
          {b \in 0 .. BitsPerWord - 1 :
             IF BitsPerWord * k + b < c.count
             THEN NibbleOf(body, BitsPerWord * k + b) = 1
             ELSE b \in c.values[k]}]
  ELSE [k \in Slots |-> IF k < c.count THEN WordOf(WordAt(body, 2 * k)) ELSE c.values[k]]

\* fx5_parse_response_pdu: rx starts with the PDU of `size` bytes.  A word read
\* whose payload is odd keeps that payload in the buffer.
ParsePdu(c, size) ==
  LET code    == WordAt(c.rx, 0)
      payload == size - PduHeaderSize
      body    == After(c.rx, PduHeaderSize)
      coded   == [c EXCEPT !.code = code, !.rx = body]
      taken   == [coded EXCEPT !.rx = After(body, payload)]
      odd     == ~IsBitDevice(c.device) /\ payload % 2 = 1
      asked   == c.count \in 1 .. MaxCount(c.device) /\ payload = PayloadSize(c.device, c.count)
  IN  IF code # 0 THEN Fail("RESPONSE_ERROR", [taken EXCEPT !.count = 0])
      ELSE IF c.command = "WRITE"
      THEN IF payload > 0 THEN Fail("INVALID_COUNT", taken) ELSE Ok([taken EXCEPT !.count = 0])
      ELSE IF odd THEN Fail("INVALID_COUNT", coded)
      ELSE IF ~asked THEN Fail("INVALID_COUNT", taken)
      ELSE Ok([taken EXCEPT !.values = ReadValues(c, body)])

\* Mutant of ParseAt: the header is consumed before the rest has arrived.
ParseAtEager(c, p) ==
  LET verdict == VerdictAt(c.rx, p)
      opened  == [c EXCEPT !.rx = After(@, p + HeaderSize(HeaderAt(@, p)))]
  IN  IF verdict = "frame" THEN ParsePdu(opened, PacketSize(c.rx, p))
      ELSE IF verdict = "resync" THEN Fail("RESYNC", [c EXCEPT !.rx = After(@, p)])
      ELSE Fail("NEED_MORE", IF HeaderAt(c.rx, p) # "none" /\ HeaderComplete(c.rx, p)
                             THEN opened ELSE [c EXCEPT !.rx = After(@, p)])

\* The search stopped after p bytes.
ParseAt(c, p) ==
  LET verdict == VerdictAt(c.rx, p)
      rest    == [c EXCEPT !.rx = After(@, p)]
      opened  == [c EXCEPT !.rx = After(@, p + HeaderSize(HeaderAt(@, p)))]
  IN  IF verdict = "frame" THEN ParsePdu(opened, PacketSize(c.rx, p))
      ELSE IF verdict = "resync" THEN Fail("RESYNC", rest)
      ELSE Fail("NEED_MORE", rest)

\* Mutants of ParseResponse: a frame with the wrong count stays where it was; a
\* failure ends the request; the information behind an error code stays.
ParseResponseInPlace(c) ==
  LET r == ParseAt(c, StopAt(c.rx, c.serial)) IN
  IF r.st = "INVALID_COUNT" THEN Fail(r.st, c) ELSE r

ParseResponseAborts(c) ==
  LET r == ParseAt(c, StopAt(c.rx, c.serial)) IN
  IF r.st = "OK" THEN r ELSE [r EXCEPT !.ctx.count = 0]

ParseResponseLeavesInfo(c) ==
  LET p == StopAt(c.rx, c.serial)
      r == ParseAt(c, p)
  IN  IF r.st # "RESPONSE_ERROR" THEN r
      ELSE [r EXCEPT !.ctx.rx = After(c.rx, p + HeaderSize(HeaderAt(c.rx, p)) + PduHeaderSize)]

ParseResponse(c) == ParseAt(c, StopAt(c.rx, c.serial))
=============================================================================
