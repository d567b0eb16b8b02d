----------------------------- MODULE Fx5Station -----------------------------
(***************************************************************************)
(* The station's side of the wire: an SLMP server as the library expects   *)
(* it (external: the repository has none).  A response carries the serial  *)
(* of its request in a 4E header and nothing of it in a 3E header; its     *)
(* routing fields, which the parser skips, are those of the test vectors   *)
(* (test_fx5_edge_cases.c:203): network 0, PC FF, module 03FF, station 0.  *)
(***************************************************************************)
EXTENDS Fx5Context

\* It writes the headers of SLMP as fx5_layout.h has them.
ASSUME HeaderAssumption ==
  /\ HeaderSize3E = 9 /\ SizeOffset3E = 7
  /\ HeaderSize4E = 13 /\ SizeOffset4E = 11 /\ SerialOffset4E = 2

\* Words go low byte first, bits two to a byte, the first in the high nibble.
WordBytes(vals) == [i \in 1 .. 2 * Len(vals) |->
  IF i % 2 = 1 THEN vals[(i + 1) \div 2] % 256 ELSE vals[i \div 2] \div 256]
BitBytes(vals) == [i \in 1 .. (Len(vals) + 1) \div 2 |->
  16 * vals[2 * i - 1] + IF 2 * i <= Len(vals) THEN vals[2 * i] ELSE 0]

\* What a write request says for its i-th coil or register, counted from 0.
CoilIn(body, i) == (body[i \div 2 + 1] \div (IF i % 2 = 0 THEN 16 ELSE 1)) % 16
RegisterIn(body, i) == body[2 * i + 1] + 256 * body[2 * i + 2]

\* Behind an error code: the station's own address and the command at fault.
ErrorInfo == <<0, 255, 255, 3, 0, 1, 4, 0, 0>>

\* The response to the request w: a code and, for a read that succeeds, numbers.
Response(w, code, vals) ==
  LET body == IF code # 0 THEN ErrorInfo
              ELSE IF IsBitDevice(w.device) THEN BitBytes(vals) ELSE WordBytes(vals)
      pdu  == <<code, 0>> \o body
  IN  IF w.settings.header = "4E"
      THEN <<Low4E, 0, w.serial % 256, w.serial \div 256, 0, 0, 0, 255, 255, 3, 0,
             Len(pdu) % 256, Len(pdu) \div 256>> \o pdu
      ELSE <<Low3E, 0, 0, 255, 255, 3, 0, Len(pdu) % 256, Len(pdu) \div 256>> \o pdu

\* Bytes tagged with the number of the response they begin, or 0: short of the
\* response `last`, only the first byte of one starts a header the parser takes.
Clear(buf, tag, last, serial) ==
  \A p \in 0 .. Len(buf) - 1 :
    tag[p + 1] = 0 /\ (\A q \in 0 .. p : tag[q + 1] # 0 => tag[q + 1] # last)
      => ~TakenAsHeader(buf, p, serial)
=============================================================================
