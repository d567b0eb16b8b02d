---------------------------- MODULE Fx5LinkProofs ----------------------------
(***************************************************************************)
(* Proofs about one context and its station, for every set of requests,    *)
(* limit of the resynchronization and size of the pieces.  A caller that   *)
(* gives up on requests gets its answers as long as no late one is taken   *)
(* for something else from the inside (Undeceived); one that waits for     *)
(* each answer needs no such hypothesis.                                   *)
(***************************************************************************)
EXTENDS Fx5Link, Fx5StationProofs

-----------------------------------------------------------------------------
(***************************************************************************)
(* The type invariant.  What the caller and the station said is known as   *)
(* far as later steps depend on it; the payload of a write is left open.   *)
(***************************************************************************)

\* A request of the caller, and an answer the station may give to it.
Said(w) ==
  /\ Asked(w) /\ w.settings.header \in LinkHeaders
  /\ <<w.command, w.device, w.count>> \in Requests

Given(w, a) == a.code \in Codes /\ a.vals \in Vals(w, a.code)

TypeInv ==
  /\ Sound(ctx)
  /\ IsSeq(sent) /\ IsSeq(answers)
  /\ Len(answers) <= Len(sent) /\ Len(sent) <= MaxRequests
  /\ \A i \in 1 .. Len(sent) : Said(sent[i])
  /\ \A i \in 1 .. Len(answers) : Given(sent[i], answers[i])
  /\ stream \in Seq(Bytes)
  /\ rxTag \in Seq(0 .. Len(answers)) /\ Len(rxTag) = Len(ctx.rx)
  /\ streamTag \in Seq(0 .. Len(answers)) /\ Len(streamTag) = Len(stream)
  /\ found \in 0 .. Len(answers)

\* The responses so far, by the request they answer.
Replies == [i \in 1 .. Len(answers) |-> Response(sent[i], answers[i].code, answers[i].vals)]

-----------------------------------------------------------------------------
\* What each step does.

\* The calls of Request, one after the other.
SetBy(c, h, cmd, dev, n) == SetRequest(SetHeaderMode(c, h).ctx, cmd, dev, 0, n)
MadeBy(c, h, cmd, dev, n) == BuildRequest(SetBy(c, h, cmd, dev, n).ctx, MaxRequestSize)

\* d is the context c once a request was made on it.
Asks(c, d, h, cmd, dev, n) ==
  /\ Sound(d) /\ d.rx = c.rx /\ d.settings.header = h
  /\ d.command = cmd /\ d.device = dev /\ d.count = n
  /\ h = "4E" => /\ d.serial = c.next_serial
                 /\ d.next_serial = (c.next_serial + 1) % SerialRange
  /\ cmd \in Commands /\ dev \in Devices /\ n \in 1 .. MaxCount(dev)

LEMMA RequestMakes ==
  ASSUME NEW c, Sound(c), NEW cmd, NEW dev, NEW n \in Nat, NEW h \in Headers,
         SetBy(c, h, cmd, dev, n).st = "OK", MadeBy(c, h, cmd, dev, n).st = "OK"
  PROVE  Asks(c, MadeBy(c, h, cmd, dev, n).ctx, h, cmd, dev, n)
  <1> DEFINE c1 == [c EXCEPT !.settings.header = h]
             vs == IF ClearValuesOnSetRequest THEN [k \in Slots |-> {}] ELSE c1.values
             c2 == [c1 EXCEPT !.command = cmd, !.device = dev, !.address = 0, !.count = n,
                              !.code = 0, !.values = vs]
             set == SetRequest(c1, cmd, dev, 0, n)
             d  == Stamp(c2)
             st == [header |-> h, timer |-> "default"]
  <1>1. SetHeaderMode(c, h).ctx = c1 /\ set = SetBy(c, h, cmd, dev, n)
    BY DEF SetHeaderMode, Ok, SetBy
  <1>2. SetRequestStatus(cmd, dev, 0, n) = "OK"
    <2>1. set.st = "OK"
      BY <1>1
    <2>2. QED  BY <2>1, Zenon DEF SetRequest, Fail
  <1>3. set.ctx = c2
    BY <1>2 DEF SetRequest, Ok
  <1>4. MadeBy(c, h, cmd, dev, n).ctx = d
    <2>1. BuildStatus(c2, MaxRequestSize) = "OK"
      <3>1. BuildRequest(c2, MaxRequestSize).st = "OK"
        BY <1>1, <1>3 DEF MadeBy
      <3> HIDE DEF c2
      <3>2. QED  BY <3>1 DEF BuildRequest, Fail, Ok
    <2>2. QED  BY <1>1, <1>3, <2>1 DEF BuildRequest, Ok, MadeBy
  <1>5. cmd \in Commands /\ dev \in Devices /\ n \in 1 .. MaxCount(dev)
    <2>1. n # 0 /\ cmd \in Commands /\ dev \in Devices /\ ~(n > MaxCount(dev))
      BY <1>2 DEF SetRequestStatus
    <2>2. MaxCount(dev) \in Nat
      BY CountsAreNat
    <2>3. QED  BY <2>1, <2>2
  <1>6. /\ Whole(c1) /\ c1.in_use /\ c1.settings = st /\ c1.next_serial = c.next_serial
        /\ c1.serial = c.serial /\ c1.rx = c.rx
    <2>1. /\ c.in_use /\ c.settings \in [header : Headers, timer : {"default"}]
          /\ Whole(c)
      BY DEF Sound, Settings
    <2>2. [c.settings EXCEPT !.header = h] = st
      BY <2>1
    <2>3. c1 = [c EXCEPT !.settings = st]
      BY <2>1, <2>2 DEF Whole, CtxFields
    <2>4. QED  BY <2>1, <2>3 DEF Whole, CtxFields
  <1> HIDE DEF c1, vs, st
  <1>7. /\ Whole(c2) /\ c2.in_use /\ c2.settings = st /\ c2.next_serial = c.next_serial
        /\ c2.serial = c.serial /\ c2.rx = c.rx
        /\ c2.command = cmd /\ c2.device = dev /\ c2.count = n
    BY <1>6 DEF Whole, CtxFields
  <1>8. st \in Settings /\ st.header = h
    BY DEF Settings, st
  <1> HIDE DEF c2
  <1> DEFINE next == IF h = "4E" THEN (c.next_serial + 1) % SerialRange ELSE c.next_serial
             now  == IF h = "4E" THEN c.next_serial ELSE 0
  <1>9. /\ Whole(d) /\ d.in_use /\ d.settings = st /\ d.next_serial = next
        /\ d.serial = now /\ d.rx = c.rx
        /\ d.command = cmd /\ d.device = dev /\ d.count = n
    <2>1. CASE h = "4E"
      <3>1. d = [c2 EXCEPT !.serial = c.next_serial, !.next_serial = next]
        BY <1>7, <1>8, <2>1 DEF Stamp
      <3> HIDE DEF next, d
      <3>2. QED  BY <1>7, <2>1, <3>1 DEF Whole, CtxFields
    <2>2. CASE h # "4E"
      <3>1. d = [c2 EXCEPT !.serial = 0]
        BY <1>7, <1>8, <2>2 DEF Stamp
      <3> HIDE DEF d
      <3>2. QED  BY <1>7, <2>2, <3>1 DEF Whole, CtxFields
    <2>3. QED  BY <2>1, <2>2
  <1>10. next \in 0 .. SerialRange - 1 /\ now \in 0 .. SerialRange - 1
    <2>1. c.next_serial \in 0 .. SerialRange - 1 /\ SerialRange \in Nat /\ SerialRange >= 1
      BY SerialsAreNat DEF Sound
    <2>2. ASSUME NEW k \in Nat PROVE k % SerialRange \in 0 .. SerialRange - 1
      BY <2>1
    <2>3. QED  BY <2>1, <2>2
  <1>11. c.rx \in Seq(Bytes) /\ Len(c.rx) <= IoBufSize
    BY DEF Sound
  <1>12. h = "4E" => d.serial = c.next_serial /\ d.next_serial = (c.next_serial + 1) % SerialRange
    BY <1>9
  <1> HIDE DEF d, next, now
  <1>13. Sound(d)
    BY <1>8, <1>9, <1>10, <1>11 DEF Sound
  <1>14. QED  BY <1>4, <1>5, <1>8, <1>9, <1>12, <1>13 DEF Asks

\* What a request of the caller leaves behind.
RequestMade ==
  \E h \in LinkHeaders :
    /\ Sound(ctx') /\ ctx'.rx = ctx.rx /\ ctx'.settings.header = h
    /\ Said(Wire(ctx')) /\ sent' = Append(sent, Wire(ctx'))
    /\ h = "4E" => /\ ctx'.serial = ctx.next_serial
                   /\ ctx'.next_serial = (ctx.next_serial + 1) % SerialRange

LEMMA RequestDoes ==
  ASSUME TypeInv, Request
  PROVE  /\ RequestMade /\ Len(sent) < MaxRequests
         /\ parsed' = "none" /\ UNCHANGED <<answers, stream, streamTag, rxTag, found>>
  <1>1. Sound(ctx)
    BY DEF TypeInv
  <1>2. /\ Len(sent) < MaxRequests /\ parsed' = "none"
        /\ UNCHANGED <<answers, stream, streamTag, rxTag, found>>
    BY Zenon DEF Request
  <1>3. PICK r \in Requests, h \in LinkHeaders :
          LET set   == SetRequest(SetHeaderMode(ctx, h).ctx, r[1], r[2], 0, r[3])
              built == BuildRequest(set.ctx, MaxRequestSize)
          IN  /\ set.st = "OK" /\ built.st = "OK"
              /\ ctx' = built.ctx
              /\ sent' = Append(sent, Wire(built.ctx))
    BY Zenon DEF Request
  <1>4. h \in Headers /\ r[3] \in Nat /\ r = <<r[1], r[2], r[3]>>
    <2>1. r \in Commands \X Devices \X Nat
      BY LinkAssumption
    <2>2. r[3] \in Nat /\ r = <<r[1], r[2], r[3]>>
      BY <2>1
    <2>3. h \in Headers
      BY LinkAssumption
    <2>4. QED  BY <2>2, <2>3
  <1>5. /\ Sound(ctx') /\ ctx'.rx = ctx.rx /\ ctx'.settings.header = h
        /\ ctx'.command = r[1] /\ ctx'.device = r[2] /\ ctx'.count = r[3]
        /\ h = "4E" => /\ ctx'.serial = ctx.next_serial
                       /\ ctx'.next_serial = (ctx.next_serial + 1) % SerialRange
        /\ r[1] \in Commands /\ r[2] \in Devices /\ r[3] \in 1 .. MaxCount(r[2])
    <2>1. /\ SetBy(ctx, h, r[1], r[2], r[3]).st = "OK"
          /\ MadeBy(ctx, h, r[1], r[2], r[3]).st = "OK"
          /\ ctx' = MadeBy(ctx, h, r[1], r[2], r[3]).ctx
      BY <1>3 DEF SetBy, MadeBy
    <2>2. Asks(ctx, ctx', h, r[1], r[2], r[3])
      BY <1>1, <1>4, <2>1, RequestMakes
    <2>3. QED  BY <2>2 DEF Asks
  <1>6. Said(Wire(ctx'))
    <2> DEFINE w == Wire(ctx')
    <2>1. /\ w.settings = ctx'.settings /\ w.serial = ctx'.serial /\ w.command = r[1]
          /\ w.device = r[2] /\ w.count = r[3]
      BY <1>5 DEF Wire
    <2> HIDE DEF w
    <2>2. w.serial \in 0 .. SerialRange - 1
      BY <1>5, <2>1 DEF Sound
    <2>3. <<w.command, w.device, w.count>> \in Requests
      BY <1>4, <2>1
    <2>4. QED  BY <1>4, <1>5, <2>1, <2>2, <2>3 DEF Said, Asked, w
  <1>7. sent' = Append(sent, Wire(ctx'))
    BY <1>3
  <1>8. QED  BY <1>2, <1>5, <1>6, <1>7 DEF RequestMade

\* What the station may say is what the parser is made to read.
LEMMA GivenAnswers ==
  ASSUME NEW w, Asked(w), NEW code \in Codes, NEW vals \in Vals(w, code)
  PROVE  /\ code \in Bytes /\ Answers(w, code, vals) /\ Numbered(w, vals)
         /\ Framed(Response(w, code, vals))
         /\ ~Mismatch(Response(w, code, vals), 0, w.serial)
  <1>1. code \in Bytes /\ PlcWords \subseteq Numbers16
    BY LinkAssumption DEF Bytes, Numbers16
  <1>2. w.count \in 1 .. MaxCount(w.device) /\ MaxCount(w.device) \in Nat
    <2>1. MaxCount(w.device) \in Nat
      BY CountsAreNat
    <2>2. QED  BY <2>1 DEF Asked
  <1>3. Answers(w, code, vals)
    <2>1. CASE code = 0 /\ w.command = "READ"
      <3> DEFINE V == IF IsBitDevice(w.device) THEN {0, 1} ELSE PlcWords
      <3>1. vals \in [1 .. w.count -> V]
        BY <2>1 DEF Vals
      <3>2. V \subseteq Numbers16
        <4>1. {0, 1} \subseteq Numbers16
          BY DEF Numbers16, Uint16Range
        <4>2. QED  BY <1>1, <4>1
      <3>3. vals \in Seq(V) /\ Len(vals) = w.count
        <4> HIDE DEF V
        <4>1. QED  BY <1>2, <3>1, FunctionIsSeq
      <3>4. vals \in Seq(Numbers16)
        <4> HIDE DEF V
        <4>1. QED  BY <3>2, <3>3, SeqMonotonic
      <3>5. IsBitDevice(w.device) => vals \in Seq({0, 1})
        BY <3>3
      <3>6. Len(vals) <= MaxCount(w.device)
        BY <1>2, <3>3
      <3> HIDE DEF V
      <3>7. QED  BY <2>1, <3>3, <3>4, <3>5, <3>6 DEF Answers, Numbered
    <2>2. CASE ~(code = 0 /\ w.command = "READ")
      <3>1. vals = <<>>
        BY <2>2 DEF Vals
      <3>2. vals \in Seq(Numbers16) /\ vals \in Seq({0, 1}) /\ Len(vals) = 0
        BY <3>1, EmptySeq
      <3>3. Len(vals) <= MaxCount(w.device)
        BY <1>2, <3>2
      <3>4. QED  BY <2>2, <3>1, <3>2, <3>3 DEF Answers, Numbered
    <2>3. QED  BY <2>1, <2>2
  <1>4. Numbered(w, vals)
    BY <1>3 DEF Answers
  <1> DEFINE bytes == Response(w, code, vals)
             h     == w.settings.header
  <1>5. /\ bytes \in Seq(Bytes) /\ Len(bytes) = HeaderSize(h) + 2 + Len(Body(w, code, vals))
        /\ HeaderAt(bytes, 0) = h /\ FrameSize(bytes, 0) = Len(bytes) /\ FrameComplete(bytes, 0)
        /\ ~Mismatch(bytes, 0, w.serial)
    BY <1>1, <1>4, ResponseFacts
  <1>6. HeaderSize(h) \in Nat /\ Len(Body(w, code, vals)) \in Nat
    BY <1>4, BodyFacts, LayoutAssumption DEF HeaderSize
  <1>7. h # "none"
    BY DEF Asked, Headers
  <1> HIDE DEF bytes
  <1>8. 2 <= Len(bytes) /\ HeaderAt(bytes, 0) # "none"
    BY <1>5, <1>6, <1>7
  <1>9. QED  BY <1>1, <1>3, <1>4, <1>5, <1>8 DEF Framed, bytes

\* What the station's answer adds.
Answered(code, vals) ==
  LET i     == Len(answers) + 1
      bytes == Response(sent[i], code, vals)
  IN  /\ i \in 1 .. Len(sent) /\ code \in Codes /\ vals \in Vals(sent[i], code)
      /\ Framed(bytes)
      /\ answers' = Append(answers, [code |-> code, vals |-> vals])
      /\ stream' = stream \o bytes /\ streamTag' = streamTag \o Tagged(bytes, i)

LEMMA AnswerDoes ==
  ASSUME TypeInv, Answer
  PROVE  /\ \E code \in Codes : \E vals \in Vals(sent[Len(answers) + 1], code) : Answered(code, vals)
         /\ UNCHANGED <<ctx, sent, rxTag, parsed, found>>
  <1> DEFINE i == Len(answers) + 1
  <1>1. i \in 1 .. Len(sent)
    <2>1. Len(answers) \in Nat /\ Len(sent) \in Nat
      BY AppendTo DEF TypeInv
    <2>2. Len(answers) < Len(sent)
      BY DEF Answer
    <2>3. QED  BY <2>1, <2>2
  <1>2. Asked(sent[i])
    BY <1>1 DEF TypeInv, Said
  <1>3. PICK code \in Codes : \E vals \in Vals(sent[i], code) :
          LET bytes == Response(sent[i], code, vals) IN
          /\ answers' = Append(answers, [code |-> code, vals |-> vals])
          /\ stream' = stream \o bytes
          /\ streamTag' = streamTag \o [k \in 1 .. Len(bytes) |-> IF k = 1 THEN i ELSE 0]
    BY DEF Answer
  <1>4. PICK vals \in Vals(sent[i], code) :
          LET bytes == Response(sent[i], code, vals) IN
          /\ answers' = Append(answers, [code |-> code, vals |-> vals])
          /\ stream' = stream \o bytes
          /\ streamTag' = streamTag \o [k \in 1 .. Len(bytes) |-> IF k = 1 THEN i ELSE 0]
    BY <1>3
  <1>5. Framed(Response(sent[i], code, vals))
    BY <1>2, GivenAnswers
  <1>6. Answered(code, vals)
    BY <1>1, <1>4, <1>5 DEF Answered, Tagged
  <1>7. UNCHANGED <<ctx, sent, rxTag, parsed, found>>
    BY DEF Answer
  <1>8. QED  BY <1>6, <1>7

\* Bytes move from the stream to the buffer.
Fed(n) ==
  /\ n \in 0 .. Len(stream) /\ Sound(ctx') /\ ctx' = [ctx EXCEPT !.rx = ctx'.rx]
  /\ ctx'.rx = ctx.rx \o SubSeq(stream, 1, n) /\ stream' = After(stream, n)
  /\ rxTag' = rxTag \o SubSeq(streamTag, 1, n) /\ streamTag' = After(streamTag, n)

LEMMA FeedDoes ==
  ASSUME TypeInv, Feed
  PROVE  (\E n \in 0 .. Len(stream) : Fed(n)) /\ parsed' = "none"
         /\ UNCHANGED <<sent, answers, found>>
  <1>1. Len(stream) \in Nat /\ stream \in Seq(Bytes) /\ Sound(ctx)
    BY LenProperties DEF TypeInv
  <1>2. PICK n \in {k \in Pieces : k < Len(stream)} \cup {Len(stream)} :
          LET r == FeedResponseBytes(ctx, SubSeq(stream, 1, n)) IN
            /\ r.st = "OK"
            /\ ctx' = r.ctx
            /\ rxTag' = rxTag \o SubSeq(streamTag, 1, n)
            /\ stream' = After(stream, n) /\ streamTag' = After(streamTag, n)
    BY DEF Feed
  <1>3. n \in 0 .. Len(stream)
    <2>1. Pieces \subseteq Nat
      BY LinkAssumption
    <2>2. QED  BY <1>1, <2>1
  <1> DEFINE piece == SubSeq(stream, 1, n)
             rx    == ctx.rx \o piece
  <1>4. /\ Len(ctx.rx) + Len(piece) <= IoBufSize /\ ctx' = [ctx EXCEPT !.rx = rx]
        /\ rxTag' = rxTag \o SubSeq(streamTag, 1, n)
        /\ stream' = After(stream, n) /\ streamTag' = After(streamTag, n)
    <2>1. FeedResponseBytes(ctx, piece).st = "OK" /\ ctx' = FeedResponseBytes(ctx, piece).ctx
      BY <1>2
    <2>2. Len(ctx.rx) \in Nat /\ Len(piece) \in Nat /\ IoBufSize \in Nat
      <3>1. ctx.rx \in Seq(Bytes) /\ piece \in Seq(Bytes)
        BY <1>1, <1>3, Moved DEF Sound
      <3>2. QED  BY <3>1, LenProperties, LayoutAssumption
    <2>3. ~(Len(ctx.rx) + Len(piece) > IoBufSize)
      BY <2>1 DEF FeedResponseBytes, Fail
    <2>4. ctx' = [ctx EXCEPT !.rx = rx]
      BY <2>1, <2>3 DEF FeedResponseBytes, Ok
    <2>5. Len(ctx.rx) + Len(piece) <= IoBufSize
      <3> HIDE DEF piece
      <3>1. QED  BY <2>2, <2>3
    <2>6. QED  BY <1>2, <2>4, <2>5
  <1>5. rx \in Seq(Bytes) /\ Len(rx) <= IoBufSize
    <2>1. ctx.rx \in Seq(Bytes) /\ piece \in Seq(Bytes)
      BY <1>1, <1>3, Moved DEF Sound
    <2>2. QED  BY <1>4, <2>1, ConcatProperties
  <1> HIDE DEF rx, piece
  <1>6. Sound(ctx') /\ ctx'.rx = rx
    <2>1. ctx.in_use /\ Whole(ctx)
      BY <1>1 DEF Sound
    <2>2. /\ Whole(ctx') /\ ctx'.in_use /\ ctx'.rx = rx /\ ctx'.settings = ctx.settings
          /\ ctx'.next_serial = ctx.next_serial /\ ctx'.serial = ctx.serial
      BY <1>4, <2>1 DEF Whole, CtxFields
    <2>3. QED  BY <1>1, <1>5, <2>2 DEF Sound
  <1>7. Fed(n)
    BY <1>3, <1>4, <1>6 DEF Fed, rx, piece
  <1>8. parsed' = "none" /\ UNCHANGED <<sent, answers, found>>
    BY DEF Feed
  <1>9. QED  BY <1>3, <1>7, <1>8

\* A parse takes the first n bytes off the buffer.
TakesOff(n) ==
  LET p == StopAt(ctx.rx, ctx.serial) IN
  /\ n \in 0 .. Len(ctx.rx) /\ p \in 0 .. Len(ctx.rx)
  /\ Sound(ctx') /\ Parsed(ctx, ctx')
  /\ ctx'.rx = After(ctx.rx, n) /\ rxTag' = After(rxTag, n)
  /\ parsed' \in Taken =>
       /\ p \in Candidates(ctx.rx) /\ FrameComplete(ctx.rx, p) /\ ~Mismatch(ctx.rx, p, ctx.serial)
       /\ n \in p + 1 .. p + FrameSize(ctx.rx, p) /\ p + FrameSize(ctx.rx, p) <= Len(ctx.rx)
       /\ p + 1 \in 1 .. Len(rxTag) /\ found' = rxTag[p + 1]
  /\ parsed' \notin Taken =>
       /\ parsed' \in {"NEED_MORE", "RESYNC"} /\ n = p /\ ctx'.count = ctx.count /\ found' = found
  /\ parsed' = "NEED_MORE" => VerdictAt(ctx.rx, p) = "need_more"

LEMMA ParseDoes ==
  ASSUME TypeInv, Parse
  PROVE  /\ \E n \in 0 .. Len(ctx.rx) : TakesOff(n)
         /\ parsed' = ParseResponse(ctx).st /\ ctx' = ParseResponse(ctx).ctx
         /\ UNCHANGED <<sent, answers, stream, streamTag>>
  <1> DEFINE r == ParseResponse(ctx)
             p == StopAt(ctx.rx, ctx.serial)
  <1>1. /\ parsed' = r.st /\ ctx' = r.ctx
        /\ rxTag' = After(rxTag, Len(rxTag) - Len(r.ctx.rx))
        /\ found' = IF r.st \in Taken THEN rxTag[p + 1] ELSE found
        /\ UNCHANGED <<sent, answers, stream, streamTag>>
    BY Zenon DEF Parse
  <1>2. Sound(ctx) /\ Len(rxTag) = Len(ctx.rx)
    BY DEF TypeInv
  <1>3. ctx.rx \in Seq(Bytes) /\ Len(ctx.rx) \in Nat /\ Len(ctx.rx) <= IoBufSize /\ IoBufSize \in Nat
    BY <1>2, LenProperties, LayoutAssumption DEF Sound
  <1>4. /\ p \in 0 .. Len(ctx.rx) /\ Parsed(ctx, r.ctx)
        /\ r.st \in Taken =>
             /\ p \in Candidates(ctx.rx) /\ FrameComplete(ctx.rx, p) /\ ~Mismatch(ctx.rx, p, ctx.serial)
             /\ p + FrameSize(ctx.rx, p) <= Len(ctx.rx)
             /\ \E d \in p + 1 .. p + FrameSize(ctx.rx, p) : r.ctx.rx = After(ctx.rx, d)
        /\ r.st \notin Taken =>
             /\ r.st \in {"NEED_MORE", "RESYNC"} /\ r.ctx.rx = After(ctx.rx, p)
             /\ r.ctx.count = ctx.count
        /\ r.st = "NEED_MORE" => VerdictAt(ctx.rx, p) = "need_more"
    <2>1. Whole(ctx)
      BY <1>2 DEF Sound
    <2>2. QED  BY <1>3, <2>1, ParseParses DEF Taken, TakenStatus
  <1> HIDE DEF r, p
  <1>5. ASSUME NEW n \in 0 .. Len(ctx.rx), r.ctx.rx = After(ctx.rx, n)
        PROVE  Sound(ctx') /\ rxTag' = After(rxTag, n)
    <2>1. r.ctx.rx \in Seq(Bytes) /\ Len(r.ctx.rx) = Len(ctx.rx) - n
      BY <1>3, <1>5, AfterSeq
    <2>2. Len(rxTag) - Len(r.ctx.rx) = n
      BY <1>2, <1>3, <2>1
    <2>3. Len(r.ctx.rx) <= IoBufSize
      BY <1>3, <2>1
    <2>4. Sound(ctx')
      BY <1>1, <1>2, <1>4, <2>1, <2>3 DEF Sound, Parsed
    <2>5. QED  BY <1>1, <2>2, <2>4
  <1>6. \E n \in 0 .. Len(ctx.rx) : TakesOff(n)
    <2>1. CASE r.st \in Taken
      <3>1. PICK n \in p + 1 .. p + FrameSize(ctx.rx, p) : r.ctx.rx = After(ctx.rx, n)
        BY <1>4, <2>1
      <3> DEFINE size == FrameSize(ctx.rx, p)
      <3>2. n \in 0 .. Len(ctx.rx) /\ p + 1 \in 1 .. Len(rxTag)
        <4>1. p + size <= Len(ctx.rx) /\ n \in p + 1 .. p + size
          BY <1>4, <2>1, <3>1
        <4> HIDE DEF size
        <4>2. n \in Int /\ p + 1 <= n /\ n <= p + size
          BY <4>1
        <4>3. n <= Len(ctx.rx)
          <5>1. HeaderSize(HeaderAt(ctx.rx, p)) \in Nat
            BY LayoutAssumption DEF HeaderSize
          <5>2. PacketSize(ctx.rx, p) \in 2 .. IoBufSize
            BY <1>4, <2>1 DEF Mismatch, FrameComplete, PduHeaderSize
          <5>3. size \in Int
            BY <1>3, <5>1, <5>2 DEF FrameSize, size
          <5>4. QED  BY <1>3, <1>4, <4>1, <4>2, <5>3
        <4>4. QED  BY <1>2, <1>3, <1>4, <4>2, <4>3
      <3>3. TakesOff(n)
        BY <1>1, <1>4, <1>5, <2>1, <3>1, <3>2 DEF TakesOff, p, Taken
      <3>4. QED  BY <3>2, <3>3
    <2>2. CASE r.st \notin Taken
      <3>1. TakesOff(p)
        BY <1>1, <1>4, <1>5, <2>2 DEF TakesOff, p, Taken
      <3>2. QED  BY <1>4, <3>1
    <2>3. QED  BY <2>1, <2>2
  <1>7. QED  BY <1>1, <1>6 DEF r

-----------------------------------------------------------------------------
\* The type invariant is inductive.

LEMMA InitTyped ==
  ASSUME Init PROVE TypeInv
  <1>1. Sound(ctx) /\ ctx.rx = <<>>
    <2>1. Sound(ctx)
      BY InitSound DEF Init
    <2> DEFINE y == ResetContext(ZeroContext)
    <2>2. y = [ZeroContext EXCEPT !.settings = DefaultSettings, !.next_serial = 0, !.serial = 0,
                  !.device = "D", !.command = "READ", !.address = 0, !.count = 0, !.code = 0, !.rx = <<>>]
      BY DEF ResetContext
    <2>3. ctx = [y EXCEPT !.in_use = TRUE]
      BY DEF Init
    <2>4. Whole(ZeroContext)
      BY DEF ZeroContext, Whole, CtxFields
    <2> HIDE DEF y
    <2>5. Whole(y) /\ y.rx = <<>>
      <3> DEFINE z == ZeroContext
      <3>1. Whole(z) /\ y = [z EXCEPT !.settings = DefaultSettings, !.next_serial = 0, !.serial = 0,
                  !.device = "D", !.command = "READ", !.address = 0, !.count = 0, !.code = 0, !.rx = <<>>]
        BY <2>2, <2>4
      <3> HIDE DEF z
      <3>2. QED  BY <3>1 DEF Whole, CtxFields
    <2>6. ctx.rx = <<>>
      BY <2>3, <2>5 DEF Whole, CtxFields
    <2>7. QED  BY <2>1, <2>6
  <1>2. sent = <<>> /\ answers = <<>> /\ stream = <<>> /\ streamTag = <<>> /\ rxTag = <<>> /\ found = 0
    BY DEF Init
  <1>3. /\ IsSeq(<<>>) /\ Len(<<>>) = 0 /\ <<>> \in Seq(Bytes) /\ <<>> \in Seq(0 .. 0)
    BY EmptySeq DEF IsSeq
  <1>4. MaxRequests \in Nat
    BY LinkAssumption
  <1>5. QED  BY <1>1, <1>2, <1>3, <1>4 DEF TypeInv

LEMMA RequestTyped ==
  ASSUME TypeInv, Request PROVE TypeInv'
  <1>1. /\ RequestMade /\ Len(sent) < MaxRequests
        /\ answers' = answers /\ stream' = stream /\ streamTag' = streamTag
        /\ rxTag' = rxTag /\ found' = found
    BY RequestDoes
  <1>2. /\ Sound(ctx') /\ ctx'.rx = ctx.rx /\ Said(Wire(ctx'))
        /\ sent' = Append(sent, Wire(ctx'))
    BY <1>1 DEF RequestMade
  <1>3. /\ IsSeq(sent') /\ Len(sent') = Len(sent) + 1 /\ Len(sent) \in Nat
        /\ \A i \in 1 .. Len(sent) : sent'[i] = sent[i]
        /\ sent'[Len(sent) + 1] = Wire(ctx')
    BY <1>2, AppendTo DEF TypeInv
  <1>4. MaxRequests \in Nat /\ Len(answers) \in Nat
    BY LinkAssumption, AppendTo DEF TypeInv
  <1>5. Len(answers) <= Len(sent') /\ Len(sent') <= MaxRequests
    BY <1>1, <1>3, <1>4 DEF TypeInv
  <1>6. ASSUME NEW i \in 1 .. Len(sent') PROVE Said(sent'[i])
    <2>1. CASE i \in 1 .. Len(sent)
      BY <1>3, <2>1 DEF TypeInv
    <2>2. CASE i = Len(sent) + 1
      BY <1>2, <1>3, <2>2
    <2>3. QED  BY <1>3, <2>1, <2>2
  <1>7. ASSUME NEW i \in 1 .. Len(answers) PROVE Given(sent'[i], answers[i])
    <2>1. i \in 1 .. Len(sent)
      BY <1>3, <1>4 DEF TypeInv
    <2>2. QED  BY <1>3, <2>1 DEF TypeInv
  <1>8. QED  BY <1>1, <1>2, <1>3, <1>5, <1>6, <1>7 DEF TypeInv

LEMMA AnswerTyped ==
  ASSUME TypeInv, Answer PROVE TypeInv'
  <1>1. ctx' = ctx /\ sent' = sent /\ rxTag' = rxTag /\ found' = found
    BY AnswerDoes
  <1>2. PICK code \in Codes : \E vals \in Vals(sent[Len(answers) + 1], code) : Answered(code, vals)
    BY AnswerDoes
  <1>3. PICK vals \in Vals(sent[Len(answers) + 1], code) : Answered(code, vals)
    BY <1>2
  <1> DEFINE i     == Len(answers) + 1
             bytes == Response(sent[i], code, vals)
             a     == [code |-> code, vals |-> vals]
             more  == Tagged(bytes, i)
  <1>4. /\ i \in 1 .. Len(sent) /\ Framed(bytes) /\ answers' = Append(answers, a)
        /\ stream' = stream \o bytes /\ streamTag' = streamTag \o more
    BY <1>3 DEF Answered
  <1>5. Given(sent[i], a)
    BY DEF Given
  <1>6. /\ IsSeq(answers') /\ Len(answers') = i /\ Len(answers) \in Nat
        /\ \A k \in 1 .. Len(answers) : answers'[k] = answers[k]
        /\ answers'[i] = a
    <2> HIDE DEF a
    <2>1. QED  BY <1>4, AppendTo DEF TypeInv
  <1>7. bytes \in Seq(Bytes) /\ Len(bytes) \in Nat
    <2>1. bytes \in Seq(Bytes)
      BY <1>4 DEF Framed
    <2> HIDE DEF bytes
    <2>2. QED  BY <2>1, LenProperties
  <1> DEFINE T == 0 .. i
  <1>8. more \in Seq(T) /\ Len(more) = Len(bytes)
    <2>1. i \in Nat
      BY <1>6
    <2> HIDE DEF bytes, i
    <2>2. more \in [1 .. Len(bytes) -> T]
      BY <2>1 DEF Tagged
    <2> HIDE DEF T, more
    <2>3. QED  BY <1>7, <2>2, FunctionIsSeq
  <1> HIDE DEF a, bytes, more
  <1>9. /\ stream' \in Seq(Bytes) /\ Len(stream') = Len(stream) + Len(bytes)
    BY <1>4, <1>7, ConcatProperties DEF TypeInv
  <1>10. rxTag \in Seq(T) /\ streamTag \in Seq(T)
    <2>1. 0 .. Len(answers) \subseteq T
      BY <1>6
    <2> HIDE DEF T, i
    <2>2. rxTag \in Seq(0 .. Len(answers)) /\ streamTag \in Seq(0 .. Len(answers))
      BY DEF TypeInv
    <2>3. QED  BY <2>1, <2>2, SeqMonotonic
  <1>11. streamTag' \in Seq(T) /\ Len(streamTag') = Len(streamTag) + Len(more)
    <2> HIDE DEF T, i
    <2>1. QED  BY <1>4, <1>8, <1>10, ConcatProperties
  <1>12. T = 0 .. Len(answers')
    BY <1>6
  <1>13. Len(streamTag') = Len(stream')
    BY <1>8, <1>9, <1>11 DEF TypeInv
  <1>14. Len(answers') <= Len(sent) /\ found \in 0 .. Len(answers')
    <2>1. found \in 0 .. Len(answers) /\ Len(sent) \in Nat
      BY AppendTo DEF TypeInv
    <2>2. QED  BY <1>4, <1>6, <2>1
  <1>15. ASSUME NEW k \in 1 .. Len(answers') PROVE Given(sent[k], answers'[k])
    <2>1. CASE k \in 1 .. Len(answers)
      BY <1>6, <2>1 DEF TypeInv
    <2>2. CASE k = i
      <3> HIDE DEF i
      <3>1. QED  BY <1>5, <1>6, <2>2
    <2>3. QED  BY <1>6, <2>1, <2>2
  <1> HIDE DEF T, i
  <1>16. QED  BY <1>1, <1>6, <1>9, <1>10, <1>11, <1>12, <1>13, <1>14, <1>15 DEF TypeInv

LEMMA FeedTyped ==
  ASSUME TypeInv, Feed PROVE TypeInv'
  <1>1. sent' = sent /\ answers' = answers /\ found' = found
    BY FeedDoes
  <1>2. PICK n \in 0 .. Len(stream) : Fed(n)
    BY FeedDoes
  <1> DEFINE T == 0 .. Len(answers)
  <1> HIDE DEF T
  <1>3. /\ stream \in Seq(Bytes) /\ streamTag \in Seq(T) /\ rxTag \in Seq(T)
        /\ Len(streamTag) = Len(stream) /\ Len(rxTag) = Len(ctx.rx) /\ ctx.rx \in Seq(Bytes)
        /\ n \in 0 .. Len(streamTag)
    BY DEF TypeInv, Sound, T
  <1>4. /\ Sound(ctx') /\ ctx'.rx = ctx.rx \o SubSeq(stream, 1, n) /\ stream' = After(stream, n)
        /\ rxTag' = rxTag \o SubSeq(streamTag, 1, n) /\ streamTag' = After(streamTag, n)
    BY <1>2 DEF Fed
  <1>5. /\ stream' \in Seq(Bytes) /\ Len(stream') = Len(stream) - n
        /\ streamTag' \in Seq(T) /\ Len(streamTag') = Len(stream) - n
    BY <1>3, <1>4, AfterSeq
  <1>6. /\ SubSeq(stream, 1, n) \in Seq(Bytes) /\ Len(SubSeq(stream, 1, n)) = n
        /\ SubSeq(streamTag, 1, n) \in Seq(T) /\ Len(SubSeq(streamTag, 1, n)) = n
    BY <1>3, Moved
  <1>7. /\ Len(ctx'.rx) = Len(ctx.rx) + n
        /\ rxTag' \in Seq(T) /\ Len(rxTag') = Len(rxTag) + n
    <2> DEFINE piece == SubSeq(stream, 1, n)
               bits  == SubSeq(streamTag, 1, n)
    <2>1. /\ piece \in Seq(Bytes) /\ Len(piece) = n /\ bits \in Seq(T) /\ Len(bits) = n
          /\ ctx'.rx = ctx.rx \o piece /\ rxTag' = rxTag \o bits
      BY <1>4, <1>6
    <2> HIDE DEF piece, bits
    <2>2. ctx.rx \in Seq(Bytes) /\ rxTag \in Seq(T)
      BY <1>3
    <2>3. Len(ctx.rx \o piece) = Len(ctx.rx) + Len(piece)
      BY <2>1, <2>2, ConcatProperties
    <2>4. rxTag \o bits \in Seq(T) /\ Len(rxTag \o bits) = Len(rxTag) + Len(bits)
      BY <2>1, <2>2, ConcatProperties
    <2>5. QED  BY <2>1, <2>3, <2>4
  <1>8. Len(rxTag') = Len(ctx'.rx) /\ Len(streamTag') = Len(stream')
    BY <1>3, <1>5, <1>7
  <1>9. QED  BY <1>1, <1>4, <1>5, <1>7, <1>8 DEF TypeInv, T

LEMMA ParseTyped ==
  ASSUME TypeInv, Parse PROVE TypeInv'
  <1>1. sent' = sent /\ answers' = answers /\ stream' = stream /\ streamTag' = streamTag
    BY ParseDoes
  <1>2. PICK n \in 0 .. Len(ctx.rx) : TakesOff(n)
    BY ParseDoes
  <1> DEFINE T == 0 .. Len(answers)
             p == StopAt(ctx.rx, ctx.serial)
  <1>3. /\ Sound(ctx') /\ ctx'.rx = After(ctx.rx, n) /\ rxTag' = After(rxTag, n)
        /\ parsed' \in Taken => p + 1 \in 1 .. Len(rxTag) /\ found' = rxTag[p + 1]
        /\ parsed' \notin Taken => found' = found
    BY <1>2 DEF TakesOff
  <1> HIDE DEF T, p
  <1>4. /\ rxTag \in Seq(T) /\ Len(rxTag) = Len(ctx.rx) /\ ctx.rx \in Seq(Bytes)
        /\ n \in 0 .. Len(rxTag) /\ found \in T
    BY DEF TypeInv, Sound, T
  <1>5. rxTag' \in Seq(T) /\ Len(rxTag') = Len(ctx'.rx)
    BY <1>3, <1>4, AfterSeq
  <1>6. found' \in T
    BY <1>3, <1>4, ElementOfSeq
  <1>7. QED  BY <1>1, <1>3, <1>5, <1>6 DEF TypeInv, T

LEMMA StutterTyped ==
  ASSUME TypeInv, UNCHANGED vars PROVE TypeInv'
  BY DEF TypeInv, vars

LEMMA TypeStep ==
  ASSUME TypeInv, [Next]_vars PROVE TypeInv'
  <1>1. CASE Request       BY <1>1, RequestTyped
  <1>2. CASE Answer        BY <1>2, AnswerTyped
  <1>3. CASE Feed          BY <1>3, FeedTyped
  <1>4. CASE Parse         BY <1>4, ParseTyped
  <1>5. CASE UNCHANGED vars  BY <1>5, StutterTyped
  <1>6. QED  BY <1>1, <1>2, <1>3, <1>4, <1>5, Zenon DEF Next

LEMMA AlwaysTyped == Spec => []TypeInv
  <1>1. Init => TypeInv
    BY InitTyped
  <1>2. TypeInv /\ [Next]_vars => TypeInv'
    BY TypeStep
  <1>3. QED  BY <1>1, <1>2, PTL DEF Spec

\* The buffer of the library never holds more than its storage, whatever the
\* station sends and however it is cut, and the caller, the station and the
\* parser agree on how many responses there are (fx5_feed_response_bytes,
\* fx5_parse_response).
THEOREM LinkTypeCorrect == Spec => []TypeOK
  <1>1. TypeInv => TypeOK
    BY DEF TypeInv, TypeOK, Sound, Bytes
  <1>2. QED  BY <1>1, AlwaysTyped, PTL

-----------------------------------------------------------------------------
(***************************************************************************)
(* What is in flight: the bytes in the buffer and those on their way.      *)
(***************************************************************************)

all  == ctx.rx \o stream
tags == rxTag \o streamTag

\* Only whole responses, or the end of one, are in flight; none was taken yet.
InFlight ==
  /\ Flow(all, tags, Replies, Len(answers))
  /\ \A p \in 1 .. Len(tags) : tags[p] # 0 => found < tags[p]

\* The context looks for the serial of the last request.
Looking == Len(sent) > 0 => ctx.serial = sent[Len(sent)].serial

\* The answer to the last request was taken off, is in flight, or is yet to come.
Pending ==
  Len(sent) > 0 /\ Len(answers) = Len(sent) =>
    found = Len(sent) \/ \E p \in 1 .. Len(tags) : tags[p] = Len(sent)

LEMMA ReplyFacts ==
  ASSUME TypeInv, NEW i \in 1 .. Len(answers)
  PROVE  /\ i \in 1 .. Len(sent) /\ Said(sent[i]) /\ Asked(sent[i])
         /\ Replies[i] = Response(sent[i], answers[i].code, answers[i].vals)
         /\ answers[i].code \in Bytes
         /\ Answers(sent[i], answers[i].code, answers[i].vals)
         /\ Framed(Replies[i]) /\ Replies[i] \in Seq(Bytes)
         /\ ~Mismatch(Replies[i], 0, sent[i].serial)
  <1>1. i \in 1 .. Len(sent)
    <2>1. Len(answers) \in Nat /\ Len(sent) \in Nat /\ Len(answers) <= Len(sent)
      BY AppendTo DEF TypeInv
    <2>2. QED  BY <2>1
  <1>2. Said(sent[i]) /\ Asked(sent[i])
    BY <1>1 DEF TypeInv, Said
  <1>3. answers[i].code \in Codes /\ answers[i].vals \in Vals(sent[i], answers[i].code)
    BY DEF TypeInv, Given
  <1>4. Replies[i] = Response(sent[i], answers[i].code, answers[i].vals)
    BY DEF Replies
  <1>5. /\ answers[i].code \in Bytes /\ Answers(sent[i], answers[i].code, answers[i].vals)
        /\ Framed(Replies[i]) /\ ~Mismatch(Replies[i], 0, sent[i].serial)
    BY <1>2, <1>3, <1>4, GivenAnswers
  <1>6. Replies[i] \in Seq(Bytes)
    BY <1>5 DEF Framed
  <1>7. QED  BY <1>1, <1>2, <1>4, <1>5, <1>6

LEMMA FlightFacts ==
  ASSUME TypeInv
  PROVE  /\ ctx.rx \in Seq(Bytes) /\ stream \in Seq(Bytes) /\ all \in Seq(Bytes)
         /\ rxTag \in Seq(0 .. Len(answers)) /\ streamTag \in Seq(0 .. Len(answers))
         /\ tags \in Seq(0 .. Len(answers)) /\ Len(tags) = Len(all)
         /\ Len(rxTag) = Len(ctx.rx) /\ Len(streamTag) = Len(stream)
         /\ Len(all) = Len(ctx.rx) + Len(stream) /\ Len(stream) \in Nat
         /\ Len(ctx.rx) \in Nat /\ Len(ctx.rx) \in 0 .. Len(all)
         /\ \A i \in 1 .. Len(ctx.rx) : tags[i] = rxTag[i]
         /\ Piece(all, 0, Len(ctx.rx)) = ctx.rx
         /\ Len(answers) \in Nat /\ Len(sent) \in Nat
  <1> DEFINE T == 0 .. Len(answers)
  <1> HIDE DEF T
  <1>1. /\ ctx.rx \in Seq(Bytes) /\ stream \in Seq(Bytes) /\ rxTag \in Seq(T) /\ streamTag \in Seq(T)
        /\ Len(rxTag) = Len(ctx.rx) /\ Len(streamTag) = Len(stream)
    BY DEF TypeInv, Sound, T
  <1>2. Len(ctx.rx) \in Nat /\ Len(stream) \in Nat
    BY <1>1, LenProperties
  <1>3. /\ all \in Seq(Bytes) /\ Len(all) = Len(ctx.rx) + Len(stream)
        /\ \A i \in 1 .. Len(ctx.rx) + Len(stream) :
             all[i] = IF i <= Len(ctx.rx) THEN ctx.rx[i] ELSE stream[i - Len(ctx.rx)]
    BY <1>1, ConcatProperties DEF all
  <1>4. /\ tags \in Seq(T) /\ Len(tags) = Len(rxTag) + Len(streamTag)
        /\ \A i \in 1 .. Len(rxTag) + Len(streamTag) :
             tags[i] = IF i <= Len(rxTag) THEN rxTag[i] ELSE streamTag[i - Len(rxTag)]
    BY <1>1, ConcatProperties DEF tags
  <1>5. Len(ctx.rx) \in 0 .. Len(all) /\ 0 \in 0 .. Len(ctx.rx)
    BY <1>2, <1>3
  <1>6. Piece(all, 0, Len(ctx.rx)) = ctx.rx
    <2> DEFINE piece == Piece(all, 0, Len(ctx.rx))
    <2>1. /\ piece \in Seq(Bytes) /\ Len(piece) = Len(ctx.rx)
          /\ \A i \in 1 .. Len(ctx.rx) : piece[i] = all[i]
      BY <1>3, <1>5, FrontReads
    <2> HIDE DEF piece
    <2>2. ASSUME NEW i \in 1 .. Len(piece) PROVE piece[i] = ctx.rx[i]
      BY <1>2, <1>3, <2>1
    <2>3. piece = ctx.rx
      BY <1>1, <2>1, <2>2, SeqEqual
    <2>4. QED  BY <2>3 DEF piece
  <1>7. ASSUME NEW i \in 1 .. Len(ctx.rx) PROVE tags[i] = rxTag[i]
    <2>1. Len(rxTag) + Len(streamTag) \in Nat /\ i \in 1 .. Len(rxTag) + Len(streamTag) /\ i <= Len(rxTag)
      BY <1>1, <1>2
    <2>2. QED  BY <1>4, <2>1
  <1>8. Len(answers) \in Nat /\ Len(sent) \in Nat
    BY AppendTo DEF TypeInv
  <1>9. QED  BY <1>1, <1>2, <1>3, <1>4, <1>5, <1>6, <1>7, <1>8 DEF T

\* What the steps do to what is in flight.
LEMMA FeedMoves ==
  ASSUME TypeInv, NEW n, Fed(n), answers' = answers
  PROVE  all' = all /\ tags' = tags
  <1> DEFINE T == 0 .. Len(answers)
  <1> HIDE DEF T
  <1>1. /\ ctx.rx \in Seq(Bytes) /\ stream \in Seq(Bytes) /\ rxTag \in Seq(T) /\ streamTag \in Seq(T)
        /\ Len(streamTag) = Len(stream)
    BY FlightFacts DEF T
  <1>2. n \in 0 .. Len(stream) /\ n \in 0 .. Len(streamTag)
    BY <1>1 DEF Fed
  <1>3. (ctx.rx \o SubSeq(stream, 1, n)) \o After(stream, n) = ctx.rx \o stream
    BY <1>1, <1>2, Moved, ZenonT(30)
  <1>4. (rxTag \o SubSeq(streamTag, 1, n)) \o After(streamTag, n) = rxTag \o streamTag
    BY <1>1, <1>2, Moved, ZenonT(30)
  <1>5. QED  BY <1>3, <1>4, Zenon DEF Fed, all, tags

LEMMA AnswerJoins ==
  ASSUME TypeInv, NEW code, NEW vals, Answered(code, vals), ctx' = ctx, rxTag' = rxTag, sent' = sent
  PROVE  LET i     == Len(answers) + 1
             bytes == Response(sent[i], code, vals)
         IN  /\ all' = all \o bytes /\ tags' = tags \o Tagged(bytes, i)
             /\ Replies'[i] = bytes /\ \A k \in 1 .. Len(answers) : Replies'[k] = Replies[k]
             /\ Len(answers') = i
  <1> DEFINE i     == Len(answers) + 1
             bytes == Response(sent[i], code, vals)
             more  == Tagged(bytes, i)
             a     == [code |-> code, vals |-> vals]
             T     == 0 .. i
  <1>1. /\ i \in 1 .. Len(sent) /\ Framed(bytes) /\ answers' = Append(answers, a)
        /\ stream' = stream \o bytes /\ streamTag' = streamTag \o more
    BY DEF Answered
  <1>2. /\ Len(answers) \in Nat /\ ctx.rx \in Seq(Bytes) /\ stream \in Seq(Bytes)
        /\ rxTag \in Seq(0 .. Len(answers)) /\ streamTag \in Seq(0 .. Len(answers))
    BY FlightFacts
  <1>3. bytes \in Seq(Bytes) /\ Len(bytes) \in Nat
    <2>1. bytes \in Seq(Bytes)
      BY <1>1 DEF Framed
    <2> HIDE DEF bytes
    <2>2. QED  BY <2>1, LenProperties
  <1>4. more \in Seq(T) /\ rxTag \in Seq(T) /\ streamTag \in Seq(T)
    <2>1. i \in Nat /\ 0 .. Len(answers) \subseteq T
      BY <1>2
    <2> HIDE DEF bytes, i
    <2>2. more \in [1 .. Len(bytes) -> T]
      BY <2>1 DEF Tagged
    <2> HIDE DEF T, more
    <2>3. QED  BY <1>2, <1>3, <2>1, <2>2, FunctionIsSeq, SeqMonotonic
  <1>5. all' = all \o bytes
    <2> HIDE DEF bytes
    <2>1. ctx.rx \in Seq(Bytes) /\ stream \in Seq(Bytes) /\ bytes \in Seq(Bytes)
      BY <1>2, <1>3
    <2>2. (ctx.rx \o stream) \o bytes = ctx.rx \o (stream \o bytes)
      <3>1. ASSUME NEW u \in Seq(Bytes), NEW v \in Seq(Bytes), NEW x \in Seq(Bytes)
            PROVE  (u \o v) \o x = u \o (v \o x)
        BY ConcatAssociative
      <3>2. QED  BY <2>1, <3>1, Zenon
    <2>3. QED  BY <1>1, <2>2 DEF all
  <1>6. tags' = tags \o more
    <2> HIDE DEF more, T
    <2>1. (rxTag \o streamTag) \o more = rxTag \o (streamTag \o more)
      BY <1>4, ConcatAssociative
    <2>2. QED  BY <1>1, <2>1 DEF tags
  <1>7. /\ Len(answers') = i /\ answers'[i] = a
        /\ \A k \in 1 .. Len(answers) : answers'[k] = answers[k]
    <2> HIDE DEF a
    <2>1. QED  BY <1>1, AppendTo DEF TypeInv
  <1>8. Replies'[i] = bytes
    <2>1. i \in 1 .. Len(answers')
      BY <1>2, <1>7
    <2>2. Replies'[i] = Response(sent[i], answers'[i].code, answers'[i].vals)
      BY <2>1 DEF Replies
    <2>3. QED  BY <1>7, <2>2
  <1>9. ASSUME NEW k \in 1 .. Len(answers) PROVE Replies'[k] = Replies[k]
    <2>1. k \in 1 .. Len(answers')
      BY <1>2, <1>7
    <2>2. Replies'[k] = Response(sent[k], answers'[k].code, answers'[k].vals)
      BY <2>1 DEF Replies
    <2>3. QED  BY <1>7, <2>2 DEF Replies
  <1>10. QED  BY <1>5, <1>6, <1>7, <1>8, <1>9

LEMMA ParseTakes ==
  ASSUME TypeInv, NEW n, TakesOff(n), stream' = stream, streamTag' = streamTag
  PROVE  /\ n \in 0 .. Len(all) /\ all' = After(all, n) /\ tags' = After(tags, n)
  <1> DEFINE T == 0 .. Len(answers)
  <1> HIDE DEF T
  <1>1. /\ ctx.rx \in Seq(Bytes) /\ stream \in Seq(Bytes) /\ rxTag \in Seq(T) /\ streamTag \in Seq(T)
        /\ Len(rxTag) = Len(ctx.rx) /\ Len(ctx.rx) \in Nat /\ Len(ctx.rx) \in 0 .. Len(all)
    BY FlightFacts DEF T
  <1>2. /\ n \in 0 .. Len(ctx.rx) /\ n \in 0 .. Len(rxTag) /\ n \in 0 .. Len(all)
        /\ ctx'.rx = After(ctx.rx, n) /\ rxTag' = After(rxTag, n)
    BY <1>1 DEF TakesOff
  <1>3. After(ctx.rx, n) \o stream = After(ctx.rx \o stream, n)
    BY <1>1, <1>2, AfterConcat
  <1>4. After(rxTag, n) \o streamTag = After(rxTag \o streamTag, n)
    BY <1>1, <1>2, AfterConcat
  <1>5. QED  BY <1>2, <1>3, <1>4, Zenon DEF all, tags

-----------------------------------------------------------------------------
(***************************************************************************)
(* No answer is lost, for every mix of header modes.                       *)
(***************************************************************************)

FlowInv == InFlight /\ Looking /\ Pending /\ LastAnswerNotLost

LEMMA InitFlows ==
  ASSUME Init PROVE FlowInv
  <1>1. TypeInv
    BY InitTyped
  <1>2. /\ sent = <<>> /\ answers = <<>> /\ stream = <<>> /\ streamTag = <<>> /\ rxTag = <<>>
        /\ found = 0 /\ parsed = "none"
    BY DEF Init
  <1>3. Len(sent) = 0 /\ Len(answers) = 0 /\ Len(rxTag) = 0 /\ Len(stream) = 0
    BY <1>2, EmptySeq
  <1>4. Len(ctx.rx) = 0 /\ Len(all) = 0 /\ Len(tags) = 0
        /\ all \in Seq(Bytes) /\ tags \in Seq(0 .. Len(answers))
    BY <1>1, <1>3, FlightFacts
  <1>5. InFlight
    BY <1>3, <1>4 DEF InFlight, Flow
  <1>6. Looking /\ Pending /\ LastAnswerNotLost
    BY <1>2, <1>3 DEF Looking, Pending, LastAnswerNotLost
  <1>7. QED  BY <1>5, <1>6 DEF FlowInv

LEMMA RequestFlows ==
  ASSUME TypeInv, FlowInv, Request PROVE FlowInv'
  <1>1. /\ RequestMade /\ parsed' = "none" /\ answers' = answers /\ stream' = stream
        /\ streamTag' = streamTag /\ rxTag' = rxTag /\ found' = found
    BY RequestDoes
  <1>2. ctx'.rx = ctx.rx /\ sent' = Append(sent, Wire(ctx'))
    BY <1>1 DEF RequestMade
  <1>3. /\ Len(sent') = Len(sent) + 1 /\ Len(sent) \in Nat
        /\ \A i \in 1 .. Len(sent) : sent'[i] = sent[i]
        /\ sent'[Len(sent) + 1] = Wire(ctx')
    BY <1>2, AppendTo DEF TypeInv
  <1>4. Len(answers) \in Nat /\ Len(answers) <= Len(sent)
    BY FlightFacts DEF TypeInv
  <1>5. all' = all /\ tags' = tags
    BY <1>1, <1>2 DEF all, tags
  <1>6. Replies' = Replies
    <2>1. ASSUME NEW i \in 1 .. Len(answers) PROVE sent'[i] = sent[i]
      BY <1>3, <1>4
    <2>2. QED  BY <1>1, <2>1 DEF Replies
  <1>7. InFlight'
    BY <1>1, <1>5, <1>6 DEF FlowInv, InFlight
  <1>8. Looking'
    BY <1>3 DEF Looking, Wire
  <1>9. Pending'
    BY <1>1, <1>3, <1>4 DEF Pending
  <1>10. LastAnswerNotLost'
    BY <1>1 DEF LastAnswerNotLost
  <1>11. QED  BY <1>7, <1>8, <1>9, <1>10 DEF FlowInv

LEMMA AnswerFlows ==
  ASSUME TypeInv, FlowInv, Answer PROVE FlowInv'
  <1>1. ctx' = ctx /\ sent' = sent /\ rxTag' = rxTag /\ parsed' = parsed /\ found' = found
    BY AnswerDoes
  <1>2. PICK code \in Codes : \E vals \in Vals(sent[Len(answers) + 1], code) : Answered(code, vals)
    BY AnswerDoes
  <1>3. PICK vals \in Vals(sent[Len(answers) + 1], code) : Answered(code, vals)
    BY <1>2
  <1> DEFINE m     == Len(answers)
             bytes == Response(sent[m + 1], code, vals)
             more  == Tagged(bytes, m + 1)
             n     == Len(tags)
  <1>4. /\ Framed(bytes) /\ stream' = stream \o bytes
    BY <1>3 DEF Answered
  <1>5. /\ all' = all \o bytes /\ tags' = tags \o more
        /\ Replies'[m + 1] = bytes /\ \A k \in 1 .. m : Replies'[k] = Replies[k]
        /\ Len(answers') = m + 1
    BY <1>1, <1>3, AnswerJoins
  <1>6. m \in Nat /\ tags \in Seq(0 .. m) /\ n \in Nat /\ found \in 0 .. m /\ stream \in Seq(Bytes)
        /\ Len(stream) \in Nat
    <2>1. m \in Nat /\ tags \in Seq(0 .. m) /\ stream \in Seq(Bytes) /\ Len(stream) \in Nat
      BY FlightFacts
    <2>2. QED  BY <2>1, LenProperties DEF TypeInv
  <1>7. \A i \in 1 .. m : Replies[i] \in Seq(Bytes)
    BY ReplyFacts
  <1>9. Flow(all, tags, Replies, m)
    BY DEF FlowInv, InFlight
  <1> HIDE DEF bytes
  <1>10. Flow(all', tags', Replies', m + 1)
    <2> DEFINE S == Replies'
    <2> HIDE DEF m, S
    <2>1. Flow(all \o bytes, tags \o Tagged(bytes, m + 1), S, m + 1)
      BY <1>4, <1>5, <1>6, <1>7, <1>9, FlowAppend DEF S
    <2>2. QED  BY <1>5, <2>1 DEF S
  <1>11. bytes \in Seq(Bytes) /\ Len(bytes) \in Nat /\ 2 <= Len(bytes)
    <2>1. bytes \in Seq(Bytes) /\ 2 <= Len(bytes)
      BY <1>4 DEF Framed
    <2>2. QED  BY <2>1, LenProperties
  <1>12. more \in Seq(0 .. m + 1) /\ Len(more) = Len(bytes)
         /\ \A k \in 1 .. Len(bytes) : more[k] = IF k = 1 THEN m + 1 ELSE 0
    <2> HIDE DEF m
    <2>1. more \in [1 .. Len(bytes) -> 0 .. m + 1]
      BY <1>6 DEF Tagged
    <2>2. QED  BY <1>11, <2>1, FunctionIsSeq DEF Tagged
  <1>13. /\ Len(tags') = n + Len(bytes)
         /\ \A i \in 1 .. n + Len(bytes) : tags'[i] = IF i <= n THEN tags[i] ELSE more[i - n]
    <2> DEFINE T == 0 .. m + 1
    <2>1. tags \in Seq(T)
      <3>1. 0 .. m \subseteq T
        BY <1>6
      <3> HIDE DEF T, m
      <3>2. QED  BY <1>6, <3>1, SeqMonotonic
    <2>2. more \in Seq(T) /\ Len(more) = Len(bytes)
      BY <1>12
    <2> HIDE DEF T, more, m
    <2>3. /\ Len(tags \o more) = Len(tags) + Len(more)
          /\ \A i \in 1 .. Len(tags) + Len(more) :
               (tags \o more)[i] = IF i <= Len(tags) THEN tags[i] ELSE more[i - Len(tags)]
      BY <2>1, <2>2, ConcatProperties
    <2>4. QED  BY <1>5, <2>2, <2>3
  <1> HIDE DEF more, m, n
  <1>14. tags'[n + 1] = m + 1 /\ n + 1 \in 1 .. Len(tags')
    <2>1. n + 1 \in 1 .. n + Len(bytes) /\ ~(n + 1 <= n) /\ (n + 1) - n = 1 /\ 1 \in 1 .. Len(bytes)
      BY <1>6, <1>11
    <2>2. QED  BY <1>12, <1>13, <2>1
  <1>15. ASSUME NEW i \in 1 .. Len(tags'), tags'[i] # 0 PROVE found < tags'[i]
    <2>1. CASE i <= n
      <3>1. i \in 1 .. Len(tags) /\ tags'[i] = tags[i]
        BY <1>6, <1>11, <1>13, <2>1 DEF n
      <3>2. QED  BY <1>15, <3>1 DEF FlowInv, InFlight
    <2>2. CASE ~(i <= n)
      <3> DEFINE j == i - n
      <3>1. j \in 1 .. Len(bytes) /\ tags'[i] = more[j]
        BY <1>6, <1>11, <1>13, <2>2
      <3> HIDE DEF j
      <3>2. tags'[i] = m + 1
        BY <1>12, <1>15, <3>1
      <3>3. QED  BY <1>6, <3>2
    <2>3. QED  BY <2>1, <2>2
  <1>16. InFlight'
    BY <1>1, <1>5, <1>10, <1>15 DEF InFlight
  <1>17. Looking'
    BY <1>1 DEF FlowInv, Looking
  <1>18. Pending'
    BY <1>1, <1>5, <1>14 DEF Pending
  <1>19. LastAnswerNotLost'
    <2>1. Len(stream') = Len(stream) + Len(bytes)
      BY <1>4, <1>6, <1>11, ConcatProperties
    <2>2. Len(stream') # 0
      BY <1>6, <1>11, <2>1
    <2>3. QED  BY <2>2, EmptySeq DEF LastAnswerNotLost
  <1>20. QED  BY <1>16, <1>17, <1>18, <1>19 DEF FlowInv

LEMMA FeedFlows ==
  ASSUME TypeInv, FlowInv, Feed PROVE FlowInv'
  <1>1. parsed' = "none" /\ sent' = sent /\ answers' = answers /\ found' = found
    BY FeedDoes
  <1>2. PICK n \in 0 .. Len(stream) : Fed(n)
    BY FeedDoes
  <1>3. all' = all /\ tags' = tags
    BY <1>1, <1>2, FeedMoves
  <1>4. ctx'.serial = ctx.serial
    <2>1. Whole(ctx) /\ ctx' = [ctx EXCEPT !.rx = ctx'.rx]
      BY <1>2 DEF Fed, TypeInv, Sound
    <2>2. QED  BY <2>1 DEF Whole, CtxFields
  <1>5. Replies' = Replies
    BY <1>1 DEF Replies
  <1>6. InFlight' /\ Pending'
    BY <1>1, <1>3, <1>5 DEF FlowInv, InFlight, Pending
  <1>7. Looking'
    BY <1>1, <1>4 DEF FlowInv, Looking
  <1>8. LastAnswerNotLost'
    BY <1>1 DEF LastAnswerNotLost
  <1>9. QED  BY <1>6, <1>7, <1>8 DEF FlowInv

\* The hypothesis of a parse, as the flow has it.
LEMMA ClearFlight ==
  ASSUME TypeInv, Looking, Undeceived
  PROVE  LET last == Len(sent)
             s    == ctx.serial
         IN  /\ Clear(ctx.rx, tags, last, s)
             /\ last \in 1 .. Len(answers) => ~Mismatch(Replies[last], 0, s)
  <1> DEFINE last == Len(sent)
             s    == ctx.serial
  <1>1. /\ Len(ctx.rx) \in Nat /\ last \in Nat
        /\ \A i \in 1 .. Len(ctx.rx) : tags[i] = rxTag[i]
    BY FlightFacts
  <1>2. Clear(ctx.rx, tags, last, s)
    <2> SUFFICES ASSUME NEW p \in 0 .. Len(ctx.rx) - 1, tags[p + 1] = 0,
                        \A q \in 0 .. p : tags[q + 1] # 0 => tags[q + 1] # last
                 PROVE  ~TakenAsHeader(ctx.rx, p, s)
      BY DEF Clear
    <2>1. \A q \in 0 .. p : tags[q + 1] = rxTag[q + 1]
      <3>1. ASSUME NEW q \in 0 .. p PROVE q + 1 \in 1 .. Len(ctx.rx)
        BY <1>1
      <3>2. QED  BY <1>1, <3>1
    <2>2. p \in 0 .. p
      BY <1>1
    <2>3. rxTag[p + 1] = 0 /\ \A q \in 0 .. p : rxTag[q + 1] # 0 => rxTag[q + 1] # last
      BY <2>1, <2>2
    <2>4. QED  BY <2>3 DEF Undeceived, Clear
  <1>3. ASSUME last \in 1 .. Len(answers) PROVE ~Mismatch(Replies[last], 0, s)
    BY <1>1, <1>3, ReplyFacts DEF Looking
  <1>4. QED  BY <1>2, <1>3

\* A parse that takes a response takes one in flight, and nothing behind it.
LEMMA TakenFrom ==
  ASSUME TypeInv, InFlight, Looking, Undeceived, NEW n, TakesOff(n), parsed' \in Taken
  PROVE  LET p == StopAt(ctx.rx, ctx.serial)
             i == tags[p + 1]
         IN  /\ i \in 1 .. Len(answers) /\ found' = i
             /\ p \in 0 .. Len(ctx.rx) - 1 /\ p + Len(Replies[i]) <= Len(ctx.rx)
             /\ Stands(ctx.rx, p, Replies[i]) /\ ~Mismatch(Replies[i], 0, ctx.serial)
             /\ n \in p + 1 .. p + Len(Replies[i])
  <1> DEFINE p == StopAt(ctx.rx, ctx.serial)
             m == Len(answers)
             k == Len(ctx.rx)
             R == Replies
  <1>1. /\ m \in Nat /\ k \in Nat /\ k \in 0 .. Len(all) /\ Piece(all, 0, k) = ctx.rx
        /\ \A j \in 1 .. k : tags[j] = rxTag[j]
        /\ Len(rxTag) = k
    BY FlightFacts
  <1>2. Flow(all, tags, R, m) /\ \A j \in 1 .. m : Framed(R[j])
    BY ReplyFacts DEF InFlight
  <1>3. /\ p \in Candidates(ctx.rx) /\ FrameComplete(ctx.rx, p) /\ ~Mismatch(ctx.rx, p, ctx.serial)
        /\ n \in p + 1 .. p + FrameSize(ctx.rx, p)
        /\ p + 1 \in 1 .. Len(rxTag) /\ found' = rxTag[p + 1] /\ p \in 0 .. k
    BY DEF TakesOff
  <1> HIDE DEF R
  <1>4. /\ tags[p + 1] \in 1 .. m /\ p + Len(R[tags[p + 1]]) <= k
        /\ Stands(ctx.rx, p, R[tags[p + 1]])
        /\ FrameSize(ctx.rx, p) = Len(R[tags[p + 1]]) /\ ~Mismatch(R[tags[p + 1]], 0, ctx.serial)
    <2> DEFINE b == all
               t == tags
               s == ctx.serial
               last == Len(sent)
    <2>1. Flow(b, t, R, m) /\ k \in 0 .. Len(b)
      BY <1>1, <1>2
    <2>0. Clear(Piece(b, 0, k), t, last, s) /\ (last \in 1 .. m => ~Mismatch(R[last], 0, s))
      BY <1>1, ClearFlight DEF R
    <2> HIDE DEF m, k, b, t, s, last
    <2>2. LET rx == Piece(b, 0, k)
              x  == StopAt(rx, s)
          IN  x \in Candidates(rx) /\ FrameComplete(rx, x) /\ ~Mismatch(rx, x, s) =>
                /\ x + 2 <= k /\ t[x + 1] \in 1 .. m
                /\ x + Len(R[t[x + 1]]) <= k /\ Stands(rx, x, R[t[x + 1]])
                /\ FrameSize(rx, x) = Len(R[t[x + 1]]) /\ ~Mismatch(R[t[x + 1]], 0, s)
      BY <1>1, <1>2, <2>0, <2>1, FlowStop
    <2>3. QED  BY <1>1, <1>3, <2>2 DEF b, t, s
  <1> HIDE DEF p, m, k
  <1>5. p \in 0 .. k - 1 /\ tags[p + 1] = rxTag[p + 1]
    BY <1>1, <1>3
  <1>6. QED  BY <1>3, <1>4, <1>5 DEF p, m, k, R

LEMMA ParseFlows ==
  ASSUME TypeInv, FlowInv, Undeceived, Parse PROVE FlowInv'
  <1>1. sent' = sent /\ answers' = answers /\ stream' = stream /\ streamTag' = streamTag
    BY ParseDoes
  <1>2. PICK n \in 0 .. Len(ctx.rx) : TakesOff(n)
    BY ParseDoes
  <1> DEFINE p == StopAt(ctx.rx, ctx.serial)
             m == Len(answers)
             k == Len(ctx.rx)
             R == Replies
  <1>3. n \in 0 .. Len(all) /\ all' = After(all, n) /\ tags' = After(tags, n)
    BY <1>1, <1>2, ParseTakes
  <1>4. /\ m \in Nat /\ k \in Nat /\ k \in 0 .. Len(all) /\ Piece(all, 0, k) = ctx.rx
        /\ tags \in Seq(0 .. m) /\ Len(tags) = Len(all) /\ all \in Seq(Bytes) /\ Len(all) \in Nat
    BY FlightFacts, LenProperties
  <1>5. /\ Flow(all, tags, R, m)
        /\ \A j \in 1 .. m : Framed(R[j]) /\ R[j] \in Seq(Bytes)
    BY ReplyFacts DEF FlowInv, InFlight
  <1>6. Replies' = Replies
    BY <1>1 DEF Replies
  <1>7. Flow(all', tags', Replies', m)
    <2> DEFINE b == all
               t == tags
    <2>1. Flow(b, t, R, m) /\ n \in 0 .. Len(b)
      BY <1>3, <1>5
    <2> HIDE DEF R, m, b, t
    <2>2. Flow(After(b, n), After(t, n), R, m)
      BY <1>4, <1>5, <2>1, FlowDrop
    <2>3. QED  BY <1>3, <1>6, <2>2 DEF R, b, t
  <1>8. /\ Len(tags') = Len(tags) - n
        /\ \A j \in 1 .. Len(tags) - n : tags'[j] = tags[n + j]
    <2>1. n \in 0 .. Len(tags)
      BY <1>3, <1>4
    <2> HIDE DEF m
    <2>2. QED  BY <1>3, <1>4, <2>1, AfterSeq
  <1>9. ctx'.serial = ctx.serial /\ p \in 0 .. k
    BY <1>2 DEF TakesOff, Parsed
  <1>10. Looking'
    BY <1>1, <1>9 DEF FlowInv, Looking
  <1>11. \A x, y \in 0 .. Len(all) - 1 :
           x < y /\ tags[x + 1] # 0 /\ tags[y + 1] # 0 => tags[x + 1] < tags[y + 1]
    BY <1>5 DEF Flow
  <1>12. CASE parsed' \in Taken
    <2> DEFINE i == tags[p + 1]
    <2>1. /\ i \in 1 .. m /\ found' = i /\ p \in 0 .. k - 1 /\ p + Len(R[i]) <= k
          /\ n \in p + 1 .. p + Len(R[i])
      BY <1>2, <1>12, TakenFrom DEF FlowInv
    <2>2. Len(R[i]) \in Nat /\ p \in 0 .. Len(all) - 1 /\ i # 0
      <3>1. R[i] \in Seq(Bytes)
        BY <1>5, <2>1
      <3>2. Len(R[i]) \in Nat
        BY <3>1, LenProperties
      <3>3. QED  BY <1>4, <2>1, <3>2
    <2>3. \A j \in 2 .. Len(R[i]) : tags[p + j] = 0
      BY <1>5, <2>2 DEF Flow
    <2> HIDE DEF p, m, k, R
    <2>4. ASSUME NEW j \in 1 .. Len(tags'), tags'[j] # 0 PROVE found' < tags'[j]
      <3>1. n + j - 1 \in 0 .. Len(all) - 1 /\ p < n + j - 1 /\ (n + j - 1) + 1 = n + j
        BY <1>3, <1>4, <1>8, <2>1, <2>2
      <3>2. tags'[j] = tags[n + j]
        BY <1>8
      <3>3. tags[p + 1] < tags[n + j]
        BY <1>11, <2>2, <2>4, <3>1, <3>2
      <3>4. QED  BY <2>1, <3>2, <3>3
    <2>5. InFlight'
      BY <1>1, <1>7, <2>4 DEF InFlight, m
    <2>6. ASSUME Len(sent) > 0, Len(answers) = Len(sent), found' # Len(sent)
          PROVE  \E j \in 1 .. Len(tags') : tags'[j] = Len(sent)
      <3>1. m = Len(sent) /\ i < m
        BY <1>4, <2>1, <2>6 DEF m
      <3>2. found # m
        <4>1. p + 1 \in 1 .. Len(tags)
          BY <1>4, <2>2
        <4>2. found < i
          BY <2>2, <4>1 DEF FlowInv, InFlight
        <4>3. found \in Nat
          BY <1>4 DEF TypeInv, m
        <4>4. QED  BY <1>4, <2>1, <3>1, <4>2, <4>3
      <3>3. PICK j \in 1 .. Len(tags) : tags[j] = m
        BY <2>6, <3>1, <3>2 DEF FlowInv, Pending, m
      <3> DEFINE q == j - 1
      <3>4. q \in 0 .. Len(all) - 1 /\ tags[q + 1] = m /\ q \in Nat /\ m # 0
        BY <1>4, <2>6, <3>1, <3>3
      <3> HIDE DEF q
      <3>5. ~(q < p)
        <4>1. q < p => m < i
          BY <1>11, <2>2, <3>4
        <4>2. QED  BY <1>4, <2>1, <3>1, <4>1
      <3>6. q # p
        BY <1>4, <2>1, <3>1, <3>4
      <3>7. ~(q < p + Len(R[i]))
        <4> SUFFICES ASSUME q < p + Len(R[i]) PROVE FALSE
          OBVIOUS
        <4>1. (q + 1) - p \in 2 .. Len(R[i]) /\ p + ((q + 1) - p) = q + 1
          BY <1>4, <2>1, <2>2, <3>4, <3>5, <3>6
        <4>2. QED  BY <2>3, <3>4, <4>1
      <3>8. (q + 1) - n \in 1 .. Len(tags) - n /\ n + ((q + 1) - n) = q + 1
        BY <1>3, <1>4, <2>1, <2>2, <3>4, <3>7, SMTT(30)
      <3>9. tags'[(q + 1) - n] = m /\ (q + 1) - n \in 1 .. Len(tags')
        BY <1>8, <3>4, <3>8
      <3>10. QED  BY <3>1, <3>9
    <2>7. Pending'
      BY <1>1, <2>6 DEF Pending
    <2>8. LastAnswerNotLost'
      BY <1>12 DEF LastAnswerNotLost, Taken
    <2>9. QED  BY <1>10, <2>5, <2>7, <2>8 DEF FlowInv
  <1>13. CASE parsed' \notin Taken
    <2>1. /\ n = p /\ found' = found
          /\ parsed' = "NEED_MORE" => VerdictAt(ctx.rx, p) = "need_more"
      BY <1>2, <1>13 DEF TakesOff
    <2>2. ASSUME NEW j \in 1 .. Len(tags'), tags'[j] # 0 PROVE found' < tags'[j]
      <3>1. n + j \in 1 .. Len(tags) /\ tags'[j] = tags[n + j]
        BY <1>3, <1>4, <1>8
      <3>2. QED  BY <2>1, <2>2, <3>1 DEF FlowInv, InFlight
    <2>3. InFlight'
      BY <1>1, <1>7, <2>2 DEF InFlight
    <2>4. ASSUME Len(sent) > 0, Len(answers) = Len(sent), found # Len(sent)
          PROVE  /\ m = Len(sent) /\ m \in 1 .. m /\ ~Mismatch(R[m], 0, ctx.serial)
                 /\ \E q \in 0 .. Len(all) - 1 : tags[q + 1] = m
      <3>1. m = Len(sent) /\ m \in 1 .. m
        BY <1>4, <2>4
      <3>2. ~Mismatch(R[m], 0, ctx.serial)
        BY <2>4, <3>1, ReplyFacts DEF FlowInv, Looking
      <3>3. PICK j \in 1 .. Len(tags) : tags[j] = m
        BY <2>4, <3>1 DEF FlowInv, Pending
      <3>4. j - 1 \in 0 .. Len(all) - 1 /\ (j - 1) + 1 = j
        BY <1>4
      <3>5. QED  BY <3>1, <3>2, <3>3, <3>4
    <2>5. ASSUME Len(sent) > 0, Len(answers) = Len(sent), found # Len(sent)
          PROVE  \E j \in 1 .. Len(tags') : tags'[j] = Len(sent)
      <3>1. /\ m = Len(sent) /\ m \in 1 .. m /\ ~Mismatch(R[m], 0, ctx.serial)
            /\ \E q \in 0 .. Len(all) - 1 : tags[q + 1] = m
        BY <2>4, <2>5
      <3>2. PICK q \in 0 .. Len(all) - 1 : tags[q + 1] = m
        BY <3>1
      <3>3. p <= q
        <4>1. CASE q \in 0 .. k - 1
          <5> DEFINE b == all
                     t == tags
                     s == ctx.serial
          <5>1. /\ Flow(b, t, R, m) /\ k \in 0 .. Len(b) /\ Piece(b, 0, k) = ctx.rx
                /\ t[q + 1] = m /\ m # 0 /\ ~Mismatch(R[m], 0, s)
            BY <1>4, <1>5, <3>1, <3>2
          <5>0. Clear(Piece(b, 0, k), t, m, s)
            BY <1>4, <3>1, ClearFlight DEF FlowInv
          <5> HIDE DEF R, m, k, b, t, s
          <5>2. LET rx == Piece(b, 0, k)
                    x  == StopAt(rx, s)
                IN  \A y \in 0 .. k - 1 : t[y + 1] # 0 /\ ~Mismatch(R[t[y + 1]], 0, s) => x <= y
            <6>1. m \in Nat /\ \A j \in 1 .. m : Framed(R[j])
              BY <1>4, <1>5
            <6>2. QED  BY <5>0, <5>1, <6>1, FlowStop
          <5>3. QED  BY <4>1, <5>1, <5>2 DEF s
        <4>2. CASE ~(q \in 0 .. k - 1)
          <5> HIDE DEF p, k
          <5>1. k <= q /\ q \in Nat
            BY <1>4, <4>2
          <5>2. QED  BY <1>4, <1>9, <5>1
        <4>3. QED  BY <4>1, <4>2
      <3> HIDE DEF p, k
      <3>4. (q + 1) - n \in 1 .. Len(tags) - n /\ n + ((q + 1) - n) = q + 1
        BY <1>3, <1>4, <1>9, <2>1, <3>3
      <3>5. tags'[(q + 1) - n] = m /\ (q + 1) - n \in 1 .. Len(tags')
        BY <1>8, <3>2, <3>4
      <3>6. QED  BY <3>1, <3>5
    <2>6. Pending'
      BY <1>1, <2>1, <2>5 DEF Pending
    <2>7. ASSUME stream = <<>>, Len(answers) = Len(sent), parsed' = "NEED_MORE", found # Len(sent)
          PROVE  FALSE
      <3>1. Len(sent) > 0
        <4>1. found \in 0 .. m
          BY DEF TypeInv
        <4>2. QED  BY <1>4, <2>7, <4>1
      <3>2. PICK q \in 0 .. Len(all) - 1 : tags[q + 1] = m
        BY <2>4, <2>7, <3>1
      <3>3. m \in 1 .. m /\ ~Mismatch(R[m], 0, ctx.serial)
        BY <2>4, <2>7, <3>1
      <3>4. all = ctx.rx
        <4>1. ctx.rx \in Seq(Bytes)
          BY FlightFacts
        <4>2. QED  BY <2>7, <4>1, ConcatEmptySeq DEF all
      <3> DEFINE b == all
                 t == tags
                 s == ctx.serial
      <3>5. /\ Flow(b, t, R, m) /\ VerdictAt(b, StopAt(b, s)) = "need_more"
            /\ q \in 0 .. Len(b) - 1 /\ t[q + 1] = m /\ m # 0 /\ ~Mismatch(R[t[q + 1]], 0, s)
        BY <1>4, <1>5, <2>1, <2>7, <3>2, <3>3, <3>4
      <3>0. Clear(b, t, t[q + 1], s)
        BY <2>7, <3>2, <3>4, ClearFlight DEF FlowInv
      <3> HIDE DEF R, m, b, t, s
      <3>6. QED  BY <1>4, <1>5, <3>0, <3>5, FlowWaits
    <2>8. LastAnswerNotLost'
      BY <1>1, <2>1, <2>7 DEF LastAnswerNotLost
    <2>9. QED  BY <1>10, <2>3, <2>6, <2>8 DEF FlowInv
  <1>14. QED  BY <1>12, <1>13

LEMMA FlowStep ==
  ASSUME TypeInv, FlowInv, Undeceived, [Next]_vars PROVE FlowInv'
  <1>1. CASE Request       BY <1>1, RequestFlows
  <1>2. CASE Answer        BY <1>2, AnswerFlows
  <1>3. CASE Feed          BY <1>3, FeedFlows
  <1>4. CASE Parse         BY <1>4, ParseFlows
  <1>5. CASE UNCHANGED vars
    BY <1>5 DEF vars, FlowInv, InFlight, Looking, Pending, LastAnswerNotLost, all, tags, Replies
  <1>6. QED  BY <1>1, <1>2, <1>3, <1>4, <1>5, Zenon DEF Next

LEMMA AlwaysFlows == Spec /\ []Undeceived => []FlowInv
  <1>1. Init => FlowInv
    BY InitFlows
  <1>2. TypeInv /\ FlowInv /\ Undeceived /\ [Next]_vars => FlowInv'
    BY FlowStep
  <1>3. QED  BY <1>1, <1>2, AlwaysTyped, PTL DEF Spec

\* However the responses are cut and whatever late ones come first, in any mix
\* of header modes and for any limit of the search: a caller that parses until
\* there is nothing more has been handed the answer to its last request
\* (fx5_parse_response).  The hypothesis, []Undeceived, is what the search through
\* a late answer relies on (fx5_core.c:365): nothing inside it, read from there,
\* has a size and a serial that pass.  It is false of a late answer with serial
\* 208, and of some whose values are 208 or 212.
THEOREM NoAnswerLost == Spec /\ []Undeceived => []LastAnswerNotLost
  <1>1. FlowInv => LastAnswerNotLost
    BY DEF FlowInv
  <1>2. QED  BY <1>1, AlwaysFlows, PTL

-----------------------------------------------------------------------------
(***************************************************************************)
(* With 4E headers only, what parse hands out is the current answer.       *)
(***************************************************************************)

\* No response in the buffer is as many requests old as there are serials.
Recent == \A p \in 1 .. Len(rxTag) : rxTag[p] # 0 => Len(sent) - rxTag[p] < SerialRange

\* The serial of the k-th last request, and that the requests have them.
Back(k) == IF ctx.next_serial >= k THEN ctx.next_serial - k ELSE ctx.next_serial - k + SerialRange

Stamped ==
  \A k \in 1 .. Len(sent) : k <= SerialRange => sent[Len(sent) + 1 - k].serial = Back(k)

\* The context waits for the answer to the last request until it has it.
Matching ==
  Len(sent) > 0 =>
    LET w == sent[Len(sent)] IN
    /\ ctx.command = w.command /\ ctx.device = w.device
    /\ found # Len(sent) => ctx.count = w.count

HandedInv == Matching /\ AnswerIsCurrent /\ AlignedAfterFrame /\ ValuesAreTheAnswers

CurrentInv == Stamped /\ HandedInv

LEMMA Advances ==
  ASSUME NEW next \in 0 .. SerialRange - 1
  PROVE  (next + 1) % SerialRange = IF next + 1 = SerialRange THEN 0 ELSE next + 1
  <1>1. SerialRange \in Nat /\ SerialRange > 0 /\ next \in Nat /\ next + 1 <= SerialRange
    BY SerialsAreNat
  <1>2. CASE next + 1 = SerialRange
    BY <1>1, <1>2
  <1>3. CASE next + 1 < SerialRange
    BY <1>1, <1>3
  <1>4. QED  BY <1>1, <1>2, <1>3

LEMMA InitCurrent ==
  ASSUME Init PROVE CurrentInv
  <1>1. sent = <<>> /\ rxTag = <<>> /\ parsed = "none"
    BY DEF Init
  <1>2. Len(sent) = 0
    BY <1>1, EmptySeq
  <1>3. QED  BY <1>1, <1>2 DEF CurrentInv, Stamped, HandedInv, Matching, AnswerIsCurrent, AlignedAfterFrame,
                               ValuesAreTheAnswers, Taken

LEMMA RequestStamps ==
  ASSUME LinkHeaders = {"4E"}, TypeInv, Stamped, Request PROVE Stamped'
  <1>1. RequestMade
    BY RequestDoes
  <1>2. /\ sent' = Append(sent, Wire(ctx'))
        /\ ctx'.serial = ctx.next_serial
        /\ ctx'.next_serial = (ctx.next_serial + 1) % SerialRange
    BY <1>1 DEF RequestMade
  <1> DEFINE n    == Len(sent)
             next == ctx.next_serial
             new  == ctx'.next_serial
  <1>3. /\ Len(sent') = n + 1 /\ n \in Nat
        /\ \A i \in 1 .. n : sent'[i] = sent[i]
        /\ sent'[n + 1] = Wire(ctx')
    BY <1>2, AppendTo DEF TypeInv
  <1>4. SerialRange \in Nat /\ SerialRange > 0 /\ next \in 0 .. SerialRange - 1
        /\ new = IF next + 1 = SerialRange THEN 0 ELSE next + 1
    <2>1. next \in 0 .. SerialRange - 1
      BY DEF TypeInv, Sound
    <2>2. (next + 1) % SerialRange = IF next + 1 = SerialRange THEN 0 ELSE next + 1
      <3> HIDE DEF next
      <3>1. QED  BY <2>1, Advances
    <2>3. SerialRange \in Nat /\ SerialRange > 0
      BY SerialsAreNat
    <2>4. QED  BY <1>2, <2>1, <2>2, <2>3
  <1>5. sent'[n + 1].serial = next
    BY <1>2, <1>3 DEF Wire
  <1>6. \A k \in 1 .. n : k <= SerialRange =>
           sent[n + 1 - k].serial = IF next >= k THEN next - k ELSE next - k + SerialRange
    BY DEF Stamped, Back
  <1>7. ASSUME NEW k \in 1 .. Len(sent'), k <= SerialRange
        PROVE  sent'[Len(sent') + 1 - k].serial =
                 IF new >= k THEN new - k ELSE new - k + SerialRange
    <2> HIDE DEF n, next, new
    <2>1. CASE k = 1
      <3>1. Len(sent') + 1 - k = n + 1
        BY <1>3, <2>1
      <3>2. next = IF new >= k THEN new - k ELSE new - k + SerialRange
        BY <1>4, <2>1
      <3>3. QED  BY <1>5, <3>1, <3>2
    <2>2. CASE k # 1
      <3> DEFINE j == k - 1
      <3>1. j \in 1 .. n /\ j <= SerialRange /\ Len(sent') + 1 - k = n + 1 - j
            /\ n + 1 - j \in 1 .. n
        BY <1>3, <1>4, <1>7, <2>2
      <3>2. sent'[n + 1 - j] = sent[n + 1 - j]
        BY <1>3, <3>1
      <3>3. sent[n + 1 - j].serial = IF next >= j THEN next - j ELSE next - j + SerialRange
        BY <1>6, <3>1
      <3>4. (IF next >= j THEN next - j ELSE next - j + SerialRange)
              = IF new >= k THEN new - k ELSE new - k + SerialRange
        BY <1>3, <1>4, <1>7, <2>2
      <3> HIDE DEF j
      <3>5. QED  BY <3>1, <3>2, <3>3, <3>4
    <2>3. QED  BY <2>1, <2>2
  <1>8. QED  BY <1>7 DEF Stamped, Back

LEMMA RequestHands ==
  ASSUME TypeInv, Request PROVE HandedInv'
  <1>1. RequestMade /\ parsed' = "none"
    BY RequestDoes
  <1>2. sent' = Append(sent, Wire(ctx'))
    BY <1>1 DEF RequestMade
  <1>3. Len(sent') = Len(sent) + 1 /\ sent'[Len(sent) + 1] = Wire(ctx')
    BY <1>2, AppendTo DEF TypeInv
  <1>4. Matching'
    BY <1>3 DEF Matching, Wire
  <1>5. AnswerIsCurrent' /\ AlignedAfterFrame' /\ ValuesAreTheAnswers'
    BY <1>1 DEF AnswerIsCurrent, AlignedAfterFrame, ValuesAreTheAnswers, Taken
  <1>6. QED  BY <1>4, <1>5 DEF HandedInv

LEMMA AnswerHands ==
  ASSUME TypeInv, HandedInv, Answer PROVE HandedInv'
  <1>1. ctx' = ctx /\ sent' = sent /\ rxTag' = rxTag /\ parsed' = parsed /\ found' = found
    BY AnswerDoes
  <1>2. Matching' /\ AnswerIsCurrent' /\ AlignedAfterFrame'
    BY <1>1 DEF HandedInv, Matching, AnswerIsCurrent, AlignedAfterFrame
  <1>3. parsed # "OK"
    <2>1. Len(answers) < Len(sent)
      BY DEF Answer
    <2>2. found <= Len(answers) /\ found \in Nat /\ Len(answers) \in Nat /\ Len(sent) \in Nat
      BY FlightFacts DEF TypeInv
    <2>3. QED  BY <2>1, <2>2 DEF HandedInv, AnswerIsCurrent
  <1>4. ValuesAreTheAnswers'
    BY <1>1, <1>3 DEF ValuesAreTheAnswers
  <1>5. QED  BY <1>2, <1>4 DEF HandedInv

LEMMA FeedHands ==
  ASSUME TypeInv, HandedInv, Feed PROVE HandedInv'
  <1>1. parsed' = "none" /\ sent' = sent /\ answers' = answers /\ found' = found
    BY FeedDoes
  <1>2. PICK n \in 0 .. Len(stream) : Fed(n)
    BY FeedDoes
  <1>3. /\ ctx'.command = ctx.command
        /\ ctx'.device = ctx.device /\ ctx'.count = ctx.count
    <2>1. Whole(ctx) /\ ctx' = [ctx EXCEPT !.rx = ctx'.rx]
      BY <1>2 DEF Fed, TypeInv, Sound
    <2>2. QED  BY <2>1 DEF Whole, CtxFields
  <1>4. Matching'
    BY <1>1, <1>3 DEF HandedInv, Matching
  <1>5. AnswerIsCurrent' /\ AlignedAfterFrame' /\ ValuesAreTheAnswers'
    BY <1>1 DEF AnswerIsCurrent, AlignedAfterFrame, ValuesAreTheAnswers, Taken
  <1>6. QED  BY <1>4, <1>5 DEF HandedInv

\* Serials are given by requests only.
LEMMA StaysStamped ==
  ASSUME Stamped, sent' = sent, ctx'.next_serial = ctx.next_serial PROVE Stamped'
  BY DEF Stamped, Back

LEMMA FeedStamped ==
  ASSUME TypeInv, Stamped, Feed PROVE Stamped'
  <1>1. sent' = sent
    BY FeedDoes
  <1>2. PICK n \in 0 .. Len(stream) : Fed(n)
    BY FeedDoes
  <1>3. Whole(ctx) /\ ctx' = [ctx EXCEPT !.rx = ctx'.rx]
    BY <1>2 DEF Fed, TypeInv, Sound
  <1>4. ctx'.next_serial = ctx.next_serial
    BY <1>3 DEF Whole, CtxFields
  <1>5. QED  BY <1>1, <1>4, StaysStamped

LEMMA ParseStamped ==
  ASSUME TypeInv, Stamped, Parse PROVE Stamped'
  <1>1. sent' = sent
    BY ParseDoes
  <1>2. PICK n \in 0 .. Len(ctx.rx) : TakesOff(n)
    BY ParseDoes
  <1>3. ctx'.next_serial = ctx.next_serial
    BY <1>2 DEF TakesOff, Parsed
  <1>4. QED  BY <1>1, <1>3, StaysStamped

\* A parse takes no response but the answer to the last request.
OnlyLast ==
  parsed' \in Taken => /\ tags[StopAt(ctx.rx, ctx.serial) + 1] = Len(sent)
                       /\ Len(sent) \in 1 .. Len(answers)

LEMMA TakesLast ==
  ASSUME LinkHeaders = {"4E"}, TypeInv, FlowInv, Undeceived, Recent, Stamped, NEW n, TakesOff(n)
  PROVE  OnlyLast
  <1> SUFFICES ASSUME parsed' \in Taken
               PROVE  /\ tags[StopAt(ctx.rx, ctx.serial) + 1] = Len(sent)
                      /\ Len(sent) \in 1 .. Len(answers)
    BY DEF OnlyLast
  <1> DEFINE p == StopAt(ctx.rx, ctx.serial)
             i == tags[p + 1]
             N == Len(sent)
  <1>1. /\ i \in 1 .. Len(answers) /\ ~Mismatch(Replies[i], 0, ctx.serial)
        /\ p \in 0 .. Len(ctx.rx) - 1
    BY TakenFrom DEF FlowInv
  <1>2. /\ i \in 1 .. N /\ Said(sent[i]) /\ Asked(sent[i])
        /\ Replies[i] = Response(sent[i], answers[i].code, answers[i].vals)
        /\ answers[i].code \in Bytes /\ Numbered(sent[i], answers[i].vals)
    BY <1>1, ReplyFacts DEF Answers
  <1>3. N \in Nat /\ N > 0 /\ Len(answers) \in Nat /\ Len(answers) <= N
    BY <1>2, FlightFacts DEF TypeInv
  <1>4. sent[i].settings.header = "4E"
    BY <1>2 DEF Said
  <1>5. sent[i].serial = sent[N].serial
    <2> DEFINE bytes == Response(sent[i], answers[i].code, answers[i].vals)
    <2>1. /\ HeaderAt(bytes, 0) = "4E" /\ FrameComplete(bytes, 0)
          /\ WordAt(bytes, SerialOffset4E) = sent[i].serial
      BY <1>2, <1>4, ResponseFacts, SMTT(30)
    <2>2. ~Mismatch(bytes, 0, ctx.serial)
      BY <1>1, <1>2
    <2> HIDE DEF bytes
    <2>3. 0 + SerialOffset4E = SerialOffset4E
      BY HeaderAssumption
    <2>4. WordAt(bytes, SerialOffset4E) = ctx.serial
      BY <2>1, <2>2, <2>3 DEF Mismatch, FrameComplete
    <2>5. ctx.serial = sent[N].serial
      BY <1>3 DEF FlowInv, Looking
    <2>6. QED  BY <2>1, <2>4, <2>5
  <1>6. N - i < SerialRange
    <2>1. p + 1 \in 1 .. Len(rxTag) /\ tags[p + 1] = rxTag[p + 1]
      <3>1. Len(rxTag) = Len(ctx.rx) /\ \A j \in 1 .. Len(ctx.rx) : tags[j] = rxTag[j]
        BY FlightFacts
      <3>2. p + 1 \in 1 .. Len(ctx.rx)
        <4>1. Len(ctx.rx) \in Nat /\ p \in 0 .. Len(ctx.rx) - 1
          BY <1>1, FlightFacts
        <4> HIDE DEF p
        <4>2. QED  BY <4>1
      <3>3. QED  BY <3>1, <3>2
    <2>2. rxTag[p + 1] # 0
      BY <1>1, <2>1
    <2>3. QED  BY <2>1, <2>2 DEF Recent
  <1> HIDE DEF i, N, p
  <1>7. i = N
    <2> SUFFICES ASSUME i # N PROVE FALSE
      OBVIOUS
    <2> DEFINE k == N + 1 - i
               next == ctx.next_serial
    <2>0. SerialRange \in Nat /\ SerialRange > 0
      BY SerialsAreNat
    <2>1. SerialRange \in Nat /\ SerialRange > 0 /\ next \in 0 .. SerialRange - 1
      BY <2>0 DEF TypeInv, Sound
    <2>2. /\ k \in 2 .. N /\ k <= SerialRange /\ N + 1 - k = i
          /\ 1 \in 1 .. N /\ 1 <= SerialRange /\ N + 1 - 1 = N /\ k \in 1 .. N
      BY <1>2, <1>3, <1>6, <2>1
    <2> HIDE DEF k
    <2>3. /\ sent[i].serial = IF next >= k THEN next - k ELSE next - k + SerialRange
          /\ sent[N].serial = IF next >= 1 THEN next - 1 ELSE next - 1 + SerialRange
      <3>1. \A x \in 1 .. N : x <= SerialRange => sent[N + 1 - x].serial = Back(x)
        BY DEF Stamped, N
      <3>2. sent[N + 1 - k].serial = Back(k) /\ sent[N + 1 - 1].serial = Back(1)
        BY <2>2, <3>1
      <3>3. QED  BY <2>2, <3>2 DEF Back
    <2> HIDE DEF next
    <2>4. (IF next >= k THEN next - k ELSE next - k + SerialRange)
            # (IF next >= 1 THEN next - 1 ELSE next - 1 + SerialRange)
      BY <1>3, <2>1, <2>2
    <2>5. QED  BY <1>5, <2>3, <2>4
  <1>8. QED  BY <1>1, <1>7 DEF i, N, p

LEMMA ParseHands ==
  ASSUME TypeInv, FlowInv, HandedInv, Undeceived, Parse, OnlyLast PROVE HandedInv'
  <1>1. /\ sent' = sent /\ answers' = answers /\ stream' = stream /\ streamTag' = streamTag
        /\ parsed' = ParseResponse(ctx).st /\ ctx' = ParseResponse(ctx).ctx
    BY ParseDoes
  <1>2. PICK n \in 0 .. Len(ctx.rx) : TakesOff(n)
    BY ParseDoes
  <1> DEFINE p == StopAt(ctx.rx, ctx.serial)
             N == Len(sent)
             R == Replies[N]
  <1>3. Parsed(ctx, ctx') /\ ctx'.rx = After(ctx.rx, n) /\ rxTag' = After(rxTag, n)
    BY <1>2 DEF TakesOff
  <1>5. CASE parsed' \in Taken
    <2>1. /\ tags[p + 1] = N /\ N \in 1 .. Len(answers) /\ found' = N
          /\ p \in 0 .. Len(ctx.rx) - 1 /\ p + Len(R) <= Len(ctx.rx)
          /\ Stands(ctx.rx, p, R)
      BY <1>2, <1>5, TakenFrom DEF FlowInv, OnlyLast
    <2>2. /\ Asked(sent[N]) /\ R = Response(sent[N], answers[N].code, answers[N].vals)
          /\ answers[N].code \in Bytes /\ Answers(sent[N], answers[N].code, answers[N].vals)
          /\ R \in Seq(Bytes)
      BY <2>1, ReplyFacts
    <2>3. /\ Len(ctx.rx) \in Nat /\ Len(R) \in Nat /\ Len(tags) = Len(all) /\ Len(rxTag) = Len(ctx.rx)
          /\ Len(all) \in Nat /\ Len(ctx.rx) <= Len(all) /\ ctx.rx \in Seq(Bytes)
          /\ rxTag \in Seq(0 .. Len(answers))
          /\ \A j \in 1 .. Len(ctx.rx) : tags[j] = rxTag[j]
      <3>1. Len(R) \in Nat
        BY <2>2, LenProperties
      <3>2. all \in Seq(Bytes)
        BY FlightFacts
      <3>3. Len(all) \in Nat
        BY <3>2, LenProperties
      <3>4. QED  BY <3>1, <3>3, FlightFacts
    <2>4. Whole(ctx) /\ ParseResponse(ctx).st \in TakenStatus
      BY <1>1, <1>5 DEF TypeInv, Sound, Taken, TakenStatus
    <2>5. Awaits(ctx, sent[N])
      <3>1. p + 1 \in 1 .. Len(tags) /\ tags[p + 1] # 0 /\ N > 0
        BY <2>1, <2>3, SMTT(30)
      <3>2. found < N
        BY <2>1, <3>1 DEF FlowInv, InFlight
      <3>3. found # N
        BY <2>1, <3>2
      <3>4. QED  BY <3>1, <3>3 DEF HandedInv, Matching, Awaits
    <2>6. /\ parsed' \in {"OK", "RESPONSE_ERROR"} /\ ctx'.rx = After(ctx.rx, p + Len(R))
          /\ parsed' = "OK" /\ sent[N].command = "READ" => Holds(ctx', answers[N].vals)
      <3> DEFINE w == sent[N]
                 code == answers[N].code
                 vals == answers[N].vals
      <3>1. /\ Asked(w) /\ code \in Bytes /\ Answers(w, code, vals) /\ Whole(ctx)
            /\ ctx.rx \in Seq(Bytes) /\ Awaits(ctx, w) /\ ParseResponse(ctx).st \in TakenStatus
            /\ Stands(ctx.rx, StopAt(ctx.rx, ctx.serial), Response(w, code, vals))
        BY <2>1, <2>2, <2>3, <2>4, <2>5
      <3> HIDE DEF w, code, vals
      <3>2. LET r == ParseResponse(ctx)
                e == StopAt(ctx.rx, ctx.serial) + Len(Response(w, code, vals))
            IN  /\ r.st \in {"OK", "RESPONSE_ERROR"} /\ r.ctx.rx = After(ctx.rx, e)
                /\ r.st = "OK" /\ w.command = "READ" => Holds(r.ctx, vals)
        BY <3>1, ParseAnswers
      <3>3. QED  BY <1>1, <2>2, <3>2 DEF w, code, vals
    <2>7. AnswerIsCurrent'
      BY <1>1, <2>1 DEF AnswerIsCurrent
    <2>8. Matching'
      BY <1>1, <1>3, <2>1 DEF HandedInv, Matching, Parsed
    <2>9. ValuesAreTheAnswers'
      <3>1. ASSUME parsed' = "OK", ctx'.command = "READ" PROVE Holds(ctx', answers'[found'].vals)
        <4>1. sent[N].command = "READ"
          BY <1>3, <2>5, <3>1 DEF Parsed, Awaits
        <4>2. QED  BY <1>1, <2>1, <2>6, <3>1, <4>1
      <3>2. QED  BY <3>1, Zenon DEF ValuesAreTheAnswers, Holds
    <2>10. AlignedAfterFrame'
      <3> DEFINE e == p + Len(R)
      <3>1. e \in 0 .. Len(ctx.rx) /\ e \in Nat
        BY <2>1, <2>3, SMTT(30)
      <3>2. n = e
        <4> HIDE DEF e
        <4>1. Len(After(ctx.rx, n)) = Len(ctx.rx) - n /\ Len(After(ctx.rx, e)) = Len(ctx.rx) - e
          BY <2>3, <3>1, AfterSeq
        <4>2. After(ctx.rx, n) = After(ctx.rx, e)
          BY <1>3, <2>6 DEF e
        <4>3. QED  BY <2>3, <3>1, <4>1, <4>2
      <3>3. Len(rxTag') = Len(rxTag) - e /\ \A j \in 1 .. Len(rxTag) - e : rxTag'[j] = rxTag[e + j]
        <4> DEFINE T == 0 .. Len(answers)
        <4> HIDE DEF e, T
        <4>1. rxTag \in Seq(T) /\ e \in 0 .. Len(rxTag)
          BY <2>3, <3>1 DEF T
        <4>2. QED  BY <1>3, <3>2, <4>1, AfterSeq
      <3>4. p + Len(R) < Len(all) => tags[p + Len(R) + 1] # 0
        <4>1. p \in 0 .. Len(all) - 1 /\ tags[p + 1] # 0
          BY <2>1, <2>3
        <4>2. QED  BY <2>1, <4>1 DEF FlowInv, InFlight, Flow
      <3> HIDE DEF N, R, p
      <3>5. ASSUME rxTag' # <<>> PROVE rxTag'[1] # 0
        <4>1. Len(rxTag') # 0
          <5>1. TypeInv'
            BY ParseTyped
          <5>2. rxTag' \in Seq(0 .. Len(answers'))
            BY <5>1 DEF TypeInv
          <5>3. QED  BY <3>5, <5>2, EmptySeq
        <4>2. e < Len(ctx.rx) /\ 1 \in 1 .. Len(rxTag) - e /\ e + 1 \in 1 .. Len(ctx.rx) /\ e < Len(all)
          <5>1. /\ Len(ctx.rx) \in Nat /\ Len(all) \in Nat /\ Len(ctx.rx) <= Len(all)
                /\ e \in Nat /\ e <= Len(ctx.rx) /\ Len(ctx.rx) - e # 0 /\ Len(rxTag) = Len(ctx.rx)
            BY <2>3, <3>1, <3>3, <4>1
          <5> HIDE DEF e
          <5>2. QED  BY <5>1
        <4>3. rxTag'[1] = rxTag[e + 1] /\ tags[e + 1] = rxTag[e + 1]
          BY <2>3, <3>3, <4>2
        <4>4. QED  BY <3>4, <4>2, <4>3
      <3>6. QED  BY <3>5 DEF AlignedAfterFrame
    <2>11. QED  BY <2>7, <2>8, <2>9, <2>10 DEF HandedInv
  <1>6. CASE parsed' \notin Taken
    <2>1. found' = found /\ ctx'.count = ctx.count
      BY <1>2, <1>6 DEF TakesOff
    <2>2. Matching'
      BY <1>1, <1>3, <2>1 DEF HandedInv, Matching, Parsed
    <2>3. AnswerIsCurrent' /\ AlignedAfterFrame' /\ ValuesAreTheAnswers'
      BY <1>6 DEF AnswerIsCurrent, AlignedAfterFrame, ValuesAreTheAnswers, Taken
    <2>4. QED  BY <2>2, <2>3 DEF HandedInv
  <1>7. QED  BY <1>5, <1>6

LEMMA CurrentStep ==
  ASSUME LinkHeaders = {"4E"}, TypeInv, FlowInv, CurrentInv, Undeceived, Recent, [Next]_vars
  PROVE  CurrentInv'
  <1>1. CASE Request
    BY <1>1, RequestStamps, RequestHands DEF CurrentInv
  <1>2. CASE Answer
    <2>1. sent' = sent /\ ctx' = ctx
      BY <1>2, AnswerDoes
    <2>2. QED  BY <1>2, <2>1, StaysStamped, AnswerHands DEF CurrentInv
  <1>3. CASE Feed
    BY <1>3, FeedStamped, FeedHands DEF CurrentInv
  <1>4. CASE Parse
    <2>1. PICK n \in 0 .. Len(ctx.rx) : TakesOff(n)
      BY <1>4, ParseDoes
    <2>2. OnlyLast
      BY <2>1, TakesLast DEF CurrentInv
    <2>3. QED  BY <1>4, <2>2, ParseStamped, ParseHands DEF CurrentInv
  <1>5. CASE UNCHANGED vars
    BY <1>5 DEF vars, CurrentInv, HandedInv, Stamped, Back, Matching, AnswerIsCurrent,
                AlignedAfterFrame, ValuesAreTheAnswers, Taken
  <1>6. QED  BY <1>1, <1>2, <1>3, <1>4, <1>5, Zenon DEF Next

LEMMA AlwaysCurrent ==
  LinkHeaders = {"4E"} => (Spec /\ []Undeceived /\ []Recent => []CurrentInv)
  <1> SUFFICES ASSUME LinkHeaders = {"4E"} PROVE Spec /\ []Undeceived /\ []Recent => []CurrentInv
    OBVIOUS
  <1>1. Init => CurrentInv
    BY InitCurrent
  <1>2. TypeInv /\ FlowInv /\ Undeceived /\ Recent /\ CurrentInv /\ [Next]_vars => CurrentInv'
    BY CurrentStep
  <1>3. QED  BY <1>1, <1>2, AlwaysTyped, AlwaysFlows, PTL DEF Spec

\* With 4E headers, late answers in which nothing passes for a header
\* (Undeceived, see NoAnswerLost) and none in the buffer a whole round of serials
\* old (Recent), the answer that parse hands out is the one to the last request,
\* also after the serial of fx5_build_request has wrapped.
THEOREM OnlyTheCurrentAnswer ==
  LinkHeaders = {"4E"} => (Spec /\ []Undeceived /\ []Recent => []AnswerIsCurrent)
  <1> SUFFICES ASSUME LinkHeaders = {"4E"}
               PROVE  Spec /\ []Undeceived /\ []Recent => []AnswerIsCurrent
    OBVIOUS
  <1>1. CurrentInv => AnswerIsCurrent
    BY DEF CurrentInv, HandedInv
  <1>2. QED  BY <1>1, AlwaysCurrent, PTL

\* With 4E headers and under Undeceived and Recent, a response is taken off the
\* buffer whole and alone: what is left starts with the next one
\* (fx5_parse_response_pdu).
THEOREM FramesStayAligned ==
  LinkHeaders = {"4E"} => (Spec /\ []Undeceived /\ []Recent => []AlignedAfterFrame)
  <1> SUFFICES ASSUME LinkHeaders = {"4E"}
               PROVE  Spec /\ []Undeceived /\ []Recent => []AlignedAfterFrame
    OBVIOUS
  <1>1. CurrentInv => AlignedAfterFrame
    BY DEF CurrentInv, HandedInv
  <1>2. QED  BY <1>1, AlwaysCurrent, PTL

\* With 4E headers and under Undeceived and Recent, the values of a read are those
\* the station sent, index by index, for every count and device
\* (fx5_parse_response_pdu, fx5_get_response_value).
THEOREM ReadsGiveTheAnswers ==
  LinkHeaders = {"4E"} => (Spec /\ []Undeceived /\ []Recent => []ValuesAreTheAnswers)
  <1> SUFFICES ASSUME LinkHeaders = {"4E"}
               PROVE  Spec /\ []Undeceived /\ []Recent => []ValuesAreTheAnswers
    OBVIOUS
  <1>1. CurrentInv => ValuesAreTheAnswers
    BY DEF CurrentInv, HandedInv
  <1>2. QED  BY <1>1, AlwaysCurrent, PTL

-----------------------------------------------------------------------------
(***************************************************************************)
(* A caller that waits for each answer, in any mix of header modes: no     *)
(* hypothesis on the bytes, the serials or their number is left.           *)
(***************************************************************************)

\* No request is sent before parse took the answer to the one before.
Patient == Len(sent) <= found + 1

\* What is in flight starts with a response.
Begun == Len(all) > 0 => tags[1] # 0

WaitingInv == FlowInv /\ HandedInv /\ Begun

\* Only the answer to the last request is in flight, so nothing is passed over.
LEMMA OneInFlight ==
  ASSUME TypeInv, InFlight, Patient, NEW p \in 1 .. Len(tags), tags[p] # 0
  PROVE  tags[p] = Len(sent) /\ Len(answers) = Len(sent) /\ Len(sent) > 0 /\ found # Len(sent)
  <1>1. tags \in Seq(0 .. Len(answers)) /\ Len(answers) \in Nat /\ Len(sent) \in Nat
    BY FlightFacts
  <1>2. tags[p] \in 0 .. Len(answers) /\ found < tags[p]
    BY <1>1, ElementOfSeq DEF InFlight
  <1>3. found \in Nat /\ Len(answers) <= Len(sent) /\ Len(sent) <= found + 1
    BY <1>1 DEF TypeInv, Patient
  <1> DEFINE i == tags[p]
  <1> HIDE DEF i
  <1>4. i \in 0 .. Len(answers) /\ found < i /\ i # 0
    BY <1>2 DEF i
  <1>5. i = Len(sent) /\ Len(answers) = Len(sent) /\ Len(sent) > 0 /\ found # Len(sent)
    BY <1>1, <1>3, <1>4
  <1>6. QED  BY <1>5 DEF i

LEMMA WaitingSees ==
  ASSUME TypeInv, WaitingInv, Patient PROVE Undeceived
  <1> SUFFICES ASSUME NEW p \in 0 .. Len(ctx.rx) - 1
               PROVE  \E q \in 0 .. p : rxTag[q + 1] # 0 /\ rxTag[q + 1] = Len(sent)
    BY DEF Undeceived, Clear
  <1>1. /\ Len(ctx.rx) \in Nat /\ Len(all) \in Nat /\ Len(ctx.rx) <= Len(all) /\ Len(tags) = Len(all)
        /\ \A i \in 1 .. Len(ctx.rx) : tags[i] = rxTag[i]
    BY FlightFacts
  <1>2. 1 \in 1 .. Len(ctx.rx) /\ 1 \in 1 .. Len(tags) /\ Len(all) > 0 /\ 0 \in 0 .. p /\ 0 + 1 = 1
    BY <1>1
  <1>3. tags[1] # 0
    BY <1>2 DEF WaitingInv, Begun
  <1>4. tags[1] = Len(sent)
    BY <1>2, <1>3, OneInFlight DEF WaitingInv, FlowInv
  <1>5. rxTag[0 + 1] # 0 /\ rxTag[0 + 1] = Len(sent)
    BY <1>1, <1>2, <1>3, <1>4
  <1>6. QED  BY <1>2, <1>5

LEMMA WaitingTakes ==
  ASSUME TypeInv, WaitingInv, Patient, NEW n, TakesOff(n) PROVE OnlyLast
  <1> DEFINE p == StopAt(ctx.rx, ctx.serial)
  <1> SUFFICES ASSUME parsed' \in Taken PROVE tags[p + 1] = Len(sent) /\ Len(sent) \in 1 .. Len(answers)
    BY DEF OnlyLast
  <1>1. InFlight /\ Looking /\ Undeceived
    BY WaitingSees DEF WaitingInv, FlowInv
  <1>2. tags[p + 1] \in 1 .. Len(answers) /\ p \in 0 .. Len(ctx.rx) - 1
    BY <1>1, TakenFrom
  <1>3. Len(ctx.rx) \in Nat /\ Len(all) \in Nat /\ Len(ctx.rx) <= Len(all) /\ Len(tags) = Len(all)
        /\ Len(answers) \in Nat
    BY FlightFacts
  <1> HIDE DEF p
  <1>4. p + 1 \in 1 .. Len(tags) /\ tags[p + 1] # 0
    BY <1>2, <1>3
  <1>5. QED  BY <1>1, <1>3, <1>4, OneInFlight

\* After a parse that took a response nothing is left; after another, all is.
LEMMA ParseBegins ==
  ASSUME TypeInv, WaitingInv, Patient, Parse, FlowInv', HandedInv' PROVE Begun'
  <1>1. sent' = sent /\ answers' = answers /\ stream' = stream /\ streamTag' = streamTag
    BY ParseDoes
  <1>2. PICK n \in 0 .. Len(ctx.rx) : TakesOff(n)
    BY ParseDoes
  <1>3. n \in 0 .. Len(all) /\ all' = After(all, n) /\ tags' = After(tags, n)
    BY <1>1, <1>2, ParseTakes
  <1>4. /\ all \in Seq(Bytes) /\ tags \in Seq(0 .. Len(answers)) /\ Len(tags) = Len(all)
        /\ Len(all) \in Nat /\ Len(all) = Len(ctx.rx) + Len(stream)
        /\ Len(ctx.rx) \in Nat /\ Len(stream) \in Nat
    <2>1. all \in Seq(Bytes)
      BY FlightFacts
    <2>2. QED  BY <2>1, LenProperties, FlightFacts
  <1>5. /\ Len(all') = Len(all) - n /\ Len(tags') = Len(all) - n
        /\ \A j \in 1 .. Len(all) - n : tags'[j] = tags[n + j]
    <2> DEFINE T == 0 .. Len(answers)
    <2>1. tags \in Seq(T) /\ n \in 0 .. Len(tags)
      BY <1>3, <1>4
    <2> HIDE DEF T
    <2>2. Len(tags') = Len(tags) - n /\ \A j \in 1 .. Len(tags) - n : tags'[j] = tags[n + j]
      BY <1>3, <2>1, AfterSeq
    <2>3. Len(all') = Len(all) - n
      BY <1>3, <1>4, AfterSeq
    <2>4. QED  BY <1>4, <2>2, <2>3
  <1>6. Flow(all, tags, Replies, Len(answers)) /\ InFlight /\ Looking /\ Undeceived
    BY WaitingSees DEF WaitingInv, FlowInv, InFlight
  <1> SUFFICES ASSUME Len(all') > 0 PROVE tags'[1] # 0
    BY DEF Begun
  <1>7. CASE parsed' \in Taken
    <2> DEFINE p == StopAt(ctx.rx, ctx.serial)
               i == tags[p + 1]
               r == Len(Replies[i])
    <2>1. /\ i \in 1 .. Len(answers) /\ found' = i /\ p \in 0 .. Len(ctx.rx) - 1
          /\ p + r <= Len(ctx.rx)
      BY <1>2, <1>6, <1>7, TakenFrom
    <2>2. i = Len(sent) /\ Len(answers) = Len(sent)
      <3>1. OnlyLast
        BY <1>2, WaitingTakes
      <3>2. Len(answers) \in Nat /\ Len(sent) \in Nat /\ Len(answers) <= Len(sent)
        BY FlightFacts DEF TypeInv
      <3>3. QED  BY <1>7, <3>1, <3>2 DEF OnlyLast
    <2>3. r \in Nat /\ r > 0
      <3>1. Replies[i] \in Seq(Bytes) /\ Framed(Replies[i])
        BY <2>1, ReplyFacts
      <3>2. r \in Nat /\ 2 <= r
        BY <3>1, LenProperties DEF Framed
      <3> HIDE DEF r
      <3>3. QED  BY <3>2
    <2>4. \A x \in 0 .. Len(all) - 1 :
            x = p => /\ x + r < Len(all) => tags[x + r + 1] # 0
                     /\ \A y \in 0 .. Len(all) - 1 :
                          x < y /\ tags[y + 1] # 0 => tags[x + 1] < tags[y + 1]
      <3> HIDE DEF p
      <3> SUFFICES ASSUME NEW x \in 0 .. Len(all) - 1, x = p
                   PROVE  /\ x + r < Len(all) => tags[x + r + 1] # 0
                          /\ \A y \in 0 .. Len(all) - 1 :
                               x < y /\ tags[y + 1] # 0 => tags[x + 1] < tags[y + 1]
        OBVIOUS
      <3>1. tags[x + 1] = i /\ tags[x + 1] # 0
        BY <2>1
      <3>2. x + Len(Replies[tags[x + 1]]) < Len(all) => tags[x + Len(Replies[tags[x + 1]]) + 1] # 0
        BY <1>6, <3>1 DEF Flow
      <3>3. \A y \in 0 .. Len(all) - 1 : x < y /\ tags[y + 1] # 0 => tags[x + 1] < tags[y + 1]
        BY <1>6, <3>1 DEF Flow
      <3>4. QED  BY <3>1, <3>2, <3>3
    <2>5. tags[p + 1] = Len(answers)
      BY <2>2
    <2> HIDE DEF p, i, r
    <2>6. p \in Nat /\ p \in 0 .. Len(all) - 1
      BY <1>4, <2>1
    <2>7. ~(p + r < Len(all))
      <3> SUFFICES ASSUME p + r < Len(all) PROVE FALSE
        OBVIOUS
      <3> DEFINE q == p + r
      <3>1. tags[q + 1] # 0
        BY <2>4, <2>6
      <3>2. q \in 0 .. Len(all) - 1 /\ p < q /\ q + 1 \in 1 .. Len(tags)
        BY <1>4, <2>3, <2>6
      <3> HIDE DEF q
      <3>3. tags[p + 1] < tags[q + 1]
        BY <2>4, <2>6, <3>1, <3>2
      <3>4. tags[q + 1] \in 0 .. Len(answers)
        BY <1>4, <3>2, ElementOfSeq
      <3>5. Len(answers) < tags[q + 1] /\ Len(answers) \in Nat
        BY <2>5, <3>3, FlightFacts
      <3>6. QED  BY <3>4, <3>5
    <2>8. Len(stream) = 0 /\ Len(ctx.rx) = Len(all)
      <3>1. p + r <= Len(ctx.rx)
        BY <2>1
      <3>2. QED  BY <1>4, <2>3, <2>6, <2>7, <3>1
    <2>9. /\ Len(rxTag') = Len(ctx'.rx) /\ Len(ctx'.rx) > 0 /\ tags'[1] = rxTag'[1]
      <3>1. Len(rxTag') = Len(ctx'.rx)
        BY ParseTyped DEF TypeInv
      <3>2. /\ rxTag \in Seq(0 .. Len(answers)) /\ Len(rxTag) = Len(ctx.rx)
            /\ \A j \in 1 .. Len(ctx.rx) : tags[j] = rxTag[j]
        BY FlightFacts
      <3>3. rxTag' = After(rxTag, n) /\ n \in 0 .. Len(rxTag)
        BY <1>2, <3>2 DEF TakesOff
      <3> DEFINE T == 0 .. Len(answers)
      <3>4. rxTag \in Seq(T)
        BY <3>2
      <3> HIDE DEF T
      <3>5. Len(rxTag') = Len(rxTag) - n /\ \A j \in 1 .. Len(rxTag) - n : rxTag'[j] = rxTag[n + j]
        BY <3>3, <3>4, AfterSeq
      <3>6. /\ 1 \in 1 .. Len(all) - n /\ 1 \in 1 .. Len(rxTag) - n /\ n + 1 \in 1 .. Len(ctx.rx)
            /\ Len(rxTag') > 0
        BY <1>3, <1>4, <1>5, <2>8, <3>2, <3>5
      <3>7. QED  BY <1>5, <3>1, <3>2, <3>5, <3>6
    <2>10. rxTag' # <<>>
      <3>1. Len(rxTag') > 0
        BY <2>9
      <3>2. QED  BY <3>1, EmptySeq
    <2>11. QED  BY <1>7, <2>10, <2>9 DEF HandedInv, AlignedAfterFrame
  <1>8. CASE parsed' \notin Taken
    <2>1. found' = found
      BY <1>2, <1>8 DEF TakesOff
    <2>2. 1 \in 1 .. Len(tags) /\ Len(all) > 0
      BY <1>3, <1>4, <1>5
    <2>3. tags[1] # 0
      BY <2>2 DEF WaitingInv, Begun
    <2>4. /\ tags[1] = Len(sent) /\ Len(answers) = Len(sent) /\ Len(sent) > 0 /\ found # Len(sent)
      BY <1>6, <2>2, <2>3, OneInFlight
    <2>5. PICK j \in 1 .. Len(tags') : tags'[j] = Len(sent)
      BY <1>1, <2>1, <2>4 DEF FlowInv, Pending
    <2> DEFINE q == n + j - 1
    <2>6. q \in 0 .. Len(all) - 1 /\ q + 1 = n + j /\ j \in 1 .. Len(all) - n /\ q \in Nat
          /\ 0 \in 0 .. Len(all) - 1 /\ 0 + 1 = 1
      BY <1>3, <1>4, <1>5, <2>2
    <2>7. tags[q + 1] = Len(sent)
      BY <1>5, <2>5, <2>6
    <2>8. ~(0 < q)
      <3>1. 0 < q => tags[0 + 1] < tags[q + 1]
        BY <1>6, <2>3, <2>4, <2>6, <2>7 DEF Flow
      <3> HIDE DEF q
      <3>2. Len(sent) \in Nat
        BY FlightFacts
      <3>3. QED  BY <2>4, <2>6, <2>7, <3>1, <3>2
    <2>9. j = 1
      BY <1>3, <2>6, <2>8
    <2>10. QED  BY <2>4, <2>5, <2>9
  <1>9. QED  BY <1>7, <1>8

LEMMA AnswerBegins ==
  ASSUME TypeInv, Begun, Answer PROVE Begun'
  <1>1. ctx' = ctx /\ sent' = sent /\ rxTag' = rxTag
    BY AnswerDoes
  <1>2. PICK code \in Codes : \E vals \in Vals(sent[Len(answers) + 1], code) : Answered(code, vals)
    BY AnswerDoes
  <1>3. PICK vals \in Vals(sent[Len(answers) + 1], code) : Answered(code, vals)
    BY <1>2
  <1> DEFINE m     == Len(answers)
             bytes == Response(sent[m + 1], code, vals)
             more  == Tagged(bytes, m + 1)
  <1>4. tags' = tags \o more /\ Framed(bytes)
    BY <1>1, <1>3, AnswerJoins DEF Answered
  <1>5. m \in Nat /\ tags \in Seq(0 .. m) /\ Len(tags) = Len(all) /\ Len(all) \in Nat
    <2>1. all \in Seq(Bytes)
      BY FlightFacts
    <2>2. QED  BY <2>1, LenProperties, FlightFacts
  <1>6. Len(bytes) \in Nat /\ 2 <= Len(bytes)
    <2>1. bytes \in Seq(Bytes) /\ 2 <= Len(bytes)
      BY <1>4 DEF Framed
    <2> HIDE DEF bytes
    <2>2. QED  BY <2>1, LenProperties
  <1> HIDE DEF bytes
  <1> DEFINE T == 0 .. m + 1
  <1>7. more \in Seq(T) /\ Len(more) = Len(bytes) /\ more[1] = m + 1
    <2> HIDE DEF m
    <2>1. more \in [1 .. Len(bytes) -> T]
      BY <1>5 DEF Tagged
    <2>2. 1 \in 1 .. Len(bytes)
      BY <1>6
    <2>3. more[1] = m + 1
      BY <2>2 DEF Tagged
    <2> HIDE DEF T, more
    <2>4. QED  BY <1>6, <2>1, <2>3, FunctionIsSeq
  <1>8. tags \in Seq(T)
    <2>1. 0 .. m \subseteq T
      BY <1>5
    <2> HIDE DEF T, m
    <2>2. QED  BY <1>5, <2>1, SeqMonotonic
  <1> HIDE DEF T, more, m
  <1>9. \A i \in 1 .. Len(tags) + Len(more) :
          (tags \o more)[i] = IF i <= Len(tags) THEN tags[i] ELSE more[i - Len(tags)]
    BY <1>7, <1>8, ConcatProperties
  <1>10. 1 \in 1 .. Len(tags) + Len(more) /\ Len(tags) \in Nat
    BY <1>5, <1>6, <1>7
  <1>11. CASE Len(tags) = 0
    <2>1. tags'[1] = m + 1
      BY <1>4, <1>7, <1>9, <1>10, <1>11
    <2>2. QED  BY <1>5, <2>1 DEF Begun
  <1>12. CASE Len(tags) # 0
    <2>1. tags'[1] = tags[1]
      BY <1>4, <1>9, <1>10, <1>12
    <2>2. QED  BY <1>5, <1>12, <2>1 DEF Begun
  <1>13. QED  BY <1>11, <1>12

LEMMA WaitingStep ==
  ASSUME TypeInv, WaitingInv, Patient, [Next]_vars PROVE WaitingInv'
  <1>1. Undeceived
    BY WaitingSees
  <1>2. FlowInv'
    BY <1>1, FlowStep DEF WaitingInv
  <1>3. HandedInv /\ Begun
    BY DEF WaitingInv
  <1>4. CASE Request
    <2>1. /\ RequestMade /\ stream' = stream /\ streamTag' = streamTag /\ rxTag' = rxTag
      BY <1>4, RequestDoes
    <2>2. all' = all /\ tags' = tags
      BY <2>1 DEF RequestMade, all, tags
    <2>3. QED  BY <1>2, <1>3, <1>4, <2>2, RequestHands DEF WaitingInv, Begun
  <1>5. CASE Answer
    BY <1>2, <1>3, <1>5, AnswerHands, AnswerBegins DEF WaitingInv
  <1>6. CASE Feed
    <2>1. answers' = answers
      BY <1>6, FeedDoes
    <2>2. PICK n \in 0 .. Len(stream) : Fed(n)
      BY <1>6, FeedDoes
    <2>3. all' = all /\ tags' = tags
      BY <2>1, <2>2, FeedMoves
    <2>4. QED  BY <1>2, <1>3, <1>6, <2>3, FeedHands DEF WaitingInv, Begun
  <1>7. CASE Parse
    <2>1. PICK n \in 0 .. Len(ctx.rx) : TakesOff(n)
      BY <1>7, ParseDoes
    <2>2. OnlyLast
      BY <2>1, WaitingTakes
    <2>3. HandedInv'
      BY <1>1, <1>3, <1>7, <2>2, ParseHands DEF WaitingInv
    <2>4. QED  BY <1>2, <1>7, <2>3, ParseBegins DEF WaitingInv
  <1>8. CASE UNCHANGED vars
    <2>1. HandedInv'
      BY <1>3, <1>8 DEF vars, HandedInv, Matching, AnswerIsCurrent, AlignedAfterFrame,
                        ValuesAreTheAnswers, Taken
    <2>2. Begun'
      BY <1>3, <1>8 DEF vars, Begun, all, tags
    <2>3. QED  BY <1>2, <2>1, <2>2 DEF WaitingInv
  <1>9. QED  BY <1>4, <1>5, <1>6, <1>7, <1>8, Zenon DEF Next

LEMMA InitWaits ==
  ASSUME Init PROVE WaitingInv
  <1>1. FlowInv /\ HandedInv
    BY InitFlows, InitCurrent DEF CurrentInv
  <1>2. Len(all) = 0
    <2>1. TypeInv /\ stream = <<>> /\ rxTag = <<>>
      BY InitTyped DEF Init
    <2>2. Len(all) = Len(ctx.rx) + Len(stream) /\ Len(rxTag) = Len(ctx.rx)
      BY <2>1, FlightFacts
    <2>3. QED  BY <2>1, <2>2, EmptySeq
  <1>3. QED  BY <1>1, <1>2 DEF WaitingInv, Begun

\* A caller that sends no request before parse took the answer to the one
\* before is handed the current answer, whole, index by index as the station
\* sent it, and loses none: for every value, every serial, any number of
\* requests, any mix of 3E and 4E headers and however the bytes are cut
\* (fx5_feed_response_bytes, fx5_parse_response, fx5_get_response_value).
THEOREM WaitingCallersGetTheirAnswers ==
  Spec /\ []Patient =>
    [](AnswerIsCurrent /\ AlignedAfterFrame /\ ValuesAreTheAnswers /\ LastAnswerNotLost)
  <1>1. Init => WaitingInv
    BY InitWaits
  <1>2. TypeInv /\ WaitingInv /\ Patient /\ [Next]_vars => WaitingInv'
    BY WaitingStep
  <1>3. WaitingInv => AnswerIsCurrent /\ AlignedAfterFrame /\ ValuesAreTheAnswers /\ LastAnswerNotLost
    BY DEF WaitingInv, HandedInv, FlowInv
  <1>4. QED  BY <1>1, <1>2, <1>3, AlwaysTyped, PTL DEF Spec

-----------------------------------------------------------------------------
\* Recent follows where there are no more requests than serials.
LEMMA FewAreRecent == MaxRequests <= SerialRange => (Spec => []Recent)
  <1> SUFFICES ASSUME MaxRequests <= SerialRange PROVE Spec => []Recent
    OBVIOUS
  <1>1. TypeInv => Recent
    <2> SUFFICES ASSUME TypeInv, NEW p \in 1 .. Len(rxTag), rxTag[p] # 0
                 PROVE  Len(sent) - rxTag[p] < SerialRange
      BY DEF Recent
    <2>1. rxTag[p] \in 0 .. Len(answers) /\ Len(answers) \in Nat /\ Len(sent) \in Nat
      BY FlightFacts, ElementOfSeq
    <2>2. Len(sent) <= MaxRequests /\ MaxRequests \in Nat
      BY LinkAssumption DEF TypeInv
    <2>3. SerialRange \in Nat
      BY SerialsAreNat
    <2>4. QED  BY <2>1, <2>2, <2>3
  <1>2. QED  BY <1>1, AlwaysTyped, PTL
=============================================================================
