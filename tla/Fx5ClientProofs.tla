-------------------------- MODULE Fx5ClientProofs --------------------------
(***************************************************************************)
(* The client, for every set of commands, response codes, value store,     *)
(* pieces of the stream and number of requests: it implements CommandLoop, *)
(* its state keeps its shape and, with a station that does not answer late,*)
(* what it prints is the answer to its own request and what the station    *)
(* holds.                                                                  *)
(***************************************************************************)
EXTENDS Fx5Client, Fx5StationProofs

\* What the loop is at, for each phase of the client.
At(p) == CASE p = "ready" -> "idle" [] p = "receiving" -> "busy" [] p = "ended" -> "over"

LEMMA AtPhase == At("ready") = "idle" /\ At("receiving") = "busy" /\ At("ended") = "over"
  BY DEF At

\* A step that touches neither phase nor report is none of the loop.
LEMMA Stutter ==
  ASSUME UNCHANGED <<script, phase, report>>
  PROVE  UNCHANGED Loop!vars
  BY DEF Loop!vars

LEMMA FailedIsFail ==
  ASSUME phase \in {"ready", "receiving"}, Failed, UNCHANGED script
  PROVE  Loop!Fail
  <1>1. report'.res = "fail" /\ phase' = IF script THEN "ended" ELSE "ready"
    BY DEF Failed, Nothing
  <1>2. At(phase) \in {"idle", "busy"} /\ At(phase') = IF script THEN "over" ELSE "idle"
    BY <1>1, AtPhase
  <1>3. QED  BY <1>1, <1>2 DEF Loop!Fail, At

LEMMA SentIsBegun ==
  ASSUME phase = "ready", phase' = "receiving", report' = Nothing, UNCHANGED script
  PROVE  Loop!Begin
  <1>1. report'.res = "none"
    BY DEF Nothing
  <1>2. At(phase) = "idle" /\ At(phase') = "busy"
    BY AtPhase
  <1>3. QED  BY <1>1, <1>2 DEF Loop!Begin, At

LEMMA EndedIsLeft ==
  ASSUME phase = "ready", phase' = "ended", report' = Nothing \/ UNCHANGED report, UNCHANGED script
  PROVE  Loop!Leave
  <1>1. report'.res \in {report.res, "none"}
    BY DEF Nothing
  <1>2. At(phase) = "idle" /\ At(phase') = "over"
    BY AtPhase
  <1>3. QED  BY <1>1, <1>2 DEF Loop!Leave, At

LEMMA PrintedIsReported ==
  ASSUME phase = "receiving", phase' = "ready", NEW c, NEW of, report' = Printed(c, of), UNCHANGED script
  PROVE  Loop!Report
  <1>1. report'.res \in {"ok", "plc_error"}
    BY DEF Printed
  <1>2. At(phase) = "busy" /\ At(phase') = "idle"
    BY AtPhase
  <1>3. QED  BY <1>1, <1>2 DEF Loop!Report, At

LEMMA StartRefines ==
  ASSUME Start
  PROVE  Loop!Next
  <1>1. phase = "ready" /\ UNCHANGED script
    BY DEF Start
  <1>2. \/ \E w : Send(w)
        \/ Failed
    BY DEF Start
  <1>3. ASSUME NEW w, Send(w)
        PROVE  \/ phase' = "receiving" /\ report' = Nothing
               \/ phase' = "ended" /\ report' = Nothing
               \/ Failed
    BY <1>3 DEF Send, SendIntoClosed
  <1>4. QED  BY <1>1, <1>2, <1>3, SentIsBegun, EndedIsLeft, FailedIsFail DEF Loop!Next

LEMMA RecvRefines ==
  ASSUME Recv
  PROVE  Loop!Next \/ UNCHANGED Loop!vars
  <1>1. phase = "receiving" /\ UNCHANGED script
    BY DEF Recv
  <1>2. \/ Failed
        \/ UNCHANGED <<phase, report>>
        \/ phase' = "ready" /\ \E c, of : report' = Printed(c, of)
    BY DEF Recv
  <1>3. QED  BY <1>1, <1>2, FailedIsFail, PrintedIsReported, Stutter DEF Loop!Next

LEMMA StepRefines == [Next]_vars => [Loop!Next]_Loop!vars
  <1> SUFFICES ASSUME [Next]_vars PROVE Loop!Next \/ UNCHANGED Loop!vars
    OBVIOUS
  <1>1. CASE HeaderCommand \/ Answer \/ Stop \/ Break \/ UNCHANGED vars
    BY <1>1, Stutter DEF HeaderCommand, Answer, Stop, Break, vars, client
  <1>2. CASE Quit
    BY <1>2, EndedIsLeft DEF Quit, Loop!Next
  <1>3. CASE Start
    BY <1>3, StartRefines
  <1>4. CASE Recv
    BY <1>4, RecvRefines
  <1>5. CASE Timeout \/ Closed
    BY <1>5, FailedIsFail DEF Timeout, Closed, Loop!Next
  <1>6. QED  BY <1>1, <1>2, <1>3, <1>4, <1>5 DEF Next, Receive

\* The session is one of CommandLoop: commands one after the other, a result
\* only for a request that was sent, and a script that stops at its first failure.
THEOREM ImplementsLoop == Spec => OneAfterTheOther
  <1>1. Init => Loop!Init
    BY AtPhase DEF Init, Loop!Init, Nothing, At
  <1>2. QED  BY <1>1, StepRefines, PTL DEF Spec, OneAfterTheOther, Loop!Spec

-----------------------------------------------------------------------------
(***************************************************************************)
(* What a command makes of the context and puts on the wire.               *)
(***************************************************************************)

\* A request that reached the station: one of the API, for cells it has.
SentRight(w) == Asked(w) /\ w.address \in Nat /\ \A a \in AddressesOf(w) : <<w.device, a>> \in Cells

\* The request w says what the command q says.
Says(w, q) ==
  /\ w.command = IF q.type = "get" THEN "READ" ELSE "WRITE"
  /\ w.device = q.device /\ w.address = q.address /\ w.count = q.count
  /\ q.type = "set" => \A i \in 0 .. q.count - 1 : ValueSent(w, i) = Meant(q.device, q.values[i + 1])

\* The context d has made the request w and waits for its answer.
Made(d, w) == Awaits(d, w) /\ d.serial = w.serial

LEMMA WrittenMakes ==
  ASSUME NEW c, NEW h, Fresh(c, h), NEW dev, NEW a, NEW values \in Seq(Words),
         Len(values) \in 1 .. MaxCount(dev), Asking(c, "WRITE", dev, a, Len(values))
  PROVE  LET r == WriteValues(c, values) IN
         /\ r.st = "OK" /\ Fresh(r.ctx, h) /\ Asking(r.ctx, "WRITE", dev, a, Len(values))
         /\ \A j \in 0 .. Len(values) - 1 : GetResponseValue(r.ctx, j) = Meant(dev, values[j + 1])
  <1> DEFINE n == Len(values)
             V == {Ok(Over(c, vs)) : vs \in [Slots -> Words]}
             F == [p \in V \X (1 .. n) |-> SetWriteValue(p[1].ctx, p[2] - 1, values[p[2]])]
             Writes(f) == f = [m \in 0 .. n |->
               IF m = 0 THEN Ok(c)
               ELSE IF f[m - 1].st = "OK" THEN SetWriteValue(f[m - 1].ctx, m - 1, values[m]) ELSE f[m - 1]]
             written == CHOOSE f : Writes(f)
  <1>1. /\ n \in Nat /\ n >= 1 /\ \A i \in 1 .. n : values[i] \in Words
        /\ Whole(c) /\ c.values \in [Slots -> Words]
    <2>1. MaxCount(dev) \in Nat
      BY CountsAreNat
    <2>2. QED  BY <2>1, ElementOfSeq, LenProperties DEF Fresh, Sound, Stored
  <1>2. WriteValues(c, values) = written[n]
    BY DEF WriteValues
  <1>3. Ok(c) \in V
    <2>1. c = Over(c, c.values)
      BY <1>1 DEF Whole, CtxFields, Over
    <2>2. QED  BY <1>1, <2>1
  <1>4. ASSUME NEW r \in V PROVE r.st = "OK" /\ Fresh(r.ctx, h) /\ Asking(r.ctx, "WRITE", dev, a, n)
    <2>1. PICK vs \in [Slots -> Words] : r = Ok(Over(c, vs))
      OBVIOUS
    <2> DEFINE d == Over(c, vs)
    <2>2. /\ Whole(d) /\ d.in_use = c.in_use /\ d.settings = c.settings /\ d.next_serial = c.next_serial
          /\ d.serial = c.serial /\ d.rx = c.rx /\ d.values = vs /\ d.command = c.command
          /\ d.device = c.device /\ d.address = c.address /\ d.count = c.count
      BY <1>1 DEF Whole, CtxFields, Over
    <2> HIDE DEF d
    <2>3. Fresh(d, h) /\ Asking(d, "WRITE", dev, a, n)
      BY <2>2 DEF Fresh, Sound, Stored, Asking
    <2>4. r.st = "OK" /\ r.ctx = d
      BY <2>1 DEF Ok, d
    <2>5. QED  BY <2>3, <2>4
  <1>5. ASSUME NEW r \in V, NEW i \in 1 .. n
        PROVE  /\ SetWriteValue(r.ctx, i - 1, values[i]) \in V
               /\ \A j \in 0 .. n - 1 : GetResponseValue(SetWriteValue(r.ctx, i - 1, values[i]).ctx, j)
                     = IF j = i - 1 THEN Meant(dev, values[i]) ELSE GetResponseValue(r.ctx, j)
    <2> DEFINE s == SetWriteValue(r.ctx, i - 1, values[i])
    <2>1. Fresh(r.ctx, h) /\ Asking(r.ctx, "WRITE", dev, a, n) /\ i - 1 \in 0 .. n - 1 /\ values[i] \in Words
      <3>1. Fresh(r.ctx, h) /\ Asking(r.ctx, "WRITE", dev, a, n)
        BY <1>4
      <3> HIDE DEF V
      <3>2. i - 1 \in 0 .. n - 1 /\ values[i] \in Words
        BY <1>1
      <3>3. QED  BY <3>1, <3>2
    <2>2. /\ \E vs \in [Slots -> Words] : s = Ok(Over(r.ctx, vs))
          /\ \A j \in 0 .. n - 1 :
               GetResponseValue(s.ctx, j) = IF j = i - 1 THEN Meant(dev, values[i]) ELSE GetResponseValue(r.ctx, j)
      <3> DEFINE x == r.ctx
                 k == i - 1
                 v == values[i]
      <3>1. /\ Fresh(x, h) /\ Asking(x, "WRITE", dev, a, n) /\ k \in 0 .. n - 1 /\ v \in Words
            /\ n \in 1 .. MaxCount(dev)
        BY <2>1
      <3> HIDE DEF V, x, k, v, n
      <3> DEFINE y == SetWriteValue(x, k, v)
                 Done == /\ \E vs \in [Slots -> Words] : y = Ok(Over(x, vs))
                         /\ \A j \in 0 .. n - 1 :
                              GetResponseValue(y.ctx, j) = IF j = k THEN Meant(dev, v) ELSE GetResponseValue(x, j)
      <3>2. y.st = "OK" /\ Fresh(y.ctx, h) /\ Asking(y.ctx, "WRITE", dev, a, n) /\ Done
        BY <3>1, WriteMakes
      <3> HIDE DEF Done
      <3>3. Done
        BY <3>2
      <3>4. QED  BY <3>3 DEF Done, y, x, k, v, n
    <2>3. PICK vs \in [Slots -> Words] : s = Ok(Over(r.ctx, vs))
      BY <2>2
    <2>4. PICK us \in [Slots -> Words] : r = Ok(Over(c, us))
      OBVIOUS
    <2>5. Over(r.ctx, vs) = Over(c, vs)
      <3>1. r.ctx = Over(c, us)
        BY <2>4 DEF Ok
      <3>2. QED  BY <1>1, <3>1 DEF Whole, CtxFields, Over
    <2>6. s \in V
      BY <2>3, <2>5
    <2>7. QED  BY <2>2, <2>6
  <1> HIDE DEF V
  <1>6. F \in [V \X (1 .. n) -> V]
    <2>1. \A p \in V \X (1 .. n) : p[1] \in V /\ p[2] \in 1 .. n
      OBVIOUS
    <2>2. QED  BY <1>5, <2>1
  <1>7. \A r \in V : \A i \in 1 .. n : F[<<r, i>>] = SetWriteValue(r.ctx, i - 1, values[i])
    OBVIOUS
  <1> HIDE DEF F
  <1>8. PICK g \in [0 .. n -> V] : Follows(g, Ok(c), n, F)
    BY <1>1, <1>3, <1>6, RecursionDefines
  <1>9. Writes(g)
    <2>1. ASSUME NEW m \in 0 .. n
          PROVE  g[m] = IF m = 0 THEN Ok(c)
                        ELSE IF g[m - 1].st = "OK" THEN SetWriteValue(g[m - 1].ctx, m - 1, values[m])
                        ELSE g[m - 1]
      <3>1. CASE m = 0
        BY <1>8, <3>1 DEF Follows
      <3>2. CASE m # 0
        <4>1. m \in 1 .. n /\ m - 1 \in 0 .. n
          BY <1>1, <3>2
        <4>2. g[m - 1] \in V
          BY <4>1
        <4>3. g[m] = F[<<g[m - 1], m>>]
          BY <1>8, <4>1 DEF Follows
        <4>4. g[m - 1].st = "OK"
          BY <1>4, <4>2
        <4>5. QED  BY <1>7, <3>2, <4>1, <4>2, <4>3, <4>4
      <3>3. QED  BY <3>1, <3>2
    <2>2. QED  BY <2>1
  <1>10. Writes(written)
    <2> HIDE DEF Writes
    <2>1. QED  BY <1>9
  <1> HIDE DEF written
  <1>11. /\ written[0] = Ok(c)
         /\ \A i \in 1 .. n : written[i - 1] \in V =>
              written[i] = SetWriteValue(written[i - 1].ctx, i - 1, values[i])
    <2>1. 0 \in 0 .. n
      BY <1>1
    <2>2. ASSUME NEW i \in 1 .. n, written[i - 1] \in V
          PROVE  written[i] = SetWriteValue(written[i - 1].ctx, i - 1, values[i])
      <3>1. i \in 0 .. n /\ i # 0
        BY <1>1
      <3>2. written[i - 1].st = "OK"
        BY <1>4, <2>2
      <3>3. QED  BY <1>10, <3>1, <3>2
    <2>3. QED  BY <1>10, <2>1, <2>2
  <1> HIDE DEF Writes
  <1>12. \A i \in 0 .. n : written[i] \in V
    <2>1. \A i \in 1 .. n : written[i - 1] \in V => written[i] = F[<<written[i - 1], i>>]
      BY <1>7, <1>11
    <2>2. QED  BY <1>1, <1>3, <1>6, <1>11, <2>1, RecursionStays
  <1>13. \A m \in 0 .. n : \A j \in 0 .. m - 1 :
           GetResponseValue(written[m].ctx, j) = Meant(dev, values[j + 1])
    <2> DEFINE Right(m) == \A j \in 0 .. m - 1 : GetResponseValue(written[m].ctx, j) = Meant(dev, values[j + 1])
               bad == {m \in 0 .. n : ~Right(m)}
    <2>1. SUFFICES ASSUME bad # {} PROVE FALSE
      BY DEF bad
    <2>2. bad \subseteq Nat
      OBVIOUS
    <2>3. Min(bad) \in bad /\ \A x \in bad : Min(bad) <= x
      <3> HIDE DEF bad
      <3>1. QED  BY <2>1, <2>2, LeastExists
    <2>4. PICK m \in bad : \A x \in bad : m <= x
      BY <2>3
    <2>5. m \in 0 .. n /\ ~Right(m)
      BY <2>4
    <2>6. m # 0
      BY <2>5
    <2>7. m \in 1 .. n /\ m - 1 \in 0 .. n /\ ~(m <= m - 1)
      BY <1>1, <2>5, <2>6
    <2>8. Right(m - 1)
      <3> HIDE DEF Right
      <3>1. QED  BY <2>4, <2>7
    <2>9. /\ written[m - 1] \in V
          /\ written[m] = SetWriteValue(written[m - 1].ctx, m - 1, values[m])
      BY <1>11, <1>12, <2>7
    <2>10. \A j \in 0 .. n - 1 : GetResponseValue(written[m].ctx, j)
             = IF j = m - 1 THEN Meant(dev, values[m]) ELSE GetResponseValue(written[m - 1].ctx, j)
      BY <1>5, <2>7, <2>9
    <2>11. ASSUME NEW j \in 0 .. m - 1
           PROVE  GetResponseValue(written[m].ctx, j) = Meant(dev, values[j + 1])
      <3>1. j \in 0 .. n - 1 /\ (j = m - 1 \/ j \in 0 .. (m - 1) - 1)
        BY <1>1, <2>7
      <3>2. CASE j = m - 1
        <4>1. j + 1 = m
          BY <2>7, <3>2
        <4>2. QED  BY <2>10, <3>1, <3>2, <4>1
      <3>3. CASE j # m - 1
        BY <2>8, <2>10, <3>1, <3>3
      <3>4. QED  BY <3>2, <3>3
    <2>12. QED  BY <2>5, <2>11
  <1>14. n \in 0 .. n
    BY <1>1
  <1>15. QED  BY <1>2, <1>4, <1>12, <1>13, <1>14

Command(q) == IF q.type = "get" THEN "READ" ELSE "WRITE"

LEMMA AppliedMakes ==
  ASSUME Sound(ctx), Stored(ctx), header \in Headers, NEW q \in Cmds
  PROVE  LET r == Applied(q) IN
         /\ Sound(r.ctx) /\ Stored(r.ctx) /\ r.ctx.rx \in {ctx.rx, <<>>}
         /\ r.st = "OK" =>
              /\ Fresh(r.ctx, header) /\ Asking(r.ctx, Command(q), q.device, q.address, q.count)
              /\ q \in Accepted /\ q.device \in Devices /\ q.count \in 1 .. MaxCount(q.device)
              /\ q.type = "set" => \A j \in 0 .. q.count - 1 :
                   GetResponseValue(r.ctx, j) = Meant(q.device, q.values[j + 1])
  <1> DEFINE net == SetNetworkSettings(ResetContext(ctx), [header |-> header, timer |-> "default"])
             set == SetRequest(net.ctx, Command(q), q.device, q.address, q.count)
             all == WriteValues(set.ctx, q.values)
  <1>1. /\ q.type \in {"get", "set"} /\ q.count \in Nat /\ q.values \in Seq(Words)
        /\ q.type = "set" => Len(q.values) = q.count
    BY ClientAssumption
  <1>2. Applied(q) = IF q.type = "set" /\ q.device \in ReadOnly THEN Fail("UNSUPPORTED", ctx)
                     ELSE IF set.st # "OK" \/ q.type = "get" THEN set ELSE all
    BY DEF Applied, Command
  <1>3. Fresh(net.ctx, header)
    BY ResetMakes
  <1> HIDE DEF net
  <1>4. /\ Fresh(set.ctx, header)
        /\ set.st = "OK" =>
             /\ Asking(set.ctx, Command(q), q.device, q.address, q.count)
             /\ q.count \in 1 .. MaxCount(q.device) /\ Command(q) \in Commands /\ q.device \in Devices
             /\ SetRequestStatus(Command(q), q.device, q.address, q.count) = "OK"
    BY <1>1, <1>3, SetRequestMakes
  <1> HIDE DEF set
  <1>5. ASSUME set.st = "OK" PROVE q \in Accepted
    <2>1. SetRequestStatus("READ", q.device, q.address, q.count) = "OK"
      BY <1>4, <1>5 DEF SetRequestStatus, Commands
    <2>2. QED  BY <2>1 DEF Accepted
  <1>6. ASSUME set.st = "OK", q.type = "set"
        PROVE  /\ Fresh(all.ctx, header) /\ Asking(all.ctx, "WRITE", q.device, q.address, q.count)
               /\ \A j \in 0 .. q.count - 1 :
                    GetResponseValue(all.ctx, j) = Meant(q.device, q.values[j + 1])
    <2> DEFINE c == set.ctx
               values == q.values
               dev == q.device
               a == q.address
    <2>1. /\ values \in Seq(Words) /\ Len(values) = q.count /\ Fresh(c, header)
          /\ Len(values) \in 1 .. MaxCount(dev) /\ Asking(c, "WRITE", dev, a, Len(values))
      BY <1>1, <1>4, <1>6 DEF Command
    <2> HIDE DEF c, values, dev, a
    <2>2. LET r == WriteValues(c, values) IN
          /\ Fresh(r.ctx, header) /\ Asking(r.ctx, "WRITE", dev, a, Len(values))
          /\ \A j \in 0 .. Len(values) - 1 : GetResponseValue(r.ctx, j) = Meant(dev, values[j + 1])
      BY <2>1, WrittenMakes
    <2>3. QED  BY <2>1, <2>2 DEF c, values, dev, a
  <1> HIDE DEF all
  <1>7. CASE q.type = "set" /\ q.device \in ReadOnly
    BY <1>2, <1>7 DEF Fail
  <1>8. CASE ~(q.type = "set" /\ q.device \in ReadOnly) /\ (set.st # "OK" \/ q.type = "get")
    <2>1. Applied(q) = set
      BY <1>2, <1>8
    <2>2. QED  BY <1>4, <1>5, <1>8, <2>1 DEF Fresh
  <1>9. CASE ~(q.type = "set" /\ q.device \in ReadOnly) /\ set.st = "OK" /\ q.type = "set"
    <2>1. Applied(q) = all /\ Command(q) = "WRITE"
      BY <1>2, <1>9 DEF Command
    <2>2. QED  BY <1>4, <1>5, <1>6, <1>9, <2>1 DEF Fresh
  <1>10. QED  BY <1>1, <1>7, <1>8, <1>9

LEMMA BuiltMakes ==
  ASSUME Sound(ctx), Stored(ctx), header \in Headers, NEW q \in Cmds, Applied(q).st = "OK"
  PROVE  LET r == BuildRequest(Applied(q).ctx, MaxRequestSize)
             w == Wire(r.ctx)
         IN  /\ Fresh(r.ctx, header) /\ SentRight(w) /\ Says(w, q) /\ Made(r.ctx, w)
             /\ w.settings.header = header
  <1> DEFINE c == Applied(q).ctx
             d == BuildRequest(c, MaxRequestSize).ctx
             w == Wire(d)
             k == Command(q)
  <1>1. /\ Fresh(c, header) /\ Asking(c, k, q.device, q.address, q.count)
        /\ q \in Accepted /\ q.device \in Devices /\ q.count \in 1 .. MaxCount(q.device)
        /\ q.type = "set" => \A j \in 0 .. q.count - 1 :
             GetResponseValue(c, j) = Meant(q.device, q.values[j + 1])
    BY AppliedMakes
  <1>2. q.type \in {"get", "set"} /\ q.address \in Nat
    BY ClientAssumption
  <1>3. k \in Commands
    BY <1>2 DEF Command, Commands
  <1>4. (k = "READ" <=> q.type = "get") /\ (k = "WRITE" <=> q.type = "set")
    BY <1>2 DEF Command
  <1> HIDE DEF c, k
  <1>5. /\ Fresh(d, header) /\ Asking(d, k, q.device, q.address, q.count) /\ d.values = c.values
        /\ w.serial = d.serial /\ w.settings.header = header
    BY <1>1, BuildMakes
  <1> HIDE DEF d
  <1>6. /\ w.command = k /\ w.device = q.device /\ w.address = q.address /\ w.count = q.count
    BY <1>5 DEF Wire, Asking
  <1>7. Made(d, w)
    BY <1>5, <1>6 DEF Made, Awaits, Asking
  <1>8. Asked(w)
    <2>1. d.serial \in 0 .. SerialRange - 1
      BY <1>5 DEF Fresh, Sound
    <2> HIDE DEF w
    <2>2. QED  BY <1>1, <1>3, <1>5, <1>6, <2>1 DEF Asked
  <1>9. SentRight(w)
    <2> HIDE DEF w
    <2>1. AddressesOf(w) = AddressesOf(q)
      BY <1>6 DEF AddressesOf
    <2>2. \A a \in AddressesOf(q) : <<q.device, a>> \in Cells
      BY <1>1 DEF Cells
    <2>3. QED  BY <1>2, <1>6, <1>8, <2>1, <2>2 DEF SentRight
  <1>10. ASSUME q.type = "set", NEW i \in 0 .. q.count - 1
         PROVE  ValueSent(w, i) = Meant(q.device, q.values[i + 1])
    <2>1. /\ Stored(d) /\ d.command = "WRITE" /\ d.count \in 1 .. MaxCount(d.device)
          /\ i \in 0 .. d.count - 1
      BY <1>1, <1>4, <1>5, <1>10 DEF Fresh, Asking
    <2>2. ValueSent(w, i) = GetResponseValue(d, i)
      BY <2>1, PayloadSays
    <2>3. GetResponseValue(d, i) = GetResponseValue(c, i)
      BY <1>1, <1>5 DEF GetResponseValue, Asking
    <2>4. QED  BY <1>1, <1>10, <2>2, <2>3
  <1>11. Says(w, q)
    <2> HIDE DEF w
    <2>1. QED  BY <1>6, <1>10 DEF Says, Command, k
  <1>12. QED  BY <1>5, <1>7, <1>9, <1>11 DEF d, c

\* A command fails before anything is sent, or its request is made and sent.
LEMMA StartMakes ==
  ASSUME Sound(ctx), Stored(ctx), header \in Headers, Start
  PROVE  /\ phase = "ready" /\ cmd' \in Cmds
         /\ UNCHANGED <<script, timed, header, station, inbox>>
         /\ Sound(ctx') /\ Stored(ctx') /\ ctx'.rx \in {ctx.rx, <<>>}
         /\ origin' = After(origin, Len(ctx.rx) - Len(ctx'.rx))
         /\ \/ Failed /\ UNCHANGED sent
            \/ LET w == Wire(ctx') IN
               /\ Fresh(ctx', header) /\ SentRight(w) /\ Says(w, cmd') /\ Made(ctx', w) /\ Send(w)
  <1>1. PICK q \in Cmds :
          LET applied == Applied(q)
              built   == IF applied.st = "OK" THEN BuildRequest(applied.ctx, MaxRequestSize) ELSE applied
          IN  /\ cmd' = q /\ ctx' = built.ctx
              /\ origin' = After(origin, Len(ctx.rx) - Len(built.ctx.rx))
              /\ IF built.st = "OK" THEN Send(Wire(built.ctx)) ELSE Failed /\ UNCHANGED sent
    BY DEF Start
  <1> DEFINE applied == Applied(q)
             made    == BuildRequest(applied.ctx, MaxRequestSize)
             built   == IF applied.st = "OK" THEN made ELSE applied
  <1>2. phase = "ready" /\ UNCHANGED <<script, timed, header, station, inbox>>
    BY DEF Start
  <1>3. Sound(applied.ctx) /\ Stored(applied.ctx) /\ applied.ctx.rx \in {ctx.rx, <<>>}
    BY AppliedMakes
  <1>4. ASSUME applied.st = "OK"
        PROVE  LET w == Wire(made.ctx) IN
               Fresh(made.ctx, header) /\ SentRight(w) /\ Says(w, q) /\ Made(made.ctx, w)
    BY <1>4, BuiltMakes
  <1> HIDE DEF made
  <1>5. CASE applied.st = "OK"
    <2>1. built = made /\ ctx' = made.ctx /\ cmd' = q
      BY <1>1, <1>5 DEF made
    <2>2. /\ origin' = After(origin, Len(ctx.rx) - Len(ctx'.rx))
          /\ IF made.st = "OK" THEN Send(Wire(ctx')) ELSE Failed /\ UNCHANGED sent
      BY <1>1, <1>5, <2>1 DEF made
    <2> HIDE DEF applied, built
    <2>3. Sound(ctx') /\ Stored(ctx') /\ ctx'.rx \in {ctx.rx, <<>>}
      BY <1>4, <1>5, <2>1 DEF Fresh
    <2>4. QED  BY <1>2, <1>4, <1>5, <2>1, <2>2, <2>3
  <1>6. CASE applied.st # "OK"
    <2>1. /\ ctx' = applied.ctx /\ cmd' = q /\ Failed /\ UNCHANGED sent
          /\ origin' = After(origin, Len(ctx.rx) - Len(ctx'.rx))
      BY <1>1, <1>6
    <2> HIDE DEF applied
    <2>2. QED  BY <1>2, <1>3, <2>1
  <1>7. QED  BY <1>5, <1>6

-----------------------------------------------------------------------------
(***************************************************************************)
(* Types.                                                                  *)
(***************************************************************************)

TypeInv ==
  /\ Sound(ctx) /\ Stored(ctx) /\ header \in Headers
  /\ phase \in {"ready", "receiving", "ended"}
  /\ report.res \in {"none", "fail", "plc_error", "ok"} /\ report.of \in 0 .. answered
  /\ peer \in {"serving", "silent", "closed"}
  /\ IsSeq(sent) /\ (\A i \in 1 .. Len(sent) : SentRight(sent[i])) /\ answered \in 0 .. Len(sent)
  /\ memory \in [Cells -> Words]
  /\ inbox \in Seq(Bytes) /\ origin \in Seq(0 .. answered) /\ Len(origin) = Len(ctx.rx) + Len(inbox)

\* A context with more bytes in its buffer.
Fed(c, bytes) == [c EXCEPT !.rx = @ \o bytes]

LEMMA FedMakes ==
  ASSUME NEW c, Sound(c), Stored(c), NEW bytes \in Seq(Bytes), Len(c.rx) + Len(bytes) <= IoBufSize
  PROVE  LET d == Fed(c, bytes) IN
         /\ Sound(d) /\ Stored(d) /\ d.rx = c.rx \o bytes /\ d.serial = c.serial
         /\ d.command = c.command /\ d.device = c.device /\ d.count = c.count
  <1> DEFINE rx == c.rx \o bytes
             d  == Fed(c, bytes)
  <1>1. rx \in Seq(Bytes) /\ Len(rx) <= IoBufSize
    <2>1. c.rx \in Seq(Bytes)
      BY DEF Sound
    <2>2. QED  BY <2>1, ConcatProperties
  <1>2. Whole(c) /\ d = [c EXCEPT !.rx = rx]
    BY DEF Sound, Fed, Whole, CtxFields
  <1> HIDE DEF rx, d
  <1>3. /\ Whole(d) /\ d.in_use = c.in_use /\ d.settings = c.settings /\ d.next_serial = c.next_serial
        /\ d.serial = c.serial /\ d.values = c.values /\ d.rx = rx
        /\ d.command = c.command /\ d.device = c.device /\ d.count = c.count
    BY <1>2 DEF Whole, CtxFields
  <1>4. Sound(d) /\ Stored(d)
    BY <1>1, <1>3 DEF Sound, Stored
  <1>5. QED  BY <1>3, <1>4 DEF rx, d

\* What a parse leaves is a context again, with less in its buffer.
LEMMA ParseKeeps ==
  ASSUME NEW c, Sound(c), Stored(c)
  PROVE  LET r == ParseResponse(c) IN
         /\ Sound(r.ctx) /\ Stored(r.ctx)
         /\ \E d \in 0 .. Len(c.rx) : r.ctx.rx = After(c.rx, d)
         /\ r.st \in {"OK", "RESPONSE_ERROR"} => StopAt(c.rx, c.serial) + 1 \in 1 .. Len(c.rx)
  <1> DEFINE r == ParseResponse(c)
             p == StopAt(c.rx, c.serial)
  <1>1. /\ Whole(c) /\ c.rx \in Seq(Bytes) /\ Len(c.rx) \in Nat /\ Len(c.rx) <= IoBufSize
        /\ IoBufSize \in Nat
    BY LenProperties, LayoutAssumption DEF Sound
  <1>2. /\ p \in 0 .. Len(c.rx) /\ Parsed(c, r.ctx)
        /\ r.st \in TakenStatus =>
             /\ p \in Candidates(c.rx) /\ p + FrameSize(c.rx, p) <= Len(c.rx)
             /\ FrameComplete(c.rx, p) /\ ~Mismatch(c.rx, p, c.serial)
             /\ \E d \in p + 1 .. p + FrameSize(c.rx, p) : r.ctx.rx = After(c.rx, d)
        /\ r.st \notin TakenStatus => r.ctx.rx = After(c.rx, p)
    BY <1>1, ParseParses
  <1> HIDE DEF r, p
  <1>3. r.st \in TakenStatus => p + 1 \in 1 .. Len(c.rx)
    <2>1. \A q \in Candidates(c.rx) : q \in 0 .. Len(c.rx) - 1
      BY <1>1, Places DEF Candidates
    <2>2. QED  BY <1>1, <1>2, <2>1
  <1>4. \E d \in 0 .. Len(c.rx) : r.ctx.rx = After(c.rx, d)
    <2>1. CASE r.st \in TakenStatus
      <3> DEFINE size == FrameSize(c.rx, p)
      <3>1. size \in Int
        <4>1. HeaderSize(HeaderAt(c.rx, p)) \in Int
          BY LayoutAssumption DEF HeaderSize
        <4>2. PacketSize(c.rx, p) \in 2 .. IoBufSize
          BY <1>2, <2>1 DEF Mismatch, FrameComplete, PduHeaderSize
        <4>3. QED  BY <1>1, <4>1, <4>2 DEF FrameSize
      <3>2. PICK d \in p + 1 .. p + size : r.ctx.rx = After(c.rx, d)
        BY <1>2, <2>1
      <3>3. p + size <= Len(c.rx) /\ p \in 0 .. Len(c.rx)
        BY <1>2, <2>1
      <3> HIDE DEF size
      <3>4. d \in 0 .. Len(c.rx)
        BY <1>1, <3>1, <3>2, <3>3
      <3>5. QED  BY <3>2, <3>4
    <2>2. CASE r.st \notin TakenStatus
      BY <1>2, <2>2
    <2>3. QED  BY <2>1, <2>2
  <1>5. Sound(r.ctx) /\ Stored(r.ctx)
    <2>1. PICK d \in 0 .. Len(c.rx) : r.ctx.rx = After(c.rx, d)
      BY <1>4
    <2>2. r.ctx.rx \in Seq(Bytes) /\ Len(r.ctx.rx) = Len(c.rx) - d
      BY <1>1, <2>1, AfterSeq
    <2>3. Len(r.ctx.rx) <= IoBufSize
      BY <1>1, <2>2
    <2>4. QED  BY <1>2, <2>2, <2>3 DEF Sound, Parsed
  <1>6. QED  BY <1>3, <1>4, <1>5 DEF r, p, TakenStatus

\* A turn of the receive loop refuses the n bytes it received, or takes them
\* and parses.
Refuses(n) ==
  /\ Len(ctx.rx) + n > IoBufSize /\ ctx' = ctx /\ Failed
  /\ origin' = SubSeq(origin, 1, Len(ctx.rx)) \o After(origin, Len(ctx.rx) + n)

Takes(n) ==
  LET fed == Fed(ctx, SubSeq(inbox, 1, n))
      r   == ParseResponse(fed)
  IN  /\ Len(ctx.rx) + n <= IoBufSize
      /\ ctx' = r.ctx /\ origin' = After(origin, Len(fed.rx) - Len(r.ctx.rx))
      /\ \/ r.st = "NEED_MORE" /\ UNCHANGED <<phase, report>>
         \/ /\ r.st \in {"OK", "RESPONSE_ERROR"} /\ phase' = "ready"
            /\ report' = Printed(r.ctx, origin[StopAt(fed.rx, fed.serial) + 1])
         \/ r.st \in {"RESYNC", "INVALID_COUNT"} /\ Failed

LEMMA RecvDoes ==
  ASSUME TypeInv, Recv
  PROVE  /\ phase = "receiving" /\ inbox # <<>>
         /\ UNCHANGED <<script, timed, header, cmd, station, sent>>
         /\ \E n \in 1 .. Len(inbox) : inbox' = After(inbox, n) /\ (Refuses(n) \/ Takes(n))
  <1>1. PICK n \in {k \in Pieces : k < Len(inbox)} \cup {Len(inbox)} :
          /\ inbox' = After(inbox, n)
          /\ \E fed \in {FeedResponseBytes(ctx, SubSeq(inbox, 1, n))} :
               IF fed.st # "OK"
               THEN /\ ctx' = fed.ctx
                    /\ origin' = SubSeq(origin, 1, Len(ctx.rx)) \o After(origin, Len(ctx.rx) + n)
                    /\ Failed
               ELSE \E p \in {StopAt(fed.ctx.rx, fed.ctx.serial)} : \E r \in {ParseAt(fed.ctx, p)} :
                      /\ ctx' = r.ctx
                      /\ origin' = After(origin, Len(fed.ctx.rx) - Len(r.ctx.rx))
                      /\ \/ r.st = "NEED_MORE" /\ UNCHANGED <<phase, report>>
                         \/ /\ r.st \in {"OK", "RESPONSE_ERROR"}
                            /\ phase' = "ready"
                            /\ report' = Printed(r.ctx, origin[p + 1])
                         \/ r.st \in {"RESYNC", "INVALID_COUNT"} /\ Failed
    BY DEF Recv
  <1>2. /\ phase = "receiving" /\ inbox # <<>>
        /\ UNCHANGED <<script, timed, header, cmd, station, sent>>
    BY DEF Recv
  <1>3. inbox \in Seq(Bytes) /\ Len(inbox) \in Nat \ {0} /\ Len(ctx.rx) \in Nat /\ IoBufSize \in Nat
    <2>1. inbox \in Seq(Bytes) /\ ctx.rx \in Seq(Bytes)
      BY DEF TypeInv, Sound
    <2>2. QED  BY <1>2, <2>1, EmptySeq, LenProperties, LayoutAssumption
  <1>4. n \in 1 .. Len(inbox)
    <2>1. Pieces \subseteq Nat \ {0}
      BY ClientAssumption
    <2>2. QED  BY <1>3, <2>1
  <1> DEFINE piece == SubSeq(inbox, 1, n)
             fed   == FeedResponseBytes(ctx, piece)
  <1>5. piece \in Seq(Bytes) /\ Len(piece) = n
    <2>1. n \in 0 .. Len(inbox)
      BY <1>4
    <2>2. <<>> \in Seq(Bytes)
      BY EmptySeq
    <2>3. QED  BY <1>3, <2>1, <2>2, Moved
  <1>6. CASE Len(ctx.rx) + n > IoBufSize
    <2>1. fed.st # "OK" /\ fed.ctx = ctx
      BY <1>5, <1>6 DEF FeedResponseBytes, Fail
    <2> HIDE DEF fed
    <2>2. Refuses(n)
      BY <1>1, <1>6, <2>1 DEF Refuses, fed
    <2>3. QED  BY <1>1, <1>2, <1>4, <2>2
  <1>7. CASE ~(Len(ctx.rx) + n > IoBufSize)
    <2> DEFINE given == Fed(ctx, piece)
               p     == StopAt(given.rx, given.serial)
    <2>1. fed.st = "OK" /\ fed.ctx = given
      BY <1>5, <1>7 DEF FeedResponseBytes, Ok, Fed
    <2>2. Len(ctx.rx) + n <= IoBufSize
      BY <1>3, <1>4, <1>7
    <2>3. ParseResponse(given) = ParseAt(given, p)
      BY DEF ParseResponse
    <2> HIDE DEF fed, given
    <2>4. /\ ctx' = ParseAt(given, p).ctx
          /\ origin' = After(origin, Len(given.rx) - Len(ParseAt(given, p).ctx.rx))
          /\ \/ ParseAt(given, p).st = "NEED_MORE" /\ UNCHANGED <<phase, report>>
             \/ /\ ParseAt(given, p).st \in {"OK", "RESPONSE_ERROR"}
                /\ phase' = "ready"
                /\ report' = Printed(ParseAt(given, p).ctx, origin[p + 1])
             \/ ParseAt(given, p).st \in {"RESYNC", "INVALID_COUNT"} /\ Failed
      BY <1>1, <2>1 DEF fed
    <2> DEFINE r == ParseResponse(given)
    <2>5. /\ ctx' = r.ctx
          /\ origin' = After(origin, Len(given.rx) - Len(r.ctx.rx))
          /\ \/ r.st = "NEED_MORE" /\ UNCHANGED <<phase, report>>
             \/ /\ r.st \in {"OK", "RESPONSE_ERROR"}
                /\ phase' = "ready"
                /\ report' = Printed(r.ctx, origin[p + 1])
             \/ r.st \in {"RESYNC", "INVALID_COUNT"} /\ Failed
      BY <2>3, <2>4
    <2>6. Takes(n)
      BY <2>2, <2>5 DEF Takes, given
    <2>7. QED  BY <1>1, <1>2, <1>4, <2>6
  <1>8. QED  BY <1>6, <1>7

-----------------------------------------------------------------------------
(***************************************************************************)
(* The exchange, with a station that does not answer after the client has  *)
(* timed out.                                                              *)
(***************************************************************************)

Quiet == ctx.rx = <<>> /\ inbox = <<>>

Last == sent[Len(sent)]

\* The values a command typed are in the cells it names.
Kept(q) ==
  \A i \in 0 .. q.count - 1 : memory[<<q.device, q.address + i>>] = Meant(q.device, q.values[i + 1])

\* The numbers in the answer to request w with this code.
Numbers(w, code) == IF code = 0 /\ w.command = "READ" THEN ReadCells(memory, w) ELSE <<>>

\* The answer to the last request is on its way, and nothing else is.
OnItsWay ==
  /\ answered = Len(sent) /\ inbox # <<>>
  /\ \E code \in Codes :
       LET bytes == Response(Last, code, Numbers(Last, code)) IN
       /\ ctx.rx \o inbox = bytes /\ origin = Tagged(bytes, answered)
       /\ code = 0 /\ cmd.type = "set" => Kept(cmd)

\* Nothing comes any more.
Broken == peer = "closed" /\ inbox = <<>>

\* Between two commands nothing is under way, and while one waits there is
\* nothing but the answer to its own request.
Orderly ==
  /\ phase # "receiving" => Quiet /\ (peer = "serving" => answered = Len(sent))
  /\ phase = "receiving" /\ (peer = "serving" \/ ~Quiet) =>
       /\ Len(sent) > 0 /\ cmd \in Cmds /\ Says(Last, cmd) /\ Made(ctx, Last)
       /\ IF Quiet THEN answered = Len(sent) - 1 ELSE OnItsWay

\* A connection that broke may leave a part of an answer in the buffer for good.
Exchange ==
  /\ phase = "receiving" => report.res = "none"
  /\ Broken \/ Orderly

\* A coil holds "on" or "off".
Coils == \A x \in Cells : IsBitDevice(x[1]) => memory[x] \in {{}, BitTrue}

IInv == TypeInv /\ Exchange /\ Coils /\ PrintsOwnAnswer /\ PrintsWhatIsHeld

LEMMA InitTypes == Init => TypeInv /\ ctx.rx = <<>>
  <1> SUFFICES ASSUME Init PROVE TypeInv /\ ctx.rx = <<>>
    OBVIOUS
  <1>1. Sound(ctx)
    BY InitSound DEF Init
  <1>2. Stored(ctx) /\ ctx.rx = <<>>
    <2> DEFINE z == ZeroContext
               y == ResetContext(z)
    <2>1. Whole(z) /\ z.values = [k \in Slots |-> {}]
      BY DEF ZeroContext, Whole, CtxFields
    <2> HIDE DEF z
    <2>2. y = [z EXCEPT !.settings = DefaultSettings, !.next_serial = 0, !.serial = 0, !.device = "D",
                        !.command = "READ", !.address = 0, !.count = 0, !.code = 0, !.rx = <<>>]
      BY DEF ResetContext
    <2> HIDE DEF y
    <2>3. Whole(y) /\ y.values = z.values /\ y.rx = <<>>
      BY <2>1, <2>2 DEF Whole, CtxFields
    <2>4. ctx = [y EXCEPT !.in_use = TRUE]
      BY DEF Init, y, z
    <2>5. ctx.values = z.values /\ ctx.rx = <<>>
      BY <2>3, <2>4 DEF Whole, CtxFields
    <2>6. QED  BY <2>1, <2>5 DEF Stored, Words
  <1>3. /\ header \in Headers /\ phase = "ready" /\ report.res = "none" /\ report.of = 0
        /\ peer = "serving" /\ sent = <<>> /\ answered = 0 /\ inbox = <<>> /\ origin = <<>>
        /\ memory = [x \in Cells |-> {}]
    BY DEF Init, Nothing, Headers
  <1>4. /\ Len(<<>>) = 0 /\ \A S : <<>> \in Seq(S)
    BY EmptySeq
  <1>5. IsSeq(sent) /\ Len(sent) = 0
    BY <1>3, <1>4 DEF IsSeq
  <1>6. memory \in [Cells -> Words]
    BY <1>3 DEF Words
  <1>7. Len(ctx.rx) = 0 /\ Len(inbox) = 0 /\ Len(origin) = 0
    BY <1>2, <1>3, <1>4
  <1>8. QED  BY <1>1, <1>2, <1>3, <1>4, <1>5, <1>6, <1>7 DEF TypeInv

\* What a command that fails reports is well formed.
LEMMA FailedTypes ==
  ASSUME Failed
  PROVE  report'.res = "fail" /\ report'.of = 0 /\ phase' \in {"ready", "ended"}
  BY DEF Failed, Nothing

LEMMA StartTypes ==
  ASSUME TypeInv, Start
  PROVE  TypeInv'
  <1>1. /\ phase = "ready" /\ UNCHANGED <<script, timed, header, station, inbox>>
        /\ Sound(ctx') /\ Stored(ctx') /\ ctx'.rx \in {ctx.rx, <<>>}
        /\ origin' = After(origin, Len(ctx.rx) - Len(ctx'.rx))
        /\ \/ Failed /\ UNCHANGED sent
           \/ SentRight(Wire(ctx')) /\ Send(Wire(ctx'))
    BY StartMakes DEF TypeInv
  <1>2. /\ ctx.rx \in Seq(Bytes) /\ inbox \in Seq(Bytes) /\ origin \in Seq(0 .. answered)
        /\ Len(origin) = Len(ctx.rx) + Len(inbox)
    BY DEF TypeInv, Sound
  <1>3. Len(ctx.rx) \in Nat /\ Len(inbox) \in Nat /\ Len(<<>>) = 0
    BY <1>2, LenProperties
  <1>4. origin' \in Seq(0 .. answered) /\ Len(origin') = Len(ctx'.rx) + Len(inbox)
    <2> DEFINE a == Len(ctx.rx)
               b == Len(ctx'.rx)
               c == Len(inbox)
               d == a - b
    <2>1. a \in Nat /\ c \in Nat /\ b \in {a, 0} /\ Len(origin) = a + c
      <3>1. ctx'.rx = ctx.rx \/ ctx'.rx = <<>>
        BY <1>1
      <3>2. QED  BY <1>2, <1>3, <3>1
    <2>2. origin' = After(origin, d)
      BY <1>1
    <2> HIDE DEF a, b, c
    <2>3. d \in 0 .. Len(origin) /\ d = a - b /\ b \in Nat
      BY <2>1
    <2> HIDE DEF d
    <2>4. origin' \in Seq(0 .. answered) /\ Len(origin') = Len(origin) - d
      BY <1>2, <2>2, <2>3, AfterSeq
    <2>5. Len(origin') = b + c
      BY <2>1, <2>3, <2>4
    <2>6. QED  BY <2>4, <2>5 DEF b, c
  <1>5. /\ report'.res \in {"none", "fail"} /\ report'.of = 0
        /\ phase' \in {"ready", "receiving", "ended"}
        /\ \/ UNCHANGED sent
           \/ SentRight(Wire(ctx')) /\ sent' = Append(sent, Wire(ctx'))
    <2>1. ASSUME Failed
          PROVE  report'.res = "fail" /\ report'.of = 0 /\ phase' \in {"ready", "ended"}
      BY <2>1, FailedTypes
    <2>2. ASSUME report' = Nothing PROVE report'.res = "none" /\ report'.of = 0
      BY <2>2 DEF Nothing
    <2>3. QED  BY <1>1, <2>1, <2>2 DEF Send, SendIntoClosed
  <1>6. IsSeq(sent') /\ (\A i \in 1 .. Len(sent') : SentRight(sent'[i])) /\ answered \in 0 .. Len(sent')
    <2>1. IsSeq(sent) /\ (\A i \in 1 .. Len(sent) : SentRight(sent[i])) /\ answered \in 0 .. Len(sent)
      BY DEF TypeInv
    <2>2. ASSUME SentRight(Wire(ctx')), sent' = Append(sent, Wire(ctx'))
          PROVE  IsSeq(sent') /\ (\A i \in 1 .. Len(sent') : SentRight(sent'[i])) /\ answered \in 0 .. Len(sent')
      <3> DEFINE w == Wire(ctx')
      <3>1. /\ IsSeq(Append(sent, w)) /\ Len(sent) \in Nat /\ Len(Append(sent, w)) = Len(sent) + 1
            /\ \A i \in 1 .. Len(sent) : Append(sent, w)[i] = sent[i]
            /\ Append(sent, w)[Len(sent) + 1] = w
        BY <2>1, AppendTo
      <3>2. sent' = Append(sent, w) /\ SentRight(w)
        BY <2>2
      <3> HIDE DEF w
      <3>3. ASSUME NEW i \in 1 .. Len(sent') PROVE SentRight(sent'[i])
        <4>1. i \in 1 .. Len(sent) \/ i = Len(sent) + 1
          BY <3>1, <3>2
        <4>2. QED  BY <2>1, <3>1, <3>2, <4>1
      <3>4. QED  BY <2>1, <3>1, <3>2, <3>3
    <2>3. QED  BY <1>5, <2>1, <2>2
  <1>7. /\ header' = header /\ peer' = peer /\ memory' = memory /\ answered' = answered /\ inbox' = inbox
    BY <1>1 DEF station
  <1>8. /\ header \in Headers /\ peer \in {"serving", "silent", "closed"} /\ memory \in [Cells -> Words]
        /\ answered \in Nat
    <2>1. IsSeq(sent) /\ answered \in 0 .. Len(sent)
      BY DEF TypeInv
    <2>2. QED  BY <2>1 DEF TypeInv
  <1>9. report'.of \in 0 .. answered'
    BY <1>5, <1>7, <1>8
  <1>10. QED  BY <1>1, <1>2, <1>4, <1>5, <1>6, <1>7, <1>8, <1>9 DEF TypeInv

LEMMA RecvTypes ==
  ASSUME TypeInv, Recv
  PROVE  TypeInv'
  <1>1. UNCHANGED <<script, timed, header, cmd, station, sent>>
    BY RecvDoes
  <1>2. PICK n \in 1 .. Len(inbox) : inbox' = After(inbox, n) /\ (Refuses(n) \/ Takes(n))
    BY RecvDoes
  <1>3. /\ Sound(ctx) /\ Stored(ctx) /\ ctx.rx \in Seq(Bytes) /\ inbox \in Seq(Bytes)
        /\ origin \in Seq(0 .. answered) /\ Len(origin) = Len(ctx.rx) + Len(inbox)
        /\ phase \in {"ready", "receiving", "ended"}
        /\ report.res \in {"none", "fail", "plc_error", "ok"} /\ report.of \in 0 .. answered
    BY DEF TypeInv, Sound
  <1>4. Len(ctx.rx) \in Nat /\ Len(inbox) \in Nat /\ n \in Nat /\ n <= Len(inbox)
    BY <1>3, LenProperties
  <1>5. inbox' \in Seq(Bytes) /\ Len(inbox') = Len(inbox) - n
    <2>1. n \in 0 .. Len(inbox)
      BY <1>4
    <2>2. QED  BY <1>2, <1>3, <2>1, AfterSeq
  <1>6. answered \in Nat
    <2>1. IsSeq(sent) /\ answered \in 0 .. Len(sent)
      BY DEF TypeInv
    <2>2. QED  BY <2>1
  <1>7. /\ Sound(ctx') /\ Stored(ctx') /\ phase' \in {"ready", "receiving", "ended"}
        /\ report'.res \in {"none", "fail", "plc_error", "ok"} /\ report'.of \in 0 .. answered
        /\ origin' \in Seq(0 .. answered) /\ Len(origin') = Len(ctx'.rx) + Len(inbox')
    <2>1. CASE Refuses(n)
      <3>1. ctx' = ctx /\ report'.res = "fail" /\ report'.of = 0 /\ phase' \in {"ready", "ended"}
        BY <2>1, FailedTypes DEF Refuses
      <3> DEFINE k == Len(ctx.rx)
      <3>2. origin' = SubSeq(origin, 1, k) \o After(origin, k + n) /\ k \in 0 .. Len(origin)
            /\ k + n \in 0 .. Len(origin)
        BY <1>3, <1>4, <2>1 DEF Refuses
      <3>3. /\ SubSeq(origin, 1, k) \in Seq(0 .. answered) /\ Len(SubSeq(origin, 1, k)) = k
            /\ After(origin, k + n) \in Seq(0 .. answered)
            /\ Len(After(origin, k + n)) = Len(origin) - (k + n)
        <4> HIDE DEF k
        <4>1. <<>> \in Seq(0 .. answered) /\ origin \in Seq(0 .. answered)
          BY <1>3, EmptySeq
        <4>2. SubSeq(origin, 1, k) \in Seq(0 .. answered) /\ Len(SubSeq(origin, 1, k)) = k
          BY <3>2, <4>1, Moved
        <4>3. /\ After(origin, k + n) \in Seq(0 .. answered)
              /\ Len(After(origin, k + n)) = Len(origin) - (k + n)
          BY <3>2, <4>1, AfterSeq
        <4>4. QED  BY <4>2, <4>3
      <3>4. origin' \in Seq(0 .. answered) /\ Len(origin') = k + (Len(origin) - (k + n))
        <4> DEFINE x == SubSeq(origin, 1, k)
                   y == After(origin, k + n)
        <4>1. /\ x \in Seq(0 .. answered) /\ y \in Seq(0 .. answered) /\ origin' = x \o y
              /\ Len(x) = k /\ Len(y) = Len(origin) - (k + n)
          BY <3>2, <3>3
        <4> HIDE DEF x, y, k
        <4>2. QED  BY <4>1, ConcatProperties
      <3>5. QED  BY <1>3, <1>4, <1>5, <1>6, <3>1, <3>4
    <2>2. CASE Takes(n)
      <3> DEFINE piece == SubSeq(inbox, 1, n)
                 fed   == Fed(ctx, piece)
                 r     == ParseResponse(fed)
                 p     == StopAt(fed.rx, fed.serial)
      <3>1. piece \in Seq(Bytes) /\ Len(piece) = n
        <4>1. n \in 0 .. Len(inbox) /\ <<>> \in Seq(Bytes)
          BY <1>4, EmptySeq
        <4>2. QED  BY <1>3, <4>1, Moved
      <3>2. /\ Len(ctx.rx) + n <= IoBufSize
            /\ ctx' = r.ctx /\ origin' = After(origin, Len(fed.rx) - Len(r.ctx.rx))
            /\ \/ r.st = "NEED_MORE" /\ UNCHANGED <<phase, report>>
               \/ /\ r.st \in {"OK", "RESPONSE_ERROR"} /\ phase' = "ready"
                  /\ report' = Printed(r.ctx, origin[p + 1])
               \/ r.st \in {"RESYNC", "INVALID_COUNT"} /\ Failed
        BY <2>2 DEF Takes
      <3> HIDE DEF piece
      <3>3. /\ Sound(fed) /\ Stored(fed) /\ fed.rx = ctx.rx \o piece
        BY <1>3, <3>1, <3>2, FedMakes
      <3> HIDE DEF fed
      <3>4. fed.rx \in Seq(Bytes) /\ Len(fed.rx) = Len(ctx.rx) + n
        BY <1>3, <3>1, <3>3, ConcatProperties
      <3>5. /\ Sound(r.ctx) /\ Stored(r.ctx)
            /\ \E d \in 0 .. Len(fed.rx) : r.ctx.rx = After(fed.rx, d)
            /\ r.st \in {"OK", "RESPONSE_ERROR"} => p + 1 \in 1 .. Len(fed.rx)
        BY <3>3, ParseKeeps
      <3> HIDE DEF r, p
      <3>6. PICK d \in 0 .. Len(fed.rx) : r.ctx.rx = After(fed.rx, d)
        BY <3>5
      <3>7. Len(r.ctx.rx) = Len(fed.rx) - d
        BY <3>4, <3>6, AfterSeq
      <3>8. origin' = After(origin, d) /\ d \in 0 .. Len(origin)
        BY <1>3, <1>4, <3>2, <3>4, <3>7
      <3>9. origin' \in Seq(0 .. answered) /\ Len(origin') = Len(origin) - d
        BY <1>3, <3>8, AfterSeq
      <3>10. Len(origin') = Len(ctx'.rx) + Len(inbox')
        <4>1. Len(ctx'.rx) = Len(ctx.rx) + n - d
          BY <3>2, <3>4, <3>7
        <4>2. Len(origin') = Len(ctx.rx) + Len(inbox) - d /\ Len(inbox') = Len(inbox) - n
          BY <1>3, <1>5, <3>9
        <4>3. d \in Nat
          BY <3>8
        <4>4. QED  BY <1>4, <4>1, <4>2, <4>3
      <3>11. /\ phase' \in {"ready", "receiving", "ended"}
             /\ report'.res \in {"none", "fail", "plc_error", "ok"} /\ report'.of \in 0 .. answered
        <4>1. CASE UNCHANGED <<phase, report>>
          BY <1>3, <4>1
        <4>2. CASE /\ r.st \in {"OK", "RESPONSE_ERROR"} /\ phase' = "ready"
                   /\ report' = Printed(r.ctx, origin[p + 1])
          <5>1. p + 1 \in 1 .. Len(origin)
            BY <1>3, <1>4, <3>4, <3>5, <4>2
          <5>2. origin[p + 1] \in 0 .. answered
            BY <1>3, <5>1, ElementOfSeq
          <5>3. report'.res \in {"ok", "plc_error"} /\ report'.of = origin[p + 1]
            BY <4>2 DEF Printed
          <5>4. QED  BY <4>2, <5>2, <5>3
        <4>3. CASE Failed
          BY <1>6, <4>3, FailedTypes
        <4>4. QED  BY <3>2, <4>1, <4>2, <4>3
      <3>12. QED  BY <3>2, <3>5, <3>9, <3>10, <3>11
    <2>3. QED  BY <1>2, <2>1, <2>2
  <1>8. /\ header' = header /\ peer' = peer /\ memory' = memory /\ answered' = answered /\ sent' = sent
    BY <1>1 DEF station
  <1>9. QED  BY <1>5, <1>7, <1>8 DEF TypeInv

\* What the station answers is what the parser is made to read.
LEMMA StationAnswers ==
  ASSUME memory \in [Cells -> Words], NEW w, SentRight(w), NEW code \in Codes
  PROVE  /\ code \in Bytes /\ Asked(w) /\ Answers(w, code, Numbers(w, code)) /\ Numbered(w, Numbers(w, code))
         /\ Framed(Response(w, code, Numbers(w, code)))
         /\ ~Mismatch(Response(w, code, Numbers(w, code)), 0, w.serial)
         /\ Len(Response(w, code, Numbers(w, code))) <= IoBufSize
  <1> DEFINE vals  == Numbers(w, code)
             bytes == Response(w, code, vals)
  <1>1. code \in Bytes
    BY ClientAssumption DEF Bytes
  <1>2. Asked(w) /\ w.address \in Nat /\ \A a \in AddressesOf(w) : <<w.device, a>> \in Cells
    BY DEF SentRight
  <1>3. w.count \in 1 .. MaxCount(w.device) /\ MaxCount(w.device) \in Nat /\ w.count \in Nat
    <2>1. MaxCount(w.device) \in Nat
      BY CountsAreNat
    <2>2. QED  BY <1>2, <2>1 DEF Asked
  <1>4. Answers(w, code, vals)
    <2>1. CASE code = 0 /\ w.command = "READ"
      <3> DEFINE V == IF IsBitDevice(w.device) THEN {0, 1} ELSE Numbers16
                 v(i) == memory[<<w.device, w.address + i - 1>>]
                 x(i) == IF IsBitDevice(w.device) THEN (IF v(i) = {} THEN 0 ELSE 1) ELSE NumberOf(v(i))
      <3>1. vals = [i \in 1 .. w.count |-> x(i)]
        BY <2>1 DEF Numbers, ReadCells
      <3>2. ASSUME NEW i \in 1 .. w.count PROVE x(i) \in V
        <4>1. w.address + i - 1 \in AddressesOf(w)
          BY <1>2, <1>3 DEF AddressesOf
        <4>2. v(i) \in Words
          BY <1>2, <4>1
        <4>3. NumberOf(v(i)) \in Numbers16
          BY <4>2, NumberFits
        <4>4. QED  BY <4>3
      <3> HIDE DEF x, vals, V
      <3>3. vals \in [1 .. w.count -> V]
        BY <3>1, <3>2
      <3>4. vals \in Seq(V) /\ Len(vals) = w.count
        BY <1>3, <3>3, FunctionIsSeq
      <3>5. V \subseteq Numbers16
        <4>1. {0, 1} \subseteq Numbers16
          BY DEF Numbers16, Uint16Range
        <4>2. QED  BY <4>1 DEF V
      <3>6. vals \in Seq(Numbers16)
        BY <3>4, <3>5, SeqMonotonic
      <3>7. IsBitDevice(w.device) => vals \in Seq({0, 1})
        BY <3>4 DEF V
      <3>8. Len(vals) <= MaxCount(w.device)
        BY <1>3, <3>4
      <3>9. QED  BY <2>1, <3>4, <3>6, <3>7, <3>8 DEF Answers, Numbered
    <2>2. CASE ~(code = 0 /\ w.command = "READ")
      <3>1. vals = <<>>
        BY <2>2 DEF Numbers
      <3>2. /\ <<>> \in Seq(Numbers16) /\ <<>> \in Seq({0, 1}) /\ Len(<<>>) = 0
        BY EmptySeq
      <3>3. Len(<<>>) <= MaxCount(w.device)
        BY <1>3, <3>2
      <3> HIDE DEF vals
      <3>4. QED  BY <2>2, <3>1, <3>2, <3>3 DEF Answers, Numbered
    <2>3. QED  BY <2>1, <2>2
  <1> HIDE DEF vals
  <1>5. Numbered(w, vals)
    BY <1>4 DEF Answers
  <1>6. /\ bytes \in Seq(Bytes) /\ Len(bytes) = HeaderSize(w.settings.header) + 2 + Len(Body(w, code, vals))
        /\ HeaderAt(bytes, 0) = w.settings.header
        /\ FrameSize(bytes, 0) = Len(bytes) /\ FrameComplete(bytes, 0)
        /\ ~Mismatch(bytes, 0, w.serial)
    BY <1>1, <1>2, <1>5, ResponseFacts
  <1>7. Len(bytes) <= IoBufSize
    BY <1>1, <1>2, <1>5, ResponseFits
  <1>8. 2 <= Len(bytes)
    <2>1. Len(Body(w, code, vals)) \in Nat
      BY <1>1, <1>2, <1>5, BodyFacts
    <2>2. HeaderSize(w.settings.header) \in Nat
      BY LayoutAssumption DEF HeaderSize
    <2>3. QED  BY <1>6, <2>1, <2>2
  <1>9. HeaderAt(bytes, 0) # "none"
    BY <1>2, <1>6 DEF Asked, Headers
  <1>10. Framed(bytes)
    BY <1>6, <1>8, <1>9 DEF Framed
  <1>11. QED  BY <1>1, <1>2, <1>4, <1>5, <1>6, <1>7, <1>10 DEF vals

\* One answer: to the next request, at the end of what waits for the client.
LEMMA AnswerDoes ==
  ASSUME TypeInv, Answer
  PROVE  LET w == sent[answered + 1] IN
         /\ peer = "serving" /\ answered \in Nat /\ answered + 1 \in 1 .. Len(sent) /\ answered' = answered + 1
         /\ UNCHANGED <<client, sent, peer>>
         /\ SentRight(w)
         /\ \E code \in Codes :
              LET bytes == Response(w, code, Numbers(w, code)) IN
              /\ inbox' = inbox \o bytes /\ origin' = origin \o Tagged(bytes, answered')
              /\ memory' = IF code = 0 /\ w.command = "WRITE" THEN WriteCells(memory, w) ELSE memory
  <1> DEFINE w == sent[answered + 1]
  <1>1. /\ peer = "serving" /\ answered < Len(sent) /\ answered' = answered + 1
        /\ UNCHANGED <<client, sent, peer>>
    BY DEF Answer
  <1>2. answered \in 0 .. Len(sent) /\ Len(sent) \in Nat /\ \A i \in 1 .. Len(sent) : SentRight(sent[i])
    <2>1. sent \in Seq({sent[i] : i \in 1 .. Len(sent)})
      BY DEF TypeInv, IsSeq
    <2>2. Len(sent) \in Nat
      BY <2>1, LenProperties
    <2>3. QED  BY <2>2 DEF TypeInv
  <1>3. answered \in Nat /\ answered + 1 \in 1 .. Len(sent)
    BY <1>1, <1>2
  <1>4. PICK code \in Codes :
          LET done  == code = 0
              bytes == Response(w, code, IF done /\ w.command = "READ" THEN ReadCells(memory, w) ELSE <<>>)
          IN  /\ memory' = IF done /\ w.command = "WRITE" THEN WriteCells(memory, w) ELSE memory
              /\ inbox' = inbox \o bytes
              /\ origin' = origin \o [k \in 1 .. Len(bytes) |-> IF k = 1 THEN answered' ELSE 0]
    BY DEF Answer
  <1> HIDE DEF w
  <1>5. LET bytes == Response(w, code, Numbers(w, code)) IN
        /\ inbox' = inbox \o bytes /\ origin' = origin \o Tagged(bytes, answered')
        /\ memory' = IF code = 0 /\ w.command = "WRITE" THEN WriteCells(memory, w) ELSE memory
    BY <1>4 DEF Numbers, Tagged
  <1>6. SentRight(w)
    BY <1>2, <1>3 DEF w
  <1>7. QED  BY <1>1, <1>3, <1>5, <1>6 DEF w

LEMMA TaggedIs ==
  ASSUME NEW bytes, Framed(bytes), NEW i \in Nat
  PROVE  /\ Tagged(bytes, i) \in Seq(0 .. i) /\ Len(Tagged(bytes, i)) = Len(bytes)
         /\ Tagged(bytes, i)[1] = i
  <1>1. Len(bytes) \in Nat /\ 2 <= Len(bytes)
    BY LenProperties DEF Framed
  <1>2. Tagged(bytes, i) \in [1 .. Len(bytes) -> 0 .. i]
    BY DEF Tagged
  <1>3. Tagged(bytes, i)[1] = i
    BY <1>1 DEF Tagged
  <1>4. QED  BY <1>1, <1>2, <1>3, FunctionIsSeq

LEMMA WriteCellsTypes ==
  ASSUME NEW m \in [Cells -> Words], NEW w
  PROVE  WriteCells(m, w) \in [Cells -> Words]
  <1>1. BitTrue \in Words /\ {} \in Words /\ \A n : WordOf(n) \in Words
    BY DEF BitTrue, Words, BitsPerWord, WordOf
  <1>2. ASSUME NEW x \in Cells
        PROVE  (IF x[1] = w.device /\ x[2] \in w.address .. w.address + w.count - 1
                THEN IF IsBitDevice(w.device)
                     THEN (IF CoilIn(w.payload, x[2] - w.address) = 1 THEN BitTrue ELSE {})
                     ELSE WordOf(RegisterIn(w.payload, x[2] - w.address))
                ELSE m[x]) \in Words
    BY <1>1
  <1>3. QED  BY <1>2 DEF WriteCells

LEMMA AnswerTypes ==
  ASSUME TypeInv, Answer
  PROVE  TypeInv'
  <1> DEFINE w == sent[answered + 1]
  <1>1. /\ answered \in Nat /\ answered + 1 \in 1 .. Len(sent) /\ answered' = answered + 1
        /\ UNCHANGED <<client, sent, peer>> /\ SentRight(w)
    BY AnswerDoes
  <1>2. PICK code \in Codes :
          LET bytes == Response(w, code, Numbers(w, code)) IN
          /\ inbox' = inbox \o bytes /\ origin' = origin \o Tagged(bytes, answered')
          /\ memory' = IF code = 0 /\ w.command = "WRITE" THEN WriteCells(memory, w) ELSE memory
    BY AnswerDoes
  <1> HIDE DEF w
  <1> DEFINE bytes == Response(w, code, Numbers(w, code))
             tags  == Tagged(bytes, answered + 1)
  <1>3. /\ memory \in [Cells -> Words] /\ inbox \in Seq(Bytes) /\ origin \in Seq(0 .. answered)
        /\ Len(origin) = Len(ctx.rx) + Len(inbox) /\ ctx.rx \in Seq(Bytes)
        /\ report.of \in 0 .. answered
    BY DEF TypeInv, Sound
  <1>4. Framed(bytes)
    BY <1>1, <1>3, StationAnswers
  <1>5. inbox' = inbox \o bytes /\ origin' = origin \o tags
    BY <1>1, <1>2
  <1> HIDE DEF bytes
  <1>6. /\ bytes \in Seq(Bytes) /\ tags \in Seq(0 .. answered + 1) /\ Len(tags) = Len(bytes)
    <2>1. answered + 1 \in Nat
      BY <1>1
    <2>2. QED  BY <1>4, <2>1, TaggedIs DEF Framed
  <1> HIDE DEF tags
  <1>7. origin \in Seq(0 .. answered + 1)
    <2>1. 0 .. answered \subseteq 0 .. answered + 1
      BY <1>1
    <2>2. QED  BY <1>3, <2>1, SeqMonotonic
  <1>8. /\ inbox' \in Seq(Bytes) /\ Len(inbox') = Len(inbox) + Len(bytes)
        /\ origin' \in Seq(0 .. answered') /\ Len(origin') = Len(origin) + Len(tags)
    BY <1>1, <1>3, <1>5, <1>6, <1>7, ConcatProperties
  <1>9. Len(origin') = Len(ctx.rx) + Len(inbox')
    <2>1. Len(ctx.rx) \in Nat /\ Len(inbox) \in Nat /\ Len(bytes) \in Nat
      BY <1>3, <1>6, LenProperties
    <2> DEFINE a == Len(ctx.rx)
               b == Len(inbox)
               c == Len(bytes)
    <2>2. Len(origin') = (a + b) + c /\ Len(inbox') = b + c
      BY <1>3, <1>6, <1>8
    <2>3. a \in Nat /\ b \in Nat /\ c \in Nat
      BY <2>1
    <2> HIDE DEF a, b, c
    <2>4. (a + b) + c = a + (b + c)
      BY <2>3
    <2>5. QED  BY <2>2, <2>4 DEF a
  <1>10. memory' \in [Cells -> Words]
    BY <1>2, <1>3, WriteCellsTypes
  <1>11. report.of \in 0 .. answered' /\ answered' \in 0 .. Len(sent)
    BY <1>1, <1>3
  <1>12. ctx' = ctx /\ header' = header /\ phase' = phase /\ report' = report /\ sent' = sent /\ peer' = peer
    BY <1>1 DEF client
  <1>13. QED  BY <1>8, <1>9, <1>10, <1>11, <1>12 DEF TypeInv

LEMMA TypeStep == TypeInv /\ [Next]_vars => TypeInv'
  <1> SUFFICES ASSUME TypeInv, [Next]_vars PROVE TypeInv'
    OBVIOUS
  <1>1. answered \in Nat
    <2>1. answered \in 0 .. Len(sent)
      BY DEF TypeInv
    <2>2. QED  BY <2>1
  <1>2. CASE UNCHANGED vars
    BY <1>2 DEF vars, client, station, TypeInv
  <1>3. CASE HeaderCommand
    <2>1. header' \in Headers
      BY <1>3, ClientAssumption DEF HeaderCommand
    <2>2. QED  BY <1>3, <2>1 DEF HeaderCommand, station, TypeInv
  <1>4. CASE Quit
    BY <1>4 DEF Quit, station, TypeInv
  <1>5. CASE Start
    BY <1>5, StartTypes
  <1>6. CASE Recv
    BY <1>6, RecvTypes
  <1>7. CASE Timeout \/ Closed
    <2>1. /\ Failed /\ UNCHANGED <<script, timed, ctx, header, cmd, station, sent, inbox, origin>>
      BY <1>7 DEF Timeout, Closed
    <2>2. report'.res = "fail" /\ report'.of = 0 /\ phase' \in {"ready", "ended"}
      BY <2>1, FailedTypes
    <2>3. QED  BY <1>1, <2>1, <2>2 DEF station, TypeInv
  <1>8. CASE Answer
    BY <1>8, AnswerTypes
  <1>9. CASE Stop
    BY <1>9 DEF Stop, client, TypeInv
  <1>10. CASE Break
    <2>1. /\ inbox' = <<>> /\ origin' = SubSeq(origin, 1, Len(ctx.rx)) /\ peer' = "closed"
          /\ UNCHANGED <<client, sent, memory, answered>>
      BY <1>10 DEF Break
    <2>2. /\ origin \in Seq(0 .. answered) /\ Len(origin) = Len(ctx.rx) + Len(inbox)
          /\ ctx.rx \in Seq(Bytes) /\ inbox \in Seq(Bytes)
      BY DEF TypeInv, Sound
    <2>3. Len(ctx.rx) \in 0 .. Len(origin) /\ Len(<<>>) = 0 /\ Len(ctx.rx) \in Nat
      BY <2>2, LenProperties
    <2>4. origin' \in Seq(0 .. answered) /\ Len(origin') = Len(ctx.rx)
      <3> DEFINE k == Len(ctx.rx)
      <3>1. k \in 0 .. Len(origin) /\ origin \in Seq(0 .. answered) /\ origin' = SubSeq(origin, 1, k)
        BY <2>1, <2>2, <2>3
      <3> HIDE DEF k
      <3>2. <<>> \in Seq(0 .. answered)
        BY EmptySeq
      <3>3. SubSeq(origin, 1, k) \in Seq(0 .. answered) /\ Len(SubSeq(origin, 1, k)) = k
        BY <3>1, <3>2, Moved
      <3>4. QED  BY <3>1, <3>3 DEF k
    <2>5. inbox' \in Seq(Bytes) /\ Len(origin') = Len(ctx.rx) + Len(inbox')
      BY <2>1, <2>3, <2>4, EmptySeq
    <2>6. QED  BY <2>1, <2>4, <2>5 DEF client, TypeInv
  <1>11. QED  BY <1>2, <1>3, <1>4, <1>5, <1>6, <1>7, <1>8, <1>9, <1>10 DEF Next, Receive

\* The state of a session keeps its shape: the context stays acquired and its
\* buffer within FX5_IO_BUF_SIZE, no answer comes before its request, and the
\* buffer and the socket hold what the station sent and nothing else.
THEOREM ClientTypeCorrect == Spec => []TypeOK
  <1>1. TypeInv => TypeOK
    BY DEF TypeInv, TypeOK, Sound
  <1>2. QED  BY <1>1, InitTypes, TypeStep, PTL DEF Spec

-----------------------------------------------------------------------------
(***************************************************************************)
(* Steps of the exchange.                                                  *)
(***************************************************************************)

\* The last request was made by the command being executed.
Underway == Len(sent) > 0 /\ cmd \in Cmds /\ Says(Last, cmd) /\ Made(ctx, Last)

LEMMA LastIs ==
  ASSUME TypeInv
  PROVE  /\ Len(sent) \in Nat /\ IsSeq(sent) /\ answered \in 0 .. Len(sent)
         /\ Len(sent) > 0 => SentRight(Last)
  <1>1. IsSeq(sent) /\ (\A i \in 1 .. Len(sent) : SentRight(sent[i])) /\ answered \in 0 .. Len(sent)
    BY DEF TypeInv
  <1>2. Len(sent) \in Nat
    BY <1>1, LenProperties DEF IsSeq
  <1>3. QED  BY <1>1, <1>2 DEF Last

LEMMA StartExchanges ==
  ASSUME TypeInv, Exchange, Start
  PROVE  Exchange' /\ report'.res \in {"none", "fail"} /\ memory' = memory
  <1>1. /\ phase = "ready" /\ cmd' \in Cmds /\ UNCHANGED <<station, inbox>>
        /\ ctx'.rx \in {ctx.rx, <<>>}
        /\ \/ Failed /\ UNCHANGED sent
           \/ Says(Wire(ctx'), cmd') /\ Made(ctx', Wire(ctx')) /\ Send(Wire(ctx'))
    BY StartMakes DEF TypeInv
  <1>2. peer' = peer /\ answered' = answered /\ inbox' = inbox /\ memory' = memory
    BY <1>1 DEF station
  <1>3. Broken \/ (ctx.rx = <<>> /\ inbox = <<>> /\ (peer = "serving" => answered = Len(sent)))
    BY <1>1 DEF Exchange, Orderly, Quiet
  <1>4. (Broken => Broken') /\ (~Broken => Quiet')
    BY <1>1, <1>2, <1>3 DEF Broken, Quiet
  <1>5. CASE Failed /\ UNCHANGED sent
    <2>1. report'.res = "fail" /\ phase' \in {"ready", "ended"}
      BY <1>5, FailedTypes
    <2>2. Broken' \/ Orderly'
      BY <1>2, <1>3, <1>4, <1>5, <2>1 DEF Orderly
    <2>3. QED  BY <1>2, <2>1, <2>2 DEF Exchange
  <1>6. CASE Says(Wire(ctx'), cmd') /\ Made(ctx', Wire(ctx')) /\ peer # "closed"
             /\ sent' = Append(sent, Wire(ctx')) /\ phase' = "receiving" /\ report' = Nothing
    <2> DEFINE w == Wire(ctx')
    <2>1. Says(w, cmd') /\ Made(ctx', w) /\ sent' = Append(sent, w)
      BY <1>6
    <2> HIDE DEF w
    <2>2. IsSeq(sent) /\ Len(sent) \in Nat
      BY LastIs
    <2>3. Len(sent') = Len(sent) + 1 /\ sent'[Len(sent) + 1] = w
      BY <2>1, <2>2, AppendTo
    <2>4. Last' = w /\ Len(sent') > 0 /\ Len(sent') - 1 = Len(sent)
      BY <2>2, <2>3 DEF Last
    <2>5. report'.res = "none"
      BY <1>6 DEF Nothing
    <2>6. ~Broken
      BY <1>6 DEF Broken
    <2>7. Quiet' /\ (peer' = "serving" => answered' = Len(sent') - 1)
      BY <1>2, <1>3, <1>4, <2>4, <2>6
    <2>8. Orderly'
      BY <1>1, <1>6, <2>1, <2>4, <2>7 DEF Orderly
    <2>9. QED  BY <1>2, <2>5, <2>8 DEF Exchange
  <1>7. CASE peer = "closed" /\ SendIntoClosed
    <2>1. report'.res = "none"
      BY <1>7 DEF SendIntoClosed, Nothing
    <2>2. Broken'
      BY <1>2, <1>3, <1>7 DEF Broken
    <2>3. QED  BY <1>2, <2>1, <2>2 DEF Exchange
  <1>8. QED  BY <1>1, <1>5, <1>6, <1>7 DEF Send

\* What a turn of the receive loop does with the answer: it goes on until it has
\* the whole of it, and prints it.
LEMMA RecvReads ==
  ASSUME TypeInv, Exchange, Recv
  PROVE  /\ phase = "receiving" /\ UNCHANGED <<cmd, station, sent>>
         /\ Underway /\ SentRight(Last) /\ answered = Len(sent)
         /\ \E code \in Codes :
              LET bytes == Response(Last, code, Numbers(Last, code)) IN
              /\ code = 0 /\ cmd.type = "set" => Kept(cmd)
              /\ \/ /\ UNCHANGED <<phase, report, origin>> /\ ctx'.rx \o inbox' = bytes /\ inbox' # <<>>
                    /\ origin = Tagged(bytes, answered) /\ Made(ctx', Last)
                 \/ /\ phase' = "ready" /\ Quiet' /\ report' = Printed(ctx', answered) /\ ctx'.code = code
                    /\ ctx'.device = Last.device
                    /\ code = 0 /\ Last.command = "READ" => Holds(ctx', Numbers(Last, code))
  <1>1. /\ phase = "receiving" /\ inbox # <<>> /\ UNCHANGED <<cmd, station, sent>>
        /\ \E n \in 1 .. Len(inbox) : inbox' = After(inbox, n) /\ (Refuses(n) \/ Takes(n))
    BY RecvDoes
  <1>2. Underway /\ OnItsWay
    BY <1>1 DEF Exchange, Broken, Orderly, Quiet, Underway
  <1>3. SentRight(Last) /\ answered = Len(sent) /\ answered \in Nat
    BY <1>2, LastIs DEF OnItsWay, Underway
  <1>4. PICK code \in Codes :
          LET bytes == Response(Last, code, Numbers(Last, code)) IN
          /\ ctx.rx \o inbox = bytes /\ origin = Tagged(bytes, answered)
          /\ code = 0 /\ cmd.type = "set" => Kept(cmd)
    BY <1>2 DEF OnItsWay
  <1>5. PICK n \in 1 .. Len(inbox) : inbox' = After(inbox, n) /\ (Refuses(n) \/ Takes(n))
    BY <1>1
  <1> DEFINE vals  == Numbers(Last, code)
             bytes == Response(Last, code, vals)
             piece == SubSeq(inbox, 1, n)
             k     == Len(ctx.rx) + n
             fed   == Fed(ctx, piece)
             r     == ParseResponse(fed)
  <1>6. /\ code \in Bytes /\ Asked(Last) /\ Answers(Last, code, vals) /\ Framed(bytes)
        /\ Len(bytes) <= IoBufSize
    <2>1. memory \in [Cells -> Words]
      BY DEF TypeInv
    <2>2. QED  BY <1>3, <2>1, StationAnswers
  <1>7. /\ ctx.rx \o inbox = bytes /\ origin = Tagged(bytes, answered)
    BY <1>4
  <1>8. bytes = Response(Last, code, vals)
    OBVIOUS
  <1> HIDE DEF vals, bytes
  <1>9. /\ Sound(ctx) /\ Stored(ctx) /\ ctx.rx \in Seq(Bytes) /\ inbox \in Seq(Bytes)
        /\ Len(ctx.rx) \in Nat /\ Len(inbox) \in Nat /\ IoBufSize \in Nat /\ bytes \in Seq(Bytes)
    <2>1. Sound(ctx) /\ Stored(ctx) /\ ctx.rx \in Seq(Bytes) /\ inbox \in Seq(Bytes) /\ bytes \in Seq(Bytes)
      BY <1>6 DEF TypeInv, Sound, Framed
    <2>2. QED  BY <2>1, LenProperties, LayoutAssumption
  <1>10. Len(bytes) = Len(ctx.rx) + Len(inbox)
    BY <1>7, <1>9, ConcatProperties
  <1>11. /\ k \in 1 .. Len(bytes) /\ (k = Len(bytes) <=> n = Len(inbox)) /\ k <= IoBufSize
         /\ n \in 0 .. Len(inbox) /\ n \in Nat
    <2> DEFINE a == Len(ctx.rx)
               b == Len(inbox)
               m == Len(bytes)
    <2>1. a \in Nat /\ b \in Nat /\ n \in 1 .. b /\ m = a + b /\ m <= IoBufSize /\ IoBufSize \in Nat
      BY <1>6, <1>9, <1>10
    <2>2. k = a + n
      OBVIOUS
    <2> HIDE DEF a, b, m, k
    <2>3. /\ k \in 1 .. m /\ (k = m <=> n = b) /\ k <= IoBufSize /\ n \in 0 .. b /\ n \in Nat
      BY <2>1, <2>2
    <2>4. QED  BY <2>3 DEF b, m
  <1>12. /\ piece \in Seq(Bytes) /\ Len(piece) = n
         /\ (ctx.rx \o piece) \o After(inbox, n) = bytes
    <2>1. ctx.rx \in Seq(Bytes) /\ inbox \in Seq(Bytes) /\ n \in 0 .. Len(inbox)
      BY <1>9, <1>11
    <2>2. /\ SubSeq(inbox, 1, n) \in Seq(Bytes) /\ Len(SubSeq(inbox, 1, n)) = n
          /\ (ctx.rx \o SubSeq(inbox, 1, n)) \o After(inbox, n) = ctx.rx \o inbox
      BY <2>1, Moved
    <2>3. QED  BY <1>7, <2>2
  <1>13. ctx.rx \o piece = Piece(bytes, 0, k)
    <2> DEFINE s == ctx.rx \o piece
    <2>1. s \in Seq(Bytes) /\ Len(s) = k
      BY <1>9, <1>12, ConcatProperties
    <2>2. After(inbox, n) \in Seq(Bytes)
      BY <1>9, <1>11, AfterSeq
    <2>3. k \in 0 .. Len(bytes)
      BY <1>11
    <2> HIDE DEF s, k, piece
    <2>4. /\ Piece(bytes, 0, k) \in Seq(Bytes) /\ Len(Piece(bytes, 0, k)) = k - 0
          /\ \A i \in 1 .. k - 0 : Piece(bytes, 0, k)[i] = bytes[0 + i]
      <3>1. 0 \in 0 .. k
        BY <2>3
      <3>2. QED  BY <1>9, <2>3, <3>1, PieceFacts
    <2>5. bytes = s \o After(inbox, n)
      BY <1>12 DEF s
    <2>6. ASSUME NEW i \in 1 .. k PROVE Piece(bytes, 0, k)[i] = s[i]
      <3>1. Len(After(inbox, n)) \in Nat /\ k \in Nat
        BY <2>2, <2>3, LenProperties
      <3>2. i \in 1 .. Len(s) + Len(After(inbox, n)) /\ i <= Len(s)
        BY <2>1, <3>1
      <3>3. bytes[i] = s[i]
        BY <2>1, <2>2, <2>5, <3>2, ConcatProperties
      <3>4. Piece(bytes, 0, k)[i] = bytes[i]
        <4>1. i \in 1 .. k - 0 /\ 0 + i = i
          BY <3>1
        <4>2. QED  BY <2>4, <4>1
      <3>5. QED  BY <3>3, <3>4
    <2>7. Len(Piece(bytes, 0, k)) = k
      BY <2>3, <2>4
    <2>8. s = Piece(bytes, 0, k)
      BY <2>1, <2>4, <2>6, <2>7, SeqEqual
    <2>9. QED  BY <2>8 DEF s
  <1> HIDE DEF piece
  <1>14. /\ Sound(fed) /\ Whole(fed) /\ fed.rx = ctx.rx \o piece
         /\ Awaits(fed, Last) /\ fed.serial = Last.serial
    <2>1. Len(ctx.rx) + Len(piece) <= IoBufSize
      BY <1>11, <1>12
    <2>2. /\ Sound(fed) /\ fed.rx = ctx.rx \o piece /\ fed.serial = ctx.serial
          /\ fed.command = ctx.command /\ fed.device = ctx.device /\ fed.count = ctx.count
      BY <1>9, <1>12, <2>1, FedMakes
    <2>3. QED  BY <1>2, <2>2 DEF Underway, Made, Awaits, Sound
  <1>15. Takes(n)
    <2>1. ~(k > IoBufSize)
      <3>1. k \in Nat /\ k <= IoBufSize
        BY <1>9, <1>11
      <3> HIDE DEF k
      <3>2. QED  BY <1>9, <3>1
    <2>2. ~Refuses(n)
      BY <2>1 DEF Refuses
    <2>3. QED  BY <1>5, <2>2
  <1>16. /\ ctx' = r.ctx /\ origin' = After(origin, Len(fed.rx) - Len(r.ctx.rx))
         /\ \/ r.st = "NEED_MORE" /\ UNCHANGED <<phase, report>>
            \/ /\ r.st \in {"OK", "RESPONSE_ERROR"} /\ phase' = "ready"
               /\ report' = Printed(r.ctx, origin[StopAt(fed.rx, fed.serial) + 1])
            \/ r.st \in {"RESYNC", "INVALID_COUNT"} /\ Failed
    BY <1>15 DEF Takes, piece
  <1> HIDE DEF fed, k
  <1>17. /\ StopAt(fed.rx, fed.serial) = 0
         /\ k < Len(bytes) => /\ r.st = "NEED_MORE" /\ r.ctx.rx = fed.rx
                              /\ Awaits(r.ctx, Last) /\ r.ctx.serial = Last.serial
         /\ k = Len(bytes) => /\ r.st = (IF code = 0 THEN "OK" ELSE "RESPONSE_ERROR")
                              /\ r.ctx.rx = <<>> /\ r.ctx.code = code /\ r.ctx.device = Last.device
                              /\ r.st = "OK" /\ Last.command = "READ" => Holds(r.ctx, vals)
    <2>1. fed.rx = Piece(bytes, 0, k)
      BY <1>13, <1>14
    <2>2. QED  BY <1>6, <1>8, <1>11, <1>14, <2>1, AloneParses
  <1> HIDE DEF r
  <1>18. Tagged(bytes, answered) \in Seq(0 .. answered) /\ Tagged(bytes, answered)[1] = answered
    BY <1>3, <1>6, TaggedIs
  <1>19. CASE k < Len(bytes)
    <2>1. UNCHANGED <<phase, report>> /\ ctx'.rx = fed.rx /\ Made(ctx', Last)
      BY <1>16, <1>17, <1>19 DEF Made
    <2>2. origin' = origin
      <3>1. Len(fed.rx) \in Nat
        BY <1>14, LenProperties DEF Sound
      <3>2. origin' = After(origin, 0)
        <4>1. Len(fed.rx) - Len(r.ctx.rx) = 0
          BY <1>17, <1>19, <3>1
        <4>2. QED  BY <1>16, <4>1
      <3>3. origin \in Seq(0 .. answered)
        BY <1>7, <1>18
      <3>4. QED  BY <3>2, <3>3, SubSeqFull DEF After
    <2>3. ctx'.rx \o inbox' = bytes
      BY <1>5, <1>12, <1>14, <2>1
    <2>4. inbox' # <<>>
      <3>1. Len(inbox') = Len(inbox) - n /\ n # Len(inbox)
        <4>1. Len(After(inbox, n)) = Len(inbox) - n
          BY <1>9, <1>11, AfterSeq
        <4>2. k # Len(bytes)
          BY <1>11, <1>19
        <4>3. QED  BY <1>5, <1>11, <4>1, <4>2
      <3>2. Len(<<>>) = 0
        BY EmptySeq
      <3>3. Len(inbox') # 0
        BY <1>9, <1>11, <3>1
      <3>4. QED  BY <3>2, <3>3
    <2>5. QED  BY <1>1, <1>2, <1>3, <1>4, <1>7, <2>1, <2>2, <2>3, <2>4 DEF bytes, vals
  <1>20. CASE k = Len(bytes)
    <2>1. r.st \in {"OK", "RESPONSE_ERROR"} /\ r.st # "NEED_MORE" /\ r.st \notin {"RESYNC", "INVALID_COUNT"}
      BY <1>17, <1>20
    <2>2. /\ phase' = "ready" /\ report' = Printed(ctx', answered) /\ ctx'.code = code /\ ctx'.rx = <<>>
          /\ ctx'.device = Last.device
      <3>1. origin[StopAt(fed.rx, fed.serial) + 1] = answered
        <4>1. origin[1] = answered
          BY <1>7, <1>18
        <4>2. StopAt(fed.rx, fed.serial) + 1 = 1
          BY <1>17
        <4>3. QED  BY <4>1, <4>2
      <3>2. QED  BY <1>16, <1>17, <1>20, <2>1, <3>1
    <2>3. inbox' = <<>>
      <3>1. n = Len(inbox)
        BY <1>11, <1>20
      <3>2. SubSeq(inbox, n + 1, Len(inbox)) = <<>>
        <4>1. Len(inbox) < n + 1 /\ n + 1 \in Int /\ Len(inbox) \in Int
          BY <1>9, <3>1
        <4>2. QED  BY <4>1, SubSeqEmpty
      <3>3. QED  BY <1>5, <3>2 DEF After
    <2>4. code = 0 /\ Last.command = "READ" => Holds(ctx', vals)
      BY <1>16, <1>17, <1>20
    <2>5. QED  BY <1>1, <1>2, <1>3, <1>4, <2>2, <2>3, <2>4 DEF Quiet, vals
  <1>21. QED
    <2>1. k < Len(bytes) \/ k = Len(bytes)
      <3>1. k \in 1 .. Len(bytes) /\ Len(bytes) \in Nat
        BY <1>9, <1>11, LenProperties
      <3>2. QED  BY <3>1
    <2>2. QED  BY <1>19, <1>20, <2>1

LEMMA AnswerExchanges ==
  ASSUME TypeInv, Exchange, Coils, Answer
  PROVE  Exchange' /\ Coils' /\ phase = "receiving" /\ report' = report
  <1> DEFINE w == sent[answered + 1]
  <1>1. /\ peer = "serving" /\ answered \in Nat /\ answered + 1 \in 1 .. Len(sent) /\ answered' = answered + 1
        /\ UNCHANGED <<client, sent, peer>> /\ SentRight(w)
        /\ \E code \in Codes :
             LET bytes == Response(w, code, Numbers(w, code)) IN
             /\ inbox' = inbox \o bytes /\ origin' = origin \o Tagged(bytes, answered')
             /\ memory' = IF code = 0 /\ w.command = "WRITE" THEN WriteCells(memory, w) ELSE memory
    BY AnswerDoes
  <1>2. Len(sent) \in Nat
    BY LastIs
  <1>3. answered # Len(sent)
    BY <1>1, <1>2
  <1>4. phase = "receiving" /\ report.res = "none"
    BY <1>1, <1>3 DEF Exchange, Broken, Orderly
  <1>5. Underway /\ Quiet /\ answered = Len(sent) - 1
    BY <1>1, <1>3, <1>4 DEF Exchange, Broken, Orderly, Underway, OnItsWay
  <1>6. w = Last
    BY <1>2, <1>5 DEF Last
  <1> HIDE DEF w
  <1>7. PICK code \in Codes :
          LET bytes == Response(Last, code, Numbers(Last, code)) IN
          /\ inbox' = inbox \o bytes /\ origin' = origin \o Tagged(bytes, answered')
          /\ memory' = IF code = 0 /\ Last.command = "WRITE" THEN WriteCells(memory, Last) ELSE memory
    BY <1>1, <1>6
  <1> DEFINE bytes == Response(Last, code, Numbers(Last, code))
             tags  == Tagged(bytes, answered')
  <1>8. /\ memory \in [Cells -> Words] /\ origin \in Seq(0 .. answered)
        /\ Len(origin) = Len(ctx.rx) + Len(inbox) /\ SentRight(Last)
    BY <1>1, <1>6 DEF TypeInv
  <1>9. Framed(bytes)
    BY <1>8, StationAnswers
  <1>10. inbox' = inbox \o bytes /\ origin' = origin \o tags
    BY <1>7
  <1> HIDE DEF bytes
  <1>11. bytes \in Seq(Bytes) /\ 2 <= Len(bytes) /\ tags \in Seq(0 .. answered')
    <2>1. answered' \in Nat
      BY <1>1
    <2>2. QED  BY <1>9, <2>1, TaggedIs DEF Framed
  <1> HIDE DEF tags
  <1>12. ctx.rx = <<>> /\ inbox = <<>> /\ origin = <<>>
    <2>1. ctx.rx = <<>> /\ inbox = <<>>
      BY <1>5 DEF Quiet
    <2>2. Len(<<>>) = 0
      BY EmptySeq
    <2>3. Len(origin) = 0
      BY <1>8, <2>1, <2>2
    <2>4. QED  BY <1>8, <2>1, <2>3, EmptySeq
  <1>13. inbox' = bytes /\ origin' = tags /\ ctx.rx \o inbox' = bytes
    BY <1>10, <1>11, <1>12, ConcatEmptySeq
  <1>14. inbox' # <<>>
    <2>1. Len(<<>>) = 0
      BY EmptySeq
    <2>2. Len(bytes) # 0
      BY <1>11
    <2>3. QED  BY <1>13, <2>1, <2>2
  <1>15. /\ ctx' = ctx /\ phase' = phase /\ cmd' = cmd /\ report' = report /\ sent' = sent /\ Last' = Last
    BY <1>1 DEF client, Last
  <1>16. Numbers(Last, code)' = Numbers(Last, code)
    <2>1. CASE code = 0 /\ Last.command = "READ"
      <3>1. memory' = memory
        BY <1>7, <2>1
      <3>2. QED  BY <1>15, <3>1 DEF Numbers
    <2>2. CASE ~(code = 0 /\ Last.command = "READ")
      BY <1>15, <2>2 DEF Numbers
    <2>3. QED  BY <2>1, <2>2
  <1>17. /\ SentRight(Last) /\ Asked(Last) /\ Last.count \in Nat /\ Last.address \in Nat
         /\ \A a \in AddressesOf(Last) : <<Last.device, a>> \in Cells
    <2>1. MaxCount(Last.device) \in Nat
      BY CountsAreNat
    <2>2. QED  BY <1>8, <2>1 DEF SentRight, Asked
  <1>18. ASSUME code = 0, cmd.type = "set"
         PROVE  Kept(cmd)'
    <2>1. /\ Last.command = "WRITE" /\ Last.device = cmd.device /\ Last.address = cmd.address
          /\ Last.count = cmd.count
          /\ \A i \in 0 .. cmd.count - 1 : ValueSent(Last, i) = Meant(cmd.device, cmd.values[i + 1])
      BY <1>5, <1>18 DEF Underway, Says
    <2>2. memory' = WriteCells(memory, Last)
      BY <1>7, <1>18, <2>1
    <2>3. ASSUME NEW i \in 0 .. cmd.count - 1
          PROVE  memory'[<<cmd.device, cmd.address + i>>] = Meant(cmd.device, cmd.values[i + 1])
      <3> DEFINE x == <<Last.device, Last.address + i>>
      <3>1. Last.address + i \in Last.address .. Last.address + Last.count - 1 /\ (Last.address + i) - Last.address = i
        BY <1>17, <2>1
      <3>2. x \in Cells /\ x[1] = Last.device /\ x[2] = Last.address + i
        BY <1>17, <3>1 DEF AddressesOf
      <3> HIDE DEF x
      <3>3. WriteCells(memory, Last)[x] =
              IF IsBitDevice(Last.device)
              THEN (IF CoilIn(Last.payload, i) = 1 THEN BitTrue ELSE {})
              ELSE WordOf(RegisterIn(Last.payload, i))
        BY <1>8, <3>1, <3>2 DEF WriteCells
      <3>4. WriteCells(memory, Last)[x] = ValueSent(Last, i)
        BY <3>3 DEF ValueSent
      <3>5. QED  BY <2>1, <2>2, <3>4 DEF x
    <2>4. QED  BY <1>15, <2>3 DEF Kept
  <1>19. OnItsWay'
    <2>1. answered' = Len(sent')
      BY <1>1, <1>2, <1>5, <1>15
    <2>2. LET given == Response(Last', code, Numbers(Last, code)') IN
          ctx'.rx \o inbox' = given /\ origin' = Tagged(given, answered')
      BY <1>13, <1>15, <1>16 DEF bytes, tags
    <2> DEFINE nums == IF code = 0 /\ Last'.command = "READ" THEN ReadCells(memory', Last') ELSE <<>>
               there == Response(Last', code, nums)
    <2>3. ctx'.rx \o inbox' = there /\ origin' = Tagged(there, answered')
      BY <2>2 DEF Numbers
    <2> HIDE DEF there, nums
    <2>4. \E q \in Codes :
            /\ ctx'.rx \o inbox' = Response(Last', q, IF q = 0 /\ Last'.command = "READ" THEN ReadCells(memory', Last') ELSE <<>>)
            /\ origin' = Tagged(Response(Last', q, IF q = 0 /\ Last'.command = "READ" THEN ReadCells(memory', Last') ELSE <<>>), answered')
            /\ q = 0 /\ cmd'.type = "set" => Kept(cmd)'
      BY <1>15, <1>18, <2>3 DEF there, nums
    <2>5. QED  BY <1>14, <2>1, <2>4 DEF OnItsWay, Numbers
  <1>20. Exchange'
    <2>1. Underway'
      BY <1>5, <1>15 DEF Underway
    <2>2. ~Quiet'
      BY <1>14 DEF Quiet
    <2>3. QED  BY <1>4, <1>15, <1>19, <2>1, <2>2 DEF Exchange, Orderly, Underway
  <1>21. Coils'
    <2>1. ASSUME NEW x \in Cells, IsBitDevice(x[1])
          PROVE  WriteCells(memory, Last)[x] \in {{}, BitTrue}
      <3>1. memory[x] \in {{}, BitTrue}
        BY <2>1 DEF Coils
      <3>2. QED  BY <1>8, <2>1, <3>1 DEF WriteCells
    <2>2. CASE memory' = memory
      BY <2>2 DEF Coils
    <2>3. CASE memory' = WriteCells(memory, Last)
      BY <2>1, <2>3 DEF Coils
    <2>4. QED  BY <1>7, <2>2, <2>3
  <1>22. QED  BY <1>4, <1>15, <1>20, <1>21

\* What is printed is what the station holds.
LEMMA PrintedIsHeld ==
  ASSUME TypeInv, Coils, Underway, UNCHANGED <<cmd, memory>>, NEW i,
         report' = Printed(ctx', i), NEW code, ctx'.code = code, ctx'.device = Last.device,
         code = 0 /\ cmd.type = "set" => Kept(cmd),
         code = 0 /\ Last.command = "READ" => Holds(ctx', Numbers(Last, code))
  PROVE  PrintsWhatIsHeld'
  <1> DEFINE cell(j) == <<cmd.device, cmd.address + j - 1>>
             held    == [j \in 1 .. cmd.count |-> memory[cell(j)]]
  <1>1. SUFFICES ASSUME report'.res = "ok"
                 PROVE  held = IF cmd.type = "get" THEN report'.values
                               ELSE [j \in DOMAIN cmd.values |->
                                       IF IsBitDevice(cmd.device) /\ cmd.values[j] # {} THEN BitTrue
                                       ELSE cmd.values[j]]
    BY DEF PrintsWhatIsHeld
  <1>2. code = 0
    BY <1>1 DEF Printed
  <1>3. /\ SentRight(Last) /\ cmd \in Cmds /\ Says(Last, cmd)
    BY LastIs DEF Underway
  <1>4. /\ cmd.type \in {"get", "set"} /\ cmd.address \in Nat /\ cmd.count \in Nat /\ cmd.values \in Seq(Words)
        /\ cmd.type = "set" => Len(cmd.values) = cmd.count
    BY <1>3, ClientAssumption
  <1>5. /\ Last.device = cmd.device /\ Last.address = cmd.address /\ Last.count = cmd.count
        /\ (cmd.type = "get" => Last.command = "READ")
    BY <1>3 DEF Says
  <1>6. CASE cmd.type = "get"
    <2> DEFINE vals == Numbers(Last, code)
    <2>1. vals = ReadCells(memory, Last) /\ Holds(ctx', vals)
      BY <1>2, <1>5, <1>6 DEF Numbers
    <2>2. Len(vals) = cmd.count
      <3>1. vals = [j \in 1 .. cmd.count |->
                      LET v == memory[<<Last.device, Last.address + j - 1>>]
                      IN  IF IsBitDevice(Last.device) THEN (IF v = {} THEN 0 ELSE 1) ELSE NumberOf(v)]
        BY <1>5, <2>1 DEF ReadCells
      <3> DEFINE V == {vals[j] : j \in 1 .. cmd.count}
      <3> HIDE DEF vals
      <3>2. vals \in [1 .. cmd.count -> V]
        BY <3>1
      <3> HIDE DEF V
      <3>3. QED  BY <1>4, <3>2, FunctionIsSeq
    <2>3. ASSUME NEW j \in 1 .. cmd.count
          PROVE  cell(j) \in Cells /\ vals[j] = IF IsBitDevice(cmd.device) THEN (IF memory[cell(j)] = {} THEN 0 ELSE 1)
                                                ELSE NumberOf(memory[cell(j)])
      <3>1. cmd.address + j - 1 \in AddressesOf(Last)
        BY <1>4, <1>5 DEF AddressesOf
      <3>2. cell(j) \in Cells
        BY <1>3, <1>5, <3>1 DEF SentRight
      <3>3. QED  BY <1>5, <2>1, <3>2 DEF ReadCells
    <2> HIDE DEF vals
    <2>4. ASSUME NEW j \in 1 .. cmd.count
          PROVE  GetResponseValue(ctx', j - 1) = memory[cell(j)]
      <3> DEFINE v == memory[cell(j)]
      <3>1. j - 1 \in 0 .. ctx'.count - 1 /\ (j - 1) + 1 = j
        BY <1>4, <2>1, <2>2 DEF Holds
      <3>2. GetResponseValue(ctx', j - 1) =
              IF IsBitDevice(cmd.device) THEN (IF vals[(j - 1) + 1] = 1 THEN BitTrue ELSE {})
              ELSE WordOf(vals[(j - 1) + 1])
        BY <1>5, <2>1, <3>1 DEF Holds
      <3>3. cell(j) \in Cells /\ v \in Words
        <4>1. memory \in [Cells -> Words]
          BY DEF TypeInv
        <4>2. QED  BY <2>3, <4>1
      <3>4. CASE IsBitDevice(cmd.device)
        <4>1. v \in {{}, BitTrue}
          BY <3>3, <3>4 DEF Coils
        <4>2. vals[j] = IF v = {} THEN 0 ELSE 1
          BY <2>3, <3>4
        <4> HIDE DEF v
        <4>3. GetResponseValue(ctx', j - 1) = v
          BY <3>1, <3>2, <3>4, <4>1, <4>2
        <4>4. QED  BY <4>3 DEF v
      <3>5. CASE ~IsBitDevice(cmd.device)
        <4>1. vals[j] = NumberOf(v)
          BY <2>3, <3>5
        <4>2. WordOf(NumberOf(v)) = v
          BY <3>3, WordsReadBack
        <4>3. QED  BY <3>1, <3>2, <3>5, <4>1, <4>2
      <3>6. QED  BY <3>4, <3>5
    <2>5. report'.values = [j \in 1 .. ctx'.count |-> GetResponseValue(ctx', j - 1)] /\ ctx'.count = cmd.count
      BY <1>2, <1>6, <2>1, <2>2 DEF Printed, Holds
    <2>6. QED  BY <1>6, <2>4, <2>5
  <1>7. CASE cmd.type = "set"
    <2>1. DOMAIN cmd.values = 1 .. cmd.count
      BY <1>4, <1>7, LenProperties
    <2>2. ASSUME NEW j \in 1 .. cmd.count
          PROVE  memory[cell(j)] = Meant(cmd.device, cmd.values[j])
      <3>1. j - 1 \in 0 .. cmd.count - 1 /\ cmd.address + (j - 1) = cmd.address + j - 1 /\ (j - 1) + 1 = j
        BY <1>4
      <3>2. memory[<<cmd.device, cmd.address + (j - 1)>>] = Meant(cmd.device, cmd.values[(j - 1) + 1])
        BY <1>2, <1>7, <3>1 DEF Kept
      <3>3. QED  BY <3>1, <3>2
    <2>3. QED  BY <1>7, <2>1, <2>2 DEF Meant
  <1>8. QED  BY <1>4, <1>6, <1>7

\* A step that leaves the exchange alone.
LEMMA Unmoved ==
  ASSUME UNCHANGED <<ctx, inbox, origin, cmd, sent, answered, memory>>
  PROVE  /\ Quiet' = Quiet /\ Underway' = Underway /\ OnItsWay' = OnItsWay
         /\ Coils => Coils'
  <1>1. Last' = Last
    BY DEF Last
  <1>2. Quiet' = Quiet
    BY DEF Quiet
  <1>3. Underway' = Underway
    BY <1>1 DEF Underway
  <1>4. Coils => Coils'
    BY DEF Coils
  <1>5. Kept(cmd)' = Kept(cmd)
    BY DEF Kept
  <1>6. OnItsWay' = OnItsWay
    BY <1>1, <1>5 DEF OnItsWay, Numbers
  <1>7. QED  BY <1>2, <1>3, <1>4, <1>6

\* A command that fails leaves nothing behind it.
LEMMA GivenUp ==
  ASSUME TypeInv, Exchange, LateAnswers = FALSE, Timeout \/ Closed
  PROVE  Exchange' /\ report'.res = "fail" /\ UNCHANGED <<ctx, inbox, origin, cmd, sent, answered, memory>>
  <1>1. /\ phase = "receiving" /\ inbox = <<>> /\ peer # "serving" /\ Failed
        /\ UNCHANGED <<ctx, inbox, origin, cmd, sent, answered, memory, peer>>
    <2>1. CASE Timeout
      BY <2>1 DEF Timeout, station
    <2>2. CASE Closed
      BY <2>2 DEF Closed, station
    <2>3. QED  BY <2>1, <2>2
  <1>2. report'.res = "fail" /\ phase' \in {"ready", "ended"}
    BY <1>1, FailedTypes
  <1>3. Broken \/ Quiet
    BY <1>1 DEF Exchange, Orderly, OnItsWay
  <1>4. (Broken' \/ Quiet') /\ peer' # "serving" /\ phase' # "receiving"
    BY <1>1, <1>2, <1>3, Unmoved DEF Broken
  <1>5. Exchange'
    BY <1>4 DEF Exchange, Orderly
  <1>6. QED  BY <1>1, <1>2, <1>5

\* A turn of the receive loop, seen from what is printed.
LEMMA RecvExchanges ==
  ASSUME TypeInv, Exchange, Coils, Recv
  PROVE  Exchange' /\ Coils' /\ (report'.res # "none" => PrintsOwnAnswer' /\ PrintsWhatIsHeld')
  <1>1. /\ phase = "receiving" /\ UNCHANGED <<cmd, station, sent>>
        /\ Underway /\ SentRight(Last) /\ answered = Len(sent)
    BY RecvReads
  <1>2. PICK code \in Codes :
          LET bytes == Response(Last, code, Numbers(Last, code)) IN
          /\ code = 0 /\ cmd.type = "set" => Kept(cmd)
          /\ \/ /\ UNCHANGED <<phase, report, origin>> /\ ctx'.rx \o inbox' = bytes /\ inbox' # <<>>
                /\ origin = Tagged(bytes, answered) /\ Made(ctx', Last)
             \/ /\ phase' = "ready" /\ Quiet' /\ report' = Printed(ctx', answered) /\ ctx'.code = code
                /\ ctx'.device = Last.device
                /\ code = 0 /\ Last.command = "READ" => Holds(ctx', Numbers(Last, code))
    BY RecvReads
  <1>3. /\ peer' = peer /\ memory' = memory /\ answered' = answered /\ cmd' = cmd /\ sent' = sent /\ Last' = Last
    BY <1>1 DEF station, Last
  <1>4. report.res = "none"
    BY <1>1 DEF Exchange
  <1>5. Coils'
    BY <1>3 DEF Coils
  <1>6. CASE /\ UNCHANGED <<phase, report, origin>> /\ inbox' # <<>> /\ Made(ctx', Last)
             /\ ctx'.rx \o inbox' = Response(Last, code, Numbers(Last, code))
             /\ origin = Tagged(Response(Last, code, Numbers(Last, code)), answered)
    <2> DEFINE nums == IF code = 0 /\ Last'.command = "READ" THEN ReadCells(memory', Last') ELSE <<>>
               there == Response(Last', code, nums)
    <2>1. ctx'.rx \o inbox' = there /\ origin' = Tagged(there, answered')
      BY <1>3, <1>6 DEF Numbers
    <2>2. code = 0 /\ cmd'.type = "set" => Kept(cmd)'
      BY <1>2, <1>3 DEF Kept
    <2> HIDE DEF there, nums
    <2>3. \E q \in Codes :
            /\ ctx'.rx \o inbox' = Response(Last', q, IF q = 0 /\ Last'.command = "READ" THEN ReadCells(memory', Last') ELSE <<>>)
            /\ origin' = Tagged(Response(Last', q, IF q = 0 /\ Last'.command = "READ" THEN ReadCells(memory', Last') ELSE <<>>), answered')
            /\ q = 0 /\ cmd'.type = "set" => Kept(cmd)'
      BY <2>1, <2>2 DEF there, nums
    <2>4. OnItsWay'
      BY <1>1, <1>3, <1>6, <2>3 DEF OnItsWay, Numbers
    <2>5. ~Quiet'
      BY <1>6 DEF Quiet
    <2>6. Len(sent') > 0 /\ cmd' \in Cmds /\ Says(Last', cmd') /\ Made(ctx', Last')
      BY <1>1, <1>3, <1>6 DEF Underway
    <2>7. phase' = "receiving" /\ report'.res = "none"
      BY <1>1, <1>4, <1>6
    <2>8. Exchange'
      BY <2>4, <2>5, <2>6, <2>7 DEF Exchange, Orderly
    <2>9. QED  BY <1>5, <2>7, <2>8
  <1>7. CASE /\ phase' = "ready" /\ Quiet' /\ report' = Printed(ctx', answered) /\ ctx'.code = code
             /\ ctx'.device = Last.device
             /\ code = 0 /\ Last.command = "READ" => Holds(ctx', Numbers(Last, code))
    <2>1. Exchange'
      BY <1>1, <1>3, <1>7 DEF Exchange, Orderly
    <2>2. PrintsOwnAnswer'
      <3>1. report'.of = answered
        BY <1>7 DEF Printed
      <3>2. QED  BY <1>1, <1>3, <3>1 DEF PrintsOwnAnswer
    <2>3. PrintsWhatIsHeld'
      BY <1>1, <1>2, <1>3, <1>7, PrintedIsHeld
    <2>4. QED  BY <1>5, <2>1, <2>2, <2>3
  <1>8. QED  BY <1>2, <1>6, <1>7

\* Each step keeps what the exchange promises.
LEMMA ExchangeStep ==
  ASSUME LateAnswers = FALSE
  PROVE  TypeInv /\ Exchange /\ Coils /\ PrintsOwnAnswer /\ PrintsWhatIsHeld /\ [Next]_vars
           => (Exchange /\ Coils /\ PrintsOwnAnswer /\ PrintsWhatIsHeld)'
  <1> SUFFICES ASSUME TypeInv, Exchange, Coils, PrintsOwnAnswer, PrintsWhatIsHeld, [Next]_vars
               PROVE  Exchange' /\ Coils' /\ PrintsOwnAnswer' /\ PrintsWhatIsHeld'
    OBVIOUS
  <1>1. report'.res \in {"none", "fail"} => PrintsOwnAnswer' /\ PrintsWhatIsHeld'
    BY DEF PrintsOwnAnswer, PrintsWhatIsHeld
  <1>2. report' = report /\ cmd' = cmd /\ sent' = sent /\ memory' = memory => PrintsOwnAnswer' /\ PrintsWhatIsHeld'
    BY DEF PrintsOwnAnswer, PrintsWhatIsHeld
  <1>3. CASE UNCHANGED vars \/ HeaderCommand \/ Quit \/ Stop
    <2>1. /\ UNCHANGED <<ctx, inbox, origin, cmd, sent, answered, memory, report>>
          /\ phase' = phase \/ (phase = "ready" /\ phase' = "ended")
          /\ peer' = peer \/ (peer = "serving" /\ peer' # "serving")
      BY <1>3 DEF vars, client, station, HeaderCommand, Quit, Stop
    <2>2. Exchange'
      <3>1. Quiet' = Quiet /\ Underway' = Underway /\ OnItsWay' = OnItsWay
        BY <2>1, Unmoved
      <3>2. Broken => Broken'
        BY <2>1 DEF Broken
      <3>3. Orderly => Orderly'
        <4>1. Orderly <=>
                /\ phase # "receiving" => Quiet /\ (peer = "serving" => answered = Len(sent))
                /\ phase = "receiving" /\ (peer = "serving" \/ ~Quiet) =>
                     Underway /\ IF Quiet THEN answered = Len(sent) - 1 ELSE OnItsWay
          BY DEF Orderly, Underway
        <4>2. Orderly' <=>
                /\ phase' # "receiving" => Quiet' /\ (peer' = "serving" => answered' = Len(sent'))
                /\ phase' = "receiving" /\ (peer' = "serving" \/ ~Quiet') =>
                     Underway' /\ IF Quiet' THEN answered' = Len(sent') - 1 ELSE OnItsWay'
          BY DEF Orderly, Underway
        <4>3. QED  BY <2>1, <3>1, <4>1, <4>2
      <3>4. phase' = "receiving" => report'.res = "none"
        BY <2>1 DEF Exchange
      <3>5. QED  BY <3>2, <3>3, <3>4 DEF Exchange
    <2>3. QED  BY <1>2, <2>1, <2>2, Unmoved
  <1>4. CASE Start
    <2>1. Exchange' /\ report'.res \in {"none", "fail"} /\ memory' = memory
      BY <1>4, StartExchanges
    <2>2. Coils'
      BY <2>1 DEF Coils
    <2>3. QED  BY <1>1, <2>1, <2>2
  <1>5. CASE Recv
    BY <1>1, <1>5, RecvExchanges
  <1>6. CASE Timeout \/ Closed
    BY <1>1, <1>6, GivenUp, Unmoved
  <1>7. CASE Answer
    <2>1. Exchange' /\ Coils' /\ phase = "receiving" /\ report' = report
      BY <1>7, AnswerExchanges
    <2>2. report'.res = "none"
      BY <2>1 DEF Exchange
    <2>3. QED  BY <1>1, <2>1, <2>2
  <1>8. CASE Break
    <2>1. /\ UNCHANGED <<phase, cmd, sent, memory, report>>
          /\ peer' = "closed" /\ inbox' = <<>>
      BY <1>8 DEF Break, client
    <2>2. Exchange'
      BY <2>1 DEF Exchange, Broken
    <2>3. Coils'
      BY <2>1 DEF Coils
    <2>4. QED  BY <1>2, <2>1, <2>2, <2>3
  <1>9. QED  BY <1>3, <1>4, <1>5, <1>6, <1>7, <1>8 DEF Next, Receive

LEMMA InitExchanges == Init => Exchange /\ Coils /\ PrintsOwnAnswer /\ PrintsWhatIsHeld
  <1> SUFFICES ASSUME Init PROVE Exchange /\ Coils /\ PrintsOwnAnswer /\ PrintsWhatIsHeld
    OBVIOUS
  <1>1. ctx.rx = <<>> /\ inbox = <<>>
    BY InitTypes DEF Init
  <1>2. phase = "ready" /\ report.res = "none" /\ answered = 0 /\ sent = <<>> /\ memory = [x \in Cells |-> {}]
    BY DEF Init, Nothing
  <1>3. Len(<<>>) = 0
    BY EmptySeq
  <1>4. Exchange
    BY <1>1, <1>2, <1>3 DEF Exchange, Orderly, Quiet
  <1>5. Coils
    BY <1>2 DEF Coils
  <1>6. PrintsOwnAnswer /\ PrintsWhatIsHeld
    BY <1>2 DEF PrintsOwnAnswer, PrintsWhatIsHeld
  <1>7. QED  BY <1>4, <1>5, <1>6

\* With a station that answers in time or not at all, the answer a command prints
\* is the answer to the request this command sent, whatever the connection cuts
\* or loses and however often the station falls silent or closes.
THEOREM AnswersItsOwnRequest ==
  ASSUME LateAnswers = FALSE
  PROVE  Spec => []PrintsOwnAnswer
  <1>1. Init => IInv
    BY InitTypes, InitExchanges DEF IInv
  <1>2. IInv /\ [Next]_vars => IInv'
    BY TypeStep, ExchangeStep DEF IInv
  <1>3. IInv => PrintsOwnAnswer
    BY DEF IInv
  <1>4. QED  BY <1>1, <1>2, <1>3, PTL DEF Spec

\* With such a station, the values a get prints are those the station holds at
\* the addresses typed, and after a set that prints OK it holds the values typed.
THEOREM PrintedIsTrue ==
  ASSUME LateAnswers = FALSE
  PROVE  Spec => []PrintsWhatIsHeld
  <1>1. Init => IInv
    BY InitTypes, InitExchanges DEF IInv
  <1>2. IInv /\ [Next]_vars => IInv'
    BY TypeStep, ExchangeStep DEF IInv
  <1>3. IInv => PrintsWhatIsHeld
    BY DEF IInv
  <1>4. QED  BY <1>1, <1>2, <1>3, PTL DEF Spec
=============================================================================
