----------------------------- MODULE Fx5Client -----------------------------
(***************************************************************************)
(* The fx5_client tool: one context, one TCP connection, one command after *)
(* another, against a station (external) that keeps registers and answers  *)
(* each request in order.                                                  *)
(*                                                                         *)
(* A command resets the context, sets and builds its request, sends it and *)
(* receives until a response parses, the receive times out, the connection *)
(* is closed or the parser fails.  The interactive loop goes on after a    *)
(* failed command, the script runner stops.                                *)
(***************************************************************************)
EXTENDS Fx5Station

CONSTANTS
  Cmds,         \* the commands typed: [type, device, address, count, values]
  ClientHeaders,\* the header modes the header command chooses
  LateAnswers,  \* TRUE: the station may answer after the client has timed out
  Codes,        \* response codes of the station
  Pieces,       \* sizes of what one recv brings, short of all there is
  MaxCommands   \* bound: requests sent

ASSUME ClientAssumption ==
  /\ \A c \in Cmds : /\ c.type \in {"get", "set"} /\ c.address \in Nat /\ c.count \in Nat
                     /\ c.values \in Seq(Words)
                     /\ c.type = "set" => Len(c.values) = c.count
  /\ ClientHeaders \subseteq Headers /\ LateAnswers \in BOOLEAN
  /\ Codes \subseteq 0 .. 255 /\ Pieces \subseteq Nat \ {0} /\ MaxCommands \in Nat

VARIABLES
  script,   \* the client runs a script, not the interactive loop
  timed,    \* the receive timeout is set and is not 0
  ctx,      \* app->ctx
  header,   \* config->network_settings.header_type
  phase,    \* "ready" for a command, "receiving", or "ended"
  cmd,      \* the command being executed, or executed last
  report,   \* what the client printed for it
  sent,     \* what the requests that reached the station say
  peer,     \* the station: "serving", "silent" for good, or "closed"
  memory,   \* the station's registers and coils
  answered, \* how many requests the station has answered
  inbox,    \* bytes that wait in the client's socket
  origin    \* history: for each byte of ctx.rx \o inbox, the request whose answer
            \* begins with it, else 0

client  == <<script, timed, ctx, header, phase, cmd, report>>
station == <<peer, memory, answered>>
vars    == <<client, station, sent, inbox, origin>>

Accepted == {c \in Cmds : SetRequestStatus("READ", c.device, c.address, c.count) = "OK"}

AddressesOf(c) == c.address .. c.address + c.count - 1

Cells == UNION {{<<c.device, a>> : a \in AddressesOf(c)} : c \in Accepted}

Nothing == [res |-> "none", values |-> <<>>, of |-> 0]

Init ==
  /\ script \in BOOLEAN /\ timed \in BOOLEAN
  /\ ctx = [ResetContext(ZeroContext) EXCEPT !.in_use = TRUE]
  /\ header = "4E"
  /\ phase = "ready" /\ cmd = [type |-> "none"] /\ report = Nothing
  /\ sent = <<>> /\ peer = "serving" /\ answered = 0
  /\ memory = [x \in Cells |-> {}]
  /\ inbox = <<>> /\ origin = <<>>
-----------------------------------------------------------------------------
(***************************************************************************)
(* Commands (fx5_client_repl.c, fx5_client_commands.c, fx5_client_app.c).  *)
(***************************************************************************)

\* Mutant of Failed: a script goes on too.
FailedGoesOn ==
  report' = [Nothing EXCEPT !.res = "fail"] /\ phase' = "ready"

\* The command failed: the loop asks for the next one, a script is over.
Failed ==
  /\ report' = [Nothing EXCEPT !.res = "fail"]
  /\ phase' = IF script THEN "ended" ELSE "ready"

HeaderCommand ==
  /\ phase = "ready"
  /\ header' \in ClientHeaders
  /\ UNCHANGED <<script, timed, ctx, phase, cmd, report, station, sent, inbox, origin>>

\* quit, or the end of the input.
Quit ==
  /\ phase = "ready" /\ phase' = "ended"
  /\ UNCHANGED <<script, timed, ctx, header, cmd, report, station, sent, inbox, origin>>

\* The values of a set command, until one is refused.
WriteValues(c, values) ==
  LET written[n \in 0 .. Len(values)] ==
        IF n = 0 THEN Ok(c)
        ELSE LET r == written[n - 1]
             IN  IF r.st = "OK" THEN SetWriteValue(r.ctx, n - 1, values[n]) ELSE r
  IN  written[Len(values)]

\* fx5_client_apply_command_to_context: a set on a read-only device stops before
\* the context is reset.
Applied(c) ==
  IF c.type = "set" /\ c.device \in ReadOnly THEN Fail("UNSUPPORTED", ctx)
  ELSE LET net == SetNetworkSettings(ResetContext(ctx), [header |-> header, timer |-> "default"])
           set == SetRequest(net.ctx, IF c.type = "get" THEN "READ" ELSE "WRITE",
                             c.device, c.address, c.count)
       IN  IF set.st # "OK" \/ c.type = "get" THEN set ELSE WriteValues(set.ctx, c.values)

\* fx5_socket_send_all: the request goes out, or the socket reports an error.  On
\* a connection that is gone the bytes may also go nowhere, or (POSIX) the signal
\* SIGPIPE ends the process.
SendIntoClosed ==
  /\ report' = Nothing /\ phase' \in {"receiving", "ended"}
  /\ UNCHANGED sent

Send(w) ==
  \/ /\ peer # "closed"
     /\ sent' = Append(sent, w)
     /\ phase' = "receiving" /\ report' = Nothing
  \/ Failed /\ UNCHANGED sent
  \/ peer = "closed" /\ SendIntoClosed

Start ==
  /\ phase = "ready" /\ Len(sent) < MaxCommands
  /\ \E c \in Cmds :
       \E applied \in {Applied(c)} :
         \E built \in {IF applied.st = "OK" THEN BuildRequest(applied.ctx, MaxRequestSize) ELSE applied} :
           /\ cmd' = c
           /\ ctx' = built.ctx
           /\ origin' = After(origin, Len(ctx.rx) - Len(built.ctx.rx))
           /\ IF built.st = "OK" THEN Send(Wire(built.ctx)) ELSE Failed /\ UNCHANGED sent
  /\ UNCHANGED <<script, timed, header, station, inbox>>

\* fx5_client_print_response, for the answer to request number `of`.
Printed(c, of) ==
  IF c.code # 0 THEN [res |-> "plc_error", values |-> <<>>, of |-> of]
  ELSE [res |-> "ok", of |-> of,
        values |-> IF cmd.type = "get" THEN [i \in 1 .. c.count |-> GetResponseValue(c, i - 1)]
                   ELSE <<>>]

\* One turn of fx5_client_receive_response.  A feed that is refused loses the
\* bytes received: they are in a buffer on the stack.
Recv ==
  /\ phase = "receiving" /\ inbox # <<>>
  /\ \E n \in {k \in Pieces : k < Len(inbox)} \cup {Len(inbox)} :
       /\ inbox' = After(inbox, n)
       /\ \E fed \in {FeedResponseBytes(ctx, SubSeq(inbox, 1, n))} :
            IF fed.st # "OK"
            THEN /\ ctx' = fed.ctx
                 /\ origin' = SubSeq(origin, 1, Len(ctx.rx)) \o After(origin, Len(ctx.rx) + n)
                 /\ Failed
            ELSE \E p \in {StopAt(fed.ctx.rx, fed.ctx.serial)} : \E r \in {ParseAt(fed.ctx, p)} :
                   /\ ctx' = r.ctx
                   /\ origin' = After(origin, Len(fed.ctx.rx) - Len(r.ctx.rx))
                   /\ \/ r.st = "NEED_MORE" /\ UNCHANGED <<phase, report>>
                      \/ /\ r.st \in {"OK", "RESPONSE_ERROR"}
                         /\ phase' = "ready"
                         /\ report' = Printed(r.ctx, origin[p + 1])
                      \/ r.st \in {"RESYNC", "INVALID_COUNT"} /\ Failed
  /\ UNCHANGED <<script, timed, header, cmd, station, sent>>

\* Mutant of Timeout: the client goes on receiving.
TimeoutRetries ==
  /\ phase = "receiving" /\ inbox = <<>> /\ timed
  /\ peer = "silent" \/ (peer = "serving" /\ LateAnswers)
  /\ UNCHANGED vars

\* Mutant of Timeout: it expires over bytes that are there.
TimeoutEarly ==
  /\ phase = "receiving" /\ timed
  /\ peer = "silent" \/ (peer = "serving" /\ LateAnswers)
  /\ Failed
  /\ UNCHANGED <<script, timed, ctx, header, cmd, station, sent, inbox, origin>>

\* SO_RCVTIMEO expires with nothing received (or the wait is broken off by a signal,
\* which happens only where that timeout is set).
Timeout ==
  /\ phase = "receiving" /\ inbox = <<>> /\ timed
  /\ peer = "silent" \/ (peer = "serving" /\ LateAnswers)
  /\ Failed
  /\ UNCHANGED <<script, timed, ctx, header, cmd, station, sent, inbox, origin>>

\* recv finds the connection closed, or reports an error because it is broken.
Closed ==
  /\ phase = "receiving" /\ inbox = <<>> /\ peer = "closed"
  /\ Failed
  /\ UNCHANGED <<script, timed, ctx, header, cmd, station, sent, inbox, origin>>
-----------------------------------------------------------------------------
(***************************************************************************)
(* The station.                                                            *)
(***************************************************************************)

\* The numbers a read of memory m gives.
ReadCells(m, w) ==
  [i \in 1 .. w.count |->
     LET v == m[<<w.device, w.address + i - 1>>]
     IN  IF IsBitDevice(w.device) THEN (IF v = {} THEN 0 ELSE 1) ELSE NumberOf(v)]

\* Memory m after a write: a coil holds BitTrue or nothing.
WriteCells(m, w) ==
  [x \in DOMAIN m |->
     IF x[1] = w.device /\ x[2] \in w.address .. w.address + w.count - 1
     THEN LET i == x[2] - w.address
          IN  IF IsBitDevice(w.device)
              THEN (IF CoilIn(w.payload, i) = 1 THEN BitTrue ELSE {})
              ELSE WordOf(RegisterIn(w.payload, i))
     ELSE m[x]]

Answer ==
  /\ peer = "serving" /\ answered < Len(sent)
  /\ answered' = answered + 1
  /\ LET w == sent[answered + 1] IN
       \E code \in Codes :
         LET done  == code = 0
             bytes == Response(w, code, IF done /\ w.command = "READ" THEN ReadCells(memory, w) ELSE <<>>)
         IN  /\ memory' = IF done /\ w.command = "WRITE" THEN WriteCells(memory, w) ELSE memory
             /\ inbox' = inbox \o bytes
             /\ origin' = origin \o [k \in 1 .. Len(bytes) |-> IF k = 1 THEN answered' ELSE 0]
  /\ UNCHANGED <<client, sent, peer>>

\* It stops answering, or closes the connection: what it sent still arrives.
Stop ==
  /\ peer = "serving" /\ peer' \in {"silent", "closed"}
  /\ UNCHANGED <<client, sent, memory, answered, inbox, origin>>

\* The connection breaks, and the bytes on the way are lost with it.
Break ==
  /\ peer # "closed" /\ peer' = "closed"
  /\ inbox' = <<>> /\ origin' = SubSeq(origin, 1, Len(ctx.rx))
  /\ UNCHANGED <<client, sent, memory, answered>>

Receive == Recv \/ Timeout \/ Closed

Respond == answered < Len(sent) /\ (Answer \/ Stop)

Next == HeaderCommand \/ Quit \/ Start \/ Receive \/ Answer \/ Stop \/ Break

Spec == Init /\ [][Next]_vars

\* recv returns when bytes are there, when the timeout expires or when the
\* connection is closed; a station answers in time or does not.
FairSpec == Spec /\ WF_vars(Receive) /\ WF_vars(Respond)
-----------------------------------------------------------------------------
TypeOK ==
  /\ ctx.in_use /\ Len(ctx.rx) <= IoBufSize /\ header \in Headers
  /\ phase \in {"ready", "receiving", "ended"}
  /\ report.res \in {"none", "fail", "plc_error", "ok"} /\ report.of \in 0 .. answered
  /\ peer \in {"serving", "silent", "closed"} /\ answered <= Len(sent)
  /\ memory \in [Cells -> Words]
  /\ Len(origin) = Len(ctx.rx) + Len(inbox)

\* What is printed for a command is the answer to the request this command
\* sent, not to an earlier one ("receives and parses the response, and prints
\* the formatted result", fx5_client_app.h:73).
PrintsOwnAnswer == report.res \in {"ok", "plc_error"} => report.of = Len(sent)

\* End to end, from the values typed or printed to the station's registers: when
\* a get prints values the station holds them, and when a set prints OK the
\* station holds what was typed, at the addresses typed.
PrintsWhatIsHeld ==
  report.res = "ok" =>
    LET held  == [i \in 1 .. cmd.count |-> memory[<<cmd.device, cmd.address + i - 1>>]]
        typed == [i \in DOMAIN cmd.values |->
                    IF IsBitDevice(cmd.device) /\ cmd.values[i] # {} THEN BitTrue ELSE cmd.values[i]]
    IN  held = IF cmd.type = "get" THEN report.values ELSE typed

\* One command after the other, none reported without an answer, and a script
\* stops at its first failure: the session implements CommandLoop.
Loop ==
  INSTANCE CommandLoop WITH
    at <- CASE phase = "ready" -> "idle" [] phase = "receiving" -> "busy" [] phase = "ended" -> "over",
    result <- report.res
OneAfterTheOther == Loop!Spec

\* No command waits for ever, unless the receive timeout is off (which a timeout
\* of 0 in the file, or a warning at the start, comes to) and the station falls
\* silent: a station that answers anything, or closes, always ends it.
EveryCommandEnds ==
  phase = "receiving" ~> phase # "receiving" \/ (~timed /\ peer = "silent")
=============================================================================
