------------------------------ MODULE Fx5Link ------------------------------
(***************************************************************************)
(* One context and the station it talks to, over a byte stream.  The       *)
(* caller sets, builds and sends a request in one go, may give up on it    *)
(* and send the next, feeds the bytes in whatever pieces they come, and    *)
(* parses when it likes.  The station (external: any SLMP server) answers  *)
(* every request in order with a well-formed response, sooner or later.    *)
(*                                                                         *)
(* Each byte in flight or in the ring carries a tag: the number of the     *)
(* request it answers if it is the first byte of the response, else 0.     *)
(***************************************************************************)
EXTENDS Fx5Station

CONSTANTS
  Requests,     \* the <<command, device, count>> the caller sends
  LinkHeaders,  \* the header modes the caller uses
  PlcWords,     \* the numbers the station's registers may hold
  Codes,        \* the response codes it may give
  Pieces,       \* sizes of the pieces the stream arrives in, short of all of it
  MaxRequests   \* bound: requests the caller sends

ASSUME LinkAssumption ==
  /\ Requests \subseteq Commands \X Devices \X Nat
  /\ LinkHeaders \subseteq Headers
  /\ PlcWords \subseteq 0 .. Uint16Range - 1 /\ Codes \subseteq 0 .. 255 /\ Pieces \subseteq Nat \ {0}
  /\ MaxRequests \in Nat

VARIABLES
  ctx,      \* the context
  sent,     \* what the requests sent so far say
  answers,  \* the code and the values the station gave, for those it answered
  stream,   \* bytes on their way to the caller
  streamTag,
  rxTag,    \* tags of the bytes in ctx.rx
  parsed,   \* the status of the last parse, "none" once something else was called
  found     \* history: the tag of the last response that parse took off the ring

vars == <<ctx, sent, answers, stream, streamTag, rxTag, parsed, found>>

Init ==
  /\ ctx = [ResetContext(ZeroContext) EXCEPT !.in_use = TRUE]
  /\ sent = <<>> /\ answers = <<>>
  /\ stream = <<>> /\ streamTag = <<>> /\ rxTag = <<>>
  /\ parsed = "none" /\ found = 0

\* fx5_set_header_mode, fx5_set_request and fx5_build_request, and the send.
Request ==
  /\ Len(sent) < MaxRequests
  /\ \E r \in Requests, h \in LinkHeaders :
       LET set   == SetRequest(SetHeaderMode(ctx, h).ctx, r[1], r[2], 0, r[3])
           built == BuildRequest(set.ctx, MaxRequestSize)
       IN  /\ set.st = "OK" /\ built.st = "OK"
           /\ ctx' = built.ctx
           /\ sent' = Append(sent, Wire(built.ctx))
  /\ parsed' = "none"
  /\ UNCHANGED <<answers, stream, streamTag, rxTag, found>>

\* The values the station may give in answer to the request w.
Vals(w, code) ==
  IF code = 0 /\ w.command = "READ"
  THEN [1 .. w.count -> IF IsBitDevice(w.device) THEN {0, 1} ELSE PlcWords]
  ELSE {<<>>}

Answer ==
  /\ Len(answers) < Len(sent)
  /\ LET i == Len(answers) + 1
         w == sent[i]
     IN  \E code \in Codes :
           \E vals \in Vals(w, code) :
             LET bytes == Response(w, code, vals) IN
               /\ answers' = Append(answers, [code |-> code, vals |-> vals])
               /\ stream' = stream \o bytes
               /\ streamTag' = streamTag \o [k \in 1 .. Len(bytes) |-> IF k = 1 THEN i ELSE 0]
  /\ UNCHANGED <<ctx, sent, rxTag, parsed, found>>

\* The caller keeps the bytes that a full buffer refuses.
Feed ==
  /\ stream # <<>>
  /\ \E n \in {k \in Pieces : k < Len(stream)} \cup {Len(stream)} :
       LET r == FeedResponseBytes(ctx, SubSeq(stream, 1, n)) IN
         /\ r.st = "OK"
         /\ ctx' = r.ctx
         /\ rxTag' = rxTag \o SubSeq(streamTag, 1, n)
         /\ stream' = After(stream, n) /\ streamTag' = After(streamTag, n)
  /\ parsed' = "none"
  /\ UNCHANGED <<sent, answers, found>>

\* Statuses of a parse that took a frame off the buffer.
Taken == {"OK", "RESPONSE_ERROR", "INVALID_COUNT"}

\* After NEED_MORE the caller waits for bytes (NeedMoreIsStable of Fx5Api: a
\* second call would change nothing).
Parse ==
  /\ parsed # "NEED_MORE"
  /\ LET r     == ParseResponse(ctx)
         start == StopAt(ctx.rx, ctx.serial)
     IN  /\ ctx' = r.ctx
         /\ rxTag' = After(rxTag, Len(rxTag) - Len(r.ctx.rx))
         /\ parsed' = r.st
         /\ found' = IF r.st \in Taken THEN rxTag[start + 1] ELSE found
  /\ UNCHANGED <<sent, answers, stream, streamTag>>

Next == Request \/ Answer \/ Feed \/ Parse

Spec == Init /\ [][Next]_vars
-----------------------------------------------------------------------------
TypeOK ==
  /\ ctx.in_use /\ ctx.rx \in Seq(0 .. 255) /\ Len(ctx.rx) <= IoBufSize
  /\ Len(rxTag) = Len(ctx.rx) /\ Len(streamTag) = Len(stream)
  /\ Len(answers) <= Len(sent) /\ Len(sent) <= MaxRequests
  /\ found \in 0 .. Len(answers)

\* A response taken off the buffer is taken whole and alone: what follows it is
\* the start of the next response.
AlignedAfterFrame == parsed \in Taken /\ rxTag # <<>> => rxTag[1] # 0

\* The search goes through a late answer byte by byte (fx5_core.c:365).  Read from
\* the inside, what lies in the buffer before the answer to the last request holds
\* no header that the parser takes: the check of the size turns them all down.
\* It says nothing of that answer, nor of a buffer that starts with it.
Undeceived == Clear(ctx.rx, rxTag, Len(sent), ctx.serial)

\* What parse hands out is the answer to the last request sent, never the late
\* answer to one the caller gave up on: the serial of a 4E header is checked so
\* that no "frame is incompatible with active transaction" (fx5.h, HEADER_MISMATCH).
AnswerIsCurrent == parsed \in {"OK", "RESPONSE_ERROR"} => found = Len(sent)

\* A read that succeeds gives, index by index, the values the station sent: the
\* byte and nibble order on the wire and the packing in the value store agree.
ValuesAreTheAnswers ==
  parsed = "OK" /\ ctx.command = "READ" =>
    LET vals == answers[found].vals IN
      /\ ctx.count = Len(vals)
      /\ \A i \in 0 .. ctx.count - 1 :
           GetResponseValue(ctx, i) =
             IF IsBitDevice(ctx.device) THEN (IF vals[i + 1] = 1 THEN BitTrue ELSE {})
             ELSE WordOf(vals[i + 1])

\* However the bytes are cut and whatever late answers come first: once every
\* answer has come and parse has nothing more to say, the answer to the last
\* request has been handed out.  A caller that goes on parsing loses none.
LastAnswerNotLost ==
  stream = <<>> /\ Len(answers) = Len(sent) /\ parsed = "NEED_MORE" => found = Len(sent)
=============================================================================
