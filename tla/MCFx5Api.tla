------------------------------ MODULE MCFx5Api ------------------------------
(***************************************************************************)
(* The API over a small pool: the real frame layout, one word of value     *)
(* storage (16 bits, or one register), and the arguments that matter.      *)
(***************************************************************************)
EXTENDS Fx5Api, TLC

MCSymmetry == Permutations(Callers)

MCSettings == {[header |-> h, timer |-> "default"] : h \in {"3E", "unknown"}}
MCHeaders  == {"4E", "unknown"}
MCTimers   == {"default"}
MCCommands == {"READ", "WRITE"}
MCDevices  == {"D", "M"}
MCAddresses == {0, MaxAddress + 1}
MCCounts   == {0, 1, 16, 17}
MCIndexes  == {0, 1}
MCWords    == {{0}}
MCBufSizes == {24, MaxRequestSize}

\* Responses as a station sends them: header fields the parser skips are 0.
Response3E(code, payload) ==
  <<Low3E, 0, 0, 0, 0, 0, 0, 2 + Len(payload), 0, code, 0>> \o payload
Response4E(serial, code, payload) ==
  <<Low4E, 0, serial, 0, 0, 0, 0, 0, 0, 0, 0, 2 + Len(payload), 0, code, 0>> \o payload

\* What one read from the socket brings: an acknowledgement and a word in one
\* piece; a payload byte that is one bit, or half a word, and then an error; a
\* word for serial 0 cut one byte short, which the next bytes complete.
MCChunks ==
  {Response3E(0, <<>>) \o Response3E(0, <<1, 0>>),
   Response3E(0, <<16>>) \o Response3E(1, <<>>),
   SubSeq(Response4E(0, 0, <<1, 0>>), 1, 16)}
=============================================================================
