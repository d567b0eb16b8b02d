---------------------------- MODULE MCParseLoop ----------------------------
(***************************************************************************)
(* Every content of a short ring, on the shortest headers of the library's *)
(* form: magic, packet size (3E) and magic, serial, packet size (4E).  208 *)
(* and 212 start the subheaders, 0 ends them, 2 is the least packet size.  *)
(* The serial 208 is itself the bytes of a 3E subheader.                   *)
(***************************************************************************)
EXTENDS ParseLoop

MCByte == {0, 2, 208, 212}
\* 8 is a packet size that fits the buffer, but not behind a header.
MCFitByte == {0, 8, 208}
MCSerials == {0, 208}
=============================================================================
