----------------------------- MODULE MCRingBuf -----------------------------
(***************************************************************************)
(* Small instances of the circular buffer: two byte values, four or five   *)
(* cells, bulk calls one byte longer than the storage, and an index type   *)
(* of 2^3 values in place of 2^16.                                         *)
(***************************************************************************)
EXTENDS RingBuf

MCByte == {0, 1}
=============================================================================
