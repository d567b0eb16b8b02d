----------------------------- MODULE MCFx5Link -----------------------------
(***************************************************************************)
(* A few requests over one link: registers that hold the bytes of a        *)
(* subheader (208), the real frame layout and one word of value storage,   *)
(* so the buffer holds three 4E responses.  The limit of the               *)
(* resynchronization lets one late response be passed over, not two.       *)
(***************************************************************************)
EXTENDS Fx5Link

MCRequests == {<<"READ", "D", 1>>, <<"READ", "M", 2>>, <<"WRITE", "D", 1>>}
MC4E == {"4E"}
MC3E == {"3E"}
MCWords == {208}
MCCodes == {0, 81}
MCPieces == {1, 14}
=============================================================================
