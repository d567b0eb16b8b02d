---------------------------- MODULE MCFx5Client ----------------------------
(***************************************************************************)
(* A session of a few commands: one register and two coils, read and       *)
(* written; a read of more coils than the value store holds; and a write   *)
(* to a read-only device.                                                  *)
(***************************************************************************)
EXTENDS Fx5Client

Get(dev, addr, n)      == [type |-> "get", device |-> dev, address |-> addr, count |-> n, values |-> <<>>]
Put(dev, addr, values) == [type |-> "set", device |-> dev, address |-> addr, count |-> Len(values), values |-> values]

MCCmds ==
  {Get("D", 7, 1), Put("D", 7, <<{0, 9}>>), Get("M", 3, 3), Put("M", 4, <<{0}, {}>>),
   Get("M", 3, 17), Put("SD", 7, <<{0}>>)}
MCHeaders == {"3E", "4E"}
MC4E == {"4E"}
MCCodes == {0, 81}
MCPieces == {9}
=============================================================================
