---------------------------- MODULE MCFx5Shell -----------------------------
(***************************************************************************)
(* Runs of the client with a few command lines, a configuration file of    *)
(* any length over a few lines, and commands on every device: addresses of *)
(* one and two digits in each base, ranges at and past every limit, lists  *)
(* that fit and lists that do not.                                         *)
(*                                                                         *)
(* 16 bits are 0 .. 19, 32 bits 0 .. 63 and an unsigned long 0 .. 255, so  *)
(* that a value store of one word (16 values) is smaller than a range can  *)
(* be, and texts of two or three digits reach the cut of each width.       *)
(***************************************************************************)
EXTENDS Fx5Shell

MCNumbers == [t \in {"0", "5000", "65535", "65536"} |->
                CASE t = "0" -> 0 [] t = "5000" -> 5000 [] t = "65535" -> 65535 [] OTHER -> 65536]
MCScriptArgs == [a \in {"--script=", "--script=f1", "--script=f2"} |->
                   CASE a = "--script=f1" -> "f1" [] a = "--script=f2" -> "f2" [] OTHER -> ""]

IniLines ==
  {[key |-> "host", value |-> "h2"], [key |-> "trace", value |-> <<"true">>],
   [key |-> "header", value |-> <<"3e">>], [key |-> "header", value |-> <<"5">>],
   [key |-> "recv_timeout_ms", value |-> <<"+", "6", "4">>],
   [key |-> "recv_timeout_ms", value |-> <<"-", "1">>],
   [key |-> "network_no", value |-> <<"5">>], [key |-> "network_no", value |-> <<"?">>]}

DeviceNames == {DeviceName(d) : d \in Devices}

\* The starts and the rest of a range, for a device in any base.
Starts == {<<"0">>, <<"1", "0">>, <<"7", "2">>, <<"F">>}
Ends   == {<<>>, <<"-", "1", "1">>, <<" ", "-", " ", "1", "7">>, <<"-", "F">>,
           <<"-", "B", "1">>, <<"-", "D", "7">>, <<"-", "6", "3">>, <<"-", "3", "F">>}
GetLines == {<<"get", " ">> \o d \o s \o e : d \in DeviceNames, s \in Starts, e \in Ends}

Values17 == <<"1">> \o FlattenSeq([i \in 1 .. 16 |-> <<",", "0">>])
Lists == {<<"1">>, <<"true">>, <<" ", "false", " ", ",">>, <<"true", ",", "0">>, <<"1", "9", ",", "2">>,
          <<"2", "0">>, <<"1", ",", ",", "1">>, <<>>, Values17}
SetLines ==
  {<<"set", " ">> \o d \o <<"0">> \o e \o <<" ", "=">> \o l :
     d \in {<<"D">>, <<"M">>, <<"S", "D">>}, e \in {<<>>, <<"-", "2">>, <<"-", "1", "6">>, <<"-", "6", "3">>},
     l \in Lists}

OddLines ==
  {<<"get">>, <<"get", "D", "1">>, <<"get", " ", "Q", "1">>, <<"get", " ", "W", "0", "x", "1", "F">>,
   <<"get", " ", "D", "3", "0", "0">>, <<"get", " ", "D", "1", " ", "0">>}

WordLines ==
  {<<>>, <<" ", "#">>, <<"help">>, <<"quit">>, <<"trace on">>, <<"trace off">>, <<"header 3e">>, <<"header 4e">>,
   <<"get", " ", "D", "1">>, <<"set", " ", "S", "D", "1", "=", "1">>}

Session(argv_, file, lines) == [argv |-> argv_, file |-> file, lines |-> lines]

Misused ==
  {<<>>, <<"--help">>, <<"h1">>, <<"h1", "0">>, <<"h1", "65536">>, <<"h1", "x">>, <<"h1", "5000", "--script", "f1", "--script">>,
   <<"h1", "5000", "--script=">>, <<"h1", "5000", "--script=f1", "--verbose">>}
Used ==
  {<<"h1", "65535">>, <<"h1", "5000", "--trace", "--header=3e">>, <<"h1", "5000", "--script=f1", "--header=4e">>,
   <<"h1", "5000", "--script", "f1", "--script=f2">>}

MCSessions ==
  {Session(a, IniLines, {}) : a \in Misused} \cup {Session(a, IniLines, WordLines) : a \in Used}
  \cup {Session(<<"h1", "5000", "--script=f1">>, {}, GetLines \cup SetLines \cup OddLines)}

CONSTANTS b1, b2, b3
MCBlocks == {b1, b2, b3}
=============================================================================
