----------------------------- MODULE Fx5Parser -----------------------------
(***************************************************************************)
(* The command language of fx5_client: from a line to a command            *)
(* (fx5_client_parser.c), from an address to what is printed               *)
(* (fx5_client_commands.c), and the number texts of both the commands and  *)
(* the configuration file (fx5_client_utility.c).                          *)
(*                                                                         *)
(* A text is a sequence of symbols.  A letter, a digit, a space and each   *)
(* of "-", "=", "," is a symbol; so is each word the code compares whole.  *)
(* Every kind of white space is " ", and hexadecimal digits are upper      *)
(* case.  The widths of the integer types are parameters.                  *)
(***************************************************************************)
EXTENDS Fx5Context, SequencesExt

CONSTANTS
  U16Range,   \* 2^16
  U32Range,   \* 2^32
  ULongMax    \* ULONG_MAX

ASSUME ParserAssumption ==
  /\ U16Range \in Nat /\ U16Range > MaxBitValueCount
  /\ U32Range \in Nat /\ U32Range >= U16Range
  /\ ULongMax \in Nat /\ ULongMax >= U32Range - 1

Texts == Seq(STRING)

HexDigits == <<"0","1","2","3","4","5","6","7","8","9","A","B","C","D","E","F">>

DigitsOf(base) == {HexDigits[i] : i \in 1 .. base}

DigitValue(d) == (CHOOSE i \in DOMAIN HexDigits : HexDigits[i] = d) - 1

StartsWith(t, symbols) == t # <<>> /\ t[1] \in symbols

\* How many symbols at the front of t are in the set.
LeadingRun(t, symbols) ==
  CHOOSE n \in 0 .. Len(t) : /\ \A i \in 1 .. n : t[i] \in symbols
                             /\ n < Len(t) => t[n + 1] \notin symbols

SkipSpaces(t) == After(t, LeadingRun(t, {" "}))

Trim(t) == Reverse(SkipSpaces(Reverse(SkipSpaces(t))))
-----------------------------------------------------------------------------
(***************************************************************************)
(* Numbers.                                                                *)
(***************************************************************************)

\* What digits stand for, where that is below the top.
ReadUpTo(top, digits, base) ==
  LET read[n \in 0 .. Len(digits)] ==
        IF n = 0 THEN 0 ELSE Min({base * read[n - 1] + DigitValue(digits[n]), top})
  IN  read[Len(digits)]

\* strtoul: the digits it reads, saturated.
StrToUL(digits, base) == ReadUpTo(ULongMax, digits, base)

\* strtoul takes a 0x in front of a hexadecimal number.
PrefixLength(t, base) ==
  IF base = 16 /\ Len(t) > 2 /\ SubSeq(t, 1, 2) \in {<<"0", "x">>, <<"0", "X">>}
     /\ t[3] \in DigitsOf(16)
  THEN 2 ELSE 0

\* Mutant of Number: the value is not cut to 32 bits.
NumberUncut(t, base) ==
  LET skipped == After(t, PrefixLength(t, base))
      run     == LeadingRun(skipped, DigitsOf(base))
  IN  [ok    |-> run > 0,
       value |-> StrToUL(SubSeq(skipped, 1, run), base),
       rest  |-> After(skipped, run)]

\* fx5_client_parse_uint32_cursor(_base): the number at the front of t, cut to
\* 32 bits, and the text after it.
Number(t, base) ==
  LET skipped == After(t, PrefixLength(t, base))
      run     == LeadingRun(skipped, DigitsOf(base))
  IN  [ok    |-> run > 0,
       value |-> StrToUL(SubSeq(skipped, 1, run), base) % U32Range,
       rest  |-> After(skipped, run)]

\* fx5_client_parse_uint32_cursor: a decimal number at the front of t.
Decimal(t) == Number(t, 10)

\* fx5_client_parse_uint32_text: the whole text is a number, with a sign or
\* without; "-" negates what an unsigned long holds.
NumberText(t) ==
  LET digits == IF StartsWith(t, {"-", "+"}) THEN Tail(t) ELSE t
      run    == LeadingRun(digits, DigitsOf(10))
      read   == SubSeq(digits, 1, run)
      n      == StrToUL(read, 10)
      exact  == ReadUpTo(ULongMax + 1, read, 10) <= ULongMax
  IN  [ok    |-> run > 0 /\ run = Len(digits),
       value |-> (IF StartsWith(t, {"-"}) /\ exact THEN (ULongMax + 1 - n) % (ULongMax + 1) ELSE n)
                 % U32Range]

\* fx5_client_parse_uint16_text refuses what does not fit.
IsUint16Text(t) == NumberText(t).ok /\ NumberText(t).value < U16Range

\* An address as it is printed, its digits found from the last.
Numeral(n, base) ==
  LET left[i \in 0 .. n + 1] == IF i = 0 THEN n ELSE left[i - 1] \div base
      size == CHOOSE i \in 1 .. n + 1 : left[i] = 0 /\ (i > 1 => left[i - 1] # 0)
  IN  [j \in 1 .. size |-> HexDigits[(left[size - j] % base) + 1]]
-----------------------------------------------------------------------------
(***************************************************************************)
(* Devices and ranges.                                                     *)
(***************************************************************************)
Entry(name, dev, base) == [name |-> name, device |-> dev, base |-> base]

\* FX5_CLIENT_DEVICE_DESCRIPTORS, in the order of the code.
DeviceTable ==
  <<Entry(<<"S", "M">>, "SM", 10), Entry(<<"S", "D">>, "SD", 10),
    Entry(<<"S", "B">>, "SB", 16), Entry(<<"S", "W">>, "SW", 16),
    Entry(<<"D">>, "D", 10), Entry(<<"M">>, "M", 10), Entry(<<"X">>, "X", 8), Entry(<<"Y">>, "Y", 8),
    Entry(<<"L">>, "L", 10), Entry(<<"F">>, "F", 10), Entry(<<"S">>, "S", 10),
    Entry(<<"B">>, "B", 16), Entry(<<"W">>, "W", 16)>>

NoEntry == Entry(<<>>, "none", 10)

\* The first entry whose name the text starts with.
DevicePrefix(t) ==
  LET named == {k \in DOMAIN DeviceTable : IsPrefix(DeviceTable[k].name, t)}
  IN  IF named = {} THEN NoEntry ELSE DeviceTable[Min(named)]

NoRange == [ok |-> FALSE, device |-> "none", start |-> 0, count |-> 0, rest |-> <<>>]

\* Mutant of Span: the last address is left out.
SpanExclusive(start, end) == (end - start) % U32Range

\* How many addresses a range has, in 32 bits.
Span(start, end) == (end - start + 1) % U32Range

\* fx5_client_parse_device_and_range.  The end of a range that starts with a
\* letter must name the device again, also when the letter is a digit.
DeviceAndRange(t) ==
  LET s      == SkipSpaces(t)
      entry  == DevicePrefix(s)
      first  == Number(After(s, Len(entry.name)), entry.base)
      next   == SkipSpaces(first.rest)
      ranged == StartsWith(next, {"-"})
      e      == SkipSpaces(Tail(next))
      named  == ~StartsWith(e, DigitsOf(10))
      last   == Number(IF named THEN After(e, Len(DevicePrefix(e).name)) ELSE e, entry.base)
      taken(n, rest) ==
        [ok |-> TRUE, device |-> entry.device, start |-> first.value, count |-> n, rest |-> rest]
  IN  IF entry = NoEntry \/ ~first.ok THEN NoRange
      ELSE IF ~ranged THEN taken(1, next)
      ELSE IF \/ named /\ DevicePrefix(e).device # entry.device
              \/ ~last.ok
              \/ last.value < first.value
              \/ Span(first.value, last.value) >= U16Range
      THEN NoRange
      ELSE taken(Span(first.value, last.value), last.rest)

\* Mutant of PrintBase: special registers are printed in decimal.
PrintBaseSpecial(dev) ==
  CASE dev \in {"X", "Y"} -> 8 [] dev \in {"B", "W", "SB"} -> 16 [] OTHER -> 10

\* fx5_client_device_address_base.
PrintBase(dev) ==
  CASE dev \in {"X", "Y"} -> 8 [] dev \in {"B", "W", "SB", "SW"} -> 16 [] OTHER -> 10

\* fx5_client_device_name, as symbols.
DeviceName(dev) ==
  IF dev \in {"SM", "SD", "SB", "SW"}
  THEN <<"S", CHOOSE l \in {"M", "D", "B", "W"} : dev = (CASE l = "M" -> "SM" [] l = "D" -> "SD"
                                                           [] l = "B" -> "SB" [] l = "W" -> "SW")>>
  ELSE <<dev>>

\* fx5_client_print_device_address, for a 32-bit address.
PrintAddress(dev, addr) == DeviceName(dev) \o Numeral(addr % U32Range, PrintBase(dev))
-----------------------------------------------------------------------------
(***************************************************************************)
(* Commands.                                                               *)
(***************************************************************************)

\* fx5_client_command_init, and what a syntax error leaves to be used.
NoCommand ==
  [type |-> "invalid", device |-> "none", address |-> 0, count |-> 0,
   values |-> <<>>, trace |-> "off", header |-> "4E"]

\* The commands that are compared whole.
WholeLines ==
  {[text |-> "help",      command |-> [NoCommand EXCEPT !.type = "help"]],
   [text |-> "quit",      command |-> [NoCommand EXCEPT !.type = "quit"]],
   [text |-> "exit",      command |-> [NoCommand EXCEPT !.type = "quit"]],
   [text |-> "trace on",  command |-> [NoCommand EXCEPT !.type = "trace", !.trace = "on"]],
   [text |-> "trace off", command |-> [NoCommand EXCEPT !.type = "trace"]],
   [text |-> "header 3e", command |-> [NoCommand EXCEPT !.type = "header", !.header = "3E"]],
   [text |-> "header 4e", command |-> [NoCommand EXCEPT !.type = "header"]]}

RangeCommand(type, r) ==
  [NoCommand EXCEPT !.type = type, !.device = r.device, !.address = r.start, !.count = r.count]

\* fx5_client_parse_get.
ParseGet(t) ==
  LET r == DeviceAndRange(t)
  IN  IF r.ok /\ SkipSpaces(r.rest) = <<>> THEN RangeCommand("get", r) ELSE NoCommand

\* The fields of a list, each ended by a comma or by the end of the text; one
\* comma at its end is allowed.
Fields(t) ==
  LET ends   == {i \in 1 .. Len(t) + 1 : i = Len(t) + 1 \/ t[i] = ","}
      end(k) == IF k = 0 THEN 0 ELSE CHOOSE i \in ends : Cardinality({j \in ends : j <= i}) = k
      all    == [k \in 1 .. Cardinality(ends) |-> Trim(SubSeq(t, end(k - 1) + 1, end(k) - 1))]
  IN  IF Len(all) > 1 /\ Last(all) = <<>> THEN Front(all) ELSE all

\* fx5_client_device_is_bit: the parser has its own table of the bit devices.
TakesBool(dev) == dev \in {"M", "SM", "L", "F", "S", "X", "Y", "B", "SB"}

\* fx5_client_parse_bool_word.
BoolWords == {<<"true">>, <<"false">>}

\* A field is a decimal of 16 bits, or a truth value for a bit device.
IsCell(field, dev) ==
  \/ TakesBool(dev) /\ field \in BoolWords
  \/ LET n == Decimal(field) IN n.ok /\ n.rest = <<>> /\ n.value < U16Range

CellValue(field) ==
  IF field \in BoolWords THEN (IF field = <<"true">> THEN 1 ELSE 0) ELSE Decimal(field).value

\* Mutants of ListFits: the limit is passed by one; the range may be longer.
ListFitsLate(fields, count) ==
  Len(fields) <= MaxBitValueCount + 1 /\ (Len(fields) = count \/ (Len(fields) = 1 /\ count > 1))
ListFitsShort(fields, count) ==
  Len(fields) <= MaxBitValueCount /\ Len(fields) <= count

\* A list has a value for each address, or one value for all; the code limits
\* the list to the array it is stored in, not the range that repeats a value.
ListFits(fields, count) ==
  Len(fields) <= MaxBitValueCount /\ (Len(fields) = count \/ (Len(fields) = 1 /\ count > 1))

\* fx5_client_parse_scalar_or_list: a lone truth value fills any range, one of
\* no address too.
ScalarOrList(t, r) ==
  LET fields == Fields(t)
      repeat(v) == [i \in 1 .. r.count |-> v]
  IN  IF TakesBool(r.device) /\ Trim(t) \in BoolWords
      THEN [RangeCommand("set", r) EXCEPT !.values = repeat(CellValue(Trim(t)))]
      ELSE IF ListFits(fields, r.count) /\ \A k \in DOMAIN fields : IsCell(fields[k], r.device)
      THEN [RangeCommand("set", r) EXCEPT !.values =
              IF Len(fields) = 1 THEN repeat(CellValue(fields[1]))
              ELSE [k \in DOMAIN fields |-> CellValue(fields[k])]]
      ELSE NoCommand

\* fx5_client_parse_set.
ParseSet(t) ==
  LET r     == DeviceAndRange(t)
      value == SkipSpaces(r.rest)
  IN  IF r.ok /\ StartsWith(value, {"="}) THEN ScalarOrList(Tail(value), r) ELSE NoCommand

\* fx5_client_parse_command: NoCommand is a syntax error.
ParseCommand(line) ==
  LET t     == SkipSpaces(line)
      whole == {w \in WholeLines : t = <<w.text>>}
  IN  IF whole # {} THEN (CHOOSE w \in whole : TRUE).command
      ELSE IF IsPrefix(<<"get", " ">>, t) THEN ParseGet(Tail(t))
      ELSE IF IsPrefix(<<"set", " ">>, t) THEN ParseSet(Tail(t))
      ELSE NoCommand

\* The line overran cmd->values: what it did to the memory behind is undefined.
Overruns(c) == Len(c.values) > MaxBitValueCount

\* fx5_client_device_allows_write.
AllowsWrite(dev) == dev \notin {"SM", "SD", "SB", "SW"}

\* What fx5_client_apply_command_to_context refuses before anything is sent.
Refused(c) ==
  \/ c.type = "set" /\ ~AllowsWrite(c.device)
  \/ SetRequestStatus("READ", c.device, c.address, c.count) # "OK"
=============================================================================
