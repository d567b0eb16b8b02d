# TLA+ development for fx5_slmp_library

The repository is a small C library that speaks SLMP (binary 3E and 4E frames)
with Mitsubishi FX5 PLCs, and a command-line client built on it. This directory
holds TLA+ modules that model the library and the client from their source, TLC
configurations that check them on small instances, and proofs for TLAPS.
`PROJECT.json` lists the runs, their mutants, the source lines of every
definition, the findings, the hazards and the theorems.

    tlc -workers 2 -config MCRingBuf.cfg MCRingBuf      # a model check
    tlapm RingBufProofs.tla                             # the proofs

## The system

| component | state | operations | modelled in |
|---|---|---|---|
| receive ring, `fx5_ringbuf.c` | storage, `head`, `tail`, `size` | init, clear, push, pop, peek, bulk push, bulk drop | `RingBuf`, `ByteQueue` |
| response framing, `fx5_response.c` and the loop of `fx5_parse_response` | bytes in the ring, `resync_counter` | find a header, skip bytes, wait, give up | `Fx5Frame`, `ParseLoop` |
| contexts, `fx5_core.c`, `fx5_request.c`, payloads in `fx5_response.c` | static pool; per context: settings, serials, request, values, response code, ring | acquire, release, reset, settings, set request, set value, build, feed, parse | `Fx5Context`, `Fx5Api` |
| a context and its station | the above, bytes on their way | send, answer, feed, parse | `Fx5Station`, `Fx5Link` |
| client, `fx5_client_app.c`, `_commands.c`, `_repl.c`, `_transport.c` | context, socket, header mode, command | execute a command, receive loop, time out, print; initialize, read lines, shut down | `Fx5Client`, `CommandLoop`, `Fx5Shell` |
| client parser, `fx5_client_parser.c`, `_utility.c`, the address printer of `_commands.c` | none kept | text to command, address to text | `Fx5Parser` |
| client configuration and `main.c` | configuration, its two strings, exit code | defaults, file, options, free | `Fx5Shell` |
| tests, Unity, build files, docs | | | not modelled: read for what they promise |

How they interact. The library has no threads, callbacks or I/O: an application
builds a request into its own buffer, sends it, feeds what it receives and
parses until a response is there. The contexts are the only shared state; the
ring inside each holds bytes from one `feed` to the next `parse`. The client is
one such application: a context, a blocking socket with a receive timeout, one
command after another. What is hard is order, not concurrency: responses that
TCP cuts anywhere, answers that come after the caller gave up, a search for the
next header through bytes that may look like one, calls in any order on one
context, and one `count` and one value store used by requests and responses
both.

What makes each correct, in short:

* ring: a bounded FIFO queue, whatever mix of calls;
* framing: the search ends, misses nothing, does not depend on how the bytes
  were cut, and leaves the buffer at the start of a frame;
* contexts: one owner each, counts within the store, failed calls change
  nothing, nothing of one owner is seen by the next, every legal request fits;
* link: what is handed out is the answer to the last request, value by value;
* client: what it prints is what the station holds, and no command hangs;
  commands run one after the other and a script stops at its first failure;
* parser: what is printed can be typed back, a request that is sent has a value
  for each of its addresses, and no list is stored past its array;
* process: the stronger source of a setting wins, strings, socket and context are
  given back on every way out, and the exit code tells what happened.

## Modules

**ByteQueue** is what `fx5_ringbuf.h` promises: a sequence of bytes of bounded
length, the last result and the caller's output variable.

**RingBuf** is `fx5_ringbuf.c`: storage as a function on cells, `head`, `tail`,
`size`, one action per function. The loops of the bulk calls are their closed
form. `OffsetIndex` keeps the 16-bit sum of `fx5_ringbuf_offset_index`; the
range of the index type is the constant `IndexRange`. `Fifo` is the refinement:
the queue is the contents from `tail` on.

**Fx5Frame** gives the search of `fx5_parse_response` over a byte sequence in
closed form: `StopAt` is the number of bytes it drops and `VerdictAt` what it
decides there. The header layout is a parameter.

**ParseLoop** is the search itself, one step per turn of the loop in
`fx5_try_resync` or in `fx5_parse_response`. The invariant `ReturnsVerdict` ties
it to `Fx5Frame`, and so justifies that the other modules use the closed form.

**Fx5Context** has an operator for each call on a context: it takes a context
record and gives the status and the context after the call. A 16-bit word of the
value store is the set of its bits; `WordOf`, `NumberOf`, `PackBits`,
`PackWords`, `NibbleOf` and `ReadValues` are the conversions to and from bytes.
The header and the prefix of a request are a record (`Wire`), its payload is
bytes. `WordOf` and `NumberOf` shift and add a bit at a time: the provers cannot
reason about a power of two with a variable exponent. `resync_counter` is local to a parse. The defensive checks for null
arguments other than the handle are left out: they return before anything is
read or written.

**Fx5Api** puts the pool around it: callers with one handle each, and any call
at any time with good and bad arguments. `last` records the last call, for the
action properties; `residue` records which slots hold values of an earlier owner.

**Fx5Station** (external) builds responses and reads write payloads as an SLMP
server would. **Fx5Link** composes a context with it over a byte stream. Each
byte has a tag that says which response it begins. The routing fields are those
of the repository's test vectors (00 FF FF 03 00), which matter to a search that
reads a response from the inside. `Undeceived` says that in what lies before the
current answer the parser takes nothing for a header but the start of a response.

**Fx5Client** composes the context operators, the station with its registers,
and the client: `Start` is `fx5_client_app_execute_command` up to the send,
`Recv` one turn of the receive loop with feed, parse and print, `Timeout` and
`Closed` the other results of `fx5_socket_recv_some`. A command is already
parsed. Whether a script runs is chosen at the start, and so is `timed`: whether
the receive timeout is set and not 0. `Send` may fail at any time; sending into a
closed connection fails, goes nowhere, or ends the process (SIGPIPE is not ignored).
`Break` is a connection that is reset: what was not yet received is lost. A `recv`
that a signal interrupts returns an error, and the client then does what it does
after a timeout. A send that fails after a part of the request went out is not
modelled: the station sees no whole request.

**CommandLoop** is what the client's README says of its two modes: commands one
at a time, each with a result or a failure, a result only for a request that was
sent, and a script that stops at its first failure. `OneAfterTheOther` in
`Fx5Client` is the refinement: idle, busy and over are the phases, the result is
what was printed.

**Fx5Parser** is the command language. A text is a sequence of symbols: a letter,
a digit, a punctuation mark, or a word the code compares whole. All white space
is one symbol, hexadecimal digits are upper case. The widths of `uint16_t`,
`uint32_t` and `unsigned long` are parameters, so that saturation in `strtoul` and
the cut to 32 and 16 bits are reached by short texts. `DeviceAndRange`, `Fields`,
`ListFits`, `ScalarOrList` follow the functions of `fx5_client_parser.c`;
`PrintAddress` is the printer; `Refused` is what `fx5_client_commands.c` turns down
before anything is sent. `Overruns` tells the lines whose repeated value is
written past `cmd->values`.

**Fx5Shell** is one run of the process, one action per step of `main`,
`fx5_client_app_run` and the loops: `Usage` and `Configure` (arguments), `FileLine`
(`apply_kv`), `SetHost`, `Option`, `AppInit`, `OpenScript`, `ReadLine`,
`EndOfInput`, `Shutdown`. The file is any sequence of its possible lines, of any
length, which includes the pieces that `fgets` makes of a long one. `malloc` may
fail wherever it is called. `AppInit` may fail at each of its steps, and then there
is no shutdown, as in the code. The uninitialized `tmp16` of `apply_kv` is any
byte. A line that overruns the array ends the process or goes on as if nothing
had happened. A get or set succeeds, fails, or ends the process (SIGPIPE); which of
them is nondeterministic here: that is `Fx5Client`. Of the settings that are read alike one stands for
all, and the port of the file is left out, since the argument always replaces it.

Modules called `MC...` extend these for TLC. Definitions whose comment starts
with "Mutant of" are not part of the model: each is a plausible bug in a
definition, and shows that a property would catch it (`mutants` in
`PROJECT.json`).

## Runs

| run | checks | result |
|---|---|---|
| `ringbuf_fifo` | `TypeOK`, `IndicesAgree`, `PeekInOrder`, refinement `Fifo` | holds |
| `ringbuf_wide` | `PeekInOrder` with a capacity above half the index range | violated |
| `parse_loop` | `TypeOK`, `ReturnsVerdict`, `PiecesDoNotMatter`, liveness `Returns` | holds |
| `parse_limit` | `DiscardsWithinLimit` | violated |
| `parse_fits` | `AwaitedFrameFits` | violated |
| `api` | `TypeOK`, `OneOwner`, `CountWithinStore`, `RequestsFit`, `NoResidue`, `NeedMoreIsStable`; steps: `FailuresChangeNothing`, `ParseTakesBytes`, `RefusedParseKeepsValues` | holds |
| `api_keep_values` | `NoResidue` with `FX5_CLEAR_VALUES_ON_SET_REQUEST` = 0 | violated |
| `link_4e` | `TypeOK`, `AlignedAfterFrame`, `AnswerIsCurrent`, `ValuesAreTheAnswers`, `LastAnswerNotLost`, `Undeceived` | holds |
| `link_3e` | `AlignedAfterFrame` in 3E mode | violated |
| `client` | `TypeOK`, `PrintsOwnAnswer`, `PrintsWhatIsHeld`, liveness `EveryCommandEnds`, refinement `OneAfterTheOther` | holds |
| `client_late` | `PrintsOwnAnswer` when answers may come after the timeout | violated |
| `shell` | process: `TypeOK`, `Precedence`, `StringsOwned`, `EndReleases`, `ExitCode`; parser: `AddressesReadBack`, `RangesReadBack`, `SetIsWhole`, `StoresStayInside` | holds |

### Bounds

* `ringbuf_fifo`: 4 cells, 2 byte values, bulk calls of up to 5 bytes, 8 index
  values. Every wrap position, the full and the empty ring and a bulk call
  larger than the storage occur. The proofs cover every other size.
* `parse_loop`: headers of 4 and 6 bytes in place of 9 and 13, a limit of 2 in
  place of 64, every content of up to 8 bytes over {0, 2, 208, 212}. Two frames,
  a frame behind garbage, subheaders inside a serial (208), sizes too small and
  too large, and searches that end below, at and above the limit all occur.
  `parse_fits` adds the byte 8, a packet size that fits the buffer alone.
* `api`: the real layout, one word of value storage (so 16 coils, or one
  register, and a buffer of 49 bytes), one context, two callers, counts 0, 1, 16
  and 17, a serial that wraps after two requests, three chunks that hold whole,
  faulty and cut responses. More slots add no interaction between contexts: they
  share nothing but the choice of the first free one. `Fx5ApiProofs` covers all
  sizes for ownership and bounds.
* `link_4e`, `link_3e`: three requests, answers cut after 1 or 14 bytes or not
  at all, a limit of 20 bytes so that one late response is passed over in one
  call and two are not, response code 0 or an error. A register holds 208, the first
  byte of a subheader, so searches from inside a late answer meet it and the size
  check has to turn it down.
* `client`: three requests that reach the station out of six commands (two reads,
  two writes, one count too large, one write to a read-only device), pieces of
  nine bytes, both header modes, response code 0 or an error, with and without a
  receive timeout.
* `shell`: 16 bits are 0 .. 19, 32 bits 0 .. 63, an unsigned long 0 .. 255, a byte
  0 .. 3. The value store has 16 places, so a range can be longer than the store
  and shorter than the limit of 16 bits, as in the code, and texts of two or three
  digits reach the cut of each width. Every device with four starts and eight
  ends of a range: ends below the start, letters as first digit, another device's
  name, a whole 32-bit range. Lists that fit, are short, long, empty in the middle,
  or hold a value too large. Fourteen command lines, eight lines of the file, ten
  lines of the terminal. Three blocks of memory: host, script and the copy of
  either made before the old one is freed.

`CHECK_DEADLOCK FALSE` is set where the system stops by itself: a call that has
returned, a bounded number of requests that are all answered, a client or a
process that has ended. The ring and the API never stop.

### Fairness

`ParseLoop` assumes that a running call goes on running (`WF_vars(Next)`): it is
sequential code. `Fx5Client` assumes that `recv` returns when bytes are there,
when the timeout expires or when the connection is closed (`WF_vars(Receive)`), and
that a station either answers or stops (`WF_vars(Respond)`). The receive timeout is
not assumed: it is off when the file sets it to 0 or setting it fails, of which
the client only warns. `EveryCommandEnds` therefore allows one way to wait for ever,
a station that falls silent while no timeout is set; all others must end. No
fairness is assumed of the person at the terminal.

### What the violated runs show

* `ringbuf_wide`: `fx5_ringbuf_peek` with a capacity above 32768 reads a wrong
  cell. The library's own buffer can be 32801 bytes, but it peeks at offsets of
  at most 12, which stay within 16 bits.
* `parse_limit`: one call may discard everything in the buffer; the limit only
  decides what is returned. A call that passes the limit returns RESYNC even when
  the next byte starts a good frame; the caller has to parse again.
* `parse_fits`: a packet size between the buffer size less the header and the
  buffer size makes the parser wait for bytes that cannot be fed.
* `api_keep_values`: neither reset, release nor acquire clears the values. With
  the default build `fx5_set_request` does, which is why `NoResidue` holds in `api`.
* `link_3e`: an odd payload for a word read stays in the buffer. A conforming
  station is enough: the late answer to a read of one or two coils.
* `client_late`: the reset before each command sets the next serial to 0, so the
  serial check of 4E never tells a late answer from the current one.

Three more departures have no run of their own. When initialization
fails, `fx5_client_app_run` returns without shutdown, though `fx5_client_app.h:61` says
that it performs it before returning: `EndReleases` leaves those runs out. A value
repeated over a range longer than the value array is written past its end;
`StoresStayInside` shows that nothing else is, and that the request would have been
refused. And a late answer can be taken for the current one in 4E: the serial of
the 209th request is 208, D0 00 in the header. Passed over a byte at a time, that
is a 3E subheader whose size field falls on the 03 00 of the routing bytes: a size
of 3 passes, and 3E has no serial to check. The current request gets that piece of an
older answer as a PLC error. 209 requests are out of TLC's reach with the sizes as they
are; in the instance of `link_4e` the size check turns down everything that is found
inside an answer, which is what `Undeceived` says and what its mutant removes.

A PLC error ends a script command like success: the client prints it and goes
on, though the client's README says that the process returns non-zero when "a
command fails". The model does the same; the sentence leaves open which is meant.

## Proofs

**RingBufProofs**, for every capacity, byte set and chunk bound:

* `TypeCorrect`, `CountersAgree`: the inductive invariant is `TypeOK` and
  `IndicesAgree` together; neither is inductive alone, since a drop moves `tail`
  by an amount that only `size` bounds, and `head` is right only if both are.
* `PeekCountsFromOldest` assumes `2 * Capacity - 2 < IndexRange` and follows from
  the type invariant: the assumption is exactly what `ringbuf_wide` breaks.
* `ImplementsQueue`: each step of the ring is a step of `ByteQueue`, one lemma per
  action, over lemmas on advancing around the ring.

**Fx5ApiProofs**, for every pool size, set of callers, `FX5_MAX_VALUE_COUNT`,
serial range and arguments:

* The inductive invariant `IInv` adds to `OneOwner` that handles point into the
  pool and that every context is `Sound`: it has the fields of a context, and its
  count is at most what its device allows, or 0 while it has no device. `OneOwner`
  needs it because the `in_use` flag that a call gives back is only that of the
  record it took if that is a context.
* One lemma per call: a sound context stays sound and in the same hands
  (`Keeps`), and no call but `fx5_set_request` makes its count grow
  (`KeepsCount`). `KeptByCall` lifts them to a step of the pool.
* `Ownership`, `IndexesInStore`, `RequestsAlwaysFit` follow from `IInv`;
  `ErrorsChangeNothing` (the action property) from it and `FailedCall`.
* `NothingInherited` assumes `ClearValuesOnSetRequest`, the setting whose absence
  `api_keep_values` breaks. `Clean` strengthens `NoResidue`: a context whose count
  is not 0 holds no residue, whatever slots the count reaches.

* `Typed` is the type of a context with its buffer within `FX5_IOBUF_SIZE`; one lemma
  per call shows that it is kept and that the status is one of the API.
  `ApiTypeCorrect` is the type invariant of the pool.
* `ParsingEnds`, `RefusalsKeepValues`: `PduTakes` and `ParseGives` say what a parse
  removes from the buffer and what it leaves of the context, per outcome.
* `WaitingIsStable`: if the search stops to wait, it stops at the same place in what
  it has left (`StaysPut`).

**Fx5FrameProofs** holds the facts about the search in closed form, for every
layout of the header that satisfies `LayoutAssumption`: the search has a first place
to stop (a nonempty set of naturals has a least element, from the
well-foundedness of `<`), what a header says in a piece of a buffer it says in
the whole (`PieceReads`), and a frame found in the whole is found in what
the first of two pieces leaves, together with the second (`PiecesAgree`).

**ParseLoopProofs**, for every layout, limit, byte set and buffer length:

* The inductive invariant `LoopInv`: the ring is the buffer without the bytes
  counted, none of the places passed was one to stop at, and the header loop is
  only entered at a header, with the counter within the limit. `ReturnsVerdict` is
  not inductive: it says nothing before the call returns.
* `LoopTypeCorrect`, `LoopComputesVerdict`, `AnyPiecesWillDo`. The second is what
  entitles the other modules to use the closed form.

**Fx5StationProofs** holds what the parser reads from the bytes of the station,
for every request that validates, response code and table of numbers: a response
is one frame of its own length (`ResponseFacts`, `StandsReads`), a parse for the
request it answers gives its code and its numbers, index by index (`ReadsBack`,
`PduAnswers`, `ParseAnswers`), and a parse for another one takes it off the buffer
or leaves a part (`PduParses`, `ParseParses`). A response of which only a beginning has arrived is
waited for, and read once it is whole (`AloneReads`, `AloneParses`). From the reset of
a context to the payload, a request asks for what the calls were given, and its
payload holds the values that were set (`ResetMakes` to `PayloadSays`).
`HeaderAssumption` fixes the header
to that of `fx5_layout.h`, which the station writes.

**Fx5LinkProofs**, for every set of requests, table of values, set of codes, size
of the pieces, limit of the search and number of requests. Three inductive
invariants, each on top of the one before:

* `TypeInv`: the context is well formed, every request sent is one that validates,
  every answer is one to its request, and each byte in flight has one tag.
  `LinkTypeCorrect` follows from it alone.
* `FlowInv`: what is in the buffer and on its way together is a sequence of whole
  responses in order, the first possibly without its beginning (`Flow`); none of
  them was handed out yet; the context looks for the serial of the last request;
  the answer to that request was handed out, is in flight or is yet to come
  (`Pending`). `LastAnswerNotLost` is not inductive: it says nothing until the
  buffer is empty. `NoAnswerLost` holds for any mix of header modes.
* `CurrentInv`: the k-th last request has the serial k before the next one
  (`Stamped`, across the wrap), and the context holds the command, the device and,
  until it has the answer, the count of the last request (`Matching`). It gives
  `OnlyTheCurrentAnswer`, `FramesStayAligned` and `ReadsGiveTheAnswers`.

The hypotheses say what the code relies on, and no more than that:

* `Undeceived`: a late answer is passed over a byte at a time (`fx5_core.c:365`), and
  in what lies before the current answer nothing but the start of a response is
  taken for a header. It may fail: the serial 208 above is such a case, and a value
  of 208 or 212 in front of bytes that read as a small size is another. Serials and
  values that hold the bytes of a subheader but no plausible size after them
  satisfy it, and so does every buffer that starts with the current answer.
  `link_4e` checks it for its instance.
* `LinkHeaders = {"4E"}`, for the last three: a 3E response has no serial, and
  `link_3e` breaks `FramesStayAligned` without it.
* `Recent`, for the last three: no response in the buffer is a whole round of serials
  old. With 65536 serials that means a caller who left 65535 requests unparsed.
  `FewAreRecent` derives it when no more requests are sent than there are serials.

A caller that sends no request before it has the answer to the one before
(`Patient`) needs none of the three: `WaitingCallersGetTheirAnswers` shows the four
properties for every value, every serial, any number of requests and any mix of
header modes. Its invariant adds `Begun`: what is in flight starts with a response,
and with one request unanswered that is the current one, so nothing is passed over.

**Fx5ClientProofs**, for every list of commands, set of response codes, size of the
pieces, header modes and number of requests:

* `ImplementsLoop` needs no invariant: each action's guard on `phase` already says
  which step of `CommandLoop` it is.
* `ClientTypeCorrect`, from `TypeInv`: the context is well formed, every request that
  reached the station is one that validates and names cells it has (`SentRight`),
  and there is one tag for each byte that is buffered or on its way.
* `AnswersItsOwnRequest` and `PrintedIsTrue`. The inductive invariant `IInv` adds to
  `TypeInv` what holds between two commands and during one (`Exchange`): when no
  command waits, nothing is buffered, on its way or, with a serving station, still
  to be answered; while one waits, the last request is its own (`Says`, `Made`), and
  either it is not answered yet or the buffer and the socket together are
  exactly the bytes of its answer, computed from what the station holds now
  (`OnItsWay`). `PrintsWhatIsHeld` alone is not inductive: it says nothing until
  the command ends. `Coils` says that a coil holds "on" or "off" only; without it a
  coil could hold a word that prints as another.
* `PrintedIsTrue` goes from the values typed to the station's cells and back: the
  call that sets a value (`WriteMakes`, `WrittenMakes`), the packing into the payload
  (`PayloadSays`), the station's reading of it, its answer, cut anywhere, and the
  parse (`AloneParses`, `RecvReads`). `WordsReadBack` says that a word read as bits
  of a number gives the word that the number was made from.

The hypothesis of the last two is `LateAnswers = FALSE`: the station does not answer
a request after the client gave it up. `client_late` breaks `PrintsOwnAnswer` without
it. A station that falls silent for good or closes is covered, and so are a send
that fails and a connection that breaks in the middle of an answer: then nothing is
left on its way (`Broken`), and what is buffered is gone with the next reset.

**Fx5ShellProofs**, for every command line, file, script, set of addresses and
integer width. The inductive invariant `IInv` says, beside the four properties: the
sources speak in the order of their strength (`InOrder`), nothing is taken or
reported before initialization (`NotStarted`), the host is set once the file is read
(`HostIsGiven`), a script is configured exactly if an option seen so far names one
(`OptionsSeen`), and what is reported fits the code returned (`CodeFits`). `ExitCode`
needs `OptionsSeen` because the loop tests the configured path, the property the
arguments.

A second invariant, `Sorts`, is about the data: the configuration keeps its widths
and the command held is one that a line can parse to (`Parsed`). It rests on lemmas
about each part of the language, for every text: what trimming and skipping leave
is a text, a number read is within its width however many digits it has, a range
counts at most 16 bits, a list that fits has as many values as the range or one for
all (`NumberFacts`, `RangeFacts`, `FieldsFacts` and the lemmas after them up to
`LineParsed`).

* `ShellTypeCorrect` puts the two invariants together.
* `SetsAreWhole`, `ValuesStayInside` follow from `Parsed` and from what
  `fx5_set_request` refuses; only here the size of the array matters.
* `PrintedAddressesParse`, `PrintedRangesParse` are about a text the program made
  itself. A numeral is a division repeated from the last digit, `strtoul` a
  multiplication repeated from the first: after `k` digits it has read what was left
  of the number `k` divisions before the last one (`NumeralFacts`). Then the texts
  are cut where they meet: the run of digits ends at the dash (`NumberReads`), the
  first entry of the table that a name and a digit of its base begin with is that
  device (`DeviceReads`: `S` comes after `SM`, `SD`, `SB`, `SW` in the table, and no
  decimal digit is one of those letters), and a second end that begins with a decimal
  digit is not taken for a name (`EndReads`). `Parsed` says that a get is a range
  with a last address (`IsGet`), the whole 32-bit range with its count of 0 included.
* `ShellAssumption` says what the proofs need of the inputs: lines and the values
  of the file are sequences of symbols.

### What the proofs do not cover

Every invariant and every action property of the passing runs but `Undeceived` is
proved: two under `LateAnswers = FALSE`, and those of the link either under
`Undeceived` (and, but for `LastAnswerNotLost`, 4E headers and `Recent`) or under
`Patient`. `Undeceived` itself depends on the values. Model-checked only:
liveness (`Returns`, `EveryCommandEnds`), which is out of the prover's reach with the
fairness it rests on, and the runs that expect a violation.

Induction theorems take an operator and cannot be instantiated here. Where a fact
about a recursive function was needed, it is proved by the least counterexample
instead (`LeastExists` in `Fx5FrameProofs`).

## Not modelled

* In the link: a station that answers in another header type than the request's, a
  change of the header mode while an answer is on its way (a late 3E answer is then
  taken for the 4E one: the library accepts 3E for 4E by design), and the
  209 requests after which a serial reads as a subheader (above). The search
  from inside any bytes is in `parse_loop`.
* Bytes of a send that fails half-way.
* A second copy of a handle that is used after `fx5_release`: callers have one
  variable each.
* Which pieces of a long line belong together: a file is any sequence of lines.
* What a bad number in the file does beyond the byte it leaves: no text of the
  repository says what it should do.
* The defensive checks for null arguments, the trace output, wording and layout of
  what is printed, socket set-up on Windows.
* Tests, Unity, build files, documents: read for what they promise, no behaviour
  of their own.
