------------------------------ MODULE Fx5Shell ------------------------------
(***************************************************************************)
(* One run of the fx5_client process around its commands: arguments and    *)
(* configuration (main.c, fx5_client_config.c), initialization, shutdown   *)
(* and the exit code (fx5_client_app.c), and the loops that read lines,    *)
(* parse them and hand them on (fx5_client_repl.c).                        *)
(*                                                                         *)
(* What a get or set does on the network is in Fx5Client; here it succeeds *)
(* or fails, and fails for certain when the request is refused beforehand. *)
(*                                                                         *)
(* A file is any sequence of lines.  That includes what fgets makes of a   *)
(* line longer than its buffer: pieces, each taken for a line.             *)
(***************************************************************************)
EXTENDS Fx5Parser

CONSTANTS
  Sessions,   \* what a process may be started with and given: its arguments without
              \* the program name, the lines fx5_client.ini may have that are not
              \* comments, as [key, value], and the lines of the script or terminal
  Numbers,    \* what strtol reads of the arguments that are numbers
  ScriptArgs, \* the path, or "", in an argument that starts with --script=
  ByteRange,  \* 2^8
  Blocks,     \* addresses malloc can give
  NULL

ASSUME ShellAssumption ==
  /\ \A s \in Sessions : /\ s.argv \in Seq(STRING) /\ s.lines \subseteq Texts
                           /\ \A l \in s.file : l.key # "host" => l.value \in Texts
  /\ DOMAIN ScriptArgs \cap {"--trace", "--header=3e", "--header=4e", "--script"} = {}
  /\ ByteRange \in Nat \ {0} /\ NULL \notin Blocks

VARIABLES
  session, \* [argv, file, lines]
  arg,     \* index of the option that main looks at
  phase,   \* where main is
  config,  \* fx5_client_config_t
  heap,    \* the strings that malloc holds, by address
  sock,    \* app->sock: "none", "open" or "closed"
  held,    \* app->ctx is acquired
  timed,   \* recv on the socket gives up after a while
  cmd,     \* what the last line parsed to
  rc,      \* the exit code
  said,    \* history: what file, options and commands said of each setting
  trouble  \* history: what went wrong

app  == <<sock, held, timed>>
vars == <<session, arg, phase, config, heap, app, cmd, rc, said, trouble>>

argv == session.argv

Settings == {"header", "trace"}
Silent   == [key \in Settings |-> "none"]

\* fx5_client_config_init.
DefaultConfig ==
  [host |-> NULL, script |-> NULL, header |-> "4E", trace |-> "off", timeout |-> "set", network |-> 0]

\* The configuration is not read before fx5_client_config_init.
Init ==
  /\ session \in Sessions /\ arg = 3 /\ phase = "args"
  /\ config = DefaultConfig /\ heap = <<>>
  /\ sock = "none" /\ held = FALSE /\ timed = FALSE
  /\ cmd = NoCommand /\ rc = 0
  /\ said = [source \in {"file", "options", "commands"} |-> Silent]
  /\ trouble = {}
-----------------------------------------------------------------------------
(***************************************************************************)
(* Strings of the configuration.                                           *)
(***************************************************************************)

Free(h, p) == [b \in DOMAIN h \ {p} |-> h[b]]

Store(h, p, text) == [b \in DOMAIN h \cup {p} |-> IF b = p THEN text ELSE h[b]]

\* Mutant of SetString: the string before it is not freed.
SetStringOver(field, text) ==
  LET b == CHOOSE x \in Blocks : x \notin DOMAIN heap IN
  /\ Blocks \ DOMAIN heap # {}
  /\ heap' = Store(heap, b, text)
  /\ config' = [config EXCEPT ![field] = b]

\* fx5_client_config_set_host, fx5_client_config_set_script_path: the copy is
\* made before the string it replaces is freed.
SetString(field, text) ==
  LET b == CHOOSE x \in Blocks : x \notin DOMAIN heap IN
  /\ Blocks \ DOMAIN heap # {}
  /\ heap' = Store(Free(heap, config[field]), b, text)
  /\ config' = [config EXCEPT ![field] = b]

\* malloc may fail: nothing changes then.
NoMemory == UNCHANGED <<config, heap>>

\* fx5_client_config_free, and the end of main.
FreeConfig ==
  /\ heap' = Free(Free(heap, config.host), config.script)
  /\ config' = [config EXCEPT !.host = NULL, !.script = NULL]
  /\ phase' = "ended"

\* The process ends before the client is initialized.
GiveUp(code, what) == FreeConfig /\ rc' = code /\ trouble' = trouble \cup what
-----------------------------------------------------------------------------
(***************************************************************************)
(* main: arguments, configuration file, options.                           *)
(***************************************************************************)

\* fx5_client_parse_port.
IsPort(text) == text \in DOMAIN Numbers /\ Numbers[text] \in 1 .. 65535

\* --version, --help or -h alone, too few arguments, or a port that is none.
Usage ==
  /\ phase = "args"
  /\ \/ Len(argv) = 1 /\ argv[1] \in {"--version", "--help", "-h"}
        /\ rc' = 0 /\ UNCHANGED trouble
     \/ Len(argv) = 1 /\ argv[1] \notin {"--version", "--help", "-h"}
        /\ rc' = 1 /\ trouble' = {"start"}
     \/ Len(argv) = 0 /\ rc' = 1 /\ trouble' = {"start"}
     \/ Len(argv) > 1 /\ ~IsPort(argv[2]) /\ rc' = 1 /\ trouble' = {"start"}
  /\ phase' = "ended"
  /\ UNCHANGED <<session, arg, config, heap, app, cmd, said>>

Configure ==
  /\ phase = "args" /\ Len(argv) > 1 /\ IsPort(argv[2])
  /\ config' = DefaultConfig
  /\ phase' = "file"
  /\ UNCHANGED <<session, arg, heap, app, cmd, rc, said, trouble>>

Say(source, key, value) == said' = [said EXCEPT ![source][key] = value]

\* fx5_client_parse_bool.
TraceTexts == {<<"true">>, <<"false">>}
TraceOf(text) == IF text = <<"true">> THEN "on" ELSE "off"

HeaderTexts == {<<"3e">>, <<"4e">>}
HeaderOf(text) == IF text = <<"3e">> THEN "3E" ELSE "4E"

\* The low byte of tmp16, which is not initialized: it has any value when the
\* text is no number.
NetworkNumbers(text) ==
  IF IsUint16Text(text) THEN {NumberText(text).value % ByteRange} ELSE 0 .. ByteRange - 1

\* apply_kv: one key and its value.  A value that does not parse leaves the
\* setting alone, except for the numbers that are a byte.
ApplyKv(key, value) ==
  \/ key = "host" /\ (SetString("host", value) \/ NoMemory) /\ UNCHANGED said
  \/ /\ key = "trace" /\ value \in TraceTexts
     /\ config' = [config EXCEPT !.trace = TraceOf(value)] /\ Say("file", "trace", TraceOf(value))
     /\ UNCHANGED heap
  \/ /\ key = "header" /\ value \in HeaderTexts
     /\ config' = [config EXCEPT !.header = HeaderOf(value)] /\ Say("file", "header", HeaderOf(value))
     /\ UNCHANGED heap
  \/ /\ key = "recv_timeout_ms" /\ NumberText(value).ok
     /\ config' = [config EXCEPT !.timeout = IF NumberText(value).value = 0 THEN "zero" ELSE "set"]
     /\ UNCHANGED <<heap, said>>
  \/ /\ key = "network_no"
     /\ \E n \in NetworkNumbers(value) : config' = [config EXCEPT !.network = n]
     /\ UNCHANGED <<heap, said>>

\* Mutant of FileLine: the file is read after the options.
FileLineLate ==
  /\ phase = "options" /\ arg > Len(argv)
  /\ \E l \in session.file : ApplyKv(l.key, l.value)
  /\ UNCHANGED <<session, arg, phase, app, cmd, rc, trouble>>

\* fx5_client_load_ini_file; the file may be missing, which is no error.
FileLine ==
  /\ phase = "file"
  /\ \E l \in session.file : ApplyKv(l.key, l.value)
  /\ UNCHANGED <<session, arg, phase, app, cmd, rc, trouble>>

\* The host of the command line replaces that of the file.
SetHost ==
  /\ phase = "file"
  /\ \/ SetString("host", argv[1]) /\ phase' = "options" /\ UNCHANGED <<rc, trouble>>
     \/ GiveUp(1, {"start"})
  /\ UNCHANGED <<session, arg, app, cmd, said>>

SetOption(key, value) ==
  /\ config' = [config EXCEPT ![key] = value] /\ Say("options", key, value)
  /\ arg' = arg + 1
  /\ UNCHANGED <<phase, heap, rc, trouble>>

\* A script path: in the next argument, whatever it is, or in this one.
SetScript(path, used) ==
  /\ SetString("script", path) /\ arg' = arg + used
  /\ UNCHANGED <<phase, rc, said, trouble>>

\* Mutant of UnknownOption: main returns without fx5_client_config_free.
UnknownOptionLeaks ==
  phase' = "ended" /\ rc' = 1 /\ trouble' = trouble \cup {"start"} /\ UNCHANGED <<config, heap, said, arg>>

\* fx5_client_parse_optional_arg failed.
UnknownOption == GiveUp(1, {"start"}) /\ UNCHANGED <<said, arg>>

Option ==
  /\ phase = "options" /\ arg <= Len(argv)
  /\ LET a == argv[arg] IN
       \/ a = "--trace" /\ SetOption("trace", "on")
       \/ a = "--header=3e" /\ SetOption("header", "3E")
       \/ a = "--header=4e" /\ SetOption("header", "4E")
       \/ a = "--script" /\ arg < Len(argv) /\ SetScript(argv[arg + 1], 2)
       \/ a \in DOMAIN ScriptArgs /\ ScriptArgs[a] # "" /\ SetScript(ScriptArgs[a], 1)
       \/ /\ \/ a = "--script"                          \* no path, or no memory
             \/ a \in DOMAIN ScriptArgs
             \/ a \notin {"--trace", "--header=3e", "--header=4e"} \cup DOMAIN ScriptArgs
          /\ UnknownOption
  /\ UNCHANGED <<session, app, cmd>>
-----------------------------------------------------------------------------
(***************************************************************************)
(* fx5_client_app_run: initialization, loop, shutdown.                     *)
(***************************************************************************)
Scripted == config.script # NULL

\* fx5_client_app_init.  When it fails there is no shutdown: what was taken
\* before the failure stays taken.  A timeout of 0 is none; setting one may fail.
AppInit ==
  /\ phase = "options" /\ arg > Len(argv)
  /\ \/ /\ sock' = "open" /\ held' = TRUE                      \* all of it
        /\ \E works \in BOOLEAN : timed' = (works /\ config.timeout = "set")
        /\ phase' = IF Scripted THEN "opening" ELSE "loop"
        /\ UNCHANGED <<config, heap, rc, trouble>>
     \/ /\ \/ sock' = "none" /\ held' = FALSE                   \* no transport
           \/ sock' = "none" /\ held' = TRUE                    \* no socket
           \/ sock' = "open" /\ held' = TRUE                    \* no connection
        /\ UNCHANGED timed
        /\ GiveUp(2, {"init"})
  /\ UNCHANGED <<session, arg, cmd, said>>

\* Mutant of Leave: a script that fails returns at once.
LeaveEarly(code, what) ==
  /\ rc' = code /\ trouble' = trouble \cup what
  /\ IF code = 1 THEN FreeConfig ELSE phase' = "closing" /\ UNCHANGED <<config, heap>>

\* The loop returns code.
Leave(code, what) ==
  /\ rc' = code /\ trouble' = trouble \cup what
  /\ phase' = "closing" /\ UNCHANGED <<config, heap>>

\* fx5_client_script_run opens its file.
OpenScript ==
  /\ phase = "opening"
  /\ \/ phase' = "loop" /\ UNCHANGED <<config, heap, rc, trouble>>
     \/ Leave(2, {"open"})
  /\ UNCHANGED <<session, arg, app, cmd, said>>

\* fgets gives NULL: the loops end, and a script looks for a read error.
EndOfInput ==
  /\ phase = "loop"
  /\ Leave(0, {}) \/ (Scripted /\ Leave(2, {"read"}))
  /\ UNCHANGED <<session, arg, app, cmd, said>>

\* fx5_client_app_shutdown and fx5_client_config_free.
Shutdown ==
  /\ phase = "closing"
  /\ sock' = "closed" /\ held' = FALSE
  /\ FreeConfig
  /\ UNCHANGED <<session, arg, timed, cmd, rc, said, trouble>>
-----------------------------------------------------------------------------
(***************************************************************************)
(* One turn of fx5_client_repl_run or fx5_client_script_run.               *)
(***************************************************************************)

\* The next line is read, whatever became of this one.
GoOn == UNCHANGED <<phase, config, heap, rc, said, trouble>>

\* Mutant of Wrong: the script runner leaves the loop with the code it began with.
WrongUnreported(what) ==
  /\ UNCHANGED said
  /\ IF Scripted THEN Leave(0, {what})
     ELSE trouble' = trouble \cup {what} /\ UNCHANGED <<phase, config, heap, rc>>

\* A script stops at the first line that is wrong, the terminal reports it.
Wrong(what) ==
  /\ UNCHANGED said
  /\ IF Scripted THEN Leave(1, {what})
     ELSE trouble' = trouble \cup {what} /\ UNCHANGED <<phase, config, heap, rc>>

\* Comments are for scripts alone.
Ignored(line) == line = <<>> \/ (Scripted /\ StartsWith(line, {"#"}))

Change(key, value) ==
  /\ config' = [config EXCEPT ![key] = value] /\ Say("commands", key, value)
  /\ UNCHANGED <<phase, heap, rc, trouble>>

\* A process that wrote past an array may end there, and one that sends on a
\* connection that is gone is ended by a signal (POSIX).
Crash ==
  /\ phase' = "crashed" /\ rc' = 2 /\ trouble' = trouble \cup {"crash"}
  /\ UNCHANGED <<config, heap, said>>

Execute(c) ==
  \/ c.type = "invalid" /\ Wrong("syntax")
  \/ c.type = "quit" /\ Leave(0, {}) /\ UNCHANGED said
  \/ c.type = "help" /\ GoOn
  \/ c.type = "trace" /\ Change("trace", c.trace)
  \/ c.type = "header" /\ Change("header", c.header)
  \/ c.type \in {"get", "set"} /\ ~Refused(c) /\ (GoOn \/ Wrong("command") \/ Crash)
  \/ c.type \in {"get", "set"} /\ Refused(c) /\ Wrong("command")
  \/ Overruns(c) /\ Crash

ReadLine ==
  /\ phase = "loop"
  /\ \E l \in session.lines : \E line \in {Trim(l)} :
       \/ Ignored(line) /\ GoOn /\ cmd' = NoCommand
       \/ ~Ignored(line) /\ cmd' = ParseCommand(line) /\ Execute(cmd')
  /\ UNCHANGED <<session, arg, app>>

Next ==
  \/ Usage \/ Configure \/ FileLine \/ SetHost \/ Option
  \/ AppInit \/ OpenScript \/ ReadLine \/ EndOfInput \/ Shutdown

Spec == Init /\ [][Next]_vars
-----------------------------------------------------------------------------
Phases == {"args", "file", "options", "opening", "loop", "closing", "ended", "crashed"}

TypeOK ==
  /\ session \in Sessions /\ arg \in Nat /\ phase \in Phases
  /\ config.host \in Blocks \cup {NULL} /\ config.script \in Blocks \cup {NULL}
  /\ config.header \in Headers /\ config.trace \in {"on", "off"}
  /\ config.timeout \in {"set", "zero"} /\ config.network \in 0 .. ByteRange - 1
  /\ DOMAIN heap \subseteq Blocks
  /\ sock \in {"none", "open", "closed"} /\ {held, timed} \subseteq BOOLEAN
  /\ cmd.type \in {"invalid", "help", "quit", "trace", "header", "get", "set"}
  /\ cmd.address \in 0 .. U32Range - 1 /\ cmd.count \in 0 .. U16Range - 1
  /\ rc \in {0, 1, 2}

\* The setting that the strongest source asks for (README.md of the client,
\* "Priority Order": defaults, INI file, CLI arguments, runtime commands).
Strongest(key) ==
  IF said["commands"][key] # "none" THEN said["commands"][key]
  ELSE IF said["options"][key] # "none" THEN said["options"][key]
  ELSE IF said["file"][key] # "none" THEN said["file"][key]
  ELSE DefaultConfig[key]

\* Whatever file, options and commands say, in any number and order, the
\* stronger source wins, and the client connects to the host it was started with.
Precedence ==
  /\ \A key \in Settings : config[key] = Strongest(key)
  /\ phase \in {"options", "opening", "loop", "closing"} => heap[config.host] = argv[1]

\* Every string that malloc gave is held by the configuration, in one place:
\* nothing leaks, nothing is freed twice, and at the end nothing is left
\* (fx5_client_config_free on each way out of main).
StringsOwned ==
  /\ DOMAIN heap = {config.host, config.script} \ {NULL}
  /\ config.host = config.script => config.host = NULL
  /\ phase = "ended" => DOMAIN heap = {}

\* A run that was initialized gives back its socket and its context whichever
\* way it returns ("performs shutdown before returning", fx5_client_app.h:61);
\* one whose initialization failed half way does not, and a process that is
\* killed returns nowhere.
EndReleases == phase = "ended" /\ "init" \notin trouble => sock # "open" /\ ~held

\* With --script, the options of a run that got past them.
ScriptGiven == \E i \in 3 .. Len(argv) : argv[i] \in {"--script"} \cup DOMAIN ScriptArgs

\* main returns zero exactly if nothing went wrong that it must report:
\* a script reports wrong lines and failed commands (README.md of the client,
\* "Script Mode"), the terminal does not.
ExitCode ==
  phase = "ended" =>
    (rc = 0 <=> trouble \subseteq IF ScriptGiven THEN {} ELSE {"syntax", "command"})

\* The addresses of a range, as 32-bit numbers.
Last32(c) == (c.address + c.count - 1) % U32Range

\* What a get prints in front of a value can be typed back: the tables of bases
\* and names of the parser and of the printer agree, for every device and number.
AddressesReadBack ==
  cmd.type = "get" =>
    \A i \in 0 .. cmd.count - 1 :
      ParseGet(PrintAddress(cmd.device, cmd.address + i))
        = [NoCommand EXCEPT !.type = "get", !.device = cmd.device, !.count = 1,
                            !.address = (cmd.address + i) % U32Range]

\* A range written with its two printed ends is the range again; without the
\* device at the second end too, unless its first digit is a letter.
RangesReadBack ==
  cmd.type = "get" =>
    LET first == PrintAddress(cmd.device, cmd.address) \o <<"-">>
        last  == Numeral(Last32(cmd), PrintBase(cmd.device))
    IN  /\ ParseGet(first \o DeviceName(cmd.device) \o last) = cmd
        /\ last[1] \in DigitsOf(10) => ParseGet(first \o last) = cmd

\* A set whose request is accepted has one 16-bit value for each address: no
\* fx5_set_write_value is refused half way, none is left as it was.
SetIsWhole ==
  cmd.type = "set" /\ ~Refused(cmd) =>
    Len(cmd.values) = cmd.count /\ \A i \in DOMAIN cmd.values : cmd.values[i] < U16Range

\* Nothing but one value repeated over a range is ever stored past the end of
\* cmd->values, and no such command gets as far as a request.
StoresStayInside ==
  Overruns(cmd) => Refused(cmd) /\ \A i \in DOMAIN cmd.values : cmd.values[i] = cmd.values[1]
=============================================================================
