--------------------------- MODULE Fx5ShellProofs ---------------------------
(***************************************************************************)
(* Proofs about a run of the client, for every command line, configuration *)
(* file and script, every width of the integer types and every set of      *)
(* addresses that malloc gives.  Four results.  What the run owns and      *)
(* which of its settings wins (IInv) needs of a line no more than the      *)
(* settings it asks for.  What a text can parse to, number by number and   *)
(* field by field, is the second part.  The third (Sorts) puts the two     *)
(* together: the types, and what a set command may write.  The last is     *)
(* about texts the program wrote: what it prints is parsed to what it was. *)
(***************************************************************************)
EXTENDS Fx5Shell, Fx5FrameProofs, FiniteSetTheorems

Sources == {"file", "options", "commands"}
ConfigFields == {"host", "script", "header", "trace", "timeout", "network"}
Running == {"options", "opening", "loop", "closing"}

Shape ==
  /\ session \in Sessions /\ arg \in Nat /\ phase \in Phases
  /\ DOMAIN config = ConfigFields
  /\ DOMAIN heap \subseteq Blocks
  /\ said \in [Sources -> [Settings -> {"none", "3E", "4E", "on", "off"}]]

\* Before the configuration is set up there is none.
Fresh == phase = "args" => config.host = NULL /\ config.script = NULL

\* The sources speak in the order of their strength.
InOrder ==
  /\ phase = "args" => said["file"] = Silent
  /\ phase \in {"args", "file"} => said["options"] = Silent
  /\ phase \in {"args", "file", "options"} => said["commands"] = Silent

\* Before initialization nothing is open and nothing has gone wrong.
NotStarted ==
  phase \in {"args", "file", "options"} =>
    sock = "none" /\ held = FALSE /\ trouble = {} /\ rc = 0

HostIsGiven == phase \in Running => config.host # NULL /\ heap[config.host] = argv[1]

SettingsFollow == \A key \in Settings : config[key] = Strongest(key)

\* main has seen the arguments before arg, and a script path if one was there.
ScriptSeen == \E i \in 3 .. arg - 1 : argv[i] \in {"--script"} \cup DOMAIN ScriptArgs

OptionsSeen ==
  /\ phase \in {"args", "file"} => config.script = NULL /\ arg = 3
  /\ phase \in {"file", "options"} => 3 <= arg /\ arg <= Len(argv) + 1
  /\ phase = "options" => (Scripted <=> ScriptSeen)
  /\ phase \in {"opening", "loop"} => (Scripted <=> ScriptGiven)

\* What may go wrong without being reported.
Unreported == IF ScriptGiven THEN {} ELSE {"syntax", "command"}

CodeFits ==
  /\ phase \in {"opening", "loop"} => rc = 0 /\ trouble \subseteq Unreported
  /\ phase \in {"closing", "ended"} => (rc = 0 <=> trouble \subseteq Unreported)

\* The inductive invariant.
IInv ==
  /\ Shape /\ Fresh /\ InOrder /\ NotStarted
  /\ StringsOwned /\ HostIsGiven /\ SettingsFollow
  /\ OptionsSeen /\ CodeFits /\ EndReleases

-----------------------------------------------------------------------------
\* The commands that are a line of their own.
LEMMA WholeLineCommands ==
  ASSUME NEW w \in WholeLines
  PROVE  w.command \in {[NoCommand EXCEPT !.type = "help"], [NoCommand EXCEPT !.type = "quit"],
                        [NoCommand EXCEPT !.type = "trace", !.trace = "on"],
                        [NoCommand EXCEPT !.type = "trace"],
                        [NoCommand EXCEPT !.type = "header", !.header = "3E"],
                        [NoCommand EXCEPT !.type = "header"]}
  <1> DEFINE help    == [NoCommand EXCEPT !.type = "help"]
             quit    == [NoCommand EXCEPT !.type = "quit"]
             traceon == [NoCommand EXCEPT !.type = "trace", !.trace = "on"]
             trace   == [NoCommand EXCEPT !.type = "trace"]
             use3e   == [NoCommand EXCEPT !.type = "header", !.header = "3E"]
             use4e   == [NoCommand EXCEPT !.type = "header"]
  <1>1. w \in {[text |-> "help", command |-> help], [text |-> "quit", command |-> quit],
              [text |-> "exit", command |-> quit],
              [text |-> "trace on", command |-> traceon], [text |-> "trace off", command |-> trace],
              [text |-> "header 3e", command |-> use3e], [text |-> "header 4e", command |-> use4e]}
    BY Zenon DEF WholeLines
  <1> HIDE DEF help, quit, traceon, trace, use3e, use4e
  <1>2. \E x : \E c \in {help, quit, traceon, trace, use3e, use4e} : w = [text |-> x, command |-> c]
    BY <1>1, Zenon
  <1>3. w.command \in {help, quit, traceon, trace, use3e, use4e}
    BY <1>2
  <1>4. QED  BY <1>3, Zenon DEF help, quit, traceon, trace, use3e, use4e

\* A command that changes a setting names one.
LEMMA CommandSettings ==
  ASSUME NEW line
  PROVE  ParseCommand(line).trace \in {"on", "off"} /\ ParseCommand(line).header \in {"3E", "4E"}
  <1> DEFINE Fine(c) == c.trace \in {"on", "off"} /\ c.header \in {"3E", "4E"}
  <1>1. Fine(NoCommand)
    BY DEF NoCommand
  <1>2. ASSUME NEW type, NEW r, NEW v
        PROVE  Fine(RangeCommand(type, r)) /\ Fine([RangeCommand(type, r) EXCEPT !.values = v])
    BY DEF RangeCommand, NoCommand
  <1>3. ASSUME NEW w \in WholeLines PROVE Fine(w.command)
    <2>1. "type" \in DOMAIN NoCommand /\ "trace" \in DOMAIN NoCommand /\ "header" \in DOMAIN NoCommand
      BY DEF NoCommand
    <2> DEFINE help    == [NoCommand EXCEPT !.type = "help"]
               quit    == [NoCommand EXCEPT !.type = "quit"]
               traceon == [NoCommand EXCEPT !.type = "trace", !.trace = "on"]
               trace   == [NoCommand EXCEPT !.type = "trace"]
               use3e   == [NoCommand EXCEPT !.type = "header", !.header = "3E"]
               use4e   == [NoCommand EXCEPT !.type = "header"]
    <2>2. \A c \in {help, quit, traceon, trace, use3e, use4e} : Fine(c)
      BY <1>1, <2>1
    <2> HIDE DEF help, quit, traceon, trace, use3e, use4e
    <2>3. w.command \in {help, quit, traceon, trace, use3e, use4e}
      BY WholeLineCommands DEF help, quit, traceon, trace, use3e, use4e
    <2>4. QED  BY <2>2, <2>3
  <1>4. ASSUME NEW t PROVE Fine(ParseGet(t))
    BY <1>1, <1>2 DEF ParseGet
  <1>5. ASSUME NEW t, NEW r PROVE Fine(ScalarOrList(t, r))
    BY <1>1, <1>2 DEF ScalarOrList
  <1>6. ASSUME NEW t PROVE Fine(ParseSet(t))
    BY <1>1, <1>5 DEF ParseSet
  <1> HIDE DEF Fine
  <1>7. Fine(ParseCommand(line))
    <2> DEFINE t     == SkipSpaces(line)
               whole == {w \in WholeLines : t = <<w.text>>}
    <2>1. ASSUME whole # {} PROVE Fine((CHOOSE w \in whole : TRUE).command)
      <3>1. (CHOOSE w \in whole : TRUE) \in WholeLines
        BY <2>1
      <3>2. QED  BY <3>1, <1>3
    <2> HIDE DEF whole
    <2>2. Fine(IF whole # {} THEN (CHOOSE w \in whole : TRUE).command
               ELSE IF IsPrefix(<<"get", " ">>, t) THEN ParseGet(Tail(t))
               ELSE IF IsPrefix(<<"set", " ">>, t) THEN ParseSet(Tail(t))
               ELSE NoCommand)
      BY <2>1, <1>1, <1>4, <1>6
    <2>3. QED  BY <2>2 DEF ParseCommand, whole
  <1>8. QED  BY <1>7 DEF Fine

-----------------------------------------------------------------------------
\* Strings: what the configuration holds after one is set, and after all are
\* freed.

LEMMA StringSet ==
  ASSUME Shape, StringsOwned, NEW field \in {"host", "script"}, NEW text, SetString(field, text)
  PROVE  /\ DOMAIN config' = ConfigFields
         /\ \A f \in ConfigFields \ {field} : config'[f] = config[f]
         /\ config'[field] # NULL /\ heap'[config'[field]] = text
         /\ DOMAIN heap' \subseteq Blocks
         /\ DOMAIN heap' = {config'.host, config'.script} \ {NULL}
         /\ config'.host = config'.script => config'.host = NULL
         /\ \A b \in DOMAIN heap \ {config[field]} : heap'[b] = heap[b]
  <1>1. PICK b \in Blocks : /\ b \notin DOMAIN heap
                            /\ heap' = Store(Free(heap, config[field]), b, text)
                            /\ config' = [config EXCEPT ![field] = b]
    BY DEF SetString
  <1>2. b # NULL
    BY ShellAssumption
  <1>3. /\ DOMAIN heap' = (DOMAIN heap \ {config[field]}) \cup {b}
        /\ heap'[b] = text
        /\ \A x \in DOMAIN heap \ {config[field]} : heap'[x] = heap[x]
    BY <1>1 DEF Store, Free
  <1>4. DOMAIN config' = ConfigFields /\ config'[field] = b
        /\ \A f \in ConfigFields \ {field} : config'[f] = config[f]
    BY <1>1 DEF Shape, ConfigFields
  <1>5. DOMAIN heap = {config.host, config.script} \ {NULL}
        /\ (config.host = config.script => config.host = NULL)
    BY DEF StringsOwned
  <1>6. CASE field = "host"
    BY <1>1, <1>2, <1>3, <1>4, <1>5, <1>6 DEF Shape, ConfigFields
  <1>7. CASE field = "script"
    BY <1>1, <1>2, <1>3, <1>4, <1>5, <1>7 DEF Shape, ConfigFields
  <1>8. QED  BY <1>6, <1>7

LEMMA ConfigFreed ==
  ASSUME Shape, StringsOwned, FreeConfig
  PROVE  /\ DOMAIN config' = ConfigFields /\ DOMAIN heap' = {}
         /\ config'.host = NULL /\ config'.script = NULL
         /\ \A f \in ConfigFields \ {"host", "script"} : config'[f] = config[f]
         /\ phase' = "ended"
  <1>1. DOMAIN heap' = (DOMAIN heap \ {config.host}) \ {config.script}
    BY DEF FreeConfig, Free
  <1>2. DOMAIN heap' = {}
    BY <1>1 DEF StringsOwned
  <1>3. QED  BY <1>2 DEF FreeConfig, Shape, ConfigFields

-----------------------------------------------------------------------------
\* One lemma per action: it keeps the invariant.

LEMMA UsageKeeps ==
  ASSUME IInv, Usage
  PROVE  IInv'
  <1>1. /\ phase = "args" /\ phase' = "ended" /\ trouble = {}
        /\ (rc' = 0 /\ trouble' = {}) \/ (rc' = 1 /\ trouble' = {"start"})
        /\ UNCHANGED <<session, arg, config, heap, said>>
        /\ sock' = sock /\ held' = held
    BY DEF Usage, IInv, NotStarted, app
  <1>2. Shape' /\ Fresh' /\ InOrder' /\ NotStarted' /\ HostIsGiven' /\ OptionsSeen'
    BY <1>1 DEF IInv, Shape, Phases, Fresh, InOrder, NotStarted, HostIsGiven, Running, OptionsSeen
  <1>3. StringsOwned'
    BY <1>1 DEF IInv, StringsOwned, Fresh
  <1>4. SettingsFollow'
    BY <1>1 DEF IInv, SettingsFollow, Strongest
  <1>5. CodeFits'
    BY <1>1 DEF CodeFits, Unreported, ScriptGiven, argv
  <1>6. EndReleases'
    BY <1>1 DEF IInv, EndReleases, NotStarted
  <1>7. QED  BY <1>2, <1>3, <1>4, <1>5, <1>6 DEF IInv

LEMMA ConfigureKeeps ==
  ASSUME IInv, Configure
  PROVE  IInv'
  <1>1. /\ phase = "args" /\ phase' = "file" /\ config' = DefaultConfig /\ Len(argv) > 1
        /\ UNCHANGED <<session, arg, heap, rc, said, trouble>>
        /\ sock' = sock /\ held' = held
    BY DEF Configure, app
  <1>2. DOMAIN config' = ConfigFields /\ config'.host = NULL /\ config'.script = NULL
    BY <1>1 DEF DefaultConfig, ConfigFields
  <1>3. Shape'
    BY <1>1, <1>2 DEF IInv, Shape, Phases
  <1>4. Fresh' /\ InOrder' /\ NotStarted' /\ HostIsGiven' /\ CodeFits' /\ EndReleases'
    BY <1>1 DEF IInv, Fresh, InOrder, NotStarted, HostIsGiven, Running, CodeFits, EndReleases
  <1>5. StringsOwned'
    BY <1>1, <1>2 DEF IInv, StringsOwned, Fresh
  <1>6. SettingsFollow'
    BY <1>1 DEF IInv, SettingsFollow, Strongest, InOrder, Silent
  <1>7. OptionsSeen'
    <2>1. Len(argv) \in Nat
      BY ShellAssumption DEF IInv, Shape, argv
    <2>2. QED  BY <1>1, <1>2, <2>1 DEF IInv, OptionsSeen, argv
  <1>8. QED  BY <1>3, <1>4, <1>5, <1>6, <1>7 DEF IInv

\* A setting that a source asks for, while no stronger source has spoken.
LEMMA Said ==
  ASSUME IInv, NEW source \in Sources, NEW key \in Settings,
         NEW value \in {"3E", "4E", "on", "off"},
         source = "file" => said["options"] = Silent /\ said["commands"] = Silent,
         source = "options" => said["commands"] = Silent,
         config' = [config EXCEPT ![key] = value], Say(source, key, value), UNCHANGED heap
  PROVE  /\ said' \in [Sources -> [Settings -> {"none", "3E", "4E", "on", "off"}]]
         /\ \A other \in Sources \ {source} : said'[other] = said[other]
         /\ SettingsFollow'
         /\ DOMAIN config' = ConfigFields
         /\ config'.host = config.host /\ config'.script = config.script
  <1>1. /\ DOMAIN config' = ConfigFields /\ config'[key] = value
        /\ \A f \in ConfigFields \ {key} : config'[f] = config[f]
        /\ Settings \subseteq ConfigFields \ {"host", "script"}
    BY DEF IInv, Shape, ConfigFields, Settings
  <1>2. /\ said' \in [Sources -> [Settings -> {"none", "3E", "4E", "on", "off"}]]
        /\ \A other \in Sources \ {source} : said'[other] = said[other]
        /\ said'[source][key] = value
        /\ \A other \in Settings \ {key} : said'[source][other] = said[source][other]
    BY DEF Say, IInv, Shape
  <1>3. ASSUME NEW k \in Settings PROVE config'[k] = Strongest(k)'
    <2>1. config[k] = Strongest(k)
      BY DEF IInv, SettingsFollow
    <2>2. CASE k = key
      BY <1>1, <1>2, <2>2 DEF Strongest, Silent, Sources
    <2>3. CASE k # key
      BY <1>1, <1>2, <2>1, <2>3 DEF Strongest, Sources
    <2>4. QED  BY <2>2, <2>3
  <1>4. QED  BY <1>1, <1>2, <1>3 DEF SettingsFollow, ConfigFields

\* What apply_kv keeps: the file has its say and the host may change.
LEMMA FileLineKeeps ==
  ASSUME IInv, FileLine
  PROVE  IInv'
  <1>1. PICK l \in session.file : ApplyKv(l.key, l.value)
    BY DEF FileLine
  <1>2. /\ phase = "file" /\ phase' = phase
        /\ UNCHANGED <<session, arg, rc, trouble>> /\ sock' = sock /\ held' = held
    BY DEF FileLine, app
  <1>3. said["options"] = Silent /\ said["commands"] = Silent
    BY <1>2 DEF IInv, InOrder
  <1>4. /\ DOMAIN config' = ConfigFields /\ DOMAIN heap' \subseteq Blocks
        /\ said' \in [Sources -> [Settings -> {"none", "3E", "4E", "on", "off"}]]
        /\ said'["options"] = Silent /\ said'["commands"] = Silent
        /\ SettingsFollow'
        /\ DOMAIN heap' = {config'.host, config'.script} \ {NULL}
        /\ config'.host = config'.script => config'.host = NULL
        /\ config'.script = config.script
    <2>1. CASE SetString("host", l.value) /\ UNCHANGED said
      BY <2>1, <1>3, StringSet DEF IInv, Shape, SettingsFollow, Strongest, ConfigFields, Settings
    <2>2. CASE NoMemory /\ UNCHANGED said
      BY <2>2, <1>3 DEF NoMemory, IInv, Shape, SettingsFollow, Strongest, StringsOwned
    <2>3. CASE /\ l.value \in TraceTexts /\ config' = [config EXCEPT !.trace = TraceOf(l.value)]
               /\ Say("file", "trace", TraceOf(l.value)) /\ UNCHANGED heap
      <3>1. TraceOf(l.value) \in {"3E", "4E", "on", "off"}
        BY DEF TraceOf
      <3>2. QED  BY <2>3, <3>1, <1>3, Said DEF IInv, Shape, StringsOwned, Settings, Sources
    <2>4. CASE /\ l.value \in HeaderTexts /\ config' = [config EXCEPT !.header = HeaderOf(l.value)]
               /\ Say("file", "header", HeaderOf(l.value)) /\ UNCHANGED heap
      <3>1. HeaderOf(l.value) \in {"3E", "4E", "on", "off"}
        BY DEF HeaderOf
      <3>2. QED  BY <2>4, <3>1, <1>3, Said DEF IInv, Shape, StringsOwned, Settings, Sources
    <2>5. CASE \E field \in {"timeout", "network"} : \E v :
                  config' = [config EXCEPT ![field] = v] /\ UNCHANGED <<heap, said>>
      BY <2>5, <1>3 DEF IInv, Shape, SettingsFollow, Strongest, StringsOwned, ConfigFields, Settings
    <2>6. QED  BY <1>1, <2>1, <2>2, <2>3, <2>4, <2>5 DEF ApplyKv
  <1>5. Shape' /\ Fresh' /\ InOrder'
    BY <1>2, <1>4 DEF IInv, Shape, Fresh, InOrder
  <1>6. NotStarted' /\ HostIsGiven' /\ OptionsSeen' /\ CodeFits' /\ EndReleases'
    BY <1>2, <1>4 DEF IInv, NotStarted, HostIsGiven, Running, OptionsSeen, CodeFits, EndReleases, argv
  <1>7. StringsOwned'
    BY <1>2, <1>4 DEF StringsOwned
  <1>8. QED  BY <1>4, <1>5, <1>6, <1>7 DEF IInv

\* Giving up before or while the client is initialized.
LEMMA GiveUpKeeps ==
  ASSUME IInv, phase \in {"file", "options"}, NEW code \in {1, 2}, NEW what,
         what # {}, what \cap {"syntax", "command"} = {},
         GiveUp(code, what), UNCHANGED <<session, arg, said>>,
         "init" \notin what => UNCHANGED <<sock, held>>
  PROVE  IInv'
  <1>1. /\ DOMAIN config' = ConfigFields /\ DOMAIN heap' = {} /\ phase' = "ended"
        /\ config'.host = NULL /\ config'.script = NULL
        /\ \A f \in ConfigFields \ {"host", "script"} : config'[f] = config[f]
    BY ConfigFreed DEF IInv, GiveUp
  <1>2. rc' = code /\ trouble' = what
    BY DEF GiveUp, IInv, NotStarted
  <1>3. Shape' /\ Fresh' /\ InOrder' /\ NotStarted' /\ HostIsGiven' /\ OptionsSeen'
    BY <1>1 DEF IInv, Shape, Phases, Fresh, InOrder, NotStarted, HostIsGiven, Running, OptionsSeen
  <1>4. StringsOwned'
    BY <1>1 DEF StringsOwned
  <1>5. SettingsFollow'
    BY <1>1 DEF IInv, SettingsFollow, Strongest, ConfigFields, Settings
  <1>6. CodeFits'
    BY <1>1, <1>2 DEF CodeFits, Unreported, ScriptGiven, argv
  <1>7. EndReleases'
    BY <1>1, <1>2 DEF IInv, EndReleases, NotStarted
  <1>8. QED  BY <1>3, <1>4, <1>5, <1>6, <1>7 DEF IInv

LEMMA SetHostKeeps ==
  ASSUME IInv, SetHost
  PROVE  IInv'
  <1>1. phase = "file" /\ UNCHANGED <<session, arg, said>> /\ sock' = sock /\ held' = held
    BY DEF SetHost, app
  <1>2. CASE GiveUp(1, {"start"})
    BY <1>1, <1>2, GiveUpKeeps
  <1>3. CASE SetString("host", argv[1]) /\ phase' = "options" /\ UNCHANGED <<rc, trouble>>
    <2>1. /\ DOMAIN config' = ConfigFields /\ DOMAIN heap' \subseteq Blocks
          /\ \A f \in ConfigFields \ {"host"} : config'[f] = config[f]
          /\ config'.host # NULL /\ heap'[config'.host] = argv[1]
          /\ DOMAIN heap' = {config'.host, config'.script} \ {NULL}
          /\ config'.host = config'.script => config'.host = NULL
      BY <1>3, StringSet DEF IInv
    <2>2. Shape' /\ Fresh' /\ InOrder' /\ NotStarted' /\ HostIsGiven'
      BY <1>1, <1>3, <2>1 DEF IInv, Shape, Phases, Fresh, InOrder, NotStarted, HostIsGiven, argv
    <2>3. StringsOwned'
      BY <1>3, <2>1 DEF StringsOwned
    <2>4. SettingsFollow'
      BY <1>1, <2>1 DEF IInv, SettingsFollow, Strongest, ConfigFields, Settings
    <2>5. OptionsSeen'
      <3>1. config'.script = NULL /\ arg' = 3
        BY <1>1, <2>1 DEF IInv, OptionsSeen, ConfigFields
      <3>2. ~Scripted' /\ ~ScriptSeen'
        BY <3>1 DEF Scripted, ScriptSeen
      <3>3. QED  BY <1>1, <1>3, <3>1, <3>2 DEF IInv, OptionsSeen, argv
    <2>6. CodeFits' /\ EndReleases'
      BY <1>3 DEF CodeFits, EndReleases
    <2>7. QED  BY <2>2, <2>3, <2>4, <2>5, <2>6 DEF IInv
  <1>4. QED  BY <1>2, <1>3 DEF SetHost

LEMMA OptionKeeps ==
  ASSUME IInv, Option
  PROVE  IInv'
  <1> DEFINE a == argv[arg]
  <1>1. /\ phase = "options" /\ arg \in Nat /\ 3 <= arg /\ arg <= Len(argv) /\ Len(argv) \in Nat
        /\ UNCHANGED session /\ sock' = sock /\ held' = held
    <2>1. phase = "options" /\ arg <= Len(argv) /\ UNCHANGED <<session, app>>
      BY DEF Option
    <2>2. Len(argv) \in Nat
      BY ShellAssumption DEF IInv, Shape, argv
    <2>3. QED  BY <2>1, <2>2 DEF IInv, OptionsSeen, Shape, app
  <1>2. Scripted <=> ScriptSeen
    BY <1>1 DEF IInv, OptionsSeen
  <1>3. ASSUME NEW key \in Settings, NEW value \in {"3E", "4E", "on", "off"},
               a \notin {"--script"} \cup DOMAIN ScriptArgs, SetOption(key, value)
        PROVE  IInv'
    <2>1. /\ said' \in [Sources -> [Settings -> {"none", "3E", "4E", "on", "off"}]]
          /\ said'["commands"] = Silent /\ SettingsFollow' /\ DOMAIN config' = ConfigFields
          /\ config'.host = config.host /\ config'.script = config.script
      BY <1>1, <1>3, Said DEF SetOption, IInv, InOrder, Sources
    <2>2. arg' = arg + 1 /\ UNCHANGED <<phase, heap, rc, trouble>>
      BY <1>3 DEF SetOption
    <2>3. Shape' /\ Fresh' /\ InOrder' /\ NotStarted' /\ HostIsGiven' /\ CodeFits' /\ EndReleases'
      BY <1>1, <2>1, <2>2
      DEF IInv, Shape, Fresh, InOrder, NotStarted, HostIsGiven, CodeFits, EndReleases, argv
    <2>4. StringsOwned'
      BY <2>1, <2>2 DEF IInv, StringsOwned
    <2>5. OptionsSeen'
      <3>1. ScriptSeen' <=> ScriptSeen
        BY <1>1, <1>3, <2>2 DEF ScriptSeen, argv
      <3>2. Scripted' <=> Scripted
        BY <2>1 DEF Scripted
      <3>3. QED  BY <1>1, <1>2, <2>2, <3>1, <3>2 DEF OptionsSeen, argv
    <2>6. QED  BY <2>1, <2>3, <2>4, <2>5 DEF IInv
  <1>4. ASSUME NEW path, NEW used \in {1, 2}, arg + used <= Len(argv) + 1,
               a \in {"--script"} \cup DOMAIN ScriptArgs, SetScript(path, used)
        PROVE  IInv'
    <2>1. /\ DOMAIN config' = ConfigFields /\ DOMAIN heap' \subseteq Blocks
          /\ \A f \in ConfigFields \ {"script"} : config'[f] = config[f]
          /\ config'.script # NULL
          /\ DOMAIN heap' = {config'.host, config'.script} \ {NULL}
          /\ config'.host = config'.script => config'.host = NULL
          /\ \A b \in DOMAIN heap \ {config.script} : heap'[b] = heap[b]
      BY <1>4, StringSet DEF SetScript, IInv
    <2>2. arg' = arg + used /\ UNCHANGED <<phase, rc, said, trouble>>
      BY <1>4 DEF SetScript
    <2>3. config.host \in DOMAIN heap \ {config.script}
      BY <1>1 DEF IInv, StringsOwned, HostIsGiven, Running
    <2>4. Shape' /\ Fresh' /\ InOrder' /\ NotStarted' /\ CodeFits' /\ EndReleases'
      BY <1>1, <2>1, <2>2 DEF IInv, Shape, Fresh, InOrder, NotStarted, CodeFits, EndReleases
    <2>5. HostIsGiven'
      BY <1>1, <2>1, <2>2, <2>3 DEF IInv, HostIsGiven, Running, argv, ConfigFields
    <2>6. StringsOwned'
      BY <1>1, <2>1, <2>2 DEF StringsOwned
    <2>7. SettingsFollow'
      BY <2>1, <2>2 DEF IInv, SettingsFollow, Strongest, ConfigFields, Settings
    <2>8. OptionsSeen'
      <3>1. ScriptSeen'
        BY <1>1, <1>4, <2>2 DEF ScriptSeen, argv
      <3>2. Scripted'
        BY <2>1 DEF Scripted
      <3>3. QED  BY <1>1, <1>4, <2>2, <3>1, <3>2 DEF OptionsSeen, argv
    <2>9. QED  BY <2>4, <2>5, <2>6, <2>7, <2>8 DEF IInv
  <1>5. CASE a = "--trace" /\ SetOption("trace", "on")
    BY <1>3, <1>5, ShellAssumption DEF Settings
  <1>6. CASE a = "--header=3e" /\ SetOption("header", "3E")
    BY <1>3, <1>6, ShellAssumption DEF Settings
  <1>7. CASE a = "--header=4e" /\ SetOption("header", "4E")
    BY <1>3, <1>7, ShellAssumption DEF Settings
  <1>8. CASE a = "--script" /\ arg < Len(argv) /\ SetScript(argv[arg + 1], 2)
    BY <1>1, <1>4, <1>8
  <1>9. CASE a \in DOMAIN ScriptArgs /\ SetScript(ScriptArgs[a], 1)
    BY <1>1, <1>4, <1>9
  <1>10. CASE UnknownOption
    BY <1>1, <1>10, GiveUpKeeps DEF UnknownOption
  <1>11. QED  BY <1>5, <1>6, <1>7, <1>8, <1>9, <1>10 DEF Option

LEMMA AppInitKeeps ==
  ASSUME IInv, AppInit
  PROVE  IInv'
  <1>1. /\ phase = "options" /\ arg \in Nat /\ 3 <= arg /\ arg = Len(argv) + 1 /\ Len(argv) \in Nat
        /\ UNCHANGED <<session, arg, said>>
    BY ShellAssumption DEF AppInit, IInv, OptionsSeen, Shape, argv
  <1>2. CASE GiveUp(2, {"init"})
    BY <1>1, <1>2, GiveUpKeeps
  <1>3. CASE phase' = (IF Scripted THEN "opening" ELSE "loop") /\ UNCHANGED <<config, heap, rc, trouble>>
    <2>1. phase' \in {"opening", "loop"}
      BY <1>3
    <2>2. Shape' /\ Fresh' /\ InOrder' /\ NotStarted' /\ HostIsGiven' /\ EndReleases'
      BY <1>1, <1>3, <2>1
      DEF IInv, Shape, Phases, Fresh, InOrder, NotStarted, HostIsGiven, Running, EndReleases, argv
    <2>3. StringsOwned' /\ SettingsFollow'
      BY <1>1, <1>3, <2>1 DEF IInv, StringsOwned, SettingsFollow, Strongest
    <2>4. CodeFits'
      BY <1>1, <1>3, <2>1 DEF IInv, CodeFits, NotStarted
    <2>5. OptionsSeen'
      <3>1. Scripted' <=> ScriptGiven'
        BY <1>1, <1>3 DEF IInv, OptionsSeen, Scripted, ScriptSeen, ScriptGiven, argv
      <3>2. QED  BY <2>1, <3>1 DEF OptionsSeen
    <2>6. QED  BY <2>2, <2>3, <2>4, <2>5 DEF IInv
  <1>4. QED  BY <1>2, <1>3 DEF AppInit

LEMMA OpenScriptKeeps ==
  ASSUME IInv, OpenScript
  PROVE  IInv'
  <1>1. /\ phase = "opening" /\ UNCHANGED <<session, arg, config, heap, said>>
        /\ sock' = sock /\ held' = held
        /\ \/ phase' = "loop" /\ UNCHANGED <<rc, trouble>>
           \/ phase' = "closing" /\ rc' = 2 /\ trouble' = trouble \cup {"open"}
    BY DEF OpenScript, Leave, app
  <1>2. Shape' /\ Fresh' /\ InOrder' /\ NotStarted' /\ HostIsGiven' /\ EndReleases'
    BY <1>1 DEF IInv, Shape, Phases, Fresh, InOrder, NotStarted, HostIsGiven, Running, EndReleases, argv
  <1>3. StringsOwned' /\ SettingsFollow'
    BY <1>1 DEF IInv, StringsOwned, SettingsFollow, Strongest
  <1>4. CodeFits'
    BY <1>1 DEF IInv, CodeFits, Unreported, ScriptGiven, argv
  <1>5. OptionsSeen'
    BY <1>1 DEF IInv, OptionsSeen, Scripted, ScriptGiven, argv
  <1>6. QED  BY <1>2, <1>3, <1>4, <1>5 DEF IInv

\* Leaving the loop with a code that fits what went wrong.
LEMMA LeaveKeeps ==
  ASSUME IInv, phase = "loop", NEW code, NEW what, Leave(code, what),
         code = 0 <=> what \subseteq Unreported,
         UNCHANGED <<session, arg, said>>, sock' = sock, held' = held
  PROVE  IInv'
  <1>1. /\ UNCHANGED <<session, arg, config, heap, said>>
        /\ phase' = "closing" /\ rc' = code /\ trouble' = trouble \cup what
    BY DEF Leave
  <1>2. Shape' /\ Fresh' /\ InOrder' /\ NotStarted' /\ HostIsGiven' /\ OptionsSeen' /\ EndReleases'
    BY <1>1
    DEF IInv, Shape, Phases, Fresh, InOrder, NotStarted, HostIsGiven, Running, OptionsSeen, EndReleases, argv
  <1>3. StringsOwned' /\ SettingsFollow'
    BY <1>1 DEF IInv, StringsOwned, SettingsFollow, Strongest
  <1>4. CodeFits'
    <2>1. Unreported' = Unreported
      BY <1>1 DEF Unreported, ScriptGiven, argv
    <2>2. trouble \subseteq Unreported
      BY DEF IInv, CodeFits
    <2>3. QED  BY <1>1, <2>1, <2>2 DEF CodeFits
  <1>5. QED  BY <1>2, <1>3, <1>4 DEF IInv

LEMMA EndOfInputKeeps ==
  ASSUME IInv, EndOfInput
  PROVE  IInv'
  <1>1. phase = "loop" /\ UNCHANGED <<session, arg, said>> /\ sock' = sock /\ held' = held
    BY DEF EndOfInput, app
  <1>2. CASE Leave(0, {})
    BY <1>1, <1>2, LeaveKeeps
  <1>3. CASE Leave(2, {"read"})
    <2>1. ~({"read"} \subseteq Unreported)
      BY DEF Unreported
    <2>2. QED  BY <1>1, <1>3, <2>1, LeaveKeeps
  <1>4. QED  BY <1>2, <1>3 DEF EndOfInput

LEMMA ReadLineKeeps ==
  ASSUME IInv, ReadLine
  PROVE  IInv'
  <1>1. phase = "loop" /\ UNCHANGED <<session, arg>> /\ sock' = sock /\ held' = held
    BY DEF ReadLine, app
  <1>2. Scripted <=> ScriptGiven
    BY <1>1 DEF IInv, OptionsSeen
  <1>3. CASE GoOn
    <2>1. UNCHANGED <<session, arg, phase, config, heap, sock, held, rc, said, trouble>>
      BY <1>1, <1>3 DEF GoOn
    <2>2. Shape' /\ Fresh' /\ InOrder' /\ NotStarted' /\ HostIsGiven' /\ EndReleases'
      BY <2>1 DEF IInv, Shape, Fresh, InOrder, NotStarted, HostIsGiven, EndReleases, argv
    <2>3. StringsOwned' /\ SettingsFollow'
      BY <2>1 DEF IInv, StringsOwned, SettingsFollow, Strongest
    <2>4. CodeFits' /\ OptionsSeen'
      BY <1>1, <2>1 DEF IInv, CodeFits, OptionsSeen, Unreported, Scripted, ScriptGiven, argv
    <2>5. QED  BY <2>2, <2>3, <2>4 DEF IInv
  <1>4. ASSUME NEW what \in {"syntax", "command"}, Wrong(what)
        PROVE  IInv'
    <2>1. CASE Scripted
      <3>1. Leave(1, {what}) /\ UNCHANGED said
        BY <1>4, <2>1 DEF Wrong
      <3>2. ~({what} \subseteq Unreported)
        BY <1>2, <2>1 DEF Unreported
      <3>3. QED  BY <1>1, <3>1, <3>2, LeaveKeeps
    <2>2. CASE ~Scripted
      <3>1. /\ UNCHANGED <<session, arg, phase, config, heap, sock, held, rc, said>>
            /\ trouble' = trouble \cup {what}
        BY <1>1, <1>4, <2>2 DEF Wrong
      <3>2. Shape' /\ Fresh' /\ InOrder' /\ NotStarted' /\ HostIsGiven' /\ EndReleases'
        BY <1>1, <3>1 DEF IInv, Shape, Fresh, InOrder, NotStarted, HostIsGiven, EndReleases, argv
      <3>3. StringsOwned' /\ SettingsFollow'
        BY <3>1 DEF IInv, StringsOwned, SettingsFollow, Strongest
      <3>4. OptionsSeen'
        BY <1>1, <3>1 DEF IInv, OptionsSeen, Scripted, ScriptGiven, argv
      <3>5. CodeFits'
        BY <1>1, <1>2, <2>2, <3>1 DEF IInv, CodeFits, Unreported, ScriptGiven, argv
      <3>6. QED  BY <3>2, <3>3, <3>4, <3>5 DEF IInv
    <2>3. QED  BY <2>1, <2>2
  <1>5. ASSUME NEW key \in Settings, NEW value \in {"3E", "4E", "on", "off"}, Change(key, value)
        PROVE  IInv'
    <2>1. UNCHANGED <<session, arg, phase, heap, sock, held, rc, trouble>>
      BY <1>1, <1>5 DEF Change
    <2>2. /\ said' \in [Sources -> [Settings -> {"none", "3E", "4E", "on", "off"}]]
          /\ SettingsFollow' /\ DOMAIN config' = ConfigFields
          /\ config'.host = config.host /\ config'.script = config.script
      BY <1>5, <2>1, Said DEF Change, Sources
    <2>3. Shape' /\ Fresh' /\ InOrder' /\ NotStarted' /\ HostIsGiven' /\ EndReleases'
      BY <1>1, <2>1, <2>2 DEF IInv, Shape, Fresh, InOrder, NotStarted, HostIsGiven, EndReleases, argv
    <2>4. StringsOwned'
      BY <2>1, <2>2 DEF IInv, StringsOwned
    <2>5. CodeFits' /\ OptionsSeen'
      BY <1>1, <2>1, <2>2 DEF IInv, CodeFits, OptionsSeen, Unreported, Scripted, ScriptGiven, argv
    <2>6. QED  BY <2>2, <2>3, <2>4, <2>5 DEF IInv
  <1>6. CASE Crash
    <2>1. /\ UNCHANGED <<session, arg, config, heap, said>>
          /\ phase' = "crashed"
      BY <1>1, <1>6 DEF Crash
    <2>2. /\ Shape' /\ Fresh' /\ InOrder' /\ NotStarted' /\ HostIsGiven' /\ OptionsSeen' /\ CodeFits'
          /\ EndReleases'
      BY <2>1 DEF IInv, Shape, Phases, Fresh, InOrder, NotStarted, HostIsGiven, Running, OptionsSeen, CodeFits,
                  EndReleases
    <2>3. StringsOwned' /\ SettingsFollow'
      BY <1>1, <2>1 DEF IInv, StringsOwned, SettingsFollow, Strongest
    <2>4. QED  BY <2>2, <2>3 DEF IInv
  <1>7. ASSUME NEW c, c.trace \in {"on", "off"}, c.header \in {"3E", "4E"}, Execute(c)
        PROVE  IInv'
    <2>1. CASE Leave(0, {}) /\ UNCHANGED said
      BY <1>1, <2>1, LeaveKeeps
    <2>2. CASE Change("trace", c.trace)
      BY <1>5, <1>7, <2>2 DEF Settings
    <2>3. CASE Change("header", c.header)
      BY <1>5, <1>7, <2>3 DEF Settings
    <2>4. QED  BY <1>3, <1>4, <1>6, <1>7, <2>1, <2>2, <2>3 DEF Execute
  <1>8. CASE ~GoOn
    <2>1. PICK l \in session.lines : cmd' = ParseCommand(Trim(l)) /\ Execute(cmd')
      BY <1>8 DEF ReadLine
    <2>2. Execute(ParseCommand(Trim(l)))
      BY <2>1
    <2>3. QED  BY <1>7, <2>2, CommandSettings
  <1>9. QED  BY <1>3, <1>8

LEMMA ShutdownKeeps ==
  ASSUME IInv, Shutdown
  PROVE  IInv'
  <1>1. /\ phase = "closing" /\ sock' = "closed" /\ held' = FALSE
        /\ UNCHANGED <<session, arg, rc, said, trouble>>
    BY DEF Shutdown
  <1>2. /\ DOMAIN config' = ConfigFields /\ DOMAIN heap' = {} /\ phase' = "ended"
        /\ config'.host = NULL /\ config'.script = NULL
        /\ \A f \in ConfigFields \ {"host", "script"} : config'[f] = config[f]
    BY ConfigFreed DEF IInv, Shutdown
  <1>3. /\ Shape' /\ Fresh' /\ InOrder' /\ NotStarted' /\ HostIsGiven' /\ OptionsSeen' /\ EndReleases'
    BY <1>1, <1>2 DEF IInv, Shape, Phases, Fresh, InOrder, NotStarted, HostIsGiven, Running, OptionsSeen, EndReleases
  <1>4. StringsOwned'
    BY <1>2 DEF StringsOwned
  <1>5. SettingsFollow'
    BY <1>1, <1>2 DEF IInv, SettingsFollow, Strongest, ConfigFields, Settings
  <1>6. CodeFits'
    BY <1>1, <1>2 DEF IInv, CodeFits, Unreported, ScriptGiven, argv
  <1>7. QED  BY <1>3, <1>4, <1>5, <1>6 DEF IInv

-----------------------------------------------------------------------------
LEMMA InitHolds == ASSUME Init PROVE IInv
  <1>1. DOMAIN heap = {} /\ DOMAIN config = ConfigFields /\ config.host = NULL /\ config.script = NULL
    BY DEF Init, DefaultConfig, ConfigFields
  <1>2. /\ phase = "args" /\ session \in Sessions /\ arg = 3 /\ sock = "none" /\ held = FALSE /\ rc = 0 /\ trouble = {}
        /\ said = [source \in Sources |-> Silent] /\ config = DefaultConfig
    BY DEF Init, Sources
  <1>3. Shape
    BY <1>1, <1>2 DEF Shape, Phases, Silent
  <1>4. Fresh /\ InOrder /\ NotStarted /\ HostIsGiven /\ OptionsSeen /\ CodeFits /\ EndReleases
    BY <1>1, <1>2
    DEF Fresh, InOrder, Sources, NotStarted, HostIsGiven, Running, OptionsSeen, CodeFits, EndReleases
  <1>5. StringsOwned
    BY <1>1, <1>2 DEF StringsOwned
  <1>6. SettingsFollow
    BY <1>2 DEF SettingsFollow, Strongest, Sources, Silent
  <1>7. QED  BY <1>3, <1>4, <1>5, <1>6 DEF IInv

LEMMA NextKeeps == ASSUME IInv, [Next]_vars PROVE IInv'
  <1>1. CASE Next
    BY <1>1, UsageKeeps, ConfigureKeeps, FileLineKeeps, SetHostKeeps, OptionKeeps, AppInitKeeps,
       OpenScriptKeeps, ReadLineKeeps, EndOfInputKeeps, ShutdownKeeps DEF Next
  <1>2. CASE UNCHANGED vars
    <2>1. UNCHANGED <<session, arg, phase, config, heap, sock, held, rc, said, trouble>>
      BY <1>2 DEF vars, app
    <2>2. Shape' /\ Fresh' /\ InOrder' /\ NotStarted' /\ HostIsGiven' /\ EndReleases'
      BY <2>1 DEF IInv, Shape, Fresh, InOrder, NotStarted, HostIsGiven, EndReleases, argv
    <2>3. StringsOwned' /\ SettingsFollow'
      BY <2>1 DEF IInv, StringsOwned, SettingsFollow, Strongest
    <2>4. CodeFits' /\ OptionsSeen'
      BY <2>1 DEF IInv, CodeFits, OptionsSeen, Unreported, Scripted, ScriptSeen, ScriptGiven, argv
    <2>5. QED  BY <2>2, <2>3, <2>4 DEF IInv
  <1>3. QED  BY <1>1, <1>2

LEMMA Invariance == Spec => []IInv
  BY InitHolds, NextKeeps, PTL DEF Spec

\* Whatever file, options and commands say, in any number and order, the
\* stronger source decides each setting, and the host is that of the command line.
THEOREM StrongerSourceWins == Spec => []Precedence
  <1>1. IInv => Precedence
    BY DEF IInv, SettingsFollow, HostIsGiven, Running, Precedence
  <1>2. QED  BY <1>1, Invariance, PTL

\* On every way out of main the strings of the configuration have been freed,
\* each once, however often the host and the script path were set.
THEOREM NoStringLeaks == Spec => []StringsOwned
  <1>1. IInv => StringsOwned
    BY DEF IInv
  <1>2. QED  BY <1>1, Invariance, PTL

\* A run that was initialized ends with its socket closed and its context released.
THEOREM ShutdownReleases == Spec => []EndReleases
  <1>1. IInv => EndReleases
    BY DEF IInv
  <1>2. QED  BY <1>1, Invariance, PTL

\* The exit code is zero exactly if nothing went wrong that must be reported,
\* for every script and every list of options.
THEOREM ExitCodeTells == Spec => []ExitCode
  <1>1. IInv => ExitCode
    BY DEF IInv, CodeFits, Unreported, ExitCode
  <1>2. QED  BY <1>1, Invariance, PTL

-----------------------------------------------------------------------------
\* Texts.

LEMMA CutIsText ==
  ASSUME NEW t \in Texts, NEW a \in Int, NEW b \in Int, a >= 1, b <= Len(t)
  PROVE  SubSeq(t, a, b) \in Texts
  <1>1. \A i \in a .. b : t[i] \in STRING
    BY LenProperties, ElementOfSeq DEF Texts
  <1>2. QED  BY <1>1, SubSeqProperties DEF Texts

LEMMA AfterIsText ==
  ASSUME NEW t \in Texts, NEW n \in Nat
  PROVE  After(t, n) \in Texts
  <1>1. Len(t) \in Nat
    BY LenProperties DEF Texts
  <1>2. QED  BY <1>1, CutIsText DEF After

LEMMA RunFacts ==
  ASSUME NEW t \in Texts, NEW symbols
  PROVE  LET n == LeadingRun(t, symbols) IN
         /\ n \in 0 .. Len(t) /\ \A i \in 1 .. n : t[i] \in symbols
         /\ n < Len(t) => t[n + 1] \notin symbols
  <1> DEFINE stops == {n \in 0 .. Len(t) : n < Len(t) => t[n + 1] \notin symbols}
             m     == Min(stops)
  <1>1. Len(t) \in Nat
    BY LenProperties DEF Texts
  <1>2. stops \subseteq Nat /\ Len(t) \in stops
    BY <1>1
  <1> HIDE DEF stops
  <1>3. m \in stops /\ \A n \in stops : m <= n
    BY <1>2, LeastExists
  <1> HIDE DEF m
  <1>4. m \in 0 .. Len(t) /\ (m < Len(t) => t[m + 1] \notin symbols)
    BY <1>3 DEF stops
  <1>5. ASSUME NEW i \in 1 .. m PROVE t[i] \in symbols
    <2>1. i - 1 \in 0 .. Len(t) /\ i - 1 < m /\ i - 1 < Len(t) /\ (i - 1) + 1 = i
      BY <1>1, <1>4
    <2>2. i - 1 \notin stops
      BY <1>3, <1>4, <2>1
    <2>3. QED  BY <2>1, <2>2 DEF stops
  <1>6. \E n \in 0 .. Len(t) : /\ \A i \in 1 .. n : t[i] \in symbols
                               /\ n < Len(t) => t[n + 1] \notin symbols
    BY <1>4, <1>5
  <1>7. QED  BY <1>6 DEF LeadingRun

LEMMA TrimIsText ==
  ASSUME NEW t \in Texts
  PROVE  SkipSpaces(t) \in Texts /\ Trim(t) \in Texts
  <1>1. ASSUME NEW s \in Texts PROVE SkipSpaces(s) \in Texts
    <2> DEFINE n == LeadingRun(s, {" "})
    <2>1. n \in Nat
      <3>1. Len(s) \in Nat
        BY LenProperties DEF Texts
      <3>2. n \in 0 .. Len(s)
        BY RunFacts
      <3> HIDE DEF n
      <3>3. QED  BY <3>1, <3>2
    <2>2. QED  BY <2>1, AfterIsText DEF SkipSpaces
  <1>2. ASSUME NEW s \in Texts PROVE Reverse(s) \in Texts
    <2>1. Len(s) \in Nat /\ \A i \in 1 .. Len(s) : s[i] \in STRING
      BY LenProperties, ElementOfSeq DEF Texts
    <2>2. Reverse(s) \in [1 .. Len(s) -> STRING]
      BY <2>1 DEF Reverse
    <2>3. QED  BY <2>1, <2>2, FunctionIsSeq DEF Texts
  <1>3. QED  BY <1>1, <1>2 DEF Trim

LEMMA TailIsText ==
  ASSUME NEW t \in Texts, t # <<>>
  PROVE  Tail(t) \in Texts
  BY HeadTailProperties DEF Texts

-----------------------------------------------------------------------------
\* Numbers.

LEMMA WidthFacts ==
  /\ MaxBitValueCount \in Nat /\ MaxBitValueCount > 0 /\ MaxBitValueCount < U16Range
  /\ U16Range \in Nat /\ U32Range \in Nat /\ U32Range > 0 /\ ULongMax \in Nat
  <1>1. MaxValueCount \in Nat /\ MaxValueCount > 0
    <2>1. LargestValueCount \in Int
      BY DEF LargestValueCount
    <2>2. QED  BY <2>1, ContextAssumption
  <1>2. MaxBitValueCount \in Nat /\ MaxBitValueCount > 0
    BY <1>1 DEF MaxBitValueCount, BitsPerWord
  <1>3. QED  BY <1>2, ParserAssumption

LEMMA LesserOf ==
  ASSUME NEW a \in Nat, NEW b \in Nat
  PROVE  Min({a, b}) \in 0 .. b
  <1>1. Min({a, b}) \in {a, b} /\ Min({a, b}) <= b
    BY LeastExists
  <1>2. QED  BY <1>1

LEMMA DigitFacts ==
  ASSUME NEW d \in DigitsOf(16)
  PROVE  DigitValue(d) \in 0 .. 15
  <1>1. DOMAIN HexDigits = 1 .. 16
    BY DEF HexDigits
  <1> DEFINE Is(i) == i \in DOMAIN HexDigits /\ HexDigits[i] = d
  <1>2. \E i \in DOMAIN HexDigits : HexDigits[i] = d
    BY <1>1 DEF DigitsOf
  <1>3. (CHOOSE i \in DOMAIN HexDigits : HexDigits[i] = d) \in 1 .. 16
    BY <1>1, <1>2
  <1>4. QED  BY <1>3 DEF DigitValue

\* The digits of each base are among those of the largest.
LEMMA DigitsWithin ==
  ASSUME NEW base \in {8, 10, 16}
  PROVE  DigitsOf(base) \subseteq DigitsOf(16)
  <1>1. \A i \in 1 .. base : i \in 1 .. 16
    OBVIOUS
  <1>2. QED  BY <1>1 DEF DigitsOf

\* What strtoul reads, one digit after the other.
LEMMA ReadUnfolds ==
  ASSUME NEW digits \in Seq(DigitsOf(16)), NEW base \in Nat
  PROVE  \E read : /\ StrToUL(digits, base) = read[Len(digits)] /\ read[0] = 0
                   /\ \A i \in 0 .. Len(digits) : read[i] \in 0 .. ULongMax
                   /\ \A i \in 1 .. Len(digits) :
                        read[i] = Min({base * read[i - 1] + DigitValue(digits[i]), ULongMax})
  <1> DEFINE V == 0 .. ULongMax
             n == Len(digits)
             F == [p \in V \X (1 .. n) |-> Min({base * p[1] + DigitValue(digits[p[2]]), ULongMax})]
             Reads(f) == f = [i \in 0 .. n |->
                                IF i = 0 THEN 0 ELSE Min({base * f[i - 1] + DigitValue(digits[i]), ULongMax})]
  <1>1. n \in Nat /\ ULongMax \in Nat /\ 0 \in V
    BY LenProperties, ParserAssumption
  <1>2. \A i \in 1 .. n : DigitValue(digits[i]) \in 0 .. 15
    BY ElementOfSeq, DigitFacts
  <1>3. ASSUME NEW v \in V, NEW i \in 1 .. n
        PROVE  Min({base * v + DigitValue(digits[i]), ULongMax}) \in V
    <2>1. v \in Nat /\ base * v \in Nat /\ DigitValue(digits[i]) \in Nat
      BY SMTT(30), <1>1, <1>2
    <2>2. base * v + DigitValue(digits[i]) \in Nat
      BY <2>1
    <2>3. QED  BY <1>1, <2>2, LesserOf
  <1> HIDE DEF V, n
  <1>4. F \in [V \X (1 .. n) -> V]
    BY <1>3
  <1>5. \A v \in V : \A i \in 1 .. n : F[<<v, i>>] = Min({base * v + DigitValue(digits[i]), ULongMax})
    OBVIOUS
  <1> HIDE DEF F
  <1>6. PICK g \in [0 .. n -> V] : Follows(g, 0, n, F)
    BY <1>1, <1>4, RecursionDefines
  <1>7. Reads(g)
    <2>1. ASSUME NEW i \in 0 .. n
          PROVE  g[i] = IF i = 0 THEN 0 ELSE Min({base * g[i - 1] + DigitValue(digits[i]), ULongMax})
      <3>1. CASE i = 0
        BY <1>6, <3>1 DEF Follows
      <3>2. CASE i # 0
        <4>1. i \in 1 .. n /\ i - 1 \in 0 .. n
          BY <1>1, <3>2
        <4>2. QED  BY <1>5, <1>6, <3>2, <4>1 DEF Follows
      <3>3. QED  BY <3>1, <3>2
    <2>2. QED  BY <1>6, <2>1
  <1> DEFINE read == CHOOSE f : Reads(f)
  <1>8. Reads(read)
    <2> HIDE DEF Reads
    <2>1. QED  BY <1>7
  <1>9. StrToUL(digits, base) = read[n]
    BY DEF StrToUL, ReadUpTo, n
  <1> HIDE DEF read
  <1>10. read[0] = 0
    BY <1>1, <1>8
  <1>11. ASSUME NEW i \in 1 .. n
         PROVE  read[i] = Min({base * read[i - 1] + DigitValue(digits[i]), ULongMax})
    <2>1. i \in 0 .. n /\ i # 0
      BY <1>1
    <2>2. QED  BY <1>8, <2>1
  <1>12. \A i \in 0 .. n : read[i] \in V
    <2>1. \A i \in 1 .. n : read[i - 1] \in V => read[i] = F[<<read[i - 1], i>>]
      BY <1>5, <1>11
    <2>2. QED  BY <1>1, <1>4, <1>10, <2>1, RecursionStays
  <1>13. QED  BY <1>9, <1>10, <1>11, <1>12 DEF V, n

\* strtoul gives an unsigned long, for digits without end.
LEMMA ReadFacts ==
  ASSUME NEW digits \in Seq(DigitsOf(16)), NEW base \in Nat
  PROVE  StrToUL(digits, base) \in 0 .. ULongMax
  <1> DEFINE n == Len(digits)
  <1>1. n \in Nat /\ n \in 0 .. n
    BY LenProperties
  <1>2. PICK read : StrToUL(digits, base) = read[n] /\ \A i \in 0 .. n : read[i] \in 0 .. ULongMax
    BY ReadUnfolds
  <1> HIDE DEF n
  <1>3. QED  BY <1>1, <1>2

\* What a number at the front of a text is, and what is left.
LEMMA NumberFacts ==
  ASSUME NEW t \in Texts, NEW base \in {8, 10, 16}
  PROVE  /\ Number(t, base).ok \in BOOLEAN /\ Number(t, base).value \in 0 .. U32Range - 1
         /\ Number(t, base).rest \in Texts
  <1> DEFINE skipped == After(t, PrefixLength(t, base))
             run     == LeadingRun(skipped, DigitsOf(base))
             digits  == SubSeq(skipped, 1, run)
  <1>1. skipped \in Texts
    <2>1. PrefixLength(t, base) \in Nat
      BY DEF PrefixLength
    <2>2. QED  BY <2>1, AfterIsText
  <1> HIDE DEF skipped
  <1>2. Len(skipped) \in Nat
    BY <1>1, LenProperties DEF Texts
  <1>3. run \in 0 .. Len(skipped) /\ \A i \in 1 .. run : skipped[i] \in DigitsOf(base)
    BY <1>1, RunFacts
  <1>4. DigitsOf(base) \subseteq DigitsOf(16)
    BY DigitsWithin
  <1> HIDE DEF run
  <1>5. digits \in Seq(DigitsOf(16))
    <2>1. \A i \in 1 .. run : skipped[i] \in DigitsOf(16)
      BY <1>3, <1>4
    <2>2. QED  BY <1>2, <1>3, <2>1, SubSeqProperties
  <1> HIDE DEF digits
  <1>6. StrToUL(digits, base) \in Nat /\ U32Range \in Nat /\ U32Range > 0
    <2>1. base \in Nat /\ ULongMax \in Nat
      BY WidthFacts
    <2>2. StrToUL(digits, base) \in 0 .. ULongMax
      BY <1>5, <2>1, ReadFacts
    <2>3. QED  BY <2>1, <2>2, WidthFacts
  <1>7. StrToUL(digits, base) % U32Range \in 0 .. U32Range - 1
    BY <1>6
  <1>8. After(skipped, run) \in Texts
    BY <1>1, <1>2, <1>3, AfterIsText
  <1>9. Number(t, base) = [ok |-> run > 0, value |-> StrToUL(digits, base) % U32Range, rest |-> After(skipped, run)]
    BY DEF Number, skipped, run, digits
  <1>10. QED  BY <1>7, <1>8, <1>9

\* The text of a number in the configuration file.
LEMMA NumberTextFacts ==
  ASSUME NEW t \in Texts
  PROVE  NumberText(t).value \in 0 .. U32Range - 1
  <1> DEFINE digits == IF StartsWith(t, {"-", "+"}) THEN Tail(t) ELSE t
             run    == LeadingRun(digits, DigitsOf(10))
             read   == SubSeq(digits, 1, run)
             n      == StrToUL(read, 10)
             exact  == ReadUpTo(ULongMax + 1, read, 10) <= ULongMax
             value  == IF StartsWith(t, {"-"}) /\ exact THEN (ULongMax + 1 - n) % (ULongMax + 1) ELSE n
  <1>1. digits \in Texts
    BY TailIsText DEF StartsWith
  <1> HIDE DEF digits
  <1>2. Len(digits) \in Nat
    BY <1>1, LenProperties DEF Texts
  <1>3. run \in 0 .. Len(digits) /\ \A i \in 1 .. run : digits[i] \in DigitsOf(10)
    BY <1>1, RunFacts
  <1>4. DigitsOf(10) \subseteq DigitsOf(16)
    BY DigitsWithin
  <1> HIDE DEF run
  <1>5. read \in Seq(DigitsOf(16))
    <2>1. \A i \in 1 .. run : digits[i] \in DigitsOf(16)
      BY <1>3, <1>4
    <2>2. QED  BY <1>2, <1>3, <2>1, SubSeqProperties
  <1> HIDE DEF read
  <1>6. n \in 0 .. ULongMax
    BY <1>5, ReadFacts
  <1> HIDE DEF n
  <1>7. value \in Nat
    BY <1>6, WidthFacts
  <1> HIDE DEF value
  <1>8. value % U32Range \in 0 .. U32Range - 1
    BY <1>7, WidthFacts
  <1>9. NumberText(t).value = value % U32Range
    BY DEF NumberText, value, exact, n, read, run, digits
  <1>10. QED  BY <1>8, <1>9

-----------------------------------------------------------------------------
\* Devices and ranges.

LEMMA DeviceFacts ==
  ASSUME NEW t \in Texts
  PROVE  Len(DevicePrefix(t).name) \in Nat /\ DevicePrefix(t).base \in {8, 10, 16}
  <1> DEFINE Fine(e) == Len(e.name) \in Nat /\ e.base \in {8, 10, 16}
             named   == {k \in DOMAIN DeviceTable : IsPrefix(DeviceTable[k].name, t)}
  <1>1. DOMAIN DeviceTable = 1 .. 13
    BY DEF DeviceTable
  <1>2. \A k \in 1 .. 13 : Fine(DeviceTable[k])
    BY DEF DeviceTable, Entry
  <1>3. Fine(NoEntry)
    BY DEF NoEntry, Entry
  <1> HIDE DEF Fine
  <1>4. CASE named = {}
    BY <1>3, <1>4 DEF DevicePrefix, Fine
  <1>5. CASE named # {}
    <2>1. named \subseteq 1 .. 13
      BY <1>1
    <2>2. Min(named) \in 1 .. 13
      <3> HIDE DEF named
      <3>1. named \subseteq Nat
        BY <2>1
      <3>2. Min(named) \in named
        BY <1>5, <3>1, LeastExists
      <3>3. QED  BY <2>1, <3>2
    <2>3. DevicePrefix(t) = DeviceTable[Min(named)]
      BY <1>5 DEF DevicePrefix
    <2>4. QED  BY <1>2, <2>2, <2>3 DEF Fine
  <1>6. QED  BY <1>4, <1>5

Ranged(r) == r.start \in 0 .. U32Range - 1 /\ r.count \in 0 .. U16Range - 1 /\ r.rest \in Texts

LEMMA RangeFacts ==
  ASSUME NEW t \in Texts
  PROVE  Ranged(DeviceAndRange(t))
  <1> DEFINE s      == SkipSpaces(t)
             entry  == DevicePrefix(s)
             first  == Number(After(s, Len(entry.name)), entry.base)
             next   == SkipSpaces(first.rest)
             ranged == StartsWith(next, {"-"})
             e      == SkipSpaces(Tail(next))
             named  == ~StartsWith(e, DigitsOf(10))
             from   == IF named THEN After(e, Len(DevicePrefix(e).name)) ELSE e
             last   == Number(from, entry.base)
             taken(n, rest) ==
               [ok |-> TRUE, device |-> entry.device, start |-> first.value, count |-> n, rest |-> rest]
  <1>1. s \in Texts
    BY TrimIsText
  <1> HIDE DEF s
  <1>2. Len(entry.name) \in Nat /\ entry.base \in {8, 10, 16}
    BY <1>1, DeviceFacts
  <1> HIDE DEF entry
  <1>3. After(s, Len(entry.name)) \in Texts
    BY <1>1, <1>2, AfterIsText
  <1>4. first.value \in 0 .. U32Range - 1 /\ first.rest \in Texts
    BY <1>2, <1>3, NumberFacts
  <1> HIDE DEF first
  <1>5. next \in Texts
    BY <1>4, TrimIsText
  <1> HIDE DEF next
  <1>6. ASSUME ranged
        PROVE  /\ last.value \in 0 .. U32Range - 1 /\ last.rest \in Texts
               /\ Span(first.value, last.value) \in Nat
    <2>1. e \in Texts
      BY <1>5, <1>6, TailIsText, TrimIsText DEF StartsWith
    <2> HIDE DEF e
    <2>2. Len(DevicePrefix(e).name) \in Nat
      BY <2>1, DeviceFacts
    <2>3. from \in Texts
      BY <2>1, <2>2, AfterIsText
    <2> HIDE DEF from
    <2>4. last.value \in 0 .. U32Range - 1 /\ last.rest \in Texts
      BY <1>2, <2>3, NumberFacts
    <2> HIDE DEF last
    <2>5. Span(first.value, last.value) \in Nat
      BY <1>4, <2>4, WidthFacts DEF Span
    <2>6. QED  BY <2>4, <2>5
  <1>7. /\ Ranged(NoRange) /\ Ranged(taken(1, next))
        /\ ranged /\ ~(Span(first.value, last.value) >= U16Range) =>
             Ranged(taken(Span(first.value, last.value), last.rest))
    <2>1. <<>> \in Texts
      BY EmptySeq DEF Texts
    <2>2. 1 \in 0 .. U16Range - 1 /\ 0 \in 0 .. U16Range - 1 /\ 0 \in 0 .. U32Range - 1
      BY WidthFacts
    <2> HIDE DEF ranged, last
    <2>3. QED  BY <1>4, <1>5, <1>6, <2>1, <2>2, WidthFacts DEF Ranged, NoRange
  <1> HIDE DEF taken, ranged, last
  <1>8. DeviceAndRange(t) \in {NoRange, taken(1, next)}
        \/ (/\ ranged /\ ~(Span(first.value, last.value) >= U16Range)
            /\ DeviceAndRange(t) = taken(Span(first.value, last.value), last.rest))
    BY DEF DeviceAndRange, taken, ranged, last, from, named, e, next, first, entry, s
  <1>9. QED  BY <1>7, <1>8

-----------------------------------------------------------------------------
\* Lists.

\* The elements of a finite set of numbers have the ranks 1, 2, and so on.
LEMMA Ranks ==
  ASSUME NEW E, E \subseteq Nat, IsFiniteSet(E)
  PROVE  \A k \in 1 .. Cardinality(E) : \E i \in E : Cardinality({j \in E : j <= i}) = k
  <1> DEFINE Upto(i) == {j \in E : j <= i}
             bad     == {k \in 1 .. Cardinality(E) : ~\E i \in E : Cardinality(Upto(i)) = k}
  <1>1. SUFFICES ASSUME bad # {} PROVE FALSE
    OBVIOUS
  <1>2. Cardinality(E) \in Nat
    BY FS_CardinalityType
  <1>3. bad \subseteq Nat /\ bad \subseteq 1 .. Cardinality(E)
    OBVIOUS
  <1>4. Min(bad) \in bad /\ \A x \in bad : Min(bad) <= x
    <2> HIDE DEF bad
    <2>1. QED  BY <1>1, <1>3, LeastExists
  <1>5. PICK k \in bad : \A x \in bad : k <= x
    BY <1>4
  <1>6. k \in 1 .. Cardinality(E) /\ \A i \in E : Cardinality(Upto(i)) # k
    BY <1>5
  <1>7. PICK low \in SUBSET E : /\ Cardinality(low) = k - 1
                               /\ \A i \in E \ low : \A j \in low : j < i
    <2>1. CASE k = 1
      <3>1. Cardinality({}) = 0
        BY FS_EmptySet
      <3>2. QED  BY <2>1, <3>1
    <2>2. CASE k # 1
      <3>1. k - 1 \in 1 .. Cardinality(E) /\ ~(k <= k - 1)
        BY <1>2, <1>6, <2>2
      <3>2. k - 1 \notin bad
        <4> HIDE DEF bad
        <4>1. QED  BY <1>5, <3>1
      <3>3. PICK i \in E : Cardinality(Upto(i)) = k - 1
        BY <3>1, <3>2
      <3>4. \A a \in E \ Upto(i) : \A b \in Upto(i) : b < a
        OBVIOUS
      <3>5. Upto(i) \in SUBSET E
        OBVIOUS
      <3> HIDE DEF Upto
      <3>6. QED  BY <3>3, <3>4, <3>5
    <2>3. QED  BY <2>1, <2>2
  <1>8. E \ low # {}
    <2>1. low # E
      BY <1>2, <1>6, <1>7
    <2>2. QED  BY <2>1
  <1> DEFINE i == Min(E \ low)
  <1>9. i \in E \ low /\ \A x \in E \ low : i <= x
    <2>1. E \ low \subseteq Nat
      OBVIOUS
    <2>2. QED  BY <1>8, <2>1, LeastExists
  <1> HIDE DEF i
  <1>10. Upto(i) = low \cup {i}
    <2>1. ASSUME NEW j \in Upto(i) PROVE j \in low \cup {i}
      BY <1>9
    <2>2. ASSUME NEW j \in low \cup {i} PROVE j \in Upto(i)
      BY <1>7, <1>9
    <2>3. QED  BY <2>1, <2>2
  <1>11. Cardinality(low \cup {i}) = k
    <2>1. IsFiniteSet(low)
      BY FS_Subset
    <2>2. Cardinality(low \cup {i}) = Cardinality(low) + 1
      BY <1>9, <2>1, FS_AddElement
    <2>3. QED  BY <1>2, <1>6, <1>7, <2>2
  <1>12. QED  BY <1>6, <1>9, <1>10, <1>11

LEMMA FieldsFacts ==
  ASSUME NEW t \in Texts
  PROVE  Fields(t) \in Seq(Texts)
  <1> DEFINE ends   == {i \in 1 .. Len(t) + 1 : i = Len(t) + 1 \/ t[i] = ","}
             end(k) == IF k = 0 THEN 0 ELSE CHOOSE i \in ends : Cardinality({j \in ends : j <= i}) = k
             all    == [k \in 1 .. Cardinality(ends) |-> Trim(SubSeq(t, end(k - 1) + 1, end(k) - 1))]
  <1>1. Len(t) \in Nat
    BY LenProperties DEF Texts
  <1>2. ends \subseteq 1 .. Len(t) + 1
    OBVIOUS
  <1> HIDE DEF ends
  <1>3. IsFiniteSet(ends) /\ Cardinality(ends) \in Nat /\ ends \subseteq Nat
    <2> DEFINE m == Len(t) + 1
    <2>1. m \in Int /\ 1 \in Int /\ ends \subseteq Nat
      BY <1>1, <1>2
    <2>2. ends \in SUBSET (1 .. m)
      BY <1>2
    <2> HIDE DEF m
    <2>3. IsFiniteSet(1 .. m)
      BY <2>1, FS_Interval
    <2>4. IsFiniteSet(ends)
      BY <2>2, <2>3, FS_Subset
    <2>5. QED  BY <2>1, <2>4, FS_CardinalityType
  <1>4. ASSUME NEW k \in 0 .. Cardinality(ends) PROVE end(k) \in 0 .. Len(t) + 1
    <2>1. CASE k = 0
      BY <1>1, <2>1
    <2>2. CASE k # 0
      <3>1. k \in 1 .. Cardinality(ends)
        BY <1>3, <2>2
      <3>2. \E i \in ends : Cardinality({j \in ends : j <= i}) = k
        BY <1>3, <3>1, Ranks
      <3>3. end(k) \in ends
        BY <2>2, <3>2
      <3> DEFINE e == end(k)
      <3>4. e \in ends
        BY <3>3
      <3> HIDE DEF e, end
      <3>5. e \in 0 .. Len(t) + 1
        BY <1>1, <1>2, <3>4
      <3>6. QED  BY <3>5 DEF e
    <2>3. QED  BY <2>1, <2>2
  <1> HIDE DEF end
  <1>5. ASSUME NEW k \in 1 .. Cardinality(ends)
        PROVE  Trim(SubSeq(t, end(k - 1) + 1, end(k) - 1)) \in Texts
    <2>1. k \in 0 .. Cardinality(ends) /\ k - 1 \in 0 .. Cardinality(ends)
      BY <1>3
    <2>2. end(k) \in 0 .. Len(t) + 1 /\ end(k - 1) \in 0 .. Len(t) + 1
      BY <1>4, <2>1
    <2> DEFINE a == end(k - 1) + 1
               b == end(k) - 1
    <2>3. a \in Int /\ b \in Int /\ a >= 1 /\ b <= Len(t)
      BY <1>1, <2>2
    <2> HIDE DEF a, b
    <2>4. SubSeq(t, a, b) \in Texts
      BY <2>3, CutIsText
    <2>5. QED  BY <2>4, TrimIsText DEF a, b
  <1>6. all \in Seq(Texts) /\ Len(all) \in Nat
    <2>1. all \in [1 .. Cardinality(ends) -> Texts]
      BY <1>5
    <2> HIDE DEF all
    <2>2. QED  BY <1>3, <2>1, FunctionIsSeq
  <1> HIDE DEF all
  <1>7. Front(all) \in Seq(Texts)
    <2>1. \A i \in 1 .. Len(all) - 1 : all[i] \in Texts
      BY <1>6, ElementOfSeq
    <2>2. QED  BY <1>6, <2>1, SubSeqProperties DEF Front
  <1>8. Fields(t) \in {all, Front(all)}
    BY DEF Fields, all, end, ends
  <1>9. QED  BY <1>6, <1>7, <1>8

-----------------------------------------------------------------------------
\* Commands.

\* A get of so many addresses from n.
GetOf(dev, n, count) ==
  [NoCommand EXCEPT !.type = "get", !.device = dev, !.address = n, !.count = count]

\* Every get has a device, a first and a last address.
IsGet(c) ==
  \E dev \in Devices : \E n, m \in 0 .. U32Range - 1 :
    n <= m /\ Span(n, m) < U16Range /\ c = GetOf(dev, n, Span(n, m))

LEMMA OneIsSpan ==
  ASSUME NEW n \in 0 .. U32Range - 1
  PROVE  Span(n, n) = 1 /\ 1 < U16Range
  <1>1. U32Range \in Nat /\ U32Range > 1 /\ 1 < U16Range
    BY WidthFacts, ParserAssumption
  <1>2. n - n + 1 = 1
    BY <1>1
  <1>3. (1 % U32Range) = 1
    BY <1>1
  <1>4. QED  BY <1>1, <1>2, <1>3 DEF Span

LEMMA TableDevices ==
  ASSUME NEW t
  PROVE  DevicePrefix(t) = NoEntry \/ DevicePrefix(t).device \in Devices
  <1> DEFINE named == {k \in DOMAIN DeviceTable : IsPrefix(DeviceTable[k].name, t)}
  <1>1. DOMAIN DeviceTable = 1 .. 13
    BY DEF DeviceTable
  <1>2. \A k \in 1 .. 13 : DeviceTable[k].device \in Devices
    BY DEF DeviceTable, Entry, Devices, WordDevices, BitDevices
  <1>3. named \subseteq 1 .. 13 /\ named \subseteq Nat
    BY <1>1
  <1>4. DevicePrefix(t) = IF named = {} THEN NoEntry ELSE DeviceTable[Min(named)]
    BY DEF DevicePrefix
  <1> HIDE DEF named
  <1>5. named # {} => Min(named) \in named
    BY <1>3, LeastExists
  <1>6. QED  BY <1>2, <1>3, <1>4, <1>5

\* A range that is taken has a device, a first and a last address.
LEMMA RangeTaken ==
  ASSUME NEW t \in Texts, DeviceAndRange(t).ok
  PROVE  IsGet(RangeCommand("get", DeviceAndRange(t)))
  <1> DEFINE s      == SkipSpaces(t)
             entry  == DevicePrefix(s)
             first  == Number(After(s, Len(entry.name)), entry.base)
             next   == SkipSpaces(first.rest)
             ranged == StartsWith(next, {"-"})
             e      == SkipSpaces(Tail(next))
             named  == ~StartsWith(e, DigitsOf(10))
             from   == IF named THEN After(e, Len(DevicePrefix(e).name)) ELSE e
             last   == Number(from, entry.base)
             taken(n, rest) ==
               [ok |-> TRUE, device |-> entry.device, start |-> first.value, count |-> n, rest |-> rest]
  <1>1. s \in Texts
    BY TrimIsText
  <1> HIDE DEF s
  <1>2. Len(entry.name) \in Nat /\ entry.base \in {8, 10, 16} /\ (entry = NoEntry \/ entry.device \in Devices)
    BY <1>1, DeviceFacts, TableDevices
  <1> HIDE DEF entry
  <1>3. After(s, Len(entry.name)) \in Texts
    BY <1>1, <1>2, AfterIsText
  <1>4. first.value \in 0 .. U32Range - 1 /\ first.rest \in Texts
    BY <1>2, <1>3, NumberFacts
  <1> HIDE DEF first
  <1>5. next \in Texts
    BY <1>4, TrimIsText
  <1> HIDE DEF next
  <1>6. ranged => last.value \in 0 .. U32Range - 1
    <2>1. SUFFICES ASSUME ranged PROVE last.value \in 0 .. U32Range - 1
      OBVIOUS
    <2>2. e \in Texts
      BY <1>5, <2>1, TailIsText, TrimIsText DEF StartsWith
    <2> HIDE DEF e
    <2>3. Len(DevicePrefix(e).name) \in Nat
      BY <2>2, DeviceFacts
    <2>4. from \in Texts
      BY <2>2, <2>3, AfterIsText
    <2> HIDE DEF from
    <2>5. QED  BY <1>2, <2>4, NumberFacts
  <1> DEFINE r == DeviceAndRange(t)
  <1>7. ASSUME NEW n, NEW rest, entry \in {entry}, r = taken(n, rest),
               NEW m \in 0 .. U32Range - 1, first.value <= m, n = Span(first.value, m), n < U16Range,
               entry.device \in Devices
        PROVE  IsGet(RangeCommand("get", r))
    <2>1. r.device = entry.device /\ r.start = first.value /\ r.count = Span(first.value, m)
      BY <1>7
    <2>2. RangeCommand("get", r) = GetOf(entry.device, first.value, Span(first.value, m))
      BY <2>1 DEF RangeCommand, GetOf
    <2>3. QED  BY <1>4, <1>7, <2>2 DEF IsGet
  <1>8. r = IF entry = NoEntry \/ ~first.ok THEN NoRange
            ELSE IF ~ranged THEN taken(1, next)
            ELSE IF \/ named /\ DevicePrefix(e).device # entry.device
                    \/ ~last.ok
                    \/ last.value < first.value
                    \/ Span(first.value, last.value) >= U16Range
            THEN NoRange
            ELSE taken(Span(first.value, last.value), last.rest)
    BY DEF DeviceAndRange, from, e, next, first, entry, s
  <1> HIDE DEF ranged, named, e, last, taken, r
  <1>9. r # NoRange
    BY DEF NoRange, r
  <1>10. entry.device \in Devices
    BY <1>2, <1>8, <1>9
  <1>11. CASE ~ranged
    <2>1. r = taken(1, next)
      BY <1>8, <1>9, <1>11
    <2>2. 1 = Span(first.value, first.value) /\ 1 < U16Range /\ first.value <= first.value
      BY <1>4, OneIsSpan, WidthFacts
    <2>3. QED  BY <1>4, <1>7, <1>10, <2>1, <2>2 DEF r
  <1>12. CASE ranged
    <2> DEFINE n == Span(first.value, last.value)
    <2>1. r = taken(n, last.rest) /\ ~(last.value < first.value) /\ ~(n >= U16Range)
      BY <1>8, <1>9, <1>12
    <2>2. last.value \in 0 .. U32Range - 1
      BY <1>6, <1>12
    <2>3. first.value <= last.value /\ n < U16Range
      <3>1. n \in Nat
        BY <1>4, <2>2, WidthFacts DEF Span
      <3> HIDE DEF n
      <3>2. QED  BY <1>4, <2>1, <2>2, <3>1, WidthFacts
    <2>4. QED  BY <1>7, <1>10, <2>1, <2>2, <2>3 DEF r
  <1>13. QED  BY <1>11, <1>12 DEF r

CommandTypes == {"invalid", "help", "quit", "trace", "header", "get", "set"}

\* What every line parses to: a get has a range, a set a 16-bit value for each
\* address, and one value for all of them if they are more than the values fit in.
Parsed(c) ==
  /\ c.type \in CommandTypes /\ c.address \in 0 .. U32Range - 1 /\ c.count \in 0 .. U16Range - 1
  /\ c.type = "get" => IsGet(c)
  /\ c.type # "set" => c.values = <<>>
  /\ c.type = "set" => c.values \in [1 .. c.count -> 0 .. U16Range - 1]
  /\ c.type = "set" /\ c.count > MaxBitValueCount =>
       \A i \in 1 .. c.count : c.values[i] = c.values[1]

LEMMA CellFacts ==
  ASSUME NEW field, NEW dev, field \in BoolWords \/ (field \in Texts /\ IsCell(field, dev))
  PROVE  CellValue(field) \in 0 .. U16Range - 1
  <1>1. 0 \in 0 .. U16Range - 1 /\ 1 \in 0 .. U16Range - 1
    BY WidthFacts
  <1>2. CASE field \in BoolWords
    BY <1>1, <1>2 DEF CellValue
  <1>3. CASE field \notin BoolWords
    <2>1. field \in Texts /\ Decimal(field).value < U16Range
      BY <1>3 DEF IsCell
    <2>2. Decimal(field).value \in 0 .. U32Range - 1
      BY <2>1, NumberFacts DEF Decimal
    <2>3. Decimal(field).value \in 0 .. U16Range - 1
      BY <2>1, <2>2, WidthFacts
    <2>4. QED  BY <1>3, <2>3 DEF CellValue
  <1>4. QED  BY <1>2, <1>3

LEMMA ListParsed ==
  ASSUME NEW t \in Texts, NEW r, Ranged(r)
  PROVE  Parsed(ScalarOrList(t, r))
  <1> DEFINE fields == Fields(t)
             n      == Len(fields)
             repeat(v) == [i \in 1 .. r.count |-> v]
             With(vals) == [RangeCommand("set", r) EXCEPT !.values = vals]
  <1>1. fields \in Seq(Texts) /\ n \in Nat /\ DOMAIN fields = 1 .. n
        /\ \A k \in 1 .. n : fields[k] \in Texts
    BY FieldsFacts, LenProperties, ElementOfSeq
  <1> HIDE DEF fields
  <1>2. r.count \in Nat /\ MaxBitValueCount \in Nat
    BY WidthFacts DEF Ranged
  <1>3. ASSUME NEW vals \in [1 .. r.count -> 0 .. U16Range - 1],
               r.count > MaxBitValueCount => \A i \in 1 .. r.count : vals[i] = vals[1]
        PROVE  Parsed(With(vals))
    <2>1. /\ With(vals).type = "set" /\ With(vals).values = vals
          /\ With(vals).address = r.start /\ With(vals).count = r.count
      BY DEF RangeCommand, NoCommand
    <2> HIDE DEF With
    <2>2. QED  BY <1>3, <2>1 DEF Parsed, CommandTypes, Ranged
  <1>4. ASSUME NEW v \in 0 .. U16Range - 1 PROVE Parsed(With(repeat(v)))
    <2>1. repeat(v) \in [1 .. r.count -> 0 .. U16Range - 1] /\ \A i \in 1 .. r.count : repeat(v)[i] = v
      OBVIOUS
    <2>2. r.count > MaxBitValueCount => \A i \in 1 .. r.count : repeat(v)[i] = repeat(v)[1]
      <3>1. ASSUME NEW i \in 1 .. r.count PROVE 1 \in 1 .. r.count
        BY <1>2
      <3>2. QED  BY <2>1, <3>1
    <2> HIDE DEF repeat, With
    <2>3. QED  BY <1>3, <2>1, <2>2
  <1>5. Parsed(NoCommand)
    <2>1. 0 \in 0 .. U16Range - 1 /\ 0 \in 0 .. U32Range - 1
      BY WidthFacts
    <2>2. QED  BY <2>1 DEF Parsed, NoCommand, CommandTypes
  <1>6. CASE TakesBool(r.device) /\ Trim(t) \in BoolWords
    <2>1. CellValue(Trim(t)) \in 0 .. U16Range - 1
      BY <1>6, CellFacts
    <2>2. ScalarOrList(t, r) = With(repeat(CellValue(Trim(t))))
      BY <1>6 DEF ScalarOrList
    <2> HIDE DEF With, repeat
    <2>3. QED  BY <1>4, <2>1, <2>2
  <1>7. CASE /\ ~(TakesBool(r.device) /\ Trim(t) \in BoolWords)
             /\ ListFits(fields, r.count) /\ \A k \in DOMAIN fields : IsCell(fields[k], r.device)
    <2>1. ASSUME NEW k \in 1 .. n PROVE CellValue(fields[k]) \in 0 .. U16Range - 1
      BY <1>1, <1>7, CellFacts
    <2>2. CASE n = 1
      <3>1. ScalarOrList(t, r) = With(repeat(CellValue(fields[1])))
        BY <1>7, <2>2 DEF ScalarOrList, fields
      <3>2. 1 \in 1 .. n
        BY <2>2
      <3> HIDE DEF With, repeat
      <3>3. QED  BY <1>4, <2>1, <3>1, <3>2
    <2>3. CASE n # 1
      <3> DEFINE vals == [k \in DOMAIN fields |-> CellValue(fields[k])]
      <3>1. ScalarOrList(t, r) = With(vals)
        BY <1>7, <2>3 DEF ScalarOrList, fields
      <3>2. n = r.count /\ ~(r.count > MaxBitValueCount)
        BY <1>1, <1>2, <1>7, <2>3 DEF ListFits
      <3>3. vals \in [1 .. r.count -> 0 .. U16Range - 1]
        BY <1>1, <2>1, <3>2
      <3> HIDE DEF With, vals
      <3>4. QED  BY <1>3, <3>1, <3>2, <3>3
    <2>4. QED  BY <2>2, <2>3
  <1>8. CASE /\ ~(TakesBool(r.device) /\ Trim(t) \in BoolWords)
             /\ ~(ListFits(fields, r.count) /\ \A k \in DOMAIN fields : IsCell(fields[k], r.device))
    <2>1. ScalarOrList(t, r) = NoCommand
      BY <1>8 DEF ScalarOrList, fields
    <2>2. QED  BY <1>5, <2>1
  <1>9. QED  BY <1>6, <1>7, <1>8

-----------------------------------------------------------------------------
\* The types of a run.

LEMMA LineParsed ==
  ASSUME NEW line \in Texts
  PROVE  Parsed(ParseCommand(line))
  <1>1. 0 \in 0 .. U16Range - 1 /\ 0 \in 0 .. U32Range - 1
    BY WidthFacts
  <1>2. Parsed(NoCommand)
    BY <1>1 DEF Parsed, NoCommand, CommandTypes
  <1>3. ASSUME NEW t \in Texts PROVE Parsed(ParseGet(t))
    <2> DEFINE r == DeviceAndRange(t)
    <2>1. Ranged(r) /\ (r.ok => IsGet(RangeCommand("get", r)))
      BY <1>3, RangeFacts, RangeTaken
    <2> HIDE DEF r
    <2> DEFINE c == RangeCommand("get", r)
    <2>2. /\ c.type = "get" /\ c.address = r.start /\ c.count = r.count /\ c.values = <<>>
      BY DEF RangeCommand, NoCommand
    <2> HIDE DEF c
    <2>3. r.ok => Parsed(c)
      BY <2>1, <2>2 DEF Parsed, CommandTypes, Ranged, c
    <2>4. QED  BY <1>2, <2>3 DEF ParseGet, r, c
  <1>4. ASSUME NEW t \in Texts PROVE Parsed(ParseSet(t))
    <2> DEFINE r     == DeviceAndRange(t)
               value == SkipSpaces(r.rest)
    <2>1. Ranged(r)
      BY <1>4, RangeFacts
    <2> HIDE DEF r
    <2>2. value \in Texts
      BY <2>1, TrimIsText DEF Ranged
    <2> HIDE DEF value
    <2>3. StartsWith(value, {"="}) => Parsed(ScalarOrList(Tail(value), r))
      BY <2>1, <2>2, TailIsText, ListParsed DEF StartsWith
    <2>4. QED  BY <1>2, <2>3 DEF ParseSet, r, value
  <1>5. ASSUME NEW w \in WholeLines PROVE Parsed(w.command)
    <2> DEFINE Plain(c) == /\ c.type \in CommandTypes \ {"get", "set"} /\ c.address = 0 /\ c.count = 0
                           /\ c.values = <<>>
    <2> DEFINE help    == [NoCommand EXCEPT !.type = "help"]
               quit    == [NoCommand EXCEPT !.type = "quit"]
               traceon == [NoCommand EXCEPT !.type = "trace", !.trace = "on"]
               trace   == [NoCommand EXCEPT !.type = "trace"]
               use3e   == [NoCommand EXCEPT !.type = "header", !.header = "3E"]
               use4e   == [NoCommand EXCEPT !.type = "header"]
    <2>1. "type" \in DOMAIN NoCommand /\ "trace" \in DOMAIN NoCommand /\ "header" \in DOMAIN NoCommand
      BY DEF NoCommand
    <2>2. \A c \in {help, quit, traceon, trace, use3e, use4e} : Plain(c)
      BY <2>1 DEF NoCommand, CommandTypes
    <2> HIDE DEF help, quit, traceon, trace, use3e, use4e
    <2>3. w.command \in {help, quit, traceon, trace, use3e, use4e}
      BY WholeLineCommands DEF help, quit, traceon, trace, use3e, use4e
    <2>4. QED  BY <1>1, <2>2, <2>3 DEF Parsed, CommandTypes
  <1> DEFINE t     == SkipSpaces(line)
             whole == {w \in WholeLines : t = <<w.text>>}
  <1>6. t \in Texts
    BY TrimIsText
  <1>7. ASSUME whole # {} PROVE Parsed((CHOOSE w \in whole : TRUE).command)
    <2>1. (CHOOSE w \in whole : TRUE) \in WholeLines
      BY <1>7
    <2>2. QED  BY <2>1, <1>5
  <1>8. IsPrefix(<<"get", " ">>, t) \/ IsPrefix(<<"set", " ">>, t) => Tail(t) \in Texts
    <2>1. ASSUME NEW word, IsPrefix(<<word, " ">>, t) PROVE t # <<>>
      <3>1. Len(<<word, " ">>) = 2
        OBVIOUS
      <3>2. Len(<<word, " ">>) <= Len(t)
        BY <2>1 DEF IsPrefix
      <3> HIDE DEF t
      <3>3. QED  BY <3>1, <3>2
    <2> HIDE DEF t
    <2>2. QED  BY <1>6, <2>1, TailIsText
  <1> HIDE DEF whole, t
  <1>9. Parsed(IF whole # {} THEN (CHOOSE w \in whole : TRUE).command
               ELSE IF IsPrefix(<<"get", " ">>, t) THEN ParseGet(Tail(t))
               ELSE IF IsPrefix(<<"set", " ">>, t) THEN ParseSet(Tail(t))
               ELSE NoCommand)
    BY <1>2, <1>3, <1>4, <1>7, <1>8
  <1>10. QED  BY <1>9 DEF ParseCommand, whole, t

\* What is in the configuration besides strings.
Valid(c) ==
  /\ c.header \in Headers /\ c.trace \in {"on", "off"}
  /\ c.timeout \in {"set", "zero"} /\ c.network \in 0 .. ByteRange - 1

Others == ConfigFields \ {"host", "script"}

\* A string that is set, and the strings that are freed, leave the rest alone.
LEMMA StringsApart ==
  ASSUME Shape, Valid(config), FreeConfig \/ (\E field \in {"host", "script"} : \E text : SetString(field, text))
  PROVE  Valid(config')
  <1>1. \A f \in Others : config'[f] = config[f]
    BY DEF Shape, ConfigFields, Others, FreeConfig, SetString
  <1>2. QED  BY <1>1 DEF Valid, Others, ConfigFields

LEMMA FieldSet ==
  ASSUME Shape, Valid(config), NEW key \in Others, NEW value, config' = [config EXCEPT ![key] = value],
         key = "header" => value \in Headers,
         key = "trace" => value \in {"on", "off"},
         key = "timeout" => value \in {"set", "zero"},
         key = "network" => value \in 0 .. ByteRange - 1
  PROVE  Valid(config')
  <1>1. config'[key] = value /\ \A f \in Others \ {key} : config'[f] = config[f]
    BY DEF Shape, Others
  <1>2. QED  BY <1>1 DEF Valid, Others, ConfigFields

LEMMA NetworkIsByte ==
  ASSUME NEW text \in Texts, NEW n \in NetworkNumbers(text)
  PROVE  n \in 0 .. ByteRange - 1
  <1>1. ByteRange \in Nat /\ ByteRange > 0
    BY ShellAssumption
  <1> DEFINE v == NumberText(text).value
  <1>2. v \in Nat
    BY NumberTextFacts, WidthFacts
  <1> HIDE DEF v
  <1>3. v % ByteRange \in 0 .. ByteRange - 1
    BY <1>1, <1>2
  <1>4. QED  BY <1>3 DEF NetworkNumbers, v

\* Every step leaves the configuration valid.
LEMMA ConfigStaysValid ==
  ASSUME IInv, Valid(config), Next
  PROVE  Valid(config')
  <1>0. Shape
    BY DEF IInv
  <1>1. CASE UNCHANGED config
    BY <1>1 DEF Valid
  <1>2. CASE FreeConfig
    BY <1>0, <1>2, StringsApart
  <1>3. ASSUME NEW field \in {"host", "script"}, NEW text, SetString(field, text) PROVE Valid(config')
    BY <1>0, <1>3, StringsApart
  <1>4. CASE Configure
    <2>1. 0 \in 0 .. ByteRange - 1
      BY ShellAssumption
    <2>2. QED  BY <1>4, <2>1 DEF Configure, DefaultConfig, Valid, Headers
  <1>5. CASE FileLine
    <2>1. PICK l \in session.file : ApplyKv(l.key, l.value)
      BY <1>5 DEF FileLine
    <2>2. CASE SetString("host", l.value) \/ NoMemory
      BY <1>1, <1>3, <2>2 DEF NoMemory
    <2>3. CASE config' = [config EXCEPT !.trace = TraceOf(l.value)]
      BY <1>0, <2>3, FieldSet DEF TraceOf, Others, ConfigFields
    <2>4. CASE config' = [config EXCEPT !.header = HeaderOf(l.value)]
      BY <1>0, <2>4, FieldSet DEF HeaderOf, Headers, Others, ConfigFields
    <2>5. CASE config' = [config EXCEPT !.timeout = IF NumberText(l.value).value = 0 THEN "zero" ELSE "set"]
      BY <1>0, <2>5, FieldSet DEF Others, ConfigFields
    <2>6. ASSUME l.key = "network_no", NEW n \in NetworkNumbers(l.value), config' = [config EXCEPT !.network = n]
          PROVE  Valid(config')
      <3>1. l.value \in Texts
        BY <1>0, <2>6, ShellAssumption DEF Shape
      <3>2. n \in 0 .. ByteRange - 1
        BY <3>1, NetworkIsByte
      <3>3. QED  BY <1>0, <2>6, <3>2, FieldSet DEF Others, ConfigFields
    <2>7. QED  BY <2>1, <2>2, <2>3, <2>4, <2>5, <2>6 DEF ApplyKv
  <1>6. CASE Option
    <2>1. CASE SetOption("trace", "on")
      BY <1>0, <2>1, FieldSet DEF SetOption, Others, ConfigFields
    <2>2. ASSUME NEW h \in {"3E", "4E"}, SetOption("header", h) PROVE Valid(config')
      BY <1>0, <2>2, FieldSet DEF SetOption, Headers, Others, ConfigFields
    <2>3. ASSUME NEW path, NEW used, SetScript(path, used) PROVE Valid(config')
      BY <1>3, <2>3 DEF SetScript
    <2>4. CASE UnknownOption
      BY <1>2, <2>4 DEF UnknownOption, GiveUp
    <2>5. QED  BY <1>6, <2>1, <2>2, <2>3, <2>4 DEF Option
  <1>7. CASE ReadLine
    <2>1. ASSUME NEW key \in {"trace", "header"}, NEW value, Change(key, value),
                 key = "trace" => value \in {"on", "off"}, key = "header" => value \in {"3E", "4E"}
          PROVE  Valid(config')
      BY <1>0, <2>1, FieldSet DEF Change, Headers, Others, ConfigFields
    <2>2. ASSUME NEW c, c.trace \in {"on", "off"}, c.header \in {"3E", "4E"}, Execute(c)
          PROVE  Valid(config')
      <3>1. CASE UNCHANGED config
        BY <1>1, <3>1
      <3>2. CASE ~UNCHANGED config
        <4>1. Change("trace", c.trace) \/ Change("header", c.header)
          BY <2>2, <3>2 DEF Execute, Wrong, Leave, GoOn, Crash
        <4>2. QED  BY <2>1, <2>2, <4>1
      <3>3. QED  BY <3>1, <3>2
    <2>3. CASE GoOn
      BY <1>1, <2>3 DEF GoOn
    <2>4. CASE ~GoOn
      <3>1. PICK l \in session.lines : cmd' = ParseCommand(Trim(l)) /\ Execute(cmd')
        BY <1>7, <2>4 DEF ReadLine
      <3>2. Execute(ParseCommand(Trim(l)))
        BY <3>1
      <3>3. QED  BY <2>2, <3>2, CommandSettings
    <2>5. QED  BY <2>3, <2>4
  <1>8. CASE SetHost
    BY <1>2, <1>3, <1>8 DEF SetHost, GiveUp
  <1>9. CASE AppInit
    BY <1>1, <1>2, <1>9 DEF AppInit, GiveUp
  <1>10. CASE Shutdown
    BY <1>2, <1>10 DEF Shutdown
  <1>11. CASE Usage \/ OpenScript \/ EndOfInput
    BY <1>1, <1>11 DEF Usage, OpenScript, EndOfInput, Leave
  <1>12. QED
    BY <1>4, <1>5, <1>6, <1>7, <1>8, <1>9, <1>10, <1>11 DEF Next

\* The invariant of the types; the command is one that a line can be.
Sorts ==
  /\ Valid(config)
  /\ sock \in {"none", "open", "closed"} /\ held \in BOOLEAN /\ timed \in BOOLEAN
  /\ rc \in {0, 1, 2} /\ Parsed(cmd)

LEMMA SortsStart == ASSUME Init PROVE Sorts
  <1>1. 0 \in 0 .. ByteRange - 1 /\ 0 \in 0 .. U16Range - 1 /\ 0 \in 0 .. U32Range - 1
    BY ShellAssumption, WidthFacts
  <1>2. Valid(config)
    BY <1>1 DEF Init, DefaultConfig, Valid, Headers
  <1>3. Parsed(cmd)
    BY <1>1 DEF Init, Parsed, NoCommand, CommandTypes
  <1>4. QED  BY <1>2, <1>3 DEF Init, Sorts

LEMMA SortsKept == ASSUME IInv, Sorts, [Next]_vars PROVE Sorts'
  <1>1. CASE UNCHANGED vars
    BY <1>1 DEF vars, app, Sorts
  <1>2. CASE Next
    <2>1. Valid(config')
      BY <1>2, ConfigStaysValid DEF Sorts
    <2>2. sock' \in {"none", "open", "closed"} /\ held' \in BOOLEAN /\ timed' \in BOOLEAN
      <3>1. CASE UNCHANGED app
        BY <3>1 DEF app, Sorts
      <3>2. CASE AppInit
        BY <3>2 DEF AppInit, Sorts
      <3>3. CASE Shutdown
        BY <3>3 DEF Shutdown, Sorts
      <3>4. QED
        BY <1>2, <3>1, <3>2, <3>3
        DEF Next, Usage, Configure, FileLine, SetHost, Option, OpenScript, ReadLine, EndOfInput
    <2>3. rc' \in {0, 1, 2}
      <3>1. CASE UNCHANGED rc
        BY <3>1 DEF Sorts
      <3>2. CASE Usage \/ Configure \/ FileLine \/ SetHost
        BY <3>1, <3>2 DEF Usage, Configure, FileLine, SetHost, GiveUp
      <3>3. CASE Option
        BY <3>1, <3>3 DEF Option, SetOption, SetScript, UnknownOption, GiveUp
      <3>4. CASE ReadLine
        <4>1. ASSUME NEW c, Execute(c) PROVE rc' \in {0, 1, 2}
          BY <3>1, <4>1 DEF Execute, Wrong, Leave, GoOn, Change, Crash
        <4>2. CASE GoOn
          BY <3>1, <4>2 DEF GoOn
        <4>3. QED  BY <3>4, <4>1, <4>2 DEF ReadLine
      <3>5. CASE AppInit \/ OpenScript \/ EndOfInput \/ Shutdown
        BY <3>1, <3>5 DEF AppInit, OpenScript, EndOfInput, Shutdown, GiveUp, Leave
      <3>6. QED  BY <1>2, <3>2, <3>3, <3>4, <3>5 DEF Next
    <2>4. Parsed(cmd')
      <3>1. CASE ReadLine
        <4>1. PICK l \in session.lines : cmd' = NoCommand \/ cmd' = ParseCommand(Trim(l))
          BY <3>1 DEF ReadLine
        <4>2. l \in Texts
          BY <4>1, ShellAssumption DEF IInv, Shape
        <4>3. Parsed(ParseCommand(Trim(l)))
          BY <4>2, TrimIsText, LineParsed
        <4>4. Parsed(NoCommand)
          <5>1. 0 \in 0 .. U16Range - 1 /\ 0 \in 0 .. U32Range - 1
            BY WidthFacts
          <5>2. QED  BY <5>1 DEF Parsed, NoCommand, CommandTypes
        <4>5. QED  BY <4>1, <4>3, <4>4
      <3>2. CASE UNCHANGED cmd
        BY <3>2 DEF Sorts
      <3>3. QED
        BY <1>2, <3>1, <3>2
        DEF Next, Usage, Configure, FileLine, SetHost, Option, AppInit, OpenScript, EndOfInput, Shutdown
    <2>5. QED  BY <2>1, <2>2, <2>3, <2>4 DEF Sorts
  <1>3. QED  BY <1>1, <1>2

LEMMA AlwaysSorted == Spec => []Sorts
  <1>1. IInv /\ Sorts /\ [Next]_vars => Sorts'
    BY SortsKept
  <1>2. QED  BY <1>1, SortsStart, Invariance, PTL DEF Spec

\* What the client holds has its type: the numbers of a command fit their
\* integers, whatever digits were typed (fx5_client_parser.c), and so do those
\* of the configuration file (fx5_client_config.c).
THEOREM ShellTypeCorrect == Spec => []TypeOK
  <1>1. IInv /\ Sorts => TypeOK
    <2>1. ASSUME IInv PROVE config.host \in Blocks \cup {NULL} /\ config.script \in Blocks \cup {NULL}
      BY <2>1 DEF IInv, Shape, StringsOwned
    <2>2. ASSUME IInv PROVE session \in Sessions /\ arg \in Nat /\ phase \in Phases /\ DOMAIN heap \subseteq Blocks
      BY <2>2 DEF IInv, Shape
    <2>3. ASSUME Sorts PROVE /\ cmd.type \in {"invalid", "help", "quit", "trace", "header", "get", "set"}
                             /\ cmd.address \in 0 .. U32Range - 1 /\ cmd.count \in 0 .. U16Range - 1
      BY <2>3 DEF Sorts, Parsed, CommandTypes
    <2>4. QED  BY <2>1, <2>2, <2>3 DEF Sorts, Valid, TypeOK
  <1>2. QED  BY <1>1, Invariance, AlwaysSorted, PTL

\* A set has exactly one 16-bit value for each address of its range
\* (fx5_client_parse_scalar_or_list), for every line.
THEOREM SetsAreWhole == Spec => []SetIsWhole
  <1>1. Sorts => SetIsWhole
    <2>1. ASSUME Sorts, cmd.type = "set"
          PROVE  Len(cmd.values) = cmd.count /\ \A i \in DOMAIN cmd.values : cmd.values[i] < U16Range
      <3>1. cmd.values \in [1 .. cmd.count -> 0 .. U16Range - 1] /\ cmd.count \in Nat
        BY <2>1, WidthFacts DEF Sorts, Parsed
      <3>2. Len(cmd.values) = cmd.count
        BY <3>1, FunctionIsSeq
      <3>3. ASSUME NEW i \in DOMAIN cmd.values PROVE cmd.values[i] < U16Range
        BY <3>1, WidthFacts
      <3>4. QED  BY <3>2, <3>3
    <2>2. QED  BY <2>1 DEF SetIsWhole
  <1>2. QED  BY <1>1, AlwaysSorted, PTL

\* Only one value, repeated over a range that no request can be made for, is
\* ever stored past the end of the array of values.
THEOREM ValuesStayInside == Spec => []StoresStayInside
  <1>1. Sorts => StoresStayInside
    <2>1. SUFFICES ASSUME Sorts, Overruns(cmd)
                   PROVE  Refused(cmd) /\ \A i \in DOMAIN cmd.values : cmd.values[i] = cmd.values[1]
      BY DEF StoresStayInside
    <2>2. cmd.type = "set"
      <3>1. Len(<<>>) = 0
        BY EmptySeq
      <3>2. QED  BY <2>1, <3>1, WidthFacts DEF Sorts, Parsed, Overruns
    <2>3. cmd.values \in [1 .. cmd.count -> 0 .. U16Range - 1] /\ cmd.count \in Nat
      BY <2>1, <2>2, WidthFacts DEF Sorts, Parsed
    <2>4. cmd.count > MaxBitValueCount
      <3>1. Len(cmd.values) = cmd.count
        BY <2>3, FunctionIsSeq
      <3>2. QED  BY <2>1, <3>1 DEF Overruns
    <2>5. cmd.count > MaxCount(cmd.device)
      <3>1. LargestValueCount \in Int
        BY DEF LargestValueCount
      <3>2. MaxValueCount \in Nat
        BY <3>1, ContextAssumption
      <3>3. MaxCount(cmd.device) \in Nat /\ MaxCount(cmd.device) <= MaxBitValueCount
        BY <3>2 DEF MaxCount, MaxBitValueCount, BitsPerWord
      <3>4. QED  BY <2>3, <2>4, <3>3, WidthFacts
    <2>6. Refused(cmd)
      BY <2>5 DEF Refused, SetRequestStatus
    <2>7. QED  BY <2>1, <2>2, <2>3, <2>4, <2>6 DEF Sorts, Parsed
  <1>2. QED  BY <1>1, AlwaysSorted, PTL

-----------------------------------------------------------------------------
\* Numbers as they are printed.

\* A digit has the value of its place.
LEMMA DigitsCount ==
  ASSUME NEW v \in 0 .. 15
  PROVE  DigitValue(HexDigits[v + 1]) = v
  <1>1. DOMAIN HexDigits = 1 .. 16
    BY DEF HexDigits
  <1>2. /\ HexDigits[1] = "0" /\ HexDigits[2] = "1" /\ HexDigits[3] = "2" /\ HexDigits[4] = "3"
        /\ HexDigits[5] = "4" /\ HexDigits[6] = "5" /\ HexDigits[7] = "6" /\ HexDigits[8] = "7"
        /\ HexDigits[9] = "8" /\ HexDigits[10] = "9" /\ HexDigits[11] = "A" /\ HexDigits[12] = "B"
        /\ HexDigits[13] = "C" /\ HexDigits[14] = "D" /\ HexDigits[15] = "E" /\ HexDigits[16] = "F"
    BY DEF HexDigits
  <1>3. v + 1 \in 1 .. 16
    OBVIOUS
  <1>4. \A i \in 1 .. 16 : i \in {1, 2, 3, 4, 5, 6, 7, 8, 9, 10, 11, 12, 13, 14, 15, 16}
    OBVIOUS
  <1>5. \A i, j \in 1 .. 16 : HexDigits[i] = HexDigits[j] => i = j
    BY <1>2, <1>4
  <1> DEFINE k == CHOOSE i \in DOMAIN HexDigits : HexDigits[i] = HexDigits[v + 1]
  <1>6. k \in DOMAIN HexDigits /\ HexDigits[k] = HexDigits[v + 1]
    BY <1>1, <1>3
  <1>7. DigitValue(HexDigits[v + 1]) = k - 1
    BY DEF DigitValue
  <1> HIDE DEF k
  <1>8. k = v + 1
    BY <1>1, <1>3, <1>5, <1>6
  <1>9. QED  BY <1>7, <1>8

LEMMA Divided ==
  ASSUME NEW x \in Nat, NEW base \in {8, 10, 16}
  PROVE  /\ x \div base \in 0 .. x /\ (x = 0 \/ x \div base < x)
         /\ x = base * (x \div base) + (x % base) /\ (x % base) \in 0 .. base - 1
  <1>1. ASSUME base = 8
        PROVE  /\ x \div 8 \in 0 .. x /\ (x = 0 \/ x \div 8 < x)
               /\ x = 8 * (x \div 8) + (x % 8) /\ (x % 8) \in 0 .. 7
    OBVIOUS
  <1>2. ASSUME base = 10
        PROVE  /\ x \div 10 \in 0 .. x /\ (x = 0 \/ x \div 10 < x)
               /\ x = 10 * (x \div 10) + (x % 10) /\ (x % 10) \in 0 .. 9
    OBVIOUS
  <1>3. ASSUME base = 16
        PROVE  /\ x \div 16 \in 0 .. x /\ (x = 0 \/ x \div 16 < x)
               /\ x = 16 * (x \div 16) + (x % 16) /\ (x % 16) \in 0 .. 15
    OBVIOUS
  <1>4. CASE base = 8
    BY <1>1, <1>4
  <1>5. CASE base = 10
    BY <1>2, <1>5
  <1>6. CASE base = 16
    BY <1>3, <1>6
  <1>7. QED  BY <1>4, <1>5, <1>6

\* What is left of n after each division by the base.
Left(left, n, base) ==
  left = [i \in 0 .. n + 1 |-> IF i = 0 THEN n ELSE left[i - 1] \div base]

\* A number divided again and again shrinks until nothing is left.
LEMMA LeftFacts ==
  ASSUME NEW n \in Nat, NEW base \in {8, 10, 16}, NEW left, Left(left, n, base)
  PROVE  /\ \A i \in 0 .. n + 1 : left[i] \in 0 .. n /\ (left[i] = 0 \/ left[i] + i <= n)
         /\ \A i \in 1 .. n + 1 : left[i - 1] = base * left[i] + (left[i - 1] % base)
         /\ left[0] = n
  <1> DEFINE Shrinks(i) == left[i] \in 0 .. n /\ (left[i] = 0 \/ left[i] + i <= n)
             bad == {i \in 0 .. n + 1 : ~Shrinks(i)}
  <1>1. left[0] = n /\ \A i \in 1 .. n + 1 : left[i] = left[i - 1] \div base
    BY DEF Left
  <1>2. Shrinks(0)
    BY <1>1
  <1>3. ASSUME NEW i \in 1 .. n + 1, Shrinks(i - 1)
        PROVE  Shrinks(i)
    <2> DEFINE x == left[i - 1]
               y == left[i]
    <2>1. x \in 0 .. n /\ (x = 0 \/ x + (i - 1) <= n) /\ y = x \div base
      BY <1>1, <1>3
    <2> HIDE DEF x, y
    <2>2. y \in 0 .. x /\ (x = 0 \/ y < x)
      BY <2>1, Divided
    <2>3. y \in 0 .. n /\ (y = 0 \/ y + i <= n)
      BY <2>1, <2>2
    <2>4. QED  BY <2>3 DEF y
  <1> HIDE DEF Shrinks
  <1>4. \A i \in 0 .. n + 1 : Shrinks(i)
    <2>1. SUFFICES ASSUME bad # {} PROVE FALSE
      OBVIOUS
    <2>2. bad \subseteq Nat
      OBVIOUS
    <2>3. PICK m \in bad : \A x \in bad : m <= x
      <3> HIDE DEF bad
      <3>1. QED  BY <2>1, <2>2, LeastExists
    <2>4. m \in 1 .. n + 1 /\ m - 1 \in 0 .. n + 1 /\ ~(m <= m - 1)
      BY <1>2, <2>3
    <2>5. Shrinks(m - 1)
      BY <2>3, <2>4
    <2>6. QED  BY <1>3, <2>3, <2>4, <2>5
  <1>5. ASSUME NEW i \in 1 .. n + 1
        PROVE  left[i - 1] = base * left[i] + (left[i - 1] % base)
    <2>1. i - 1 \in 0 .. n + 1
      OBVIOUS
    <2>2. Shrinks(i - 1)
      BY <1>4, <2>1
    <2> DEFINE x == left[i - 1]
               y == left[i]
    <2>3. x \in Nat /\ y = x \div base
      BY <1>1, <2>2 DEF Shrinks
    <2> HIDE DEF x, y
    <2>4. x = base * y + (x % base)
      BY <2>3, Divided
    <2>5. QED  BY <2>4 DEF x, y
  <1>6. QED  BY <1>1, <1>4, <1>5 DEF Shrinks

\* The least of a number and the largest one is the number.
LEMMA Unsaturated ==
  ASSUME NEW x \in Nat, x <= ULongMax
  PROVE  Min({x, ULongMax}) = x
  <1>1. ULongMax \in Nat
    BY WidthFacts
  <1>2. QED  BY <1>1, LeastIs

\* A number is printed in at least one digit, and strtoul reads it back.
LEMMA NumeralFacts ==
  ASSUME NEW n \in Nat, NEW base \in {8, 10, 16}
  PROVE  /\ Numeral(n, base) \in Seq(DigitsOf(base)) /\ Len(Numeral(n, base)) \in Nat \ {0}
         /\ n <= ULongMax => StrToUL(Numeral(n, base), base) = n
  <1> DEFINE left == CHOOSE f : Left(f, n, base)
             size == CHOOSE i \in 1 .. n + 1 : left[i] = 0 /\ (i > 1 => left[i - 1] # 0)
             t    == [j \in 1 .. size |-> HexDigits[(left[size - j] % base) + 1]]
  <1>1. Numeral(n, base) = t
    BY DEF Numeral, Left
  <1>2. Left(left, n, base)
    <2> DEFINE m == n + 1
               V == 0 .. n
               F == [p \in V \X (1 .. m) |-> p[1] \div base]
    <2>1. m \in Nat /\ n \in V
      OBVIOUS
    <2>2. \A v \in V : v \div base \in V
      <3>1. ASSUME NEW v \in V PROVE v \div base \in V
        <4>1. v \in Nat /\ v \div base \in 0 .. v
          BY Divided
        <4> DEFINE w == v \div base
        <4> HIDE DEF w
        <4>2. w \in V
          BY <4>1 DEF w
        <4>3. QED  BY <4>2 DEF w
      <3>2. QED  BY <3>1
    <2>3. F \in [V \X (1 .. m) -> V] /\ \A v \in V : \A i \in 1 .. m : F[<<v, i>>] = v \div base
      <3> HIDE DEF V, m
      <3>1. QED  BY <2>2
    <2> HIDE DEF F, V, m
    <2>4. PICK g \in [0 .. m -> V] : Follows(g, n, m, F)
      BY <2>1, <2>3, RecursionDefines
    <2>5. ASSUME NEW i \in 0 .. m PROVE g[i] = IF i = 0 THEN n ELSE g[i - 1] \div base
      <3>1. CASE i = 0
        BY <2>4, <3>1 DEF Follows
      <3>2. CASE i # 0
        <4>1. i \in 1 .. m /\ i - 1 \in 0 .. m
          BY <2>1, <3>2
        <4>2. QED  BY <2>3, <2>4, <3>2, <4>1 DEF Follows
      <3>3. QED  BY <3>1, <3>2
    <2>6. Left(g, n, base)
      BY <2>4, <2>5 DEF m, Left
    <2>7. QED  BY <2>6
  <1> HIDE DEF left
  <1>3. /\ \A i \in 0 .. n + 1 : left[i] \in 0 .. n /\ (left[i] = 0 \/ left[i] + i <= n)
        /\ \A i \in 1 .. n + 1 : left[i - 1] = base * left[i] + (left[i - 1] % base)
        /\ left[0] = n
    BY <1>2, LeftFacts
  <1>4. size \in 1 .. n + 1 /\ left[size] = 0
    <2> DEFINE zeros == {i \in 1 .. n + 1 : left[i] = 0}
    <2>1. n + 1 \in zeros
      BY <1>3
    <2>2. zeros \subseteq Nat
      OBVIOUS
    <2>3. PICK m \in zeros : \A x \in zeros : m <= x
      <3> HIDE DEF zeros
      <3>1. QED  BY <2>1, <2>2, LeastExists
    <2>4. ASSUME m > 1 PROVE left[m - 1] # 0
      <3>1. m - 1 \in 1 .. n + 1 /\ ~(m <= m - 1)
        BY <2>3, <2>4
      <3>2. QED  BY <2>3, <3>1
    <2>5. \E i \in 1 .. n + 1 : left[i] = 0 /\ (i > 1 => left[i - 1] # 0)
      BY <2>3, <2>4
    <2>6. QED  BY <2>5
  <1> HIDE DEF size
  <1>5. ASSUME NEW j \in 1 .. size
        PROVE  /\ size - j \in 0 .. n + 1 /\ left[size - j] \in Nat
               /\ (left[size - j] % base) \in 0 .. base - 1
    <2>1. size - j \in 0 .. n + 1
      BY <1>4
    <2> DEFINE x == left[size - j]
    <2>2. x \in Nat
      BY <1>3, <2>1
    <2> HIDE DEF x
    <2>3. (x % base) \in 0 .. base - 1
      BY <2>2, Divided
    <2>4. QED  BY <2>1, <2>2, <2>3 DEF x
  <1>6. t \in [1 .. size -> DigitsOf(base)]
    <2>1. ASSUME NEW j \in 1 .. size PROVE HexDigits[(left[size - j] % base) + 1] \in DigitsOf(base)
      <3> DEFINE d == left[size - j] % base
      <3>1. d \in 0 .. base - 1
        BY <1>5
      <3> HIDE DEF d
      <3>2. d + 1 \in 1 .. base
        BY <3>1
      <3>3. HexDigits[d + 1] \in DigitsOf(base)
        BY <3>2 DEF DigitsOf
      <3>4. QED  BY <3>3 DEF d
    <2>2. QED  BY <2>1
  <1>7. t \in Seq(DigitsOf(base)) /\ Len(t) = size /\ size \in Nat /\ size # 0
    <2>1. size \in Nat /\ size # 0
      BY <1>4
    <2> HIDE DEF t
    <2>2. QED  BY <1>6, <2>1, FunctionIsSeq
  <1>8. ASSUME NEW j \in 1 .. size
        PROVE  DigitValue(t[j]) = left[size - j] % base
    <2> DEFINE d == left[size - j] % base
    <2>1. d \in 0 .. 15
      BY <1>5
    <2>2. t[j] = HexDigits[d + 1]
      OBVIOUS
    <2> HIDE DEF d, t
    <2>3. DigitValue(t[j]) = d
      BY <2>1, <2>2, DigitsCount
    <2>4. QED  BY <2>3 DEF d
  <1> HIDE DEF t
  <1>9. ASSUME n <= ULongMax
        PROVE  StrToUL(t, base) = n
    <2>1. t \in Seq(DigitsOf(16)) /\ base \in Nat
      <3>1. DigitsOf(base) \subseteq DigitsOf(16)
        BY DigitsWithin
      <3>2. QED  BY <1>7, <3>1, SeqMonotonic
    <2>2. PICK read : /\ StrToUL(t, base) = read[Len(t)] /\ read[0] = 0
                      /\ \A i \in 0 .. Len(t) : read[i] \in 0 .. ULongMax
                      /\ \A i \in 1 .. Len(t) :
                           read[i] = Min({base * read[i - 1] + DigitValue(t[i]), ULongMax})
      BY <2>1, ReadUnfolds
    <2> DEFINE Agrees(k) == read[k] = left[size - k]
               bad == {k \in 0 .. size : ~Agrees(k)}
    <2>3. Agrees(0)
      BY <1>4, <2>2
    <2>4. ASSUME NEW k \in 1 .. size, Agrees(k - 1) PROVE Agrees(k)
      <3> DEFINE a == left[size - k]
                 b == left[size - (k - 1)]
                 i == size - (k - 1)
      <3>1. i \in 1 .. n + 1 /\ i - 1 = size - k
        BY <1>4
      <3>2. a = base * b + (a % base)
        BY <1>3, <3>1
      <3>3. a \in Nat /\ a <= n
        BY <1>3, <1>5
      <3>4. read[k] = Min({base * b + (a % base), ULongMax})
        BY <1>7, <1>8, <2>2, <2>4
      <3> HIDE DEF a, b
      <3>5. read[k] = Min({a, ULongMax})
        BY <3>2, <3>4
      <3>6. a <= ULongMax
        BY <1>9, <3>3, WidthFacts
      <3>7. read[k] = a
        BY <3>3, <3>5, <3>6, Unsaturated
      <3>8. QED  BY <3>7 DEF a
    <2> HIDE DEF Agrees
    <2>5. Agrees(size)
      <3>1. SUFFICES ASSUME bad # {} PROVE FALSE
        BY <1>7
      <3>2. bad \subseteq Nat
        BY <1>7
      <3>3. PICK m \in bad : \A x \in bad : m <= x
        <4> HIDE DEF bad
        <4>1. QED  BY <3>1, <3>2, LeastExists
      <3>4. m \in 1 .. size /\ m - 1 \in 0 .. size /\ ~(m <= m - 1)
        BY <1>7, <2>3, <3>3
      <3>5. Agrees(m - 1)
        BY <3>3, <3>4
      <3>6. QED  BY <2>4, <3>3, <3>4, <3>5
    <2>6. read[size] = left[0]
      BY <1>7, <2>5 DEF Agrees
    <2>7. QED  BY <1>3, <1>7, <2>2, <2>6
  <1>10. QED  BY <1>1, <1>7, <1>9

LEMMA RunIs ==
  ASSUME NEW S, NEW t \in Seq(S), NEW symbols, NEW n \in 0 .. Len(t),
         \A i \in 1 .. n : t[i] \in symbols, n < Len(t) => t[n + 1] \notin symbols
  PROVE  LeadingRun(t, symbols) = n
  <1> DEFINE l == Len(t)
             Is(m) == /\ \A i \in 1 .. m : t[i] \in symbols
                      /\ m < l => t[m + 1] \notin symbols
  <1>1. l \in Nat /\ n \in 0 .. l
    BY LenProperties
  <1>2. Is(n)
    OBVIOUS
  <1>3. ASSUME NEW m \in 0 .. l, Is(m) PROVE m = n
    <2> HIDE DEF l
    <2>1. ~(m < n)
      <3>1. ASSUME m < n PROVE m + 1 \in 1 .. n /\ m < l
        BY <1>1, <3>1
      <3>2. QED  BY <1>2, <1>3, <3>1
    <2>2. ~(n < m)
      <3>1. ASSUME n < m PROVE n + 1 \in 1 .. m /\ n < l
        BY <1>1, <3>1
      <3>2. QED  BY <1>2, <1>3, <3>1
    <2>3. QED  BY <1>1, <2>1, <2>2
  <1> DEFINE r == CHOOSE m \in 0 .. l : Is(m)
  <1>4. r = n
    <2>1. \E m \in 0 .. l : Is(m)
      BY <1>1, <1>2
    <2> HIDE DEF Is, l
    <2>2. r \in 0 .. l /\ Is(r)
      BY <2>1
    <2> HIDE DEF r
    <2>3. QED  BY <1>3, <2>2
  <1>5. QED  BY <1>4 DEF LeadingRun

\* Nothing is taken from a text that does not start with what is taken.
LEMMA NoRun ==
  ASSUME NEW S, NEW t \in Seq(S), NEW symbols, ~StartsWith(t, symbols)
  PROVE  LeadingRun(t, symbols) = 0 /\ After(t, 0) = t
  <1> DEFINE l == Len(t)
  <1>1. l \in Nat /\ 0 + 1 = 1
    BY LenProperties
  <1>2. t # <<>> => t[1] \notin symbols
    BY DEF StartsWith
  <1>3. 0 < l => t # <<>>
    <2>1. Len(<<>>) = 0
      BY EmptySeq
    <2>2. QED  BY <2>1
  <1>4. 0 \in 0 .. l /\ (\A i \in 1 .. 0 : t[i] \in symbols) /\ (0 < l => t[0 + 1] \notin symbols)
    <2> HIDE DEF l
    <2>1. QED  BY <1>1, <1>2, <1>3
  <1>5. LeadingRun(t, symbols) = 0
    BY <1>4, RunIs
  <1>6. SubSeq(t, 1, l) = t
    BY SubSeqFull
  <1>7. QED  BY <1>1, <1>5, <1>6 DEF After

Blanks == {" "}

LEMMA NoSpaces ==
  ASSUME NEW S, NEW t \in Seq(S), ~StartsWith(t, Blanks)
  PROVE  SkipSpaces(t) = t
  <1>1. SkipSpaces(t) = After(t, LeadingRun(t, Blanks))
    BY Zenon DEF SkipSpaces, Blanks
  <1>2. LeadingRun(t, Blanks) = 0 /\ After(t, 0) = t
    BY NoRun
  <1>3. QED  BY <1>1, <1>2

\* Two texts one after the other, cut where they meet.
LEMMA CutApart ==
  ASSUME NEW S, NEW x \in Seq(S), NEW y \in Seq(S)
  PROVE  SubSeq(x \o y, 1, Len(x)) = x /\ After(x \o y, Len(x)) = y
  <1> DEFINE t == x \o y
             a == Len(x)
             b == Len(y)
  <1>1. a \in Nat /\ b \in Nat
    BY LenProperties
  <1>2. t \in Seq(S) /\ Len(t) = a + b /\ \A i \in 1 .. a + b : t[i] = IF i <= a THEN x[i] ELSE y[i - a]
    BY ConcatProperties
  <1> HIDE DEF t
  <1>3. \A i \in 1 .. a + b : t[i] \in S
    BY <1>2, ElementOfSeq
  <1>4. SubSeq(t, 1, a) = x
    <2> DEFINE s == SubSeq(t, 1, a)
    <2>1. \A i \in 1 .. a : t[i] \in S
      BY <1>1, <1>3
    <2>2. s \in Seq(S) /\ Len(s) = (IF 1 <= a THEN a - 1 + 1 ELSE 0) /\ \A i \in 1 .. a - 1 + 1 : s[i] = t[1 + i - 1]
      BY <1>1, <2>1, SubSeqProperties
    <2> HIDE DEF s, a, b
    <2>3. Len(s) = a
      BY <1>1, <2>2
    <2>4. \A i \in 1 .. a : s[i] = x[i]
      <3>1. ASSUME NEW i \in 1 .. a PROVE s[i] = x[i]
        <4>1. i \in 1 .. a - 1 + 1 /\ 1 + i - 1 = i /\ i \in 1 .. a + b /\ i <= a
          BY <1>1
        <4>2. QED  BY <1>2, <2>2, <4>1
      <3>2. QED  BY <3>1
    <2>5. s = x
      BY <2>2, <2>3, <2>4, SeqEqual DEF a
    <2>6. QED  BY <2>5 DEF s
  <1>5. SubSeq(t, a + 1, a + b) = y
    <2> DEFINE s == SubSeq(t, a + 1, a + b)
               f == a + 1
               l == a + b
    <2>1. f \in Int /\ l \in Int /\ \A i \in f .. l : t[i] \in S
      BY <1>1, <1>3
    <2>2. s \in Seq(S) /\ Len(s) = (IF f <= l THEN l - f + 1 ELSE 0) /\ \A i \in 1 .. l - f + 1 : s[i] = t[f + i - 1]
      <3> HIDE DEF f, l
      <3>1. SubSeq(t, f, l) \in Seq(S) /\ Len(SubSeq(t, f, l)) = (IF f <= l THEN l - f + 1 ELSE 0)
            /\ \A i \in 1 .. l - f + 1 : SubSeq(t, f, l)[i] = t[f + i - 1]
        BY <2>1, SubSeqProperties
      <3>2. QED  BY <3>1 DEF f, l
    <2> HIDE DEF s, a, b
    <2>3. Len(s) = b /\ l - f + 1 = b
      BY <1>1, <2>2
    <2>4. \A i \in 1 .. b : s[i] = y[i]
      <3>1. ASSUME NEW i \in 1 .. b PROVE s[i] = y[i]
        <4>1. f + i - 1 = a + i /\ a + i \in 1 .. a + b /\ ~(a + i <= a) /\ (a + i) - a = i
          BY <1>1
        <4>2. s[i] = t[a + i]
          BY <2>2, <2>3, <4>1
        <4>3. QED  BY <1>2, <4>1, <4>2
      <3>2. QED  BY <3>1
    <2>5. s = y
      BY <2>2, <2>3, <2>4, SeqEqual DEF b
    <2>6. QED  BY <2>5 DEF s
  <1>6. QED  BY <1>2, <1>4, <1>5 DEF After, t

\* A printed number, followed by something else, is read back as it was.
LEMMA NumberReads ==
  ASSUME NEW n \in 0 .. U32Range - 1, NEW base \in {8, 10, 16}, NEW S, DigitsOf(16) \subseteq S,
         NEW y \in Seq(S), y = <<>> \/ y[1] \notin DigitsOf(16) \cup {"x", "X"}
  PROVE  Number(Numeral(n, base) \o y, base) = [ok |-> TRUE, value |-> n, rest |-> y]
  <1> DEFINE x == Numeral(n, base)
             t == x \o y
             a == Len(x)
             b == Len(y)
  <1>1. n \in Nat /\ n <= ULongMax /\ U32Range \in Nat
    BY WidthFacts, ParserAssumption
  <1>2. x \in Seq(DigitsOf(base)) /\ a \in Nat /\ a # 0 /\ StrToUL(x, base) = n
    BY <1>1, NumeralFacts
  <1> HIDE DEF x
  <1>3. DigitsOf(base) \subseteq DigitsOf(16)
    BY DigitsWithin
  <1>4. x \in Seq(S) /\ b \in Nat
    <2>1. DigitsOf(base) \subseteq S
      BY <1>3
    <2>2. QED  BY <1>2, <2>1, SeqMonotonic, LenProperties
  <1>5. t \in Seq(S) /\ Len(t) = a + b /\ \A i \in 1 .. a + b : t[i] = IF i <= a THEN x[i] ELSE y[i - a]
    BY <1>4, ConcatProperties
  <1>6. SubSeq(t, 1, a) = x /\ After(t, a) = y
    BY <1>4, CutApart
  <1> HIDE DEF t
  <1>7. \A i \in 1 .. a : t[i] \in DigitsOf(base)
    <2>1. ASSUME NEW i \in 1 .. a PROVE t[i] \in DigitsOf(base)
      <3>1. i \in 1 .. a + b /\ i <= a
        BY <1>2, <1>4
      <3>2. t[i] = x[i]
        BY <1>5, <3>1
      <3>3. QED  BY <1>2, <3>2, ElementOfSeq
    <2>2. QED  BY <2>1
  <1>8. a < Len(t) => t[a + 1] = y[1] /\ y # <<>>
    <2>1. SUFFICES ASSUME a < Len(t) PROVE t[a + 1] = y[1] /\ y # <<>>
      OBVIOUS
    <2>2. b # 0 /\ a + 1 \in 1 .. a + b /\ ~(a + 1 <= a) /\ (a + 1) - a = 1
      BY <1>2, <1>4, <1>5, <2>1
    <2>3. y # <<>>
      <3>1. Len(<<>>) = 0
        BY EmptySeq
      <3>2. QED  BY <2>2, <3>1
    <2>4. QED  BY <1>5, <2>2, <2>3
  <1>9. "x" \notin DigitsOf(16) /\ "X" \notin DigitsOf(16)
    <2>1. ASSUME NEW v \in 1 .. 16 PROVE HexDigits[v] # "x" /\ HexDigits[v] # "X"
      BY DEF HexDigits
    <2>2. QED  BY <2>1 DEF DigitsOf
  <1>10. PrefixLength(t, base) = 0
    <2>1. SUFFICES ASSUME Len(t) > 2, SubSeq(t, 1, 2) \in {<<"0", "x">>, <<"0", "X">>} PROVE FALSE
      BY DEF PrefixLength
    <2>2. t[2] \in {"x", "X"}
      <3>1. \A i \in 1 .. 2 : t[i] \in S
        BY <1>5, <2>1, ElementOfSeq
      <3>2. SubSeq(t, 1, 2)[2] = t[1 + 2 - 1]
        BY <3>1, SubSeqProperties
      <3>3. <<"0", "x">>[2] = "x" /\ <<"0", "X">>[2] = "X"
        OBVIOUS
      <3>4. SubSeq(t, 1, 2)[2] \in {"x", "X"}
        BY <2>1, <3>3
      <3>5. QED  BY <3>2, <3>4
    <2>3. CASE a > 1
      <3>1. 2 \in 1 .. a
        BY <1>2, <2>3
      <3>2. QED  BY <1>3, <1>7, <1>9, <2>2, <3>1
    <2>4. CASE a = 1
      BY <1>5, <1>8, <2>1, <2>2, <2>4
    <2>5. a > 1 \/ a = 1
      <3> HIDE DEF a
      <3>1. QED  BY <1>2
    <2>6. QED  BY <2>3, <2>4, <2>5
  <1>11. LeadingRun(t, DigitsOf(base)) = a
    <2>1. a \in 0 .. Len(t)
      BY <1>2, <1>4, <1>5
    <2>2. a < Len(t) => t[a + 1] \notin DigitsOf(base)
      BY <1>3, <1>8
    <2>3. QED  BY <1>5, <1>7, <2>1, <2>2, RunIs
  <1>12. After(t, 0) = t
    BY <1>5, SubSeqFull DEF After
  <1>13. n % U32Range = n
    BY <1>1
  <1>14. a > 0
    BY <1>2
  <1>15. Number(t, base) = [ok |-> a > 0, value |-> StrToUL(SubSeq(t, 1, a), base) % U32Range, rest |-> After(t, a)]
    BY <1>10, <1>11, <1>12 DEF Number
  <1>16. QED  BY <1>2, <1>6, <1>13, <1>14, <1>15 DEF t, x

-----------------------------------------------------------------------------
\* Devices as they are printed.

LEMMA PrefixIs ==
  ASSUME NEW S, NEW s \in Seq(S), NEW R, NEW t \in Seq(R)
  PROVE  IsPrefix(s, t) <=> Len(s) <= Len(t) /\ \A i \in 1 .. Len(s) : s[i] = t[i]
  <1> DEFINE a == Len(s)
             u == SubSeq(t, 1, a)
  <1>1. a \in Nat /\ Len(t) \in Nat /\ SubSeq(s, 1, a) = s
    BY LenProperties, SubSeqFull
  <1>2. ASSUME a <= Len(t)
        PROVE  u \in Seq(R) /\ Len(u) = a /\ \A i \in 1 .. a : u[i] = t[i]
    <2>1. \A i \in 1 .. a : t[i] \in R
      <3>1. ASSUME NEW i \in 1 .. a PROVE t[i] \in R
        <4>1. i \in 1 .. Len(t)
          BY <1>1, <1>2
        <4>2. QED  BY <4>1, ElementOfSeq
      <3>2. QED  BY <3>1
    <2>2. u \in Seq(R) /\ Len(u) = (IF 1 <= a THEN a - 1 + 1 ELSE 0) /\ \A i \in 1 .. a - 1 + 1 : u[i] = t[1 + i - 1]
      BY <1>1, <2>1, SubSeqProperties
    <2> HIDE DEF u, a
    <2>3. QED  BY <1>1, <2>2
  <1>3. ASSUME a <= Len(t), s = u PROVE \A i \in 1 .. a : s[i] = t[i]
    BY <1>2, <1>3
  <1>4. ASSUME a <= Len(t), \A i \in 1 .. a : s[i] = t[i] PROVE s = u
    <2>1. s \in Seq(S \cup R) /\ u \in Seq(S \cup R)
      BY <1>2, <1>4, SeqMonotonic
    <2>2. Len(s) = Len(u) /\ \A i \in 1 .. Len(s) : s[i] = u[i]
      <3> HIDE DEF u
      <3>1. QED  BY <1>2, <1>4
    <2> HIDE DEF u, a
    <2>3. QED  BY <2>1, <2>2, SeqEqual
  <1>5. IsPrefix(s, t) <=> a <= Len(t) /\ s = u
    BY <1>1 DEF IsPrefix
  <1> HIDE DEF u
  <1>6. QED  BY <1>3, <1>4, <1>5

LEMMA PrefixShort ==
  ASSUME NEW R, NEW t \in Seq(R), Len(t) >= 2, NEW a, NEW b
  PROVE  /\ IsPrefix(<<a>>, t) <=> t[1] = a
         /\ IsPrefix(<<a, b>>, t) <=> t[1] = a /\ t[2] = b
  <1>1. /\ <<a>> \in Seq({a}) /\ Len(<<a>>) = 1 /\ <<a>>[1] = a
        /\ <<a, b>> \in Seq({a, b}) /\ Len(<<a, b>>) = 2 /\ <<a, b>>[1] = a /\ <<a, b>>[2] = b
    OBVIOUS
  <1>2. Len(t) \in Nat
    BY LenProperties
  <1> DEFINE s == <<a>>
             r == <<a, b>>
  <1> HIDE DEF s, r
  <1>3. IsPrefix(s, t) <=> t[1] = a
    <2>1. s \in Seq({a}) /\ Len(s) = 1 /\ s[1] = a
      BY <1>1 DEF s
    <2>2. IsPrefix(s, t) <=> Len(s) <= Len(t) /\ \A i \in 1 .. Len(s) : s[i] = t[i]
      BY <2>1, PrefixIs
    <2>3. QED  BY <1>2, <2>1, <2>2
  <1>4. IsPrefix(r, t) <=> t[1] = a /\ t[2] = b
    <2>1. r \in Seq({a, b}) /\ Len(r) = 2 /\ r[1] = a /\ r[2] = b
      BY <1>1 DEF r
    <2> DEFINE T == {a, b}
    <2> HIDE DEF T
    <2>2. IsPrefix(r, t) <=> Len(r) <= Len(t) /\ \A i \in 1 .. Len(r) : r[i] = t[i]
      <3>1. r \in Seq(T)
        BY <2>1 DEF T
      <3>2. QED  BY <3>1, PrefixIs
    <2>3. QED  BY <1>2, <2>1, <2>2
  <1>5. QED  BY <1>3, <1>4 DEF s, r

\* The table is searched from its front.
LEMMA FirstNamed ==
  ASSUME NEW t, NEW m \in 1 .. 13, IsPrefix(DeviceTable[m].name, t),
         \A k \in 1 .. 13 : k < m => ~IsPrefix(DeviceTable[k].name, t)
  PROVE  DevicePrefix(t) = DeviceTable[m]
  <1> DEFINE named == {k \in DOMAIN DeviceTable : IsPrefix(DeviceTable[k].name, t)}
  <1>1. DOMAIN DeviceTable = 1 .. 13
    BY DEF DeviceTable
  <1>2. named \subseteq Nat /\ m \in named /\ \A k \in named : m <= k
    BY <1>1
  <1>3. DevicePrefix(t) = IF named = {} THEN NoEntry ELSE DeviceTable[Min(named)]
    BY DEF DevicePrefix
  <1> HIDE DEF named
  <1>4. Min(named) = m
    BY <1>2, LeastIs
  <1>5. QED  BY <1>2, <1>3, <1>4

\* Which entry of the table a text has.
LEMMA EntryOf ==
  ASSUME NEW R, NEW t \in Seq(R), Len(t) >= 2
  PROVE  /\ t[1] = "S" /\ t[2] = "M" => DevicePrefix(t) = DeviceTable[1]
         /\ t[1] = "S" /\ t[2] = "D" => DevicePrefix(t) = DeviceTable[2]
         /\ t[1] = "S" /\ t[2] = "B" => DevicePrefix(t) = DeviceTable[3]
         /\ t[1] = "S" /\ t[2] = "W" => DevicePrefix(t) = DeviceTable[4]
         /\ t[1] = "D" => DevicePrefix(t) = DeviceTable[5]
         /\ t[1] = "M" => DevicePrefix(t) = DeviceTable[6]
         /\ t[1] = "X" => DevicePrefix(t) = DeviceTable[7]
         /\ t[1] = "Y" => DevicePrefix(t) = DeviceTable[8]
         /\ t[1] = "L" => DevicePrefix(t) = DeviceTable[9]
         /\ t[1] = "F" => DevicePrefix(t) = DeviceTable[10]
         /\ t[1] = "S" /\ t[2] \notin {"M", "D", "B", "W"} => DevicePrefix(t) = DeviceTable[11]
         /\ t[1] = "B" => DevicePrefix(t) = DeviceTable[12]
         /\ t[1] = "W" => DevicePrefix(t) = DeviceTable[13]
  <1> DEFINE Named(k) == IsPrefix(DeviceTable[k].name, t)
  <1>1. /\ DeviceTable[1].name = <<"S", "M">>
        /\ DeviceTable[2].name = <<"S", "D">>
        /\ DeviceTable[3].name = <<"S", "B">>
        /\ DeviceTable[4].name = <<"S", "W">>
        /\ DeviceTable[5].name = <<"D">>
        /\ DeviceTable[6].name = <<"M">>
        /\ DeviceTable[7].name = <<"X">>
        /\ DeviceTable[8].name = <<"Y">>
        /\ DeviceTable[9].name = <<"L">>
        /\ DeviceTable[10].name = <<"F">>
        /\ DeviceTable[11].name = <<"S">>
        /\ DeviceTable[12].name = <<"B">>
        /\ DeviceTable[13].name = <<"W">>
    BY DEF DeviceTable, Entry
  <1>2. /\ Named(1) <=> t[1] = "S" /\ t[2] = "M"
        /\ Named(2) <=> t[1] = "S" /\ t[2] = "D"
        /\ Named(3) <=> t[1] = "S" /\ t[2] = "B"
        /\ Named(4) <=> t[1] = "S" /\ t[2] = "W"
        /\ Named(5) <=> t[1] = "D"
        /\ Named(6) <=> t[1] = "M"
        /\ Named(7) <=> t[1] = "X"
        /\ Named(8) <=> t[1] = "Y"
        /\ Named(9) <=> t[1] = "L"
        /\ Named(10) <=> t[1] = "F"
        /\ Named(11) <=> t[1] = "S"
        /\ Named(12) <=> t[1] = "B"
        /\ Named(13) <=> t[1] = "W"
    <2>1. /\ \A a : IsPrefix(<<a>>, t) <=> t[1] = a
          /\ \A a, b : IsPrefix(<<a, b>>, t) <=> t[1] = a /\ t[2] = b
      BY PrefixShort
    <2>2. Named(1) <=> t[1] = "S" /\ t[2] = "M"
      BY <1>1, <2>1
    <2>3. Named(2) <=> t[1] = "S" /\ t[2] = "D"
      BY <1>1, <2>1
    <2>4. Named(3) <=> t[1] = "S" /\ t[2] = "B"
      BY <1>1, <2>1
    <2>5. Named(4) <=> t[1] = "S" /\ t[2] = "W"
      BY <1>1, <2>1
    <2>6. Named(5) <=> t[1] = "D"
      BY <1>1, <2>1
    <2>7. Named(6) <=> t[1] = "M"
      BY <1>1, <2>1
    <2>8. Named(7) <=> t[1] = "X"
      BY <1>1, <2>1
    <2>9. Named(8) <=> t[1] = "Y"
      BY <1>1, <2>1
    <2>10. Named(9) <=> t[1] = "L"
      BY <1>1, <2>1
    <2>11. Named(10) <=> t[1] = "F"
      BY <1>1, <2>1
    <2>12. Named(11) <=> t[1] = "S"
      BY <1>1, <2>1
    <2>13. Named(12) <=> t[1] = "B"
      BY <1>1, <2>1
    <2>14. Named(13) <=> t[1] = "W"
      BY <1>1, <2>1
    <2>15. QED
      BY <2>2, <2>3, <2>4, <2>5, <2>6, <2>7, <2>8, <2>9, <2>10, <2>11, <2>12, <2>13, <2>14
  <1> HIDE DEF Named
  <1>3. ASSUME NEW m \in 1 .. 13, Named(m), \A k \in 1 .. 13 : k < m => ~Named(k)
        PROVE  DevicePrefix(t) = DeviceTable[m]
    BY <1>3, FirstNamed DEF Named
  <1>4. ASSUME t[1] = "S" /\ t[2] = "M" PROVE DevicePrefix(t) = DeviceTable[1]
    BY <1>2, <1>3, <1>4
  <1>5. ASSUME t[1] = "S" /\ t[2] = "D" PROVE DevicePrefix(t) = DeviceTable[2]
    BY <1>2, <1>3, <1>5
  <1>6. ASSUME t[1] = "S" /\ t[2] = "B" PROVE DevicePrefix(t) = DeviceTable[3]
    BY <1>2, <1>3, <1>6
  <1>7. ASSUME t[1] = "S" /\ t[2] = "W" PROVE DevicePrefix(t) = DeviceTable[4]
    BY <1>2, <1>3, <1>7
  <1>8. ASSUME t[1] = "D" PROVE DevicePrefix(t) = DeviceTable[5]
    BY <1>2, <1>3, <1>8
  <1>9. ASSUME t[1] = "M" PROVE DevicePrefix(t) = DeviceTable[6]
    BY <1>2, <1>3, <1>9
  <1>10. ASSUME t[1] = "X" PROVE DevicePrefix(t) = DeviceTable[7]
    BY <1>2, <1>3, <1>10
  <1>11. ASSUME t[1] = "Y" PROVE DevicePrefix(t) = DeviceTable[8]
    BY <1>2, <1>3, <1>11
  <1>12. ASSUME t[1] = "L" PROVE DevicePrefix(t) = DeviceTable[9]
    BY <1>2, <1>3, <1>12
  <1>13. ASSUME t[1] = "F" PROVE DevicePrefix(t) = DeviceTable[10]
    BY <1>2, <1>3, <1>13
  <1>14. ASSUME t[1] = "S" /\ t[2] \notin {"M", "D", "B", "W"} PROVE DevicePrefix(t) = DeviceTable[11]
    BY <1>2, <1>3, <1>14
  <1>15. ASSUME t[1] = "B" PROVE DevicePrefix(t) = DeviceTable[12]
    BY <1>2, <1>3, <1>15
  <1>16. ASSUME t[1] = "W" PROVE DevicePrefix(t) = DeviceTable[13]
    BY <1>2, <1>3, <1>16
  <1>17. QED
    BY <1>4, <1>5, <1>6, <1>7, <1>8, <1>9, <1>10, <1>11, <1>12, <1>13, <1>14, <1>15, <1>16

Letters == {"S", "M", "D", "B", "W", "X", "Y", "L", "F"}

\* The text of a device name, and what is written in the table of the parser.
LEMMA DeviceNames ==
  /\ DeviceName("SM") = <<"S", "M">> /\ PrintBase("SM") = 10 /\ DeviceTable[1] = Entry(<<"S", "M">>, "SM", 10)
  /\ DeviceName("SD") = <<"S", "D">> /\ PrintBase("SD") = 10 /\ DeviceTable[2] = Entry(<<"S", "D">>, "SD", 10)
  /\ DeviceName("SB") = <<"S", "B">> /\ PrintBase("SB") = 16 /\ DeviceTable[3] = Entry(<<"S", "B">>, "SB", 16)
  /\ DeviceName("SW") = <<"S", "W">> /\ PrintBase("SW") = 16 /\ DeviceTable[4] = Entry(<<"S", "W">>, "SW", 16)
  /\ DeviceName("D") = <<"D">> /\ PrintBase("D") = 10 /\ DeviceTable[5] = Entry(<<"D">>, "D", 10)
  /\ DeviceName("M") = <<"M">> /\ PrintBase("M") = 10 /\ DeviceTable[6] = Entry(<<"M">>, "M", 10)
  /\ DeviceName("X") = <<"X">> /\ PrintBase("X") = 8 /\ DeviceTable[7] = Entry(<<"X">>, "X", 8)
  /\ DeviceName("Y") = <<"Y">> /\ PrintBase("Y") = 8 /\ DeviceTable[8] = Entry(<<"Y">>, "Y", 8)
  /\ DeviceName("L") = <<"L">> /\ PrintBase("L") = 10 /\ DeviceTable[9] = Entry(<<"L">>, "L", 10)
  /\ DeviceName("F") = <<"F">> /\ PrintBase("F") = 10 /\ DeviceTable[10] = Entry(<<"F">>, "F", 10)
  /\ DeviceName("S") = <<"S">> /\ PrintBase("S") = 10 /\ DeviceTable[11] = Entry(<<"S">>, "S", 10)
  /\ DeviceName("B") = <<"B">> /\ PrintBase("B") = 16 /\ DeviceTable[12] = Entry(<<"B">>, "B", 16)
  /\ DeviceName("W") = <<"W">> /\ PrintBase("W") = 16 /\ DeviceTable[13] = Entry(<<"W">>, "W", 16)
  <1>1. /\ DeviceTable[1] = Entry(<<"S", "M">>, "SM", 10)
        /\ DeviceTable[2] = Entry(<<"S", "D">>, "SD", 10)
        /\ DeviceTable[3] = Entry(<<"S", "B">>, "SB", 16)
        /\ DeviceTable[4] = Entry(<<"S", "W">>, "SW", 16)
        /\ DeviceTable[5] = Entry(<<"D">>, "D", 10)
        /\ DeviceTable[6] = Entry(<<"M">>, "M", 10)
        /\ DeviceTable[7] = Entry(<<"X">>, "X", 8)
        /\ DeviceTable[8] = Entry(<<"Y">>, "Y", 8)
        /\ DeviceTable[9] = Entry(<<"L">>, "L", 10)
        /\ DeviceTable[10] = Entry(<<"F">>, "F", 10)
        /\ DeviceTable[11] = Entry(<<"S">>, "S", 10)
        /\ DeviceTable[12] = Entry(<<"B">>, "B", 16)
        /\ DeviceTable[13] = Entry(<<"W">>, "W", 16)
    BY DEF DeviceTable
  <1>2. /\ PrintBase("SM") = 10
        /\ PrintBase("SD") = 10
        /\ PrintBase("SB") = 16
        /\ PrintBase("SW") = 16
        /\ PrintBase("D") = 10
        /\ PrintBase("M") = 10
        /\ PrintBase("X") = 8
        /\ PrintBase("Y") = 8
        /\ PrintBase("L") = 10
        /\ PrintBase("F") = 10
        /\ PrintBase("S") = 10
        /\ PrintBase("B") = 16
        /\ PrintBase("W") = 16
    BY DEF PrintBase
  <1> DEFINE Of(l) == CASE l = "M" -> "SM" [] l = "D" -> "SD" [] l = "B" -> "SB" [] l = "W" -> "SW"
  <1>3. Of("M") = "SM" /\ Of("D") = "SD" /\ Of("B") = "SB" /\ Of("W") = "SW"
    OBVIOUS
  <1> HIDE DEF Of
  <1>4. \A dev \in {"SM", "SD", "SB", "SW"} :
          DeviceName(dev) = <<"S", CHOOSE l \in {"M", "D", "B", "W"} : dev = Of(l)>>
    BY DEF DeviceName, Of
  <1>5. ASSUME NEW dev \in {"SM", "SD", "SB", "SW"}, NEW l \in {"M", "D", "B", "W"}, dev = Of(l)
        PROVE  DeviceName(dev) = <<"S", l>>
    <2> DEFINE c == CHOOSE x \in {"M", "D", "B", "W"} : dev = Of(x)
    <2>1. c \in {"M", "D", "B", "W"} /\ dev = Of(c)
      BY <1>5
    <2>2. DeviceName(dev) = <<"S", c>>
      BY <1>4
    <2> HIDE DEF c
    <2>3. c = l
      BY <1>3, <1>5, <2>1
    <2>4. QED  BY <2>2, <2>3
  <1>6. DeviceName("SM") = <<"S", "M">> /\ DeviceName("SD") = <<"S", "D">>
        /\ DeviceName("SB") = <<"S", "B">> /\ DeviceName("SW") = <<"S", "W">>
    BY <1>3, <1>5
  <1>7. /\ DeviceName("D") = <<"D">>
        /\ DeviceName("M") = <<"M">>
        /\ DeviceName("X") = <<"X">>
        /\ DeviceName("Y") = <<"Y">>
        /\ DeviceName("L") = <<"L">>
        /\ DeviceName("F") = <<"F">>
        /\ DeviceName("S") = <<"S">>
        /\ DeviceName("B") = <<"B">>
        /\ DeviceName("W") = <<"W">>
    BY DEF DeviceName
  <1>8. QED  BY <1>1, <1>2, <1>6, <1>7

\* What an address is printed with.
Symbols == DigitsOf(16) \cup Letters \cup {"-"}

LEMMA SymbolFacts ==
  /\ \A base \in {8, 10, 16} : DigitsOf(base) \subseteq DigitsOf(16)
  /\ Symbols \cap Blanks = {} /\ DigitsOf(10) \cap Letters = {}
  /\ "-" \notin DigitsOf(16) \cup {"x", "X"}
  <1> DEFINE hex == {"0","1","2","3","4","5","6","7","8","9","A","B","C","D","E","F"}
             dec == {"0","1","2","3","4","5","6","7","8","9"}
  <1>1. ASSUME NEW i \in 1 .. 16 PROVE HexDigits[i] \in hex /\ (i <= 10 => HexDigits[i] \in dec)
    BY DEF HexDigits
  <1>2. DigitsOf(16) \subseteq hex /\ DigitsOf(10) \subseteq dec
    <2>1. \A i \in 1 .. 10 : i \in 1 .. 16 /\ i <= 10
      OBVIOUS
    <2> HIDE DEF hex, dec
    <2>2. QED  BY <1>1, <2>1 DEF DigitsOf
  <1>3. hex \cap Blanks = {} /\ Letters \cap Blanks = {} /\ {"-"} \cap Blanks = {}
    BY Zenon DEF Letters, Blanks
  <1>4. dec \cap Letters = {} /\ "-" \notin hex /\ "-" \notin {"x", "X"}
    BY DEF Letters
  <1>5. \A base \in {8, 10, 16} : DigitsOf(base) \subseteq DigitsOf(16)
    BY DigitsWithin
  <1> HIDE DEF hex, dec
  <1>6. Symbols \cap Blanks = {}
    BY <1>2, <1>3 DEF Symbols
  <1>7. DigitsOf(10) \cap Letters = {} /\ "-" \notin DigitsOf(16) \cup {"x", "X"}
    BY <1>2, <1>4
  <1>8. QED  BY <1>5, <1>6, <1>7

LEMMA NumeralText ==
  ASSUME NEW n \in Nat, NEW base \in {8, 10, 16}
  PROVE  /\ Numeral(n, base) \in Seq(Symbols) /\ Len(Numeral(n, base)) \in Nat \ {0}
         /\ Numeral(n, base)[1] \in DigitsOf(base)
  <1> DEFINE x == Numeral(n, base)
  <1>1. x \in Seq(DigitsOf(base)) /\ Len(x) \in Nat \ {0}
    BY NumeralFacts
  <1> HIDE DEF x
  <1>2. DigitsOf(base) \subseteq Symbols
    BY SymbolFacts DEF Symbols
  <1>3. 1 \in 1 .. Len(x)
    BY <1>1
  <1>4. x \in Seq(Symbols) /\ x[1] \in DigitsOf(base)
    BY <1>1, <1>2, <1>3, SeqMonotonic, ElementOfSeq
  <1>5. QED  BY <1>1, <1>4 DEF x

\* The name of a device, with a text behind it, is the device for the parser.
NameReads(dev, z) ==
  /\ DeviceName(dev) \in Seq(Symbols) /\ DeviceName(dev)[1] \in Letters
  /\ Len(DeviceName(dev)) \in {1, 2} /\ PrintBase(dev) \in {8, 10, 16}
  /\ DevicePrefix(DeviceName(dev) \o z) = Entry(DeviceName(dev), dev, PrintBase(dev))

\* It is if the text starts with a digit of the base of the device.
LEMMA DeviceReads ==
  ASSUME NEW dev \in Devices, NEW z \in Seq(Symbols), Len(z) >= 1, z[1] \in DigitsOf(PrintBase(dev))
  PROVE  NameReads(dev, z)
  <1>1. Letters \subseteq Symbols /\ Len(z) \in Nat
    BY LenProperties DEF Symbols
  <1>2. ASSUME NEW a \in Letters
        PROVE  LET t == <<a>> \o z IN
               /\ <<a>> \in Seq(Symbols) /\ <<a>>[1] = a /\ Len(<<a>>) = 1
               /\ t \in Seq(Symbols) /\ Len(t) >= 2 /\ t[1] = a /\ t[2] = z[1]
    <2> DEFINE s == <<a>>
               t == s \o z
    <2>1. s \in Seq(Symbols) /\ s[1] = a /\ Len(s) = 1
      BY <1>1
    <2> HIDE DEF s
    <2>2. t \in Seq(Symbols) /\ Len(t) = Len(s) + Len(z)
          /\ \A i \in 1 .. Len(s) + Len(z) : t[i] = IF i <= Len(s) THEN s[i] ELSE z[i - Len(s)]
      BY <2>1, ConcatProperties
    <2> HIDE DEF t
    <2>3. Len(t) >= 2 /\ t[1] = a /\ t[2] = z[1]
      BY <1>1, <2>1, <2>2
    <2>4. QED  BY <2>1, <2>2, <2>3 DEF s, t
  <1>3. ASSUME NEW a \in Letters, NEW b \in Letters
        PROVE  LET t == <<a, b>> \o z IN
               /\ <<a, b>> \in Seq(Symbols) /\ <<a, b>>[1] = a /\ Len(<<a, b>>) = 2
               /\ t \in Seq(Symbols) /\ Len(t) >= 2 /\ t[1] = a /\ t[2] = b
    <2> DEFINE s == <<a, b>>
               t == s \o z
    <2>1. s \in Seq(Symbols) /\ s[1] = a /\ s[2] = b /\ Len(s) = 2
      BY <1>1
    <2> HIDE DEF s
    <2>2. t \in Seq(Symbols) /\ Len(t) = Len(s) + Len(z)
          /\ \A i \in 1 .. Len(s) + Len(z) : t[i] = IF i <= Len(s) THEN s[i] ELSE z[i - Len(s)]
      BY <2>1, ConcatProperties
    <2> HIDE DEF t
    <2>3. Len(t) >= 2 /\ t[1] = a /\ t[2] = b
      BY <1>1, <2>1, <2>2
    <2>4. QED  BY <2>1, <2>2, <2>3 DEF s, t
  <1>4. ASSUME NEW l \in {"M", "D", "B", "W"}, NEW k \in 1 .. 13,
               DeviceName(dev) = <<"S", l>>, PrintBase(dev) \in {8, 10, 16},
               DeviceTable[k] = Entry(<<"S", l>>, dev, PrintBase(dev)),
               \A t \in Seq(Symbols) : Len(t) >= 2 /\ t[1] = "S" /\ t[2] = l => DevicePrefix(t) = DeviceTable[k]
        PROVE  NameReads(dev, z)
    <2>1. "S" \in Letters /\ l \in Letters
      BY DEF Letters
    <2> DEFINE s == <<"S", l>>
               t == s \o z
    <2>2. /\ s \in Seq(Symbols) /\ s[1] = "S" /\ Len(s) = 2
          /\ t \in Seq(Symbols) /\ Len(t) >= 2 /\ t[1] = "S" /\ t[2] = l
      BY <1>3, <2>1
    <2>3. DeviceName(dev) = s /\ DeviceTable[k] = Entry(s, dev, PrintBase(dev))
      BY <1>4
    <2> HIDE DEF s, t
    <2>4. DevicePrefix(t) = Entry(s, dev, PrintBase(dev))
      BY <1>4, <2>2, <2>3
    <2>5. QED  BY <1>4, <2>1, <2>2, <2>3, <2>4 DEF t, NameReads
  <1>5. ASSUME NEW a \in Letters, NEW k \in 1 .. 13,
               DeviceName(dev) = <<a>>, PrintBase(dev) \in {8, 10, 16},
               DeviceTable[k] = Entry(<<a>>, dev, PrintBase(dev)),
               \A t \in Seq(Symbols) : Len(t) >= 2 /\ t[1] = a /\ t[2] = z[1] => DevicePrefix(t) = DeviceTable[k]
        PROVE  NameReads(dev, z)
    <2> DEFINE s == <<a>>
               t == s \o z
    <2>2. /\ s \in Seq(Symbols) /\ s[1] = a /\ Len(s) = 1
          /\ t \in Seq(Symbols) /\ Len(t) >= 2 /\ t[1] = a /\ t[2] = z[1]
      BY <1>2
    <2>3. DeviceName(dev) = s /\ DeviceTable[k] = Entry(s, dev, PrintBase(dev))
      BY <1>5
    <2> HIDE DEF s, t
    <2>4. DevicePrefix(t) = Entry(s, dev, PrintBase(dev))
      BY <1>5, <2>2, <2>3
    <2>5. QED  BY <1>5, <2>2, <2>3, <2>4 DEF t, NameReads
  <1>6. CASE dev = "SM"
    <2>1. /\ DeviceName(dev) = <<"S", "M">> /\ PrintBase(dev) = 10
          /\ DeviceTable[1] = Entry(<<"S", "M">>, dev, PrintBase(dev))
      BY <1>6, DeviceNames
    <2>2. \A t \in Seq(Symbols) : Len(t) >= 2 /\ t[1] = "S" /\ t[2] = "M" => DevicePrefix(t) = DeviceTable[1]
      BY EntryOf
    <2>3. QED  BY <1>4, <2>1, <2>2
  <1>7. CASE dev = "SD"
    <2>1. /\ DeviceName(dev) = <<"S", "D">> /\ PrintBase(dev) = 10
          /\ DeviceTable[2] = Entry(<<"S", "D">>, dev, PrintBase(dev))
      BY <1>7, DeviceNames
    <2>2. \A t \in Seq(Symbols) : Len(t) >= 2 /\ t[1] = "S" /\ t[2] = "D" => DevicePrefix(t) = DeviceTable[2]
      BY EntryOf
    <2>3. QED  BY <1>4, <2>1, <2>2
  <1>8. CASE dev = "SB"
    <2>1. /\ DeviceName(dev) = <<"S", "B">> /\ PrintBase(dev) = 16
          /\ DeviceTable[3] = Entry(<<"S", "B">>, dev, PrintBase(dev))
      BY <1>8, DeviceNames
    <2>2. \A t \in Seq(Symbols) : Len(t) >= 2 /\ t[1] = "S" /\ t[2] = "B" => DevicePrefix(t) = DeviceTable[3]
      BY EntryOf
    <2>3. QED  BY <1>4, <2>1, <2>2
  <1>9. CASE dev = "SW"
    <2>1. /\ DeviceName(dev) = <<"S", "W">> /\ PrintBase(dev) = 16
          /\ DeviceTable[4] = Entry(<<"S", "W">>, dev, PrintBase(dev))
      BY <1>9, DeviceNames
    <2>2. \A t \in Seq(Symbols) : Len(t) >= 2 /\ t[1] = "S" /\ t[2] = "W" => DevicePrefix(t) = DeviceTable[4]
      BY EntryOf
    <2>3. QED  BY <1>4, <2>1, <2>2
  <1>10. CASE dev = "D"
    <2>1. /\ DeviceName(dev) = <<"D">> /\ PrintBase(dev) = 10
          /\ DeviceTable[5] = Entry(<<"D">>, dev, PrintBase(dev))
      BY <1>10, DeviceNames
    <2>2. \A t \in Seq(Symbols) : Len(t) >= 2 /\ t[1] = "D" /\ t[2] = z[1] => DevicePrefix(t) = DeviceTable[5]
      BY EntryOf
    <2>3. "D" \in Letters
      BY DEF Letters
    <2>4. QED  BY SMTT(30), <1>5, <2>1, <2>2, <2>3
  <1>11. CASE dev = "M"
    <2>1. /\ DeviceName(dev) = <<"M">> /\ PrintBase(dev) = 10
          /\ DeviceTable[6] = Entry(<<"M">>, dev, PrintBase(dev))
      BY <1>11, DeviceNames
    <2>2. \A t \in Seq(Symbols) : Len(t) >= 2 /\ t[1] = "M" /\ t[2] = z[1] => DevicePrefix(t) = DeviceTable[6]
      BY EntryOf
    <2>3. "M" \in Letters
      BY DEF Letters
    <2>4. QED  BY SMTT(30), <1>5, <2>1, <2>2, <2>3
  <1>12. CASE dev = "X"
    <2>1. /\ DeviceName(dev) = <<"X">> /\ PrintBase(dev) = 8
          /\ DeviceTable[7] = Entry(<<"X">>, dev, PrintBase(dev))
      BY <1>12, DeviceNames
    <2>2. \A t \in Seq(Symbols) : Len(t) >= 2 /\ t[1] = "X" /\ t[2] = z[1] => DevicePrefix(t) = DeviceTable[7]
      BY EntryOf
    <2>3. "X" \in Letters
      BY DEF Letters
    <2>4. QED  BY SMTT(30), <1>5, <2>1, <2>2, <2>3
  <1>13. CASE dev = "Y"
    <2>1. /\ DeviceName(dev) = <<"Y">> /\ PrintBase(dev) = 8
          /\ DeviceTable[8] = Entry(<<"Y">>, dev, PrintBase(dev))
      BY <1>13, DeviceNames
    <2>2. \A t \in Seq(Symbols) : Len(t) >= 2 /\ t[1] = "Y" /\ t[2] = z[1] => DevicePrefix(t) = DeviceTable[8]
      BY EntryOf
    <2>3. "Y" \in Letters
      BY DEF Letters
    <2>4. QED  BY SMTT(30), <1>5, <2>1, <2>2, <2>3
  <1>14. CASE dev = "L"
    <2>1. /\ DeviceName(dev) = <<"L">> /\ PrintBase(dev) = 10
          /\ DeviceTable[9] = Entry(<<"L">>, dev, PrintBase(dev))
      BY <1>14, DeviceNames
    <2>2. \A t \in Seq(Symbols) : Len(t) >= 2 /\ t[1] = "L" /\ t[2] = z[1] => DevicePrefix(t) = DeviceTable[9]
      BY EntryOf
    <2>3. "L" \in Letters
      BY DEF Letters
    <2>4. QED  BY SMTT(30), <1>5, <2>1, <2>2, <2>3
  <1>15. CASE dev = "F"
    <2>1. /\ DeviceName(dev) = <<"F">> /\ PrintBase(dev) = 10
          /\ DeviceTable[10] = Entry(<<"F">>, dev, PrintBase(dev))
      BY <1>15, DeviceNames
    <2>2. \A t \in Seq(Symbols) : Len(t) >= 2 /\ t[1] = "F" /\ t[2] = z[1] => DevicePrefix(t) = DeviceTable[10]
      BY EntryOf
    <2>3. "F" \in Letters
      BY DEF Letters
    <2>4. QED  BY SMTT(30), <1>5, <2>1, <2>2, <2>3
  <1>16. CASE dev = "S"
    <2>1. /\ DeviceName(dev) = <<"S">> /\ PrintBase(dev) = 10
          /\ DeviceTable[11] = Entry(<<"S">>, dev, PrintBase(dev))
      BY <1>16, DeviceNames
    <2>2. "S" \in Letters /\ {"M", "D", "B", "W"} \subseteq Letters
      BY DEF Letters
    <2>3. z[1] \notin {"M", "D", "B", "W"}
      BY <2>1, <2>2, SymbolFacts
    <2>4. \A t \in Seq(Symbols) : Len(t) >= 2 /\ t[1] = "S" /\ t[2] = z[1] => DevicePrefix(t) = DeviceTable[11]
      BY <2>3, EntryOf
    <2>5. QED  BY <1>5, <2>1, <2>2, <2>4
  <1>17. CASE dev = "B"
    <2>1. /\ DeviceName(dev) = <<"B">> /\ PrintBase(dev) = 16
          /\ DeviceTable[12] = Entry(<<"B">>, dev, PrintBase(dev))
      BY <1>17, DeviceNames
    <2>2. \A t \in Seq(Symbols) : Len(t) >= 2 /\ t[1] = "B" /\ t[2] = z[1] => DevicePrefix(t) = DeviceTable[12]
      BY EntryOf
    <2>3. "B" \in Letters
      BY DEF Letters
    <2>4. QED  BY SMTT(30), <1>5, <2>1, <2>2, <2>3
  <1>18. CASE dev = "W"
    <2>1. /\ DeviceName(dev) = <<"W">> /\ PrintBase(dev) = 16
          /\ DeviceTable[13] = Entry(<<"W">>, dev, PrintBase(dev))
      BY <1>18, DeviceNames
    <2>2. \A t \in Seq(Symbols) : Len(t) >= 2 /\ t[1] = "W" /\ t[2] = z[1] => DevicePrefix(t) = DeviceTable[13]
      BY EntryOf
    <2>3. "W" \in Letters
      BY DEF Letters
    <2>4. QED  BY SMTT(30), <1>5, <2>1, <2>2, <2>3
  <1>19. dev \in {"SM", "SD", "SB", "SW", "D", "M", "X", "Y", "L", "F", "S", "B", "W"}
    BY DEF Devices, WordDevices, BitDevices
  <1>20. QED
    BY <1>19, <1>6, <1>7, <1>8, <1>9, <1>10, <1>11, <1>12, <1>13, <1>14, <1>15, <1>16, <1>17, <1>18

-----------------------------------------------------------------------------
\* Addresses and ranges as they are printed, and read again.

Written(dev, n) == DeviceName(dev) \o Numeral(n, PrintBase(dev))

\* A written address is parsed to the device and the number, with nothing but
\* what follows it left.
LEMMA WrittenReads ==
  ASSUME NEW dev \in Devices, NEW n \in 0 .. U32Range - 1,
         NEW y \in Seq(Symbols), y = <<>> \/ y[1] = "-"
  PROVE  /\ Written(dev, n) \in Seq(Symbols) /\ Written(dev, n) \o y \in Seq(Symbols)
         /\ SkipSpaces(Written(dev, n) \o y) = Written(dev, n) \o y
         /\ DevicePrefix(Written(dev, n) \o y) = Entry(DeviceName(dev), dev, PrintBase(dev))
         /\ Number(After(Written(dev, n) \o y, Len(DeviceName(dev))), PrintBase(dev))
              = [ok |-> TRUE, value |-> n, rest |-> y]
         /\ StartsWith(Written(dev, n) \o y, Letters)
  <1> DEFINE base == PrintBase(dev)
             name == DeviceName(dev)
             num  == Numeral(n, base)
             z    == num \o y
             t    == name \o z
  <1>1. n \in Nat /\ base \in {8, 10, 16}
    BY WidthFacts DEF PrintBase
  <1> HIDE DEF base
  <1>2. num \in Seq(Symbols) /\ Len(num) \in Nat \ {0} /\ num[1] \in DigitsOf(base)
    BY <1>1, NumeralText
  <1> HIDE DEF num
  <1>3. z \in Seq(Symbols) /\ Len(z) >= 1 /\ z[1] \in DigitsOf(base)
    <2>1. z \in Seq(Symbols) /\ Len(z) = Len(num) + Len(y)
          /\ \A i \in 1 .. Len(num) + Len(y) : z[i] = IF i <= Len(num) THEN num[i] ELSE y[i - Len(num)]
      BY <1>2, ConcatProperties
    <2>2. Len(y) \in Nat
      BY LenProperties
    <2> DEFINE a == Len(num)
               b == Len(y)
    <2> HIDE DEF z, a, b
    <2>3. 1 \in 1 .. a + b /\ 1 <= a /\ a + b >= 1
      BY <1>2, <2>2 DEF a, b
    <2>4. QED  BY <1>2, <2>1, <2>3 DEF a, b
  <1>4. NameReads(dev, z)
    <2> HIDE DEF z
    <2>1. QED  BY <1>3, DeviceReads DEF base
  <1>5. name \in Seq(Symbols) /\ name[1] \in Letters /\ Len(name) \in {1, 2}
        /\ DevicePrefix(t) = Entry(name, dev, base)
    BY <1>4 DEF NameReads, base
  <1> HIDE DEF name
  <1>6. (name \o num) \o y = t
    BY SMTT(60), <1>2, <1>5, ConcatAssociative
  <1> HIDE DEF z
  <1>7. After(t, Len(name)) = z
    BY <1>3, <1>5, CutApart
  <1>8. t \in Seq(Symbols) /\ t # <<>> /\ t[1] \in Letters
    <2>1. t \in Seq(Symbols) /\ Len(t) = Len(name) + Len(z)
          /\ \A i \in 1 .. Len(name) + Len(z) : t[i] = IF i <= Len(name) THEN name[i] ELSE z[i - Len(name)]
      BY <1>3, <1>5, ConcatProperties
    <2>2. Len(z) \in Nat
      BY <1>3, LenProperties
    <2> DEFINE a == Len(name)
               b == Len(z)
    <2> HIDE DEF t, a, b
    <2>3. 1 \in 1 .. a + b /\ 1 <= a /\ a + b # 0
      BY <1>5, <2>2 DEF a, b
    <2>4. t[1] \in Letters /\ Len(t) # 0
      BY <1>5, <2>1, <2>3 DEF a, b
    <2>5. Len(<<>>) = 0
      BY EmptySeq
    <2>6. QED  BY <2>1, <2>4, <2>5
  <1> HIDE DEF t
  <1>9. SkipSpaces(t) = t
    <2>1. ~StartsWith(t, Blanks)
      <3>1. Letters \subseteq Symbols
        BY DEF Symbols
      <3>2. QED  BY <1>8, <3>1, SymbolFacts DEF StartsWith
    <2>2. QED  BY <1>8, <2>1, NoSpaces
  <1>10. Number(z, base) = [ok |-> TRUE, value |-> n, rest |-> y]
    <2>1. DigitsOf(16) \subseteq Symbols
      BY DEF Symbols
    <2>2. y = <<>> \/ y[1] \notin DigitsOf(16) \cup {"x", "X"}
      BY SymbolFacts
    <2>3. Number(Numeral(n, base) \o y, base) = [ok |-> TRUE, value |-> n, rest |-> y]
      BY <1>1, <2>1, <2>2, NumberReads
    <2>4. QED  BY <2>3 DEF z, num
  <1>11. name \o num \in Seq(Symbols)
    BY <1>2, <1>5, ConcatProperties
  <1>12. StartsWith(t, Letters)
    BY <1>8 DEF StartsWith
  <1>13. Written(dev, n) = name \o num
    BY DEF Written, name, num, base
  <1>14. Written(dev, n) \o y = t
    BY <1>6, <1>13
  <1>15. DeviceName(dev) = name /\ PrintBase(dev) = base
    BY DEF name, base
  <1>16. QED  BY <1>5, <1>7, <1>8, <1>9, <1>10, <1>11, <1>12, <1>13, <1>14, <1>15

LEMMA EmptyText ==
  /\ <<>> \in Seq(Symbols) /\ SkipSpaces(<<>>) = <<>>
  /\ \A symbols : ~StartsWith(<<>>, symbols)
  <1>1. \A symbols : ~StartsWith(<<>>, symbols)
    BY DEF StartsWith
  <1>2. <<>> \in Seq(Symbols)
    BY EmptySeq
  <1>3. QED  BY <1>1, <1>2, NoSpaces

\* The record of a range that is taken.
Taken(dev, start, n, rest) ==
  [ok |-> TRUE, device |-> dev, start |-> start, count |-> n, rest |-> rest]

LEMMA NamedEntry ==
  ASSUME NEW dev \in Devices, NEW name, NEW base
  PROVE  /\ Entry(name, dev, base) # NoEntry
         /\ Entry(name, dev, base).name = name /\ Entry(name, dev, base).device = dev
         /\ Entry(name, dev, base).base = base
  <1>1. dev # "none"
    BY DEF Devices, WordDevices, BitDevices
  <1>2. Entry(name, dev, base).device = dev /\ NoEntry.device = "none"
    BY DEF Entry, NoEntry
  <1>3. Entry(name, dev, base).name = name /\ Entry(name, dev, base).base = base
    BY DEF Entry
  <1>4. QED  BY <1>1, <1>2, <1>3

\* One address.
LEMMA OneAddress ==
  ASSUME NEW dev \in Devices, NEW n \in 0 .. U32Range - 1
  PROVE  DeviceAndRange(Written(dev, n)) = Taken(dev, n, 1, <<>>)
  <1> DEFINE t      == Written(dev, n)
             s      == SkipSpaces(t)
             entry  == DevicePrefix(s)
             first  == Number(After(s, Len(entry.name)), entry.base)
             next   == SkipSpaces(first.rest)
             ranged == StartsWith(next, {"-"})
             e      == SkipSpaces(Tail(next))
             named  == ~StartsWith(e, DigitsOf(10))
             last   == Number(IF named THEN After(e, Len(DevicePrefix(e).name)) ELSE e, entry.base)
             taken(m, rest) ==
               [ok |-> TRUE, device |-> entry.device, start |-> first.value, count |-> m, rest |-> rest]
  <1> DEFINE A == Entry(DeviceName(dev), dev, PrintBase(dev))
             F == [ok |-> TRUE, value |-> n, rest |-> <<>>]
  <1>1. t \o <<>> = t
    <2>1. Written(dev, n) \in Seq(Symbols)
      BY EmptyText, WrittenReads
    <2>2. QED  BY <2>1, ConcatEmptySeq
  <1>2. s = t /\ DevicePrefix(t) = A /\ Number(After(t, Len(DeviceName(dev))), PrintBase(dev)) = F
    <2> DEFINE u == Written(dev, n) \o <<>>
    <2>1. /\ SkipSpaces(u) = u /\ DevicePrefix(u) = A
          /\ Number(After(u, Len(DeviceName(dev))), PrintBase(dev)) = F
      BY EmptyText, WrittenReads
    <2> HIDE DEF u, A, F
    <2>2. u = t
      BY <1>1 DEF u
    <2> HIDE DEF t
    <2>3. QED  BY <2>1, <2>2
  <1> HIDE DEF t
  <1>3. entry = A
    BY <1>2
  <1>4. A # NoEntry /\ A.name = DeviceName(dev) /\ A.device = dev /\ A.base = PrintBase(dev)
    BY NamedEntry
  <1> HIDE DEF s, A
  <1>5. first = F
    BY <1>2, <1>3, <1>4
  <1>6. F.ok /\ F.value = n /\ F.rest = <<>>
    OBVIOUS
  <1> HIDE DEF entry, F
  <1>7. next = <<>>
    BY <1>5, <1>6, EmptyText
  <1> HIDE DEF first
  <1>8. ~ranged
    BY <1>7, EmptyText
  <1>9. taken(1, next) = Taken(dev, n, 1, <<>>)
    BY <1>3, <1>4, <1>5, <1>6, <1>7 DEF Taken
  <1> HIDE DEF next, ranged
  <1>10. DeviceAndRange(t) =
           IF entry = NoEntry \/ ~first.ok THEN NoRange
           ELSE IF ~ranged THEN taken(1, next)
           ELSE IF \/ named /\ DevicePrefix(e).device # entry.device
                   \/ ~last.ok
                   \/ last.value < first.value
                   \/ Span(first.value, last.value) >= U16Range
           THEN NoRange
           ELSE taken(Span(first.value, last.value), last.rest)
    BY DEF DeviceAndRange, ranged, next, first, entry, s
  <1> HIDE DEF e, named, last, taken
  <1>11. DeviceAndRange(t) = taken(1, next)
    BY <1>3, <1>4, <1>5, <1>6, <1>8, <1>10
  <1>12. QED  BY <1>9, <1>11 DEF t

\* The end of a range, with the device or, if it starts with a decimal digit, without.
LEMMA EndReads ==
  ASSUME NEW dev \in Devices, NEW m \in 0 .. U32Range - 1, NEW x,
         \/ x = Written(dev, m)
         \/ x = Numeral(m, PrintBase(dev)) /\ x[1] \in DigitsOf(10)
  PROVE  /\ x \in Seq(Symbols) /\ SkipSpaces(x) = x
         /\ ~StartsWith(x, DigitsOf(10)) => DevicePrefix(x).device = dev
         /\ Number(IF ~StartsWith(x, DigitsOf(10)) THEN After(x, Len(DevicePrefix(x).name)) ELSE x,
                   PrintBase(dev))
              = [ok |-> TRUE, value |-> m, rest |-> <<>>]
  <1> DEFINE base == PrintBase(dev)
             F    == [ok |-> TRUE, value |-> m, rest |-> <<>>]
  <1>1. m \in Nat /\ base \in {8, 10, 16}
    BY WidthFacts DEF PrintBase
  <1>2. CASE x = Written(dev, m)
    <2> DEFINE u    == Written(dev, m) \o <<>>
               name == DeviceName(dev)
               A    == Entry(name, dev, base)
    <2>1. /\ x \in Seq(Symbols) /\ SkipSpaces(u) = u /\ DevicePrefix(u) = A
          /\ Number(After(u, Len(name)), base) = F /\ StartsWith(u, Letters)
      BY <1>2, EmptyText, WrittenReads
    <2>2. A.name = name /\ A.device = dev
      BY NamedEntry
    <2>3. u = x
      BY <1>2, <2>1, ConcatEmptySeq
    <2> HIDE DEF u, A, F
    <2>4. ~StartsWith(x, DigitsOf(10))
      BY <2>1, <2>3, SymbolFacts DEF StartsWith
    <2>5. DevicePrefix(x).device = dev /\ DevicePrefix(x).name = name
      BY <2>1, <2>2, <2>3
    <2>6. Number(After(x, Len(DevicePrefix(x).name)), base) = F
      BY <2>1, <2>3, <2>5
    <2>7. QED  BY <2>1, <2>3, <2>4, <2>5, <2>6 DEF F
  <1>3. CASE x = Numeral(m, base) /\ x[1] \in DigitsOf(10)
    <2>1. x \in Seq(Symbols) /\ Len(x) \in Nat \ {0}
      BY <1>1, <1>3, NumeralText
    <2>2. x # <<>>
      <3>1. Len(<<>>) = 0
        BY EmptySeq
      <3>2. QED  BY <2>1, <3>1
    <2>3. StartsWith(x, DigitsOf(10))
      BY <1>3, <2>2 DEF StartsWith
    <2>4. SkipSpaces(x) = x
      <3>1. DigitsOf(10) \subseteq Symbols
        BY SymbolFacts DEF Symbols
      <3>2. ~StartsWith(x, Blanks)
        BY <1>3, <3>1, SymbolFacts DEF StartsWith
      <3>3. QED  BY <2>1, <3>2, NoSpaces
    <2>5. Number(x, base) = F
      <3>1. DigitsOf(16) \subseteq Symbols
        BY DEF Symbols
      <3>2. Number(Numeral(m, base) \o <<>>, base) = F
        BY <1>1, <3>1, EmptyText, NumberReads
      <3>3. Numeral(m, base) \o <<>> = x
        BY <1>3, <2>1, ConcatEmptySeq
      <3> HIDE DEF F
      <3>4. QED  BY <3>2, <3>3
    <2>6. QED  BY <2>1, <2>3, <2>4, <2>5
  <1>4. QED  BY <1>2, <1>3

\* A range.
LEMMA WrittenRange ==
  ASSUME NEW dev \in Devices, NEW n \in 0 .. U32Range - 1, NEW m \in 0 .. U32Range - 1,
         n <= m, Span(n, m) < U16Range, NEW x,
         \/ x = Written(dev, m)
         \/ x = Numeral(m, PrintBase(dev)) /\ x[1] \in DigitsOf(10)
  PROVE  DeviceAndRange(Written(dev, n) \o (<<"-">> \o x)) = Taken(dev, n, Span(n, m), <<>>)
  <1> DEFINE y      == <<"-">> \o x
             t      == Written(dev, n) \o y
             s      == SkipSpaces(t)
             entry  == DevicePrefix(s)
             first  == Number(After(s, Len(entry.name)), entry.base)
             next   == SkipSpaces(first.rest)
             ranged == StartsWith(next, {"-"})
             e      == SkipSpaces(Tail(next))
             named  == ~StartsWith(e, DigitsOf(10))
             last   == Number(IF named THEN After(e, Len(DevicePrefix(e).name)) ELSE e, entry.base)
             taken(k, rest) ==
               [ok |-> TRUE, device |-> entry.device, start |-> first.value, count |-> k, rest |-> rest]
  <1> DEFINE A == Entry(DeviceName(dev), dev, PrintBase(dev))
             F == [ok |-> TRUE, value |-> n, rest |-> y]
             G == [ok |-> TRUE, value |-> m, rest |-> <<>>]
  <1>1. /\ x \in Seq(Symbols) /\ SkipSpaces(x) = x
        /\ ~StartsWith(x, DigitsOf(10)) => DevicePrefix(x).device = dev
        /\ Number(IF ~StartsWith(x, DigitsOf(10)) THEN After(x, Len(DevicePrefix(x).name)) ELSE x,
                  PrintBase(dev)) = G
    BY EndReads
  <1>2. y \in Seq(Symbols) /\ y # <<>> /\ y[1] = "-" /\ Tail(y) = x
    <2> DEFINE h == <<"-">>
    <2>1. h \in Seq(Symbols) /\ Len(h) = 1 /\ h[1] = "-"
      <3>1. "-" \in Symbols
        BY DEF Symbols
      <3>2. QED  BY <3>1
    <2>2. y = h \o x
      OBVIOUS
    <2> HIDE DEF h, y
    <2>3. y \in Seq(Symbols) /\ Len(y) = Len(h) + Len(x)
          /\ \A i \in 1 .. Len(h) + Len(x) : y[i] = IF i <= Len(h) THEN h[i] ELSE x[i - Len(h)]
      BY <1>1, <2>1, <2>2, ConcatProperties
    <2>4. Len(x) \in Nat
      BY <1>1, LenProperties
    <2>5. y[1] = "-" /\ Len(y) # 0
      BY <2>1, <2>3, <2>4
    <2>6. y # <<>>
      <3>1. Len(<<>>) = 0
        BY EmptySeq
      <3>2. QED  BY <2>5, <3>1
    <2>7. Tail(y) = After(y, 1)
      BY <2>3, <2>6, TailIsSubSeq DEF After
    <2>8. After(y, 1) = x
      BY <1>1, <2>1, <2>2, CutApart
    <2>9. QED  BY <2>3, <2>5, <2>6, <2>7, <2>8
  <1> HIDE DEF y, G
  <1>3. s = t /\ DevicePrefix(t) = A /\ Number(After(t, Len(DeviceName(dev))), PrintBase(dev)) = F
    BY <1>2, WrittenReads
  <1> HIDE DEF t
  <1>4. A # NoEntry /\ A.name = DeviceName(dev) /\ A.device = dev /\ A.base = PrintBase(dev)
    BY NamedEntry
  <1>5. entry = A
    BY <1>3
  <1> HIDE DEF s, A
  <1>6. first = F
    BY <1>3, <1>4, <1>5
  <1>7. F.ok /\ F.value = n /\ F.rest = y
    OBVIOUS
  <1> HIDE DEF entry, F
  <1>8. next = y
    <2>1. "-" \in Symbols
      BY DEF Symbols
    <2>2. ~StartsWith(y, Blanks)
      BY <1>2, <2>1, SymbolFacts DEF StartsWith
    <2>3. SkipSpaces(y) = y
      BY <1>2, <2>2, NoSpaces
    <2>4. QED  BY <1>6, <1>7, <2>3
  <1> HIDE DEF first
  <1>9. ranged
    BY <1>2, <1>8 DEF StartsWith
  <1>10. e = x
    BY <1>1, <1>2, <1>8
  <1> HIDE DEF e
  <1>11. last = G /\ (named => DevicePrefix(e).device = entry.device)
    BY <1>1, <1>4, <1>5, <1>10
  <1>12. G.ok /\ G.value = m /\ G.rest = <<>>
    BY DEF G
  <1>13. DeviceAndRange(t) =
           IF entry = NoEntry \/ ~first.ok THEN NoRange
           ELSE IF ~ranged THEN taken(1, next)
           ELSE IF \/ named /\ DevicePrefix(e).device # entry.device
                   \/ ~last.ok
                   \/ last.value < first.value
                   \/ Span(first.value, last.value) >= U16Range
           THEN NoRange
           ELSE taken(Span(first.value, last.value), last.rest)
    BY DEF DeviceAndRange, e, next, first, entry, s
  <1> HIDE DEF last, named, ranged, next
  <1>14. ~(last.value < first.value) /\ ~(Span(first.value, last.value) >= U16Range)
    <2>1. Span(n, m) \in Nat /\ n \in Nat /\ m \in Nat
      BY WidthFacts DEF Span
    <2>2. ~(m < n) /\ ~(Span(n, m) >= U16Range)
      BY <2>1, WidthFacts
    <2>3. first.value = n /\ last.value = m
      BY <1>6, <1>7, <1>11, <1>12
    <2>4. QED  BY <2>2, <2>3
  <1>15. taken(Span(first.value, last.value), last.rest) = Taken(dev, n, Span(n, m), <<>>)
    <2>1. first.value = n /\ last.value = m /\ last.rest = <<>> /\ entry.device = dev
      BY <1>4, <1>5, <1>6, <1>7, <1>11, <1>12
    <2>2. QED  BY <2>1 DEF Taken
  <1> HIDE DEF taken
  <1>16. DeviceAndRange(t) = taken(Span(first.value, last.value), last.rest)
    BY <1>4, <1>5, <1>6, <1>7, <1>9, <1>11, <1>12, <1>13, <1>14
  <1>17. QED  BY <1>15, <1>16 DEF t, y

LEMMA SpanLast ==
  ASSUME NEW n \in 0 .. U32Range - 1, NEW m \in 0 .. U32Range - 1, n <= m
  PROVE  (n + Span(n, m) - 1) % U32Range = m
  <1> DEFINE M == U32Range
  <1>1. M \in Nat /\ M > 1
    BY WidthFacts, ParserAssumption
  <1> HIDE DEF M
  <1>2. CASE m - n + 1 < M
    <2>1. ((m - n + 1) % M) = m - n + 1
      BY <1>1, <1>2 DEF M
    <2>2. n + (m - n + 1) - 1 = m /\ (m % M) = m
      BY <1>1 DEF M
    <2>3. QED  BY <2>1, <2>2 DEF Span, M
  <1>3. CASE ~(m - n + 1 < M)
    <2>1. n = 0 /\ m - n + 1 = M /\ m = M - 1
      BY <1>1, <1>3 DEF M
    <2>2. (M % M) = 0 /\ ((0 + 0 - 1) % M) = M - 1
      BY <1>1
    <2>3. QED  BY <2>1, <2>2 DEF Span, M
  <1>4. QED  BY <1>2, <1>3

\* A get of a text that is one range, and nothing else.
LEMMA GetReads ==
  ASSUME NEW t, NEW dev, NEW n, NEW k, DeviceAndRange(t) = Taken(dev, n, k, <<>>)
  PROVE  ParseGet(t) = GetOf(dev, n, k)
  <1> DEFINE r == DeviceAndRange(t)
  <1>1. r.ok /\ r.device = dev /\ r.start = n /\ r.count = k /\ r.rest = <<>>
    BY DEF Taken
  <1> HIDE DEF r
  <1>2. ParseGet(t) = RangeCommand("get", r)
    BY <1>1, EmptyText DEF ParseGet, r
  <1>3. QED  BY <1>1, <1>2 DEF RangeCommand, GetOf

LEMMA AddressesFit ==
  ASSUME IsGet(cmd)
  PROVE  AddressesReadBack
  <1>1. PICK dev \in Devices : \E n, m \in 0 .. U32Range - 1 : cmd = GetOf(dev, n, Span(n, m))
    BY DEF IsGet
  <1>2. PICK n \in 0 .. U32Range - 1, m \in 0 .. U32Range - 1 : cmd = GetOf(dev, n, Span(n, m))
    BY <1>1
  <1>3. cmd.device = dev /\ cmd.address = n /\ cmd.count = Span(n, m)
    BY <1>2 DEF GetOf, NoCommand
  <1>4. Span(n, m) \in Nat
    BY WidthFacts DEF Span
  <1>5. ASSUME NEW i \in 0 .. Span(n, m) - 1
        PROVE  ParseGet(PrintAddress(dev, n + i))
                 = [NoCommand EXCEPT !.type = "get", !.device = dev, !.count = 1,
                                     !.address = (n + i) % U32Range]
    <2> DEFINE a == (n + i) % U32Range
    <2>1. a \in 0 .. U32Range - 1
      BY <1>4, WidthFacts
    <2>2. PrintAddress(dev, n + i) = Written(dev, a)
      BY DEF PrintAddress, Written
    <2> HIDE DEF a
    <2>3. DeviceAndRange(Written(dev, a)) = Taken(dev, a, 1, <<>>)
      BY <2>1, OneAddress
    <2>4. ParseGet(Written(dev, a)) = GetOf(dev, a, 1)
      BY <2>3, GetReads
    <2>5. GetOf(dev, a, 1) = [NoCommand EXCEPT !.type = "get", !.device = dev, !.count = 1, !.address = a]
      BY DEF GetOf, NoCommand
    <2>6. QED  BY <2>2, <2>4, <2>5 DEF a
  <1>6. QED  BY <1>3, <1>5 DEF AddressesReadBack

LEMMA RangesFit ==
  ASSUME IsGet(cmd)
  PROVE  RangesReadBack
  <1>1. PICK dev \in Devices : \E n, m \in 0 .. U32Range - 1 :
                                 n <= m /\ Span(n, m) < U16Range /\ cmd = GetOf(dev, n, Span(n, m))
    BY DEF IsGet
  <1>2. PICK n \in 0 .. U32Range - 1, m \in 0 .. U32Range - 1 :
               n <= m /\ Span(n, m) < U16Range /\ cmd = GetOf(dev, n, Span(n, m))
    BY <1>1
  <1>3. cmd.device = dev /\ cmd.address = n /\ cmd.count = Span(n, m)
    BY <1>2 DEF GetOf, NoCommand
  <1>4. Last32(cmd) = m
    BY <1>2, <1>3, SpanLast DEF Last32
  <1>5. PrintAddress(dev, n) = Written(dev, n)
    <2>1. n % U32Range = n
      BY WidthFacts
    <2>2. QED  BY <2>1 DEF PrintAddress, Written
  <1> DEFINE first == Written(dev, n)
             dash  == <<"-">>
             name  == DeviceName(dev)
             last  == Numeral(m, PrintBase(dev))
  <1>6. /\ first \in Seq(Symbols) /\ dash \in Seq(Symbols)
        /\ last \in Seq(Symbols) /\ name \in Seq(Symbols)
    <2>1. m \in Nat /\ PrintBase(dev) \in {8, 10, 16}
      BY WidthFacts DEF PrintBase
    <2>2. last \in Seq(Symbols) /\ Len(last) \in Nat \ {0} /\ last[1] \in DigitsOf(PrintBase(dev))
      BY <2>1, NumeralText
    <2>3. NameReads(dev, last)
      <3> HIDE DEF last
      <3>1. Len(last) >= 1
        BY <2>2
      <3>2. QED  BY <2>2, <3>1, DeviceReads
    <2>4. first \in Seq(Symbols)
      BY EmptyText, WrittenReads
    <2>5. dash \in Seq(Symbols)
      <3>1. "-" \in Symbols
        BY DEF Symbols
      <3>2. QED  BY <3>1
    <2>6. QED  BY <2>2, <2>3, <2>4, <2>5 DEF NameReads
  <1>7. ParseGet(first \o (dash \o (name \o last))) = cmd
    <2>1. name \o last = Written(dev, m)
      BY DEF Written
    <2>2. DeviceAndRange(first \o (dash \o (name \o last))) = Taken(dev, n, Span(n, m), <<>>)
      BY <1>2, <2>1, WrittenRange
    <2> HIDE DEF first, dash, name, last
    <2>3. QED  BY <1>2, <2>2, GetReads
  <1>8. last[1] \in DigitsOf(10) => ParseGet(first \o (dash \o last)) = cmd
    <2>1. SUFFICES ASSUME last[1] \in DigitsOf(10) PROVE ParseGet(first \o (dash \o last)) = cmd
      OBVIOUS
    <2>2. DeviceAndRange(first \o (dash \o last)) = Taken(dev, n, Span(n, m), <<>>)
      BY <1>2, <2>1, WrittenRange
    <2> HIDE DEF first, dash, name, last
    <2>3. QED  BY <1>2, <2>2, GetReads
  <1> HIDE DEF first, dash, name, last
  <1>9. /\ ((first \o dash) \o name) \o last = first \o (dash \o (name \o last))
        /\ (first \o dash) \o last = first \o (dash \o last)
    <2>1. first \o dash \in Seq(Symbols) /\ name \o last \in Seq(Symbols)
      BY <1>6, ConcatProperties
    <2>2. ((first \o dash) \o name) \o last = (first \o dash) \o (name \o last)
      BY SMTT(60), <1>6, <2>1, ConcatAssociative
    <2>3. (first \o dash) \o (name \o last) = first \o (dash \o (name \o last))
      <3> DEFINE end == name \o last
      <3>1. end \in Seq(Symbols)
        BY <2>1
      <3> HIDE DEF end
      <3>2. (first \o dash) \o end = first \o (dash \o end)
        BY SMTT(60), <1>6, <3>1, ConcatAssociative
      <3>3. QED  BY <3>2 DEF end
    <2>4. (first \o dash) \o last = first \o (dash \o last)
      BY SMTT(60), <1>6, ConcatAssociative
    <2>5. QED  BY <2>2, <2>3, <2>4
  <1>10. /\ ParseGet(((first \o dash) \o name) \o last) = cmd
         /\ last[1] \in DigitsOf(10) => ParseGet((first \o dash) \o last) = cmd
    BY <1>7, <1>8, <1>9
  <1>11. QED  BY <1>3, <1>4, <1>5, <1>10 DEF RangesReadBack, first, dash, name, last

\* An address that a get prints in front of a value can be typed back: the
\* names and bases of the parser's table (FX5_CLIENT_DEVICE_DESCRIPTORS) and of the
\* printer (fx5_client_device_address_base) agree, for every device and number.
THEOREM PrintedAddressesParse == Spec => []AddressesReadBack
  <1>1. Sorts => AddressesReadBack
    BY AddressesFit DEF Sorts, Parsed, AddressesReadBack
  <1>2. QED  BY <1>1, AlwaysSorted, PTL

\* A range written with its two printed ends is the range again; the second end
\* may come without the device if it starts with a decimal digit.
THEOREM PrintedRangesParse == Spec => []RangesReadBack
  <1>1. Sorts => RangesReadBack
    BY RangesFit DEF Sorts, Parsed, RangesReadBack
  <1>2. QED  BY <1>1, AlwaysSorted, PTL
=============================================================================
