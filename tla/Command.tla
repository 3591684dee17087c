------------------------------- MODULE Command ------------------------------
(***************************************************************************)
(* `mcpshim call' of a tool of an HTTP service, from the command line on:  *)
(* runCall, parseCallArgs, parseDynamicArgsForProperties and normalizeAs   *)
(* in client/client.go, with InspectTool in httpbinding/httpbinding.go.    *)
(*                                                                         *)
(* The client asks the daemon twice: first for the declaration of the      *)
(* tool, without which it can only guess what the texts on the command     *)
(* line are, and then for the call.  The first request may fail, and a     *)
(* registry change may come in between.  HTTPCall has what the daemon does *)
(* about the second one.                                                   *)
(*                                                                         *)
(* A command line is a sequence of tokens.  A text stands for all that     *)
(* spell the same kind of value, as Value says.                            *)
(***************************************************************************)
EXTENDS HTTPCall

\* The provers have no rule for the second.
ASSUME CommandAssumption == None \notin STRING /\ "" \in STRING

VARIABLES
  service,  \* the tool as the daemon's configuration declares it
  cmd       \* the command: how far it is, its line, what parses, and what it was told

commandVars == <<vars, service, cmd>>

-----------------------------------------------------------------------------
(* Command lines. *)

Given(n, x) == [name |-> n, text |-> x]  \* --n=x
Flag(n) == Given(n, None)                \* --n
Word(x) == Given(None, x)
Separator == Flag("")                    \* --

IsFlag(token) == token.name # None

Selectors == {Flag("server"), Flag("tool")}

\* These belong to `mcpshim call' itself when they come before the separator; --json
\* concerns the output.
JSON == {Flag("json"), Given("json", "true"), Given("json", "false")}
Own(token) == token.name \in {"server", "tool"} \/ token \in JSON \cup {Flag("help")}

\* The variables of parseCallArgs; `wants' is the option whose value is the next token.
Unparsed ==
  [selected |-> [which \in {"server", "tool"} |-> Word("")], rest |-> <<>>,
   help |-> FALSE, wants |-> None, through |-> FALSE]

\* The token is an option of the command, or else it is kept.
ReadOption(found, token) ==
  IF token \in Selectors THEN [found EXCEPT !.wants = token.name]
  ELSE IF token.name \in {"server", "tool"}
    THEN [found EXCEPT !.selected[token.name] = Word(token.text)]
  ELSE IF token = Flag("help") THEN [found EXCEPT !.help = TRUE]
  ELSE IF token \in JSON THEN found
  ELSE [found EXCEPT !.rest = Append(@, token)]

\* Fault: what comes after the separator is looked at, too.
ReadThrough(found, token) ==
  IF found.wants # None
    THEN [found EXCEPT !.selected[found.wants] = token, !.wants = None]
  ELSE IF token = Separator THEN found
  ELSE ReadOption(found, token)

Read(found, token) ==
  IF found.through THEN [found EXCEPT !.rest = Append(@, token)]
  ELSE IF found.wants # None
    THEN [found EXCEPT !.selected[found.wants] = token, !.wants = None]
  ELSE IF token = Separator THEN [found EXCEPT !.through = TRUE]
  ELSE ReadOption(found, token)

\* parseCallArgs: what is found in the tokens up to each of them.
Reading(line) ==
  LET found[n \in 0..Len(line)] ==
        IF n = 0 THEN Unparsed ELSE Read(found[n - 1], line[n])
  IN  found

Parse(line) == Reading(line)[Len(line)]

\* What was not selected, or only by the empty text, is the next of the rest.
Selected(found, which) ==
  IF found.selected[which] = Word("") /\ found.rest # <<>>
    THEN [found EXCEPT !.selected[which] = Head(found.rest), !.rest = Tail(found.rest)]
    ELSE found

Parsed(line) == Selected(Selected(Parse(line), "server"), "tool")

\* The service and the tool that the configuration has.
Known(found) == found.selected["server"] = Word("service") /\ found.selected["tool"] = Word("tool")

-----------------------------------------------------------------------------
(* Arguments. *)

\* A number for ParseFloat, but no JSON.
NaN == Leaf([kind |-> "nan"])

\* What a text spells, or the text.  " 3" stands for all numbers with space around them, and
\* "1.0" for the integers with a point or an exponent, or that an int64 cannot hold.
Value(x) ==
  CASE x = "null" -> Null
    [] x \in {"true", "TRUE"} -> Bool
    [] x \in {"3", " 3"} -> Number(6)
    [] x = "1.0" -> Number(2)
    [] x = "1.5" -> Number(3)
    [] x = "nan" -> NaN
    [] x = "[null]" -> Array([first |-> Null])
    [] OTHER -> Text(x)

\* What ParseInt and ParseFloat read.
Ints == {"3"}
Floats == {"3", "1.0", "1.5", "nan"}

\* Fault: declared or not, a text is what it looks like.
NormalizeByLooks(x, type) == Value(x)

\* normalizeAs; a type of "" is one that is not declared, or not known.
NormalizeAs(x, type) ==
  LET read == \/ x \in {"null", "[null]"}
              \/ x \in {"true", "TRUE"} /\ type \in {"", "boolean"}
              \/ x \in Ints /\ type \in {"", "integer"}
              \/ x \in Floats /\ type \in {"", "number"}
  IN  IF type # "string" /\ read THEN Value(x) ELSE Text(x)

\* The text that belongs to the flag at i, None if it stands alone.
TextOf(rest, i) ==
  IF rest[i].text # None THEN rest[i].text
  ELSE IF i < Len(rest) /\ ~IsFlag(rest[i + 1]) THEN rest[i + 1].text
  ELSE None

\* The last flag of a name counts.
LastText(rest, n) == TextOf(rest, Max({i \in DOMAIN rest : rest[i].name = n}))

\* The type that the client was told.
Declared(detail, n) == IF detail # None /\ n \in DOMAIN detail THEN detail[n].type ELSE ""

\* parseDynamicArgsForProperties; a second separator is a flag without a name.
DynamicArgs(rest, detail) ==
  [n \in {rest[i].name : i \in {j \in DOMAIN rest : IsFlag(rest[j])}} |->
     IF LastText(rest, n) = None THEN Bool
     ELSE NormalizeAs(LastText(rest, n), Declared(detail, n))]

\* InspectTool: the declaration, without defaults.
Detail(tool) ==
  [n \in DOMAIN tool.inputs |->
     [type |-> tool.inputs[n].type, required |-> tool.inputs[n].required]]

\* Required inputs that the line does not give.
Missing(rest, detail) ==
  {n \in DOMAIN detail : detail[n].required /\ \A i \in DOMAIN rest : rest[i].name # n}

-----------------------------------------------------------------------------
(* The command. *)

NoCommand == [at |-> "over", line |-> <<>>, found |-> Unparsed, detail |-> None]

Tokens == [name : STRING \cup {None}, text : STRING \cup {None}]

\* A command line for a tool of a loaded service.
StartsCommand(c) ==
  /\ c.line \in Seq(Tokens)
  /\ ToolOK(c.tool)
  /\ service = c.tool
  /\ cmd = [at |-> "typed", line |-> c.line, found |-> Parsed(c.line), detail |-> None]
  /\ call = None
  /\ policy = c.policy
  /\ ExchangeInit
  /\ path = <<>>
  /\ fault = NoFault

\* A call that some other program sends to the daemon's socket.
StartsCall(c) ==
  /\ Starts(c)
  /\ service = None
  /\ cmd = [NoCommand EXCEPT !.at = "called"]

Over == cmd' = NoCommand /\ UNCHANGED <<vars, service>>

\* Neither a selector without a value, nor no server, nor no tool, nor a wish for help.
Usable(found) ==
  /\ found.wants = None
  /\ \A which \in {"server", "tool"} : found.selected[which] # Word("")
  /\ ~found.help

\* The usage or the help is shown.
Usage ==
  /\ cmd.at = "typed"
  /\ ~Usable(cmd.found)
  /\ Over

\* fetchToolDetail; that it fails is not reported.
Inspect ==
  /\ cmd.at = "typed"
  /\ Usable(cmd.found)
  /\ \E detail \in {None} \cup (IF Known(cmd.found) THEN {Detail(service)} ELSE {}) :
       cmd' = [cmd EXCEPT !.at = "inspected", !.detail = detail]
  /\ UNCHANGED <<vars, service>>

\* A registry change in between declares the inputs otherwise.
Reload(tools) ==
  /\ cmd.at = "inspected"
  /\ \E tool \in tools : ToolOK(tool) /\ service' = tool
  /\ UNCHANGED <<vars, cmd>>

\* Nothing is missing that the client knows to be required.
Complete == cmd.detail # None => Missing(cmd.found.rest, cmd.detail) = {}

MissingArguments ==
  /\ cmd.at = "inspected"
  /\ ~Complete
  /\ Over

\* The daemon is gone or knows no such server or tool; or the arguments cannot be encoded.
CallFails ==
  /\ cmd.at = "inspected"
  /\ Complete
  /\ Over

\* The call arrives at the daemon, which compiles it.
Call ==
  /\ cmd.at = "inspected"
  /\ Complete
  /\ Known(cmd.found)
  /\ LET args == DynamicArgs(cmd.found.rest, cmd.detail)
     IN  /\ \A n \in DOMAIN args : args[n] # NaN
         /\ call' = [kind |-> "typed", tool |-> service, args |-> args, policy |-> policy]
  /\ cmd' = [cmd EXCEPT !.at = "called"]
  /\ UNCHANGED <<exchangeVars, path, fault, service>>

CommandStep == Usage \/ Inspect \/ MissingArguments \/ CallFails \/ Call

\* The daemon works on the call.  When the request has been sent the command and the
\* configuration play no part any more, except that somebody waits.
Called(A) ==
  /\ cmd.at = "called"
  /\ A
  /\ cmd' = IF call' = None THEN [NoCommand EXCEPT !.at = "called"] ELSE cmd
  /\ service' = IF call' = None THEN None ELSE service

CommandNext(tools) ==
  \/ CommandStep
  \/ Reload(tools)
  \/ Called(Next)

\* The client and the handler go on and the handler's timer expires; the upstream server
\* need not answer.
CommandFairness ==
  /\ WF_commandVars(CommandStep)
  /\ WF_commandVars(Called(RefuseArguments \/ RefuseRequest \/ CompileRequest))
  /\ WF_commandVars(Called(SendRequest))
  /\ WF_commandVars(Called(TimesOut /\ Untouched))

CommandInit(calls, commands) ==
  \/ \E c \in calls : StartsCall(c)
  \/ \E c \in commands : StartsCommand(c)

CommandSpec(calls, commands, tools) ==
  CommandInit(calls, commands) /\ [][CommandNext(tools)]_commandVars

-----------------------------------------------------------------------------
(* Properties. *)

\* The position of the separator; one after the end if there is none.
SeparatorAt(line) == Min({i \in DOMAIN line : line[i] = Separator} \cup {Len(line) + 1})

\* No selector takes a flag, or the separator, for its value.
Clear(line) ==
  \A i \in 1..(SeparatorAt(line) - 1) :
    line[i] \in Selectors => i < Len(line) /\ ~IsFlag(line[i + 1])

\* client.go:684,572-576: an argument may have a name that the command has itself.  All flags
\* after the separator reach the tool as arguments, those before it do unless they are
\* the command's own, and nothing else does.
ReachesTheTool ==
  cmd.at = "called" /\ stage = "idle" /\ Clear(cmd.line) /\ cmd.line # <<>> =>
    LET own(i) == i < SeparatorAt(cmd.line) /\ Own(cmd.line[i])
    IN  DOMAIN call.args =
          {cmd.line[i].name : i \in {j \in DOMAIN cmd.line :
                                       /\ j # SeparatorAt(cmd.line)
                                       /\ IsFlag(cmd.line[j]) /\ ~own(j)}}

\* Texts that spell a value of the type, but are sent as they are: ParseInt or ParseFloat is
\* given them untrimmed, and ParseInt reads no point, no exponent and no more than an int64.
Unread(type) ==
  CASE type = "integer" -> {" 3", "1.0"}
    [] type = "number" -> {" 3"}
    [] OTHER -> {}

\* The client was told what the daemon still has.
Informed == cmd.detail # None /\ cmd.detail = Detail(call.tool)

\* client.go:519-542 against httpbinding.go:413-490: the client knows only types and which
\* inputs are required, but when that is what the daemon has, the daemon does not miss an
\* argument, and it refuses a value only if neither the text nor the value that it spells is
\* allowed.  There are two exceptions: an input without a type, where the client guesses, and
\* the numbers of Unread.  client.go:1102-1108 sends 1.0 or 1e3 to an integer input as a text,
\* which is refused although isInteger accepts these numbers.
RefusedForAReason ==
  cmd.at = "called" /\ cmd.line # <<>> /\ fault # NoFault /\ Informed =>
    /\ fault.why # "required"
    /\ fault.why = "invalid" /\ call.tool.inputs[fault.name].type # "" =>
         LET text == LastText(cmd.found.rest, fault.name)
             input == call.tool.inputs[fault.name]
         IN  text # None =>
               /\ ~ValueOK(input, Text(text))
               /\ ValueOK(input, Value(text)) => text \in Unread(input.type)

\* Why the daemon refuses c: for its arguments, or else for the request that they make.
Refused(c, f) ==
  \/ f \in CompileFaults(c)
  \/ CompileFaults(c) = {} /\ \E faults \in PolicyFaults(c) : f \in faults

\* What parses is what was typed.
LineRead == cmd.line \in Seq(Tokens) /\ cmd.found = Parsed(cmd.line)

\* The inductive invariant.  Until its request is sent a call is one for a loaded tool, and
\* one that comes from a command is made of the command's line.
CommandIInv ==
  /\ ExchangeIInv
  /\ PathAsConfigured
  /\ cmd = [at |-> cmd.at, line |-> cmd.line, found |-> cmd.found, detail |-> cmd.detail]
  /\ cmd.at \in {"typed", "inspected", "called", "over"}
  /\ cmd.at # "called" => stage = "idle" /\ call = None /\ fault = NoFault
  /\ cmd.at = "called" /\ stage = "idle" => Loadable(call)
  /\ fault # NoFault => stage = "done" /\ Loadable(call) /\ Refused(call, fault)
  /\ cmd.at \in {"typed", "inspected"} => LineRead /\ ToolOK(service)
  /\ cmd.at = "called" /\ cmd.line # <<>> =>
       /\ LineRead
       /\ Known(cmd.found)
       /\ Complete
       /\ call.kind = "typed"
       /\ call.args = DynamicArgs(cmd.found.rest, cmd.detail)

\* A command returns, although redirects within the origin are not counted and the upstream
\* server may never answer or never finish its answer.
Returns == <>(cmd.at = "over" \/ stage = "done")

=============================================================================
