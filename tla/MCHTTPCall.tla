----------------------------- MODULE MCHTTPCall -----------------------------
(***************************************************************************)
(* Calls and command lines for TLC, in groups that vary one thing each:    *)
(* the declaration of an input, a template, the path of a raw request, a   *)
(* policy, a line.                                                         *)
(***************************************************************************)
EXTENDS Command, TLC

No == [n \in {} |-> Null]

DefaultPolicy ==
  [redirects |-> "unset", maxResponse |-> 0, types |-> {}, statuses |-> {},
   requestTypes |-> {}, maxRequest |-> 0]

MCPolicy ==
  [redirects : {"unset", "disabled", "same-origin", "any"}, maxResponse : {0, 1, 3},
   types : {{}, {"json"}}, statuses : {{}, {404}},
   requestTypes : {{}, {"text"}}, maxRequest : {0, 1}]

Input(type, required, default) ==
  [type |-> type, required |-> required, default |-> default, enum |-> {},
   minimum |-> {}, maximum |-> {}, items |-> <<>>]

Tool(inputs) ==
  [method |-> "POST", path |-> <<Fixed("a")>>, query |-> No, headers |-> No,
   body |-> {}, inputs |-> inputs]

TypedCall(tool, args) == [kind |-> "typed", tool |-> tool, args |-> args, policy |-> DefaultPolicy]

-----------------------------------------------------------------------------
(* Inputs. *)

Only(v) == [first |-> v]

Values ==
  {Null, Bool, Text("x"), Text("y"), Text(""), Text(".."), Text("a/b"),
   Number(2), Number(3), Number(6), Array(No), Array(Only(Text("x"))), Array(Only(Null)),
   Array(Only(Array(Only(Text("y"))))), Object([k |-> Text("x")])}

PlainInputs == {Input(t, r, d) : t \in InputTypes, r \in BOOLEAN, d \in Values}
EnumInputs == {[Input(t, r, d) EXCEPT !.enum = {"x"}] :
                 t \in {"", "string", "array"}, r \in BOOLEAN, d \in Values}
BoundInputs == {[Input(t, FALSE, d) EXCEPT !.minimum = low, !.maximum = high] :
                  t \in {"", "integer", "number"}, d \in Values,
                  low \in {{}, {3}}, high \in {{}, {2}, {4}}}
ArrayInputs == {[Input("array", FALSE, d) EXCEPT !.items = <<item>>] :
                  d \in Values,
                  item \in {i \in PlainInputs \cup EnumInputs : i.default = Null /\ ~i.required}}

CallsWithInput ==
  {TypedCall([Tool([a |-> input]) EXCEPT !.path = p], args) :
     input \in PlainInputs \cup EnumInputs \cup BoundInputs \cup ArrayInputs,
     p \in {<<Fixed("a")>>, <<Fixed("v1"), Placeholder("a"), Fixed("")>>, <<Fixed("..")>>},
     args \in {No, [z |-> Null]} \cup {[a |-> v] : v \in Values \cup {Text("%2e")}}}

-----------------------------------------------------------------------------
(* Templates. *)

Leaves ==
  {Literal(Text("x")), Literal(Null), Format({"a"}), Format({"a", "b"}), Format({"c"})}
  \cup {Arg(n, d, o) : n \in {"a", "b", "c"},
          d \in {{}, {Literal(Text("x"))}, {Arg("b", {}, TRUE)}, {Map([k |-> Arg("b", {}, FALSE)])}},
          o \in BOOLEAN}

Templates ==
  Leaves
  \cup {Map([k |-> t]) : t \in Leaves} \cup {List(Only(t)) : t \in Leaves}
  \cup {List([first |-> Literal(Text("x")), second |-> t]) : t \in Leaves}
  \cup {Map([k |-> List(Only(t))]) : t \in Leaves}
  \cup {List(Only(List(Only(Map([k |-> Literal(Null)])))))}

TemplateTool(inputs, place, t) ==
  CASE place = "query" -> [Tool(inputs) EXCEPT !.query = [q |-> t]]
    [] place = "header" -> [Tool(inputs) EXCEPT !.headers = [h |-> t]]
    [] OTHER -> [Tool(inputs) EXCEPT !.body = {[type |-> place, template |-> t]}]

TemplateInputs ==
  {[a |-> a, b |-> b] :
     a \in {Input("string", TRUE, Null), Input("", FALSE, Null), Input("", FALSE, Text("y"))},
     b \in {Input("string", TRUE, Null), Input("string", FALSE, Null)}}

CallsWithTemplate ==
  {TypedCall(TemplateTool(inputs, place, t), args) :
     inputs \in TemplateInputs, place \in {"query", "header", "json", "text"}, t \in Templates,
     args \in {No, [b |-> Text("x")], [a |-> Text("x")], [a |-> Text("x"), b |-> Text("")],
               [a |-> Array(Only(Array(Only(Null))))], [a |-> Null]}}

-----------------------------------------------------------------------------
(* Raw requests and policies. *)

Raw(patterns) == [methods |-> {"GET", "POST"}, paths |-> patterns, headers |-> {"h"}]
RawArgs(p) == [method |-> "GET", path |-> p, query |-> {}, headers |-> {}, type |-> {}, body |-> {}]
RawCall(raw, args, pol) == [kind |-> "raw", tool |-> raw, args |-> args, policy |-> pol]

UpTo(n, S) == UNION {[1..k -> S] : k \in 1..n}

CallsWithPath ==
  {RawCall(Raw({pattern}), RawArgs(p), DefaultPolicy) :
     pattern \in UpTo(3, {"a", "*", "**", ""}), p \in UpTo(3, {"a", "b", "", ".."}) \cup {<<"%2e">>}}

RequestPolicies == {p \in MCPolicy : /\ p.redirects = "unset" /\ p.maxResponse = 0
                                     /\ p.types = {} /\ p.statuses = {}}

CallsWithBody ==
  {RawCall(Raw({<<"a">>, <<"b", "**">>}),
           [method |-> m, path |-> <<"a">>, query |-> q, headers |-> h, type |-> t, body |-> b],
           p) :
     m \in {"GET", "POST", "PUT"},
     q \in {{}, {Null}, {Object([k |-> Array(Only(Null))])}, {Object([k |-> Bool])}},
     h \in {{}, {"h"}, {"Authorization"}}, t \in {{}, {"text"}, {"xml"}},
     b \in {{}, {Text("")}, {Object(No)}}, p \in RequestPolicies}

CallsWithPolicy == {RawCall(Raw({<<"a">>}), RawArgs(<<"a">>), p) : p \in MCPolicy}

-----------------------------------------------------------------------------
(* Command lines. *)

Texts == {"x", "null", "true", "TRUE", "3", " 3", "1.0", "1.5", "[null]", "nan"}

Options ==
  {Flag("a"), Flag("server"), Flag("json"), Flag("help"), Separator,
   Given("json", "true"), Given("help", "x")}
  \cup {Word(x) : x \in Texts} \cup {Given("a", x) : x \in Texts} \cup {Given("server", "service")}

Few == {Flag("a"), Flag("server"), Separator, Word("service"), Word("3"), Given("a", "x")}

Prefixes ==
  {<<Flag("server"), Word("service"), Flag("tool"), Word("tool")>>,
   <<Given("tool", "tool"), Word("service")>>,
   <<Word("service"), Word("tool")>>,
   <<Flag("tool"), Word("tool")>>}

Lines ==
  {p \o l : p \in Prefixes, l \in UpTo(2, Options) \cup UpTo(3, Few) \cup {<<>>}}
  \cup {<<Word("service"), Word("tool"), Separator>> \o l : l \in UpTo(3, Few)}

\* An input that has the name of an option of the command.
LineTool ==
  Tool([a |-> [Input("string", TRUE, Null) EXCEPT !.enum = {"x"}],
        server |-> Input("string", FALSE, Text("y"))])

\* Lines that differ in the text of an argument, for inputs of all types.
TextLines ==
  {<<Word("service"), Word("tool")>> \o l :
     l \in {<<>>, <<Flag("a")>>} \cup {<<Given("a", x)>> : x \in Texts}
          \cup {<<Separator, Flag("a"), Word(x)>> : x \in Texts}}

TextTools == {Tool([a |-> Input(t, r, d)]) : t \in InputTypes, r \in BOOLEAN, d \in {Null, Bool}}

Typed(line, tool) == [line |-> line, tool |-> tool, policy |-> DefaultPolicy]

Commands ==
  {Typed(line, LineTool) : line \in Lines}
  \cup {Typed(line, tool) : line \in TextLines, tool \in TextTools}

Changed == {Tool([a |-> Input("boolean", TRUE, Null)])}

Init ==
  \/ CommandInit(CallsWithInput, Commands)
  \/ CommandInit(CallsWithTemplate, {})
  \/ CommandInit(CallsWithPath, {})
  \/ CommandInit(CallsWithBody, {})
  \/ CommandInit(CallsWithPolicy, {})

Spec == Init /\ [][CommandNext(Changed)]_commandVars /\ CommandFairness

=============================================================================
