------------------------------ MODULE Binding -------------------------------
(***************************************************************************)
(* The tools of an HTTP service and the requests that their calls compile  *)
(* to: config/http.go validates the tools when a configuration is loaded,  *)
(* httpbinding/httpbinding.go validates arguments and compiles requests.   *)
(*                                                                         *)
(* A path is the sequence of what stands between its slashes: <<"">> is /  *)
(* and <<"a", "">> is /a/.  Names, texts and content types are those of    *)
(* small sets; that they are well-formed is left out.                      *)
(***************************************************************************)
EXTENDS Template, FiniteSetsExt

\* What a check may report, or else what the next one may.
OrElse(faults, others) == IF faults # {} THEN faults ELSE others

Fault(why, name) == [why |-> why, name |-> name]
Unless(condition, why) == IF condition THEN {} ELSE {Fault(why, "")}
FaultsIn(whys, name) == {Fault(why, name) : why \in whys}

CONSTANT DefaultRequest  \* DefaultHTTPMaxRequestBytes

ASSUME BindingAssumption == DefaultRequest \in Nat \ {0}

-----------------------------------------------------------------------------
(* Inputs.  `minimum' and `maximum' hold one value or none; a default of    *)
(* Null is none.  `items' is the sequence of the declarations below an      *)
(* array: that of its items, that of their items, and so on.                *)

InputTypes == {"", "string", "integer", "number", "boolean", "object", "array"}

\* What the input declares of the nodes that are k levels below the root of its values.
Level(input, k) ==
  IF k = 0 THEN input
  ELSE [input.items[k] EXCEPT !.items = SubSeq(input.items, k + 1, Len(input.items))]

HasType(type, node) ==
  CASE type = "" -> TRUE
    [] type = "integer" -> node.kind = "number" /\ node.half % 2 = 0
    [] OTHER -> node.kind = type

InEnum(input, node) ==
  input.enum # {} => node.kind = "string" /\ node.text \in input.enum

InBounds(input, node) ==
  node.kind = "number" =>
    /\ \A m \in input.minimum : node.half >= m
    /\ \A m \in input.maximum : node.half <= m

NodeOK(input, node) ==
  HasType(input.type, node) /\ InEnum(input, node) /\ InBounds(input, node)

\* Fault: the items of a default are not looked at.
DefaultOKShallow(input, v) == NodeOK(input, v[<<>>])

\* validateHTTPInputDefault accepts v.
DefaultOK(input, v) ==
  \A k \in 0..Len(input.items) :
    \A p \in {q \in DOMAIN v : Len(q) = k} : NodeOK(Level(input, k), v[p])

\* validateInputValue accepts v.
ValueOK(input, v) ==
  \A k \in 0..Len(input.items) :
    \A p \in {q \in DOMAIN v : Len(q) = k} :
      IF v[p].kind = "null" THEN Level(input, k).type = ""
      ELSE NodeOK(Level(input, k), v[p])

\* validateHTTPInput accepts one declaration ...
DeclarationOK(input) ==
  /\ input.type \in InputTypes
  /\ input.items # <<>> => input.type = "array"
  /\ \A low \in input.minimum, high \in input.maximum : low <= high
  /\ input.minimum \cup input.maximum # {} => input.type \in {"integer", "number"}
  /\ input.enum # {} => input.type \in {"", "string"}
  /\ input.default # Null => DefaultOK(input, input.default)

\* ... and those below it.
InputOK(input) ==
  DeclarationOK(input) /\ \A k \in 1..Len(input.items) : DeclarationOK(Level(input, k))

\* validateTypedArguments: the arguments with the defaults of those that are not given ...
Effective(tool, args) ==
  LET defaulted == {n \in DOMAIN tool.inputs \ DOMAIN args : tool.inputs[n].default # Null}
  IN  [n \in DOMAIN args \cup defaulted |->
         IF n \in DOMAIN args THEN args[n] ELSE tool.inputs[n].default]

\* ... and what may be reported of them.
ArgumentFaults(tool, args) ==
  LET effective == Effective(tool, args)
  IN  IF ~(DOMAIN args \subseteq DOMAIN tool.inputs)
        THEN {Fault("unknown", n) : n \in DOMAIN args \ DOMAIN tool.inputs}
        ELSE {Fault("required", n) : n \in {m \in DOMAIN tool.inputs \ DOMAIN effective :
                                              tool.inputs[m].required}}
             \cup {Fault("invalid", n) : n \in {m \in DOMAIN effective :
                                                  ~ValueOK(tool.inputs[m], effective[m])}}

-----------------------------------------------------------------------------
(* Paths of typed tools: segments are fixed or {name} placeholders. *)

Fixed(text) == [tag |-> "fixed", text |-> text]
Placeholder(name) == [tag |-> "placeholder", name |-> name]
Segments == [tag : {"fixed"}, text : STRING] \cup [tag : {"placeholder"}, name : STRING]

\* pathSegmentTraverses; "%2e" stands for what . and .. are when they are escaped, up to four
\* times over.
Traverses(text) == text \in {".", "..", "%2e"}

\* Fault: only empty values are refused.
NotEmpty(text) == text # ""

\* renderTypedPath escapes the text, so "%2e" is one segment; "a/b" stands for the texts with
\* a slash or a backslash.
OneSegment(text) == text \notin {"", ".", "..", "a/b"}

\* validateHTTPTool on the path; Init gives no path that begins with two slashes.
ToolPathOK(tool) ==
  \A i \in DOMAIN tool.path :
    LET segment == tool.path[i]
    IN  IF segment.tag = "fixed" THEN ~Traverses(segment.text)
        ELSE /\ segment.name \in DOMAIN tool.inputs
             /\ tool.inputs[segment.name].required
             /\ tool.inputs[segment.name].type \in {"string", "integer"}

Decimal(v) == IF Kind(v) = "string" THEN v[<<>>].text ELSE "number"

\* The segment that renderTypedPath makes.
Segment(segment, args) ==
  IF segment.tag = "fixed" THEN segment.text ELSE Decimal(args[segment.name])

SegmentAccepted(segment, args) ==
  segment.tag = "placeholder" =>
    /\ Scalar(args[segment.name], <<>>)
    /\ OneSegment(Decimal(args[segment.name]))

SegmentFaults(segment, args) ==
  IF segment.tag = "placeholder" /\ segment.name \notin DOMAIN args
    THEN {Fault("missing", segment.name)}
  ELSE IF SegmentAccepted(segment, args) THEN {}
  ELSE {Fault("segment", segment.name)}

\* renderTypedPath: the first segment that cannot be made is reported.
PathFaults(tool, args) ==
  LET failing == {i \in DOMAIN tool.path : SegmentFaults(tool.path[i], args) # {}}
  IN  IF failing = {} THEN {} ELSE SegmentFaults(tool.path[Min(failing)], args)

-----------------------------------------------------------------------------
(* Allowlists of paths. *)

\* splitPathSegments
PathSegments(path) ==
  LET full == {i \in DOMAIN path : path[i] # ""}
  IN  IF full = {} THEN <<>> ELSE SubSeq(path, Min(full), Max(full))

\* Fault: ** stands for one segment or more.
MatchSomeSegments(pattern, candidate) ==
  LET matches[i \in 1..Len(pattern) + 1] ==
        [j \in 1..Len(candidate) + 1 |->
           IF i > Len(pattern) THEN j > Len(candidate)
           ELSE /\ j <= Len(candidate)
                /\ pattern[i] \in {"*", "**", candidate[j]}
                /\ \/ matches[i + 1][j + 1]
                   \/ pattern[i] = "**" /\ matches[i][j + 1]]
  IN  matches[1][1]

\* Whether the pattern from its segment i on matches the candidate from its segment j on.
SegmentMatches(pattern, candidate) ==
  LET matches[i \in 1..Len(pattern) + 1] ==
        [j \in 1..Len(candidate) + 1 |->
           IF i > Len(pattern) THEN j > Len(candidate)
           ELSE IF pattern[i] = "**"
             THEN matches[i + 1][j] \/ (j <= Len(candidate) /\ matches[i][j + 1])
           ELSE /\ j <= Len(candidate)
                /\ pattern[i] \in {"*", candidate[j]}
                /\ matches[i + 1][j + 1]]
  IN  matches

MatchPathSegments(pattern, candidate) == SegmentMatches(pattern, candidate)[1][1]

MatchesAnyPath(patterns, candidate) ==
  \E p \in patterns : MatchPathSegments(PathSegments(p), PathSegments(candidate))

\* The reference: the candidate can be cut into consecutive parts, one for each
\* segment of the pattern, of one segment each where the pattern has no **.
PathMatches(pattern, candidate) ==
  LET p == PathSegments(pattern)
      c == PathSegments(candidate)
  IN  \E cut \in [0..Len(p) -> 0..Len(c)] :
        /\ cut[0] = 0 /\ cut[Len(p)] = Len(c)
        /\ \A i \in DOMAIN p :
             IF p[i] = "**" THEN cut[i] >= cut[i - 1]
             ELSE /\ cut[i] = cut[i - 1] + 1
                  /\ p[i] \in {"*", c[cut[i]]}

\* canonicalizeRawPath
PathAccepted(path) ==
  /\ Len(path) > 1 => path[1] # ""
  /\ \A i \in DOMAIN path : ~Traverses(path[i])

\* validHTTPPathPattern refuses the same; a wildcard is always a whole segment.
PatternAccepted(pattern) == PathAccepted(pattern)

-----------------------------------------------------------------------------
(* Requests. *)

\* addQueryValue accepts what stands at p.
Addable(v, p) ==
  \/ Scalar(v, p) \/ v[p].kind \in {"null", "object"}
  \/ v[p].kind = "array" /\ \A q \in Children(v, p) : Scalar(v, q)

\* What a template renders to fits its place, the query or a header.
Fits(v, place) == IF place = "query" THEN Addable(v, <<>>) ELSE Scalar(v, <<>>)

\* renderQuery and the rendering of headers: each value must fit its place.
RenderFaults(templates, args, place) ==
  UNION {LET faults == Faults(templates[n], args)
         IN  IF faults # {} THEN FaultsIn(faults, n)
             ELSE Unless(Present(templates[n], args, <<>>) => Fits(Rendered(templates[n], args), place),
                         "not a scalar")
           : n \in DOMAIN templates}

\* encodeBody
EncodeFaults(v, type) ==
  Unless(type = "json" \/ (type = "text" /\ Kind(v) = "string"), "unsupported body")

BodyFaults(tool, args) ==
  UNION {LET faults == Faults(body.template, args)
         IN  IF faults # {} THEN FaultsIn(faults, "body")
             ELSE IF ~Present(body.template, args, <<>>) THEN {Fault("omitted", "body")}
             ELSE EncodeFaults(Rendered(body.template, args), body.type)
           : body \in tool.body}

\* The sizes that the encoded body may have.
Sizes(v, type) == IF type = "text" /\ v = Text("") THEN {0} ELSE 1..2

\* An empty list of patterns allows every content type.
TypeAllowed(type, allowed) == allowed = {} \/ type \in allowed

RequestLimit(policy) == IF policy.maxRequest = 0 THEN DefaultRequest ELSE policy.maxRequest

\* validateRequestPolicy
RequestFaults(policy, method, type, size) ==
  OrElse(Unless(size <= RequestLimit(policy), "too large"),
  OrElse(Unless(size > 0 => TypeAllowed(type, policy.requestTypes), "content type"),
         Unless(size > 0 => method \notin {"GET", "HEAD"}, "body not allowed")))

\* compileTypedRequest, up to the policy.
TypedFaults(tool, args) ==
  LET effective == Effective(tool, args)
  IN  OrElse(ArgumentFaults(tool, args),
      OrElse(PathFaults(tool, effective),
      OrElse(RenderFaults(tool.query, effective, "query"),
      OrElse(RenderFaults(tool.headers, effective, "header"),
             BodyFaults(tool, effective)))))

\* protectedHeader
ProtectedHeaders == {"Authorization"}

RawType(args) == IF args.type = {} THEN "json" ELSE CHOOSE t \in args.type : TRUE

\* compileRawRequest, up to the policy; `type', `query' and `body' hold one value or none.
RawFaults(raw, args) ==
  OrElse(Unless(args.method \in raw.methods, "method"),
  OrElse(Unless(PathAccepted(args.path), "malformed path"),
  OrElse(Unless(MatchesAnyPath(raw.paths, args.path), "path"),
  OrElse(Unless(\A q \in args.query : /\ Kind(q) = "object"
                                      /\ \A p \in Children(q, <<>>) : Addable(q, p), "query"),
  OrElse(Unless(args.headers \subseteq raw.headers \ ProtectedHeaders, "header"),
  OrElse(Unless(args.body = {} => args.type = {}, "type without body"),
         UNION {EncodeFaults(v, RawType(args)) : v \in args.body}))))))

-----------------------------------------------------------------------------
(* What a loaded configuration may contain. *)

\* What a tool of a configuration is decoded to, as far as the types matter.
IsTool(tool) ==
  /\ tool.path \in Seq(Segments)
  /\ DOMAIN tool.inputs \subseteq STRING
  /\ \A n \in DOMAIN tool.inputs : Len(tool.inputs[n].items) \in Nat

IsRaw(raw) == raw.paths \subseteq Seq(STRING)

\* validateHTTPTool
ToolOK(tool) ==
  /\ IsTool(tool)
  /\ \A n \in DOMAIN tool.inputs : InputOK(tool.inputs[n])
  /\ ToolPathOK(tool)
  /\ \A n \in DOMAIN tool.query : TemplateOK(tool.query[n], tool.inputs)
  /\ DOMAIN tool.headers \cap ProtectedHeaders = {}
  /\ \A n \in DOMAIN tool.headers : TemplateOK(tool.headers[n], tool.inputs)
  /\ \A body \in tool.body :
       /\ body.type \in {"json", "text"}
       /\ TemplateOK(body.template, tool.inputs)

\* validateHTTPRawTool
RawOK(raw) ==
  /\ IsRaw(raw)
  /\ raw.paths # {}
  /\ \A p \in raw.paths : PatternAccepted(p)
  /\ raw.headers \cap ProtectedHeaders = {}

=============================================================================
