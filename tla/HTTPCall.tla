------------------------------ MODULE HTTPCall ------------------------------
(***************************************************************************)
(* A call of a tool of an HTTP service: Call in httpbinding/httpbinding.go *)
(* compiles the arguments (module Binding) and executes the request        *)
(* (module Exchange).  A call c = [kind, tool, args, policy], with kind    *)
(* "typed" or "raw", is of a tool of a service that config.Load has        *)
(* accepted; the validator and the code that relies on it are in different *)
(* packages and have much in common that is written twice.  There is no    *)
(* set of all calls, so whoever uses this module says which it means:      *)
(* Starts(c) is the initial state for c.                                   *)
(***************************************************************************)
EXTENDS Binding, Exchange

VARIABLES
  call,   \* the call, until its request is sent
  path,   \* the decoded path of the request, between compiling and sending
  fault   \* why the call was refused

vars == <<exchangeVars, call, path, fault>>

NoFault == Fault("none", "")

\* validateHTTPServices accepts the tool; a path is a sequence of texts.
Loadable(c) ==
  \/ c.kind = "typed" /\ ToolOK(c.tool)
  \/ c.kind = "raw" /\ RawOK(c.tool) /\ c.args.path \in Seq(STRING)

CompileFaults(c) ==
  IF c.kind = "typed" THEN TypedFaults(c.tool, c.args) ELSE RawFaults(c.tool, c.args)

RequestMethod(c) == IF c.kind = "typed" THEN c.tool.method ELSE c.args.method

\* The type and the possible sizes of the request's body.
RequestBody(c) ==
  IF c.kind = "typed"
    THEN {[type |-> b.type, sizes |-> Sizes(Rendered(b.template, Effective(c.tool, c.args)), b.type)]
            : b \in c.tool.body}
    ELSE {[type |-> RawType(c.args), sizes |-> Sizes(v, RawType(c.args))] : v \in c.args.body}

RequestPath(c) ==
  IF c.kind = "typed"
    THEN [i \in DOMAIN c.tool.path |-> Segment(c.tool.path[i], Effective(c.tool, c.args))]
    ELSE c.args.path

\* The policy's faults for each size that the body may have.
PolicyFaults(c) ==
  LET bodies == RequestBody(c)
  IN  IF bodies = {} THEN {RequestFaults(c.policy, RequestMethod(c), "", 0)}
      ELSE UNION {{RequestFaults(c.policy, RequestMethod(c), b.type, n) : n \in b.sizes}
                    : b \in bodies}

Starts(c) ==
  /\ Loadable(c)
  /\ call = c
  /\ policy = c.policy
  /\ ExchangeInit
  /\ path = <<>>
  /\ fault = NoFault

Refuse(f) ==
  /\ fault' = f
  /\ Fail("refused")
  /\ UNCHANGED <<call, path>>

\* compileTypedRequest and compileRawRequest refuse the arguments ...
RefuseArguments ==
  /\ stage = "idle"
  /\ \E f \in CompileFaults(call) : Refuse(f)

\* ... or the request that they make, ...
RefuseRequest ==
  /\ stage = "idle"
  /\ CompileFaults(call) = {}
  /\ \E faults \in PolicyFaults(call) : \E f \in faults : Refuse(f)

\* ... or return a plan.
CompileRequest ==
  /\ stage = "idle"
  /\ CompileFaults(call) = {}
  /\ {} \in PolicyFaults(call)
  /\ stage' = "compiled"
  /\ path' = RequestPath(call)
  /\ UNCHANGED <<policy, at, hops, reply, outcome, call, fault>>

\* The request is sent; its call and its path play no part any more.
SendRequest ==
  /\ Send
  /\ call' = None
  /\ path' = <<>>
  /\ UNCHANGED fault

Untouched == UNCHANGED <<call, path, fault>>

Next ==
  \/ RefuseArguments \/ RefuseRequest \/ CompileRequest \/ SendRequest
  \/ \E url \in Url : Redirect(url) /\ Untouched
  \/ \E r \in Replies : Reply(r) /\ Untouched
  \/ TransportFails /\ Untouched
  \/ TimesOut /\ Untouched
  \/ Finish /\ Untouched

-----------------------------------------------------------------------------
(* Properties. *)

\* What config.Load checks ahead of calls does not make a call fail.  The renderer never
\* misses an input that the validator has let a template use, nor does it run out of
\* the depth that the validator has granted, and a default that is filled in passes
\* the checks that arguments have to pass (http.go:460-677 against httpbinding.go:413-503
\* and template.go:24-98).  Not checked ahead, and so no part of this: a literal that is
\* no scalar where a scalar is needed, a default that is deeper than an argument may be,
\* a default that is no path segment.
OnlyArgumentsRefused ==
  /\ fault.why \notin {"missing", "deep"}
  /\ fault.why = "invalid" => fault.name \in DOMAIN call.args
  /\ fault.why = "required" => call.tool.inputs[fault.name].default = Null

\* docs/http-services.md:240-241: "`*` matches exactly one segment and `**` matches zero
\* or more segments", for all patterns and paths, with empty segments at any place.
PatternsMeanWhatTheySay ==
  stage = "idle" /\ call # None /\ call.kind = "raw" =>
    \A p \in call.tool.paths :
      MatchPathSegments(PathSegments(p), PathSegments(call.args.path))
        <=> PathMatches(p, call.args.path)

\* Whatever the arguments, the request's path is one that the configuration describes:
\* it matches an allowed pattern, or it is the tool's path with each placeholder
\* replaced by one segment; and it does not climb.
PathAsConfigured ==
  stage = "compiled" =>
    /\ \A i \in DOMAIN path : path[i] \notin {".", ".."}
    /\ IF call.kind = "raw" THEN \E p \in call.tool.paths : PathMatches(p, path)
       ELSE LET segments == call.tool.path
            IN  /\ DOMAIN path = DOMAIN segments
                /\ \A i \in DOMAIN path :
                     IF segments[i].tag = "fixed" THEN path[i] = segments[i].text
                     ELSE path[i] \notin {"", "a/b"}

=============================================================================
