------------------------------ MODULE Exchange ------------------------------
(***************************************************************************)
(* One HTTP exchange: execute in httpbinding/httpbinding.go, with what     *)
(* Go's client does in between.  The upstream server redirects, answers,   *)
(* stalls or fails as it likes.  A body is its size; the limit on it is    *)
(* enforced by reading one byte more than is allowed.                      *)
(***************************************************************************)
EXTENDS Integers

CONSTANTS
  Url,              \* where requests may be sent
  Home,             \* the configured target
  SameOrigin,       \* the URLs with Home's scheme and host
  None,
  MaxHops,          \* the redirects that Go's client follows on its own, 9 in 10 requests
  DefaultResponse,  \* DefaultHTTPMaxResponseBytes
  MaxInt,           \* the largest int64, 2^63 - 1
  MaxSize,          \* bound: the largest body of a response
  Type,             \* content types
  Policy            \* the policies of loaded configurations

Statuses == {200, 302, 404}
Replies == [status : Statuses, size : 0..MaxSize, type : Type]

\* validateHTTPPolicy accepts p; `redirects' is "unset" for the empty string.
PolicyOK(p) ==
  /\ p.redirects \in {"unset", "disabled", "same-origin", "any"}
  /\ p.maxResponse \in 0..MaxInt
  /\ p.types \subseteq Type

ASSUME ExchangeAssumption ==
  /\ SameOrigin \subseteq Url
  /\ Home \in SameOrigin
  /\ None \notin Url \cup Replies \cup Nat
  /\ MaxHops \in Nat
  /\ MaxSize \in Nat
  /\ MaxInt \in Nat
  /\ DefaultResponse \in 1..MaxInt
  /\ \A p \in Policy : PolicyOK(p)

VARIABLES
  stage,    \* "idle", "compiled", "sent", "answered" or "done"
  policy,   \* the service's policy
  at,       \* where the last request went
  hops,     \* redirects followed under Go's own limit
  reply,    \* the final response
  outcome   \* the error, or "none", and the Result with it

exchangeVars == <<stage, policy, at, hops, reply, outcome>>

Stages == {"idle", "compiled", "sent", "answered", "done"}

Errors == {"none", "refused", "redirect", "timeout", "transport", "type", "size", "status"}
Outcome == [error : Errors, body : Nat \cup {None}, truncated : BOOLEAN]
Failure(why) == [error |-> why, body |-> None, truncated |-> FALSE]

ExchangeTypeOK ==
  /\ stage \in Stages
  /\ policy \in Policy
  /\ at \in Url \cup {None}
  /\ hops \in 0..MaxHops
  /\ reply \in Replies \cup {None}
  /\ outcome \in Outcome \cup {None}

ExchangeInit ==
  /\ stage = "idle"
  /\ policy \in Policy
  /\ at = None
  /\ hops = 0
  /\ reply = None
  /\ outcome = None

-----------------------------------------------------------------------------
\* effectivePolicy: zero values are defaults.
Redirects(p) == IF p.redirects = "unset" THEN "same-origin" ELSE p.redirects
Limit(p) == IF p.maxResponse = 0 THEN DefaultResponse ELSE p.maxResponse

\* contentTypeAllowed and successfulStatus; an empty list has a meaning of its own.
ReplyTypeAllowed(p, type) == p.types = {} \/ type \in p.types
Successful(p, status) == IF p.statuses = {} THEN status \in 200..299 ELSE status \in p.statuses

Fail(why) ==
  /\ stage' = "done"
  /\ outcome' = Failure(why)
  /\ UNCHANGED <<policy, at, hops, reply>>

\* The arguments compile to a request, or are refused; HTTPCall says which.
Compile ==
  /\ stage = "idle"
  /\ \/ stage' = "compiled" /\ UNCHANGED <<policy, at, hops, reply, outcome>>
     \/ Fail("refused")

Send ==
  /\ stage = "compiled"
  /\ stage' = "sent"
  /\ at' = Home
  /\ hops' = 0
  /\ UNCHANGED <<policy, reply, outcome>>

Answer(r) ==
  /\ reply' = r
  /\ stage' = "answered"
  /\ UNCHANGED <<policy, at, hops, outcome>>

\* Fault: a redirect is compared with the place that redirects, not with the first.
AllowedFromHere(url) ==
  CASE Redirects(policy) = "same-origin" -> url \in SameOrigin \/ at # Home
    [] Redirects(policy) = "any" -> hops < MaxHops
    [] OTHER -> FALSE

\* CheckRedirect lets the client follow a redirect.
MayFollow(url) ==
  CASE Redirects(policy) = "same-origin" -> url \in SameOrigin
    [] Redirects(policy) = "any" -> hops < MaxHops
    [] OTHER -> FALSE

\* The upstream server redirects to url.
Redirect(url) ==
  /\ stage = "sent"
  /\ Redirects(policy) # "disabled"
  /\ IF MayFollow(url)
       THEN /\ at' = url
            /\ hops' = IF Redirects(policy) = "any" THEN hops + 1 ELSE hops
            /\ UNCHANGED <<stage, policy, reply, outcome>>
       ELSE Fail("redirect")

\* The upstream server answers.  A status of 3xx may be an answer under every policy: Go's
\* client does not follow a 300 or a 304, or one without a Location.
Reply(r) ==
  /\ stage = "sent"
  /\ Answer(r)

TransportFails ==
  /\ stage \in {"sent", "answered"}
  /\ Fail("transport")

\* Fault: the timeout covers the time until the response begins.
TimesOutBeforeAnswer ==
  /\ stage = "sent"
  /\ Fail("timeout")

\* http.Client's Timeout covers redirects and the reading of the body.
TimesOut ==
  /\ stage \in {"sent", "answered"}
  /\ Fail("timeout")

\* Fault: no more is read than is allowed.
ReadLimitExact == Limit(policy)

\* The sum is an int64.
ReadLimit == IF Limit(policy) = MaxInt THEN -MaxInt - 1 ELSE Limit(policy) + 1

\* io.LimitReader reads nothing when its limit is not positive.
BytesRead ==
  IF ReadLimit <= 0 THEN 0
  ELSE IF reply.size < ReadLimit THEN reply.size ELSE ReadLimit

\* The body has been read as far as the limit allows; the rest of execute.
Finish ==
  LET truncated == BytesRead > Limit(policy)
      kept == IF truncated THEN Limit(policy) ELSE BytesRead
      Result(why, body) == [error |-> why, body |-> body, truncated |-> truncated]
  IN  /\ stage = "answered"
      /\ stage' = "done"
      /\ outcome' =
           CASE kept > 0 /\ ~ReplyTypeAllowed(policy, reply.type) -> Result("type", 0)
             [] OTHER ->
                  IF truncated THEN Result("size", kept)
                  ELSE IF ~Successful(policy, reply.status) THEN Result("status", kept)
                  ELSE Result("none", kept)
      /\ UNCHANGED <<policy, at, hops, reply>>

ExchangeStep ==
  \/ Compile
  \/ Send
  \/ \E url \in Url : Redirect(url)
  \/ \E r \in Replies : Reply(r)
  \/ TransportFails
  \/ TimesOut
  \/ Finish

ExchangeSpec == ExchangeInit /\ [][ExchangeStep]_exchangeVars

-----------------------------------------------------------------------------
(* Properties. *)

\* httpbinding.go:335-351: unless the policy is "any", nothing is requested from
\* another origin than the configured one, however long the chain of redirects.
StaysHome ==
  stage \in {"sent", "answered"} /\ Redirects(policy) # "any" => at \in SameOrigin

\* httpbinding.go:357-410: success is reported only of a whole body, of an allowed status
\* and, unless it is empty, type; and of any other answer no more than the limit, with the
\* cut shown.  The exception is a limit of MaxInt, which overflows at line 358: nothing is
\* read then, and any response of a good status is reported as an empty success.
ResultIsHonest ==
  stage = "done" /\ outcome.body # None =>
    /\ outcome.body <= Limit(policy)
    /\ outcome.error = "none" =>
         /\ Successful(policy, reply.status)
         /\ outcome.body > 0 => ReplyTypeAllowed(policy, reply.type)
    /\ Limit(policy) < MaxInt =>
         /\ outcome.truncated <=> reply.size > Limit(policy)
         /\ outcome.error = "none" => outcome.body = reply.size

\* The inductive invariant behind both; a response that is read has been received.
ExchangeIInv ==
  /\ ExchangeTypeOK
  /\ stage = "answered" => reply # None
  /\ StaysHome
  /\ ResultIsHonest

=============================================================================
